---------------------------- MODULE UploadSession -----------------------------
(****************************************************************************)
(* What a multipart upload promises to a client that looks at committed     *)
(* state only: it is opened once, collects parts, and ends once, either by  *)
(* becoming the object, made of exactly the parts that were listed, or by   *)
(* being given up.                                                          *)
(****************************************************************************)

CONSTANTS
    Part,         \* part numbers
    Payload,      \* payloads of parts
    None,         \* no part
    Other         \* the object as a plain PUT leaves it

VARIABLES
    state,        \* "none", "open" or "ended"
    parts,        \* parts[n]: the payload of part n
    object        \* None, Other, or a function from parts to payloads

vars == <<state, parts, object>>

Parts == [Part -> Payload \cup {None}]
NoParts == [n \in Part |-> None]

Init ==
    /\ state = "none"
    /\ parts = NoParts
    /\ object = None

Open ==
    /\ state = "none"
    /\ state' = "open"
    /\ UNCHANGED <<parts, object>>

\* A part is uploaded, or replaced.
PutPart ==
    /\ state = "open"
    /\ \E n \in Part, p \in Payload : parts' = [parts EXCEPT ![n] = p]
    /\ UNCHANGED <<state, object>>

\* The object is made of parts that are there at this moment, not of all necessarily.
Complete ==
    /\ state = "open"
    /\ \E list \in Parts :
          /\ list # NoParts
          /\ \A n \in Part : list[n] \in {None, parts[n]}
          /\ object' = list
    /\ state' = "ended"
    /\ parts' = NoParts

Abort ==
    /\ state = "open"
    /\ state' = "ended"
    /\ parts' = NoParts
    /\ UNCHANGED object

PutObject ==
    /\ object' = Other
    /\ UNCHANGED <<state, parts>>

Next == Open \/ PutPart \/ Complete \/ Abort \/ PutObject

Spec == Init /\ [][Next]_vars

===============================================================================
