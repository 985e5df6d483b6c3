----------------------------- MODULE SubtreeLock -----------------------------
(****************************************************************************)
(* What app/locks.py promises, told without paths, holders or tasks: a      *)
(* readers-writer lock on every point of a name space, taken and given back *)
(* for a whole region at once.  A client is one acquisition (one entered    *)
(* `async with`), so that a task may hold several.                          *)
(****************************************************************************)

CONSTANTS
    Point,    \* the points of the name space: here, normalized paths
    Region,   \* the sets of points that can be locked at once
    Client    \* the acquisitions that may hold a region

VARIABLE grants    \* the regions held, by whom and how

Grant == [client : Client, mode : {"READ", "WRITE"}, region : Region]

TypeOK == grants \subseteq Grant

Init == grants = {}

\* Two grants may share a point only for reading.
Compatible(g, h) ==
    (g.region \cap h.region) # {} => g.mode = "READ" /\ h.mode = "READ"

\* A client that holds nothing is given a region, all of it at once.
Take(g) ==
    /\ \A h \in grants : g.client # h.client /\ Compatible(g, h)
    /\ grants' = grants \cup {g}

\* A client gives back all it holds.
GiveBack(c) == grants' = {g \in grants : g.client # c}

Next ==
    \/ \E g \in Grant : Take(g)
    \/ \E c \in Client : GiveBack(c)

Spec == Init /\ [][Next]_grants

\* A point that is written has one holder.
Exclusive ==
    \A p \in Point : \A g, h \in grants :
        p \in g.region \cap h.region /\ g.mode = "WRITE" => g = h

=============================================================================
