----------------------------- MODULE AtomicFile ------------------------------
(****************************************************************************)
(* What an atomic write promises to everybody else who looks at the file,   *)
(* also after the machine stops: the old content or the whole new content,  *)
(* never anything between them, and the new one for good once the write     *)
(* has returned.                                                            *)
(****************************************************************************)

VARIABLES
    target,   \* the content to be written
    value,    \* the content that readers see
    disk,     \* the content that a crash can bring back
    status    \* "writing", "published", "ok", "failed" or "dead"

vars == <<target, value, disk, status>>

Init == status = "writing" /\ disk = value

\* The whole content appears at once.
Publish ==
    /\ status = "writing"
    /\ value' = target
    /\ status' = "published"
    /\ UNCHANGED <<target, disk>>

\* The write returns; the content outlives a crash.
Return ==
    /\ status = "published"
    /\ disk' = value
    /\ status' = "ok"
    /\ UNCHANGED <<target, value>>

\* The write raises; the old content stays, or the new one, but nothing else.
Fail ==
    /\ status \in {"writing", "published"}
    /\ status' = "failed"
    /\ UNCHANGED <<target, value, disk>>

\* The machine stops: readers find what is on disk, or what was on its way there.
Crash ==
    /\ value' \in {value, disk}
    /\ disk' = value'
    /\ status' = IF status \in {"writing", "published"} THEN "dead" ELSE status
    /\ UNCHANGED target

Next == Publish \/ Return \/ Fail \/ Crash

Spec == Init /\ [][Next]_vars

=============================================================================
