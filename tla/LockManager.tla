----------------------------- MODULE LockManager -----------------------------
(****************************************************************************)
(* app/locks.py: the in-process hierarchical lock manager, used by asyncio  *)
(* tasks that can be cancelled at any await.                                *)
(*                                                                          *)
(* The asyncio.Condition guarding the holder list is never held across an   *)
(* await other than its own wait(), so each critical section (first try,    *)
(* re-check after a notification, removal) is one step.  What interleaves   *)
(* is everything between them: a notified waiter runs later, a release is a *)
(* task of its own that runs later, and a cancellation may arrive anywhere. *)
(*                                                                          *)
(* A task runs one plan: the locks it would nest, outermost first.  It may  *)
(* leave early, since any body may raise.                                   *)
(****************************************************************************)
EXTENDS Naturals, SequencesExt

CONSTANTS
    Task,         \* asyncio tasks: one HTTP request or background job each
    Plan,         \* the nestings of locks that tasks run
    Name,         \* file and directory names
    Path,         \* the normalized absolute paths in use, sequences of names
    NoFilename    \* the filename of a directory resource (None)

LockType == {"READ", "WRITE"}

IsDirectory(r) == r.filename = NoFilename

PathOf(r) == IF IsDirectory(r) THEN r.directory ELSE Append(r.directory, r.filename)

\* LockResource: a directory, or a file given by its directory and its name.
Resource ==
    {r \in [directory : Path, filename : Name \cup {NoFilename}] : PathOf(r) \in Path}

Lock == [resource : Resource, lock_type : LockType]

ASSUME PathAssumption == Path \subseteq Seq(Name) /\ NoFilename \notin Name
ASSUME PlanAssumption == Plan \subseteq Seq(Lock)

VARIABLES
    holders,      \* the registered locks (LockManager._holders)
    plan,         \* plan[t]: the plan task t runs
    depth,        \* depth[t]: how many `async with` blocks t is inside of
    leaving,      \* leaving[t]: t is on its way out of all its blocks
    pc,           \* pc[t]: where t is suspended
    releaseTask   \* holders whose release runs as a task of its own

vars == <<holders, plan, depth, leaving, pc, releaseTask>>

\* "waiting": in condition.wait(); "notified": woken, not yet rescheduled;
\* "releasing": awaiting the shielded release; "cancelled": the same, after one
\* cancellation; "running": anywhere else.
PC == {"running", "waiting", "notified", "releasing", "cancelled", "done"}

\* LockHolder.  `level` is not in the code: it tells apart entries that are equal
\* to the program and therefore interchangeable for it.
Holder == [resource : Resource, lock_type : LockType, owner : Task, level : Nat]

HolderAt(t, i) ==
    [resource  |-> plan[t][i].resource, lock_type |-> plan[t][i].lock_type,
     owner     |-> t,                   level     |-> i]

\* The lock t is asking for, and the one of the innermost block t is in.
Requested(t) == HolderAt(t, depth[t] + 1)
Innermost(t) == HolderAt(t, depth[t])

TypeOK ==
    /\ holders \subseteq Holder
    /\ plan \in [Task -> Plan]
    /\ depth \in [Task -> Nat]
    /\ leaving \in [Task -> BOOLEAN]
    /\ pc \in [Task -> PC]
    /\ releaseTask \subseteq Holder

------------------------------------------------------------------------------
(* Which locks conflict.                                                    *)

\* os.path.commonpath([parent, child]) == parent
IsSameOrDescendant(parent, child) == IsPrefix(parent, child)

\* (mutant) Two directories are compared in one direction only.
OverlapOneWay(r, s) ==
    CASE IsDirectory(r) /\ IsDirectory(s) -> IsSameOrDescendant(s.directory, r.directory)
      [] IsDirectory(r) /\ ~ IsDirectory(s) -> IsSameOrDescendant(r.directory, PathOf(s))
      [] ~ IsDirectory(r) /\ IsDirectory(s) -> IsSameOrDescendant(s.directory, PathOf(r))
      [] OTHER -> r.directory = s.directory /\ r.filename = s.filename

ResourcesOverlap(r, s) ==
    CASE IsDirectory(r) /\ IsDirectory(s) ->
            \/ IsSameOrDescendant(r.directory, s.directory)
            \/ IsSameOrDescendant(s.directory, r.directory)
      [] IsDirectory(r) /\ ~ IsDirectory(s) -> IsSameOrDescendant(r.directory, PathOf(s))
      [] ~ IsDirectory(r) /\ IsDirectory(s) -> IsSameOrDescendant(s.directory, PathOf(r))
      [] OTHER -> r.directory = s.directory /\ r.filename = s.filename

Conflicts(g, h) ==
    /\ ResourcesOverlap(g.resource, h.resource)
    /\ ~ (g.lock_type = "READ" /\ h.lock_type = "READ")

HasConflict(req) == \E h \in holders : Conflicts(req, h)

HasOwnerConflict(req) == \E h \in holders : h.owner = req.owner /\ Conflicts(req, h)

------------------------------------------------------------------------------
(* Entering a block: lock_directory and lock_file up to their yield.        *)

Enters(t) ==
    /\ pc[t] = "running"
    /\ ~ leaving[t]
    /\ depth[t] < Len(plan[t])

\* The request is registered and the body of its block starts.
Register(t) ==
    /\ holders' = holders \cup {Requested(t)}
    /\ depth' = [depth EXCEPT ![t] = @ + 1]
    /\ pc' = [pc EXCEPT ![t] = "running"]
    /\ UNCHANGED <<plan, leaving, releaseTask>>

AcquireGranted(t) ==
    /\ Enters(t)
    /\ ~ HasOwnerConflict(Requested(t))
    /\ ~ HasConflict(Requested(t))
    /\ Register(t)

\* Somebody else is in the way: the task starts to wait.
AcquireWait(t) ==
    /\ Enters(t)
    /\ ~ HasOwnerConflict(Requested(t))
    /\ HasConflict(Requested(t))
    /\ pc' = [pc EXCEPT ![t] = "waiting"]
    /\ UNCHANGED <<holders, plan, depth, leaving, releaseTask>>

\* The task itself is in the way: RuntimeError, and nothing is registered.
AcquireRefused(t) ==
    /\ Enters(t)
    /\ HasOwnerConflict(Requested(t))
    /\ leaving' = [leaving EXCEPT ![t] = TRUE]
    /\ UNCHANGED <<holders, plan, depth, pc, releaseTask>>

\* (mutant) `if` instead of `while` around condition.wait().
WakeUnchecked(t) ==
    /\ pc[t] = "notified"
    /\ Register(t)

\* A notified task runs again: it re-checks, and waits again if overtaken.
WakeGranted(t) ==
    /\ pc[t] = "notified"
    /\ ~ HasConflict(Requested(t))
    /\ Register(t)

WakeAgain(t) ==
    /\ pc[t] = "notified"
    /\ HasConflict(Requested(t))
    /\ pc' = [pc EXCEPT ![t] = "waiting"]
    /\ UNCHANGED <<holders, plan, depth, leaving, releaseTask>>

------------------------------------------------------------------------------
(* Leaving a block: the finally clause and _release_safely.                 *)

\* The body of the innermost block ends, by itself or by an exception: the
\* release is started as a separate task, and awaited under a shield.
Exit(t) ==
    /\ pc[t] = "running"
    /\ depth[t] > 0
    /\ leaving' = [leaving EXCEPT ![t] = TRUE]
    /\ releaseTask' = releaseTask \cup {Innermost(t)}
    /\ pc' = [pc EXCEPT ![t] = "releasing"]
    /\ UNCHANGED <<holders, plan, depth>>

AwaitsRelease(t, h) ==
    pc[t] \in {"releasing", "cancelled"} /\ h.owner = t /\ h.level = depth[t]

\* (mutant) Only the removal of a WRITE lock notifies.
NotifyForWrites(h, p) ==
    IF h \in holders /\ h.lock_type = "WRITE" /\ p = "waiting" THEN "notified" ELSE p

\* notify_all when a holder was removed; _release raises when there was none.
AfterRelease(h, p) ==
    IF h \in holders /\ p = "waiting" THEN "notified" ELSE p

\* (mutant) notify() instead of notify_all().
ReleaseNotifyOne(h) ==
    LET asleep == {t \in Task : pc[t] = "waiting"}
        woken == CHOOSE t \in Task : asleep # {} => t \in asleep
    IN  /\ h \in releaseTask
        /\ releaseTask' = releaseTask \ {h}
        /\ holders' = holders \ {h}
        /\ pc' = [t \in Task |-> IF AwaitsRelease(t, h) THEN "running"
                                  ELSE IF t = woken THEN AfterRelease(h, pc[t]) ELSE pc[t]]
        /\ depth' = [t \in Task |-> IF AwaitsRelease(t, h) THEN depth[t] - 1 ELSE depth[t]]
        /\ UNCHANGED <<plan, leaving>>

\* (mutant) The caller of _release notifies, unless it was cancelled.
ReleaseNotifyByOwner(h) ==
    /\ h \in releaseTask
    /\ releaseTask' = releaseTask \ {h}
    /\ holders' = holders \ {h}
    /\ pc' = [t \in Task |->
          IF AwaitsRelease(t, h) THEN "running"
          ELSE IF pc[h.owner] = "releasing" THEN AfterRelease(h, pc[t]) ELSE pc[t]]
    /\ depth' = [t \in Task |-> IF AwaitsRelease(t, h) THEN depth[t] - 1 ELSE depth[t]]
    /\ UNCHANGED <<plan, leaving>>

\* (mutant) _release removes the locks of the resource, not the one of its owner.
ReleaseWholeResource(h) ==
    /\ h \in releaseTask
    /\ releaseTask' = releaseTask \ {h}
    /\ holders' = {g \in holders : g.resource # h.resource}
    /\ pc' = [t \in Task |-> IF AwaitsRelease(t, h) THEN "running"
                                                    ELSE AfterRelease(h, pc[t])]
    /\ depth' = [t \in Task |-> IF AwaitsRelease(t, h) THEN depth[t] - 1 ELSE depth[t]]
    /\ UNCHANGED <<plan, leaving>>

\* The release task of h runs; its owner, if still awaiting it, leaves the block.
ReleaseStep(h) ==
    /\ h \in releaseTask
    /\ releaseTask' = releaseTask \ {h}
    /\ holders' = holders \ {h}
    /\ pc' = [t \in Task |-> IF AwaitsRelease(t, h) THEN "running"
                                                    ELSE AfterRelease(h, pc[t])]
    /\ depth' = [t \in Task |-> IF AwaitsRelease(t, h) THEN depth[t] - 1 ELSE depth[t]]
    /\ UNCHANGED <<plan, leaving>>

Finish(t) ==
    /\ pc[t] = "running"
    /\ depth[t] = 0
    /\ leaving[t] \/ plan[t] = <<>>
    /\ pc' = [pc EXCEPT ![t] = "done"]
    /\ UNCHANGED <<holders, plan, depth, leaving, releaseTask>>

------------------------------------------------------------------------------
(* Cancellation, wherever the task happens to be suspended.                 *)

\* In condition.wait(), or notified but not yet rescheduled: nothing registered.
CancelWaiter(t) ==
    /\ pc[t] \in {"waiting", "notified"}
    /\ pc' = [pc EXCEPT ![t] = "running"]
    /\ leaving' = [leaving EXCEPT ![t] = TRUE]
    /\ UNCHANGED <<holders, plan, depth, releaseTask>>

\* In a body, or before the first block.
CancelRunning(t) ==
    /\ pc[t] = "running"
    /\ ~ leaving[t]
    /\ leaving' = [leaving EXCEPT ![t] = TRUE]
    /\ UNCHANGED <<holders, plan, depth, pc, releaseTask>>

\* (mutant) No shield: the cancellation also cancels the release.
CancelUnshielded(t) ==
    /\ pc[t] = "releasing"
    /\ pc' = [pc EXCEPT ![t] = "running"]
    /\ depth' = [depth EXCEPT ![t] = @ - 1]
    /\ releaseTask' = releaseTask \ {Innermost(t)}
    /\ UNCHANGED <<holders, plan, leaving>>

\* While awaiting its release: the first cancellation is absorbed until the
\* release is over ...
CancelReleasing(t) ==
    /\ pc[t] = "releasing"
    /\ pc' = [pc EXCEPT ![t] = "cancelled"]
    /\ UNCHANGED <<holders, plan, depth, leaving, releaseTask>>

\* ... a second one lets the task go on without it; the release still runs.
CancelAgain(t) ==
    /\ pc[t] = "cancelled"
    /\ pc' = [pc EXCEPT ![t] = "running"]
    /\ depth' = [depth EXCEPT ![t] = @ - 1]
    /\ UNCHANGED <<holders, plan, leaving, releaseTask>>

------------------------------------------------------------------------------

Init ==
    /\ holders = {}
    /\ plan \in [Task -> Plan]
    /\ depth = [t \in Task |-> 0]
    /\ leaving = [t \in Task |-> FALSE]
    /\ pc = [t \in Task |-> "running"]
    /\ releaseTask = {}

\* What the event loop does with t when t is runnable.
Proceed(t) ==
    \/ AcquireGranted(t) \/ AcquireWait(t) \/ AcquireRefused(t)
    \/ WakeGranted(t) \/ WakeAgain(t)
    \/ Exit(t) \/ Finish(t)

Cancel(t) ==
    \/ CancelWaiter(t) \/ CancelRunning(t) \/ CancelReleasing(t) \/ CancelAgain(t)

Release == \E h \in releaseTask : ReleaseStep(h)

AllDone == releaseTask = {} /\ \A t \in Task : pc[t] = "done"

\* Every request is over: the program idles (this is not a deadlock).
Idle == AllDone /\ UNCHANGED vars

Next ==
    \/ \E t \in Task : Proceed(t) \/ Cancel(t)
    \/ Release
    \/ Idle

Spec == Init /\ [][Next]_vars

\* asyncio runs every ready task; bodies end; nobody has to be cancelled.
Fairness ==
    /\ \A t \in Task : WF_vars(Proceed(t))
    /\ WF_vars(Release)

FairSpec == Spec /\ Fairness

------------------------------------------------------------------------------
(* Properties.                                                              *)

\* No two registered locks conflict, whichever tasks hold them: the table of the
\* LockManager docstring, for all overlaps of directories and files.
MutualExclusion ==
    \A g, h \in holders : g # h => ~ Conflicts(g, h)

\* A task asleep in condition.wait() is blocked by a lock of another task that is
\* still registered: no wake-up was lost, and no task waits for itself (the
\* "preventing self-deadlock" of the docstring).
WaiterIsBlockedByOther ==
    \A t \in Task : pc[t] = "waiting" =>
        \E h \in holders : h.owner # t /\ Conflicts(Requested(t), h)

\* As long as a task is inside a block, at whatever level and however often it is
\* cancelled, the lock of that block is registered.
BodyIsLocked ==
    \A t \in Task : \A i \in 1..depth[t] : HolderAt(t, i) \in holders

\* _release_safely: "task cancellation cannot leave the lock registered". A lock
\* is registered only while its owner is inside its block, or while a release task
\* that will remove it is pending.
NoLeakedHolder ==
    \A h \in holders : h.level <= depth[h.owner] \/ h \in releaseTask

\* The RuntimeError of _release is unreachable: a release task finds its holder.
ReleaseNeverRaises == releaseTask \subseteq holders

\* The plans take their locks in the order of `rank`, and locks that conflict have
\* the same rank: the discipline of the services (upload directories before bucket
\* directories, nothing else nested).
Ordered(plans, rank) ==
    /\ \A p \in plans : \A i, j \in DOMAIN p : i < j => rank[p[i]] < rank[p[j]]
    /\ \A p, q \in plans : \A i \in DOMAIN p : \A j \in DOMAIN q :
          Conflicts(p[i], q[j]) => rank[p[i]] = rank[q[j]]

\* Not all unfinished tasks are asleep: the nested locks of multipart_complete
\* deadlock with nobody. It depends on the plans being ordered.
NoDeadlock ==
    \/ AllDone
    \/ releaseTask # {}
    \/ \E t \in Task : pc[t] \notin {"waiting", "done"}

\* Every task gets through all its blocks without being cancelled by anybody, and
\* in the end no lock is registered.
EveryTaskFinishes == <>[](AllDone /\ holders = {})

------------------------------------------------------------------------------
(* The lock manager implements a readers-writer lock on every path.         *)

\* The paths a resource stands for: a subtree, or one file.
RegionOf(r) ==
    IF IsDirectory(r) THEN {p \in Path : IsSameOrDescendant(r.directory, p)}
                      ELSE {PathOf(r)}

GrantOf(h) ==
    [client |-> <<h.owner, h.level>>, mode |-> h.lock_type, region |-> RegionOf(h.resource)]

Subtree == INSTANCE SubtreeLock WITH
    Point  <- Path,
    Region <- {RegionOf(r) : r \in Resource},
    Client <- Task \X UNION {DOMAIN p : p \in Plan},
    grants <- {GrantOf(h) : h \in holders}

\* Registering a lock takes its whole subtree at once and only when it is free;
\* removing one gives back all of it; nothing else changes who holds what.
ImplementsSubtreeLock == Subtree!Spec

=============================================================================
