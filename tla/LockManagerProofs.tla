-------------------------- MODULE LockManagerProofs --------------------------
(****************************************************************************)
(* Proofs about LockManager, for any set of tasks and any plans.            *)
(****************************************************************************)
EXTENDS LockManager, SequenceLemmas, TLAPS

------------------------------------------------------------------------------
(* The inductive invariant.                                                 *)

\* The holder list is exactly accounted for by open blocks and release tasks.
Accounting ==
    /\ \A t \in Task : depth[t] <= Len(plan[t])
    /\ BodyIsLocked
    /\ \A h \in holders :
          /\ h.level \in 1..Len(plan[h.owner])
          /\ h = HolderAt(h.owner, h.level)
          /\ h.level <= depth[h.owner] \/ h \in releaseTask
    /\ ReleaseNeverRaises
    /\ \A h \in releaseTask :
          /\ leaving[h.owner]
          /\ h.level <= depth[h.owner] => AwaitsRelease(h.owner, h)
    /\ \A t \in Task : pc[t] \in {"releasing", "cancelled"} =>
          depth[t] > 0 /\ leaving[t] /\ Innermost(t) \in releaseTask
    /\ \A t \in Task : pc[t] = "done" => depth[t] = 0

\* A task in _acquire has not turned back, and is not in its own way.
Acquiring ==
    \A t \in Task : pc[t] \in {"waiting", "notified"} =>
        /\ ~ leaving[t]
        /\ depth[t] < Len(plan[t])
        /\ ~ HasOwnerConflict(Requested(t))

IInv ==
    /\ TypeOK
    /\ Accounting
    /\ Acquiring
    /\ MutualExclusion
    /\ WaiterIsBlockedByOther

------------------------------------------------------------------------------
(* Lemmas about the operators of the model.                                 *)

\* Which of two locks was there first does not matter: _conflicts is symmetric.
LEMMA ConflictsSymmetric ==
    ASSUME NEW g, NEW h, Conflicts(g, h)
    PROVE  Conflicts(h, g)
BY DEF Conflicts, ResourcesOverlap

\* The entry of a lock of the plan is a LockHolder that names its task and level.
LEMMA HolderAtIsHolder ==
    ASSUME TypeOK, NEW t \in Task, NEW i \in 1..Len(plan[t])
    PROVE  /\ HolderAt(t, i) \in Holder
           /\ HolderAt(t, i).owner = t
           /\ HolderAt(t, i).level = i
<1>1. plan[t] \in Seq(Lock)
  BY PlanAssumption DEF TypeOK
<1>2. plan[t][i] \in Lock
  BY <1>1
<1>3. plan[t][i].resource \in Resource /\ plan[t][i].lock_type \in LockType
  BY <1>2 DEF Lock
<1> QED
  BY <1>3 DEF HolderAt, Holder

\* A plan has a length.
LEMMA PlanLength ==
    ASSUME TypeOK, NEW t \in Task
    PROVE  Len(plan[t]) \in Nat
<1>1. plan[t] \in Seq(Lock)
  BY PlanAssumption DEF TypeOK
<1> QED
  BY <1>1

------------------------------------------------------------------------------
(* Every step preserves the inductive invariant.                            *)

LEMMA InitIInv == Init => IInv
<1> SUFFICES ASSUME Init PROVE IInv
  OBVIOUS
<1>1. TypeOK
  BY DEF Init, TypeOK, PC
<1>2. \A t \in Task : Len(plan[t]) \in Nat
  BY <1>1, PlanLength
<1> QED
  BY <1>1, <1>2 DEF Init, IInv, Accounting, Acquiring, MutualExclusion, BodyIsLocked,
     WaiterIsBlockedByOther, ReleaseNeverRaises

\* Registering a lock that conflicts with none, by the first try or after a wake-up.
LEMMA RegisterStep ==
    ASSUME IInv, NEW t \in Task,
           pc[t] \in {"running", "notified"}, ~ leaving[t], depth[t] < Len(plan[t]),
           ~ HasConflict(Requested(t)), Register(t)
    PROVE  IInv'
<1> DEFINE req == Requested(t)
<1> USE DEF Register
<1>0. TypeOK /\ Accounting /\ Acquiring /\ MutualExclusion /\ WaiterIsBlockedByOther
  BY DEF IInv
<1>1. depth[t] + 1 \in 1..Len(plan[t])
  BY <1>0, PlanLength DEF TypeOK
<1>2. req \in Holder /\ req.owner = t /\ req.level = depth[t] + 1
  BY <1>0, <1>1, HolderAtIsHolder DEF Requested
<1>3. \A u, i : HolderAt(u, i)' = HolderAt(u, i)
  BY DEF HolderAt
<1>4. TypeOK'
  BY <1>0, <1>2 DEF TypeOK, PC
<1>5. Accounting'
  <2>1. \A u \in Task : depth'[u] <= Len(plan[u])
    BY <1>0, <1>1 DEF Accounting, TypeOK
  <2>2. BodyIsLocked'
    BY <1>0, <1>3 DEF Accounting, BodyIsLocked, TypeOK, Requested
  <2>3. \A h \in holders' : /\ h.level \in 1..Len(plan[h.owner])
                            /\ h = HolderAt(h.owner, h.level)
                            /\ h.level <= depth'[h.owner] \/ h \in releaseTask
    <3> TAKE h \in holders'
    <3>1. CASE h = req
      BY <3>1, <1>0, <1>1, <1>2 DEF Requested, TypeOK
    <3>2. CASE h \in holders
      BY <3>2, <1>0 DEF Accounting, TypeOK, Holder
    <3> QED
      BY <3>1, <3>2
  <2>4. ReleaseNeverRaises'
    BY <1>0 DEF Accounting, ReleaseNeverRaises
  <2>5. \A h \in releaseTask :
           /\ leaving[h.owner]
           /\ h.level <= depth'[h.owner] => AwaitsRelease(h.owner, h)'
    BY <1>0 DEF Accounting, AwaitsRelease, TypeOK, Holder
  <2>6. \A u \in Task : pc'[u] \in {"releasing", "cancelled"} =>
           depth'[u] > 0 /\ leaving[u] /\ Innermost(u)' \in releaseTask
    BY <1>0, <1>3 DEF Accounting, TypeOK, Innermost
  <2>7. plan' = plan /\ leaving' = leaving /\ releaseTask' = releaseTask
    OBVIOUS
  <2>8. \A u \in Task : pc'[u] = "done" => depth'[u] = 0
    BY <1>0 DEF Accounting, TypeOK
  <2> HIDE DEF Register
  <2> QED
    BY <2>1, <2>2, <2>3, <2>4, <2>5, <2>6, <2>7, <2>8, <1>3 DEF Accounting
<1>6. Acquiring'
  BY <1>0, <1>2, <1>3 DEF Acquiring, TypeOK, HasOwnerConflict, Requested, HolderAt
<1>7. MutualExclusion'
  BY <1>0, ConflictsSymmetric DEF MutualExclusion, HasConflict
<1>8. WaiterIsBlockedByOther'
  BY <1>0, <1>2, <1>3 DEF WaiterIsBlockedByOther, TypeOK, Requested
<1> QED
  BY <1>4, <1>5, <1>6, <1>7, <1>8 DEF IInv

\* Going to sleep behind a lock of another task, at first or after a wake-up.
LEMMA WaitStep ==
    ASSUME IInv, NEW t \in Task,
           ~ leaving[t], depth[t] < Len(plan[t]), pc[t] \in {"running", "notified"},
           ~ HasOwnerConflict(Requested(t)), HasConflict(Requested(t)),
           pc' = [pc EXCEPT ![t] = "waiting"],
           UNCHANGED <<holders, plan, depth, leaving, releaseTask>>
    PROVE  IInv'
<1>1. TypeOK /\ Accounting /\ Acquiring /\ MutualExclusion /\ WaiterIsBlockedByOther
  BY DEF IInv
<1>2. \A u, i : HolderAt(u, i)' = HolderAt(u, i)
  BY DEF HolderAt
<1>3. TypeOK'
  BY <1>1 DEF TypeOK, PC
<1>4. Accounting'
  BY <1>1, <1>2 DEF Accounting, BodyIsLocked, ReleaseNeverRaises, AwaitsRelease,
     Innermost, TypeOK, Holder
<1>5. Acquiring'
  BY <1>1, <1>2 DEF Acquiring, TypeOK, HasOwnerConflict, Requested
<1>6. MutualExclusion'
  BY <1>1 DEF MutualExclusion
<1>7. WaiterIsBlockedByOther'
  <2>1. \E h \in holders : h.owner # t /\ Conflicts(Requested(t), h)
    BY DEF HasConflict, HasOwnerConflict, Requested, HolderAt
  <2> QED
    BY <2>1, <1>1, <1>2 DEF WaiterIsBlockedByOther, TypeOK, Requested
<1> QED
  BY <1>3, <1>4, <1>5, <1>6, <1>7 DEF IInv

\* Turning back with nothing registered: a refused or a cancelled acquisition, or
\* the body cancelled.
LEMMA LeaveStep ==
    ASSUME IInv, NEW t \in Task,
           pc[t] \in {"running", "waiting", "notified"},
           pc' = [pc EXCEPT ![t] = "running"],
           leaving' = [leaving EXCEPT ![t] = TRUE],
           UNCHANGED <<holders, plan, depth, releaseTask>>
    PROVE  IInv'
<1>1. TypeOK /\ Accounting /\ Acquiring /\ MutualExclusion /\ WaiterIsBlockedByOther
  BY DEF IInv
<1>2. \A u, i : HolderAt(u, i)' = HolderAt(u, i)
  BY DEF HolderAt
<1>3. TypeOK'
  BY <1>1 DEF TypeOK, PC
<1>4. Accounting'
  BY <1>1, <1>2 DEF Accounting, BodyIsLocked, ReleaseNeverRaises, AwaitsRelease,
     Innermost, TypeOK, Holder
<1>5. Acquiring'
  BY <1>1, <1>2 DEF Acquiring, TypeOK, HasOwnerConflict, Requested
<1>6. MutualExclusion'
  BY <1>1 DEF MutualExclusion
<1>7. WaiterIsBlockedByOther'
  BY <1>1, <1>2 DEF WaiterIsBlockedByOther, TypeOK, Requested
<1> QED
  BY <1>3, <1>4, <1>5, <1>6, <1>7 DEF IInv

\* Starting the release task of the innermost block.
LEMMA ExitStep ==
    ASSUME IInv, NEW t \in Task, Exit(t)
    PROVE  IInv'
<1> USE DEF Exit
<1>1. TypeOK /\ Accounting /\ Acquiring /\ MutualExclusion /\ WaiterIsBlockedByOther
  BY DEF IInv
<1>2. \A u, i : HolderAt(u, i)' = HolderAt(u, i)
  BY DEF HolderAt
<1>3. /\ depth[t] \in 1..Len(plan[t])
      /\ Innermost(t) \in holders
  BY <1>1, PlanLength DEF Accounting, BodyIsLocked, Innermost, TypeOK
<1>4. Innermost(t).owner = t /\ Innermost(t).level = depth[t]
  BY DEF Innermost, HolderAt
<1>5. TypeOK'
  BY <1>1, <1>3 DEF TypeOK, PC
<1>6. Accounting'
  <2>1. \A h \in releaseTask' : /\ leaving'[h.owner]
                                /\ h.level <= depth[h.owner] => AwaitsRelease(h.owner, h)'
    BY <1>1, <1>3, <1>4 DEF Accounting, AwaitsRelease, TypeOK, Holder
  <2>2. \A u \in Task : pc'[u] \in {"releasing", "cancelled"} =>
           depth[u] > 0 /\ leaving'[u] /\ Innermost(u) \in releaseTask'
    BY <1>1 DEF Accounting, TypeOK
  <2>3. /\ \A h \in holders : h \in releaseTask => h \in releaseTask'
        /\ ReleaseNeverRaises'
    BY <1>1, <1>3 DEF Accounting, ReleaseNeverRaises
  <2> QED
    BY <2>1, <2>2, <2>3, <1>1, <1>2 DEF Accounting, BodyIsLocked, Innermost
<1>7. Acquiring'
  BY <1>1, <1>2 DEF Acquiring, TypeOK, HasOwnerConflict, Requested
<1>8. MutualExclusion'
  BY <1>1 DEF MutualExclusion
<1>9. WaiterIsBlockedByOther'
  BY <1>1, <1>2 DEF WaiterIsBlockedByOther, TypeOK, Requested
<1> QED
  BY <1>5, <1>6, <1>7, <1>8, <1>9 DEF IInv

\* The first cancellation of a task that awaits its release.
LEMMA CancelReleasingStep ==
    ASSUME IInv, NEW t \in Task, CancelReleasing(t)
    PROVE  IInv'
<1> USE DEF CancelReleasing
<1>1. TypeOK /\ Accounting /\ Acquiring /\ MutualExclusion /\ WaiterIsBlockedByOther
  BY DEF IInv
<1>2. \A u, i : HolderAt(u, i)' = HolderAt(u, i)
  BY DEF HolderAt
<1>3. TypeOK'
  BY <1>1 DEF TypeOK, PC
<1>4. Accounting'
  BY <1>1, <1>2 DEF Accounting, BodyIsLocked, ReleaseNeverRaises, AwaitsRelease,
     Innermost, TypeOK, Holder
<1>5. Acquiring'
  BY <1>1, <1>2 DEF Acquiring, TypeOK, HasOwnerConflict, Requested
<1>6. MutualExclusion'
  BY <1>1 DEF MutualExclusion
<1>7. WaiterIsBlockedByOther'
  BY <1>1, <1>2 DEF WaiterIsBlockedByOther, TypeOK, Requested
<1> QED
  BY <1>3, <1>4, <1>5, <1>6, <1>7 DEF IInv

\* The second cancellation: the task goes on, its release task is detached.
LEMMA CancelAgainStep ==
    ASSUME IInv, NEW t \in Task, CancelAgain(t)
    PROVE  IInv'
<1> USE DEF CancelAgain
<1>1. TypeOK /\ Accounting /\ Acquiring /\ MutualExclusion /\ WaiterIsBlockedByOther
  BY DEF IInv
<1>2. \A u, i : HolderAt(u, i)' = HolderAt(u, i)
  BY DEF HolderAt
<1>3. depth[t] > 0 /\ leaving[t] /\ Innermost(t) \in releaseTask
  BY <1>1 DEF Accounting
<1>4. TypeOK'
  BY <1>1, <1>3 DEF TypeOK, PC
<1>5. Accounting'
  <2>1. \A u \in Task : depth'[u] <= Len(plan[u])
    BY <1>1, PlanLength DEF Accounting, TypeOK
  <2>2. BodyIsLocked'
    BY <1>1, <1>2 DEF Accounting, BodyIsLocked, TypeOK
  <2>3. \A h \in holders : h.level <= depth'[h.owner] \/ h \in releaseTask
    <3> TAKE h \in holders
    <3>1. h \in Holder /\ h = HolderAt(h.owner, h.level)
      BY <1>1 DEF Accounting, TypeOK
    <3>2. CASE h.owner = t /\ h.level = depth[t]
      BY <3>1, <3>2, <1>3 DEF Innermost
    <3>3. CASE ~ (h.owner = t /\ h.level = depth[t])
      BY <3>1, <3>3, <1>1, <1>3 DEF Accounting, TypeOK, Holder
    <3> QED
      BY <3>2, <3>3
  <2>4. \A h \in releaseTask : /\ leaving[h.owner]
                               /\ h.level <= depth'[h.owner] => AwaitsRelease(h.owner, h)'
    BY <1>1 DEF Accounting, AwaitsRelease, TypeOK, Holder
  <2>5. \A u \in Task : pc'[u] \in {"releasing", "cancelled"} =>
           depth'[u] > 0 /\ leaving[u] /\ Innermost(u)' \in releaseTask
    BY <1>1, <1>2 DEF Accounting, TypeOK, Innermost
  <2> QED
    BY <2>1, <2>2, <2>3, <2>4, <2>5, <1>1, <1>2 DEF Accounting, ReleaseNeverRaises
<1>6. Acquiring'
  BY <1>1, <1>2 DEF Acquiring, TypeOK, HasOwnerConflict, Requested
<1>7. MutualExclusion'
  BY <1>1 DEF MutualExclusion
<1>8. WaiterIsBlockedByOther'
  BY <1>1, <1>2 DEF WaiterIsBlockedByOther, TypeOK, Requested
<1> QED
  BY <1>4, <1>5, <1>6, <1>7, <1>8 DEF IInv

\* A release task removes its holder, notifies, and hands back to its owner.
LEMMA ReleaseStepStep ==
    ASSUME IInv, NEW g \in releaseTask, ReleaseStep(g)
    PROVE  IInv'
<1> USE DEF ReleaseStep
<1>1. TypeOK /\ Accounting /\ Acquiring /\ MutualExclusion /\ WaiterIsBlockedByOther
  BY DEF IInv
<1>2. \A u, i : HolderAt(u, i)' = HolderAt(u, i)
  BY DEF HolderAt
<1>3. /\ g \in holders /\ g \in Holder
      /\ g = HolderAt(g.owner, g.level)
      /\ g.level \in 1..Len(plan[g.owner])
      /\ depth[g.owner] <= g.level
      /\ g.level <= depth[g.owner] => AwaitsRelease(g.owner, g)
  BY <1>1 DEF Accounting, ReleaseNeverRaises, TypeOK, AwaitsRelease, Holder
<1>4. /\ \A u \in Task : AwaitsRelease(u, g) =>
            /\ u = g.owner /\ g.level = depth[u] /\ depth[u] > 0
            /\ pc[u] \in {"releasing", "cancelled"}
            /\ depth'[u] = depth[u] - 1 /\ pc'[u] = "running"
      /\ \A u \in Task : ~ AwaitsRelease(u, g) =>
            /\ depth'[u] = depth[u]
            /\ pc'[u] = IF pc[u] = "waiting" THEN "notified" ELSE pc[u]
  BY <1>1, <1>3 DEF AwaitsRelease, AfterRelease, TypeOK
<1>5. TypeOK'
  <2>1. depth' \in [Task -> Nat] /\ pc' \in [Task -> PC]
    BY <1>1, <1>3, <1>4 DEF TypeOK, PC, AfterRelease
  <2> QED
    BY <2>1, <1>1 DEF TypeOK
<1>6. Accounting'
  <2>1. \A u \in Task : depth'[u] <= depth[u] /\ depth'[u] <= Len(plan[u])
    BY <1>1, <1>4, <1>5, PlanLength DEF Accounting, TypeOK
  <2>2. BodyIsLocked'
    <3> SUFFICES ASSUME NEW u \in Task, NEW i \in 1..depth'[u]
                 PROVE  HolderAt(u, i) \in holders \ {g}
      BY <1>2 DEF BodyIsLocked
    <3>1. i \in 1..depth[u]
      BY <2>1, <1>1, <1>5 DEF TypeOK
    <3>2. HolderAt(u, i) \in holders
      BY <3>1, <1>1 DEF Accounting, BodyIsLocked
    <3>3. HolderAt(u, i) # g
      BY <3>1, <1>1, <1>3, <1>4 DEF HolderAt, TypeOK, Holder
    <3> QED
      BY <3>2, <3>3
  <2>3. \A h \in holders' : /\ h.level \in 1..Len(plan[h.owner])
                            /\ h = HolderAt(h.owner, h.level)
                            /\ h.level <= depth'[h.owner] \/ h \in releaseTask'
    <3> TAKE h \in holders'
    <3>1. h \in Holder /\ h \in holders /\ h # g
      BY <1>1 DEF TypeOK
    <3>2. /\ h.level \in 1..Len(plan[h.owner])
          /\ h = HolderAt(h.owner, h.level)
          /\ h.level <= depth[h.owner] \/ h \in releaseTask
      BY <3>1, <1>1 DEF Accounting
    <3>3. ~ (h.owner = g.owner /\ h.level = g.level)
      BY <3>1, <3>2, <1>3
    <3> QED
      BY <3>1, <3>2, <3>3, <1>1, <1>3, <1>4 DEF TypeOK, Holder
  <2>4. ReleaseNeverRaises'
    BY <1>1 DEF Accounting, ReleaseNeverRaises
  <2>5. \A h \in releaseTask' : /\ leaving[h.owner]
                                /\ h.level <= depth'[h.owner] => AwaitsRelease(h.owner, h)'
    <3> TAKE h \in releaseTask'
    <3>1. h \in holders /\ h \in Holder /\ h # g /\ h = HolderAt(h.owner, h.level)
      BY <1>1 DEF Accounting, ReleaseNeverRaises, TypeOK
    <3>2. ~ (h.owner = g.owner /\ h.level = g.level)
      BY <3>1, <1>3
    <3>3. leaving[h.owner] /\ (h.level <= depth[h.owner] => AwaitsRelease(h.owner, h))
      BY <1>1 DEF Accounting
    <3> QED
      BY <3>1, <3>2, <3>3, <1>1, <1>3, <1>4 DEF AwaitsRelease, TypeOK, Holder
  <2>6. \A u \in Task : pc'[u] \in {"releasing", "cancelled"} =>
           depth'[u] > 0 /\ leaving[u] /\ Innermost(u)' \in releaseTask'
    <3> SUFFICES ASSUME NEW u \in Task, pc'[u] \in {"releasing", "cancelled"}
                 PROVE  depth'[u] > 0 /\ leaving[u] /\ Innermost(u)' \in releaseTask'
      OBVIOUS
    <3>1. ~ AwaitsRelease(u, g) /\ pc[u] = pc'[u] /\ depth'[u] = depth[u]
      BY <1>4
    <3>2. depth[u] > 0 /\ leaving[u] /\ Innermost(u) \in releaseTask
      BY <3>1, <1>1 DEF Accounting
    <3>3. Innermost(u) # g
      BY <3>1 DEF AwaitsRelease, Innermost, HolderAt
    <3> QED
      BY <3>1, <3>2, <3>3, <1>2 DEF Innermost
  <2>7. plan' = plan /\ leaving' = leaving
    OBVIOUS
  <2>8. \A u \in Task : pc'[u] = "done" => depth'[u] = 0
    BY <1>1, <1>4 DEF Accounting, TypeOK
  <2> HIDE DEF ReleaseStep
  <2> QED
    BY <2>1, <2>2, <2>3, <2>4, <2>5, <2>6, <2>7, <2>8, <1>2 DEF Accounting
<1>7. Acquiring'
  BY <1>1, <1>2, <1>4 DEF Acquiring, TypeOK, HasOwnerConflict, Requested
<1>8. MutualExclusion'
  BY <1>1 DEF MutualExclusion
<1>9. WaiterIsBlockedByOther'
  BY <1>4 DEF WaiterIsBlockedByOther
<1> QED
  BY <1>5, <1>6, <1>7, <1>8, <1>9 DEF IInv

\* A task ends.
LEMMA FinishStep ==
    ASSUME IInv, NEW t \in Task, Finish(t)
    PROVE  IInv'
<1> USE DEF Finish
<1>1. TypeOK /\ Accounting /\ Acquiring /\ MutualExclusion /\ WaiterIsBlockedByOther
  BY DEF IInv
<1>2. \A u, i : HolderAt(u, i)' = HolderAt(u, i)
  BY DEF HolderAt
<1>3. TypeOK'
  BY <1>1 DEF TypeOK, PC
<1>4. Accounting'
  BY <1>1, <1>2 DEF Accounting, BodyIsLocked, ReleaseNeverRaises, AwaitsRelease,
     Innermost, TypeOK, Holder
<1>5. Acquiring'
  BY <1>1, <1>2 DEF Acquiring, TypeOK, HasOwnerConflict, Requested
<1>6. MutualExclusion'
  BY <1>1 DEF MutualExclusion
<1>7. WaiterIsBlockedByOther'
  BY <1>1, <1>2 DEF WaiterIsBlockedByOther, TypeOK, Requested
<1> QED
  BY <1>3, <1>4, <1>5, <1>6, <1>7 DEF IInv

\* No variable changes.
LEMMA StutterStep ==
    ASSUME IInv, UNCHANGED vars
    PROVE  IInv'
<1>1. \A u, i : HolderAt(u, i)' = HolderAt(u, i)
  BY DEF HolderAt, vars
<1> QED
  BY <1>1 DEF vars, IInv, TypeOK, Accounting, Acquiring, MutualExclusion, BodyIsLocked,
     WaiterIsBlockedByOther, ReleaseNeverRaises, AwaitsRelease, Innermost, Requested,
     HasOwnerConflict

LEMMA NextIInv == IInv /\ [Next]_vars => IInv'
<1> SUFFICES ASSUME IInv, [Next]_vars PROVE IInv'
  OBVIOUS
<1>1. ASSUME NEW t \in Task, Proceed(t) PROVE IInv'
  <2>1. CASE AcquireGranted(t)
    BY <2>1, RegisterStep DEF AcquireGranted, Enters
  <2>2. CASE AcquireWait(t)
    BY <2>2, WaitStep DEF AcquireWait, Enters
  <2>3. CASE AcquireRefused(t)
    <3>1. pc' = [pc EXCEPT ![t] = "running"]
      BY <2>3 DEF AcquireRefused, Enters, IInv, TypeOK
    <3> QED
      BY <2>3, <3>1, LeaveStep DEF AcquireRefused, Enters
  <2>4. CASE WakeGranted(t)
    BY <2>4, RegisterStep DEF WakeGranted, IInv, Acquiring
  <2>5. CASE WakeAgain(t)
    BY <2>5, WaitStep DEF WakeAgain, IInv, Acquiring
  <2>6. CASE Exit(t)
    BY <2>6, ExitStep
  <2>7. CASE Finish(t)
    BY <2>7, FinishStep
  <2> QED
    BY <1>1, <2>1, <2>2, <2>3, <2>4, <2>5, <2>6, <2>7 DEF Proceed
<1>2. ASSUME NEW t \in Task, Cancel(t) PROVE IInv'
  <2>1. CASE CancelWaiter(t)
    BY <2>1, LeaveStep DEF CancelWaiter
  <2>2. CASE CancelRunning(t)
    <3>1. pc' = [pc EXCEPT ![t] = "running"]
      BY <2>2 DEF CancelRunning, IInv, TypeOK
    <3> QED
      BY <2>2, <3>1, LeaveStep DEF CancelRunning
  <2>3. CASE CancelReleasing(t)
    BY <2>3, CancelReleasingStep
  <2>4. CASE CancelAgain(t)
    BY <2>4, CancelAgainStep
  <2> QED
    BY <1>2, <2>1, <2>2, <2>3, <2>4 DEF Cancel
<1>3. CASE Release
  BY <1>3, ReleaseStepStep DEF Release
<1>4. CASE Idle \/ UNCHANGED vars
  BY <1>4, StutterStep DEF Idle
<1> QED
  BY <1>1, <1>2, <1>3, <1>4 DEF Next

------------------------------------------------------------------------------
(* The theorems.                                                            *)

\* The inductive invariant holds in every reachable state.
THEOREM Invariant == Spec => []IInv
  BY InitIInv, NextIInv, PTL DEF Spec

\* Every variable stays in its type; in particular no depth becomes negative.
THEOREM TypeCorrect == Spec => []TypeOK
<1>1. IInv => TypeOK
  BY DEF IInv
<1> QED
  BY <1>1, Invariant, PTL

\* Conflicting locks are never registered together, for any number of tasks, any
\* nesting of their locks and any cancellations.
THEOREM Exclusion == Spec => []MutualExclusion
<1>1. IInv => MutualExclusion
  BY DEF IInv
<1> QED
  BY <1>1, Invariant, PTL

\* A sleeping task is always behind a registered lock of another task: the single
\* notify_all of a release loses no wake-up.
THEOREM NoLostWakeup == Spec => []WaiterIsBlockedByOther
<1>1. IInv => WaiterIsBlockedByOther
  BY DEF IInv
<1> QED
  BY <1>1, Invariant, PTL

\* A body runs under its lock for as long as it runs.
THEOREM BodiesLocked == Spec => []BodyIsLocked
<1>1. IInv => BodyIsLocked
  BY DEF IInv, Accounting
<1> QED
  BY <1>1, Invariant, PTL

\* No cancellation leaves a lock registered for good: it has a task that is still
\* inside, or a release task that will find it.
THEOREM NothingLeaks == Spec => [](NoLeakedHolder /\ ReleaseNeverRaises)
<1>1. IInv => NoLeakedHolder /\ ReleaseNeverRaises
  BY DEF IInv, Accounting, NoLeakedHolder
<1> QED
  BY <1>1, Invariant, PTL

------------------------------------------------------------------------------
(* The lock manager implements the readers-writer lock on paths.            *)

\* os.path.commonpath compares element by element.
LEMMA PrefixElements ==
    ASSUME NEW s \in Seq(Name), NEW t \in Seq(Name)
    PROVE  IsPrefix(s, t) <=> Len(s) <= Len(t) /\ \A i \in 1..Len(s) : s[i] = t[i]
<1>1. SubSeq(s, 1, Len(s)) = s
  BY SubSeqFull
<1>2. ASSUME Len(s) <= Len(t)
      PROVE  /\ SubSeq(t, 1, Len(s)) \in Seq(Name)
             /\ Len(SubSeq(t, 1, Len(s))) = Len(s)
             /\ \A i \in 1..Len(s) : SubSeq(t, 1, Len(s))[i] = t[i]
  BY <1>2
<1> QED
  BY <1>1, <1>2, SeqEqual DEF IsPrefix

\* Two resources overlap, by the four cases of _resources_overlap, exactly when
\* some path belongs to both of their regions.
LEMMA OverlapIsSharedPath ==
    ASSUME NEW r \in Resource, NEW s \in Resource
    PROVE  ResourcesOverlap(r, s) <=> RegionOf(r) \cap RegionOf(s) # {}
<1>1. /\ r.directory \in Path /\ PathOf(r) \in Path
      /\ s.directory \in Path /\ PathOf(s) \in Path
      /\ r.filename \in Name \cup {NoFilename} /\ s.filename \in Name \cup {NoFilename}
  BY DEF Resource
<1>2. \A p \in Path : p \in Seq(Name)
  BY PathAssumption
<1>3. CASE IsDirectory(r) /\ IsDirectory(s)
  <2>1. RegionOf(r) \cap RegionOf(s) =
          {p \in Path : IsPrefix(r.directory, p) /\ IsPrefix(s.directory, p)}
    BY <1>3 DEF RegionOf, IsSameOrDescendant
  <2>2. ASSUME NEW p \in Path, IsPrefix(r.directory, p), IsPrefix(s.directory, p)
        PROVE  IsPrefix(r.directory, s.directory) \/ IsPrefix(s.directory, r.directory)
    <3>1. /\ Len(r.directory) <= Len(p) /\ Len(s.directory) <= Len(p)
          /\ \A i \in 1..Len(r.directory) : r.directory[i] = p[i]
          /\ \A i \in 1..Len(s.directory) : s.directory[i] = p[i]
          /\ Len(r.directory) \in Nat /\ Len(s.directory) \in Nat
      BY <2>2, <1>1, <1>2, PrefixElements
    <3>2. CASE Len(r.directory) <= Len(s.directory)
      <4>1. \A i \in 1..Len(r.directory) : r.directory[i] = s.directory[i]
        BY <3>1, <3>2
      <4> QED
        BY <4>1, <3>2, <1>1, <1>2, PrefixElements
    <3>3. CASE Len(s.directory) <= Len(r.directory)
      <4>1. \A i \in 1..Len(s.directory) : s.directory[i] = r.directory[i]
        BY <3>1, <3>3
      <4> QED
        BY <4>1, <3>3, <1>1, <1>2, PrefixElements
    <3> QED
      BY <3>1, <3>2, <3>3
  <2>3. \A p \in Path : IsPrefix(p, p)
    BY DEF IsPrefix
  <2> QED
    BY <2>1, <2>2, <2>3, <1>1, <1>3 DEF ResourcesOverlap, IsSameOrDescendant
<1>4. CASE ~ (IsDirectory(r) /\ IsDirectory(s)) /\ (IsDirectory(r) \/ IsDirectory(s))
  BY <1>1, <1>4 DEF ResourcesOverlap, RegionOf
<1>5. CASE ~ IsDirectory(r) /\ ~ IsDirectory(s)
  <2>1. r.filename \in Name /\ s.filename \in Name
    BY <1>1, <1>5 DEF IsDirectory
  <2>2. PathOf(r) = PathOf(s) <=> r.directory = s.directory /\ r.filename = s.filename
    <3>1. PathOf(r) = Append(r.directory, r.filename) /\ PathOf(s) = Append(s.directory, s.filename)
      BY <1>5 DEF PathOf
    <3>2. r.directory \in Seq(Name) /\ s.directory \in Seq(Name)
      BY <1>1, <1>2
    <3>3. Append(r.directory, r.filename) = Append(s.directory, s.filename)
            <=> r.directory = s.directory /\ r.filename = s.filename
      <4>1. \A d, e \in Seq(Name) : \A m, n \in Name :
               Append(d, m) = Append(e, n) => d = e /\ m = n
        BY AppendInjective
      <4>2. Append(r.directory, r.filename) = Append(s.directory, s.filename)
              => r.directory = s.directory /\ r.filename = s.filename
        BY ONLY <4>1, <2>1, <3>2, Zenon
      <4> QED
        BY ONLY <4>2, Zenon
    <3> QED
      BY <3>1, <3>3
  <2> QED
    BY <2>2, <1>5 DEF ResourcesOverlap, RegionOf
<1> QED
  BY <1>3, <1>4, <1>5

\* No path is covered by a WRITE lock and by any other lock.
THEOREM PathsExclusive == Spec => []Subtree!Exclusive
<1>1. IInv => Subtree!Exclusive
  <2> SUFFICES ASSUME IInv, NEW p \in Path, NEW g \in holders, NEW h \in holders,
                      p \in RegionOf(g.resource), p \in RegionOf(h.resource),
                      g.lock_type = "WRITE"
               PROVE  g = h
    BY DEF Subtree!Exclusive, GrantOf
  <2>1. g.resource \in Resource /\ h.resource \in Resource
    BY DEF IInv, TypeOK, Holder
  <2>2. ResourcesOverlap(g.resource, h.resource)
    BY <2>1, OverlapIsSharedPath
  <2>3. Conflicts(g, h)
    BY <2>2 DEF Conflicts
  <2> QED
    BY <2>3 DEF IInv, MutualExclusion
<1> QED
  BY <1>1, Invariant, PTL

\* Registering a lock is one Take of its region in the abstract lock.
LEMMA RegisterTakes ==
    ASSUME IInv, NEW t \in Task, ~ leaving[t], depth[t] < Len(plan[t]),
           ~ HasConflict(Requested(t)), Register(t)
    PROVE  Subtree!Next
<1> DEFINE req == Requested(t)
           grants == {GrantOf(h) : h \in holders}
<1>1. TypeOK /\ Accounting
  BY DEF IInv
<1>2. depth[t] + 1 \in 1..Len(plan[t])
  BY <1>1, PlanLength DEF TypeOK
<1>3. req \in Holder /\ req.owner = t /\ req.level = depth[t] + 1
  BY <1>1, <1>2, HolderAtIsHolder DEF Requested
<1>4. GrantOf(req) \in Subtree!Grant
  <2>1. plan[t] \in Plan /\ plan[t] \in Seq(Lock)
    BY <1>1, PlanAssumption DEF TypeOK
  <2>2. req.level \in UNION {DOMAIN p : p \in Plan}
    BY <2>1, <1>2, <1>3
  <2>3. /\ <<req.owner, req.level>> \in Task \X UNION {DOMAIN p : p \in Plan}
        /\ req.lock_type \in {"READ", "WRITE"}
        /\ RegionOf(req.resource) \in {RegionOf(r) : r \in Resource}
    BY <2>2, <1>3 DEF Holder, LockType
  <2> QED
    BY <2>3 DEF Subtree!Grant, GrantOf
<1>5. ASSUME NEW h \in holders
      PROVE  /\ GrantOf(req).client # GrantOf(h).client
             /\ Subtree!Compatible(GrantOf(req), GrantOf(h))
  <2>1. h \in Holder
    BY <1>1 DEF TypeOK
  <2>2. ~ (h.owner = t /\ h.level = depth[t] + 1)
    BY <1>1 DEF Accounting, TypeOK
  <2>3. ResourcesOverlap(req.resource, h.resource)
          => req.lock_type = "READ" /\ h.lock_type = "READ"
    BY DEF HasConflict, Conflicts
  <2>4. RegionOf(req.resource) \cap RegionOf(h.resource) # {}
          => ResourcesOverlap(req.resource, h.resource)
    BY <1>3, <2>1, OverlapIsSharedPath DEF Holder
  <2> QED
    BY <2>2, <2>3, <2>4, <1>3 DEF GrantOf, Subtree!Compatible
<1>6. {GrantOf(h) : h \in holders'} = grants \cup {GrantOf(req)}
  BY DEF Register
<1>7. \A h : GrantOf(h)' = GrantOf(h)
  BY DEF GrantOf, RegionOf, IsDirectory, PathOf, IsSameOrDescendant
<1>8. Subtree!Take(GrantOf(req))
  BY <1>5, <1>6, <1>7 DEF Subtree!Take
<1> QED
  BY <1>4, <1>8 DEF Subtree!Next

\* A release is one GiveBack in the abstract lock.
LEMMA ReleaseGivesBack ==
    ASSUME IInv, NEW g \in releaseTask, ReleaseStep(g)
    PROVE  Subtree!Next
<1> DEFINE client == <<g.owner, g.level>>
<1>1. TypeOK /\ Accounting
  BY DEF IInv
<1>2. g \in holders /\ g \in Holder
  BY <1>1 DEF Accounting, ReleaseNeverRaises, TypeOK
<1>3. client \in Task \X UNION {DOMAIN p : p \in Plan}
  <2>1. plan[g.owner] \in Plan /\ plan[g.owner] \in Seq(Lock)
    BY <1>1, <1>2, PlanAssumption DEF TypeOK, Holder
  <2>2. g.level \in DOMAIN plan[g.owner]
    BY <2>1, <1>1, <1>2 DEF Accounting
  <2> QED
    BY <2>1, <2>2, <1>2 DEF Holder
<1>4. \A h \in holders : <<h.owner, h.level>> = client => h = g
  BY <1>1, <1>2 DEF Accounting
<1>5. {GrantOf(h) : h \in holders \ {g}} = {x \in {GrantOf(h) : h \in holders} : x.client # client}
  BY <1>4 DEF GrantOf
<1>6. \A h : GrantOf(h)' = GrantOf(h)
  BY DEF GrantOf, RegionOf, IsDirectory, PathOf, IsSameOrDescendant
<1>7. Subtree!GiveBack(client)
  BY <1>5, <1>6 DEF Subtree!GiveBack, ReleaseStep
<1> QED
  BY <1>3, <1>7 DEF Subtree!Next

\* The lock manager implements the readers-writer lock on the paths of the file
\* system: a registered lock is a grant of its whole region.
THEOREM Refinement == Spec => ImplementsSubtreeLock
<1> DEFINE grants == {GrantOf(h) : h \in holders}
<1>1. Init => Subtree!Init
  BY DEF Init, Subtree!Init
<1>2. IInv /\ [Next]_vars => [Subtree!Next]_grants
  <2> SUFFICES ASSUME IInv, [Next]_vars PROVE Subtree!Next \/ grants' = grants
    OBVIOUS
  <2>1. ASSUME holders' = holders PROVE grants' = grants
    BY <2>1 DEF GrantOf, RegionOf, IsDirectory, PathOf, IsSameOrDescendant
  <2>2. ASSUME NEW t \in Task, AcquireGranted(t) PROVE Subtree!Next
    BY <2>2, RegisterTakes DEF AcquireGranted, Enters
  <2>3. ASSUME NEW t \in Task, WakeGranted(t) PROVE Subtree!Next
    BY <2>3, RegisterTakes DEF WakeGranted, IInv, Acquiring
  <2>4. ASSUME Release PROVE Subtree!Next
    BY <2>4, ReleaseGivesBack DEF Release
  <2>5. ASSUME NEW t \in Task,
               \/ AcquireWait(t) \/ AcquireRefused(t) \/ WakeAgain(t) \/ Exit(t)
               \/ Finish(t) \/ Cancel(t)
        PROVE  holders' = holders
    BY <2>5 DEF AcquireWait, AcquireRefused, WakeAgain, Exit, Finish, Cancel, CancelWaiter,
       CancelRunning, CancelReleasing, CancelAgain
  <2>6. ASSUME Idle \/ UNCHANGED vars PROVE holders' = holders
    BY <2>6 DEF Idle, vars
  <2> QED
    BY <2>1, <2>2, <2>3, <2>4, <2>5, <2>6 DEF Next, Proceed
<1> QED
  BY <1>1, <1>2, Invariant, PTL DEF Spec, ImplementsSubtreeLock, Subtree!Spec

------------------------------------------------------------------------------
(* Nested locks taken in order never deadlock.                              *)

\* The ranks of the locks are bounded by max.
RankBounded(rank, max) ==
    \A p \in Plan : \A i \in DOMAIN p : rank[p[i]] \in 0..max

\* In an ordered set of plans a sleeper of the highest rank is behind a task that is
\* awake, so that not everybody sleeps.
LEMMA OrderedNoDeadlock ==
    ASSUME NEW rank, NEW max \in Nat, Ordered(Plan, rank), RankBounded(rank, max), IInv
    PROVE  NoDeadlock
<1> DEFINE asleep == {t \in Task : pc[t] = "waiting"}
           rankOf(t) == rank[plan[t][depth[t] + 1]]
           slack == {max - rankOf(t) : t \in asleep}
<1>1. TypeOK /\ Accounting /\ Acquiring /\ WaiterIsBlockedByOther
  BY DEF IInv
<1>2. ASSUME NEW t \in Task
      PROVE  plan[t] \in Plan /\ plan[t] \in Seq(Lock) /\ DOMAIN plan[t] = 1..Len(plan[t])
  BY <1>1, PlanAssumption DEF TypeOK
<1>3. ASSUME NEW t \in asleep
      PROVE  depth[t] + 1 \in DOMAIN plan[t] /\ rankOf(t) \in 0..max
  <2>1. depth[t] + 1 \in 1..Len(plan[t])
    BY <1>1, PlanLength DEF Acquiring, TypeOK
  <2> QED
    BY <2>1, <1>2 DEF RankBounded
<1>4. SUFFICES ASSUME ~ NoDeadlock PROVE FALSE
  OBVIOUS
<1>5. /\ releaseTask = {}
      /\ \A t \in Task : pc[t] \in {"waiting", "done"}
      /\ asleep # {}
  BY <1>4 DEF NoDeadlock, AllDone
<1>6. PICK t \in asleep : \A u \in asleep : rankOf(u) <= rankOf(t)
  <2>1. slack \in SUBSET Nat /\ slack # {}
    BY <1>3, <1>5
  <2>2. PICK n \in slack : \A m \in slack : n <= m
    BY <2>1, LeastNatural
  <2>3. PICK t \in asleep : n = max - rankOf(t)
    BY <2>2
  <2>4. \A u \in asleep : max - rankOf(t) <= max - rankOf(u)
    BY <2>2, <2>3
  <2>5. \A u \in asleep : rankOf(u) \in 0..max
    BY <1>3
  <2> QED
    BY <2>4, <2>5
<1>7. PICK h \in holders : h.owner # t /\ Conflicts(Requested(t), h)
  BY <1>1 DEF WaiterIsBlockedByOther
<1>8. /\ h \in Holder /\ h.owner \in Task
      /\ h.level \in 1..Len(plan[h.owner])
      /\ h = HolderAt(h.owner, h.level)
      /\ h.level <= depth[h.owner]
  BY <1>1, <1>5 DEF Accounting, TypeOK, Holder
<1>9. h.owner \in asleep
  BY <1>1, <1>5, <1>8 DEF Accounting, TypeOK
<1>10. Conflicts(plan[t][depth[t] + 1], plan[h.owner][h.level])
  <2>1. Conflicts(Requested(t), HolderAt(h.owner, h.level))
    BY <1>7, <1>8
  <2> QED
    BY <2>1 DEF Conflicts, Requested, HolderAt
<1>11. rankOf(t) = rank[plan[h.owner][h.level]]
  BY <1>2, <1>3, <1>8, <1>10 DEF Ordered
<1>12. rank[plan[h.owner][h.level]] < rankOf(h.owner)
  <2>1. depth[h.owner] + 1 \in DOMAIN plan[h.owner]
    BY <1>3, <1>9
  <2>2. h.level < depth[h.owner] + 1
    BY <1>1, <1>8 DEF TypeOK, Holder
  <2> QED
    BY <2>1, <2>2, <1>2, <1>8 DEF Ordered
<1> QED
  BY <1>3, <1>6, <1>9, <1>11, <1>12

\* Whatever the tasks and their number: if the plans take their locks in the order
\* of some bounded rank, there is always a task that can go on.
THEOREM DeadlockFreedom ==
    ASSUME NEW CONSTANT rank, NEW CONSTANT max \in Nat,
           Ordered(Plan, rank), RankBounded(rank, max)
    PROVE  Spec => []NoDeadlock
<1>1. IInv => NoDeadlock
  BY OrderedNoDeadlock
<1> QED
  BY <1>1, Invariant, PTL

=============================================================================
