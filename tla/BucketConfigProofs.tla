-------------------------- MODULE BucketConfigProofs --------------------------
(****************************************************************************)
(* Proofs about BucketConfig: Object Lock is never lost, for any number of  *)
(* requests, any rules and any number of faults.                            *)
(****************************************************************************)
EXTENDS BucketConfig, TLAPS

\* A request changes the columns of its own service, and Object Lock only to TRUE.
ChangesItsOwn ==
    \A r \in Request : pc[r] \in {"loaded", "flushed", "ok"} =>
        /\ kind[r] = "lock" => wanted[r].lock
        /\ kind[r] = "versioning" => wanted[r].lock = loaded[r].lock

\* A snapshot may be stale, but Object Lock is not one of the things that go stale.
SnapshotLockHolds == \A r \in Request : loaded[r].lock => bucket.lock

\* What has been flushed is guarded by SQLite's write lock, and satisfies the constraints.
FlushedIsChecked ==
    \A r \in Request : pc[r] = "flushed" /\ wanted[r] # loaded[r] =>
        dbWriter = r /\ Checked(Updated(r))

IInv ==
    /\ TypeOK
    /\ ChangesItsOwn
    /\ SnapshotLockHolds
    /\ FlushedIsChecked
    /\ AcknowledgedLockHolds

\* A row is the function from the columns to its values: Updated is again a row.
LEMMA UpdatedRow ==
    ASSUME NEW r \in Request, bucket \in Row, wanted[r] \in Row
    PROVE  /\ Updated(r) \in Row
           /\ Updated(r).lock = IF wanted[r].lock # loaded[r].lock THEN wanted[r].lock
                                                                ELSE bucket.lock
           /\ wanted[r] = loaded[r] => Updated(r) = bucket
<1>1. Updated(r) = [c \in Column |-> IF wanted[r][c] # loaded[r][c] THEN wanted[r][c]
                                                                    ELSE bucket[c]]
  BY DEF Updated
<1>2. Updated(r) \in Row
  BY <1>1 DEF Row, Column
<1>3. Updated(r).lock = IF wanted[r].lock # loaded[r].lock THEN wanted[r].lock
                                                         ELSE bucket.lock
  BY <1>1 DEF Column
<1>4. ASSUME wanted[r] = loaded[r] PROVE Updated(r) = bucket
  BY <1>1, <1>4 DEF Row, Column
<1> QED BY <1>2, <1>3, <1>4

LEMMA InitIInv == Init => IInv
<1> SUFFICES ASSUME Init PROVE IInv
  OBVIOUS
<1> USE NullAssumption, BoundAssumption
<1>1. NewRow \in Row /\ Checked(NewRow) /\ ~ NewRow.lock
  BY DEF NewRow, Row, Checked, RuleOf, NoRule
<1>2. TypeOK
  BY <1>1 DEF Init, TypeOK
<1>3. \A r \in Request : pc[r] = "new" /\ ~ loaded[r].lock
  BY <1>1 DEF Init
<1>4. ChangesItsOwn /\ SnapshotLockHolds /\ FlushedIsChecked /\ AcknowledgedLockHolds
  BY <1>3 DEF ChangesItsOwn, SnapshotLockHolds, FlushedIsChecked, AcknowledgedLockHolds
<1> QED BY <1>2, <1>4 DEF IInv

\* The attributes that a request sets on its object make a row.
LEMMA WantedRow ==
    /\ \A status \in {"Enabled", "Suspended"}, row \in Row :
           SetVersioning(row, status) \in Row /\ SetVersioning(row, status).lock = row.lock
    /\ \A rule \in Rule \cup {NoRule}, row \in Row :
           SetObjectLock(row, rule) \in Row /\ SetObjectLock(row, rule).lock
<1>1. \A status \in {"Enabled", "Suspended"}, row \in Row :
          SetVersioning(row, status) \in Row /\ SetVersioning(row, status).lock = row.lock
  BY DEF SetVersioning, Row
<1>2. ASSUME NEW rule \in Rule \cup {NoRule}
      PROVE  /\ rule.mode \in Mode \cup {Null}
             /\ rule.days \in Nat \cup {Null}
             /\ rule.years \in Nat \cup {Null}
  BY RuleAssumption DEF IsRule, NoRule
<1>3. \A rule \in Rule \cup {NoRule}, row \in Row :
          SetObjectLock(row, rule) \in Row /\ SetObjectLock(row, rule).lock
  BY <1>2 DEF SetObjectLock, Row
<1> QED BY <1>1, <1>3

LEMMA LoadStep == ASSUME IInv, NEW r \in Request, Load(r) PROVE IInv'
<1> USE DEF IInv
<1>1. /\ pc' = [pc EXCEPT ![r] = "loaded"]
      /\ loaded' = [loaded EXCEPT ![r] = bucket]
      /\ UNCHANGED <<bucket, dbWriter, faults>>
  BY DEF Load, Goto
<1>2. \E row \in Row, k \in {"versioning", "lock"} :
          /\ wanted' = [wanted EXCEPT ![r] = row] /\ kind' = [kind EXCEPT ![r] = k]
          /\ k = "lock" => row.lock
          /\ k = "versioning" => row.lock = bucket.lock
  <2>1. CASE \E status \in {"Enabled", "Suspended"} :
                 /\ wanted' = [wanted EXCEPT ![r] = SetVersioning(bucket, status)]
                 /\ kind' = [kind EXCEPT ![r] = "versioning"]
    BY <2>1, WantedRow DEF TypeOK
  <2>2. CASE \E rule \in Rule \cup {NoRule} :
                 /\ wanted' = [wanted EXCEPT ![r] = SetObjectLock(bucket, rule)]
                 /\ kind' = [kind EXCEPT ![r] = "lock"]
    BY <2>2, WantedRow DEF TypeOK
  <2> QED BY <2>1, <2>2 DEF Load
<1>3. TypeOK'
  BY <1>1, <1>2 DEF TypeOK
<1>4. ChangesItsOwn'
  BY <1>1, <1>2 DEF TypeOK, ChangesItsOwn
<1>5. SnapshotLockHolds'
  BY <1>1 DEF TypeOK, SnapshotLockHolds
<1>6. ASSUME NEW s \in Request, s # r
      PROVE  UNCHANGED <<pc[s], kind[s], wanted[s], loaded[s], Updated(s)>>
  BY <1>1, <1>2, <1>6 DEF TypeOK, Updated
<1>7. pc'[r] = "loaded"
  BY <1>1 DEF TypeOK
<1>8. FlushedIsChecked'
  BY <1>1, <1>6, <1>7 DEF FlushedIsChecked, Checked
<1>9. AcknowledgedLockHolds'
  BY <1>1, <1>6, <1>7 DEF AcknowledgedLockHolds
<1> QED BY <1>3, <1>4, <1>5, <1>8, <1>9

\* Steps that move one request on and leave the row, the snapshots and the objects alone.
LEMMA QuietStep ==
    ASSUME IInv, NEW r \in Request, NEW label \in {"failed", "error"},
           Goto(r, label), UNCHANGED <<bucket, kind, loaded, wanted>>,
           dbWriter' \in {dbWriter, Null},
           dbWriter' # dbWriter => dbWriter = r,
           faults' \in 0..MaxFaults
    PROVE  IInv'
<1> USE DEF IInv, Goto
<1>1. TypeOK'
  BY DEF TypeOK
<1>2. ChangesItsOwn' /\ SnapshotLockHolds' /\ AcknowledgedLockHolds'
  BY DEF TypeOK, ChangesItsOwn, SnapshotLockHolds, AcknowledgedLockHolds
<1>3. FlushedIsChecked'
  BY DEF TypeOK, FlushedIsChecked, Checked, Updated
<1> QED BY <1>1, <1>2, <1>3

LEMMA FlushStep == ASSUME IInv, NEW r \in Request, Flush(r) PROVE IInv'
<1> USE DEF IInv
<1>1. CASE /\ Goto(r, "failed") /\ UNCHANGED <<bucket, kind, loaded, wanted, dbWriter>>
           /\ NoFault \/ Fault
  <2>1. faults' \in 0..MaxFaults
    BY <1>1, BoundAssumption DEF NoFault, Fault, TypeOK
  <2> QED BY <1>1, <2>1, QuietStep
<1>2. CASE /\ pc[r] = "loaded" /\ Goto(r, "flushed")
           /\ UNCHANGED <<bucket, kind, loaded, wanted, faults>>
           /\ \/ wanted[r] = loaded[r] /\ UNCHANGED dbWriter
              \/ dbWriter = Null /\ Checked(Updated(r)) /\ dbWriter' = r
  <2>1. TypeOK'
    BY <1>2 DEF TypeOK, Goto
  <2>2. ChangesItsOwn' /\ SnapshotLockHolds' /\ AcknowledgedLockHolds'
    BY <1>2 DEF TypeOK, ChangesItsOwn, SnapshotLockHolds, AcknowledgedLockHolds, Goto
  <2>3. \A s \in Request : Updated(s)' = Updated(s)
    BY <1>2 DEF Updated
  <2>4. \A s \in Request : Checked(Updated(s))' <=> Checked(Updated(s))
    BY <2>3 DEF Checked
  <2>5. \A s \in Request : s # r => (pc'[s] = pc[s])
    BY <1>2 DEF TypeOK, Goto
  <2>6. \A s \in Request : s # Null
    BY NullAssumption
  <2>7. FlushedIsChecked'
    BY <1>2, <2>4, <2>5, <2>6 DEF FlushedIsChecked
  <2> QED BY <2>1, <2>2, <2>7
<1> QED BY <1>1, <1>2 DEF Flush, NoFault

\* What a commit does to the row: it stays one the constraints admit, and keeps the lock.
LEMMA CommitRow ==
    ASSUME IInv, NEW r \in Request, pc[r] = "flushed"
    PROVE  /\ Updated(r) \in Row /\ Checked(Updated(r))
           /\ bucket.lock => Updated(r).lock
           /\ kind[r] = "lock" => Updated(r).lock
           /\ loaded[r].lock => Updated(r).lock
<1>1. bucket \in Row /\ wanted[r] \in Row /\ loaded[r] \in Row /\ Checked(bucket)
  BY DEF IInv, TypeOK
<1>2. /\ Updated(r) \in Row
      /\ Updated(r).lock = IF wanted[r].lock # loaded[r].lock THEN wanted[r].lock
                                                           ELSE bucket.lock
      /\ wanted[r] = loaded[r] => Updated(r) = bucket
  BY <1>1, UpdatedRow
<1>3. Checked(Updated(r))
  BY <1>1, <1>2 DEF IInv, FlushedIsChecked
<1>4. /\ kind[r] \in {"versioning", "lock"}
      /\ kind[r] = "lock" => wanted[r].lock
      /\ kind[r] = "versioning" => wanted[r].lock = loaded[r].lock
      /\ loaded[r].lock => bucket.lock
  BY DEF IInv, TypeOK, ChangesItsOwn, SnapshotLockHolds
<1>5. bucket.lock \in BOOLEAN /\ wanted[r].lock \in BOOLEAN /\ loaded[r].lock \in BOOLEAN
  BY <1>1 DEF Row
<1> QED BY <1>2, <1>3, <1>4, <1>5

LEMMA CommitStep == ASSUME IInv, NEW r \in Request, Commit(r) PROVE IInv'
<1> USE DEF IInv
<1>0. pc[r] = "flushed" /\ UNCHANGED <<kind, loaded, wanted>>
  BY DEF Commit
<1>1. CASE Fault /\ Goto(r, "failed") /\ UNCHANGED <<bucket, dbWriter>>
  <2>1. faults' \in 0..MaxFaults
    BY <1>1, BoundAssumption DEF Fault, TypeOK
  <2> QED BY <1>0, <1>1, <2>1, QuietStep
<1>2. CASE /\ UNCHANGED faults /\ bucket' = Updated(r)
           /\ Released(r) /\ Goto(r, "ok")
  <2>1. /\ Updated(r) \in Row /\ Checked(Updated(r))
        /\ bucket.lock => Updated(r).lock
        /\ kind[r] = "lock" => Updated(r).lock
    BY <1>0, CommitRow
  <2>2. Checked(bucket)'
    BY <1>2, <2>1 DEF Checked
  <2>3. TypeOK'
    BY <1>0, <1>2, <2>1, <2>2 DEF TypeOK, Released, Goto
  <2>4. ChangesItsOwn'
    BY <1>0, <1>2 DEF TypeOK, ChangesItsOwn, Goto
  <2>5. SnapshotLockHolds'
    BY <1>0, <1>2, <2>1 DEF SnapshotLockHolds
  <2>6. AcknowledgedLockHolds'
    BY <1>0, <1>2, <2>1 DEF TypeOK, AcknowledgedLockHolds, Goto
  <2>7. ASSUME NEW s \in Request, pc'[s] = "flushed", wanted'[s] # loaded'[s]
        PROVE  dbWriter' = s /\ Checked(Updated(s))'
    <3>1. s # r /\ pc[s] = "flushed" /\ wanted[s] # loaded[s]
      BY <1>0, <1>2, <2>7 DEF TypeOK, Goto
    <3>2. dbWriter = s /\ Checked(Updated(s))
      BY <3>1 DEF FlushedIsChecked
    <3>3. wanted[r] = loaded[r]
      BY <1>0, <3>1, <3>2 DEF FlushedIsChecked
    <3>4. bucket' = bucket
      BY <1>2, <3>3, UpdatedRow DEF TypeOK
    <3>5. Updated(s)' = Updated(s)
      BY <1>0, <3>4 DEF Updated
    <3>6. dbWriter' = s
      BY <1>2, <3>1, <3>2 DEF Released
    <3> QED BY <3>2, <3>5, <3>6 DEF Checked
  <2>8. FlushedIsChecked'
    BY <2>7 DEF FlushedIsChecked
  <2> QED BY <2>3, <2>4, <2>5, <2>6, <2>8
<1> QED BY <1>1, <1>2 DEF Commit, NoFault

LEMMA IInvStep == IInv /\ [Next]_vars => IInv'
<1> SUFFICES ASSUME IInv, [Next]_vars PROVE IInv'
  OBVIOUS
<1>1. ASSUME NEW r \in Request, Load(r) PROVE IInv'
  BY <1>1, LoadStep
<1>2. ASSUME NEW r \in Request, Refuse(r) PROVE IInv'
  <2>1. faults' \in 0..MaxFaults
    BY <1>2 DEF Refuse, IInv, TypeOK
  <2> QED BY <1>2, <2>1, QuietStep DEF Refuse
<1>3. ASSUME NEW r \in Request, Flush(r) PROVE IInv'
  BY <1>3, FlushStep
<1>4. ASSUME NEW r \in Request, Commit(r) PROVE IInv'
  BY <1>4, CommitStep
<1>5. ASSUME NEW r \in Request, Rollback(r) PROVE IInv'
  <2>1. faults' \in 0..MaxFaults
    BY <1>5 DEF Rollback, IInv, TypeOK
  <2> QED BY <1>5, <2>1, QuietStep DEF Rollback, Released
<1>6. CASE UNCHANGED vars
  BY <1>6 DEF vars, IInv, TypeOK, ChangesItsOwn, SnapshotLockHolds, FlushedIsChecked,
              AcknowledgedLockHolds, Checked, Updated
<1> QED BY <1>1, <1>2, <1>3, <1>4, <1>5, <1>6 DEF Next

\* The inductive invariant holds of every behaviour.
THEOREM Invariant == Spec => []IInv
  BY InitIInv, IInvStep, PTL DEF Spec

\* models/bucket.py: the row satisfies its constraints, whatever the services write.
THEOREM TypeCorrect == Spec => []TypeOK
<1>1. IInv => TypeOK
  BY DEF IInv
<1> QED BY <1>1, Invariant, PTL

\* bucket_object_lock_update: a configuration that was acknowledged is in force.
THEOREM LockAcknowledged == Spec => []AcknowledgedLockHolds
<1>1. IInv => AcknowledgedLockHolds
  BY DEF IInv
<1> QED BY <1>1, Invariant, PTL

\* set_bucket_object_lock_configuration: no request of either service, however stale
\* the row it validated, takes Object Lock or the versioning it needs away again.
THEOREM LockStays == Spec => LockIsForever
<1>1. IInv /\ IInv' /\ [Next]_vars =>
          [bucket.lock => bucket'.lock /\ bucket'.versioning = "Enabled"]_vars
  <2> SUFFICES ASSUME IInv, IInv', [Next]_vars, bucket.lock
               PROVE  bucket'.lock /\ bucket'.versioning = "Enabled"
    BY DEF vars
  <2>1. bucket'.lock
    <3>1. CASE UNCHANGED bucket
      BY <3>1
    <3>2. CASE \E r \in Request : pc[r] = "flushed" /\ bucket' = Updated(r)
      BY <3>2, CommitRow
    <3> QED BY <3>1, <3>2 DEF Next, Load, Refuse, Flush, Commit, Rollback, vars
  <2>2. Checked(bucket)'
    BY DEF IInv, TypeOK
  <2> QED BY <2>1, <2>2 DEF Checked
<1> QED BY <1>1, Invariant, PTL DEF Spec, LockIsForever

===============================================================================
