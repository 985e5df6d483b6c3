-------------------------- MODULE ObjectStoreProofs --------------------------
(****************************************************************************)
(* Proofs about ObjectStore, for any uploads, downloads, keys and bounds.   *)
(****************************************************************************)
EXTENDS ObjectStore, SequenceTheorems, TLAPS

------------------------------------------------------------------------------
(* The inductive invariant.                                                 *)

\* Where the payload of an upload is at its staged path at most.
Unpublished == {"new", "loaded", "staging", "staged", "prepared", "saved", "flushed"}

\* Where an upload has left the lock for good.
Gone == {"answering"} \cup Ended

\* Inside the `async with` of the bucket lock.
Inside == PC \ (Gone \cup {"new", "loaded"})

HolderIsInside == \A r \in Upload : pc[r] \in Inside => bucketLock = r

\* What the local variables of an upload say about the files and the row.
LocalsTellTheTruth ==
    \A r \in Upload :
        /\ pc[r] # "new" => key[r] \in Key
        /\ pc[r] \in {"prepared", "saved", "flushed"} =>
              node[key[r]] # Dir /\ \A p \in Above(key[r]) : node[p] = Dir
        /\ pc[r] \in Unpublished \cup {"refused"} => ~ objectWritten[r]
        /\ pc[r] \in {"new", "loaded", "staging", "staged", "prepared", "refused"} =>
              ~ backupCreated[r] /\ backup[r] = None
        /\ pc[r] = "published" => objectWritten[r]
        /\ InDoubt(r) => node[key[r]] = r
        /\ pc[r] \in {"saved", "flushed"} /\ ~ backupCreated[r] => ~ IsFile(key[r])
        /\ InDoubt(r) /\ ~ backupCreated[r] => row[key[r]] = None
        /\ pc[r] \in Inside \ {"restored", "reconciled"} /\ backupCreated[r] =>
              backup[r] \in Upload

\* How far an upload is whose payload is at a key, in a backup or in a row.
Provenance ==
    /\ \A p \in Path, r \in Upload : node[p] = r => pc[r] \notin Unpublished
    /\ \A r, s \in Upload : backup[r] = s => pc[s] \in Gone
    /\ \A k \in Key, r \in Upload :
          row[k] = r => pc[r] \in {"committed", "answering", "ok", "dead"}
    /\ \A r \in Upload : pc[r] \in {"committed", "answering"} /\ backup[r] # None =>
          row[key[r]] # backup[r]

\* A download that passed load_object asked for a key that has a row.
FoundIsCommitted ==
    \A d \in Download : dpc[d] \in {"found", "streaming"} =>
        dkey[d] \in Key /\ row[dkey[d]] # None

IInv ==
    /\ TypeOK
    /\ HolderIsInside
    /\ LocalsTellTheTruth
    /\ Provenance
    /\ KeysAreLeaves
    /\ RowHasFile
    /\ FoundIsCommitted
    /\ RowIsServed

\* A backup that may be discarded holds what is at the key.
BackupIsCurrent ==
    \A r \in Upload :
        /\ pc[r] \in {"saved", "flushed", "failed", "rolledback"}
        /\ backupCreated[r] /\ ~ objectWritten[r]
        => backup[r] = node[key[r]]

RInv == BackupIsCurrent /\ Recoverable

\* What every step is made of.
USE NullAssumption, BoundAssumption
    DEF Goto, Fault, LateFault, NoFault, Log, NoLog, db, locals, files, reads,
        Unpublished, Gone, Inside, Ended, PC

------------------------------------------------------------------------------
(* The initial states.                                                      *)

LEMMA InitIInv == Init => IInv
<1> SUFFICES ASSUME Init PROVE IInv
  OBVIOUS
<1>1. TypeOK
  BY DEF Init, TypeOK, PC, Ended, Status
<1>2. HolderIsInside
  BY DEF Init, HolderIsInside, Inside
<1>3. LocalsTellTheTruth
  BY DEF Init, LocalsTellTheTruth, Unpublished, Inside, InDoubt
<1>4. Provenance
  BY PathAssumption DEF Init, Provenance
<1>5. KeysAreLeaves /\ RowHasFile
  BY DEF Init, KeysAreLeaves, RowHasFile
<1>6. FoundIsCommitted /\ RowIsServed
  BY DEF Init, FoundIsCommitted, RowIsServed
<1> QED
  BY <1>1, <1>2, <1>3, <1>4, <1>5, <1>6 DEF IInv

------------------------------------------------------------------------------
(* Steps that leave the rows and the directory alone.                       *)

\* Whatever an upload does, the keys, the files and the downloads stay as they are
\* when neither a row nor a node changes.
LEMMA Frame ==
    ASSUME IInv, UNCHANGED <<row, node, reads>>
    PROVE  KeysAreLeaves' /\ RowHasFile' /\ FoundIsCommitted' /\ RowIsServed'
BY DEF IInv, reads, KeysAreLeaves, RowHasFile, FoundIsCommitted, RowIsServed, IsFile

LEMMA LoadBucketStep ==
    ASSUME IInv, NEW r \in Upload, LoadBucket(r)
    PROVE  IInv'
<1> USE DEF LoadBucket
<1>1. TypeOK'
  BY DEF IInv, TypeOK, Status
<1>2. HolderIsInside'
  BY DEF IInv, TypeOK, HolderIsInside
<1>3. LocalsTellTheTruth'
  BY DEF IInv, TypeOK, LocalsTellTheTruth, HolderIsInside, InDoubt, Above, IsFile
<1>4. Provenance'
  BY DEF IInv, TypeOK, Provenance, LocalsTellTheTruth
<1>5. UNCHANGED <<row, node, reads>>
  OBVIOUS
<1> QED
  BY <1>1, <1>2, <1>3, <1>4, <1>5, Frame DEF IInv

LEMMA LockBucketStep ==
    ASSUME IInv, NEW r \in Upload, LockBucket(r)
    PROVE  IInv'
<1> USE DEF LockBucket
<1>1. TypeOK'
  BY DEF IInv, TypeOK, Status
<1>2. HolderIsInside'
  BY DEF IInv, TypeOK, HolderIsInside
<1>3. LocalsTellTheTruth'
  BY DEF IInv, TypeOK, LocalsTellTheTruth, HolderIsInside, InDoubt, Above, IsFile
<1>4. Provenance'
  BY DEF IInv, TypeOK, Provenance, LocalsTellTheTruth
<1>5. UNCHANGED <<row, node, reads>>
  OBVIOUS
<1> QED
  BY <1>1, <1>2, <1>3, <1>4, <1>5, Frame DEF IInv

LEMMA StageStep ==
    ASSUME IInv, NEW r \in Upload, Stage(r)
    PROVE  IInv'
<1> USE DEF Stage
<1>1. TypeOK'
  <2>1. staged' \in [Upload -> BOOLEAN]
    <3>1. [staged EXCEPT ![r] = TRUE] \in [Upload -> BOOLEAN]
      BY DEF IInv, TypeOK
    <3>2. staged \in [Upload -> BOOLEAN]
      BY DEF IInv, TypeOK
    <3> QED
      BY <3>1, <3>2
  <2>3. faults' \in 0..MaxFaults
    BY DEF IInv, TypeOK
  <2>2. pc' \in [Upload -> PC]
    BY DEF IInv, TypeOK
  <2> QED
    BY <2>1, <2>2, <2>3 DEF IInv, TypeOK, Status
<1>2. HolderIsInside'
  BY DEF IInv, TypeOK, HolderIsInside
<1>3. LocalsTellTheTruth'
  BY DEF IInv, TypeOK, LocalsTellTheTruth, HolderIsInside, InDoubt, Above, IsFile
<1>4. Provenance'
  BY DEF IInv, TypeOK, Provenance, LocalsTellTheTruth
<1>5. UNCHANGED <<row, node, reads>>
  OBVIOUS
<1> QED
  BY <1>1, <1>2, <1>3, <1>4, <1>5, Frame DEF IInv

LEMMA NotImplementedStep ==
    ASSUME IInv, NEW r \in Upload, NotImplemented(r)
    PROVE  IInv'
<1> USE DEF NotImplemented
<1>1. TypeOK'
  BY DEF IInv, TypeOK, Status
<1>2. HolderIsInside'
  BY DEF IInv, TypeOK, HolderIsInside
<1>3. LocalsTellTheTruth'
  BY DEF IInv, TypeOK, LocalsTellTheTruth, HolderIsInside, InDoubt, Above, IsFile
<1>4. Provenance'
  BY DEF IInv, TypeOK, Provenance, LocalsTellTheTruth
<1>5. UNCHANGED <<row, node, reads>>
  OBVIOUS
<1> QED
  BY <1>1, <1>2, <1>3, <1>4, <1>5, Frame DEF IInv

LEMMA BackupStep ==
    ASSUME IInv, NEW r \in Upload, Backup(r)
    PROVE  IInv'
<1> USE DEF Backup, IsFile
<1>0. key[r] \in Path
  BY PathAssumption DEF IInv, LocalsTellTheTruth
<1>1. TypeOK'
  <2>1. backup' \in [Upload -> Upload \cup {None}]
    BY <1>0 DEF IInv, TypeOK
  <2>2. backupCreated' \in [Upload -> BOOLEAN]
    BY DEF IInv, TypeOK
  <2>3. faults' \in 0..MaxFaults /\ pc' \in [Upload -> PC]
    BY DEF IInv, TypeOK
  <2> QED
    BY <2>1, <2>2, <2>3 DEF IInv, TypeOK, Status
<1>2. HolderIsInside'
  BY DEF IInv, TypeOK, HolderIsInside
<1>3. LocalsTellTheTruth'
  BY DEF IInv, TypeOK, LocalsTellTheTruth, HolderIsInside, InDoubt, Above, IsFile
<1>4. Provenance'
  <2>1. ASSUME NEW s \in Upload, backup'[r] = s, backup[r] # s
        PROVE  pc[s] \in Gone /\ s # r
    \* s is at the key and is not inside, because r is.
    <3>1. node[key[r]] = s /\ pc[r] = "prepared"
      BY <2>1 DEF IInv, TypeOK
    <3>2. pc[s] \notin Unpublished
      BY <1>0, <3>1 DEF IInv, Provenance
    <3>3. pc[s] \notin Inside
      BY <3>1, <3>2 DEF IInv, HolderIsInside
    <3> QED
      BY <3>1, <3>2, <3>3 DEF IInv, TypeOK
  <2>2. \A s \in Upload : s # r => backup'[s] = backup[s] /\ pc'[s] = pc[s]
    BY DEF IInv, TypeOK
  <2>3. pc[r] = "prepared" /\ pc'[r] \in {"saved", "failed"}
    BY DEF IInv, TypeOK
  <2>4. \A q, s \in Upload : backup'[q] = s => pc'[s] \in Gone
    BY <2>1, <2>2, <2>3 DEF IInv, Provenance
  <2> QED
    BY <2>2, <2>3, <2>4 DEF IInv, Provenance
<1>5. UNCHANGED <<row, node, reads>>
  OBVIOUS
<1> QED
  BY <1>1, <1>2, <1>3, <1>4, <1>5, Frame DEF IInv

LEMMA FlushStep ==
    ASSUME IInv, NEW r \in Upload, Flush(r)
    PROVE  IInv'
<1> USE DEF Flush
<1>1. TypeOK'
  BY DEF IInv, TypeOK, Status
<1>2. HolderIsInside'
  BY DEF IInv, TypeOK, HolderIsInside
<1>3. LocalsTellTheTruth'
  BY DEF IInv, TypeOK, LocalsTellTheTruth, HolderIsInside, InDoubt, Above, IsFile
<1>4. Provenance'
  BY DEF IInv, TypeOK, Provenance, LocalsTellTheTruth
<1>5. UNCHANGED <<row, node, reads>>
  OBVIOUS
<1> QED
  BY <1>1, <1>2, <1>3, <1>4, <1>5, Frame DEF IInv

LEMMA UnlockStep ==
    ASSUME IInv, NEW r \in Upload, Unlock(r)
    PROVE  IInv'
<1> USE DEF Unlock
<1>1. TypeOK'
  BY DEF IInv, TypeOK, Status
<1>2. HolderIsInside'
  BY DEF IInv, TypeOK, HolderIsInside
<1>3. LocalsTellTheTruth'
  BY DEF IInv, TypeOK, LocalsTellTheTruth, HolderIsInside, InDoubt, Above, IsFile
<1>4. Provenance'
  BY DEF IInv, TypeOK, Provenance, LocalsTellTheTruth
<1>5. UNCHANGED <<row, node, reads>>
  OBVIOUS
<1> QED
  BY <1>1, <1>2, <1>3, <1>4, <1>5, Frame DEF IInv

LEMMA DropBackupStep ==
    ASSUME IInv, NEW r \in Upload, DropBackup(r)
    PROVE  IInv'
<1> USE DEF DropBackup
<1>1. TypeOK'
  BY DEF IInv, TypeOK, Status
<1>2. HolderIsInside'
  BY DEF IInv, TypeOK, HolderIsInside
<1>3. LocalsTellTheTruth'
  BY DEF IInv, TypeOK, LocalsTellTheTruth, HolderIsInside, InDoubt, Above, IsFile
<1>4. Provenance'
  BY DEF IInv, TypeOK, Provenance, LocalsTellTheTruth
<1>5. UNCHANGED <<row, node, reads>>
  OBVIOUS
<1> QED
  BY <1>1, <1>2, <1>3, <1>4, <1>5, Frame DEF IInv

LEMMA RollbackStep ==
    ASSUME IInv, NEW r \in Upload, Rollback(r)
    PROVE  IInv'
<1> USE DEF Rollback
<1>1. TypeOK'
  BY DEF IInv, TypeOK, Status
<1>2. HolderIsInside'
  BY DEF IInv, TypeOK, HolderIsInside
<1>3. LocalsTellTheTruth'
  BY DEF IInv, TypeOK, LocalsTellTheTruth, HolderIsInside, InDoubt, Above, IsFile
<1>4. Provenance'
  BY DEF IInv, TypeOK, Provenance, LocalsTellTheTruth
<1>5. UNCHANGED <<row, node, reads>>
  OBVIOUS
<1> QED
  BY <1>1, <1>2, <1>3, <1>4, <1>5, Frame DEF IInv

LEMMA DropStagedStep ==
    ASSUME IInv, NEW r \in Upload, DropStaged(r)
    PROVE  IInv'
<1> USE DEF DropStaged
<1>1. TypeOK'
  <2>1. staged' \in [Upload -> BOOLEAN]
    <3>1. [staged EXCEPT ![r] = FALSE] \in [Upload -> BOOLEAN]
      BY DEF IInv, TypeOK
    <3>2. staged \in [Upload -> BOOLEAN]
      BY DEF IInv, TypeOK
    <3> QED
      BY <3>1, <3>2
  <2>3. faults' \in 0..MaxFaults
    BY DEF IInv, TypeOK
  <2>2. pc' \in [Upload -> PC] /\ logged' \subseteq Upload
    BY DEF IInv, TypeOK
  <2> QED
    BY <2>1, <2>2, <2>3 DEF IInv, TypeOK, Status
<1>2. HolderIsInside'
  BY DEF IInv, TypeOK, HolderIsInside
<1>3. LocalsTellTheTruth'
  BY DEF IInv, TypeOK, LocalsTellTheTruth, HolderIsInside, InDoubt, Above, IsFile
<1>4. Provenance'
  BY DEF IInv, TypeOK, Provenance, LocalsTellTheTruth
<1>5. UNCHANGED <<row, node, reads>>
  OBVIOUS
<1> QED
  BY <1>1, <1>2, <1>3, <1>4, <1>5, Frame DEF IInv

LEMMA AnswerErrorStep ==
    ASSUME IInv, NEW r \in Upload, AnswerError(r)
    PROVE  IInv'
<1> USE DEF AnswerError
<1>1. TypeOK'
  BY DEF IInv, TypeOK, Status
<1>2. HolderIsInside'
  BY DEF IInv, TypeOK, HolderIsInside
<1>3. LocalsTellTheTruth'
  BY DEF IInv, TypeOK, LocalsTellTheTruth, HolderIsInside, InDoubt, Above, IsFile
<1>4. Provenance'
  BY DEF IInv, TypeOK, Provenance, LocalsTellTheTruth
<1>5. UNCHANGED <<row, node, reads>>
  OBVIOUS
<1> QED
  BY <1>1, <1>2, <1>3, <1>4, <1>5, Frame DEF IInv

------------------------------------------------------------------------------
(* Steps that change the directory or a row.                                *)

\* A prefix, element by element.
LEMMA PrefixElements ==
    ASSUME NEW p \in Seq(Name), NEW q \in Seq(Name)
    PROVE  IsPrefix(p, q) <=> Len(p) <= Len(q) /\ \A i \in 1..Len(p) : p[i] = q[i]
<1>1. SubSeq(p, 1, Len(p)) = p
  OBVIOUS
<1>2. ASSUME Len(p) <= Len(q)
      PROVE  /\ SubSeq(q, 1, Len(p)) \in Seq(Name)
             /\ Len(SubSeq(q, 1, Len(p))) = Len(p)
             /\ \A i \in 1..Len(p) : SubSeq(q, 1, Len(p))[i] = q[i]
  BY <1>2
<1> QED
  BY <1>1, <1>2, SeqEqual DEF IsPrefix

\* A directory above a directory above a path is above the path.
LEMMA AboveAbove ==
    ASSUME NEW p \in Path, NEW q \in Path, NEW s \in Path,
           IsStrictPrefix(p, q), IsStrictPrefix(q, s)
    PROVE  IsStrictPrefix(p, s)
<1>1. p \in Seq(Name) /\ q \in Seq(Name) /\ s \in Seq(Name)
  BY PathAssumption
<1>2. Len(p) <= Len(q) /\ \A i \in 1..Len(p) : p[i] = q[i]
  BY <1>1, PrefixElements DEF IsStrictPrefix
<1>3. Len(q) <= Len(s) /\ \A i \in 1..Len(q) : q[i] = s[i]
  BY <1>1, PrefixElements DEF IsStrictPrefix
<1>4. IsPrefix(p, s)
  BY <1>1, <1>2, <1>3, PrefixElements
<1>5. ASSUME p = s PROVE FALSE
  <2>1. Len(p) = Len(q)
    BY <1>1, <1>2, <1>3, <1>5
  <2>2. p = q
    BY <1>1, <1>2, <2>1, SeqEqual
  <2> QED
    BY <2>2 DEF IsStrictPrefix
<1> QED
  BY <1>4, <1>5 DEF IsStrictPrefix

\* Making the directories above a path that meets no file keeps the tree a tree.
LEMMA MakeAboveKeeps ==
    ASSUME IInv, NEW k \in Path, \A p \in Above(k) : ~ IsFile(p), MakeAbove(k)
    PROVE  /\ node' \in [Path -> Upload \cup {None, Dir}]
           /\ KeysAreLeaves'
           /\ \A p \in Path : p \notin Above(k) => node'[p] = node[p]
           /\ \A p \in Path : IsFile(p) => node'[p] = node[p]
           /\ \A p \in Path : node'[p] # node[p] => node'[p] = Dir
<1>1. \A p \in Path : node'[p] = IF p \in Above(k) THEN Dir ELSE node[p]
  BY DEF MakeAbove
<1>2. node' \in [Path -> Upload \cup {None, Dir}]
  BY DEF MakeAbove, IInv, TypeOK
<1>3. KeysAreLeaves'
  <2> SUFFICES ASSUME NEW p \in Path, NEW q \in Path, IsStrictPrefix(p, q), node'[q] # None
               PROVE  node'[p] = Dir
    BY DEF KeysAreLeaves
  <2>1. CASE q \in Above(k)
    BY <1>1, <2>1, AboveAbove DEF Above
  <2>2. CASE q \notin Above(k)
    BY <1>1, <2>2 DEF IInv, KeysAreLeaves
  <2> QED
    BY <2>1, <2>2
<1>4. \A p \in Path : IsFile(p) => node'[p] = node[p]
  BY <1>1
<1> QED
  BY <1>1, <1>2, <1>3, <1>4

\* Who holds the lock is alone inside it.
LEMMA AloneInside ==
    ASSUME IInv, NEW r \in Upload, pc[r] \in Inside
    PROVE  /\ bucketLock = r
           /\ \A s \in Upload : s # r => pc[s] \notin Inside
           /\ key[r] \in Key /\ key[r] \in Path
BY PathAssumption DEF IInv, HolderIsInside, LocalsTellTheTruth

\* A step of the upload inside the lock leaves the other uploads' locals true,
\* whatever it does to the directory and the rows.
LEMMA OthersTellTheTruth ==
    ASSUME IInv, NEW r \in Upload, pc[r] \in Inside,
           NEW s \in Upload, s # r,
           pc'[s] = pc[s], key'[s] = key[s], objectWritten'[s] = objectWritten[s],
           backupCreated'[s] = backupCreated[s], backup'[s] = backup[s]
    PROVE  /\ pc'[s] # "new" => key'[s] \in Key
           /\ pc'[s] \in {"prepared", "saved", "flushed"} =>
                 node'[key'[s]] # Dir /\ \A p \in Above(key'[s]) : node'[p] = Dir
           /\ pc'[s] \in Unpublished \cup {"refused"} => ~ objectWritten'[s]
           /\ pc'[s] \in {"new", "loaded", "staging", "staged", "prepared", "refused"} =>
                 ~ backupCreated'[s] /\ backup'[s] = None
           /\ pc'[s] = "published" => objectWritten'[s]
           /\ InDoubt(s)' => node'[key'[s]] = s
           /\ pc'[s] \in {"saved", "flushed"} /\ ~ backupCreated'[s] => ~ IsFile(key[s])'
           /\ InDoubt(s)' /\ ~ backupCreated'[s] => row'[key'[s]] = None
           /\ pc'[s] \in Inside \ {"restored", "reconciled"} /\ backupCreated'[s] =>
                 backup'[s] \in Upload
<1>1. pc'[s] \notin Inside
  BY AloneInside
<1> QED
  BY <1>1 DEF IInv, LocalsTellTheTruth, InDoubt

\* object_mkdir makes directories only where there is no file.
LEMMA MkdirMakes ==
    ASSUME IInv, NEW r \in Upload, Mkdir(r)
    PROVE  /\ node' \in [Path -> Upload \cup {None, Dir}]
           /\ KeysAreLeaves'
           /\ \A p \in Path : IsFile(p) => node'[p] = node[p]
           /\ \A p \in Path : node'[p] # node[p] => node'[p] = Dir
           /\ pc'[r] = "prepared" => node'[key[r]] # Dir
           /\ pc'[r] = "prepared" => \A p \in Above(key[r]) : node'[p] = Dir
<1> USE DEF Mkdir
<1>1. key[r] \in Path /\ pc'[r] \in {"refused", "failed", "prepared"}
  BY AloneInside DEF IInv, TypeOK
<1>2. CASE UNCHANGED node /\ pc'[r] # "prepared"
  BY <1>2 DEF IInv, TypeOK, KeysAreLeaves
<1>3. CASE /\ ~ KeyConflict(key[r])
           /\ \E k \in Above(key[r]) \cup {key[r]} :
                 MakeAbove(k) /\ (pc'[r] = "prepared" => k = key[r])
  <2>1. PICK k \in Above(key[r]) \cup {key[r]} :
               MakeAbove(k) /\ (pc'[r] = "prepared" => k = key[r])
    BY <1>3
  <2>2. k \in Path /\ \A p \in Above(k) : p \in Above(key[r])
    BY <1>1, AboveAbove DEF Above
  <2>3. \A p \in Above(k) : ~ IsFile(p)
    BY <1>3, <2>2 DEF KeyConflict
  <2>4. key[r] \notin Above(key[r])
    BY DEF Above, IsStrictPrefix
  <2>5. pc'[r] = "prepared" => node'[key[r]] # Dir
    BY <1>1, <1>3, <2>1, <2>4 DEF MakeAbove, KeyConflict
  <2>6. pc'[r] = "prepared" => \A p \in Above(key[r]) : node'[p] = Dir
    BY <2>1 DEF MakeAbove, Above
  <2> QED
    BY <2>1, <2>2, <2>3, <2>5, <2>6, MakeAboveKeeps
<1> QED
  BY <1>1, <1>2, <1>3 DEF IInv, TypeOK

\* object_mkdir
LEMMA MkdirStep ==
    ASSUME IInv, NEW r \in Upload, Mkdir(r)
    PROVE  IInv'
<1> USE DEF Mkdir
<1>1. pc[r] = "staged" /\ pc[r] \in Inside
  OBVIOUS
<1>2. /\ key[r] \in Path /\ bucketLock = r
      /\ \A s \in Upload : s # r => pc[s] \notin Inside /\ pc'[s] = pc[s]
  BY <1>1, AloneInside DEF IInv, TypeOK
<1>3. /\ pc'[r] \in {"refused", "failed", "prepared"}
      /\ pc' \in [Upload -> PC]
      /\ faults' \in 0..MaxFaults
  BY DEF IInv, TypeOK
<1>4. /\ node' \in [Path -> Upload \cup {None, Dir}]
      /\ KeysAreLeaves'
      /\ \A p \in Path : IsFile(p) => node'[p] = node[p]
      /\ \A p \in Path : node'[p] # node[p] => node'[p] = Dir
      /\ pc'[r] = "prepared" => node'[key[r]] # Dir
      /\ pc'[r] = "prepared" => \A p \in Above(key[r]) : node'[p] = Dir
  BY MkdirMakes
<1>5. TypeOK'
  BY <1>3, <1>4 DEF IInv, TypeOK, Status
<1>6. HolderIsInside'
  BY <1>2, <1>3 DEF HolderIsInside
<1>7. LocalsTellTheTruth'
  <2> SUFFICES ASSUME NEW s \in Upload PROVE LocalsTellTheTruth!(s)'
    BY DEF LocalsTellTheTruth
  <2>1. CASE s = r
    BY <1>1, <1>3, <1>4, <2>1 DEF IInv, LocalsTellTheTruth, InDoubt, Above
  <2>2. CASE s # r
    BY <1>1, <1>2, <2>2, OthersTellTheTruth
  <2> QED
    BY <2>1, <2>2
<1>8. Provenance'
  BY <1>1, <1>2, <1>3, <1>4 DEF IInv, Provenance
<1>9. RowHasFile' /\ FoundIsCommitted' /\ RowIsServed'
  BY <1>4, PathAssumption DEF IInv, TypeOK, RowHasFile, FoundIsCommitted, RowIsServed, IsFile
<1> QED
  BY <1>4, <1>5, <1>6, <1>7, <1>8, <1>9 DEF IInv

\* rename(staged, object)
LEMMA PublishStep ==
    ASSUME IInv, NEW r \in Upload, Publish(r)
    PROVE  IInv'
<1> USE DEF Publish, Replace
<1>1. pc[r] = "flushed" /\ pc[r] \in Inside
  OBVIOUS
<1>2. /\ key[r] \in Key /\ key[r] \in Path /\ bucketLock = r
      /\ \A s \in Upload : s # r => pc[s] \notin Inside /\ pc'[s] = pc[s]
                                  /\ objectWritten'[s] = objectWritten[s]
  BY <1>1, AloneInside DEF IInv, TypeOK
<1>3. /\ pc'[r] \in {"published", "failed"}
      /\ pc' \in [Upload -> PC]
      /\ faults' \in 0..MaxFaults
      /\ pc'[r] = "published" \/ objectWritten'[r] => objectWritten'[r] /\ node'[key[r]] = r
  BY <1>1, <1>2 DEF IInv, TypeOK, LocalsTellTheTruth
<1>4. node' = node \/ node' = [node EXCEPT ![key[r]] = r]
  OBVIOUS
<1>5. /\ node[key[r]] # Dir
      /\ \A p \in Path : IsStrictPrefix(p, key[r]) => node[p] = Dir
      /\ ~ backupCreated[r] => ~ IsFile(key[r])
  BY <1>1 DEF IInv, LocalsTellTheTruth, Above
<1>6. TypeOK'
  <2>1. node' \in [Path -> Upload \cup {None, Dir}]
    BY <1>4 DEF IInv, TypeOK
  <2>2. staged' \in [Upload -> BOOLEAN]
    <3>1. [staged EXCEPT ![r] = FALSE] \in [Upload -> BOOLEAN]
      BY DEF IInv, TypeOK
    <3>2. staged \in [Upload -> BOOLEAN]
      BY DEF IInv, TypeOK
    <3> QED
      BY <3>1, <3>2
  <2>3. objectWritten' \in [Upload -> BOOLEAN]
    <3>1. [objectWritten EXCEPT ![r] = TRUE] \in [Upload -> BOOLEAN]
      BY DEF IInv, TypeOK
    <3>2. objectWritten \in [Upload -> BOOLEAN]
      BY DEF IInv, TypeOK
    <3> QED
      BY <3>1, <3>2
  <2> QED
    BY <1>3, <2>1, <2>2, <2>3 DEF IInv, TypeOK, Status
<1>7. HolderIsInside'
  BY <1>2, <1>3 DEF HolderIsInside
<1>8. LocalsTellTheTruth'
  <2> SUFFICES ASSUME NEW s \in Upload PROVE LocalsTellTheTruth!(s)'
    BY DEF LocalsTellTheTruth
  <2>1. CASE s = r
    BY <1>1, <1>3, <1>5, <2>1 DEF IInv, TypeOK, LocalsTellTheTruth, InDoubt, RowHasFile
  <2>2. CASE s # r
    BY <1>1, <1>2, <2>2, OthersTellTheTruth
  <2> QED
    BY <2>1, <2>2
<1>9. Provenance'
  BY <1>1, <1>2, <1>3, <1>4 DEF IInv, TypeOK, Provenance
<1>10. KeysAreLeaves'
  BY <1>2, <1>4, <1>5 DEF IInv, TypeOK, KeysAreLeaves, IsStrictPrefix
<1>11. RowHasFile' /\ FoundIsCommitted' /\ RowIsServed'
  BY <1>2, <1>4, PathAssumption
  DEF IInv, TypeOK, RowHasFile, FoundIsCommitted, RowIsServed, IsFile
<1> QED
  BY <1>6, <1>7, <1>8, <1>9, <1>10, <1>11 DEF IInv

\* repo.commit()
LEMMA CommitStep ==
    ASSUME IInv, NEW r \in Upload, Commit(r)
    PROVE  IInv'
<1> USE DEF Commit
<1>1. pc[r] = "published" /\ pc[r] \in Inside
  OBVIOUS
<1>2. /\ key[r] \in Key /\ key[r] \in Path /\ bucketLock = r
      /\ \A s \in Upload : s # r => pc[s] \notin Inside /\ pc'[s] = pc[s]
  BY <1>1, AloneInside DEF IInv, TypeOK
<1>3. /\ pc'[r] \in {"committed", "failed"}
      /\ pc' \in [Upload -> PC]
      /\ faults' \in 0..MaxFaults
      /\ \/ row' = [row EXCEPT ![key[r]] = r] /\ pc'[r] = "committed"
         \/ row' = row
  BY <1>1, <1>2 DEF IInv, TypeOK
<1>4. objectWritten[r] /\ node[key[r]] = r
  BY <1>1 DEF IInv, LocalsTellTheTruth, InDoubt
<1>5. TypeOK'
  <2>1. row' \in [Key -> Upload \cup {None}]
    BY <1>3 DEF IInv, TypeOK
  <2> QED
    BY <1>3, <2>1 DEF IInv, TypeOK, Status
<1>6. HolderIsInside'
  BY <1>2, <1>3 DEF HolderIsInside
<1>7. LocalsTellTheTruth'
  <2> SUFFICES ASSUME NEW s \in Upload PROVE LocalsTellTheTruth!(s)'
    BY DEF LocalsTellTheTruth
  <2>1. CASE s = r
    BY <1>1, <1>3, <1>4, <2>1 DEF IInv, TypeOK, LocalsTellTheTruth, InDoubt
  <2>2. CASE s # r
    BY <1>1, <1>2, <2>2, OthersTellTheTruth
  <2> QED
    BY <2>1, <2>2
<1>8. Provenance'
  <2>1. \A k \in Key, s \in Upload :
            row'[k] = s => row[k] = s \/ (s = r /\ pc'[r] = "committed")
    BY <1>2, <1>3 DEF IInv, TypeOK
  <2>2. \A s \in Upload : backup[s] # r
    BY <1>1 DEF IInv, Provenance
  <2>3. \A k \in Key, s \in Upload :
            row'[k] = s => pc'[s] \in {"committed", "answering", "ok", "dead"}
    BY <1>1, <1>2, <2>1 DEF IInv, Provenance
  <2>4. ASSUME NEW s \in Upload, pc'[s] \in {"committed", "answering"}, backup[s] # None
        PROVE  row'[key[s]] # backup[s]
    <3>1. key[s] \in Key /\ backup[s] \in Upload
      BY <1>2, <2>4 DEF IInv, TypeOK, LocalsTellTheTruth
    <3>2. CASE row'[key[s]] = r
      BY <2>2, <3>2
    <3>3. CASE s # r /\ row'[key[s]] = row[key[s]]
      BY <1>2, <2>4, <3>3 DEF IInv, Provenance
    <3> QED
      BY <1>2, <1>3, <2>4, <3>1, <3>2, <3>3 DEF IInv, TypeOK
  <2> QED
    BY <1>1, <1>2, <1>3, <2>3, <2>4 DEF IInv, Provenance
<1>9. KeysAreLeaves'
  BY DEF IInv, KeysAreLeaves
<1>10. RowHasFile' /\ FoundIsCommitted' /\ RowIsServed'
  BY <1>2, <1>3, <1>4 DEF IInv, TypeOK, RowHasFile, FoundIsCommitted, RowIsServed, IsFile
<1> QED
  BY <1>5, <1>6, <1>7, <1>8, <1>9, <1>10 DEF IInv

\* The removal of what was written, the restore from the backup, or neither.
LEMMA CompensateStep ==
    ASSUME IInv, NEW r \in Upload, Compensate(r)
    PROVE  IInv'
<1> USE DEF Compensate, Unpublish, Restore, Discard, NothingToRestore
<1>1. pc[r] = "rolledback" /\ pc[r] \in Inside
  OBVIOUS
<1>2. /\ key[r] \in Key /\ key[r] \in Path /\ bucketLock = r
      /\ \A s \in Upload : s # r => pc[s] \notin Inside /\ pc'[s] = pc[s]
                                  /\ backup'[s] = backup[s]
  BY <1>1, AloneInside DEF IInv, TypeOK
<1>3. pc'[r] = "restored" /\ pc' \in [Upload -> PC]
  BY DEF IInv, TypeOK
<1>4. faults' \in 0..MaxFaults /\ logged' \subseteq Upload
  BY DEF IInv, TypeOK
<1>5. backup' = backup \/ backup' = [backup EXCEPT ![r] = None]
  OBVIOUS
<1>6. \/ node' = node
      \/ /\ node[key[r]] = r /\ row[key[r]] = None
         /\ node' = [node EXCEPT ![key[r]] = None]
      \/ /\ node[key[r]] = r /\ backup[r] \in Upload
         /\ node' = [node EXCEPT ![key[r]] = backup[r]]
  BY <1>1 DEF IInv, LocalsTellTheTruth, InDoubt
<1>7. TypeOK'
  <2>1. node' \in [Path -> Upload \cup {None, Dir}]
    BY <1>6 DEF IInv, TypeOK
  <2>2. backup' \in [Upload -> Upload \cup {None}]
    BY <1>5 DEF IInv, TypeOK
  <2> QED
    BY <1>3, <1>4, <2>1, <2>2 DEF IInv, TypeOK, Status
<1>8. HolderIsInside'
  BY <1>2, <1>3 DEF HolderIsInside
<1>9. LocalsTellTheTruth'
  <2> SUFFICES ASSUME NEW s \in Upload PROVE LocalsTellTheTruth!(s)'
    BY DEF LocalsTellTheTruth
  <2>1. CASE s = r
    BY <1>1, <1>3, <2>1 DEF IInv, LocalsTellTheTruth, InDoubt
  <2>2. CASE s # r
    BY <1>1, <1>2, <2>2, OthersTellTheTruth
  <2> QED
    BY <2>1, <2>2
<1>10. Provenance'
  <2>1. \A p \in Path, s \in Upload : node'[p] = s => node[p] = s \/ backup[r] = s
    BY <1>2, <1>6 DEF IInv, TypeOK
  <2>2. \A q, s \in Upload : backup'[q] = s => backup[q] = s
    BY <1>5 DEF IInv, TypeOK
  <2>3. \A q \in Upload : backup'[q] # None => backup'[q] = backup[q]
    BY <1>5 DEF IInv, TypeOK
  <2> QED
    BY <1>1, <1>2, <1>3, <2>1, <2>2, <2>3 DEF IInv, Provenance
<1>11. KeysAreLeaves'
  BY <1>2, <1>6 DEF IInv, TypeOK, KeysAreLeaves, IsStrictPrefix
<1>12. RowHasFile' /\ FoundIsCommitted' /\ RowIsServed'
  BY <1>2, <1>6, PathAssumption
  DEF IInv, TypeOK, RowHasFile, FoundIsCommitted, RowIsServed, IsFile
<1> QED
  BY <1>7, <1>8, <1>9, <1>10, <1>11, <1>12 DEF IInv

------------------------------------------------------------------------------
(* Steps of the others.                                                     *)

\* PutBucketVersioning touches nothing an upload or a download relies on.
LEMMA PutVersioningStep ==
    ASSUME IInv, PutVersioning
    PROVE  IInv'
<1> USE DEF PutVersioning
<1>1. TypeOK'
  BY DEF IInv, TypeOK, Status
<1>2. HolderIsInside' /\ LocalsTellTheTruth' /\ Provenance'
  BY DEF IInv, HolderIsInside, LocalsTellTheTruth, Provenance, InDoubt, IsFile, Above
<1>3. KeysAreLeaves' /\ RowHasFile' /\ FoundIsCommitted' /\ RowIsServed'
  BY Frame
<1> QED
  BY <1>1, <1>2, <1>3 DEF IInv

\* A download only reads.
LEMMA GetStep ==
    ASSUME IInv, NEW d \in Download, Get(d)
    PROVE  IInv'
<1> USE DEF Get, ReadRow, CheckBytes, Stream
<1>1. HolderIsInside' /\ LocalsTellTheTruth' /\ Provenance' /\ KeysAreLeaves' /\ RowHasFile'
  BY DEF IInv, HolderIsInside, LocalsTellTheTruth, Provenance, InDoubt, IsFile, Above,
         KeysAreLeaves, RowHasFile
<1>2. dpc[d] \in {"found", "streaming"} => IsFile(dkey[d])
  BY DEF IInv, FoundIsCommitted, RowHasFile
<1>3. TypeOK'
  BY <1>2 DEF IInv, TypeOK, Status, IsFile
<1>4. FoundIsCommitted'
  BY DEF IInv, TypeOK, FoundIsCommitted
<1>5. RowIsServed'
  BY <1>2 DEF IInv, TypeOK, RowIsServed, IsFile
<1> QED
  BY <1>1, <1>3, <1>4, <1>5 DEF IInv

\* After a crash nobody is inside, and what is on the disk stays as it was.
LEMMA CrashStep ==
    ASSUME IInv, Crash
    PROVE  IInv'
<1> USE DEF Crash
<1>1. \A r \in Upload : pc'[r] = IF pc[r] \in {"new"} \cup Ended THEN pc[r] ELSE "dead"
  OBVIOUS
<1>2. \A d \in Download :
          dpc'[d] = IF dpc[d] \in {"found", "streaming"} THEN "dead" ELSE dpc[d]
  OBVIOUS
<1>3. TypeOK'
  <2>1. pc' \in [Upload -> PC]
    BY DEF IInv, TypeOK
  <2>2. dpc' \in [Download -> {"new", "found", "streaming", "missing", "sent", "dead"}]
    BY DEF IInv, TypeOK
  <2> QED
    BY <2>1, <2>2 DEF IInv, TypeOK, Status
<1>4. HolderIsInside'
  BY <1>1 DEF HolderIsInside
<1>5. LocalsTellTheTruth'
  BY <1>1 DEF IInv, LocalsTellTheTruth, InDoubt
<1>6. Provenance'
  BY <1>1 DEF IInv, Provenance
<1>7. KeysAreLeaves' /\ RowHasFile'
  BY DEF IInv, KeysAreLeaves, RowHasFile, IsFile
<1>8. FoundIsCommitted' /\ RowIsServed'
  BY <1>2 DEF IInv, FoundIsCommitted, RowIsServed
<1> QED
  BY <1>3, <1>4, <1>5, <1>6, <1>7, <1>8 DEF IInv

------------------------------------------------------------------------------
(* The theorems that hold with every fault.                                 *)

LEMMA StutterIInv ==
    ASSUME IInv, UNCHANGED vars
    PROVE  IInv'
<1> USE DEF vars
<1>1. TypeOK'
  BY DEF IInv, TypeOK
<1>2. HolderIsInside' /\ LocalsTellTheTruth' /\ Provenance'
  BY DEF IInv, HolderIsInside, LocalsTellTheTruth, Provenance, InDoubt, IsFile, Above
<1>3. KeysAreLeaves' /\ RowHasFile' /\ FoundIsCommitted' /\ RowIsServed'
  BY Frame
<1> QED
  BY <1>1, <1>2, <1>3 DEF IInv

LEMMA NextIInv == IInv /\ [Next]_vars => IInv'
<1> SUFFICES ASSUME IInv, [Next]_vars PROVE IInv'
  OBVIOUS
<1>1. ASSUME NEW r \in Upload, Put(r) PROVE IInv'
  <2>1. ASSUME Transaction(r) PROVE IInv'
    BY <2>1, StageStep, MkdirStep, NotImplementedStep, BackupStep, FlushStep, PublishStep,
       CommitStep, UnlockStep
    DEF Transaction
  <2>2. ASSUME Compensation(r) PROVE IInv'
    BY <2>2, RollbackStep, CompensateStep, DropStagedStep, AnswerErrorStep DEF Compensation
  <2> QED
    BY <1>1, <2>1, <2>2, LoadBucketStep, LockBucketStep, DropBackupStep DEF Put
<1> HIDE DEF Goto, Fault, LateFault, NoFault, Log, NoLog, db, locals, files, reads
<1> QED
  BY <1>1, GetStep, PutVersioningStep, CrashStep, StutterIInv DEF Next

THEOREM Invariant == Spec => []IInv
<1> HIDE DEF Goto, Fault, LateFault, NoFault, Log, NoLog, db, locals, files, reads
<1> QED
  BY InitIInv, NextIInv, PTL DEF Spec

\* Every variable stays in its type; a stream is made of payloads.
THEOREM TypeCorrect == Spec => []TypeOK
<1>1. IInv => TypeOK
  BY DEF IInv
<1> QED
  BY <1>1, Invariant, PTL

\* A committed object has a file at its path at every instant (object_upload keeps
\* the old payload in place until os.replace, and reconciles before it unlocks).
THEOREM FilesExist == Spec => []RowHasFile
<1>1. IInv => RowHasFile
  BY DEF IInv
<1> QED
  BY <1>1, Invariant, PTL

\* No key is ever stored below another one, and no file below a file.
THEOREM TreeOfKeys == Spec => []KeysAreLeaves
<1>1. IInv => KeysAreLeaves
  BY DEF IInv
<1> QED
  BY <1>1, Invariant, PTL

\* A download that found its row is served, although it takes no lock.
THEOREM DownloadsServed == Spec => []RowIsServed
<1>1. IInv => RowIsServed
  BY DEF IInv
<1> QED
  BY <1>1, Invariant, PTL

\* Only repo.commit() of an upload changes a row.
LEMMA RowsChangeByCommit ==
    ASSUME Next, ~ \E r \in Upload : Commit(r)
    PROVE  row' = row
<1>1. ASSUME NEW r \in Upload, Put(r), ~ Commit(r) PROVE row' = row
  BY <1>1 DEF Put, Transaction, Compensation, LoadBucket, LockBucket, Stage, Mkdir,
     NotImplemented, Backup, Flush, Publish, Unlock, Rollback, Compensate, DropStaged,
     AnswerError, DropBackup
<1>2. ASSUME NEW d \in Download, Get(d) PROVE row' = row
  BY <1>2 DEF Get, ReadRow, CheckBytes, Stream
<1>3. PutVersioning \/ Crash => row' = row
  BY DEF PutVersioning, Crash
<1> QED
  BY <1>1, <1>2, <1>3 DEF Next

\* A row comes to describe a payload only while that payload is in place and its
\* upload holds the lock.
THEOREM CommitsDescribe == Spec => CommitAfterPublish
<1> DEFINE Describes ==
      \A k \in Key : row'[k] # row[k] => node[k] = row'[k] /\ bucketLock = row'[k]
<1>1. IInv /\ [Next]_vars => [Describes]_vars
  <2> SUFFICES ASSUME IInv, Next PROVE Describes
    OBVIOUS
  <2>1. ASSUME NEW r \in Upload, Commit(r) PROVE Describes
    <3>1. /\ pc[r] \in Inside /\ pc[r] = "published"
          /\ row' = row \/ row' = [row EXCEPT ![key[r]] = r]
      BY <2>1 DEF Commit
    <3>2. bucketLock = r /\ key[r] \in Key /\ node[key[r]] = r
      BY <3>1, AloneInside DEF IInv, LocalsTellTheTruth, InDoubt
    <3> QED
      BY <3>1, <3>2 DEF IInv, TypeOK
  <2> QED
    BY <2>1, RowsChangeByCommit
<1> HIDE DEF Describes
<1>2. Spec => [][Describes]_vars
  BY <1>1, Invariant, PTL DEF Spec
<1> QED
  BY <1>2 DEF Describes, CommitAfterPublish

------------------------------------------------------------------------------
(* The payloads survive, when a call that raises did nothing (an fsync that *)
(* fails after os.replace breaks this: see run store_fsync).                *)

\* A step that changes no row, file or flag that matters.
LEMMA QuietStep ==
    ASSUME IInv, RInv, UNCHANGED <<row, node, key, backup, backupCreated, objectWritten>>,
           \A r \in Upload : pc'[r] \in {"saved", "flushed", "failed", "rolledback"} =>
               \/ pc[r] \in {"saved", "flushed", "failed", "rolledback"}
               \/ ~ backupCreated[r] \/ objectWritten[r]
    PROVE  RInv'
BY DEF RInv, BackupIsCurrent, Recoverable

\* The upload gets its key before it has a backup.
LEMMA LoadBucketKeeps ==
    ASSUME IInv, RInv, NEW r \in Upload, LoadBucket(r)
    PROVE  RInv'
<1>1. /\ UNCHANGED <<row, node, backup, backupCreated, objectWritten>>
      /\ backup[r] = None
      /\ \A s \in Upload : s # r => key'[s] = key[s] /\ pc'[s] = pc[s]
      /\ pc'[r] = "loaded"
  BY DEF LoadBucket, IInv, TypeOK, LocalsTellTheTruth
<1>2. BackupIsCurrent'
  BY <1>1 DEF RInv, BackupIsCurrent
<1>3. ASSUME NEW k \in Key, row[k] # None, node[k] # row[k]
      PROVE  \E s \in Upload : key'[s] = k /\ backup[s] = row[k]
  <2>1. PICK s \in Upload : key[s] = k /\ backup[s] = row[k]
    BY <1>3 DEF RInv, Recoverable
  <2> QED
    BY <1>1, <1>3, <2>1
<1> QED
  BY <1>1, <1>2, <1>3 DEF RInv, Recoverable

\* The directories are not made where a payload is.
LEMMA MkdirKeeps ==
    ASSUME IInv, RInv, NEW r \in Upload, Mkdir(r)
    PROVE  RInv'
<1>1. /\ pc[r] \in Inside /\ ~ backupCreated[r]
      /\ UNCHANGED <<row, key, backup, backupCreated, objectWritten>>
      /\ \A s \in Upload : s # r => pc'[s] = pc[s]
  BY DEF Mkdir, IInv, TypeOK, LocalsTellTheTruth
<1>2. BackupIsCurrent'
  BY <1>1, AloneInside DEF BackupIsCurrent
<1>3. \A k \in Key : row[k] # None /\ node[k] = row[k] => node'[k] = row[k]
  BY MkdirMakes, PathAssumption DEF IInv, TypeOK, IsFile
<1> QED
  BY <1>1, <1>2, <1>3 DEF RInv, Recoverable

\* The copy is the payload at the key.
LEMMA BackupKeeps ==
    ASSUME FsyncMayFail = FALSE, IInv, RInv, NEW r \in Upload, Backup(r)
    PROVE  RInv'
<1>1. /\ pc[r] \in Inside /\ backup[r] = None /\ ~ backupCreated[r]
      /\ UNCHANGED <<row, node, key, objectWritten>>
      /\ \A s \in Upload : s # r => /\ pc'[s] = pc[s]
                                   /\ backup'[s] = backup[s]
      /\ backupCreated'[r] => backup'[r] = node[key[r]]
  BY DEF Backup, IInv, TypeOK, LocalsTellTheTruth
<1>2. BackupIsCurrent'
  BY <1>1, AloneInside DEF BackupIsCurrent
<1>3. ASSUME NEW k \in Key, row[k] # None, node[k] # row[k]
      PROVE  \E s \in Upload : key[s] = k /\ backup'[s] = row[k]
  <2>1. PICK s \in Upload : key[s] = k /\ backup[s] = row[k]
    BY <1>3 DEF RInv, Recoverable
  <2> QED
    BY <1>1, <1>3, <2>1
<1> QED
  BY <1>1, <1>2, <1>3 DEF RInv, Recoverable

\* What is overwritten is in the backup, or described by no row.
LEMMA PublishKeeps ==
    ASSUME FsyncMayFail = FALSE, IInv, RInv, NEW r \in Upload, Publish(r)
    PROVE  RInv'
<1>1. /\ pc[r] = "flushed" /\ pc[r] \in Inside
      /\ UNCHANGED <<row, key, backup, backupCreated>>
      /\ \A s \in Upload : s # r => pc'[s] = pc[s]
      /\ \/ node' = [node EXCEPT ![key[r]] = r] /\ objectWritten'[r]
         \/ node' = node /\ ~ objectWritten[r] /\ ~ objectWritten'[r]
  BY DEF Publish, Replace, IInv, TypeOK, LocalsTellTheTruth
<1>2. /\ backupCreated[r] => backup[r] = node[key[r]]
      /\ ~ backupCreated[r] => ~ IsFile(key[r])
  BY <1>1 DEF IInv, LocalsTellTheTruth, RInv, BackupIsCurrent
<1>3. BackupIsCurrent'
  BY <1>1, <1>2, AloneInside DEF BackupIsCurrent
<1>4. ASSUME NEW k \in Key, row[k] # None, node[k] = row[k], node'[k] # row[k]
      PROVE  key[r] = k /\ backup[r] = row[k]
  BY <1>1, <1>2, <1>4, PathAssumption DEF IInv, TypeOK, IsFile
<1> QED
  BY <1>1, <1>3, <1>4 DEF RInv, Recoverable

\* The row comes to describe what is at the key.
LEMMA CommitKeeps ==
    ASSUME IInv, RInv, NEW r \in Upload, Commit(r)
    PROVE  RInv'
<1>1. /\ pc[r] = "published" /\ pc[r] \in Inside
      /\ UNCHANGED <<node, key, backup, backupCreated, objectWritten>>
      /\ \A s \in Upload : s # r => pc'[s] = pc[s]
      /\ row' = row \/ row' = [row EXCEPT ![key[r]] = r]
  BY DEF Commit, IInv, TypeOK
<1>2. objectWritten[r] /\ node[key[r]] = r
  BY <1>1 DEF IInv, LocalsTellTheTruth, InDoubt
<1>3. BackupIsCurrent'
  BY <1>1, <1>2, AloneInside DEF BackupIsCurrent
<1>4. \A k \in Key : row'[k] = row[k] \/ row'[k] = node[k]
  BY <1>1, <1>2 DEF IInv, TypeOK
<1> QED
  BY <1>1, <1>3, <1>4 DEF RInv, Recoverable

\* A backup is dropped when it is back in place, or when it never left.
LEMMA CompensateKeeps ==
    ASSUME IInv, RInv, NEW r \in Upload, Compensate(r)
    PROVE  RInv'
<1> USE DEF Compensate, Unpublish, Restore, Discard, NothingToRestore
<1>1. /\ pc[r] = "rolledback" /\ pc[r] \in Inside /\ pc'[r] = "restored"
      /\ UNCHANGED <<row, key, backupCreated, objectWritten>>
      /\ \A s \in Upload : s # r => pc'[s] = pc[s] /\ backup'[s] = backup[s]
  BY DEF IInv, TypeOK
<1>2. key[r] \in Key /\ key[r] \in Path
  BY <1>1, AloneInside
<1>3. BackupIsCurrent'
  BY <1>1, AloneInside DEF BackupIsCurrent
<1>4. /\ row[key[r]] # r
      /\ objectWritten[r] => node[key[r]] = r
      /\ objectWritten[r] /\ ~ backupCreated[r] => row[key[r]] = None
      /\ ~ objectWritten[r] /\ backupCreated[r] => backup[r] = node[key[r]]
  BY <1>1, <1>2 DEF IInv, LocalsTellTheTruth, InDoubt, Provenance, RInv, BackupIsCurrent
<1>5. ASSUME NEW k \in Key, row[k] # None, k # key[r]
      PROVE  node'[k] = node[k]
  BY <1>5, PathAssumption DEF IInv, TypeOK
<1>6. ASSUME row[key[r]] # None
      PROVE  \/ node'[key[r]] = row[key[r]]
             \/ \E s \in Upload : key[s] = key[r] /\ backup'[s] = row[key[r]]
  <2>1. \/ node[key[r]] = row[key[r]]
        \/ \E s \in Upload : key[s] = key[r] /\ backup[s] = row[key[r]]
    BY <1>2, <1>6 DEF RInv, Recoverable
  <2>2. CASE objectWritten[r] /\ backupCreated[r]
    <3>1. PICK s \in Upload : key[s] = key[r] /\ backup[s] = row[key[r]]
      BY <1>4, <2>1, <2>2
    <3>2. CASE s # r
      BY <1>1, <3>1, <3>2
    <3>3. CASE s = r
      <4>1. \/ node'[key[r]] = backup[r]
            \/ backup'[r] = backup[r]
        BY <1>2, <2>2 DEF IInv, TypeOK
      <4> QED
        BY <3>1, <3>3, <4>1
    <3> QED
      BY <3>2, <3>3
  <2>3. CASE ~ objectWritten[r]
    <3>1. node' = node /\ (backup' = backup \/ backupCreated[r])
      BY <2>3
    <3> QED
      BY <1>1, <1>4, <2>1, <2>3, <3>1
  <2>4. CASE objectWritten[r] /\ ~ backupCreated[r]
    BY <1>4, <1>6, <2>4
  <2> QED
    BY <2>2, <2>3, <2>4
<1>7. ASSUME NEW k \in Key, row[k] # None, k # key[r], node[k] # row[k]
      PROVE  \E s \in Upload : key[s] = k /\ backup'[s] = row[k]
  <2>1. PICK s \in Upload : key[s] = k /\ backup[s] = row[k]
    BY <1>7 DEF RInv, Recoverable
  <2> QED
    BY <1>1, <1>7, <2>1
<1> QED
  BY <1>1, <1>3, <1>5, <1>6, <1>7 DEF RInv, Recoverable

\* After the commit no row describes what is in the backup.
LEMMA DropBackupKeeps ==
    ASSUME IInv, RInv, NEW r \in Upload, DropBackup(r)
    PROVE  RInv'
<1>1. /\ pc[r] = "answering" /\ pc'[r] = "ok"
      /\ UNCHANGED <<row, node, key, backupCreated, objectWritten>>
      /\ \A s \in Upload : s # r => pc'[s] = pc[s] /\ backup'[s] = backup[s]
  BY DEF DropBackup, IInv, TypeOK
<1>2. BackupIsCurrent'
  BY <1>1 DEF RInv, BackupIsCurrent, IInv, TypeOK
<1>3. ASSUME NEW k \in Key, row[k] # None, node[k] # row[k]
      PROVE  \E s \in Upload : key[s] = k /\ backup'[s] = row[k]
  <2>1. PICK s \in Upload : key[s] = k /\ backup[s] = row[k]
    BY <1>3 DEF RInv, Recoverable
  <2>2. s # r
    BY <1>1, <1>3, <2>1 DEF IInv, Provenance
  <2> QED
    BY <1>1, <2>1, <2>2
<1> QED
  BY <1>1, <1>2, <1>3 DEF RInv, Recoverable

LEMMA NextRInv ==
    ASSUME FsyncMayFail = FALSE, IInv, RInv, [Next]_vars
    PROVE  RInv'
<1> DEFINE Dropping == {"saved", "flushed", "failed", "rolledback"}
<1>1. ASSUME NEW r \in Upload,
             \/ LockBucket(r) \/ Stage(r) \/ NotImplemented(r) \/ Flush(r) \/ Unlock(r)
             \/ Rollback(r) \/ DropStaged(r) \/ AnswerError(r)
      PROVE  RInv'
  <2>1. /\ UNCHANGED <<row, node, key, backup, backupCreated, objectWritten>>
        /\ \A s \in Upload : s # r => pc'[s] = pc[s]
        /\ pc'[r] \in Dropping => pc[r] \in Dropping \cup {"staging", "refused"}
    BY <1>1 DEF LockBucket, Stage, NotImplemented, Flush, Unlock, Rollback, DropStaged,
       AnswerError, IInv, TypeOK
  <2>2. pc[r] \in {"staging", "refused"} => ~ backupCreated[r]
    BY DEF IInv, LocalsTellTheTruth
  <2> QED
    BY <2>1, <2>2, QuietStep
<1>2. ASSUME NEW r \in Upload, Put(r) PROVE RInv'
  BY <1>1, <1>2, LoadBucketKeeps, MkdirKeeps, BackupKeeps, PublishKeeps, CommitKeeps,
     CompensateKeeps, DropBackupKeeps
  DEF Put, Transaction, Compensation
<1>3. ASSUME \E d \in Download : Get(d) PROVE RInv'
  BY <1>3, QuietStep DEF Get, ReadRow, CheckBytes, Stream
<1>4. ASSUME PutVersioning \/ UNCHANGED vars PROVE RInv'
  BY <1>4, QuietStep DEF PutVersioning, vars
<1>5. ASSUME Crash PROVE RInv'
  BY <1>5, QuietStep DEF Crash
<1> HIDE DEF Goto, Fault, LateFault, NoFault, Log, NoLog, db, locals, files, reads
<1> QED
  BY <1>2, <1>3, <1>4, <1>5 DEF Next

\* No committed payload is ever lost by an upload, however its calls and those of its
\* compensation fail, and whenever the process dies: as long as os.replace and the
\* fsync after it fail together or not at all.
THEOREM NothingLost ==
    ASSUME FsyncMayFail = FALSE
    PROVE  Spec => []Recoverable
<1>1. Init => RInv
  BY DEF Init, RInv, BackupIsCurrent, Recoverable
<1>2. IInv /\ RInv /\ [Next]_vars => RInv'
  BY NextRInv
<1>3. RInv => Recoverable
  BY DEF RInv
<1> HIDE DEF Goto, Fault, LateFault, NoFault, Log, NoLog, db, locals, files, reads
<1> QED
  BY <1>1, <1>2, <1>3, Invariant, PTL DEF Spec

------------------------------------------------------------------------------
(* What an upload leaves behind, when a call that raises did nothing.       *)

\* The temporary files of an upload: each has a flag or a place in the handler that
\* leads to its removal, and only a removal that is logged leaves it.
Temps(r) ==
    /\ pc[r] = "new" => r \notin logged
    /\ backup[r] # None => backupCreated[r]
    /\ pc[r] \in {"new", "loaded", "staging", "published", "committed", "answering", "ok"} =>
          ~ staged[r]
    /\ r \notin logged /\ pc[r] \in {"reconciled", "error"} /\ seen[r] = "Disabled" =>
          ~ staged[r]
    /\ r \notin logged /\ pc[r] \in {"restored", "reconciled", "error", "ok"} =>
          backup[r] = None

TInv == \A r \in Upload : Temps(r)

\* The locals of an upload that a step of another one leaves alone.
Own(s) == <<pc[s], key[s], seen[s], staged[s], backup[s], backupCreated[s], objectWritten[s]>>

\* A step of one upload: the others keep their locals, and the log only grows.
LEMMA PutFrame ==
    ASSUME IInv, NEW r \in Upload, Put(r)
    PROVE  /\ \A s \in Upload : s # r => Own(s)' = Own(s)
           /\ logged \subseteq logged' /\ logged' \subseteq logged \cup {r}
           /\ pc[r] # "dead"
<1> USE DEF Own, IInv, TypeOK
<1>1. CASE LoadBucket(r) \/ LockBucket(r)
  BY <1>1 DEF LoadBucket, LockBucket
<1>2. CASE Stage(r) \/ Mkdir(r) \/ NotImplemented(r) \/ Flush(r) \/ Commit(r) \/ Unlock(r)
  BY <1>2 DEF Stage, Mkdir, NotImplemented, Flush, Commit, Unlock
<1>3. CASE Backup(r)
  BY <1>3 DEF Backup
<1>4. CASE Publish(r)
  BY <1>4 DEF Publish, Replace
<1>5. CASE Rollback(r) \/ DropStaged(r) \/ AnswerError(r) \/ DropBackup(r)
  BY <1>5 DEF Rollback, DropStaged, AnswerError, DropBackup
<1>6. CASE Compensate(r)
  BY <1>6 DEF Compensate, Unpublish, Restore, Discard, NothingToRestore
<1> QED
  BY <1>1, <1>2, <1>3, <1>4, <1>5, <1>6 DEF Put, Transaction, Compensation

\* A step of an upload keeps its own books.
LEMMA TempsOwn ==
    ASSUME FsyncMayFail = FALSE, IInv, NEW r \in Upload, Temps(r), Put(r)
    PROVE  Temps(r)'
<1> USE DEF Temps, IInv, TypeOK
<1>0. pc[r] \in {"new", "loaded", "staging", "staged", "prepared", "refused"} =>
         ~ backupCreated[r] /\ backup[r] = None
  BY DEF LocalsTellTheTruth
<1>1. CASE LoadBucket(r) \/ LockBucket(r)
  BY <1>0, <1>1 DEF LoadBucket, LockBucket
<1>2. CASE Stage(r) \/ Mkdir(r) \/ NotImplemented(r)
  BY <1>0, <1>2 DEF Stage, Mkdir, NotImplemented
<1>3. CASE Flush(r) \/ Commit(r) \/ Unlock(r)
  BY <1>0, <1>3 DEF Flush, Commit, Unlock
<1>4. CASE Backup(r)
  BY <1>0, <1>4 DEF Backup
<1>5. CASE Publish(r)
  BY <1>5 DEF Publish, Replace
<1>6. CASE Rollback(r) \/ DropStaged(r) \/ AnswerError(r)
  BY <1>6 DEF Rollback, DropStaged, AnswerError
<1>7. CASE DropBackup(r)
  BY <1>7 DEF DropBackup
<1>8. CASE Compensate(r)
  BY <1>8 DEF Compensate, Unpublish, Restore, Discard, NothingToRestore
<1> QED
  BY <1>1, <1>2, <1>3, <1>4, <1>5, <1>6, <1>7, <1>8 DEF Put, Transaction, Compensation

LEMMA NextTInv ==
    ASSUME FsyncMayFail = FALSE, IInv, TInv, [Next]_vars
    PROVE  TInv'
<1>1. ASSUME NEW r \in Upload, Put(r), NEW s \in Upload PROVE Temps(s)'
  <2>1. CASE s = r
    BY <1>1, <2>1, TempsOwn DEF TInv
  <2>2. CASE s # r
    BY <1>1, <2>2, PutFrame DEF TInv, Temps, Own
  <2> QED
    BY <2>1, <2>2
<1>2. ASSUME NEW s \in Upload, UNCHANGED <<pc, seen, staged, backup, backupCreated, logged>>
      PROVE  Temps(s)'
  BY <1>2 DEF TInv, Temps
<1>3. ASSUME \E d \in Download : Get(d) PROVE TInv'
  BY <1>2, <1>3 DEF TInv, Get, ReadRow, CheckBytes, Stream
<1>4. ASSUME PutVersioning \/ UNCHANGED vars PROVE TInv'
  BY <1>2, <1>4 DEF TInv, PutVersioning, vars
<1>5. ASSUME Crash PROVE TInv'
  BY <1>5 DEF TInv, Temps, Crash
<1>6. ASSUME NEW r \in Upload, Put(r) PROVE TInv'
  BY <1>1, <1>6 DEF TInv
<1> HIDE DEF Goto, Fault, LateFault, NoFault, Log, NoLog, db, locals, files, reads
<1> QED
  BY <1>3, <1>4, <1>5, <1>6 DEF Next

\* An upload that was answered left no temporary file, unless it logged that: whatever
\* raises in it and in its compensation (object_upload), if no fsync raises after its
\* rename.
THEOREM NothingLeaks ==
    ASSUME FsyncMayFail = FALSE
    PROVE  Spec => []NoSilentLeak
<1>1. Init => TInv
  BY DEF Init, TInv, Temps
<1>2. IInv /\ TInv /\ [Next]_vars => TInv'
  BY NextTInv
<1>3. TInv => NoSilentLeak
  BY DEF TInv, Temps, NoSilentLeak
<1> HIDE DEF Goto, Fault, LateFault, NoFault, Log, NoLog, db, locals, files, reads
<1> QED
  BY <1>1, <1>2, <1>3, Invariant, PTL DEF Spec

------------------------------------------------------------------------------
(* Bytes and metadata, when a call that raises did nothing.                 *)

\* A row follows the file at its key, or the backup of the upload in doubt there.
Follows(k) ==
    /\ \A r \in Upload : InDoubt(r) /\ key[r] = k => backup[r] = row[k]
    /\ (\A r \in Upload : ~ (InDoubt(r) /\ key[r] = k)) /\ IsFile(k) => node[k] = row[k]

FInv == \A k \in Key : ~ Disturbed(k) => Follows(k)

\* The log and the dead are for ever, and so is what they say about a key.
LEMMA DisturbanceStays ==
    ASSUME IInv, TInv, NEW r \in Upload, Put(r), NEW k \in Key, Disturbed(k)
    PROVE  Disturbed(k)'
<1>1. PICK s \in Upload : key[s] = k /\ (s \in logged \/ pc[s] = "dead")
  BY DEF Disturbed
<1>2. CASE s = r
  <2>1. r \in logged /\ pc[r] # "new"
    BY <1>1, <1>2, PutFrame DEF TInv, Temps
  <2>2. ~ LoadBucket(r)
    BY <2>1 DEF LoadBucket
  <2>3. key'[r] = key[r]
    BY <2>2 DEF Put, Transaction, Compensation, LockBucket, Stage, Mkdir,
       NotImplemented, Backup, Flush, Publish, Commit, Unlock, Rollback, Compensate,
       DropStaged, AnswerError, DropBackup
  <2> QED
    BY <1>1, <1>2, <2>1, <2>3, PutFrame DEF Disturbed
<1>3. CASE s # r
  BY <1>1, <1>3, PutFrame DEF Disturbed, Own
<1> QED
  BY <1>2, <1>3

\* A step that leaves the key as it is, and the uploads in doubt there.
LEMMA FollowsFrame ==
    ASSUME NEW k \in Key, Follows(k),
           row'[k] = row[k],
           node'[k] = node[k] \/ ~ IsFile(k)',
           \A s \in Upload : /\ (InDoubt(s) /\ key[s] = k)' <=> InDoubt(s) /\ key[s] = k
                             /\ InDoubt(s) => backup'[s] = backup[s]
    PROVE  Follows(k)'
BY DEF Follows, IsFile

\* The steps that change neither rows nor files, and put no upload in doubt or out of it.
LEMMA FollowsQuiet ==
    ASSUME IInv, NEW r \in Upload, NEW k \in Key, Follows(k),
           \/ LoadBucket(r) \/ LockBucket(r) \/ Stage(r) \/ NotImplemented(r) \/ Backup(r)
           \/ Flush(r) \/ Unlock(r) \/ Rollback(r) \/ DropStaged(r) \/ AnswerError(r)
           \/ DropBackup(r)
    PROVE  Follows(k)'
<1> USE DEF IInv, TypeOK
<1>1. /\ UNCHANGED <<row, node, objectWritten>>
      /\ \A s \in Upload : s # r => Own(s)' = Own(s)
  <2>1. Put(r)
    BY DEF Put, Transaction, Compensation
  <2> QED
    BY <2>1, PutFrame DEF LoadBucket, LockBucket, Stage, NotImplemented, Backup, Flush,
       Unlock, Rollback, DropStaged, AnswerError, DropBackup
<1>2. InDoubt(r)' <=> InDoubt(r)
  <2>1. pc[r] \in Unpublished \cup {"refused"} => ~ objectWritten[r]
    BY DEF LocalsTellTheTruth
  <2>2. \/ pc'[r] \notin {"published", "failed", "rolledback"}
           /\ pc[r] \notin {"published", "failed", "rolledback"}
        \/ pc'[r] \in {"published", "failed", "rolledback"}
           /\ pc[r] \in Unpublished \cup {"refused", "failed"}
    BY DEF LoadBucket, LockBucket, Stage, NotImplemented, Backup, Flush,
       Unlock, Rollback, DropStaged, AnswerError, DropBackup
  <2> QED
    BY <1>1, <2>1, <2>2 DEF InDoubt
<1>3. InDoubt(r) => key'[r] = key[r] /\ backup'[r] = backup[r]
  <2>1. CASE Rollback(r)
    BY <2>1 DEF Rollback
  <2>2. CASE pc[r] \notin {"published", "failed", "rolledback"}
    BY <2>2 DEF InDoubt
  <2> QED
    BY <2>1, <2>2 DEF LoadBucket, LockBucket, Stage, NotImplemented, Backup, Flush,
       Unlock, DropStaged, AnswerError, DropBackup
<1>4. \A s \in Upload : /\ (InDoubt(s) /\ key[s] = k)' <=> InDoubt(s) /\ key[s] = k
                        /\ InDoubt(s) => backup'[s] = backup[s]
  BY <1>1, <1>2, <1>3 DEF InDoubt, Own
<1> QED
  BY <1>1, <1>4, FollowsFrame

\* Directories are made only where there is no file.
LEMMA MkdirFollows ==
    ASSUME IInv, NEW r \in Upload, NEW k \in Key, Follows(k), Mkdir(r)
    PROVE  Follows(k)'
<1>1. /\ UNCHANGED <<row, key, backup, objectWritten>> /\ ~ objectWritten[r]
      /\ \A s \in Upload : s # r => pc'[s] = pc[s]
  BY DEF Mkdir, IInv, TypeOK, LocalsTellTheTruth
<1>2. node'[k] = node[k] \/ ~ IsFile(k)'
  BY MkdirMakes, PathAssumption DEF IsFile
<1>3. \A s \in Upload : (InDoubt(s) /\ key[s] = k)' <=> InDoubt(s) /\ key[s] = k
  BY <1>1 DEF InDoubt
<1> QED
  BY <1>1, <1>2, <1>3, FollowsFrame

\* What the upload puts in doubt is in its backup, or is nothing.
LEMMA PublishFollows ==
    ASSUME FsyncMayFail = FALSE, IInv, RInv, TInv, NEW r \in Upload, NEW k \in Key,
           Follows(k), Publish(r)
    PROVE  Follows(k)'
<1> USE DEF Publish, Replace
<1>1. /\ pc[r] = "flushed" /\ pc[r] \in Inside /\ ~ objectWritten[r]
      /\ UNCHANGED <<row, key, backup, backupCreated>>
      /\ \A s \in Upload : s # r => pc'[s] = pc[s] /\ objectWritten'[s] = objectWritten[s]
  BY DEF IInv, TypeOK, LocalsTellTheTruth
<1>2. \A s \in Upload : ~ InDoubt(s) /\ (s # r => ~ InDoubt(s)')
  BY <1>1, AloneInside DEF InDoubt
<1>3. CASE k = key[r] /\ InDoubt(r)'
  <2>1. backupCreated[r] => backup[r] = node[k] /\ IsFile(k)
    BY <1>1, <1>3 DEF RInv, BackupIsCurrent, IInv, LocalsTellTheTruth, IsFile
  <2>2. ~ backupCreated[r] => backup[r] = None /\ row[k] = None
    BY <1>1, <1>3 DEF TInv, Temps, IInv, LocalsTellTheTruth, RowHasFile
  <2>3. backup[r] = row[k]
    BY <1>2, <2>1, <2>2 DEF Follows
  <2> QED
    BY <1>1, <1>2, <1>3, <2>3 DEF Follows
<1>4. CASE ~ InDoubt(r)'
  <2>1. UNCHANGED node
    BY <1>1, <1>4 DEF InDoubt, IInv, TypeOK
  <2> QED
    BY <1>1, <1>2, <1>4, <2>1, FollowsFrame
<1>5. CASE k # key[r]
  <2>1. node'[k] = node[k]
    BY <1>5, PathAssumption DEF IInv, TypeOK
  <2> QED
    BY <1>1, <1>2, <1>5, <2>1, FollowsFrame
<1> QED
  BY <1>3, <1>4, <1>5

\* The row comes to describe the payload of the upload, which is no longer in doubt.
LEMMA CommitFollows ==
    ASSUME IInv, NEW r \in Upload, NEW k \in Key, Follows(k), Commit(r)
    PROVE  Follows(k)'
<1> USE DEF Commit
<1>1. /\ pc[r] = "published" /\ pc[r] \in Inside
      /\ UNCHANGED <<node, key, backup, objectWritten>>
      /\ \A s \in Upload : s # r => pc'[s] = pc[s]
      /\ pc'[r] \in {"committed", "failed"}
  BY DEF IInv, TypeOK
<1>2. /\ InDoubt(r) /\ node[key[r]] = r
      /\ \A s \in Upload : s # r => ~ InDoubt(s) /\ ~ InDoubt(s)'
  BY <1>1, AloneInside DEF IInv, LocalsTellTheTruth, InDoubt
<1>3. CASE pc'[r] = "failed"
  <2>1. row' = row /\ InDoubt(r)'
    BY <1>1, <1>2, <1>3 DEF InDoubt, IInv, TypeOK
  <2> QED
    BY <1>1, <1>2, <2>1, FollowsFrame
<1>4. CASE pc'[r] = "committed"
  <2>1. \A s \in Upload : ~ InDoubt(s)'
    BY <1>2, <1>4 DEF InDoubt
  <2>2. row' = [row EXCEPT ![key[r]] = r]
    BY <1>4 DEF IInv, TypeOK
  <2>3. CASE k = key[r]
    BY <1>1, <1>2, <2>1, <2>2, <2>3 DEF Follows, IInv, TypeOK
  <2>4. CASE k # key[r]
    BY <1>1, <1>2, <2>1, <2>2, <2>4, FollowsFrame
  <2> QED
    BY <2>3, <2>4
<1> QED
  BY <1>1, <1>3, <1>4

\* A compensation that did not raise puts back what the row describes.
LEMMA CompensateFollows ==
    ASSUME IInv, RInv, NEW r \in Upload, NEW k \in Key, Follows(k), ~ Disturbed(k)',
           Compensate(r)
    PROVE  Follows(k)'
<1> USE DEF Compensate, Unpublish, Restore, Discard, NothingToRestore
<1>1. /\ pc[r] = "rolledback" /\ pc[r] \in Inside /\ pc'[r] = "restored"
      /\ UNCHANGED <<row, key, objectWritten>>
      /\ \A s \in Upload : s # r => pc'[s] = pc[s]
  BY DEF IInv, TypeOK
<1>2. /\ key[r] \in Path
      /\ \A s \in Upload : ~ InDoubt(s)' /\ (s # r => ~ InDoubt(s))
  BY <1>1, AloneInside DEF InDoubt
<1>3. CASE k = key[r]
  <2>1. r \notin logged'
    BY <1>1, <1>3 DEF Disturbed
  <2>2. CASE objectWritten[r] /\ backupCreated[r]
    <3>1. node'[k] = backup[r] /\ backup[r] = row[k]
      BY <1>1, <1>2, <1>3, <2>1, <2>2 DEF Follows, InDoubt, IInv, TypeOK
    <3> QED
      BY <1>1, <1>2, <3>1 DEF Follows
  <2>3. CASE objectWritten[r] /\ ~ backupCreated[r]
    <3>1. node'[k] = None
      BY <1>2, <1>3, <2>1, <2>3 DEF IInv, TypeOK
    <3> QED
      BY <1>2, <3>1 DEF Follows, IsFile
  <2>4. CASE ~ objectWritten[r]
    <3>1. UNCHANGED node /\ ~ InDoubt(r)
      BY <2>4 DEF InDoubt
    <3> QED
      BY <1>1, <1>2, <3>1 DEF Follows, IsFile
  <2> QED
    BY <2>2, <2>3, <2>4
<1>4. CASE k # key[r]
  <2>1. node'[k] = node[k]
    BY <1>4, PathAssumption DEF IInv, TypeOK
  <2>2. \A s \in Upload : key[s] = k => ~ InDoubt(s)
    BY <1>2, <1>4
  <2> QED
    BY <1>1, <1>2, <2>1, <2>2 DEF Follows, IsFile
<1> QED
  BY <1>3, <1>4

LEMMA NextFInv ==
    ASSUME FsyncMayFail = FALSE, IInv, RInv, TInv, FInv, [Next]_vars
    PROVE  FInv'
<1>1. ASSUME NEW r \in Upload, Put(r) PROVE FInv'
  <2> SUFFICES ASSUME NEW k \in Key, ~ Disturbed(k)' PROVE Follows(k)'
    BY DEF FInv
  <2>1. Follows(k)
    BY <1>1, DisturbanceStays DEF FInv
  <2> QED
    BY <1>1, <2>1, FollowsQuiet, MkdirFollows, PublishFollows, CommitFollows,
       CompensateFollows
    DEF Put, Transaction, Compensation
<1>2. ASSUME UNCHANGED <<row, node, pc, key, backup, objectWritten, logged>> PROVE FInv'
  BY <1>2 DEF FInv, Follows, Disturbed, InDoubt, IsFile
<1>3. ASSUME \E d \in Download : Get(d) PROVE FInv'
  BY <1>2, <1>3 DEF Get, ReadRow, CheckBytes, Stream
<1>4. ASSUME PutVersioning \/ UNCHANGED vars PROVE FInv'
  BY <1>2, <1>4 DEF PutVersioning, vars
<1>5. ASSUME Crash PROVE FInv'
  <2> SUFFICES ASSUME NEW k \in Key, ~ Disturbed(k)' PROVE Follows(k)'
    BY DEF FInv
  <2>1. /\ UNCHANGED <<row, node, key, backup, objectWritten, logged>>
        /\ \A r \in Upload : pc'[r] = IF pc[r] \in {"new"} \cup Ended THEN pc[r] ELSE "dead"
    BY <1>5 DEF Crash
  <2>2. Follows(k)
    BY <2>1 DEF FInv, Disturbed
  <2>3. \A r \in Upload : ~ InDoubt(r)'
    BY <2>1 DEF InDoubt
  <2>4. \A r \in Upload : ~ (InDoubt(r) /\ key[r] = k)
    BY <2>1 DEF InDoubt, Disturbed
  <2> QED
    BY <2>1, <2>2, <2>3, <2>4 DEF Follows, IsFile
<1> HIDE DEF Goto, Fault, LateFault, NoFault, Log, NoLog, db, locals, files, reads
<1> QED
  BY <1>1, <1>3, <1>4, <1>5 DEF Next

\* The invariant is what a reader of the key sees.
LEMMA FollowedBytes ==
    ASSUME IInv, FInv
    PROVE  BytesFollowRow
<1> SUFFICES ASSUME NEW k \in Key, ~ Disturbed(k) PROVE CommittedBytes(k) = row[k]
  BY DEF BytesFollowRow
<1> DEFINE Writers == {r \in Upload : InDoubt(r) /\ key[r] = k}
<1>1. Follows(k)
  BY DEF FInv
<1>2. CASE Writers = {}
  <2>1. IsFile(k) => node[k] = row[k]
    BY <1>1, <1>2 DEF Follows
  <2>2. ~ IsFile(k) => row[k] = None
    BY DEF IInv, RowHasFile
  <2>3. node[k] \in Upload \cup {None, Dir}
    BY PathAssumption DEF IInv, TypeOK
  <2> QED
    BY <1>2, <2>1, <2>2, <2>3 DEF CommittedBytes, IsFile
<1>3. CASE Writers # {}
  <2>1. (CHOOSE r \in Writers : TRUE) \in Writers
    BY <1>3
  <2>2. backup[CHOOSE r \in Writers : TRUE] = row[k]
    BY <1>1, <2>1 DEF Follows
  <2> QED
    BY <1>3, <2>2 DEF CommittedBytes
<1> QED
  BY <1>2, <1>3

\* The bytes at a key are those its row describes, looking through the upload that holds
\* the lock: a failed upload was undone, unless the operator was told by the log, or the
\* process died. As long as os.replace and the fsync after it fail together.
THEOREM BytesAndRowsAgree ==
    ASSUME FsyncMayFail = FALSE
    PROVE  Spec => []BytesFollowRow
<1>1. Init => RInv /\ TInv /\ FInv
  <2>1. Init => RInv
    BY DEF Init, RInv, BackupIsCurrent, Recoverable
  <2>2. Init => TInv
    BY DEF Init, TInv, Temps
  <2>3. Init => FInv
    BY PathAssumption DEF Init, FInv, Follows, IsFile, InDoubt
  <2> QED
    BY <2>1, <2>2, <2>3
<1>2. IInv /\ RInv /\ TInv /\ FInv /\ [Next]_vars => RInv' /\ TInv' /\ FInv'
  BY NextRInv, NextTInv, NextFInv
<1>3. IInv /\ FInv => BytesFollowRow
  BY FollowedBytes
<1> HIDE DEF Goto, Fault, LateFault, NoFault, Log, NoLog, db, locals, files, reads
<1> QED
  BY <1>1, <1>2, <1>3, Invariant, PTL DEF Spec

=============================================================================
