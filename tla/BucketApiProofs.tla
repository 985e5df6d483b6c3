--------------------------- MODULE BucketApiProofs ---------------------------
(****************************************************************************)
(* Proofs about BucketApi, for any users, keys, requests, faults and        *)
(* restarts: a row has its directory, the answers to a PUT Bucket are true, *)
(* authentication is just, and listings are exact.                          *)
(*                                                                          *)
(* Each request is described by where it is (Local), what it holds (Locks), *)
(* what there is of its bucket (Directories), and whether it is in the      *)
(* table (Answers).  A listing adds what it knows and shows (ListInv), for  *)
(* which the queries of Orm are shown to find and order what they should:   *)
(* the order of texts is total, SelectAll follows it, and LIKE with the     *)
(* pattern of a prefix finds the texts that begin with it.                  *)
(****************************************************************************)
EXTENDS BucketApi, SequenceLemmas, FiniteSetTheorems, TLAPS

Early    == {"idle", "body", "auth"}
Held     == {"check", "isdir", "insert", "mktree", "fsync", "commit", "unlock", "rollback", "rmdir"}
Creating == Held \cup {"lock"}

\* The bucket of the request has no row; its directory may be there.
Rowless == Held \ {"check", "unlock"}
Making  == {"fsync", "commit", "rollback", "rmdir"}

\* What a request knows and has done, by where it is.
Local ==
    \A r \in Request :
        /\ pc[r] \notin {"idle", "done"} => wire[r] \in DOMAIN Wire
        /\ pc[r] \in {"body", "auth"} => Extracted(Got(r))
        /\ pc[r] = "auth" => PayloadVerdict(Got(r)) = "ok"
        /\ pc[r] \in Early => user[r] = None
        /\ pc[r] \notin Early \cup {"done"} => user[r] # None
        /\ pc[r] \in Creating => Got(r).op = "create"
        /\ pc[r] = "read" => Got(r).op # "create"
        /\ pc[r] \in Step \ {"commit", "unlock", "rollback", "rmdir", "emit", "done"} => ~ created[r]
        /\ pc[r] = "commit" => created[r]

\* A creation holds the lock of its bucket, and the one that writes is under way.
Locks ==
    /\ \A r \in Request : pc[r] \in Held => bucketLock[Bucket(r)] = r
    /\ writer # None => pc[writer] \in Rowless \ {"isdir", "insert"}

\* How far the row and the directory of a creation are.
Progress(r) ==
    /\ pc[r] \in Rowless => \A b \in rows : b.bucket_name # Bucket(r)
    /\ pc[r] \in {"insert", "mktree"} => dir[Bucket(r)] = "absent"
    /\ pc[r] = "commit" => dir[Bucket(r)] = "synced"
    /\ pc[r] \in {"rollback", "rmdir"} /\ ~ created[r] /\ crashes = 0 =>
         dir[Bucket(r)] = "absent" \/ Bucket(r) \in orphaned

\* A directory is of a row, of a creation under way, or was left behind.
Accounted(n) ==
    \/ dir[n] = "absent" \/ n \in orphaned
    \/ \E r \in Request : pc[r] \in Making /\ Bucket(r) = n
    \/ \E b \in rows : b.bucket_name = n

Directories ==
    /\ \A r \in Request : Progress(r)
    /\ \A b \in rows : dir[b.bucket_name] = "synced"
    /\ \A a, b \in rows : a.bucket_name = b.bucket_name => a = b
    /\ crashes = 0 => \A n \in Name : Accounted(n)

InTable(r) == \E b \in rows : b.id = r

\* A directory in the way of every creation of that name.
Stuck(n) ==
    /\ dir[n] # "absent"
    /\ \A r \in Request : pc[r] \in Rowless \ {"isdir"} => Bucket(r) # n

\* The name is taken, and not by the user of this request.
Taken(r) ==
    /\ \A b \in rows : b.bucket_name = Bucket(r) => b.user_id # user[r]
    /\ Stuck(Bucket(r)) \/ \E b \in rows : b.bucket_name = Bucket(r)

\* A finished creation has told the truth.
Truth(r) ==
    /\ answer[r] = "ok" <=> InTable(r)
    /\ answer[r] = "BucketAlreadyOwnedByYou" =>
         \E b \in rows : b.bucket_name = Bucket(r) /\ b.user_id = user[r]
    /\ answer[r] = "BucketAlreadyExists" /\ crashes = 0 => Taken(r)

Answers ==
    \A r \in Request :
        /\ pc[r] \notin {"unlock", "emit", "done"} => ~ InTable(r)
        /\ pc[r] = "unlock" \/ (pc[r] = "emit" /\ Got(r).op = "create") => InTable(r)
        /\ Creates(r) /\ pc[r] = "done" => Truth(r)

IInv == TypeOK /\ Local /\ Locks /\ Directories /\ Answers

------------------------------------------------------------------------------
(* Verdicts and queries.                                                    *)

\* Every verdict is an answer.
LEMMA Verdicts ==
    ASSUME NEW q, NEW k, NEW secret, NEW now
    PROVE  /\ PayloadVerdict(q) \in {"ok"} \cup Refusals
           /\ AccountVerdict(k) \in {"ok"} \cup Refusals
           /\ VerifyVerdict(q, secret, now) \in {"ok"} \cup Refusals
BY DEF PayloadVerdict, AccountVerdict, VerifyVerdict, TimeVerdict, Refusals

\* So is the verdict of require_auth.
LEMMA AuthVerdicts == ASSUME NEW q PROVE AuthVerdict(q) \in {"ok"} \cup Refusals
BY Verdicts DEF AuthVerdict

\* A bucket is found by its name, or there is none.
LEMMA SelectNamed ==
    ASSUME NEW table, Null \notin table, NEW name
    PROVE  LET found == Select(table, Named(name))
           IN  /\ found = Null => \A b \in table : b.bucket_name # name
               /\ found # Null => found \in table /\ found.bucket_name = name
<1>1. \A b : Where(b, Named(name)) <=> b.bucket_name = name
  BY DEF Where, Named
<1> QED
  BY <1>1 DEF Select

\* What a request asks for is of its type.
LEMMA Known ==
    ASSUME TypeOK, Local, NEW r \in Request, pc[r] \notin {"idle", "done"}
    PROVE  /\ wire[r] \in DOMAIN Wire
           /\ Bucket(r) \in Name
           /\ user[r] # None => user[r] \in DOMAIN User /\ NewRow(r) \in Row
           /\ NewRow(r).id = r /\ NewRow(r).bucket_name = Bucket(r) /\ NewRow(r).user_id = user[r]
BY RequestAssumption DEF TypeOK, Local, Bucket, Got, NewRow, Row

------------------------------------------------------------------------------
(* The invariant holds, and every step keeps it.                            *)

\* The invariant holds at first.
LEMMA InitKeeps == Init => IInv
<1> USE RequestAssumption, BoundAssumption DEF Init, IInv
<1>1. Init => TypeOK
  BY DEF TypeOK, Step, Answer, DirState
<1>2. Init => Local /\ Locks
  BY DEF Local, Locks, Held, Creating, Early, Step
<1>3. Init => Directories
  <2> SUFFICES ASSUME Init PROVE Directories
    OBVIOUS
  <2>1. \A b \in rows : b.bucket_name \in Name /\ b \in InitRow
    BY DEF Row
  <2>2. \A r \in Request : Progress(r)
    BY DEF Progress, Rowless, Held
  <2>3. \A b \in rows : dir[b.bucket_name] = "synced"
    BY <2>1
  <2>4. \A n \in Name : Accounted(n)
    BY DEF Accounted
  <2> QED
    BY <2>1, <2>2, <2>3, <2>4 DEF Directories
<1>4. Init => Answers
  BY DEF Answers, InTable, Row
<1> QED  BY <1>1, <1>2, <1>3, <1>4

\* What an answer does to the other requests, and to the one that is answered.
LEMMA Finishes ==
    ASSUME TypeOK, NEW r \in Request, NEW what, Finish(r, what)
    PROVE  /\ pc' = [pc EXCEPT ![r] = "done"]
           /\ answer' = [answer EXCEPT ![r] = what]
           /\ wire' = [wire EXCEPT ![r] = IF Creates(r) THEN @ ELSE None]
           /\ known' = [known EXCEPT ![r] = {}]
           /\ bucketLock' \in [Name -> Request \cup {None}]
           /\ \A s \in Request, n \in Name : s # r /\ bucketLock[n] = s => bucketLock'[n] = s
           /\ writer' \in {writer, None} /\ writer' # r
BY RequestAssumption DEF TypeOK, Finish, Forget, Goto

\* An answer that is true keeps the invariant, unless a directory is being made.
LEMMA FinishKeeps ==
    ASSUME IInv, NEW r \in Request, NEW what \in Answer, Finish(r, what),
           pc[r] \notin Making \cup {"done"},
           UNCHANGED <<clock, rows, dir, created, orphaned, crashes>>,
           user' \in [Request -> DOMAIN User \cup {None}],
           \A s \in Request : s # r \/ Creates(r) => user'[s] = user[s],
           hooks' \in [Request -> 0..Hook], faults' \in 0..MaxFaults,
           Creates(r) =>
             /\ what = "ok" <=> InTable(r)
             /\ what = "BucketAlreadyOwnedByYou" =>
                  \E b \in rows : b.bucket_name = Bucket(r) /\ b.user_id = user[r]
             /\ what = "BucketAlreadyExists" /\ crashes = 0 => Taken(r)
    PROVE  IInv'
<1> USE DEF IInv
<1>1. /\ TypeOK /\ Local /\ Locks /\ Directories /\ Answers
      /\ pc' = [pc EXCEPT ![r] = "done"] /\ answer' = [answer EXCEPT ![r] = what]
      /\ wire' = [wire EXCEPT ![r] = IF Creates(r) THEN @ ELSE None]
      /\ bucketLock' \in [Name -> Request \cup {None}]
      /\ \A s \in Request, n \in Name : s # r /\ bucketLock[n] = s => bucketLock'[n] = s
      /\ writer' \in {writer, None} /\ writer' # r
  BY Finishes
<1>2. TypeOK'
  <2>1. wire' \in [Request -> DOMAIN Wire \cup {None}] /\ known' \in [Request -> SUBSET Name]
    BY <1>1, Finishes DEF TypeOK
  <2>2. pc' \in [Request -> Step] /\ answer' \in [Request -> Answer] /\ writer' \in Request \cup {None}
    BY <1>1 DEF TypeOK, Step
  <2> QED
    BY <1>1, <2>1, <2>2 DEF TypeOK
<1>3. \A s \in Request : s # r =>
        pc'[s] = pc[s] /\ wire'[s] = wire[s] /\ answer'[s] = answer[s] /\ user'[s] = user[s]
  BY <1>1 DEF TypeOK
<1>4. pc'[r] = "done" /\ answer'[r] = what
  BY <1>1 DEF TypeOK
<1>5. Local'
  BY <1>1, <1>3, <1>4 DEF TypeOK, Local, Early, Creating, Held, Rowless, Step, Got
<1>6. Locks'
  <2>1. ASSUME NEW s \in Request, pc'[s] \in Held PROVE bucketLock'[Bucket(s)'] = s
    <3>1. s # r /\ pc[s] \in Held /\ Bucket(s)' = Bucket(s)
      BY <2>1, <1>3, <1>4 DEF Held, Bucket, Got
    <3> QED
      BY <3>1, <1>1, Known DEF Locks, Held
  <2>2. writer' # None => pc'[writer'] \in Rowless \ {"isdir", "insert"}
    BY <1>1, <1>3 DEF TypeOK, Locks
  <2> QED
    BY <2>1, <2>2 DEF Locks
<1>7. Directories'
  <2>1. ASSUME NEW s \in Request PROVE Progress(s)'
    <3>1. CASE s = r
      BY <3>1, <1>4 DEF Progress, Rowless, Held
    <3>2. CASE s # r
      BY <3>2, <1>1, <1>3 DEF Progress, Directories, Bucket, Got
    <3> QED
      BY <3>1, <3>2
  <2>2. ASSUME NEW n \in Name, Accounted(n) PROVE Accounted(n)'
    BY <2>2, <1>3 DEF Accounted, Making, Bucket, Got
  <2> QED
    BY <1>1, <2>1, <2>2 DEF Directories
<1>8. Answers'
  <2> SUFFICES ASSUME NEW s \in Request
               PROVE  /\ pc'[s] \notin {"unlock", "emit", "done"} => ~ InTable(s)'
                      /\ pc'[s] = "unlock" \/ (pc'[s] = "emit" /\ Got(s)'.op = "create") => InTable(s)'
                      /\ Creates(s)' /\ pc'[s] = "done" => Truth(s)'
    BY DEF Answers
  <2>1. Taken(s) /\ (s # r \/ Creates(r)) => Taken(s)'
    <3>1. \A n : Stuck(n) => Stuck(n)'
      BY <1>3, <1>4 DEF Stuck, Rowless, Held, Bucket, Got
    <3>2. s # r \/ Creates(r) => user'[s] = user[s] /\ Bucket(s)' = Bucket(s)
      BY <1>1, <1>3 DEF TypeOK, Bucket, Got
    <3> QED
      BY <3>1, <3>2 DEF Taken
  <2>2. CASE s # r
    BY <2>1, <2>2, <1>1, <1>3 DEF Answers, Truth, InTable, Creates, Bucket, Got
  <2>3. CASE s = r
    <3>1. Creates(r)' => Creates(r) /\ user'[r] = user[r] /\ Bucket(r)' = Bucket(r)
      BY <1>1 DEF TypeOK, Creates, Bucket, Got
    <3> QED
      BY <2>1, <2>3, <3>1, <1>4 DEF Truth, InTable
  <2> QED
    BY <2>2, <2>3
<1> QED  BY <1>2, <1>5, <1>6, <1>7, <1>8

\* The steps of bucket_create: the lock is free, so no other creation of the bucket is on.
LEMMA LockBucketKeeps ==
    ASSUME IInv, NEW r \in Request, LockBucket(r)
    PROVE  IInv'
<1> USE DEF IInv, LockBucket, Goto, db, request, locals, bounds
<1>1. TypeOK'
  BY Known, RequestAssumption DEF TypeOK, Step, Answer, Refusals, DirState
<1>2. Local'
  BY Known, RequestAssumption DEF TypeOK, Local, Early, Creating, Held, Rowless, Step, Got
<1>3. Locks'
  BY Known, RequestAssumption DEF TypeOK, Locks, Local, Held, Rowless, Bucket, Got
<1>4. Directories'
  <2>1. \A s \in Request : pc'[s] \in Rowless \cup Making => pc'[s] = pc[s]
    BY DEF TypeOK, Rowless, Making, Held
  <2>2. \A s \in Request : pc[s] \in Making => pc'[s] = pc[s]
    BY DEF TypeOK, Making
  <2>3. \A s \in Request : Progress(s) => Progress(s)'
    BY <2>1 DEF Progress, Rowless, Held, Making, Bucket, Got
  <2>4. \A n \in Name : Accounted(n) => Accounted(n)'
    BY <2>2 DEF Accounted, Bucket, Got
  <2> QED
    BY <2>3, <2>4 DEF Directories
<1>5. Answers'
  BY Known, RequestAssumption DEF TypeOK, Answers, Truth, Taken, Stuck, InTable, Creates,
     Locks, Local, Early, Creating, Rowless, Held, Step, Bucket, Got
<1> QED  BY <1>1, <1>2, <1>3, <1>4, <1>5

\* The name is still free, as the lock is held.
LEMMA InsertKeeps ==
    ASSUME IInv, NEW r \in Request, Insert(r)
    PROVE  IInv'
<1> USE DEF IInv, Insert, Goto, db, request, locals, bounds
<1>1. TypeOK'
  BY Known, RequestAssumption DEF TypeOK, Step, Answer, Refusals, DirState
<1>2. Local'
  BY Known, RequestAssumption DEF TypeOK, Local, Early, Creating, Held, Rowless, Step, Got
<1>3. Locks'
  BY Known, RequestAssumption DEF TypeOK, Locks, Local, Held, Rowless, Bucket, Got
<1>4. Directories'
  BY Known, RequestAssumption DEF TypeOK, Locks, Local, Directories, Progress, Accounted,
     Held, Rowless, Making, Bucket, Got, DirState
<1>5. Answers'
  BY Known, RequestAssumption DEF TypeOK, Answers, Truth, Taken, Stuck, InTable, Creates,
     Locks, Local, Early, Creating, Rowless, Held, Step, Bucket, Got
<1> QED  BY <1>1, <1>2, <1>3, <1>4, <1>5

\* The directory is made by the creation that holds the lock.
LEMMA MakeDirectoryKeeps ==
    ASSUME IInv, NEW r \in Request, MakeDirectory(r)
    PROVE  IInv'
<1> USE DEF IInv, MakeDirectory, Goto, db, request, locals, bounds
<1>1. TypeOK'
  BY Known, RequestAssumption DEF TypeOK, Step, Answer, Refusals, DirState
<1>2. Local'
  BY Known, RequestAssumption DEF TypeOK, Local, Early, Creating, Held, Rowless, Step, Got
<1>3. Locks'
  BY Known, RequestAssumption DEF TypeOK, Locks, Local, Held, Rowless, Bucket, Got
<1>4. Directories'
  BY Known, RequestAssumption DEF TypeOK, Locks, Local, Directories, Progress, Accounted,
     Held, Rowless, Making, Bucket, Got, DirState
<1>5. Answers'
  BY Known, RequestAssumption DEF TypeOK, Answers, Truth, Taken, Stuck, InTable, Creates,
     Locks, Local, Early, Creating, Rowless, Held, Step, Bucket, Got
<1> QED  BY <1>1, <1>2, <1>3, <1>4, <1>5

\* From here on the directory survives a restart.
LEMMA FsyncParentKeeps ==
    ASSUME IInv, NEW r \in Request, FsyncParent(r)
    PROVE  IInv'
<1> USE DEF IInv, FsyncParent, Goto, db, request, locals, bounds
<1>1. TypeOK'
  BY Known, RequestAssumption DEF TypeOK, Step, Answer, Refusals, DirState
<1>2. Local'
  BY Known, RequestAssumption DEF TypeOK, Local, Early, Creating, Held, Rowless, Step, Got
<1>3. Locks'
  BY Known, RequestAssumption DEF TypeOK, Locks, Local, Held, Rowless, Bucket, Got
<1>4. Directories'
  BY Known, RequestAssumption DEF TypeOK, Locks, Local, Directories, Progress, Accounted,
     Held, Rowless, Making, Bucket, Got, DirState
<1>5. Answers'
  BY Known, RequestAssumption DEF TypeOK, Answers, Truth, Taken, Stuck, InTable, Creates,
     Locks, Local, Early, Creating, Rowless, Held, Step, Bucket, Got
<1> QED  BY <1>1, <1>2, <1>3, <1>4, <1>5

\* The row comes to a directory that is synced, and nobody has been told that the name is taken.
LEMMA CommitKeeps ==
    ASSUME IInv, NEW r \in Request, Commit(r)
    PROVE  IInv'
<1> USE DEF IInv, Commit, Goto, db, request, locals, bounds
<1>0. /\ NewRow(r) \in Row /\ NewRow(r).id = r
      /\ NewRow(r).bucket_name = Bucket(r) /\ Bucket(r) \in Name
  BY Known DEF Local, Early
<1>1. TypeOK'
  BY <1>0, Known, RequestAssumption DEF TypeOK, Step, Answer, Refusals, DirState
<1>2. Local'
  BY <1>0, Known, RequestAssumption DEF TypeOK, Local, Early, Creating, Held, Rowless, Step, Got
<1>3. Locks'
  BY <1>0, Known, RequestAssumption DEF TypeOK, Locks, Local, Held, Rowless, Bucket, Got
<1>4. Directories'
  BY <1>0, Known, RequestAssumption DEF TypeOK, Locks, Local, Directories, Progress,
     Accounted, Held, Rowless, Making, Bucket, Got, DirState
<1>5. Answers'
  <2>1. \A s \in Request : s # r => pc'[s] = pc[s] /\ InTable(s)' = InTable(s)
    BY <1>0 DEF TypeOK, InTable
  <2>2. pc'[r] = "unlock" /\ InTable(r)'
    BY <1>0 DEF TypeOK, InTable
  <2>3. ASSUME NEW s \in Request, Taken(s), s # r PROVE Taken(s)'
    <3>1. Bucket(s) # Bucket(r)
      BY <2>3 DEF Taken, Stuck, Directories, Progress, Rowless, Held
    <3> QED
      BY <2>3, <3>1, <1>0 DEF TypeOK, Taken, Stuck, Rowless, Held, Bucket, Got
  <2>4. ASSUME NEW s \in Request, Truth(s), s # r PROVE Truth(s)'
    BY <2>1, <2>3, <2>4 DEF Truth, Bucket, Got
  <2> QED
    BY <2>1, <2>2, <2>4 DEF Answers, Creates, Got
<1> QED  BY <1>1, <1>2, <1>3, <1>4, <1>5

\* Nobody needs the lock for a bucket that is whole.
LEMMA UnlockKeeps ==
    ASSUME IInv, NEW r \in Request, Unlock(r)
    PROVE  IInv'
<1> USE DEF IInv, Unlock, Goto, db, request, locals, bounds
<1>1. TypeOK'
  BY Known, RequestAssumption, BoundAssumption DEF TypeOK, Step, Answer, Refusals, DirState
<1>2. Local'
  BY Known, RequestAssumption, BoundAssumption DEF TypeOK, Local, Early, Creating, Held,
     Rowless, Step, Got
<1>3. Locks'
  BY Known, RequestAssumption, BoundAssumption DEF TypeOK, Locks, Local, Held, Rowless,
     Bucket, Got
<1>4. Directories'
  BY Known, RequestAssumption, BoundAssumption DEF TypeOK, Locks, Local, Directories,
     Progress, Accounted, Held, Rowless, Making, Bucket, Got, DirState
<1>5. Answers'
  BY Known, RequestAssumption, BoundAssumption DEF TypeOK, Answers, Truth, Taken, Stuck,
     InTable, Creates, Locks, Local, Early, Creating, Rowless, Held, Step, Bucket, Got
<1> QED  BY <1>1, <1>2, <1>3, <1>4, <1>5

\* A failed fsync leaves a directory behind, which is accounted for.
LEMMA CallRaisesKeeps ==
    ASSUME IInv, NEW r \in Request, CallRaises(r)
    PROVE  IInv'
<1> USE DEF IInv, CallRaises, Fault, Goto, db, request, locals, bounds
<1>1. TypeOK'
  BY Known, RequestAssumption, BoundAssumption DEF TypeOK, Step, Answer, Refusals, DirState
<1>2. Local'
  BY Known, RequestAssumption, BoundAssumption DEF TypeOK, Local, Early, Creating, Held,
     Rowless, Step, Got
<1>3. Locks'
  BY Known, RequestAssumption, BoundAssumption DEF TypeOK, Locks, Local, Held, Rowless,
     Bucket, Got
<1>4. Directories'
  BY Known, RequestAssumption, BoundAssumption DEF TypeOK, Locks, Local, Directories,
     Progress, Accounted, Held, Rowless, Making, Bucket, Got, DirState
<1>5. Answers'
  BY Known, RequestAssumption, BoundAssumption DEF TypeOK, Answers, Truth, Taken, Stuck,
     InTable, Creates, Locks, Local, Early, Creating, Rowless, Held, Step, Bucket, Got
<1> QED  BY <1>1, <1>2, <1>3, <1>4, <1>5

\* The transaction goes with its session at the latest.
LEMMA RollbackKeeps ==
    ASSUME IInv, NEW r \in Request, Rollback(r)
    PROVE  IInv'
<1> USE DEF IInv, Rollback, Fault, Goto, db, request, locals, bounds
<1>1. TypeOK'
  BY Known, RequestAssumption, BoundAssumption DEF TypeOK, Step, Answer, Refusals, DirState
<1>2. Local'
  BY Known, RequestAssumption, BoundAssumption DEF TypeOK, Local, Early, Creating, Held,
     Rowless, Step, Got
<1>3. Locks'
  BY Known, RequestAssumption, BoundAssumption DEF TypeOK, Locks, Local, Held, Rowless,
     Bucket, Got
<1>4. Directories'
  BY Known, RequestAssumption, BoundAssumption DEF TypeOK, Locks, Local, Directories,
     Progress, Accounted, Held, Rowless, Making, Bucket, Got, DirState
<1>5. Answers'
  BY Known, RequestAssumption, BoundAssumption DEF TypeOK, Answers, Truth, Taken, Stuck,
     InTable, Creates, Locks, Local, Early, Creating, Rowless, Held, Step, Bucket, Got
<1> QED  BY <1>1, <1>2, <1>3, <1>4, <1>5

\* A failed creation removes what it made, or leaves it accounted for.
LEMMA RemoveDirectoryKeeps ==
    ASSUME IInv, NEW r \in Request, RemoveDirectory(r)
    PROVE  IInv'
<1> USE DEF IInv
<1>1. /\ pc[r] = "rmdir" /\ Bucket(r) \in Name /\ Creates(r)
      /\ pc' = [pc EXCEPT ![r] = "done"] /\ answer' = [answer EXCEPT ![r] = "InternalError"]
      /\ wire' = wire
      /\ bucketLock' \in [Name -> Request \cup {None}]
      /\ \A s \in Request, n \in Name : s # r /\ bucketLock[n] = s => bucketLock'[n] = s
      /\ writer' \in {writer, None} /\ writer' # r
      /\ known' = [known EXCEPT ![r] = {}]
      /\ UNCHANGED <<clock, rows, user, created, hooks, crashes>>
  <2>1. /\ Finish(r, "InternalError") /\ pc[r] = "rmdir"
        /\ UNCHANGED <<clock, rows, user, created, hooks, crashes>>
    BY DEF RemoveDirectory, Fault, locals, bounds
  <2>2. Bucket(r) \in Name /\ Creates(r)
    BY <2>1, Known, RequestAssumption DEF Creates, Local, Early, Creating, Held
  <2> QED
    BY <2>1, <2>2, Finishes DEF TypeOK
<1>2. /\ dir' \in {dir, [dir EXCEPT ![Bucket(r)] = "absent"]}
      /\ orphaned' \in {orphaned, orphaned \cup {Bucket(r)}}
      /\ faults' \in 0..MaxFaults
      /\ ~ created[r] => dir' = dir
      /\ created[r] => dir'[Bucket(r)] = "absent" \/ Bucket(r) \in orphaned'
  BY <1>1, BoundAssumption DEF RemoveDirectory, Fault, bounds, TypeOK
<1>3. \A s \in Request : s # r =>
        pc'[s] = pc[s] /\ answer'[s] = answer[s] /\ (pc[s] \in Held => Bucket(s) # Bucket(r))
  BY <1>1 DEF TypeOK, Locks, Held
<1>4. pc'[r] = "done" /\ answer'[r] = "InternalError" /\ \A s \in Request : Bucket(s)' = Bucket(s)
  BY <1>1 DEF TypeOK, Bucket, Got
<1>5. TypeOK'
  <2>1. dir' \in [Name -> DirState] /\ orphaned' \subseteq Name
    BY <1>1, <1>2 DEF TypeOK, DirState
  <2>2. pc' \in [Request -> Step] /\ answer' \in [Request -> Answer]
    BY <1>1 DEF TypeOK, Step, Answer
  <2> QED
    BY <1>1, <1>2, <2>1, <2>2 DEF TypeOK
<1>6. Local'
  BY <1>1, <1>3, <1>4 DEF TypeOK, Local, Early, Creating, Held, Step, Got
<1>7. Locks'
  <2>1. ASSUME NEW s \in Request, pc'[s] \in Held PROVE bucketLock'[Bucket(s)'] = s
    <3>1. s # r /\ pc[s] \in Held /\ Bucket(s)' = Bucket(s)
      BY <2>1, <1>3, <1>4 DEF Held
    <3> QED
      BY <3>1, <1>1, Known DEF Locks, Held
  <2>2. writer' # None => pc'[writer'] \in Rowless \ {"isdir", "insert"}
    BY <1>1, <1>3 DEF TypeOK, Locks
  <2> QED
    BY <2>1, <2>2 DEF Locks
<1>8. Directories'
  <2>1. ASSUME NEW s \in Request PROVE Progress(s)'
    <3>1. CASE s = r
      BY <3>1, <1>4 DEF Progress, Rowless, Held
    <3>2. CASE s # r
      <4>1. pc[s] \in Held => dir'[Bucket(s)] = dir[Bucket(s)]
        BY <3>2, <1>1, <1>2, <1>3, Known DEF TypeOK, Held
      <4> QED
        BY <3>2, <4>1, <1>1, <1>2, <1>3, <1>4 DEF Progress, Directories, Rowless, Held
    <3> QED
      BY <3>1, <3>2
  <2>2. \A b \in rows : dir'[b.bucket_name] = "synced"
    <3>1. \A b \in rows : b.bucket_name \in Name /\ b.bucket_name # Bucket(r)
      BY <1>1 DEF TypeOK, Row, Directories, Progress, Rowless, Held
    <3> QED
      BY <3>1, <1>2 DEF TypeOK, Directories
  <2>3. ASSUME NEW n \in Name, crashes = 0 PROVE Accounted(n)'
    <3>1. CASE n = Bucket(r)
      BY <2>3, <3>1, <1>1, <1>2 DEF Directories, Progress, Accounted
    <3>2. CASE n # Bucket(r)
      <4>1. Accounted(n) /\ dir'[n] = dir[n] /\ (n \in orphaned => n \in orphaned')
        BY <2>3, <3>2, <1>1, <1>2 DEF TypeOK, Directories
      <4> QED
        BY <3>2, <4>1, <1>1, <1>3, <1>4 DEF Accounted
    <3> QED
      BY <3>1, <3>2
  <2> QED
    BY <1>1, <2>1, <2>2, <2>3 DEF Directories
<1>9. Answers'
  <2>1. \A n \in Name : Stuck(n) => Stuck(n)'
    <3> SUFFICES ASSUME NEW n \in Name, Stuck(n) PROVE Stuck(n)'
      OBVIOUS
    <3>1. n # Bucket(r)
      BY <1>1 DEF Stuck, Rowless, Held
    <3> QED
      BY <3>1, <1>1, <1>2, <1>3, <1>4 DEF TypeOK, Stuck, Rowless, Held
  <2>2. ASSUME NEW s \in Request, Creates(s), pc[s] = "done", Taken(s) PROVE Taken(s)'
    <3>1. Bucket(s) \in Name
      BY <2>2, RequestAssumption DEF TypeOK, Creates, Bucket, Got
    <3> QED
      BY <2>1, <2>2, <3>1, <1>1, <1>4 DEF Taken
  <2>3. ASSUME NEW s \in Request, s # r, Creates(s), pc[s] = "done", Truth(s) PROVE Truth(s)'
    BY <2>2, <2>3, <1>1, <1>3, <1>4 DEF Truth, InTable
  <2>4. Truth(r)'
    BY <1>1, <1>4 DEF Truth, Answers, InTable
  <2> QED
    BY <2>3, <2>4, <1>1, <1>3, <1>4 DEF Answers, Creates, InTable, Got
<1> QED  BY <1>5, <1>6, <1>7, <1>8, <1>9

\* Hooks change nothing.
LEMMA EmitKeeps ==
    ASSUME IInv, NEW r \in Request, Emit(r)
    PROVE  IInv'
<1> USE DEF IInv, Emit, Fault, Goto, db, request, locals, bounds
<1>1. TypeOK'
  BY Known, RequestAssumption, BoundAssumption DEF TypeOK, Step, Answer, Refusals, DirState
<1>2. Local'
  BY Known, RequestAssumption, BoundAssumption DEF TypeOK, Local, Early, Creating, Held,
     Rowless, Step, Got
<1>3. Locks'
  BY Known, RequestAssumption, BoundAssumption DEF TypeOK, Locks, Local, Held, Rowless,
     Bucket, Got
<1>4. Directories'
  BY Known, RequestAssumption, BoundAssumption DEF TypeOK, Locks, Local, Directories,
     Progress, Accounted, Held, Rowless, Making, Bucket, Got, DirState
<1>5. Answers'
  BY Known, RequestAssumption, BoundAssumption DEF TypeOK, Answers, Truth, Taken, Stuck,
     InTable, Creates, Locks, Local, Early, Creating, Rowless, Held, Step, Bucket, Got
<1> QED  BY <1>1, <1>2, <1>3, <1>4, <1>5

\* A request arrives and is taken apart.
LEMMA ReceiveKeeps ==
    ASSUME IInv, NEW r \in Request, Receive(r)
    PROVE  IInv'
<1>1. PICK w \in Offer[r] :
         \/ /\ Extracted(Wire[w].got) /\ wire' = [wire EXCEPT ![r] = w]
            /\ known' = [known EXCEPT ![r] = {b.bucket_name : b \in rows}]
            /\ pc' = [pc EXCEPT ![r] = "body"]
            /\ UNCHANGED <<writer, bucketLock, shown, answer>>
         \/ Finish(r, "AccessDenied")
  BY DEF Receive, Goto
<1>2. /\ pc[r] = "idle" /\ w \in DOMAIN Wire /\ ~ Creates(r)
      /\ UNCHANGED <<clock, rows, dir, user, created, hooks, orphaned, bounds>>
  BY RequestAssumption DEF Receive, IInv, Local, Early, Creates
<1>3. CASE Finish(r, "AccessDenied")
  BY <1>2, <1>3, FinishKeeps DEF IInv, TypeOK, Answer, Refusals, Making, bounds
<1>4. CASE /\ Extracted(Wire[w].got) /\ wire' = [wire EXCEPT ![r] = w]
           /\ known' = [known EXCEPT ![r] = {b.bucket_name : b \in rows}]
           /\ pc' = [pc EXCEPT ![r] = "body"]
           /\ UNCHANGED <<writer, bucketLock, shown, answer>>
  <2> USE <1>2, <1>4 DEF IInv, bounds
  <2>1. TypeOK'
    BY DEF TypeOK, Step, Row
  <2>2. Local'
    BY DEF TypeOK, Local, Early, Creating, Held, Rowless, Step, Got
  <2>3. Locks'
    BY DEF TypeOK, Locks, Local, Held, Rowless, Bucket, Got
  <2>4. Directories'
    BY DEF TypeOK, Locks, Local, Directories, Progress, Accounted, Held, Rowless, Making,
       Bucket, Got, DirState
  <2>5. Answers'
    BY DEF TypeOK, Answers, Truth, Taken, Stuck, InTable, Creates, Locks, Local, Early,
       Creating, Rowless, Held, Step, Bucket, Got
  <2> QED  BY <2>1, <2>2, <2>3, <2>4, <2>5
<1> QED
  BY <1>1, <1>3, <1>4

\* A request moves on and changes nothing else.
LEMMA GoKeeps ==
    ASSUME IInv, NEW r \in Request, NEW step \in Step, Go(r, step),
           UNCHANGED <<clock, rows, dir, created, hooks, orphaned, bounds>>,
           \/ pc[r] = "body" /\ step = "auth" /\ PayloadVerdict(Got(r)) = "ok" /\ user' = user
           \/ /\ pc[r] = "auth" /\ step = (IF Got(r).op = "create" THEN "lock" ELSE "read")
              /\ \E u \in DOMAIN User : user' = [user EXCEPT ![r] = u]
           \/ /\ pc[r] = "check" /\ step = "isdir" /\ user' = user
              /\ \A b \in rows : b.bucket_name # Bucket(r)
           \/ pc[r] = "isdir" /\ step = "insert" /\ dir[Bucket(r)] = "absent" /\ user' = user
    PROVE  IInv'
<1> USE RequestAssumption DEF IInv, Go, Goto, request, bounds
<1>1. TypeOK'
  BY DEF TypeOK, Step
<1>2. Local'
  BY DEF TypeOK, Local, Early, Creating, Held, Rowless, Step, Got
<1>3. Locks'
  BY DEF TypeOK, Locks, Local, Held, Rowless, Bucket, Got
<1>4. Directories'
  BY DEF TypeOK, Locks, Local, Directories, Progress, Accounted, Held, Rowless, Making,
     Bucket, Got, DirState
<1>5. Answers'
  BY DEF TypeOK, Answers, Truth, Taken, Stuck, InTable, Creates, Locks, Local, Early,
     Creating, Rowless, Held, Step, Bucket, Got
<1> QED  BY <1>1, <1>2, <1>3, <1>4, <1>5

\* The body is there.
LEMMA ResolvePayloadKeeps ==
    ASSUME IInv, NEW r \in Request, ResolvePayload(r)
    PROVE  IInv'
<1>1. /\ pc[r] = "body" /\ ~ Creates(r)
      /\ UNCHANGED <<clock, rows, dir, user, created, hooks, orphaned, bounds>>
  BY DEF ResolvePayload, IInv, Local, Early, Creates, locals
<1>2. CASE PayloadVerdict(Got(r)) = "ok"
  BY <1>1, <1>2, GoKeeps DEF ResolvePayload, Step
<1>3. CASE PayloadVerdict(Got(r)) # "ok"
  <2>1. Finish(r, PayloadVerdict(Got(r))) /\ PayloadVerdict(Got(r)) \in Answer
    BY <1>3, Verdicts DEF ResolvePayload, Answer
  <2> QED
    BY <1>1, <2>1, FinishKeeps DEF IInv, TypeOK, Making, bounds
<1> QED
  BY <1>2, <1>3

\* The client left.
LEMMA DisconnectKeeps ==
    ASSUME IInv, NEW r \in Request, Disconnect(r)
    PROVE  IInv'
<1>1. /\ pc[r] = "body" /\ ~ Creates(r) /\ Finish(r, "cut")
      /\ UNCHANGED <<clock, rows, dir, user, created, hooks, orphaned, bounds>>
  BY DEF Disconnect, IInv, Local, Early, Creates, locals
<1> QED
  BY <1>1, FinishKeeps DEF IInv, TypeOK, Answer, Making, bounds

\* A verdict, and where the request goes with it.
LEMMA AuthenticateKeeps ==
    ASSUME IInv, NEW r \in Request, Authenticate(r)
    PROVE  IInv'
<1>1. /\ pc[r] = "auth" /\ ~ Creates(r)
      /\ UNCHANGED <<clock, rows, dir, created, hooks, orphaned, bounds>>
  BY DEF Authenticate, IInv, Local, Early, Creates
<1>2. CASE AuthVerdict(Got(r)) # "ok"
  <2>1. Finish(r, AuthVerdict(Got(r))) /\ AuthVerdict(Got(r)) \in Answer /\ user' = user
    BY <1>2, AuthVerdicts DEF Authenticate, Answer
  <2> QED
    BY <1>1, <2>1, FinishKeeps DEF IInv, TypeOK, Making, bounds
<1>3. CASE AuthVerdict(Got(r)) = "ok"
  <2>1. PICK u \in DOMAIN User : user' = [user EXCEPT ![r] = u]
    <3>1. Got(r).key \in DOMAIN Key
      BY <1>3, RequestAssumption DEF AuthVerdict, AccountVerdict
    <3> QED
      BY <1>3, <3>1, RequestAssumption DEF Authenticate
  <2>2. CASE Got(r).op = "create" /\ ~ validate_bucket_name(Bucket(r))
    <3>1. Finish(r, "InvalidBucketName")
      BY <1>3, <2>2 DEF Authenticate
    <3> QED
      BY <1>1, <2>1, <3>1, FinishKeeps DEF IInv, TypeOK, Answer, Making, bounds
  <2>3. CASE Got(r).op # "create" \/ validate_bucket_name(Bucket(r))
    <3>1. Go(r, IF Got(r).op = "create" THEN "lock" ELSE "read")
      BY <1>3, <2>3 DEF Authenticate
    <3> QED
      BY <1>1, <2>1, <3>1, GoKeeps DEF Step
  <2> QED
    BY <2>2, <2>3
<1> QED
  BY <1>2, <1>3

\* The name has a row, or it has none while the lock is held.
LEMMA CheckRowKeeps ==
    ASSUME IInv, NEW r \in Request, CheckRow(r)
    PROVE  IInv'
<1> DEFINE existing == Select(rows, Named(Bucket(r)))
<1>1. /\ pc[r] = "check"
      /\ UNCHANGED <<clock, rows, dir, user, created, hooks, orphaned, bounds>>
  BY DEF CheckRow, locals
<1>2. Table(r) = rows
  BY <1>1 DEF IInv, Locks, Table, Rowless, Held
<1>3. /\ IF existing = Null THEN Go(r, "isdir")
         ELSE Finish(r, IF existing.user_id = user[r] THEN "BucketAlreadyOwnedByYou"
                                                      ELSE "BucketAlreadyExists")
      /\ existing = Null => \A b \in rows : b.bucket_name # Bucket(r)
      /\ existing # Null => existing \in rows /\ existing.bucket_name = Bucket(r)
  <2>1. Null \notin rows
    BY RequestAssumption DEF IInv, TypeOK
  <2> QED
    BY <1>2, <2>1, SelectNamed DEF CheckRow
<1>4. CASE existing = Null
  BY <1>1, <1>3, <1>4, GoKeeps DEF Step
<1>5. CASE existing # Null
  <2>1. ~ InTable(r) /\ \A b \in rows : b.bucket_name = Bucket(r) => b = existing
    BY <1>1, <1>3, <1>5 DEF IInv, Answers, Directories
  <2>2. CASE existing.user_id = user[r]
    BY <1>1, <1>3, <1>5, <2>1, <2>2, FinishKeeps DEF IInv, TypeOK, Answer, Making, bounds
  <2>3. CASE existing.user_id # user[r]
    <3>1. Taken(r)
      BY <1>3, <1>5, <2>1, <2>3 DEF Taken
    <3> QED
      BY <1>1, <1>3, <1>5, <2>1, <2>3, <3>1, FinishKeeps DEF IInv, TypeOK, Answer, Making,
         bounds
  <2> QED
    BY <2>2, <2>3
<1> QED
  BY <1>4, <1>5

\* A directory that nobody works on stays in the way.
LEMMA CheckDirectoryKeeps ==
    ASSUME IInv, NEW r \in Request, CheckDirectory(r)
    PROVE  IInv'
<1>1. /\ pc[r] = "isdir"
      /\ UNCHANGED <<clock, rows, dir, user, created, hooks, orphaned, bounds>>
  BY DEF CheckDirectory, locals
<1>2. CASE dir[Bucket(r)] = "absent"
  BY <1>1, <1>2, GoKeeps DEF CheckDirectory, Step
<1>3. CASE dir[Bucket(r)] # "absent"
  <2>1. Finish(r, "BucketAlreadyExists")
    BY <1>3 DEF CheckDirectory
  <2>2. ~ InTable(r) /\ \A b \in rows : b.bucket_name # Bucket(r)
    BY <1>1 DEF IInv, Answers, Directories, Progress, Rowless, Held
  <2>3. Stuck(Bucket(r))
    BY <1>1, <1>3 DEF IInv, Locks, Stuck, Rowless, Held
  <2>4. Taken(r)
    BY <2>2, <2>3 DEF Taken
  <2> QED
    BY <1>1, <2>1, <2>2, <2>4, FinishKeeps DEF IInv, TypeOK, Answer, Making, bounds
<1> QED
  BY <1>2, <1>3

\* Nothing has been done yet when a query raises.
LEMMA QueryRaisesKeeps ==
    ASSUME IInv, NEW r \in Request, QueryRaises(r)
    PROVE  IInv'
<1>1. /\ pc[r] \in {"auth", "check", "isdir", "read"} /\ Finish(r, "InternalError")
      /\ UNCHANGED <<clock, rows, dir, user, created, hooks, orphaned, crashes>>
      /\ faults' \in 0..MaxFaults
  BY BoundAssumption DEF QueryRaises, Fault, IInv, TypeOK, locals
<1>2. ~ InTable(r)
  BY <1>1 DEF IInv, Answers
<1> QED
  BY <1>1, <1>2, FinishKeeps DEF IInv, TypeOK, Answer, Making

\* What a request reads matters to nobody else.
LEMMA ShowsKeeps ==
    ASSUME IInv, NEW r \in Request, NEW what, Shows(r, what), pc[r] = "read",
           UNCHANGED <<clock, rows, dir, user, created, orphaned, bounds>>
    PROVE  IInv'
<1> USE RequestAssumption, BoundAssumption DEF IInv, Shows, Goto, bounds
<1>1. TypeOK'
  BY DEF TypeOK, Step
<1>2. Local'
  BY DEF TypeOK, Local, Early, Creating, Held, Rowless, Step, Got
<1>3. Locks'
  BY DEF TypeOK, Locks, Local, Held, Rowless, Bucket, Got
<1>4. Directories'
  BY DEF TypeOK, Locks, Local, Directories, Progress, Accounted, Held, Rowless, Making,
     Bucket, Got, DirState
<1>5. Answers'
  BY DEF TypeOK, Answers, Truth, Taken, Stuck, InTable, Creates, Locks, Local, Early,
     Creating, Rowless, Held, Step, Bucket, Got
<1> QED  BY <1>1, <1>2, <1>3, <1>4, <1>5

\* The reads.
LEMMA ReadsKeep ==
    ASSUME IInv, NEW r \in Request, ListBuckets(r) \/ ReadBucket(r)
    PROVE  IInv'
<1>1. /\ pc[r] = "read" /\ ~ Creates(r)
      /\ UNCHANGED <<clock, rows, dir, user, created, orphaned, bounds>>
      /\ \/ \E what : Shows(r, what)
         \/ \E what \in {"NoSuchBucket", "AccessDenied", "NoSuchObjectLock"} : Refuses(r, what)
  BY DEF ListBuckets, ReadBucket, bucket_get, bucket_versioning_retrieve,
         bucket_object_lock_retrieve, IInv, Local, Creates
<1>2. CASE \E what : Shows(r, what)
  BY <1>1, <1>2, ShowsKeeps
<1>3. ASSUME NEW what \in {"NoSuchBucket", "AccessDenied", "NoSuchObjectLock"}, Refuses(r, what)
      PROVE  IInv'
  BY <1>1, <1>3, FinishKeeps DEF Refuses, IInv, TypeOK, Answer, Refusals, Making, bounds
<1> QED
  BY <1>1, <1>2, <1>3

\* The answer to a request that did what it was to do.
LEMMA ReplyKeeps ==
    ASSUME IInv, NEW r \in Request, Reply(r)
    PROVE  IInv'
<1>1. /\ pc[r] = "emit" /\ Finish(r, "ok")
      /\ UNCHANGED <<clock, rows, dir, user, created, hooks, orphaned, bounds>>
      /\ Creates(r) => InTable(r)
  BY DEF Reply, IInv, Answers, Creates, locals
<1> QED
  BY <1>1, FinishKeeps DEF IInv, TypeOK, Answer, Making, bounds

\* Time concerns no bucket.
LEMMA TickKeeps ==
    ASSUME IInv, Tick
    PROVE  IInv'
<1> USE BoundAssumption DEF IInv, Tick, db, request, locals, bounds
<1>1. TypeOK'
  BY DEF TypeOK
<1>2. Local' /\ Locks'
  BY DEF Local, Locks, Bucket, Got
<1>3. Directories'
  BY DEF Directories, Progress, Accounted, Bucket, Got
<1>4. Answers'
  BY DEF Answers, Truth, Taken, Stuck, InTable, Creates, Bucket, Got
<1> QED  BY <1>1, <1>2, <1>3, <1>4

\* A restart ends every request; only directories that were not fsynced may go.
LEMMA CrashKeeps ==
    ASSUME IInv, Crash
    PROVE  IInv'
<1> USE DEF IInv
<1>1. /\ \A r \in Request :
           /\ pc'[r] \in {"idle", "done"}
           /\ pc'[r] = "idle" => pc[r] = "idle"
           /\ pc[r] \in {"idle", "done"} =>
                pc'[r] = pc[r] /\ answer'[r] = answer[r] /\ wire'[r] = wire[r]
           /\ pc[r] \notin {"idle", "done"} => wire'[r] = None
      /\ writer' = None /\ bucketLock' = [n \in Name |-> None]
      /\ \A n \in Name : dir[n] = "synced" => dir'[n] = "synced"
      /\ crashes' \in 1..MaxCrashes
      /\ UNCHANGED <<clock, rows, user, created, hooks, orphaned, faults>>
  BY BoundAssumption DEF Crash, TypeOK, locals
<1>2. TypeOK'
  BY <1>1 DEF Crash, TypeOK, Step, Answer, DirState
<1>3. Local' /\ Locks'
  BY <1>1 DEF Local, Locks, Early, Creating, Held, Step
<1>4. Directories'
  <2>1. \A b \in rows : b.bucket_name \in Name
    BY DEF TypeOK, Row
  <2> QED
    BY <1>1, <2>1 DEF Directories, Progress, Rowless, Held
<1>5. Answers'
  BY <1>1 DEF Answers, Truth, InTable, Creates, Bucket, Got
<1> QED  BY <1>2, <1>3, <1>4, <1>5

\* Every step keeps the invariant.
LEMMA StepKeeps == IInv /\ [Next]_vars => IInv'
<1> SUFFICES ASSUME IInv, [Next]_vars PROVE IInv'
  OBVIOUS
<1>1. ASSUME NEW r \in Request, Advance(r) PROVE IInv'
  BY <1>1, ResolvePayloadKeeps, AuthenticateKeeps, LockBucketKeeps, CheckRowKeeps,
     CheckDirectoryKeeps, InsertKeeps, MakeDirectoryKeeps, FsyncParentKeeps, CommitKeeps,
     UnlockKeeps, RollbackKeeps, RemoveDirectoryKeeps, ReadsKeep, EmitKeeps, ReplyKeeps
     DEF Advance
<1>2. CASE UNCHANGED vars
  <2>1. TypeOK' /\ Local' /\ Locks'
    BY <1>2 DEF IInv, TypeOK, Local, Locks, Bucket, Got, vars, db, request, locals, bounds
  <2>2. Directories'
    BY <1>2 DEF IInv, Directories, Progress, Accounted, Bucket, Got, vars, db, request,
       locals, bounds
  <2>3. Answers'
    BY <1>2 DEF IInv, Answers, Truth, Taken, Stuck, InTable, Creates, Bucket, Got, vars, db,
       request,
       locals, bounds
  <2> QED
    BY <2>1, <2>2, <2>3 DEF IInv
<1> QED
  BY <1>1, <1>2, ReceiveKeeps, DisconnectKeeps, QueryRaisesKeeps, CallRaisesKeeps, TickKeeps,
     CrashKeeps DEF Next

\* The inductive invariant: Local, Locks, Directories and Answers together.
THEOREM Invariant == Spec => []IInv
BY InitKeeps, StepKeeps, PTL DEF Spec

\* Every variable stays in its type.
THEOREM TypeCorrect == Spec => []TypeOK
<1>1. IInv => TypeOK
  BY DEF IInv
<1> QED
  BY <1>1, Invariant, PTL

------------------------------------------------------------------------------
(* Creations.                                                               *)

\* A bucket is a row and a directory (bucket_create), also after a restart, and what
\* is left of a failed creation is accounted for.
THEOREM RowsHaveDirectories == Spec => []RowHasDirectory
<1>1. IInv => RowHasDirectory
  <2> SUFFICES ASSUME IInv PROVE RowHasDirectory
    OBVIOUS
  <2>1. ASSUME NEW r \in Request, pc[r] \in Making PROVE bucketLock[Bucket(r)] # None
    BY <2>1, RequestAssumption DEF IInv, Locks, Making, Held
  <2> QED
    BY <2>1 DEF IInv, Directories, Accounted, RowHasDirectory
<1> QED
  BY <1>1, Invariant, PTL

\* The answer to a PUT Bucket (bucket_create, hooks.emit) says whether this request
\* made the bucket, and who owns it otherwise.
THEOREM AnswersTell == Spec => []AnswersAreTrue
<1>1. IInv => AnswersAreTrue
  BY DEF IInv, Answers, Truth, Taken, InTable, AnswersAreTrue
<1> QED
  BY <1>1, Invariant, PTL

------------------------------------------------------------------------------
(* Authentication.                                                          *)

\* uri_encode loses nothing.
LEMMA EncodeInjective ==
    ASSUME NEW s \in Seq(0..255), NEW t \in Seq(0..255), uri_encode(s) = uri_encode(t)
    PROVE  s = t
<1>1. 1..Len(s) = 1..Len(t)
  BY DEF uri_encode
<1>2. Len(s) \in Nat /\ Len(t) \in Nat
  OBVIOUS
<1>3. Len(s) = Len(t)
  BY <1>1, <1>2
<1>4. ASSUME NEW i \in 1..Len(s) PROVE s[i] = t[i]
  <2>1. uri_encode(s)[i] = <<s[i] \notin Unreserved, s[i]>>
    BY DEF uri_encode
  <2>2. uri_encode(t)[i] = <<t[i] \notin Unreserved, t[i]>>
    BY <1>3 DEF uri_encode
  <2> QED
    BY <2>1, <2>2
<1> QED
  BY <1>3, <1>4

\* Two requests with the same canonical query ask for the same, for as long.
LEMMA QueryInjective ==
    ASSUME NEW p, NEW q, NEW e, NEW f, CanonicalQuery(p, e) = CanonicalQuery(q, f)
    PROVE  /\ e = f /\ p.max = q.max
           /\ p.source = "query" => q.source = "query" /\ p.expires = q.expires
<1>1. <<"prefix", e>> \in CanonicalQuery(q, f)
  BY DEF CanonicalQuery
<1>2. <<"max-keys", p.max>> \in CanonicalQuery(q, f)
  BY DEF CanonicalQuery
<1>3. p.source = "query" => <<"X-Amz-Expires", p.expires>> \in CanonicalQuery(q, f)
  BY DEF CanonicalQuery
<1> QED
  BY <1>1, <1>2, <1>3 DEF CanonicalQuery

\* A signature says which secret made it, and of which request.
LEMMA SignatureInjective ==
    ASSUME NEW p, NEW q, NEW e, NEW f, NEW s, NEW t, Signature(p, e, s) = Signature(q, f, t)
    PROVE  /\ s = t /\ p.date = q.date
           /\ p.op = q.op /\ p.bucket = q.bucket /\ PayloadHash(p) = PayloadHash(q)
           /\ CanonicalQuery(p, e) = CanonicalQuery(q, f)
<1>1. s = t /\ p.date = q.date /\ CanonicalRequest(p, e) = CanonicalRequest(q, f)
  BY DEF Signature
<1> QED
  BY <1>1 DEF CanonicalRequest

\* Who is let in signed what it asks for.
LEMMA LetInIsJust ==
    ASSUME IInv, NEW r \in Request, Authenticate(r), user'[r] # user[r], Ascii(Wire[wire[r]].sent)
    PROVE  LetIn(r)
<1> DEFINE w == Wire[wire[r]]
           q == w.got
           secret == Key[q.key].secret
<1>1. /\ wire[r] \in DOMAIN Wire /\ Extracted(q) /\ PayloadVerdict(q) = "ok"
      /\ q.prefix \in Seq(0..255) /\ w.sent.prefix \in Seq(0..255)
      /\ q.date \in Int /\ q.expires \in Int
      /\ clock \in Int
  <2>1. wire[r] \in DOMAIN Wire /\ Extracted(q) /\ PayloadVerdict(q) = "ok" /\ clock \in Int
    BY BoundAssumption DEF Authenticate, IInv, Local, Got, TypeOK
  <2>2. q.date # None
    BY <2>1 DEF Extracted
  <2> QED
    BY <2>1, <2>2, WireAssumption
<1>2. AuthVerdict(q) = "ok"
  BY DEF Authenticate, Got
<1>3. /\ q.key \in DOMAIN Key /\ User[Key[q.key].user_id].is_enabled
      /\ VerifyVerdict(q, secret, clock) = "ok"
  BY <1>2 DEF AuthVerdict, AccountVerdict
<1>4. user'[r] = Key[q.key].user_id
  BY <1>2 DEF Authenticate, Got, IInv, TypeOK
<1>5. TimeVerdict(q, clock) = "ok" /\ q.signature = Signature(q, uri_encode(q.prefix), secret)
  BY <1>3 DEF VerifyVerdict
<1>6. q.signature = Signature(w.sent, uri_encode(w.sent.prefix), w.secret)
  BY <1>1, SignedAssumption
<1>7. /\ secret = w.secret /\ q.date = w.sent.date
      /\ q.op = w.sent.op /\ q.bucket = w.sent.bucket /\ PayloadHash(q) = PayloadHash(w.sent)
      /\ CanonicalQuery(w.sent, uri_encode(w.sent.prefix)) = CanonicalQuery(q, uri_encode(q.prefix))
  <2>1. Signature(q, uri_encode(q.prefix), secret) = Signature(w.sent, uri_encode(w.sent.prefix), w.secret)
    BY <1>5, <1>6
  <2> HIDE DEF w, q, secret
  <2> QED
    BY <2>1, SignatureInjective
<1>8. /\ uri_encode(w.sent.prefix) = uri_encode(q.prefix) /\ q.max = w.sent.max
      /\ w.sent.source = "query" => q.source = "query" /\ w.sent.expires = q.expires
  BY <1>7, QueryInjective
<1>9. Asked(q) = Asked(w.sent)
  BY <1>1, <1>7, <1>8, EncodeInjective DEF Asked
<1>10. q.body # w.sent.body => w.sent.hash \notin Digest \cup {None}
  <2> SUFFICES ASSUME w.sent.hash \in Digest \cup {None} PROVE q.body = w.sent.body
    OBVIOUS
  <2>1. PayloadHash(w.sent) = w.sent.body /\ w.sent.body \in Digest
    BY <1>1, SignedAssumption DEF PayloadHash
  <2> QED
    BY <2>1, <1>1, <1>7 DEF PayloadHash, PayloadVerdict
<1>11. clock - q.date \in -MaxSkew..MaxSkew
  BY <1>1, <1>5, SkewAssumption DEF TimeVerdict
<1>12. q.source = "query" => clock - q.date \in 0..q.expires
  BY <1>1, <1>5, SkewAssumption DEF TimeVerdict
<1>13. user'[r] = w.by
  BY <1>1, <1>3, <1>4, <1>7, SignedAssumption
<1> QED
  BY <1>3, <1>4, <1>7, <1>8, <1>9, <1>10, <1>11, <1>12, <1>13 DEF LetIn

\* Whoever signed with the secret of its key what arrived is not told otherwise.
LEMMA IntactMatches ==
    ASSUME NEW w \in DOMAIN Wire, Intact(Wire[w]), Ascii(Wire[w].sent)
    PROVE  /\ PayloadVerdict(Wire[w].got) # "SignatureDoesNotMatch"
           /\ AuthVerdict(Wire[w].got) # "SignatureDoesNotMatch"
<1>1. PayloadVerdict(Wire[w].got) # "SignatureDoesNotMatch"
  BY SignedAssumption DEF Intact, PayloadVerdict
<1>2. Wire[w].got.signature =
        Signature(Wire[w].got, uri_encode(Wire[w].got.prefix), Key[Wire[w].got.key].secret)
  BY SignedAssumption DEF Intact
<1>3. VerifyVerdict(Wire[w].got, Key[Wire[w].got.key].secret, clock) # "SignatureDoesNotMatch"
  BY <1>2 DEF VerifyVerdict, TimeVerdict
<1> QED
  BY <1>1, <1>3 DEF AuthVerdict, AccountVerdict

\* The part of VerdictIsJust about one request.
Just(r) ==
    /\ user[r] # user'[r] /\ Ascii(Wire[wire[r]].sent) => LetIn(r)
    /\ answer[r] # answer'[r] /\ answer'[r] = "SignatureDoesNotMatch" =>
         LET w == Wire[wire[r]] IN ~ (Intact(w) /\ Ascii(w.sent))

\* Nobody else decides: neither lets in nor speaks of signatures.
LEMMA OthersAreSilent ==
    ASSUME IInv, NEW r \in Request, NEW s \in Request,
           \/ Receive(s) \/ Disconnect(s) \/ QueryRaises(s) \/ CallRaises(s)
           \/ LockBucket(s) \/ CheckRow(s) \/ CheckDirectory(s) \/ Insert(s)
           \/ MakeDirectory(s) \/ FsyncParent(s) \/ Commit(s) \/ Unlock(s)
           \/ Rollback(s) \/ RemoveDirectory(s)
           \/ ListBuckets(s) \/ ReadBucket(s) \/ Emit(s) \/ Reply(s)
    PROVE  user' = user /\ (answer'[r] = answer[r] \/ answer'[r] # "SignatureDoesNotMatch")
<1>1. \A what : Finish(s, what) /\ what # "SignatureDoesNotMatch" =>
        answer'[r] = answer[r] \/ answer'[r] # "SignatureDoesNotMatch"
  BY DEF IInv, TypeOK, Finish
<1>2. CASE Receive(s) \/ Disconnect(s) \/ QueryRaises(s) \/ RemoveDirectory(s) \/ Reply(s)
  BY <1>1, <1>2 DEF Receive, Disconnect, QueryRaises, RemoveDirectory, Reply, locals
<1>3. CASE CheckRow(s) \/ CheckDirectory(s)
  BY <1>1, <1>3 DEF CheckRow, CheckDirectory, Go, locals
<1>4. CASE ListBuckets(s) \/ ReadBucket(s)
  BY <1>1, <1>4 DEF ListBuckets, ReadBucket, bucket_get, bucket_versioning_retrieve,
         bucket_object_lock_retrieve, Shows, Refuses
<1>5. CASE \/ CallRaises(s) \/ LockBucket(s) \/ Insert(s) \/ MakeDirectory(s) \/ FsyncParent(s)
           \/ Commit(s) \/ Unlock(s) \/ Rollback(s) \/ Emit(s)
  BY <1>5 DEF CallRaises, LockBucket, Insert, MakeDirectory, FsyncParent, Commit, Unlock,
     Rollback, Emit, locals
<1> QED
  BY <1>2, <1>3, <1>4, <1>5

LEMMA StepIsJust ==
    ASSUME IInv, Next, NEW r \in Request
    PROVE  Just(r)
<1>1. ASSUME NEW s \in Request, ResolvePayload(s) PROVE Just(r)
  <2>1. /\ user' = user /\ wire[s] \in DOMAIN Wire
        /\ answer'[r] = answer[r] \/ (s = r /\ answer'[r] = PayloadVerdict(Got(s)))
    BY <1>1 DEF ResolvePayload, Go, Finish, IInv, TypeOK, Local, locals
  <2> QED
    BY <2>1, IntactMatches DEF Just, Got
<1>2. ASSUME NEW s \in Request, Authenticate(s) PROVE Just(r)
  <2>1. /\ wire[s] \in DOMAIN Wire /\ (user'[r] # user[r] => s = r)
        /\ \/ answer'[r] = answer[r] \/ answer'[r] = "InvalidBucketName"
           \/ s = r /\ answer'[r] = AuthVerdict(Got(s))
    BY <1>2 DEF Authenticate, Go, Finish, IInv, TypeOK, Local
  <2>2. user'[r] # user[r] /\ Ascii(Wire[wire[r]].sent) => LetIn(r)
    BY <1>2, <2>1, LetInIsJust
  <2> QED
    BY <2>1, <2>2, IntactMatches DEF Just, Got
<1>3. ASSUME NEW s \in Request,
             Receive(s) \/ Disconnect(s) \/ QueryRaises(s) \/ CallRaises(s) \/ Advance(s)
      PROVE  Just(r)
  BY <1>1, <1>2, <1>3, OthersAreSilent DEF Advance, Just
<1>4. CASE Tick
  BY <1>4 DEF Tick, locals, Just
<1>5. CASE Crash
  BY <1>5 DEF Crash, locals, Just, IInv, TypeOK
<1> QED
  BY <1>3, <1>4, <1>5 DEF Next

\* Authentication is just (require_auth, verify_sigv4): who is let in signed what it
\* asks for, in time, and who did so is not turned away for its signature.
THEOREM VerdictsAreJust == Spec => VerdictIsJust
<1>1. IInv /\ [Next]_vars => [\A r \in Request : Just(r)]_vars
  BY StepIsJust
<1>2. Spec => [][\A r \in Request : Just(r)]_vars
  BY <1>1, Invariant, PTL DEF Spec
<1>3. [][\A r \in Request : Just(r)]_vars => VerdictIsJust
  BY DEF VerdictIsJust, Just
<1> QED
  BY <1>2, <1>3

------------------------------------------------------------------------------
(* The order of texts.                                                      *)

Text == Seq(Nat)

\* The i-th character is the first that tells a from b, and a comes first.
FirstDifference(a, b, i) ==
    /\ i \in Nat \ {0} /\ i <= Len(a) + 1 /\ i <= Len(b)
    /\ i = Len(a) + 1 \/ a[i] < b[i]
    /\ \A j \in 1..(i - 1) : a[j] = b[j]

LEMMA BeforeIs ==
    ASSUME NEW a \in Text, NEW b \in Text
    PROVE  TextBefore(a, b) <=> \E i : FirstDifference(a, b, i)
<1>1. /\ Len(a) \in Nat /\ Len(b) \in Nat /\ DOMAIN a = 1..Len(a) /\ DOMAIN b = 1..Len(b)
      /\ a \in [1..Len(a) -> Nat] /\ b \in [1..Len(b) -> Nat]
  BY LenProperties DEF Text
<1>2. ASSUME IsStrictPrefix(a, b) PROVE FirstDifference(a, b, Len(a) + 1)
  <2>1. Len(a) <= Len(b) /\ SubSeq(a, 1, Len(a)) = SubSeq(b, 1, Len(a)) /\ a # b
    BY <1>2 DEF IsStrictPrefix, IsPrefix
  <2>2. \A j \in 1..Len(a) : a[j] = b[j]
    <3>1. /\ \A j \in 1..Len(a) : SubSeq(a, 1, Len(a))[j] = a[j]
          /\ \A j \in 1..Len(a) : SubSeq(b, 1, Len(a))[j] = b[j]
      BY <1>1, <2>1
    <3> QED
      BY <2>1, <3>1
  <2>3. Len(a) # Len(b)
    BY <1>1, <2>1, <2>2, SeqEqual DEF Text
  <2>4. Len(a) + 1 \in Nat \ {0} /\ Len(a) + 1 <= Len(b) /\ (Len(a) + 1) - 1 = Len(a)
    <3>1. Len(a) \in Nat /\ Len(b) \in Nat /\ Len(a) <= Len(b) /\ Len(a) # Len(b)
      BY <1>1, <2>1, <2>3
    <3> QED
      BY <3>1
  <2> QED
    BY <2>2, <2>4 DEF FirstDifference
<1>3. ASSUME NEW i, FirstDifference(a, b, i) PROVE TextBefore(a, b)
  <2>1. CASE i = Len(a) + 1
    <3>1. Len(a) < Len(b) /\ \A j \in 1..Len(a) : a[j] = b[j]
      BY <1>1, <1>3, <2>1 DEF FirstDifference
    <3>2. SubSeq(a, 1, Len(a)) = SubSeq(b, 1, Len(a))
      <4>1. /\ \A j \in 1..Len(a) : a[j] \in Nat
            /\ \A j \in 1..Len(a) : b[j] \in Nat
        BY <1>1, <3>1
      <4>2. /\ SubSeq(a, 1, Len(a)) \in Seq(Nat) /\ Len(SubSeq(a, 1, Len(a))) = Len(a)
            /\ \A j \in 1..Len(a) : SubSeq(a, 1, Len(a))[j] = a[j]
        BY <1>1, <4>1, SubSeqProperties
      <4>3. /\ SubSeq(b, 1, Len(a)) \in Seq(Nat) /\ Len(SubSeq(b, 1, Len(a))) = Len(a)
            /\ \A j \in 1..Len(a) : SubSeq(b, 1, Len(a))[j] = b[j]
        BY <1>1, <4>1, SubSeqProperties
      <4> QED
        BY <3>1, <4>2, <4>3, SeqEqual
    <3> QED
      BY <1>1, <3>1, <3>2 DEF TextBefore, IsStrictPrefix, IsPrefix
  <2>2. CASE i # Len(a) + 1
    <3>1. i \in DOMAIN a \cap DOMAIN b /\ a[i] < b[i] /\ \A j \in 1..(i - 1) : a[j] = b[j]
      BY <1>1, <1>3, <2>2 DEF FirstDifference
    <3> QED
      BY <3>1 DEF TextBefore
  <2> QED
    BY <2>1, <2>2
<1>4. ASSUME NEW i \in DOMAIN a \cap DOMAIN b, a[i] < b[i], \A j \in 1..(i - 1) : a[j] = b[j]
      PROVE  FirstDifference(a, b, i)
  BY <1>1, <1>4 DEF FirstDifference
<1> QED
  BY <1>2, <1>3, <1>4 DEF TextBefore

\* Texts are in a strict total order.
LEMMA BeforeIrreflexive == ASSUME NEW a \in Text PROVE ~ TextBefore(a, a)
<1>1. ASSUME NEW i, FirstDifference(a, a, i) PROVE FALSE
  <2>1. Len(a) \in Nat /\ a \in [1..Len(a) -> Nat]
    BY LenProperties DEF Text
  <2>2. i \in 1..Len(a) /\ a[i] < a[i]
    BY <1>1, <2>1 DEF FirstDifference
  <2> QED
    BY <2>1, <2>2
<1> QED
  BY <1>1, BeforeIs

LEMMA BeforeTransitive ==
    ASSUME NEW a \in Text, NEW b \in Text, NEW c \in Text, TextBefore(a, b), TextBefore(b, c)
    PROVE  TextBefore(a, c)
<1>1. /\ Len(a) \in Nat /\ Len(b) \in Nat /\ Len(c) \in Nat
      /\ \A i \in 1..Len(a) : a[i] \in Nat
      /\ \A i \in 1..Len(b) : b[i] \in Nat
      /\ \A i \in 1..Len(c) : c[i] \in Nat
  BY LenProperties, ElementOfSeq DEF Text
<1>2. PICK i : FirstDifference(a, b, i)
  BY BeforeIs
<1>3. PICK k : FirstDifference(b, c, k)
  BY BeforeIs
<1> USE DEF FirstDifference
<1>4. CASE i < k
  <2>1. /\ i \in Nat \ {0} /\ i <= Len(a) + 1 /\ i <= Len(c) /\ i <= Len(b)
        /\ b[i] = c[i] /\ (i = Len(a) + 1 \/ a[i] < b[i])
    BY <1>1, <1>2, <1>3, <1>4
  <2>2. \A j \in 1..(i - 1) : a[j] = c[j]
    <3>1. \A j \in 1..(i - 1) : j \in 1..(k - 1)
      BY <1>2, <1>3, <1>4
    <3> QED
      BY <1>2, <1>3, <3>1
  <2> QED
    BY <2>1, <2>2, BeforeIs
<1>5. CASE i = k
  <2>1. /\ i \in Nat \ {0} /\ i <= Len(a) + 1 /\ i <= Len(c) /\ i <= Len(b) /\ b[i] < c[i]
        /\ (i = Len(a) + 1 \/ a[i] < b[i])
    BY <1>1, <1>2, <1>3, <1>5
  <2>2. i = Len(a) + 1 \/ a[i] < c[i]
    <3>1. i # Len(a) + 1 => i \in 1..Len(a) /\ i \in 1..Len(b) /\ i \in 1..Len(c)
      BY <1>1, <2>1
    <3> QED
      BY <1>1, <2>1, <3>1
  <2>3. \A j \in 1..(i - 1) : a[j] = c[j]
    BY <1>2, <1>3, <1>5
  <2> QED
    BY <2>1, <2>2, <2>3, BeforeIs
<1>6. CASE k < i
  <2>1. /\ k \in Nat \ {0} /\ k <= Len(a) + 1 /\ k <= Len(c) /\ b[k] < c[k] /\ a[k] = b[k]
    BY <1>1, <1>2, <1>3, <1>6
  <2>2. \A j \in 1..(k - 1) : a[j] = c[j]
    <3>1. \A j \in 1..(k - 1) : j \in 1..(i - 1)
      BY <1>2, <1>3, <1>6
    <3> QED
      BY <1>2, <1>3, <3>1
  <2> QED
    BY <2>1, <2>2, BeforeIs
<1> QED
  BY <1>2, <1>3, <1>4, <1>5, <1>6

LEMMA BeforeTotal ==
    ASSUME NEW a \in Text, NEW b \in Text, a # b
    PROVE  TextBefore(a, b) \/ TextBefore(b, a)
<1> DEFINE D == {i \in Nat \ {0} : i > Len(a) \/ i > Len(b) \/ a[i] # b[i]}
<1>1. /\ Len(a) \in Nat /\ Len(b) \in Nat
      /\ \A i \in 1..Len(a) : a[i] \in Nat
      /\ \A i \in 1..Len(b) : b[i] \in Nat
  BY LenProperties, ElementOfSeq DEF Text
<1>2. PICK i \in D : \A j \in D : i <= j
  <2>1. D \in SUBSET Nat /\ Len(a) + 1 \in D
    BY <1>1
  <2> QED
    BY <2>1, LeastNatural
<1>3. i \in Nat \ {0} /\ i <= Len(a) + 1 /\ i <= Len(b) + 1
  <2>1. Len(a) + 1 \in D /\ Len(b) + 1 \in D
    BY <1>1
  <2> QED
    BY <1>2, <2>1
<1>4. \A j \in 1..(i - 1) : a[j] = b[j] /\ j <= Len(a) /\ j <= Len(b)
  <2>1. \A j \in 1..(i - 1) : j \in Nat \ {0} /\ j \notin D
    BY <1>2, <1>3
  <2> QED
    BY <1>1, <2>1
<1>5. ~ (i = Len(a) + 1 /\ i = Len(b) + 1)
  <2> SUFFICES ASSUME i = Len(a) + 1, i = Len(b) + 1 PROVE FALSE
    OBVIOUS
  <2>1. Len(a) = Len(b) /\ \A j \in 1..Len(a) : a[j] = b[j]
    BY <1>1, <1>4
  <2> QED
    BY <2>1, SeqEqual DEF Text
<1>6. CASE i = Len(a) + 1
  <2>1. FirstDifference(a, b, i)
    BY <1>1, <1>3, <1>4, <1>5, <1>6 DEF FirstDifference
  <2> QED
    BY <2>1, BeforeIs
<1>7. CASE i = Len(b) + 1
  <2>1. FirstDifference(b, a, i)
    BY <1>1, <1>3, <1>4, <1>5, <1>7 DEF FirstDifference
  <2> QED
    BY <2>1, BeforeIs
<1>8. CASE i # Len(a) + 1 /\ i # Len(b) + 1
  <2>1. i \in 1..Len(a) /\ i \in 1..Len(b) /\ a[i] # b[i]
    BY <1>1, <1>2, <1>3, <1>8
  <2>2. a[i] < b[i] \/ b[i] < a[i]
    BY <1>1, <2>1
  <2>3. FirstDifference(a, b, i) \/ FirstDifference(b, a, i)
    BY <1>1, <1>3, <1>4, <2>1, <2>2 DEF FirstDifference
  <2> QED
    BY <2>3, BeforeIs
<1> QED
  BY <1>6, <1>7, <1>8

------------------------------------------------------------------------------
(* The rows of a query, in order.                                           *)

\* How many of the rows come before one.
Rank(S, c, a) == Cardinality({r \in S : TextBefore(r[c], a[c])})

\* The column tells the rows apart.
Apart(S, c) == (\A a \in S : a[c] \in Text) /\ (\A a, b \in S : a[c] = b[c] => a = b)

LEMMA RankBounds ==
    ASSUME NEW S, IsFiniteSet(S), NEW c, Apart(S, c), NEW a \in S
    PROVE  Rank(S, c, a) \in 0..(Cardinality(S) - 1)
<1> DEFINE before == {r \in S : TextBefore(r[c], a[c])}
<1>1. before \subseteq S \ {a}
  BY BeforeIrreflexive DEF Apart
<1>2. IsFiniteSet(S \ {a}) /\ Cardinality(S \ {a}) = Cardinality(S) - 1
  BY FS_RemoveElement
<1>3. Cardinality(before) \in Nat /\ Cardinality(before) <= Cardinality(S) - 1
  <2> HIDE DEF before
  <2> QED
    BY <1>1, <1>2, FS_Subset, FS_CardinalityType
<1>4. Cardinality(S) \in Nat
  BY FS_CardinalityType
<1> QED
  BY <1>3, <1>4 DEF Rank

LEMMA RankMonotone ==
    ASSUME NEW S, IsFiniteSet(S), NEW c, Apart(S, c), NEW a \in S, NEW b \in S,
           TextBefore(a[c], b[c])
    PROVE  Rank(S, c, a) < Rank(S, c, b)
<1> DEFINE A == {r \in S : TextBefore(r[c], a[c])}
           B == {r \in S : TextBefore(r[c], b[c])}
<1>1. A \subseteq B
  BY BeforeTransitive DEF Apart
<1>2. a \in B /\ a \notin A
  BY BeforeIrreflexive DEF Apart
<1>3. B \in SUBSET S
  OBVIOUS
<1>4. IsFiniteSet(B) /\ Rank(S, c, a) = Cardinality(A) /\ Rank(S, c, b) = Cardinality(B)
  BY <1>3, FS_Subset DEF Rank
<1> HIDE DEF A, B
<1>5. IsFiniteSet(A) /\ Cardinality(A) <= Cardinality(B) /\ Cardinality(A) # Cardinality(B)
  BY <1>1, <1>2, <1>4, FS_Subset
<1> QED
  BY <1>4, <1>5, FS_CardinalityType

\* Every place is taken by one row.
LEMMA RankTaken ==
    ASSUME NEW S, IsFiniteSet(S), NEW c, Apart(S, c), NEW n \in 0..(Cardinality(S) - 1)
    PROVE  \E a \in S : Rank(S, c, a) = n /\ \A b \in S : Rank(S, c, b) = n => b = a
<1> DEFINE T == 0..(Cardinality(S) - 1)
           f == [a \in S |-> Rank(S, c, a)]
<1>1. Cardinality(S) \in Nat
  BY FS_CardinalityType
<1>2. IsFiniteSet(T) /\ Cardinality(T) = Cardinality(S)
  BY <1>1, FS_Interval
<1>3. \A a, b \in S : Rank(S, c, a) = Rank(S, c, b) => a = b
  <2> SUFFICES ASSUME NEW a \in S, NEW b \in S, Rank(S, c, a) = Rank(S, c, b), a # b PROVE FALSE
    OBVIOUS
  <2>1. TextBefore(a[c], b[c]) \/ TextBefore(b[c], a[c])
    BY BeforeTotal DEF Apart
  <2>2. Rank(S, c, a) < Rank(S, c, b) \/ Rank(S, c, b) < Rank(S, c, a)
    BY <2>1, RankMonotone
  <2>3. Rank(S, c, a) \in Int
    BY <1>1, RankBounds
  <2> QED
    BY <2>2, <2>3
<1>4. f \in [S -> T]
  BY RankBounds
<1>5. f \in Injection(S, T)
  BY <1>3, <1>4 DEF Injection, IsInjective
<1>6. f \in Surjection(S, T)
  <2> HIDE DEF f, T
  <2> QED
    BY <1>2, <1>5, FS_Injection
<1>7. \E a \in S : f[a] = n
  BY <1>6 DEF Surjection
<1> QED
  BY <1>3, <1>7


\* The rows of a query, and a column of them.
Found(table, filters) == {row \in table : Where(row, filters)}
TextsOf(found, c) == {row[c] : row \in found}

\* The texts are the first of K, in order, up to the limit.
FirstOf(texts, K, limit) ==
    /\ DOMAIN texts = 1..Len(texts)
    /\ ToSet(texts) \subseteq K /\ (limit = Null => ToSet(texts) = K)
    /\ limit # Null => Len(texts) <= limit /\ (ToSet(texts) = K \/ Len(texts) = limit)
    /\ \A i, j \in DOMAIN texts : i < j => TextBefore(texts[i], texts[j])
    /\ \A k \in K \ ToSet(texts), i \in DOMAIN texts : TextBefore(texts[i], k)

\* What select_all returns, seen in the column it is ordered by.
LEMMA SelectAllOrdered ==
    ASSUME NEW table, NEW filters, NEW c, NEW limit \in Nat \cup {Null},
           IsFiniteSet(Found(table, filters)), Apart(Found(table, filters), c)
    PROVE  FirstOf(Column(SelectAll(table, filters, c, limit), c),
                   TextsOf(Found(table, filters), c), limit)
<1> DEFINE S == Found(table, filters)
           K == TextsOf(S, c)
           n == Cardinality(S)
           ordered == [i \in 1..n |-> CHOOSE row \in S : Rank(S, c, row) = i - 1]
           m == IF limit = Null \/ limit >= n THEN n ELSE limit
           texts == Column(SelectAll(table, filters, c, limit), c)
<1>1. IsFiniteSet(S) /\ Apart(S, c) /\ n \in Nat
  BY FS_CardinalityType
<1>2. SelectAll(table, filters, c, limit) =
        IF limit = Null \/ limit >= Len(ordered) THEN ordered ELSE SubSeq(ordered, 1, limit)
  BY DEF SelectAll, Rank, Found
<1> HIDE DEF S
<1>3. ASSUME NEW i \in 1..n PROVE ordered[i] \in S /\ Rank(S, c, ordered[i]) = i - 1
  <2>1. i - 1 \in 0..(Cardinality(S) - 1)
    BY <1>1
  <2>2. \E row \in S : Rank(S, c, row) = i - 1
    BY <1>1, <2>1, RankTaken
  <2> QED
    BY <2>2
<1>4. ASSUME NEW a \in S PROVE Rank(S, c, a) + 1 \in 1..n /\ ordered[Rank(S, c, a) + 1] = a
  <2>1. Rank(S, c, a) \in 0..(n - 1)
    BY <1>1, RankBounds
  <2>2. Rank(S, c, a) + 1 \in 1..n /\ (Rank(S, c, a) + 1) - 1 = Rank(S, c, a)
    BY <1>1, <2>1
  <2>3. PICK b \in S : Rank(S, c, b) = Rank(S, c, a) /\ \A d \in S : Rank(S, c, d) = Rank(S, c, a) => d = b
    BY <1>1, <2>1, RankTaken
  <2>4. ordered[Rank(S, c, a) + 1] \in S /\ Rank(S, c, ordered[Rank(S, c, a) + 1]) = Rank(S, c, a)
    BY <1>3, <2>2
  <2> QED
    BY <2>2, <2>3, <2>4
<1>5. ordered \in Seq(S) /\ Len(ordered) = n
  BY <1>1, <1>3
<1> HIDE DEF ordered
<1>6. m \in Nat /\ m <= n /\ (limit = Null => m = n)
  BY <1>1, TableAssumption
<1>7. DOMAIN texts = 1..m /\ \A i \in 1..m : texts[i] = ordered[i][c]
  <2>1. CASE limit = Null \/ limit >= n
    <3>1. SelectAll(table, filters, c, limit) = ordered
      BY <1>2, <1>5, <2>1
    <3>2. DOMAIN ordered = 1..n
      BY <1>5, LenProperties
    <3> QED
      BY <2>1, <3>1, <3>2 DEF Column
  <2>2. CASE ~ (limit = Null \/ limit >= n)
    <3>1. SelectAll(table, filters, c, limit) = SubSeq(ordered, 1, limit)
      BY <1>2, <1>5, <2>2
    <3>2. limit \in Nat /\ limit < n
      BY <1>1, <2>2
    <3>3. \A i \in 1..limit : ordered[i] \in S
      BY <1>1, <1>3, <3>2
    <3>4. /\ SubSeq(ordered, 1, limit) \in Seq(S) /\ Len(SubSeq(ordered, 1, limit)) = limit
          /\ \A i \in 1..limit : SubSeq(ordered, 1, limit)[i] = ordered[i]
      BY <3>2, <3>3, SubSeqProperties
    <3>5. DOMAIN SubSeq(ordered, 1, limit) = 1..limit
      BY <3>4, LenProperties
    <3> QED
      BY <2>2, <3>1, <3>4, <3>5 DEF Column
  <2> QED
    BY <2>1, <2>2
<1>8. Len(texts) = m
  <2>1. texts = [i \in 1..m |-> texts[i]]
    BY <1>7 DEF Column
  <2> QED
    BY <1>6, <2>1
<1> HIDE DEF texts, m
<1>10. ASSUME NEW i \in 1..n, NEW j \in 1..n, i < j
       PROVE  TextBefore(ordered[i][c], ordered[j][c])
  <2>1. /\ ordered[i] \in S /\ ordered[j] \in S
        /\ Rank(S, c, ordered[i]) = i - 1 /\ Rank(S, c, ordered[j]) = j - 1
    BY <1>3
  <2>2. ordered[i][c] # ordered[j][c]
    BY <1>1, <1>10, <2>1 DEF Apart
  <2>3. ~ TextBefore(ordered[j][c], ordered[i][c])
    <3> SUFFICES ASSUME TextBefore(ordered[j][c], ordered[i][c]) PROVE FALSE
      OBVIOUS
    <3>1. Rank(S, c, ordered[j]) < Rank(S, c, ordered[i])
      BY <1>1, <2>1, RankMonotone
    <3> QED
      BY <1>10, <2>1, <3>1
  <2> QED
    BY <1>1, <2>1, <2>2, <2>3, BeforeTotal DEF Apart
<1>11. ToSet(texts) = {ordered[i][c] : i \in 1..m}
  BY <1>7 DEF ToSet
<1>12. ToSet(texts) \subseteq K
  BY <1>1, <1>3, <1>6, <1>11 DEF TextsOf
<1>13. ASSUME NEW a \in S, a[c] \notin ToSet(texts)
       PROVE  Rank(S, c, a) + 1 \in 1..n /\ Rank(S, c, a) + 1 > m
  BY <1>1, <1>4, <1>6, <1>11, <1>13
<1>14. limit = Null => ToSet(texts) = K
  <2> SUFFICES ASSUME limit = Null, NEW a \in S PROVE a[c] \in ToSet(texts)
    BY <1>12 DEF TextsOf
  <2> QED
    BY <1>1, <1>6, <1>13
<1>15. ASSUME NEW k \in K \ ToSet(texts), NEW i \in DOMAIN texts PROVE TextBefore(texts[i], k)
  <2>1. PICK a \in S : k = a[c]
    BY DEF TextsOf
  <2>2. /\ Rank(S, c, a) + 1 \in 1..n /\ i \in 1..n /\ i < Rank(S, c, a) + 1
        /\ ordered[Rank(S, c, a) + 1] = a /\ texts[i] = ordered[i][c]
    BY <1>1, <1>4, <1>6, <1>7, <1>13, <2>1
  <2> QED
    BY <1>10, <2>1, <2>2
<1>16. \A i, j \in DOMAIN texts : i < j => TextBefore(texts[i], texts[j])
  BY <1>1, <1>6, <1>7, <1>10
<1>17. limit # Null => Len(texts) <= limit /\ (ToSet(texts) = K \/ Len(texts) = limit)
  <2>1. CASE m = n
    <3>1. ToSet(texts) = K
      <4> SUFFICES ASSUME NEW a \in S PROVE a[c] \in ToSet(texts)
        BY <1>12 DEF TextsOf
      <4> QED
        BY <1>1, <1>13, <2>1
    <3> QED
      BY <1>1, <1>8, <2>1, <3>1 DEF m
  <2>2. CASE m # n
    BY <1>1, <1>8, <2>2 DEF m
  <2> QED
    BY <2>1, <2>2
<1> QED
  BY <1>7, <1>8, <1>12, <1>14, <1>15, <1>16, <1>17 DEF texts, S, FirstOf

\* Filters hold together; what one asks for.
LEMMA WhereBoth ==
    ASSUME NEW row, NEW A, NEW B
    PROVE  Where(row, A \cup B) <=> Where(row, A) /\ Where(row, B)
BY DEF Where

LEMMA WhereOne ==
    ASSUME NEW row, NEW c, NEW v
    PROVE  /\ Where(row, {})
           /\ Where(row, {[column |-> c, operator |-> "eq", value |-> v]}) <=> row[c] = v
           /\ Where(row, {[column |-> c, operator |-> "like", value |-> v]}) <=> Like(row[c], v)
BY DEF Where

------------------------------------------------------------------------------
(* Prefixes.                                                                *)

\* No character of the prefix is one that the pattern takes for another.
Literal(prefix) == ToSet(prefix) \cap Wildcard = {}

\* The text begins with the prefix, up to case.
Begins(text, prefix) ==
    Len(prefix) <= Len(text) /\ \A i \in DOMAIN prefix : Folded(text[i]) = Folded(prefix[i])

\* The text begins with the first j characters of the prefix, up to case.
Starts(text, prefix, j) ==
    j <= Len(text) /\ \A k \in 1..j : Folded(text[k]) = Folded(prefix[k])

\* What Like computes.
Reaches(f, text, pattern) ==
    f = [j \in 0..Len(pattern) |->
            IF j = 0 THEN {0}
            ELSE IF pattern[j] = Percent
              THEN {i \in 0..Len(text) : \E k \in f[j - 1] : k <= i}
            ELSE {i \in 1..Len(text) :
                    /\ i - 1 \in f[j - 1]
                    /\ pattern[j] = Underscore \/ Folded(pattern[j]) = Folded(text[i])}]

\* What that is for a prefix and any text after it.
PrefixReaches(text, prefix) ==
    [j \in 0..(Len(prefix) + 1) |->
        IF j = Len(prefix) + 1
          THEN {i \in 0..Len(text) : Len(prefix) <= i /\ Starts(text, prefix, Len(prefix))}
          ELSE {i \in {j} : Starts(text, prefix, j)}]

LEMMA EscapedIs ==
    ASSUME NEW prefix \in Seq(0..255), Literal(prefix)
    PROVE  Escaped(prefix) = prefix
<1>1. \A i \in DOMAIN prefix : prefix[i] \notin {Percent, Underscore, Backslash}
  BY DEF Literal, Wildcard, ToSet
<1>2. Escaped(prefix) = FlattenSeq([i \in DOMAIN prefix |-> <<prefix[i]>>])
  BY <1>1 DEF Escaped
<1> QED
  BY <1>2, FlattenSingles

LEMMA PrefixReachesFits ==
    ASSUME NEW text \in Text, NEW prefix \in Seq(0..255), Literal(prefix)
    PROVE  Reaches(PrefixReaches(text, prefix), text, prefix \o <<Percent>>)
<1> DEFINE n == Len(text)
           m == Len(prefix)
           pattern == prefix \o <<Percent>>
           f == PrefixReaches(text, prefix)
           E(j) == IF j = 0 THEN {0}
                   ELSE IF pattern[j] = Percent
                     THEN {i \in 0..Len(text) : \E k \in f[j - 1] : k <= i}
                   ELSE {i \in 1..Len(text) :
                    /\ i - 1 \in f[j - 1]
                    /\ pattern[j] = Underscore \/ Folded(pattern[j]) = Folded(text[i])}
<1>1. /\ n \in Nat /\ m \in Nat /\ Len(pattern) = m + 1
      /\ pattern[m + 1] = Percent
      /\ \A j \in 1..m : pattern[j] = prefix[j] /\ pattern[j] \notin {Percent, Underscore}
  <2>1. n \in Nat /\ m \in Nat /\ DOMAIN prefix = 1..m
    BY LenProperties DEF Text
  <2>2. /\ Len(pattern) = m + 1 /\ pattern[m + 1] = Percent
        /\ \A j \in 1..m : pattern[j] = prefix[j]
    BY <2>1
  <2>3. \A j \in 1..m : prefix[j] \in ToSet(prefix)
    BY <2>1 DEF ToSet
  <2> QED
    BY <2>1, <2>2, <2>3 DEF Literal, Wildcard
<1>2. ASSUME NEW j \in 0..m PROVE f[j] = {i \in {j} : Starts(text, prefix, j)}
  BY <1>1 DEF PrefixReaches
<1>3. f[m + 1] = {i \in 0..n : m <= i /\ Starts(text, prefix, m)}
  BY <1>1 DEF PrefixReaches
<1>4. f = [j \in 0..(m + 1) |-> f[j]]
  BY DEF PrefixReaches
<1> HIDE DEF f, pattern
<1>5. ASSUME NEW j \in 0..(m + 1) PROVE E(j) = f[j]
  <2>1. CASE j = 0
    <3>1. Starts(text, prefix, 0) /\ 0 \in 0..m
      BY <1>1 DEF Starts
    <3> QED
      BY <1>2, <2>1, <3>1
  <2>2. CASE j \in 1..m
    <3>1. /\ j # 0 /\ pattern[j] # Percent /\ pattern[j] # Underscore /\ pattern[j] = prefix[j]
          /\ j - 1 \in 0..m /\ j \in 0..m
      BY <1>1, <2>2
    <3>2. f[j - 1] = {i \in {j - 1} : Starts(text, prefix, j - 1)}
      BY <1>2, <3>1
    <3>3. f[j] = {i \in {j} : Starts(text, prefix, j)}
      BY <1>2, <3>1
    <3>4. Starts(text, prefix, j) <=>
            j <= n /\ Folded(prefix[j]) = Folded(text[j]) /\ Starts(text, prefix, j - 1)
      BY <1>1, <2>2 DEF Starts
    <3>5. \A i \in 1..n : i - 1 \in f[j - 1] <=> i = j /\ Starts(text, prefix, j - 1)
      BY <1>1, <2>2, <3>2
    <3>6. E(j) = {i \in 1..n : i - 1 \in f[j - 1] /\ Folded(prefix[j]) = Folded(text[i])}
      BY <3>1
    <3> QED
      BY <1>1, <2>2, <3>3, <3>4, <3>5, <3>6
  <2>3. CASE j = m + 1
    <3>1. E(j) = {i \in 0..n : \E k \in f[m] : k <= i}
      BY <1>1, <2>3
    <3>2. f[m] = {i \in {m} : Starts(text, prefix, m)}
      BY <1>1, <1>2
    <3>3. \A i \in 0..n : (\E k \in f[m] : k <= i) <=> m <= i /\ Starts(text, prefix, m)
      BY <3>2
    <3>4. E(j) = {i \in 0..n : m <= i /\ Starts(text, prefix, m)}
      BY <3>1, <3>3
    <3> QED
      BY <1>3, <2>3, <3>4
  <2> QED
    BY <1>1, <2>1, <2>2, <2>3
<1>6. f = [j \in 0..(m + 1) |-> E(j)]
  <2> HIDE DEF E
  <2> QED
    BY <1>4, <1>5
<1> QED
  BY <1>1, <1>6 DEF Reaches, f, pattern

\* There is nothing else that it could be.
LEMMA ReachesUnique ==
    ASSUME NEW text, NEW pattern, Len(pattern) \in Nat,
           NEW f, NEW g, Reaches(f, text, pattern), Reaches(g, text, pattern)
    PROVE  f[Len(pattern)] = g[Len(pattern)]
<1> DEFINE Bad == {j \in 0..Len(pattern) : f[j] # g[j]}
<1> SUFFICES ASSUME Bad # {} PROVE FALSE
  OBVIOUS
<1>1. PICK j \in Bad : \A l \in Bad : j <= l
  <2>1. Bad \in SUBSET Nat
    OBVIOUS
  <2> QED
    BY <2>1, LeastNatural
<1>2. j # 0 => f[j - 1] = g[j - 1]
  BY <1>1
<1>3. j \in 0..Len(pattern) /\ f[j] # g[j]
  OBVIOUS
<1>4. f[j] =
        IF j = 0 THEN {0}
        ELSE IF pattern[j] = Percent
          THEN {i \in 0..Len(text) : \E k \in f[j - 1] : k <= i}
        ELSE {i \in 1..Len(text) :
                /\ i - 1 \in f[j - 1]
                /\ pattern[j] = Underscore \/ Folded(pattern[j]) = Folded(text[i])}
  BY <1>3 DEF Reaches
<1>5. g[j] =
        IF j = 0 THEN {0}
        ELSE IF pattern[j] = Percent
          THEN {i \in 0..Len(text) : \E k \in g[j - 1] : k <= i}
        ELSE {i \in 1..Len(text) :
                /\ i - 1 \in g[j - 1]
                /\ pattern[j] = Underscore \/ Folded(pattern[j]) = Folded(text[i])}
  BY <1>3 DEF Reaches
<1> QED
  BY <1>2, <1>3, <1>4, <1>5

\* bucket_get's pattern of a prefix without wildcards finds the keys that begin with it.
LEMMA LikePrefix ==
    ASSUME NEW text \in Text, NEW prefix \in Seq(0..255), Literal(prefix)
    PROVE  Like(text, Escaped(prefix) \o <<Percent>>) <=> Begins(text, prefix)
<1> DEFINE pattern == prefix \o <<Percent>>
           f == CHOOSE f : Reaches(f, text, pattern)
           w == PrefixReaches(text, prefix)
<1>1. Len(text) \in Nat /\ Len(prefix) \in Nat /\ Len(pattern) = Len(prefix) + 1
  BY LenProperties DEF Text
<1>2. Reaches(w, text, pattern)
  BY PrefixReachesFits
<1>3. Reaches(f, text, pattern)
  BY <1>2
<1>4. Like(text, pattern) <=> Len(text) \in f[Len(pattern)]
  BY DEF Like, Reaches
<1>5. f[Len(pattern)] = w[Len(pattern)]
  <2> HIDE DEF f, w, pattern
  <2> QED
    BY <1>1, <1>2, <1>3, ReachesUnique
<1>6. w[Len(prefix) + 1] = {i \in 0..Len(text) : Len(prefix) <= i /\ Starts(text, prefix, Len(prefix))}
  BY <1>1 DEF PrefixReaches
<1>7. DOMAIN prefix = 1..Len(prefix)
  BY LenProperties
<1>8. Like(text, pattern) <=> Len(prefix) <= Len(text) /\ Starts(text, prefix, Len(prefix))
  <2> HIDE DEF f, w, pattern
  <2> QED
    BY <1>1, <1>4, <1>5, <1>6
<1>9. Escaped(prefix) = prefix
  BY EscapedIs
<1> QED
  BY <1>7, <1>8, <1>9 DEF Begins, Starts

------------------------------------------------------------------------------
(* Listings.                                                                *)

BucketNames == {b.bucket_name : b \in rows}

\* The names a list is to show.
Mine(r) == {b.bucket_name : b \in {c \in rows : Allowed(r, c)}}

\* The keys that begin with the prefix up to case.
Alike(r) ==
    {o.object_key : o \in {p \in Object : /\ p.bucket_name = Bucket(r) /\ ~ p.delete_marker
                                          /\ Begins(p.object_key, Got(r).prefix)}}

\* The parts of ListingIsExact.
ListIsExact(r) == Mine(r) \cap known[r] \subseteq ToSet(shown[r]) /\ ToSet(shown[r]) \subseteq Mine(r)

GetIsExact(r) ==
    /\ Len(shown[r]) <= Got(r).max
    /\ PrefixHasNo(Wildcard, r) => \A k \in Wanted(r) \ ToSet(shown[r]) :
         /\ Len(shown[r]) = Got(r).max
         /\ \A i \in DOMAIN shown[r] : TextBefore(shown[r][i], k)
    /\ PrefixHasNo(Wildcard \cup Letter, r) => ToSet(shown[r]) \subseteq Wanted(r)

InOrder(r) == \A i, j \in DOMAIN shown[r] : i < j => TextBefore(shown[r][i], shown[r][j])

Exact(r) ==
    /\ Got(r).op = "list" => ListIsExact(r)
    /\ Got(r).op = "get" => GetIsExact(r)
    /\ Got(r).op \in {"list", "get"} => InOrder(r)

\* A request has seen no bucket that is gone, and what it is about to show is exact.
Listing(r) ==
    /\ pc[r] \notin {"idle", "done"} => known[r] \subseteq BucketNames
    /\ pc[r] = "emit" => Exact(r)

ListInv == IsFiniteSet(rows) /\ DOMAIN shown = Request /\ \A r \in Request : Listing(r)

\* A character that is no letter is the only one that folds to it.
LEMMA FoldedAlone ==
    ASSUME NEW a \in 0..255, NEW b \in Nat, a \notin Letter, Folded(b) = Folded(a)
    PROVE  a = b
<1>1. a \notin 65..90 /\ a \notin 97..122 /\ a \in Int
  BY DEF Letter
<1>2. Folded(a) = a
  BY <1>1 DEF Folded
<1>3. CASE b \in 65..90
  <2>1. Folded(b) = b + 32
    BY <1>3 DEF Folded
  <2>2. a = b + 32
    BY <2>1, <1>2
  <2> QED
    BY <2>2, <1>1, <1>3
<1>4. CASE b \notin 65..90
  BY <1>2, <1>4 DEF Folded
<1> QED
  BY <1>3, <1>4

\* A prefix is one up to case; without letters there is no other.
LEMMA BeginsIs ==
    ASSUME NEW p \in Seq(0..255), NEW key \in Seq(Nat)
    PROVE  /\ IsPrefix(p, key) => Begins(key, p)
           /\ ToSet(p) \cap Letter = {} /\ Begins(key, p) => IsPrefix(p, key)
<1>1. Len(p) \in Nat /\ DOMAIN p = 1..Len(p) /\ \A i \in 1..Len(p) : p[i] \in 0..255
  BY LenProperties, ElementOfSeq
<1>2. p \in Seq(Nat)
  <2>1. ASSUME NEW i \in 1..Len(p) PROVE p[i] \in Nat
    <3>1. p[i] \in 0..255
      BY <1>1
    <3>2. ASSUME NEW a \in 0..255 PROVE a \in Nat
      OBVIOUS
    <3> QED
      BY <3>1, <3>2, Zenon
  <2> QED
    BY <1>1, <2>1, IsASeq
<1>3. Len(key) \in Nat /\ \A i \in 1..Len(key) : key[i] \in Nat
  BY LenProperties, ElementOfSeq
<1>4. IsPrefix(p, key) <=> Len(p) <= Len(key) /\ \A i \in 1..Len(p) : p[i] = key[i]
  BY <1>2, PrefixAgrees
<1>5. ASSUME ToSet(p) \cap Letter = {}, Begins(key, p), NEW i \in 1..Len(p)
      PROVE  p[i] = key[i]
  <2>1. p[i] \notin Letter /\ p[i] \in 0..255
    BY <1>1, <1>5 DEF ToSet
  <2>2. key[i] \in Nat /\ Folded(key[i]) = Folded(p[i])
    BY <1>1, <1>3, <1>5 DEF Begins
  <2> QED
    BY <2>1, <2>2, FoldedAlone
<1> QED
  BY <1>1, <1>4, <1>5 DEF Begins

\* Up to case, more keys begin with the prefix, but no more if it has no letters.
LEMMA WantedAlike ==
    ASSUME NEW r, Got(r).prefix \in Seq(0..255)
    PROVE  /\ Wanted(r) \subseteq Alike(r)
           /\ PrefixHasNo(Letter, r) => Alike(r) \subseteq Wanted(r)
BY BeginsIs, TableAssumption DEF Wanted, Alike, PrefixHasNo

\* The query of bucket_list finds the rows that the user may see.
LEMMA ListBucketsExact ==
    ASSUME IInv, ListInv, NEW r \in Request, ListBuckets(r)
    PROVE  Got(r)' = Got(r) /\ Got(r).op = "list" /\ ListIsExact(r)' /\ InOrder(r)'
<1> DEFINE filters == ListFilters(r)
           texts == Column(SelectAll(rows, filters, "bucket_name", Null), "bucket_name")
           S == Found(rows, filters)
           K == TextsOf(S, "bucket_name")
<1>1. /\ Got(r).op = "list" /\ shown'[r] = texts
      /\ UNCHANGED <<rows, user, wire, known>>
  BY DEF ListBuckets, Shows, ListInv
<1>2. S = {c \in rows : Allowed(r, c)}
  <2>1. ASSUME NEW c PROVE Where(c, filters) <=> Allowed(r, c)
    BY WhereOne DEF ListFilters, Allowed
  <2> QED
    BY <2>1 DEF Found
<1>3. IsFiniteSet(S)
  BY FS_Subset DEF ListInv, Found
<1>4. Apart(S, "bucket_name")
  BY TableAssumption DEF IInv, TypeOK, Directories, Apart, Row, Text, Found
<1>5. /\ ToSet(texts) = K
      /\ \A i, j \in DOMAIN texts : i < j => TextBefore(texts[i], texts[j])
  <2> HIDE DEF filters
  <2> QED
    BY <1>3, <1>4, SelectAllOrdered DEF FirstOf
<1>6. K = Mine(r)
  BY <1>2 DEF Mine, TextsOf
<1>7. Mine(r)' = Mine(r) /\ Got(r)' = Got(r)
  BY <1>1 DEF Mine, Allowed, Got
<1> HIDE DEF texts, K
<1> QED
  BY <1>1, <1>5, <1>6, <1>7 DEF ListIsExact, InOrder

\* The query of bucket_get finds the first keys that begin with the prefix.
LEMMA GetExact ==
    ASSUME IInv, ListInv, NEW r \in Request, pc[r] = "read", bucket_get(r)
    PROVE  Got(r)' = Got(r) /\ Got(r).op = "get" /\ GetIsExact(r)' /\ InOrder(r)'
<1> DEFINE filters == GetFilters(r)
           limit == Got(r).max
           texts == Column(SelectAll(Object, filters, "object_key", limit), "object_key")
           S == Found(Object, filters)
           K == TextsOf(S, "object_key")
<1>1. Got(r).op = "get" /\ shown'[r] = texts /\ wire' = wire
  BY DEF bucket_get, Shows, ListInv
<1>2. /\ wire[r] \in DOMAIN Wire /\ limit \in Nat /\ limit # Null /\ Got(r).prefix \in Seq(0..255)
  BY TableAssumption, WireAssumption DEF IInv, Local, Got
<1>3. IsFiniteSet(S)
  BY TableAssumption, FS_Subset DEF Found
<1>4. ASSUME NEW row
      PROVE  Where(row, filters) <=>
                 /\ row.bucket_name = Bucket(r) /\ row.delete_marker = FALSE
                 /\ Got(r).prefix # <<>> =>
                      Like(row.object_key, Escaped(Got(r).prefix) \o <<Percent>>)
  <2> DEFINE named == {[column |-> "bucket_name", operator |-> "eq", value |-> Bucket(r)]}
             current == {[column |-> "delete_marker", operator |-> "eq", value |-> FALSE]}
             like == {[column |-> "object_key", operator |-> "like",
                       value |-> Escaped(Got(r).prefix) \o <<Percent>>]}
             begins == IF Got(r).prefix = <<>> THEN {} ELSE like
  <2>1. filters = (named \cup current) \cup begins
    BY DEF GetFilters
  <2>2. Where(row, begins) <=>
          (Got(r).prefix # <<>> => Like(row.object_key, Escaped(Got(r).prefix) \o <<Percent>>))
    <3>1. Where(row, like) <=> Like(row.object_key, Escaped(Got(r).prefix) \o <<Percent>>)
      BY WhereOne
    <3>2. Where(row, {})
      BY DEF Where
    <3>3. CASE Got(r).prefix = <<>>
      <4>1. begins = {}
        BY <3>3
      <4> QED
        BY <3>2, <3>3, <4>1
    <3>4. CASE Got(r).prefix # <<>>
      <4>1. begins = like
        BY <3>4
      <4> HIDE DEF begins, like
      <4> QED
        BY <3>1, <3>4, <4>1
    <3> QED
      BY <3>3, <3>4
  <2>3. Where(row, named) <=> row.bucket_name = Bucket(r)
    BY WhereOne
  <2>4. Where(row, current) <=> row.delete_marker = FALSE
    BY WhereOne
  <2> HIDE DEF named, current, begins, filters
  <2> QED
    BY <2>1, <2>2, <2>3, <2>4, WhereBoth
<1>5. Apart(S, "object_key")
  BY <1>4, TableAssumption DEF Apart, Text, Found
<1>6. /\ DOMAIN texts = 1..Len(texts) /\ ToSet(texts) \subseteq K
      /\ Len(texts) <= limit /\ (ToSet(texts) = K \/ Len(texts) = limit)
      /\ \A i, j \in DOMAIN texts : i < j => TextBefore(texts[i], texts[j])
      /\ \A k \in K \ ToSet(texts), i \in DOMAIN texts : TextBefore(texts[i], k)
  <2> HIDE DEF filters, limit
  <2> QED
    BY <1>2, <1>3, <1>5, SelectAllOrdered DEF FirstOf
<1>7. ASSUME Literal(Got(r).prefix) PROVE K = Alike(r)
  <2>2. ASSUME NEW row \in Object
        PROVE  Like(row.object_key, Escaped(Got(r).prefix) \o <<Percent>>) <=>
                 Begins(row.object_key, Got(r).prefix)
    BY <1>2, <1>7, TableAssumption, LikePrefix DEF Text
  <2>3. ASSUME NEW row \in Object, Got(r).prefix = <<>> PROVE Begins(row.object_key, Got(r).prefix)
    <3>1. Len(row.object_key) \in Nat /\ Len(<<>>) = 0 /\ DOMAIN <<>> = {}
      BY TableAssumption, LenProperties
    <3> QED
      BY <2>3, <3>1 DEF Begins
  <2>4. ASSUME NEW row \in Object
        PROVE  Where(row, filters) <=>
                 /\ row.bucket_name = Bucket(r) /\ row.delete_marker = FALSE
                 /\ Begins(row.object_key, Got(r).prefix)
    BY <1>4, <2>2, <2>3
  <2>5. \A row \in Object : row.delete_marker = FALSE <=> ~ row.delete_marker
    BY TableAssumption
  <2> QED
    BY <2>4, <2>5 DEF Alike, TextsOf, Found
<1>8. /\ Wanted(r)' = Wanted(r) /\ Got(r)' = Got(r)
      /\ \A chars : PrefixHasNo(chars, r)' <=> PrefixHasNo(chars, r)
  BY <1>1 DEF Wanted, Got, Bucket, PrefixHasNo
<1>9. PrefixHasNo(Wildcard, r) => Wanted(r) \subseteq K
  BY <1>2, <1>7, WantedAlike DEF PrefixHasNo, Literal
<1>10. PrefixHasNo(Wildcard \cup Letter, r) => K \subseteq Wanted(r)
  <2> SUFFICES ASSUME PrefixHasNo(Wildcard \cup Letter, r) PROVE K \subseteq Wanted(r)
    OBVIOUS
  <2>1. Literal(Got(r).prefix) /\ PrefixHasNo(Letter, r)
    BY DEF PrefixHasNo, Literal
  <2> QED
    BY <1>2, <1>7, <2>1, WantedAlike
<1> HIDE DEF texts, K, limit
<1>11. \A k \in K \ ToSet(texts) : Len(texts) = limit /\ \A i \in DOMAIN texts : TextBefore(texts[i], k)
  BY <1>6
<1>12. InOrder(r)'
  BY <1>1, <1>6 DEF InOrder
<1> QED
  BY <1>1, <1>6, <1>8, <1>9, <1>10, <1>11, <1>12 DEF GetIsExact, limit

\* What a step does to the listings: those of other requests stay as they are.
Others(s) ==
    \A r \in Request \ {s} :
        pc'[r] = pc[r] /\ wire'[r] = wire[r] /\ user'[r] = user[r]
        /\ shown'[r] = shown[r] /\ known'[r] = known[r]

\* The step of a request keeps what it knows, or has it know the buckets there are.
Knows(s) ==
    pc'[s] \notin {"idle", "done"} =>
        \/ known'[s] = BucketNames
        \/ pc[s] \notin {"idle", "done"} /\ known'[s] = known[s]

\* It shows what it showed, or what is exact.
ShowsExact(s) ==
    pc'[s] = "emit" =>
        \/ /\ pc[s] = "emit" /\ wire'[s] = wire[s] /\ user'[s] = user[s]
           /\ shown'[s] = shown[s] /\ known'[s] = known[s]
        \/ Exact(s)'

\* The table stays, or a bucket is added that nobody has known.
Grows(s) ==
    rows' = rows \/ (rows' = rows \cup {NewRow(s)} /\ NewRow(s).bucket_name \notin BucketNames)

Lists(s) == DOMAIN shown' = Request /\ Others(s) /\ Knows(s) /\ ShowsExact(s) /\ Grows(s)

\* A listing that stays is as exact as it was.
LEMMA StaysExact ==
    ASSUME IInv, ListInv, NEW s \in Request, Grows(s), NEW r \in Request,
           pc[r] = "emit", wire'[r] = wire[r], user'[r] = user[r],
           shown'[r] = shown[r], known'[r] = known[r], Exact(r)
    PROVE  Exact(r)'
<1>1. /\ Got(r)' = Got(r) /\ Bucket(r)' = Bucket(r) /\ Wanted(r)' = Wanted(r)
      /\ \A chars : PrefixHasNo(chars, r)' <=> PrefixHasNo(chars, r)
  BY DEF Got, Bucket, Wanted, PrefixHasNo
<1>2. GetIsExact(r) => GetIsExact(r)'
  BY <1>1 DEF GetIsExact
<1>3. InOrder(r) => InOrder(r)'
  BY DEF InOrder
<1>4. ListIsExact(r) => ListIsExact(r)'
  <2>1. \A b : Allowed(r, b)' <=> Allowed(r, b)
    BY DEF Allowed
  <2>2. CASE rows' = rows
    <3>1. Mine(r)' = Mine(r)
      BY <2>1, <2>2 DEF Mine
    <3> QED
      BY <3>1 DEF ListIsExact
  <2>3. CASE rows' = rows \cup {NewRow(s)} /\ NewRow(s).bucket_name \notin BucketNames
    <3>1. Mine(r) \subseteq Mine(r)' /\ Mine(r)' \subseteq Mine(r) \cup {NewRow(s).bucket_name}
      BY <2>1, <2>3 DEF Mine
    <3>2. known[r] \subseteq BucketNames
      BY DEF ListInv, Listing
    <3> QED
      BY <2>3, <3>1, <3>2 DEF ListIsExact
  <2> QED
    BY <2>2, <2>3 DEF Grows
<1> QED
  BY <1>1, <1>2, <1>3, <1>4 DEF Exact

\* Such a step keeps the invariant.
LEMMA ListsKeep ==
    ASSUME IInv, ListInv, NEW s \in Request, Lists(s)
    PROVE  ListInv'
<1>1. IsFiniteSet(rows')
  BY FS_AddElement DEF Lists, Grows, ListInv
<1>2. BucketNames \subseteq BucketNames'
  BY DEF Lists, Grows, BucketNames
<1>3. ASSUME NEW r \in Request PROVE Listing(r)'
  <2>1. pc'[r] \notin {"idle", "done"} => known'[r] \subseteq BucketNames'
    BY <1>2 DEF Lists, Others, Knows, ListInv, Listing
  <2>2. ASSUME pc'[r] = "emit" PROVE Exact(r)'
    <3>1. CASE /\ pc[r] = "emit" /\ wire'[r] = wire[r] /\ user'[r] = user[r]
               /\ shown'[r] = shown[r] /\ known'[r] = known[r]
      BY <3>1, StaysExact DEF Lists, ListInv, Listing
    <3>2. CASE r = s /\ Exact(s)'
      BY <3>2
    <3> QED
      BY <2>2, <3>1, <3>2 DEF Lists, Others, ShowsExact
  <2> QED
    BY <2>1, <2>2 DEF Listing
<1> QED
  BY <1>1, <1>3 DEF Lists, ListInv

\* An answer ends the listing.
LEMMA FinishLists ==
    ASSUME IInv, ListInv, NEW s \in Request, NEW what, Finish(s, what), rows' = rows,
           user' = user \/ \E u : user' = [user EXCEPT ![s] = u]
    PROVE  Lists(s)
<1>1. \A r \in Request \ {s} : user'[r] = user[r]
  BY DEF IInv, TypeOK
<1>2. DOMAIN shown' = Request /\ pc'[s] = "done"
  BY DEF Finish, Goto, Forget, IInv, TypeOK, ListInv
<1>3. Others(s)
  BY <1>1 DEF Others, Finish, Goto, Forget, IInv, TypeOK, ListInv
<1> QED
  BY <1>2, <1>3 DEF Lists, Knows, ShowsExact, Grows

\* A step before or after the listing leaves it alone.
LEMMA GotoLists ==
    ASSUME IInv, ListInv, NEW s \in Request, NEW step, Goto(s, step), step # "emit",
           pc[s] \notin {"idle", "done"}, UNCHANGED <<wire, known, shown>>, Grows(s),
           user' = user \/ \E u : user' = [user EXCEPT ![s] = u]
    PROVE  Lists(s)
<1>1. \A r \in Request \ {s} : user'[r] = user[r]
  BY DEF IInv, TypeOK
<1>2. pc'[s] = step /\ \A r \in Request \ {s} : pc'[r] = pc[r]
  BY DEF Goto, IInv, TypeOK
<1> QED
  BY <1>1, <1>2 DEF Lists, Others, Knows, ShowsExact, ListInv

\* A request knows the buckets there are when it arrives.
LEMMA ReceiveLists ==
    ASSUME IInv, ListInv, NEW s \in Request, Receive(s)
    PROVE  Lists(s)
<1>1. CASE Finish(s, "AccessDenied")
  BY <1>1, FinishLists DEF Receive
<1>2. CASE /\ known' = [known EXCEPT ![s] = {b.bucket_name : b \in rows}]
           /\ \E w : wire' = [wire EXCEPT ![s] = w]
           /\ Goto(s, "body") /\ shown' = shown
  <2>1. rows' = rows /\ user' = user
    BY DEF Receive
  <2>2. known'[s] = BucketNames /\ pc'[s] = "body"
    BY <1>2 DEF Goto, IInv, TypeOK, BucketNames
  <2>3. Others(s)
    BY <1>2, <2>1 DEF Others, Goto, IInv, TypeOK
  <2> QED
    BY <1>2, <2>1, <2>2, <2>3 DEF Lists, Knows, ShowsExact, Grows, ListInv
<1> QED
  BY <1>1, <1>2 DEF Receive

\* The bucket that is committed had no row before.
LEMMA CommitLists ==
    ASSUME IInv, ListInv, NEW s \in Request, Commit(s)
    PROVE  Lists(s)
<1>1. NewRow(s).bucket_name \notin BucketNames
  BY DEF IInv, Directories, Progress, Rowless, Held, Commit, BucketNames, NewRow
<1> QED
  BY <1>1, GotoLists DEF Commit, Grows, request, locals

\* A request that comes to show what it read.
LEMMA ShowsLists ==
    ASSUME IInv, ListInv, NEW s \in Request, NEW what, Shows(s, what), UNCHANGED <<rows, user>>,
           pc[s] = "read", Exact(s)'
    PROVE  Lists(s)
<1>1. \A r \in Request \ {s} : pc'[r] = pc[r] /\ shown'[r] = shown[r]
  BY DEF Shows, Goto, IInv, TypeOK, ListInv
<1>2. DOMAIN shown' = Request
  BY DEF Shows, ListInv
<1> QED
  BY <1>1, <1>2 DEF Shows, Lists, Others, Knows, ShowsExact, Grows

\* A request for buckets or for objects shows them; any other shows no list.
LEMMA ReadsList ==
    ASSUME IInv, ListInv, NEW s \in Request, ListBuckets(s) \/ ReadBucket(s)
    PROVE  Lists(s)
<1>1. CASE ListBuckets(s)
  <2>1. Exact(s)'
    BY <1>1, ListBucketsExact DEF Exact
  <2> QED
    BY <1>1, <2>1, ShowsLists DEF ListBuckets
<1>2. CASE ReadBucket(s)
  <2>1. pc[s] = "read" /\ UNCHANGED <<rows, user>>
    BY <1>2 DEF ReadBucket
  <2>2. \/ \E what : Refuses(s, what)
        \/ bucket_get(s)
        \/ \E what : Shows(s, what) /\ Got(s).op \notin {"list", "get"}
    BY <1>2 DEF ReadBucket, bucket_versioning_retrieve, bucket_object_lock_retrieve
  <2>3. CASE \E what : Refuses(s, what)
    BY <2>1, <2>3, FinishLists DEF Refuses
  <2>4. CASE bucket_get(s)
    <3>1. Exact(s)'
      BY <2>1, <2>4, GetExact DEF Exact
    <3> QED
      BY <2>1, <2>4, <3>1, ShowsLists DEF bucket_get
  <2>5. ASSUME NEW what, Shows(s, what), Got(s).op \notin {"list", "get"}
        PROVE  Lists(s)
    <3>1. Got(s)' = Got(s)
      BY <2>5 DEF Shows, Got
    <3>2. Exact(s)'
      BY <2>5, <3>1 DEF Exact
    <3> QED
      BY <2>1, <2>5, <3>2, ShowsLists
  <2> QED
    BY <2>2, <2>3, <2>4, <2>5
<1> QED
  BY <1>1, <1>2

\* The unlocking of a bucket ends a creation, which shows no list; the hooks change none.
LEMMA EmitLists ==
    ASSUME IInv, ListInv, NEW s \in Request, Unlock(s) \/ Emit(s)
    PROVE  Lists(s)
<1>1. CASE Unlock(s)
  <2>1. Got(s).op = "create" /\ Got(s)' = Got(s)
    BY <1>1 DEF Unlock, IInv, Local, Creating, Held, request, Got
  <2>2. Exact(s)'
    BY <2>1 DEF Exact
  <2>3. \A r \in Request \ {s} : pc'[r] = pc[r]
    BY <1>1 DEF Unlock, Goto, IInv, TypeOK
  <2> QED
    BY <1>1, <2>2, <2>3 DEF Unlock, Lists, Others, Knows, ShowsExact, Grows, ListInv, db,
       request, locals
<1>2. CASE Emit(s)
  BY <1>2 DEF Emit, Lists, Others, Knows, ShowsExact, Grows, ListInv, db, request, locals
<1> QED
  BY <1>1, <1>2

\* Every step of a request is of this kind.
LEMMA RequestLists ==
    ASSUME IInv, ListInv, NEW s \in Request,
           Receive(s) \/ Disconnect(s) \/ QueryRaises(s) \/ CallRaises(s) \/ Advance(s)
    PROVE  Lists(s)
<1>1. CASE \E what : Finish(s, what) /\ UNCHANGED <<rows, user>>
  BY <1>1, FinishLists
<1>2. CASE /\ \E step : Goto(s, step) /\ step # "emit"
           /\ pc[s] \notin {"idle", "done"} /\ UNCHANGED <<wire, known, shown, rows, user>>
  BY <1>2, GotoLists DEF Grows
<1>3. CASE ResolvePayload(s) \/ CheckRow(s) \/ CheckDirectory(s)
  BY <1>1, <1>2, <1>3 DEF ResolvePayload, CheckRow, CheckDirectory, Go, request, locals
<1>4. CASE Authenticate(s)
  <2>1. CASE user' = user /\ \E what : Finish(s, what)
    BY <1>4, <2>1, FinishLists DEF Authenticate
  <2>2. CASE (\E u : user' = [user EXCEPT ![s] = u]) /\ \E what : Finish(s, what)
    BY <1>4, <2>2, FinishLists DEF Authenticate
  <2>3. CASE (\E u : user' = [user EXCEPT ![s] = u]) /\ (Go(s, "read") \/ Go(s, "lock"))
    BY <1>4, <2>3, GotoLists DEF Authenticate, Go, request, Grows
  <2> QED
    BY <1>4, <2>1, <2>2, <2>3 DEF Authenticate
<1>5. CASE Disconnect(s) \/ QueryRaises(s) \/ RemoveDirectory(s) \/ Reply(s)
  BY <1>1, <1>5 DEF Disconnect, QueryRaises, RemoveDirectory, Reply, locals
<1>6. CASE \/ LockBucket(s) \/ Insert(s) \/ MakeDirectory(s) \/ FsyncParent(s)
           \/ CallRaises(s) \/ Rollback(s)
  BY <1>2, <1>6 DEF LockBucket, Insert, MakeDirectory, FsyncParent, CallRaises, Rollback,
     db, request, locals
<1> QED
  BY <1>3, <1>4, <1>5, <1>6, ReceiveLists, CommitLists, ReadsList, EmitLists DEF Advance

\* At first nothing is shown; a restart forgets what was.
LEMMA InitLists == Init => ListInv
BY TableAssumption, FS_Subset DEF Init, ListInv, Listing

LEMMA ListInvKeeps == IInv /\ ListInv /\ [Next]_vars => ListInv'
<1> SUFFICES ASSUME IInv, ListInv, [Next]_vars PROVE ListInv'
  OBVIOUS
<1>1. ASSUME NEW s \in Request,
             Receive(s) \/ Disconnect(s) \/ QueryRaises(s) \/ CallRaises(s) \/ Advance(s)
      PROVE  ListInv'
  BY <1>1, RequestLists, ListsKeep
<1>2. CASE Tick \/ UNCHANGED vars
  <2>1. UNCHANGED <<rows, pc, wire, user, shown, known>>
    BY <1>2 DEF Tick, vars, db, request, locals
  <2>2. ASSUME NEW r \in Request PROVE Listing(r)'
    BY <2>1 DEF ListInv, Listing, Exact, ListIsExact, GetIsExact, InOrder, Mine, Wanted, Allowed,
       PrefixHasNo, BucketNames, Got, Bucket
  <2> QED
    BY <2>1, <2>2 DEF ListInv
<1>3. CASE Crash
  <2>1. \A r \in Request : pc'[r] \in {"idle", "done"}
    BY <1>3 DEF Crash
  <2>2. rows' = rows /\ DOMAIN shown' = Request
    BY <1>3 DEF Crash
  <2> QED
    BY <2>1, <2>2 DEF ListInv, Listing
<1> QED
  BY <1>1, <1>2, <1>3 DEF Next

\* A listing (bucket_list, bucket_get) is exact and in order: every bucket of the user
\* that was there when the request came, and none that a failed creation takes back; for
\* prefixes without wildcards every key that begins with it, up to the limit, and for those
\* without letters no other.
THEOREM ListingsAreExact == Spec => []ListingIsExact
<1>1. IInv /\ [Next]_vars /\ ListInv => ListInv'
  BY ListInvKeeps
<1>2. Spec => []ListInv
  BY <1>1, InitLists, Invariant, PTL DEF Spec
<1>3. ListInv => ListingIsExact
  BY DEF ListInv, Listing, Exact, ListIsExact, GetIsExact, InOrder, Mine, ListingIsExact
<1> QED
  BY <1>2, <1>3, PTL

=============================================================================
