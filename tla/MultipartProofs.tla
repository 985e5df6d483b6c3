--------------------------- MODULE MultipartProofs ----------------------------
(****************************************************************************)
(* Proofs about Multipart: an upload ends once, as UploadSession says, its  *)
(* acknowledged parts are never lost before, and an object is made of the   *)
(* parts that were listed, for any requests, parts, faults and crashes.     *)
(****************************************************************************)
EXTENDS Multipart, TLAPS

\* There is one creation, and nobody else is at the upload before it is answered.
Creation ==
    /\ \A r, s \in Request : kind[r] = "create" /\ kind[s] = "create" => r = s
    /\ \A r \in Request : kind[r] = "none" <=> pc[r] = "new"
    /\ multipart = "none" =>
          partRow = NoParts /\ \A r \in Request : kind[r] \in {"none", "create"}
    /\ \A r \in Request : kind[r] = "create" => (pc[r] = "ok" <=> multipart # "none")
    /\ multipart # "none" => \E r \in Request : kind[r] = "create"

Exclusion ==
    \A r, s \in Request : r # s /\ Holding(r) /\ Holding(s) => ~ Overlaps(r, s)

\* A part row was committed by an upload of that part.
Provenance ==
    \A n \in Part : partRow[n] # None =>
        /\ kind[partRow[n]] = "part" /\ number[partRow[n]] = n
        /\ pc[partRow[n]] \in {"committed", "ok", "dead"}

\* Where requests of a kind never are, and what they have not done yet.
Route(r) ==
    /\ pc[r] \in {"moved", "cleaning", "removing"} => kind[r] \in {"complete", "abort"}
    /\ pc[r] \in {"new", "waiting"} =>
          backup[r] = None /\ ~ backupCreated[r] /\ ~ written[r] /\ ~ moved[r]

\* Where a part upload is, and what the upload directory then holds.
PartTellsTheTruth(r) ==
    kind[r] = "part" =>
        /\ number[r] \in Part
        /\ backup[r] \in Request \cup {None}
        /\ pc[r] \in {"checking", "staging", "staged"} =>
              backup[r] = None /\ ~ backupCreated[r]
        /\ pc[r] \in {"checking", "staging", "staged", "saved"} => ~ written[r]
        /\ pc[r] \in {"staging", "staged", "saved", "published"} =>
              multipart = "open" /\ dir = "upload"
        /\ Holding(r) /\ (backupCreated[r] \/ written[r]) => multipart = "open"
        /\ pc[r] = "saved" => file[number[r]] = None
        /\ pc[r] \in {"published", "committed"} => file[number[r]] = r
        /\ pc[r] = "committed" => multipart = "open" /\ partRow[number[r]] = r
        /\ pc[r] \in {"failed", "rolledback"} /\ written[r] /\ ~ backupCreated[r] =>
              file[number[r]] = r
        /\ pc[r] \in {"failed", "rolledback"} /\ backupCreated[r] =>
              file[number[r]] \in {None, r}

\* What a completion or an abort has seen still holds while it has the lock.
EndTellsTheTruth(r) ==
    kind[r] \in {"complete", "abort"} =>
        /\ pc[r] = "checking" => ~ moved[r]
        /\ pc[r] \in {"assembled", "inbucket", "checked", "saved", "published", "moved"} =>
              multipart = "open"
        /\ Holding(r) /\ pc[r] # "committed" /\ moved[r] => multipart = "open"
        /\ pc[r] = "moved" => dir # "upload"
        /\ pc[r] \in {"committed", "cleaning", "removing"} => multipart = "ended"

CompleteTellsTheTruth(r) ==
    kind[r] = "complete" =>
        /\ listed[r] \in Listing
        /\ backup[r] \in Object
        /\ pc[r] \in {"assembled", "inbucket", "saved", "published", "moved"} =>
              \A n \in Part : listed[r][n] \in {None, partRow[n]}
        /\ pc[r] \in {"assembled", "inbucket", "saved"} => staged[r] = listed[r]
        /\ pc[r] \in {"inbucket", "saved", "published", "moved"} => bucketLock = r
        /\ pc[r] \in {"published", "moved"} => object = listed[r]

Local(r) ==
    Route(r) /\ PartTellsTheTruth(r) /\ EndTellsTheTruth(r) /\ CompleteTellsTheTruth(r)

IInv ==
    /\ TypeOK
    /\ Creation
    /\ Exclusion
    /\ Provenance
    /\ EndIsFinal
    /\ PartRecoverable
    /\ \A r \in Request : Local(r)

\* With what is at the key, where a completion may have to put it back.
ObjectTellsTheTruth(r) ==
    kind[r] = "complete" =>
        /\ pc[r] \in {"waiting", "checking", "assembled", "inbucket"} =>
              backup[r] = None /\ ~ backupCreated[r] /\ ~ written[r]
        /\ pc[r] = "saved" => ~ written[r] /\ (backupCreated[r] \/ object = None)
        /\ pc[r] \in {"published", "moved"} => written[r]
        /\ pc[r] \in {"published", "moved", "failed", "rolledback"} /\ written[r] =>
              object = listed[r] /\ bucketLock = r /\ multipart = "open"
        /\ pc[r] \in {"saved", "failed", "rolledback"} /\ ~ written[r] /\ backupCreated[r] =>
              backup[r] = object /\ bucketLock = r
        /\ pc[r] \in {"committed", "cleaning"} => object = row

OInv ==
    /\ multipart # "ended" => row \in {None, Other}
    /\ \A r \in Request : ObjectTellsTheTruth(r)
    /\ ObjectRecoverable

------------------------------------------------------------------------------
(* What a step of one request leaves alone.                                 *)

Same(s) ==
    /\ pc'[s] = pc[s] /\ staged'[s] = staged[s] /\ backup'[s] = backup[s]
    /\ backupCreated'[s] = backupCreated[s] /\ written'[s] = written[s] /\ moved'[s] = moved[s]

Others(r) == UNCHANGED inputs /\ \A s \in Request \ {r} : Same(s)

\* A request that has arrived goes on; only CreateRow answers a creation.
Advances(r) ==
    /\ pc[r] \notin {"new", "dead", "ok"}
    /\ pc'[r] # "new"
    /\ kind[r] = "create" => pc'[r] # "ok"
    /\ kind[r] = "part" /\ pc[r] = "committed" => pc'[r] = "ok"
    /\ pc'[r] \notin Outside => pc[r] \notin Outside \ {"waiting"} \/ kind[r] = "create"

\* The upload is only ended, its parts are only those of before.
Narrows ==
    /\ multipart' # multipart => multipart = "open" /\ multipart' = "ended"
    /\ \A n \in Part : partRow'[n] # None => partRow'[n] = partRow[n]
    /\ multipart = "none" => partRow' = partRow

LEMMA KeepsCreation ==
    ASSUME IInv, TypeOK', NEW r \in Request, Others(r), Advances(r), Narrows
    PROVE  Creation'
<1>1. kind' = kind /\ (\A s \in Request : pc'[s] = "new" <=> pc[s] = "new")
  BY DEF Others, Same, Advances, inputs
<1>2. \A s \in Request : kind[s] = "create" => (pc'[s] = "ok" <=> pc[s] = "ok")
  BY DEF Others, Same, Advances
<1>3. (multipart' = "none" <=> multipart = "none")
  BY DEF Narrows
<1>4. multipart = "none" => partRow' = NoParts
  BY DEF Narrows, IInv, Creation
<1> QED BY <1>1, <1>2, <1>3, <1>4 DEF IInv, Creation

LEMMA KeepsExclusion ==
    ASSUME IInv, NEW r \in Request, Others(r), Advances(r), pc[r] # "waiting"
    PROVE  Exclusion'
<1>1. \A s \in Request : Holding(s)' => Holding(s)
  BY DEF Others, Same, Advances, Holding, inputs
<1>2. \A s, t \in Request : Overlaps(s, t)' <=> Overlaps(s, t)
  BY DEF Others, Overlaps, inputs
<1> QED BY <1>1, <1>2 DEF IInv, Exclusion

LEMMA KeepsProvenance ==
    ASSUME IInv, NEW r \in Request, Others(r), Advances(r), Narrows
    PROVE  Provenance'
<1> SUFFICES ASSUME NEW n \in Part, partRow'[n] # None
             PROVE  /\ kind'[partRow'[n]] = "part" /\ number'[partRow'[n]] = n
                    /\ pc'[partRow'[n]] \in {"committed", "ok", "dead"}
  BY DEF Provenance
<1> DEFINE p == partRow[n]
<1>1. partRow'[n] = p /\ p # None
  BY DEF Narrows
<1>2. p \in Request /\ kind[p] = "part" /\ number[p] = n /\ pc[p] \in {"committed", "ok", "dead"}
  BY <1>1 DEF IInv, Provenance, TypeOK, Parts
<1>3. pc'[p] \in {"committed", "ok", "dead"}
  BY <1>2 DEF Others, Same, Advances
<1> QED BY <1>1, <1>2, <1>3 DEF Others, inputs

\* A step that leaves the database and the files alone disturbs nobody else.
LEMMA QuietOthers ==
    ASSUME IInv, NEW r \in Request, Others(r), UNCHANGED <<db, tree>>,
           bucketLock' # bucketLock => bucketLock \in {r, None},
           NEW s \in Request \ {r}
    PROVE  Local(s)'
<1>1. Local(s) /\ s # None
  BY NullAssumption DEF IInv
<1>2. (Holding(s)' <=> Holding(s)) /\ (bucketLock = s => bucketLock' = s)
  BY <1>1 DEF Others, Same, Holding, inputs
<1> QED
  BY <1>1, <1>2 DEF Others, Same, Local, Route, PartTellsTheTruth, EndTellsTheTruth,
                    CompleteTellsTheTruth, db, tree, inputs

\* One under the lock of a part disturbs nobody when it changes that part.
LEMMA PartOthers ==
    ASSUME IInv, NEW r \in Request, Others(r), kind[r] = "part", Holding(r),
           UNCHANGED <<multipart, dir, object, bucketLock>>,
           \A n \in Part : n # number[r] => file'[n] = file[n] /\ partRow'[n] = partRow[n],
           NEW s \in Request \ {r}
    PROVE  Local(s)'
<1>1. Local(s)
  BY DEF IInv
<1>2. Holding(s)' <=> Holding(s)
  BY DEF Others, Same, Holding, inputs
<1>3. Holding(s) => kind[s] = "part" /\ number[s] # number[r]
  BY DEF IInv, Exclusion, Overlaps
<1>4. Route(s)' /\ PartTellsTheTruth(s)'
  BY <1>1, <1>2, <1>3 DEF Others, Same, Local, Route, PartTellsTheTruth, Holding, Outside, Ended,
                          inputs
<1>5. EndTellsTheTruth(s)' /\ CompleteTellsTheTruth(s)'
  BY <1>1, <1>2, <1>3 DEF Others, Same, Local, EndTellsTheTruth, CompleteTellsTheTruth, Holding,
                          Outside, Ended, inputs
<1> QED BY <1>4, <1>5 DEF Local

\* Under the lock of the upload directory nobody else is at the upload.
LEMMA EndOthers ==
    ASSUME IInv, NEW r \in Request, Others(r), kind[r] \in {"complete", "abort"}, Holding(r),
           multipart = "ended" => multipart' = "ended",
           NEW s \in Request \ {r}
    PROVE  Local(s)'
<1>1. Local(s)
  BY DEF IInv
<1>2. pc[s] \in Outside \/ kind[s] = "create"
  BY DEF IInv, Exclusion, Overlaps, Holding
<1> QED
  BY <1>1, <1>2 DEF Others, Same, Local, Route, PartTellsTheTruth, EndTellsTheTruth,
                    CompleteTellsTheTruth, Holding, Outside, Ended, inputs

\* While nobody but the creation has arrived, nothing is known about the upload.
LEMMA CreateOthers ==
    ASSUME IInv, NEW r \in Request, Others(r), multipart = "none",
           NEW s \in Request \ {r}
    PROVE  Local(s)'
<1>1. Local(s) /\ kind[s] \in {"none", "create"}
  BY DEF IInv, Creation
<1> QED
  BY <1>1 DEF Others, Same, Local, Route, PartTellsTheTruth, EndTellsTheTruth,
              CompleteTellsTheTruth, inputs

\* What is recoverable stays so while directory, part files and their backups stay.
LEMMA KeepsParts ==
    ASSUME IInv, NEW r \in Request, Others(r), UNCHANGED file,
           dir # None => dir' # None,
           kind[r] = "part" => backup'[r] = backup[r],
           \A n \in Part : partRow'[n] # None => partRow'[n] = partRow[n]
    PROVE  PartRecoverable'
<1> SUFFICES ASSUME NEW n \in Part, partRow'[n] # None
             PROVE  /\ dir' # None
                    /\ \/ file'[n] = partRow'[n]
                       \/ \E s \in Request :
                          kind'[s] = "part" /\ number'[s] = n /\ backup'[s] = partRow'[n]
  BY DEF PartRecoverable
<1>1. partRow'[n] = partRow[n]
  OBVIOUS
<1>2. dir # None
  BY <1>1 DEF IInv, PartRecoverable
<1>3. CASE file[n] = partRow[n]
  BY <1>1, <1>2, <1>3
<1>4. CASE \E s \in Request : kind[s] = "part" /\ number[s] = n /\ backup[s] = partRow[n]
  <2>1. PICK s \in Request : kind[s] = "part" /\ number[s] = n /\ backup[s] = partRow[n]
    BY <1>4
  <2>2. backup'[s] = backup[s]
    BY <2>1 DEF Others, Same
  <2> QED BY <1>1, <1>2, <2>1, <2>2 DEF Others, inputs
<1> QED BY <1>1, <1>3, <1>4 DEF IInv, PartRecoverable

\* A step that leaves the database and the files alone, with its own part of IInv.
LEMMA QuietStep ==
    ASSUME IInv, TypeOK', NEW r \in Request, Others(r), Advances(r), pc[r] # "waiting",
           UNCHANGED <<db, tree>>, bucketLock' # bucketLock => bucketLock \in {r, None},
           kind[r] = "part" => backup'[r] = backup[r],
           Local(r)'
    PROVE  IInv'
<1>1. Narrows
  BY DEF Narrows, db
<1>2. Creation' /\ Exclusion' /\ Provenance'
  BY <1>1, KeepsCreation, KeepsExclusion, KeepsProvenance
<1>3. EndIsFinal'
  BY DEF IInv, EndIsFinal, db, tree
<1>4. PartRecoverable'
  BY KeepsParts DEF db, tree
<1>5. \A s \in Request : Local(s)'
  BY QuietOthers
<1> QED BY <1>2, <1>3, <1>4, <1>5 DEF IInv

------------------------------------------------------------------------------
(* Steps that touch neither the database nor the files under a lock.        *)

\* What a path can hold.
LEMMA Values ==
    /\ None \in Object /\ Object \subseteq Contents /\ Request \subseteq Contents
    /\ Listing \subseteq Object
  BY DEF Contents, Object

USE DEF At, Goto, Set, Fault, LateFault, NoFault, Log, NoLog, Tries, Logs,
        Outside, Ended, db, tree, inputs, temps, flags

LEMMA RollbackStep == ASSUME IInv, NEW r \in Request, Rollback(r) PROVE IInv'
<1>1. Others(r) /\ Advances(r)
  BY DEF IInv, TypeOK, Rollback, Others, Same, Advances
<1>2. TypeOK'
  BY BoundAssumption DEF IInv, TypeOK, Rollback, PC
<1>3. Local(r)'
  BY DEF IInv, TypeOK, Rollback, Holding, Local, Route, PartTellsTheTruth, EndTellsTheTruth,
         CompleteTellsTheTruth
<1> QED BY <1>1, <1>2, <1>3, QuietStep DEF IInv, Local, Route, CompleteTellsTheTruth, Rollback

LEMMA DropStagedStep == ASSUME IInv, NEW r \in Request, DropStaged(r) PROVE IInv'
<1>1. Others(r) /\ Advances(r)
  BY DEF IInv, TypeOK, DropStaged, Others, Same, Advances
<1>2. TypeOK'
  BY BoundAssumption, Values DEF IInv, TypeOK, DropStaged, PC
<1>3. Local(r)'
  BY Values DEF IInv, TypeOK, DropStaged, Holding, Local, Route, PartTellsTheTruth,
         EndTellsTheTruth, CompleteTellsTheTruth
<1> QED BY <1>1, <1>2, <1>3, QuietStep DEF IInv, Local, Route, CompleteTellsTheTruth, DropStaged

LEMMA AnswerErrorStep == ASSUME IInv, NEW r \in Request, AnswerError(r) PROVE IInv'
<1>1. Others(r) /\ Advances(r)
  BY DEF IInv, TypeOK, AnswerError, Others, Same, Advances
<1>2. TypeOK'
  BY BoundAssumption DEF IInv, TypeOK, AnswerError, PC
<1>3. Local(r)'
  BY DEF IInv, TypeOK, AnswerError, Holding, Local, Route, PartTellsTheTruth, EndTellsTheTruth,
         CompleteTellsTheTruth
<1> QED BY <1>1, <1>2, <1>3, QuietStep DEF IInv, Local, Route, CompleteTellsTheTruth, AnswerError

LEMMA CheckUploadStep == ASSUME IInv, NEW r \in Request, CheckUpload(r) PROVE IInv'
<1>1. Others(r) /\ Advances(r)
  BY DEF IInv, TypeOK, CheckUpload, Others, Same, Advances
<1>2. TypeOK'
  BY BoundAssumption DEF IInv, TypeOK, CheckUpload, PC
<1>3. Local(r)'
  BY DEF IInv, TypeOK, CheckUpload, Holding, Local, Route, PartTellsTheTruth, EndTellsTheTruth,
         CompleteTellsTheTruth
<1> QED BY <1>1, <1>2, <1>3, QuietStep DEF IInv, Local, Route, CompleteTellsTheTruth, CheckUpload

LEMMA StagePartStep == ASSUME IInv, NEW r \in Request, StagePart(r) PROVE IInv'
<1>1. Others(r) /\ Advances(r)
  BY DEF IInv, TypeOK, StagePart, Others, Same, Advances
<1>2. TypeOK'
  BY BoundAssumption, Values DEF IInv, TypeOK, StagePart, PC
<1>3. Local(r)'
  BY Values DEF IInv, TypeOK, StagePart, Holding, Local, Route, PartTellsTheTruth,
         EndTellsTheTruth, CompleteTellsTheTruth
<1> QED BY <1>1, <1>2, <1>3, QuietStep DEF IInv, Local, Route, CompleteTellsTheTruth, StagePart

LEMMA CheckAbortStep == ASSUME IInv, NEW r \in Request, CheckAbort(r) PROVE IInv'
<1>1. Others(r) /\ Advances(r)
  BY DEF IInv, TypeOK, CheckAbort, Others, Same, Advances
<1>2. TypeOK'
  BY BoundAssumption DEF IInv, TypeOK, CheckAbort, PC
<1>3. Local(r)'
  BY DEF IInv, TypeOK, CheckAbort, Holding, Local, Route, PartTellsTheTruth, EndTellsTheTruth,
         CompleteTellsTheTruth
<1> QED BY <1>1, <1>2, <1>3, QuietStep DEF IInv, Local, Route, CompleteTellsTheTruth, CheckAbort

LEMMA LockBucketStep == ASSUME IInv, NEW r \in Request, LockBucket(r) PROVE IInv'
<1>1. Others(r) /\ Advances(r)
  BY DEF IInv, TypeOK, LockBucket, Others, Same, Advances
<1>2. TypeOK'
  BY BoundAssumption DEF IInv, TypeOK, LockBucket, PC
<1>3. Local(r)'
  BY DEF IInv, TypeOK, LockBucket, Holding, Local, Route, PartTellsTheTruth, EndTellsTheTruth,
         CompleteTellsTheTruth
<1> QED BY <1>1, <1>2, <1>3, QuietStep DEF IInv, Local, Route, CompleteTellsTheTruth, LockBucket

LEMMA NotImplementedStep == ASSUME IInv, NEW r \in Request, NotImplemented(r) PROVE IInv'
<1>1. Others(r) /\ Advances(r)
  BY DEF IInv, TypeOK, NotImplemented, Others, Same, Advances
<1>2. TypeOK'
  BY BoundAssumption DEF IInv, TypeOK, NotImplemented, PC
<1>3. Local(r)'
  BY DEF IInv, TypeOK, NotImplemented, Holding, Local, Route, PartTellsTheTruth, EndTellsTheTruth,
         CompleteTellsTheTruth
<1> QED BY <1>1, <1>2, <1>3, QuietStep DEF IInv, Local, Route, CompleteTellsTheTruth,
               NotImplemented

LEMMA BackupObjectStep == ASSUME IInv, NEW r \in Request, BackupObject(r) PROVE IInv'
<1>1. Others(r) /\ Advances(r)
  BY DEF IInv, TypeOK, BackupObject, Others, Same, Advances
<1>2. TypeOK'
  <2>1. faults' \in 0..MaxFaults
    BY BoundAssumption DEF IInv, TypeOK, BackupObject
  <2>2. backup' \in [Request -> Contents] /\ backupCreated' \in [Request -> BOOLEAN]
    BY Values DEF IInv, TypeOK, BackupObject
  <2> QED BY <2>1, <2>2 DEF IInv, TypeOK, BackupObject, PC
<1>3. Local(r)'
  BY Values DEF IInv, TypeOK, BackupObject, Holding, Local, Route, PartTellsTheTruth,
         EndTellsTheTruth, CompleteTellsTheTruth
<1> QED BY <1>1, <1>2, <1>3, QuietStep DEF IInv, Local, Route, CompleteTellsTheTruth, BackupObject

LEMMA UnlockStep == ASSUME IInv, NEW r \in Request, Unlock(r) PROVE IInv'
<1>1. Others(r) /\ Advances(r)
  BY DEF IInv, TypeOK, Unlock, Others, Same, Advances
<1>2. TypeOK'
  BY BoundAssumption DEF IInv, TypeOK, Unlock, PC
<1>3. Local(r)'
  BY DEF IInv, TypeOK, Unlock, Holding, Local, Route, PartTellsTheTruth, EndTellsTheTruth,
         CompleteTellsTheTruth
<1> QED BY <1>1, <1>2, <1>3, QuietStep DEF IInv, Local, Route, CompleteTellsTheTruth, Unlock

LEMMA DropObjectBackupStep == ASSUME IInv, NEW r \in Request, DropObjectBackup(r) PROVE IInv'
<1>1. Others(r) /\ Advances(r)
  BY DEF IInv, TypeOK, DropObjectBackup, Others, Same, Advances
<1>2. TypeOK'
  BY BoundAssumption, Values DEF IInv, TypeOK, DropObjectBackup, PC
<1>3. Local(r)'
  BY Values DEF IInv, TypeOK, DropObjectBackup, Holding, Local, Route, PartTellsTheTruth,
         EndTellsTheTruth, CompleteTellsTheTruth
<1> QED BY <1>1, <1>2, <1>3, QuietStep DEF IInv, Local, Route, CompleteTellsTheTruth,
               DropObjectBackup

------------------------------------------------------------------------------
(* Steps of a part upload on its file.                                      *)

\* The payload of part n is in its file or in a backup.
Kept(n) ==
    \/ file[n] = partRow[n]
    \/ \E s \in Request : kind[s] = "part" /\ number[s] = n /\ backup[s] = partRow[n]

LEMMA PartStep ==
    ASSUME IInv, TypeOK', NEW r \in Request, Others(r), Advances(r), kind[r] = "part",
           Holding(r), UNCHANGED <<multipart, dir, object, bucketLock>>,
           \A n \in Part : n # number[r] => file'[n] = file[n] /\ partRow'[n] = partRow[n],
           multipart # "open" => UNCHANGED partRow,
           Provenance',
           partRow'[number[r]] # None => dir # None /\ Kept(number[r])',
           Local(r)'
    PROVE  IInv'
<1>1. pc[r] # "waiting" /\ multipart # "none"
  BY DEF Holding, IInv, Creation
<1>2. Creation'
  BY <1>1 DEF Others, Same, Advances, IInv, Creation
<1>3. Exclusion'
  BY <1>1, KeepsExclusion
<1>4. EndIsFinal'
  BY DEF IInv, EndIsFinal
<1>5. PartRecoverable'
  <2> SUFFICES ASSUME NEW n \in Part, partRow'[n] # None
               PROVE  dir' # None /\ Kept(n)'
    BY DEF PartRecoverable, Kept
  <2>1. CASE n = number[r]
    BY <2>1 DEF Others, Kept
  <2>2. CASE n # number[r]
    <3>1. dir # None /\ Kept(n) /\ partRow'[n] = partRow[n] /\ file'[n] = file[n]
      BY <2>2 DEF IInv, PartRecoverable, Kept
    <3>2. ASSUME NEW s \in Request, number[s] = n PROVE backup'[s] = backup[s]
      BY <2>2, <3>2 DEF Others, Same
    <3> QED BY <3>1, <3>2 DEF Kept, Others
  <2> QED BY <2>1, <2>2
<1>6. \A s \in Request : Local(s)'
  BY PartOthers
<1> QED BY <1>2, <1>3, <1>4, <1>5, <1>6 DEF IInv

LEMMA BackupPartStep == ASSUME IInv, NEW r \in Request, BackupPart(r) PROVE IInv'
<1>1. Others(r) /\ Advances(r) /\ Holding(r) /\ kind[r] = "part" /\ number[r] \in Part
  BY DEF IInv, TypeOK, BackupPart, MovePart, Others, Same, Advances, Holding, Local,
         PartTellsTheTruth
<1>2. TypeOK'
  <2>1. faults' \in 0..MaxFaults
    BY BoundAssumption DEF IInv, TypeOK, BackupPart
  <2>2. file' \in Parts /\ partRow' \in Parts
    BY <1>1 DEF IInv, TypeOK, Parts, BackupPart, MovePart, Local, PartTellsTheTruth
  <2>3. staged' \in [Request -> Contents] /\ backup' \in [Request -> Contents]
    BY <1>1, Values DEF IInv, TypeOK, Parts, BackupPart, MovePart
  <2> QED BY <2>1, <2>2, <2>3 DEF IInv, TypeOK, BackupPart, PC
<1>3. Local(r)'
  BY <1>1 DEF IInv, TypeOK, Parts, BackupPart, MovePart, Holding, Local, Route, PartTellsTheTruth,
         EndTellsTheTruth, CompleteTellsTheTruth
<1>4. Provenance'
  BY <1>1, KeepsProvenance DEF Narrows, BackupPart
<1>5. partRow'[number[r]] # None => dir # None /\ Kept(number[r])'
  <2> SUFFICES ASSUME partRow'[number[r]] # None PROVE dir # None /\ Kept(number[r])'
    OBVIOUS
  <2>1. dir # None /\ Kept(number[r])
    BY <1>1 DEF IInv, PartRecoverable, Kept, BackupPart
  <2> QED BY <1>1, <2>1 DEF Kept, BackupPart, MovePart, IInv, TypeOK, Parts, Local,
                 PartTellsTheTruth, Others, Same
<1>6. \A n \in Part : n # number[r] => file'[n] = file[n] /\ partRow'[n] = partRow[n]
  BY <1>1 DEF IInv, TypeOK, Parts, BackupPart, MovePart
<1>7. multipart # "open" => UNCHANGED partRow
  BY DEF IInv, BackupPart, Local, PartTellsTheTruth
<1> QED BY <1>1, <1>2, <1>3, <1>4, <1>5, <1>6, <1>7, PartStep DEF BackupPart

LEMMA PublishPartStep == ASSUME IInv, NEW r \in Request, PublishPart(r) PROVE IInv'
<1>1. Others(r) /\ Advances(r) /\ Holding(r) /\ kind[r] = "part" /\ number[r] \in Part
  BY DEF IInv, TypeOK, PublishPart, PlacePart, Others, Same, Advances, Holding, Local,
         PartTellsTheTruth
<1>2. TypeOK'
  <2>1. faults' \in 0..MaxFaults
    BY BoundAssumption DEF IInv, TypeOK, PublishPart
  <2>2. file' \in Parts /\ partRow' \in Parts
    BY <1>1 DEF IInv, TypeOK, Parts, PublishPart, PlacePart, Local, PartTellsTheTruth
  <2>3. staged' \in [Request -> Contents] /\ backup' \in [Request -> Contents]
    BY <1>1, Values DEF IInv, TypeOK, Parts, PublishPart, PlacePart
  <2> QED BY <2>1, <2>2, <2>3 DEF IInv, TypeOK, PublishPart, PC
<1>3. Local(r)'
  BY <1>1 DEF IInv, TypeOK, Parts, PublishPart, PlacePart, Holding, Local, Route,
         PartTellsTheTruth, EndTellsTheTruth, CompleteTellsTheTruth
<1>4. Provenance'
  BY <1>1, KeepsProvenance DEF Narrows, PublishPart
<1>5. partRow'[number[r]] # None => dir # None /\ Kept(number[r])'
  <2> SUFFICES ASSUME partRow'[number[r]] # None PROVE dir # None /\ Kept(number[r])'
    OBVIOUS
  <2>1. dir # None /\ Kept(number[r])
    BY <1>1 DEF IInv, PartRecoverable, Kept, PublishPart
  <2> QED BY <1>1, <2>1 DEF Kept, PublishPart, PlacePart, IInv, TypeOK, Parts, Local,
                 PartTellsTheTruth, Others, Same
<1>6. \A n \in Part : n # number[r] => file'[n] = file[n] /\ partRow'[n] = partRow[n]
  BY <1>1 DEF IInv, TypeOK, Parts, PublishPart, PlacePart
<1>7. multipart # "open" => UNCHANGED partRow
  BY DEF IInv, PublishPart, Local, PartTellsTheTruth
<1> QED BY <1>1, <1>2, <1>3, <1>4, <1>5, <1>6, <1>7, PartStep DEF PublishPart

LEMMA CommitPartStep == ASSUME IInv, NEW r \in Request, CommitPart(r) PROVE IInv'
<1>1. Others(r) /\ Advances(r) /\ Holding(r) /\ kind[r] = "part" /\ number[r] \in Part
  BY DEF IInv, TypeOK, CommitPart, Others, Same, Advances, Holding, Local,
         PartTellsTheTruth
<1>2. TypeOK'
  <2>1. faults' \in 0..MaxFaults
    BY BoundAssumption DEF IInv, TypeOK, CommitPart
  <2>2. file' \in Parts /\ partRow' \in Parts
    BY <1>1 DEF IInv, TypeOK, Parts, CommitPart, Local, PartTellsTheTruth
  <2>3. staged' \in [Request -> Contents] /\ backup' \in [Request -> Contents]
    BY <1>1, Values DEF IInv, TypeOK, Parts, CommitPart
  <2> QED BY <2>1, <2>2, <2>3 DEF IInv, TypeOK, CommitPart, PC
<1>3. Local(r)'
  BY <1>1 DEF IInv, TypeOK, Parts, CommitPart, Holding, Local, Route, PartTellsTheTruth,
         EndTellsTheTruth, CompleteTellsTheTruth
<1>4. Provenance'
  BY <1>1 DEF IInv, TypeOK, Parts, Provenance, CommitPart
<1>5. partRow'[number[r]] # None => dir # None /\ Kept(number[r])'
  <2>1. dir # None /\ file[number[r]] = r
    BY <1>1, NullAssumption DEF IInv, CommitPart, Local, PartTellsTheTruth
  <2>2. CASE UNCHANGED partRow
    BY <1>1, <2>1, <2>2 DEF IInv, PartRecoverable, Kept, CommitPart, Others
  <2>3. CASE partRow' = [partRow EXCEPT ![number[r]] = r]
    BY <1>1, <2>1, <2>3 DEF IInv, TypeOK, Parts, Kept, CommitPart
  <2> QED BY <2>1, <2>2, <2>3 DEF CommitPart
<1>6. \A n \in Part : n # number[r] => file'[n] = file[n] /\ partRow'[n] = partRow[n]
  BY <1>1 DEF IInv, TypeOK, Parts, CommitPart
<1>7. multipart # "open" => UNCHANGED partRow
  BY DEF IInv, CommitPart, Local, PartTellsTheTruth
<1> QED BY <1>1, <1>2, <1>3, <1>4, <1>5, <1>6, <1>7, PartStep DEF CommitPart

LEMMA DropPartBackupStep == ASSUME IInv, NEW r \in Request, DropPartBackup(r) PROVE IInv'
<1>1. Others(r) /\ Advances(r) /\ Holding(r) /\ kind[r] = "part" /\ number[r] \in Part
  BY DEF IInv, TypeOK, DropPartBackup, Others, Same, Advances, Holding, Local,
         PartTellsTheTruth
<1>2. TypeOK'
  <2>1. faults' \in 0..MaxFaults
    BY BoundAssumption DEF IInv, TypeOK, DropPartBackup
  <2>2. file' \in Parts /\ partRow' \in Parts
    BY <1>1 DEF IInv, TypeOK, Parts, DropPartBackup, Local, PartTellsTheTruth
  <2>3. staged' \in [Request -> Contents] /\ backup' \in [Request -> Contents]
    BY <1>1, Values DEF IInv, TypeOK, Parts, DropPartBackup
  <2> QED BY <2>1, <2>2, <2>3 DEF IInv, TypeOK, DropPartBackup, PC
<1>3. Local(r)'
  BY <1>1 DEF IInv, TypeOK, Parts, DropPartBackup, Holding, Local, Route, PartTellsTheTruth,
         EndTellsTheTruth, CompleteTellsTheTruth
<1>4. Provenance'
  BY <1>1, KeepsProvenance DEF Narrows, DropPartBackup
<1>5. partRow'[number[r]] # None => dir # None /\ Kept(number[r])'
  <2> SUFFICES ASSUME partRow'[number[r]] # None PROVE dir # None /\ Kept(number[r])'
    OBVIOUS
  <2>1. dir # None /\ Kept(number[r])
    BY <1>1 DEF IInv, PartRecoverable, Kept, DropPartBackup
  <2> QED BY <1>1, <2>1 DEF Kept, DropPartBackup, IInv, TypeOK, Parts, Local, PartTellsTheTruth,
                 Others, Same
<1>6. \A n \in Part : n # number[r] => file'[n] = file[n] /\ partRow'[n] = partRow[n]
  BY <1>1 DEF IInv, TypeOK, Parts, DropPartBackup
<1>7. multipart # "open" => UNCHANGED partRow
  BY DEF IInv, DropPartBackup, Local, PartTellsTheTruth
<1> QED BY <1>1, <1>2, <1>3, <1>4, <1>5, <1>6, <1>7, PartStep DEF DropPartBackup

LEMMA RestorePartStep == ASSUME IInv, NEW r \in Request, RestorePart(r) PROVE IInv'
<1>1. Others(r) /\ Advances(r) /\ Holding(r) /\ kind[r] = "part" /\ number[r] \in Part
  BY DEF IInv, TypeOK, RestorePart, Others, Same, Advances, Holding, Local,
         PartTellsTheTruth
<1>2. TypeOK'
  <2>1. faults' \in 0..MaxFaults
    BY BoundAssumption DEF IInv, TypeOK, RestorePart
  <2>2. file' \in Parts /\ partRow' \in Parts
    BY <1>1 DEF IInv, TypeOK, Parts, RestorePart, Local, PartTellsTheTruth
  <2>3. staged' \in [Request -> Contents] /\ backup' \in [Request -> Contents]
    BY <1>1, Values DEF IInv, TypeOK, Parts, RestorePart
  <2> QED BY <2>1, <2>2, <2>3 DEF IInv, TypeOK, RestorePart, PC
<1>3. Local(r)'
  BY <1>1 DEF IInv, TypeOK, Parts, RestorePart, Holding, Local, Route, PartTellsTheTruth,
         EndTellsTheTruth, CompleteTellsTheTruth
<1>4. Provenance'
  BY <1>1, KeepsProvenance DEF Narrows, RestorePart
<1>5. partRow'[number[r]] # None => dir # None /\ Kept(number[r])'
  <2> SUFFICES ASSUME partRow'[number[r]] # None PROVE dir # None /\ Kept(number[r])'
    OBVIOUS
  <2>1. dir # None /\ Kept(number[r])
    BY <1>1 DEF IInv, PartRecoverable, Kept, RestorePart
  <2> QED BY <1>1, <2>1 DEF Kept, RestorePart, Provenance, IInv, TypeOK, Parts, Local,
                 PartTellsTheTruth, Others, Same
<1>6. \A n \in Part : n # number[r] => file'[n] = file[n] /\ partRow'[n] = partRow[n]
  BY <1>1 DEF IInv, TypeOK, Parts, RestorePart
<1>7. multipart # "open" => UNCHANGED partRow
  BY DEF IInv, RestorePart, Local, PartTellsTheTruth
<1> QED BY <1>1, <1>2, <1>3, <1>4, <1>5, <1>6, <1>7, PartStep DEF RestorePart

------------------------------------------------------------------------------
(* Steps of a completion or an abort under the lock of the directory.       *)

LEMMA EndStep ==
    ASSUME IInv, TypeOK', NEW r \in Request, Others(r), Advances(r),
           kind[r] \in {"complete", "abort"}, Holding(r), Narrows, EndIsFinal',
           UNCHANGED file, dir # None => dir' # None,
           Local(r)'
    PROVE  IInv'
<1>1. pc[r] # "waiting"
  BY DEF Holding
<1>2. Creation' /\ Exclusion' /\ Provenance'
  BY <1>1, KeepsCreation, KeepsExclusion, KeepsProvenance
<1>3. PartRecoverable'
  BY KeepsParts DEF Narrows
<1>4. \A s \in Request : Local(s)'
  BY EndOthers DEF Narrows
<1> QED BY <1>2, <1>3, <1>4 DEF IInv

\* What the listed parts are concatenated to is some part, or there is nothing to do.
LEMMA AssembledParts ==
    ASSUME TypeOK, NEW r \in Request, listed[r] \in Listing, Stored(r)
    PROVE  Assembled(r) \in Listing
<1>1. Assembled(r) \in Parts
  BY DEF TypeOK, Parts, Assembled, Bytes
<1>2. PICK n \in Part : listed[r][n] # None
  BY DEF Listing, Parts, NoParts
<1>3. Assembled(r)[n] # None
  BY <1>2 DEF Stored, Assembled
<1> QED BY <1>1, <1>3 DEF Listing, NoParts

LEMMA AssembleStep == ASSUME IInv, NEW r \in Request, Assemble(r) PROVE IInv'
<1>1. /\ Others(r) /\ Advances(r) /\ Holding(r) /\ kind[r] \in {"complete", "abort"}
      /\ UNCHANGED file
  BY DEF IInv, TypeOK, Assemble, Stored, Intact, Others, Same, Advances, Holding, Local, Route
<1>2. TypeOK'
  <2>1. faults' \in 0..MaxFaults
    BY BoundAssumption DEF IInv, TypeOK, Assemble
  <2>2. Stored(r) => Assembled(r) \in Contents
    BY AssembledParts, Values DEF IInv, Local, CompleteTellsTheTruth, Assemble
  <2> QED BY <2>1, <2>2 DEF IInv, TypeOK, Assemble, PC
<1>3. Local(r)'
  BY DEF IInv, TypeOK, Assemble, Stored, Intact, Holding, Local, Route, PartTellsTheTruth,
         EndTellsTheTruth, CompleteTellsTheTruth
<1>4. Narrows
  BY DEF Assemble, Narrows, NoParts, IInv, Local, Route, EndTellsTheTruth
<1>5. EndIsFinal' /\ (dir # None => dir' # None)
  BY <1>1, NullAssumption DEF IInv, EndIsFinal, Assemble, Holding, Local, EndTellsTheTruth
<1> QED BY <1>1, <1>2, <1>3, <1>4, <1>5, EndStep

LEMMA PublishObjectStep == ASSUME IInv, NEW r \in Request, PublishObject(r) PROVE IInv'
<1>1. /\ Others(r) /\ Advances(r) /\ Holding(r) /\ kind[r] \in {"complete", "abort"}
      /\ UNCHANGED file
  BY DEF IInv, TypeOK, PublishObject, PlaceObject, Others, Same, Advances, Holding, Local, Route
<1>2. TypeOK'
  <2>1. faults' \in 0..MaxFaults
    BY BoundAssumption DEF IInv, TypeOK, PublishObject
  <2>2. object' \in Object /\ staged' \in [Request -> Contents]
    BY Values DEF IInv, TypeOK, PublishObject, PlaceObject, Local, CompleteTellsTheTruth
  <2> QED BY <2>1, <2>2 DEF IInv, TypeOK, PublishObject, PlaceObject, PC
<1>3. Local(r)'
  BY <1>1, Values, NullAssumption DEF IInv, TypeOK, PublishObject, PlaceObject, Holding, Local,
         Route, PartTellsTheTruth, EndTellsTheTruth, CompleteTellsTheTruth
<1>4. Narrows
  BY DEF PublishObject, Narrows, NoParts, IInv, Local, Route, EndTellsTheTruth
<1>5. EndIsFinal' /\ (dir # None => dir' # None)
  BY <1>1, NullAssumption DEF IInv, EndIsFinal, PublishObject, Holding, Local, EndTellsTheTruth
<1> QED BY <1>1, <1>2, <1>3, <1>4, <1>5, EndStep

LEMMA RestoreObjectStep == ASSUME IInv, NEW r \in Request, RestoreObject(r) PROVE IInv'
<1>1. /\ Others(r) /\ Advances(r) /\ Holding(r) /\ kind[r] \in {"complete", "abort"}
      /\ UNCHANGED file
  BY DEF IInv, TypeOK, RestoreObject, Others, Same, Advances, Holding, Local, Route
<1>2. TypeOK'
  <2>1. faults' \in 0..MaxFaults
    BY BoundAssumption DEF IInv, TypeOK, RestoreObject
  <2>2. object' \in Object /\ backup' \in [Request -> Contents]
    BY Values DEF IInv, TypeOK, RestoreObject, Local, CompleteTellsTheTruth
  <2> QED BY <2>1, <2>2 DEF IInv, TypeOK, RestoreObject, PC
<1>3. Local(r)'
  BY <1>1, Values, NullAssumption DEF IInv, TypeOK, RestoreObject, Holding, Local, Route,
         PartTellsTheTruth, EndTellsTheTruth, CompleteTellsTheTruth
<1>4. Narrows
  BY DEF RestoreObject, Narrows, NoParts, IInv, Local, Route, EndTellsTheTruth
<1>5. EndIsFinal' /\ (dir # None => dir' # None)
  BY <1>1, NullAssumption DEF IInv, EndIsFinal, RestoreObject, Holding, Local, EndTellsTheTruth
<1> QED BY <1>1, <1>2, <1>3, <1>4, <1>5, EndStep

LEMMA MoveAsideStep == ASSUME IInv, NEW r \in Request, MoveAside(r) PROVE IInv'
<1>1. /\ Others(r) /\ Advances(r) /\ Holding(r) /\ kind[r] \in {"complete", "abort"}
      /\ UNCHANGED file
  BY DEF IInv, TypeOK, MoveAside, Others, Same, Advances, Holding, Local, Route
<1>2. TypeOK'
  <2>1. faults' \in 0..MaxFaults
    BY BoundAssumption DEF IInv, TypeOK, MoveAside
  <2>2. dir' \in Request \cup {None, "upload"} /\ moved' \in [Request -> BOOLEAN]
    BY DEF IInv, TypeOK, MoveAside
  <2> QED BY <2>1, <2>2 DEF IInv, TypeOK, MoveAside, PC
<1>3. Local(r)'
  BY <1>1, Values, NullAssumption DEF IInv, TypeOK, MoveAside, Holding, Local, Route,
         PartTellsTheTruth, EndTellsTheTruth, CompleteTellsTheTruth
<1>4. Narrows
  BY DEF MoveAside, Narrows, NoParts, IInv, Local, Route, EndTellsTheTruth
<1>5. EndIsFinal' /\ (dir # None => dir' # None)
  BY <1>1, NullAssumption DEF IInv, EndIsFinal, MoveAside, Holding, Local, EndTellsTheTruth
<1> QED BY <1>1, <1>2, <1>3, <1>4, <1>5, EndStep

LEMMA CommitEndStep == ASSUME IInv, NEW r \in Request, CommitEnd(r) PROVE IInv'
<1>1. /\ Others(r) /\ Advances(r) /\ Holding(r) /\ kind[r] \in {"complete", "abort"}
      /\ UNCHANGED file
  BY DEF IInv, TypeOK, CommitEnd, Others, Same, Advances, Holding, Local, Route
<1>2. TypeOK'
  <2>1. faults' \in 0..MaxFaults
    BY BoundAssumption DEF IInv, TypeOK, CommitEnd
  <2>2. row' \in Object /\ partRow' \in Parts /\ multipart' \in {"none", "open", "ended"}
    BY Values DEF IInv, TypeOK, Parts, NoParts, CommitEnd, Local, CompleteTellsTheTruth
  <2> QED BY <2>1, <2>2 DEF IInv, TypeOK, CommitEnd, PC
<1>3. Local(r)'
  BY <1>1, Values, NullAssumption DEF IInv, TypeOK, CommitEnd, Holding, Local, Route,
         PartTellsTheTruth, EndTellsTheTruth, CompleteTellsTheTruth
<1>4. Narrows
  BY DEF CommitEnd, Narrows, NoParts, IInv, Local, Route, EndTellsTheTruth
<1>5. EndIsFinal' /\ (dir # None => dir' # None)
  BY <1>1, NullAssumption DEF IInv, EndIsFinal, CommitEnd, Holding, Local, EndTellsTheTruth
<1> QED BY <1>1, <1>2, <1>3, <1>4, <1>5, EndStep

LEMMA RestoreUploadStep == ASSUME IInv, NEW r \in Request, RestoreUpload(r) PROVE IInv'
<1>1. /\ Others(r) /\ Advances(r) /\ Holding(r) /\ kind[r] \in {"complete", "abort"}
      /\ UNCHANGED file
  BY DEF IInv, TypeOK, RestoreUpload, Others, Same, Advances, Holding, Local, Route
<1>2. TypeOK'
  <2>1. faults' \in 0..MaxFaults
    BY BoundAssumption DEF IInv, TypeOK, RestoreUpload
  <2>2. dir' \in Request \cup {None, "upload"}
    BY DEF IInv, TypeOK, RestoreUpload
  <2> QED BY <2>1, <2>2 DEF IInv, TypeOK, RestoreUpload, PC
<1>3. Local(r)'
  BY <1>1, Values, NullAssumption DEF IInv, TypeOK, RestoreUpload, Holding, Local, Route,
         PartTellsTheTruth, EndTellsTheTruth, CompleteTellsTheTruth
<1>4. Narrows
  BY DEF RestoreUpload, Narrows, NoParts, IInv, Local, Route, EndTellsTheTruth
<1>5. EndIsFinal' /\ (dir # None => dir' # None)
  BY <1>1, NullAssumption DEF IInv, EndIsFinal, RestoreUpload, Holding, Local, EndTellsTheTruth
<1> QED BY <1>1, <1>2, <1>3, <1>4, <1>5, EndStep

------------------------------------------------------------------------------
(* Steps of the creation.                                                   *)

LEMMA CreateStep ==
    ASSUME IInv, NEW r \in Request, CreateDirectory(r) \/ RemoveDirectory(r)
    PROVE  IInv'
<1>1. /\ Others(r) /\ Advances(r) /\ kind[r] = "create" /\ multipart = "none"
      /\ UNCHANGED <<db, file, bucketLock, temps, flags>> /\ pc[r] # "ok"
  BY DEF IInv, TypeOK, Creation, CreateDirectory, RemoveDirectory, Others, Same, Advances
<1>2. Narrows
  BY <1>1 DEF Narrows
<1>3. TypeOK'
  <2>1. faults' \in 0..MaxFaults /\ dir' \in Request \cup {None, "upload"}
    BY BoundAssumption DEF IInv, TypeOK, CreateDirectory, RemoveDirectory
  <2> QED BY <2>1 DEF IInv, TypeOK, CreateDirectory, RemoveDirectory, PC
<1>4. Creation' /\ Provenance'
  BY <1>1, <1>2, <1>3, KeepsCreation, KeepsProvenance
<1>5. Exclusion'
  BY <1>1 DEF IInv, Exclusion, Holding, Overlaps, Others, Same
<1>6. EndIsFinal' /\ PartRecoverable'
  BY <1>1 DEF IInv, Creation, EndIsFinal, PartRecoverable, NoParts
<1>7. Local(r)'
  BY <1>1 DEF IInv, TypeOK, CreateDirectory, RemoveDirectory, Local, Route, PartTellsTheTruth,
              EndTellsTheTruth, CompleteTellsTheTruth
<1> QED BY <1>1, <1>3, <1>4, <1>5, <1>6, <1>7, CreateOthers DEF IInv

LEMMA CreateRowStep == ASSUME IInv, NEW r \in Request, CreateRow(r) PROVE IInv'
<1>1. /\ Others(r) /\ kind[r] = "create" /\ pc[r] = "made" /\ multipart = "none"
      /\ UNCHANGED <<partRow, row, tree, bucketLock, temps, flags>>
      /\ \/ pc' = [pc EXCEPT ![r] = "ok"] /\ multipart' = "open"
         \/ pc' = [pc EXCEPT ![r] = "failed"] /\ multipart' = "none"
  BY DEF IInv, TypeOK, Creation, CreateRow, Others, Same
<1>2. TypeOK'
  <2>1. faults' \in 0..MaxFaults
    BY BoundAssumption DEF IInv, TypeOK, CreateRow
  <2> QED BY <1>1, <2>1 DEF IInv, TypeOK, CreateRow, PC
<1>3. partRow = NoParts /\ \A s \in Request : kind[s] \in {"none", "create"}
  BY <1>1 DEF IInv, Creation
<1>4. Creation'
  BY <1>1, <1>3 DEF IInv, TypeOK, Creation, Others, Same
<1>5. Exclusion' /\ Provenance' /\ PartRecoverable' /\ EndIsFinal'
  <2>1. \A s \in Request : ~ Holding(s)'
    BY <1>1, <1>3 DEF IInv, Creation, Holding, Others, Same
  <2> QED BY <1>1, <1>3, <2>1 DEF NoParts, Exclusion, Provenance, PartRecoverable, EndIsFinal
<1>6. Local(r)'
  BY <1>1 DEF IInv, TypeOK, Local, Route, PartTellsTheTruth, EndTellsTheTruth,
              CompleteTellsTheTruth, Others
<1> QED BY <1>1, <1>2, <1>4, <1>5, <1>6, CreateOthers DEF IInv

------------------------------------------------------------------------------
(* Arrival, locks, the removal of an ended upload, other uploads, crashes.  *)

LEMMA ArriveStep == ASSUME IInv, NEW r \in Request, Arrive(r) PROVE IInv'
<1>1. /\ pc[r] = "new" /\ kind[r] = "none" /\ pc' = [pc EXCEPT ![r] = "waiting"]
      /\ UNCHANGED <<db, tree, bucketLock, temps, flags, logged, faults, crashes>>
  BY DEF Arrive, IInv, Creation
<1>2. \E k \in {"create", "part", "complete", "abort"} :
          /\ kind' = [kind EXCEPT ![r] = k]
          /\ IF k = "create" THEN \A s \in Request : kind[s] = "none"
                             ELSE \E s \in Request : kind[s] = "create" /\ pc[s] = "ok"
          /\ \/ UNCHANGED number /\ k # "part"
             \/ \E n \in Part : number' = [number EXCEPT ![r] = n]
          /\ \/ UNCHANGED listed /\ k # "complete"
             \/ \E list \in Listing : listed' = [listed EXCEPT ![r] = list]
  BY DEF Arrive
<1>3. PICK k \in {"create", "part", "complete", "abort"} :
          /\ kind' = [kind EXCEPT ![r] = k]
          /\ IF k = "create" THEN \A s \in Request : kind[s] = "none"
                             ELSE \E s \in Request : kind[s] = "create" /\ pc[s] = "ok"
          /\ \/ UNCHANGED number /\ k # "part"
             \/ \E n \in Part : number' = [number EXCEPT ![r] = n]
          /\ \/ UNCHANGED listed /\ k # "complete"
             \/ \E list \in Listing : listed' = [listed EXCEPT ![r] = list]
  BY <1>2
<1>4. ASSUME NEW s \in Request, s # r
      PROVE  Same(s) /\ UNCHANGED <<kind[s], number[s], listed[s]>>
  BY <1>1, <1>3, <1>4 DEF IInv, TypeOK, Same
<1>5. /\ pc'[r] = "waiting" /\ kind'[r] = k /\ k # "none"
      /\ k = "part" => number'[r] \in Part
      /\ k = "complete" => listed'[r] \in Listing
  BY <1>1, <1>3 DEF IInv, TypeOK
<1>6. TypeOK'
  <2>1. /\ number' \in [Request -> Part \cup {None}]
        /\ listed' \in [Request -> Listing \cup {None}]
        /\ kind' \in [Request -> {"none", "create", "part", "complete", "abort"}]
    BY <1>3 DEF IInv, TypeOK
  <2> QED BY <1>1, <2>1 DEF IInv, TypeOK, PC
<1>7. Creation'
  <2>1. CASE k = "create"
    <3>1. multipart = "none" => partRow' = NoParts
      BY <1>1 DEF IInv, Creation
    <3>2. \A s \in Request : kind[s] = "none"
      BY <2>1, <1>3
    <3>3. multipart' = "none"
      BY <1>1, <3>2 DEF IInv, Creation
    <3> QED BY <1>1, <1>3, <1>4, <1>5, <2>1, <3>1, <3>2, <3>3 DEF IInv, Creation, Same
  <2>2. CASE k # "create"
    <3>1. multipart # "none" /\ multipart' = multipart
      BY <1>1, <1>3, <2>2 DEF IInv, Creation
    <3> QED BY <1>1, <1>3, <1>4, <1>5, <2>2, <3>1 DEF IInv, Creation, Same
  <2> QED BY <2>1, <2>2
<1>8. Exclusion'
  <2>1. ~ Holding(r)'
    BY <1>5 DEF Holding
  <2> QED BY <1>4, <2>1 DEF IInv, Exclusion, Holding, Overlaps, Same
<1>9. Provenance'
  <2> SUFFICES ASSUME NEW n \in Part, partRow[n] # None
               PROVE  /\ kind'[partRow[n]] = "part" /\ number'[partRow[n]] = n
                      /\ pc'[partRow[n]] \in {"committed", "ok", "dead"}
    BY <1>1 DEF Provenance
  <2>1. /\ partRow[n] \in Request /\ kind[partRow[n]] = "part" /\ number[partRow[n]] = n
        /\ pc[partRow[n]] \in {"committed", "ok", "dead"}
    BY DEF IInv, TypeOK, Parts, Provenance
  <2> QED BY <1>1, <1>4, <2>1 DEF Same
<1>10. EndIsFinal'
  BY <1>1 DEF IInv, EndIsFinal
<1>11. PartRecoverable'
  <2> SUFFICES ASSUME NEW n \in Part, partRow[n] # None, file[n] # partRow[n]
               PROVE  \E s \in Request :
                          kind'[s] = "part" /\ number'[s] = n /\ backup'[s] = partRow[n]
    BY <1>1 DEF IInv, PartRecoverable
  <2>1. PICK s \in Request : kind[s] = "part" /\ number[s] = n /\ backup[s] = partRow[n]
    BY DEF IInv, PartRecoverable
  <2> QED BY <1>1, <1>4, <2>1 DEF Same
<1>12. ASSUME NEW s \in Request PROVE Local(s)'
  <2>1. Local(s)
    BY DEF IInv
  <2>2. CASE s = r
    BY <1>1, <1>5, <2>1, <2>2, Values DEF Local, Route, PartTellsTheTruth, EndTellsTheTruth,
                                         CompleteTellsTheTruth, Holding
  <2>3. CASE s # r
    <3>1. Holding(s)' <=> Holding(s)
      BY <1>4, <2>3 DEF Same, Holding
    <3> QED BY <1>1, <1>4, <2>1, <2>3, <3>1 DEF Same, Local, Route, PartTellsTheTruth,
                                             EndTellsTheTruth, CompleteTellsTheTruth
  <2> QED BY <2>2, <2>3
<1> QED BY <1>6, <1>7, <1>8, <1>9, <1>10, <1>11, <1>12 DEF IInv

LEMMA LockStep == ASSUME IInv, NEW r \in Request, Lock(r) PROVE IInv'
<1>1. /\ Others(r) /\ pc[r] = "waiting" /\ pc' = [pc EXCEPT ![r] = "checking"]
      /\ kind[r] # "create" /\ pc'[r] = "checking"
      /\ UNCHANGED <<db, tree, bucketLock, inputs, temps, flags, logged, faults, crashes>>
  BY DEF IInv, TypeOK, Lock, Others, Same
<1>2. Advances(r) /\ Narrows
  BY <1>1 DEF Advances, Narrows
<1>3. TypeOK'
  BY <1>1 DEF IInv, TypeOK, PC
<1>4. Creation' /\ Provenance'
  BY <1>1, <1>2, <1>3, KeepsCreation, KeepsProvenance
<1>5. Exclusion'
  <2>1. \A s \in Request \ {r} : Holding(s)' <=> Holding(s)
    BY <1>1 DEF Holding, Others, Same
  <2>2. \A s, t \in Request :
            (Overlaps(s, t)' <=> Overlaps(s, t)) /\ (Overlaps(s, t) <=> Overlaps(t, s))
    BY <1>1 DEF Overlaps
  <2>3. \A s \in Request \ {r} : Holding(s) => ~ Overlaps(r, s)
    BY DEF Lock
  <2> QED BY <2>1, <2>2, <2>3 DEF IInv, Exclusion
<1>6. EndIsFinal'
  BY <1>1 DEF IInv, EndIsFinal
<1>7. PartRecoverable'
  BY <1>1, KeepsParts
<1>8. Local(r)'
  BY <1>1 DEF IInv, Local, Route, PartTellsTheTruth, EndTellsTheTruth, CompleteTellsTheTruth,
              Holding
<1> QED BY <1>1, <1>3, <1>4, <1>5, <1>6, <1>7, <1>8, QuietOthers DEF IInv

LEMMA RemoveUploadStep == ASSUME IInv, NEW r \in Request, RemoveUpload(r) PROVE IInv'
<1>1. /\ pc[r] = "removing" /\ pc' = [pc EXCEPT ![r] = "ok"] /\ multipart = "ended"
      /\ kind[r] \in {"complete", "abort"} /\ partRow = NoParts
      /\ UNCHANGED <<db, object, bucketLock, inputs, flags, crashes>>
      /\ dir' \in {dir, None} /\ file' \in {file, NoParts}
  BY DEF IInv, RemoveUpload, Local, Route, EndTellsTheTruth, EndIsFinal
<1>2. TypeOK'
  <2>1. faults' \in 0..MaxFaults /\ logged' \subseteq Request /\ file' \in Parts
    BY BoundAssumption DEF IInv, TypeOK, RemoveUpload, Parts, NoParts
  <2>2. staged' \in [Request -> Contents] /\ backup' \in [Request -> Contents]
    BY Values DEF IInv, TypeOK, RemoveUpload
  <2> QED BY <1>1, <2>1, <2>2 DEF IInv, TypeOK, PC
<1>3. ASSUME NEW s \in Request
      PROVE  /\ kind[s] # "part" => staged'[s] = staged[s] /\ backup'[s] = backup[s]
             /\ backup'[s] \in {backup[s], None}
             /\ s # r => pc'[s] = pc[s]
  BY DEF IInv, TypeOK, RemoveUpload
<1>4. \A s \in Request : Holding(s)' => Holding(s) /\ pc'[s] = pc[s]
  BY <1>1, <1>3 DEF IInv, TypeOK, Holding
<1>5. Creation'
  BY <1>1, <1>3 DEF IInv, TypeOK, Creation
<1>6. Exclusion'
  BY <1>1, <1>4 DEF IInv, Exclusion, Overlaps
<1>7. Provenance' /\ PartRecoverable'
  BY <1>1 DEF Provenance, PartRecoverable, NoParts
<1>8. EndIsFinal'
  BY <1>1, NullAssumption DEF IInv, EndIsFinal
<1>9. ASSUME NEW s \in Request PROVE Local(s)'
  <2>1. Local(s)
    BY DEF IInv
  <2>2. pc'[s] # pc[s] => s = r /\ pc'[s] = "ok"
    BY <1>1, <1>3 DEF IInv, TypeOK
  <2>3. Route(s)' /\ PartTellsTheTruth(s)'
    <3>1. kind[s] = "part" =>
             /\ pc[s] \notin {"staging", "staged", "saved", "published", "committed"}
             /\ Holding(s) => ~ backupCreated[s] /\ ~ written[s]
      BY <1>1, <2>1 DEF Local, PartTellsTheTruth
    <3> QED BY <1>1, <1>3, <1>4, <2>1, <2>2, <3>1 DEF Local, Route, PartTellsTheTruth, Holding
  <2>4. EndTellsTheTruth(s)'
    <3>1. pc[s] = "moved" /\ kind[s] \in {"complete", "abort"} => FALSE
      BY <1>1, <2>1 DEF Local, EndTellsTheTruth
    <3> QED BY <1>1, <1>4, <2>1, <2>2, <3>1 DEF Local, EndTellsTheTruth
  <2>5. CompleteTellsTheTruth(s)'
    BY <1>1, <1>3, <2>1, <2>2 DEF Local, CompleteTellsTheTruth
  <2> QED BY <2>3, <2>4, <2>5 DEF Local
<1> QED BY <1>2, <1>5, <1>6, <1>7, <1>8, <1>9 DEF IInv

LEMMA PutObjectStep == ASSUME IInv, PutObject PROVE IInv'
<1>1. TypeOK'
  BY DEF IInv, TypeOK, PutObject, Object
<1>2. Creation' /\ Exclusion' /\ Provenance' /\ EndIsFinal' /\ PartRecoverable'
  BY DEF IInv, PutObject, Creation, Exclusion, Holding, Overlaps, Provenance, EndIsFinal,
         PartRecoverable
<1>3. ASSUME NEW s \in Request PROVE Local(s)'
  <2>1. Local(s) /\ s # None
    BY NullAssumption DEF IInv
  <2> QED BY <2>1 DEF PutObject, Local, Route, PartTellsTheTruth, EndTellsTheTruth,
                      CompleteTellsTheTruth, Holding
<1> QED BY <1>1, <1>2, <1>3 DEF IInv

LEMMA CrashStep == ASSUME IInv, Crash PROVE IInv'
<1>1. /\ UNCHANGED <<db, tree, inputs, temps, flags, logged, faults>> /\ bucketLock' = None
      /\ \A s \in Request : pc'[s] = IF pc[s] \in {"new"} \cup Ended THEN pc[s] ELSE "dead"
  BY DEF Crash
<1>2. TypeOK'
  <2>1. crashes' \in 0..MaxCrashes
    BY BoundAssumption DEF IInv, TypeOK, Crash
  <2>2. pc' \in [Request -> PC]
    BY DEF IInv, TypeOK, Crash, PC
  <2> QED BY <1>1, <2>1, <2>2 DEF IInv, TypeOK
<1>3. \A s \in Request : ~ Holding(s)'
  BY <1>1 DEF Holding
<1>4. Creation'
  BY <1>1 DEF IInv, Creation
<1>5. Exclusion' /\ EndIsFinal' /\ PartRecoverable'
  BY <1>1, <1>3 DEF IInv, Exclusion, EndIsFinal, PartRecoverable
<1>6. Provenance'
  <2>1. \A n \in Part : partRow[n] # None => partRow[n] \in Request
    BY DEF IInv, TypeOK, Parts
  <2> QED BY <1>1, <2>1 DEF IInv, Provenance
<1>7. ASSUME NEW s \in Request PROVE Local(s)'
  <2>1. Local(s) /\ pc'[s] \in {"new"} \cup Ended /\ (pc'[s] = "new" => pc[s] = "new")
    BY <1>1 DEF IInv
  <2> QED BY <1>1, <1>3, <2>1 DEF Local, Route, PartTellsTheTruth, EndTellsTheTruth,
                                CompleteTellsTheTruth
<1> QED BY <1>2, <1>4, <1>5, <1>6, <1>7 DEF IInv

LEMMA InitIInv == Init => IInv
<1> SUFFICES ASSUME Init PROVE IInv
  OBVIOUS
<1>1. TypeOK
  BY Values, BoundAssumption DEF Init, TypeOK, Parts, NoParts, PC
<1>2. Creation /\ Exclusion /\ Provenance /\ EndIsFinal /\ PartRecoverable
  BY DEF Init, NoParts, Creation, Exclusion, Holding, Provenance, EndIsFinal, PartRecoverable
<1>3. \A r \in Request : Local(r)
  BY DEF Init, Local, Route, PartTellsTheTruth, EndTellsTheTruth, CompleteTellsTheTruth
<1> QED BY <1>1, <1>2, <1>3 DEF IInv

LEMMA IInvStep == IInv /\ [Next]_vars => IInv'
<1> SUFFICES ASSUME IInv, [Next]_vars PROVE IInv'
  OBVIOUS
<1>1. CASE UNCHANGED vars
  BY <1>1 DEF vars, IInv, TypeOK, Creation, Exclusion, Holding, Overlaps, Provenance, EndIsFinal,
              PartRecoverable, Local, Route, PartTellsTheTruth, EndTellsTheTruth,
              CompleteTellsTheTruth
<1>2. ASSUME NEW r \in Request, Arrive(r) \/ Lock(r) \/ Create(r) PROVE IInv'
  BY <1>2, ArriveStep, LockStep, CreateStep, CreateRowStep DEF Create
<1>3. ASSUME NEW r \in Request, UploadPart(r) PROVE IInv'
  BY <1>3, CheckUploadStep, StagePartStep, BackupPartStep, PublishPartStep, CommitPartStep,
     DropPartBackupStep, RestorePartStep DEF UploadPart
<1>4. ASSUME NEW r \in Request, Complete(r) PROVE IInv'
  BY <1>4, AssembleStep, LockBucketStep, NotImplementedStep, BackupObjectStep, PublishObjectStep,
     RestoreObjectStep DEF Complete
<1>5. ASSUME NEW r \in Request, End(r) PROVE IInv'
  BY <1>5, CheckAbortStep, MoveAsideStep, CommitEndStep, UnlockStep, DropObjectBackupStep,
     RemoveUploadStep, RestoreUploadStep DEF End
<1>6. ASSUME NEW r \in Request, Fail(r) PROVE IInv'
  BY <1>6, RollbackStep, DropStagedStep, AnswerErrorStep DEF Fail
<1> QED
  BY <1>1, <1>2, <1>3, <1>4, <1>5, <1>6, PutObjectStep, CrashStep DEF Next, Handle

------------------------------------------------------------------------------
(* The object: a replace is durable, or did nothing.                        *)

LEMMA ObjectOthers ==
    ASSUME IInv, OInv, NEW r \in Request, Others(r), UNCHANGED <<multipart, row, object>>,
           bucketLock' # bucketLock => bucketLock \in {r, None},
           NEW s \in Request \ {r}
    PROVE  ObjectTellsTheTruth(s)'
<1>1. ObjectTellsTheTruth(s) /\ s # None
  BY NullAssumption DEF OInv
<1> QED BY <1>1 DEF ObjectTellsTheTruth, Others, Same

\* Nothing is lost while the object, its row and the backups of completions stay.
LEMMA KeepsObject ==
    ASSUME OInv, NEW r \in Request, Others(r), UNCHANGED <<row, object>>,
           kind[r] = "complete" => backup'[r] = backup[r] \/ backup[r] = object
    PROVE  ObjectRecoverable'
<1> SUFFICES ASSUME row # None, object # row
             PROVE  \E s \in Request : kind'[s] = "complete" /\ backup'[s] = row
  BY DEF ObjectRecoverable
<1>1. PICK s \in Request : kind[s] = "complete" /\ backup[s] = row
  BY DEF OInv, ObjectRecoverable
<1>2. backup'[s] = backup[s]
  BY <1>1 DEF Others, Same
<1> QED BY <1>1, <1>2 DEF Others

\* Steps under the locks, of whatever service, that leave the object alone.
LEMMA ObjectStep ==
    ASSUME IInv, OInv, NEW r \in Request, Others(r), UNCHANGED <<multipart, row, object>>,
           bucketLock' # bucketLock => bucketLock \in {r, None},
           kind[r] = "complete" =>
               (backup'[r] = backup[r] \/ backup[r] = object) /\ ObjectTellsTheTruth(r)'
    PROVE  OInv'
<1>1. ObjectTellsTheTruth(r)'
  BY DEF ObjectTellsTheTruth, Others
<1>2. \A s \in Request : ObjectTellsTheTruth(s)'
  BY <1>1, ObjectOthers
<1> QED BY <1>2, KeepsObject DEF OInv

\* The services that do not touch objects.
LEMMA OtherServicesStep ==
    ASSUME IInv, OInv, NEW r \in Request, kind[r] # "complete",
           Lock(r) \/ Create(r) \/ UploadPart(r) \/ Complete(r) \/ CheckAbort(r) \/ MoveAside(r)
               \/ Unlock(r) \/ DropObjectBackup(r) \/ RestoreUpload(r) \/ Fail(r)
    PROVE  OInv'
<1>1. CASE CreateRow(r)
  <2>1. multipart' # "ended" => multipart # "ended"
    BY <1>1 DEF IInv, Creation, CreateRow
  <2>2. \A s \in Request : kind'[s] # "complete"
    BY <1>1 DEF IInv, Creation, CreateRow
  <2>3. row = None \/ row = Other
    BY <1>1 DEF IInv, Creation, CreateRow, OInv
  <2>4. ObjectRecoverable'
    BY <1>1 DEF OInv, ObjectRecoverable, CreateRow
  <2> QED BY <1>1, <2>2, <2>3, <2>4 DEF OInv, ObjectTellsTheTruth, CreateRow
<1>2. CASE ~ CreateRow(r)
  <2>1. UNCHANGED <<multipart, row, object>>
    BY <1>2 DEF Lock, Create, UploadPart, Complete, Fail, CreateDirectory, RemoveDirectory,
                CheckUpload, StagePart, BackupPart, PublishPart, CommitPart, DropPartBackup,
                RestorePart, Assemble, LockBucket, NotImplemented, BackupObject, PublishObject,
                RestoreObject, CheckAbort, MoveAside, Unlock, DropObjectBackup, RestoreUpload,
                Rollback, DropStaged, AnswerError
  <2>2. bucketLock' # bucketLock => bucketLock \in {r, None}
    BY <1>2 DEF Lock, Create, UploadPart, Complete, Fail, CreateDirectory, RemoveDirectory,
                CheckUpload, StagePart, BackupPart, PublishPart, CommitPart, DropPartBackup,
                RestorePart, Assemble, LockBucket, NotImplemented, BackupObject, PublishObject,
                RestoreObject, CheckAbort, MoveAside, Unlock, DropObjectBackup, RestoreUpload,
                Rollback, DropStaged, AnswerError
  <2>3. Others(r)
    <3>1. CASE Lock(r) \/ Create(r) \/ Fail(r) \/ Unlock(r) \/ CheckAbort(r)
      BY <1>2, <3>1 DEF IInv, TypeOK, Others, Same, Lock, Create, Fail, CreateDirectory,
                        RemoveDirectory, Unlock, CheckAbort, Rollback, DropStaged, AnswerError
    <3>2. CASE UploadPart(r)
      BY <3>2 DEF IInv, TypeOK, Others, Same, UploadPart, CheckUpload, StagePart, BackupPart,
                  PublishPart, CommitPart, DropPartBackup, RestorePart, MovePart, PlacePart
    <3>3. CASE MoveAside(r) \/ DropObjectBackup(r) \/ RestoreUpload(r)
      BY <3>3 DEF IInv, TypeOK, Others, Same, MoveAside, DropObjectBackup, RestoreUpload
    <3>4. CASE Complete(r)
      BY <3>4 DEF Complete, Assemble, LockBucket, NotImplemented, BackupObject, PublishObject,
                  RestoreObject
    <3> QED BY <3>1, <3>2, <3>3, <3>4
  <2> QED BY <2>1, <2>2, <2>3, ObjectStep
<1> QED BY <1>1, <1>2

\* The steps of a completion that leave object and row alone.
LEMMA CompletionStep ==
    ASSUME FsyncMayFail = FALSE, IInv, OInv, NEW r \in Request, kind[r] = "complete",
           Lock(r) \/ Assemble(r) \/ LockBucket(r) \/ NotImplemented(r) \/ BackupObject(r)
               \/ MoveAside(r) \/ Unlock(r) \/ DropObjectBackup(r) \/ RestoreUpload(r) \/ Fail(r)
    PROVE  OInv'
<1>1. Others(r) /\ UNCHANGED <<multipart, row, object>>
  BY DEF IInv, TypeOK, Others, Same, Lock, Assemble, LockBucket, NotImplemented, BackupObject,
         MoveAside, Unlock, DropObjectBackup, RestoreUpload, Fail, Rollback, DropStaged,
         AnswerError
<1>2. bucketLock' # bucketLock => bucketLock \in {r, None}
  BY DEF IInv, Local, CompleteTellsTheTruth, Lock, Assemble, LockBucket, NotImplemented,
         BackupObject, MoveAside, Unlock, DropObjectBackup, RestoreUpload, Fail, Rollback,
         DropStaged, AnswerError
<1>3. Local(r) /\ ObjectTellsTheTruth(r)
  BY DEF IInv, OInv
<1>4. CASE Lock(r) \/ Assemble(r) \/ LockBucket(r) \/ NotImplemented(r) \/ Unlock(r)
           \/ RestoreUpload(r) \/ Fail(r)
  <2>1. ObjectTellsTheTruth(r)' /\ backup'[r] = backup[r]
    BY <1>3, <1>4 DEF IInv, TypeOK, ObjectTellsTheTruth, Lock, Assemble, LockBucket,
           NotImplemented, Unlock, RestoreUpload, Fail, Rollback, DropStaged, AnswerError
  <2> QED BY <1>1, <1>2, <2>1, ObjectStep
<1>5. CASE BackupObject(r)
  <2>1. ObjectTellsTheTruth(r)'
    BY <1>3, <1>5 DEF IInv, TypeOK, ObjectTellsTheTruth, BackupObject, Local,
           CompleteTellsTheTruth
  <2>2. ObjectRecoverable'
    <3>1. ASSUME row # None, object # row
          PROVE  \E s \in Request : kind'[s] = "complete" /\ backup'[s] = row
      <4>1. PICK s \in Request : kind[s] = "complete" /\ backup[s] = row
        BY <3>1 DEF OInv, ObjectRecoverable
      <4>2. s # r
        BY <1>3, <1>5, <3>1, <4>1 DEF ObjectTellsTheTruth, BackupObject
      <4> QED BY <1>1, <4>1, <4>2 DEF Others, Same
    <3> QED BY <1>1, <3>1 DEF ObjectRecoverable
  <2> QED BY <1>1, <1>2, <2>1, <2>2, ObjectOthers DEF OInv
<1>6. CASE MoveAside(r)
  <2>1. ObjectTellsTheTruth(r)' /\ backup'[r] = backup[r]
    BY <1>3, <1>6 DEF IInv, TypeOK, ObjectTellsTheTruth, MoveAside, Local, CompleteTellsTheTruth,
                      EndTellsTheTruth
  <2> QED BY <1>1, <1>2, <2>1, ObjectStep
<1>7. CASE DropObjectBackup(r)
  <2>1. ObjectTellsTheTruth(r)' /\ object = row
    BY <1>3, <1>7 DEF IInv, TypeOK, ObjectTellsTheTruth, DropObjectBackup
  <2>2. ObjectRecoverable'
    BY <1>1, <2>1 DEF ObjectRecoverable
  <2> QED BY <1>1, <1>2, <2>1, <2>2, ObjectOthers DEF OInv
<1> QED BY <1>4, <1>5, <1>6, <1>7

LEMMA PublishObjectKeeps ==
    ASSUME FsyncMayFail = FALSE, IInv, OInv, NEW r \in Request, PublishObject(r)
    PROVE  OInv'
<1>1. /\ Others(r) /\ kind[r] = "complete" /\ pc[r] = "saved" /\ multipart = "open"
      /\ bucketLock = r /\ staged[r] = listed[r] /\ ObjectTellsTheTruth(r)
      /\ UNCHANGED <<db, bucketLock, backup, backupCreated>>
  BY DEF IInv, TypeOK, Others, Same, PublishObject, PlaceObject, Local, CompleteTellsTheTruth,
         EndTellsTheTruth, OInv
<1>2. CASE UNCHANGED object
  <2>1. ObjectTellsTheTruth(r)' /\ backup'[r] = backup[r]
    BY <1>1, <1>2 DEF IInv, TypeOK, ObjectTellsTheTruth, PublishObject, PlaceObject
  <2> QED BY <1>1, <1>2, <2>1, ObjectStep
<1>3. CASE object' = staged[r] /\ pc'[r] = "published" /\ written'[r]
  <2>1. ObjectTellsTheTruth(r)'
    BY <1>1, <1>3 DEF ObjectTellsTheTruth, Others
  <2>2. ASSUME NEW s \in Request, s # r PROVE ObjectTellsTheTruth(s)'
    <3>1. ObjectTellsTheTruth(s) /\ EndTellsTheTruth(s) /\ CompleteTellsTheTruth(s)
      BY DEF IInv, OInv, Local
    <3> QED BY <1>1, <2>2, <3>1 DEF ObjectTellsTheTruth, EndTellsTheTruth,
                                    CompleteTellsTheTruth, Others, Same
  <2>3. ObjectRecoverable'
    <3>1. CASE row # None /\ object = row
      <4>1. backup[r] = row
        BY <1>1, <3>1 DEF ObjectTellsTheTruth
      <4> QED BY <1>1, <4>1 DEF ObjectRecoverable, Others
    <3>2. CASE row # None /\ \E s \in Request : kind[s] = "complete" /\ backup[s] = row
      BY <1>1, <3>2 DEF ObjectRecoverable, Others
    <3>3. CASE row = None
      BY <1>1, <3>3 DEF ObjectRecoverable
    <3> QED BY <3>1, <3>2, <3>3 DEF OInv, ObjectRecoverable
  <2> QED BY <1>1, <2>1, <2>2, <2>3 DEF OInv
<1> QED BY <1>2, <1>3 DEF PublishObject, PlaceObject, IInv, TypeOK

LEMMA RestoreObjectKeeps ==
    ASSUME IInv, OInv, NEW r \in Request, RestoreObject(r)
    PROVE  OInv'
<1>1. /\ Others(r) /\ kind[r] = "complete" /\ pc[r] = "rolledback" /\ pc'[r] = "objectdone"
      /\ ObjectTellsTheTruth(r) /\ UNCHANGED <<db, bucketLock, kind, written>>
  BY DEF IInv, TypeOK, Others, Same, RestoreObject, OInv
<1>2. ObjectTellsTheTruth(r)'
  BY <1>1 DEF ObjectTellsTheTruth
<1>3. CASE ~ written[r]
  <2>1. UNCHANGED object /\ (backup'[r] = backup[r] \/ backup[r] = object)
    BY <1>1, <1>3 DEF IInv, TypeOK, RestoreObject, ObjectTellsTheTruth
  <2> QED BY <1>1, <1>2, <2>1, ObjectStep
<1>4. CASE written[r]
  <2>1. /\ object = listed[r] /\ listed[r] \in Listing /\ bucketLock = r /\ multipart = "open"
        /\ object # row /\ r # None
    BY <1>1, <1>4, NullAssumption DEF IInv, OInv, Local, CompleteTellsTheTruth,
                                      ObjectTellsTheTruth, Listing, Parts
  <2>2. ASSUME NEW s \in Request, s # r PROVE ObjectTellsTheTruth(s)'
    <3>1. ObjectTellsTheTruth(s) /\ EndTellsTheTruth(s) /\ CompleteTellsTheTruth(s)
      BY DEF IInv, OInv, Local
    <3> QED BY <1>1, <2>1, <2>2, <3>1 DEF ObjectTellsTheTruth, EndTellsTheTruth,
                                          CompleteTellsTheTruth, Others, Same
  <2>3. backup'[r] = backup[r] \/ object' = backup[r]
    BY <1>1, <1>4 DEF IInv, TypeOK, RestoreObject
  <2>4. ObjectRecoverable'
    <3> SUFFICES ASSUME row # None, object' # row
                 PROVE  \E s \in Request : kind'[s] = "complete" /\ backup'[s] = row
      BY <1>1 DEF ObjectRecoverable
    <3>1. PICK s \in Request : kind[s] = "complete" /\ backup[s] = row
      BY <2>1 DEF OInv, ObjectRecoverable
    <3>2. backup'[s] = backup[s]
      BY <1>1, <2>3, <3>1 DEF Others, Same
    <3> QED BY <1>1, <3>1, <3>2
  <2> QED BY <1>1, <1>2, <2>2, <2>4 DEF OInv
<1> QED BY <1>3, <1>4 DEF IInv, TypeOK

LEMMA CommitEndKeeps ==
    ASSUME IInv, OInv, NEW r \in Request, CommitEnd(r)
    PROVE  OInv'
<1>1. /\ Others(r) /\ kind[r] \in {"complete", "abort"} /\ pc[r] = "moved"
      /\ multipart = "open" /\ Holding(r) /\ ObjectTellsTheTruth(r)
      /\ UNCHANGED <<object, bucketLock, backup, backupCreated, written>>
      /\ kind[r] = "complete" => object = listed[r]
  BY DEF IInv, TypeOK, Others, Same, CommitEnd, Holding, OInv, Local, Route, EndTellsTheTruth,
         CompleteTellsTheTruth
<1>2. CASE UNCHANGED db
  <2>1. ObjectTellsTheTruth(r)'
    BY <1>1, <1>2 DEF IInv, TypeOK, ObjectTellsTheTruth, CommitEnd
  <2> QED BY <1>1, <1>2, <2>1, ObjectStep
<1>3. CASE /\ pc'[r] = "committed" /\ multipart' = "ended"
           /\ row' = IF kind[r] = "complete" THEN listed[r] ELSE row
  <2>1. ObjectTellsTheTruth(r)'
    BY <1>1, <1>3 DEF ObjectTellsTheTruth, Others
  <2>2. ASSUME NEW s \in Request, s # r PROVE ObjectTellsTheTruth(s)'
    <3>1. ObjectTellsTheTruth(s) /\ EndTellsTheTruth(s)
      BY DEF IInv, OInv, Local
    <3>2. pc[s] \in Outside \/ kind[s] = "create"
      BY <1>1, <2>2 DEF IInv, Exclusion, Overlaps, Holding
    <3> QED BY <1>1, <2>2, <3>1, <3>2 DEF ObjectTellsTheTruth, EndTellsTheTruth, Others, Same
  <2>3. ObjectRecoverable'
    BY <1>1, <1>3 DEF OInv, ObjectRecoverable, Others
  <2> QED BY <1>3, <2>1, <2>2, <2>3 DEF OInv
<1> QED BY <1>2, <1>3 DEF CommitEnd, IInv, TypeOK

LEMMA OInvStep ==
    ASSUME FsyncMayFail = FALSE, IInv, OInv, [Next]_vars
    PROVE  OInv'
<1>1. CASE UNCHANGED vars
  BY <1>1 DEF vars, OInv, ObjectTellsTheTruth, ObjectRecoverable
<1>2. ASSUME NEW r \in Request, Arrive(r) PROVE OInv'
  <2>1. /\ pc[r] = "new" /\ kind[r] = "none" /\ pc'[r] = "waiting"
        /\ UNCHANGED <<db, tree, bucketLock, temps, flags>>
        /\ \A s \in Request : s # r => pc'[s] = pc[s] /\ kind'[s] = kind[s]
                                     /\ listed'[s] = listed[s]
    BY <1>2 DEF IInv, TypeOK, Creation, Arrive
  <2>2. Route(r)
    BY DEF IInv, Local
  <2>3. ASSUME NEW s \in Request PROVE ObjectTellsTheTruth(s)'
    BY <2>1, <2>2 DEF OInv, ObjectTellsTheTruth, Route
  <2>4. ObjectRecoverable'
    BY <2>1 DEF OInv, ObjectRecoverable
  <2> QED BY <2>1, <2>3, <2>4 DEF OInv
<1>3. ASSUME NEW r \in Request, kind[r] # "complete", Handle(r), ~ RemoveUpload(r), ~ CommitEnd(r)
      PROVE  OInv'
  BY <1>3, OtherServicesStep DEF Handle, End
<1>4. ASSUME NEW r \in Request, kind[r] = "complete", Handle(r), ~ RemoveUpload(r), ~ CommitEnd(r)
      PROVE  OInv'
  <2>1. ~ Create(r) /\ ~ UploadPart(r) /\ ~ CheckAbort(r)
    BY <1>4 DEF Create, CreateDirectory, CreateRow, RemoveDirectory, UploadPart, CheckUpload,
                StagePart, BackupPart, PublishPart, CommitPart, DropPartBackup, RestorePart,
                CheckAbort
  <2> QED BY <1>4, <2>1, CompletionStep, PublishObjectKeeps, RestoreObjectKeeps
          DEF Handle, End, Complete
<1>5. ASSUME NEW r \in Request, RemoveUpload(r) PROVE OInv'
  <2>1. /\ UNCHANGED <<db, object, bucketLock, inputs, flags>>
        /\ pc' = [pc EXCEPT ![r] = "ok"]
        /\ \A s \in Request : kind[s] = "complete" => backup'[s] = backup[s]
    BY <1>5 DEF RemoveUpload
  <2>2. ASSUME NEW s \in Request PROVE ObjectTellsTheTruth(s)'
    BY <2>1 DEF OInv, ObjectTellsTheTruth, IInv, TypeOK
  <2>3. ObjectRecoverable'
    BY <2>1 DEF OInv, ObjectRecoverable
  <2> QED BY <2>1, <2>2, <2>3 DEF OInv
<1>6. CASE PutObject
  <2>1. ASSUME NEW s \in Request PROVE ObjectTellsTheTruth(s)'
    <3>1. ObjectTellsTheTruth(s) /\ CompleteTellsTheTruth(s) /\ s # None
      BY NullAssumption DEF IInv, OInv, Local
    <3> QED BY <1>6, <3>1 DEF PutObject, ObjectTellsTheTruth, CompleteTellsTheTruth
  <2> QED BY <1>6, <2>1 DEF PutObject, OInv, ObjectRecoverable
<1>7. CASE Crash
  <2>1. ASSUME NEW s \in Request PROVE ObjectTellsTheTruth(s)'
    BY <1>7 DEF Crash, OInv, ObjectTellsTheTruth
  <2>2. ObjectRecoverable'
    BY <1>7 DEF Crash, OInv, ObjectRecoverable
  <2> QED BY <1>7, <2>1, <2>2 DEF Crash, OInv
<1> QED
  BY <1>1, <1>2, <1>3, <1>4, <1>5, <1>6, <1>7, CommitEndKeeps DEF Next

------------------------------------------------------------------------------
(* The theorems.                                                            *)

\* The inductive invariant holds of every behaviour.
THEOREM Invariant == Spec => []IInv
  BY InitIInv, IInvStep, PTL DEF Spec

\* Multipart stays within its types, through faults and crashes.
THEOREM TypeCorrect == Spec => []TypeOK
<1>1. IInv => TypeOK
  BY DEF IInv
<1> QED BY <1>1, Invariant, PTL

\* multipart_complete.py and multipart_abort.py: nothing is added to an upload that has
\* ended, and nothing is at its path.
THEOREM EndsFinally == Spec => []EndIsFinal
<1>1. IInv => EndIsFinal
  BY DEF IInv
<1> QED BY <1>1, Invariant, PTL

\* multipart_upload.py: the payload of an acknowledged part is in its file or in a backup
\* until the upload ends, whatever fails and whenever the process is killed.
THEOREM PartsKept == Spec => []PartRecoverable
<1>1. IInv => PartRecoverable
  BY DEF IInv
<1> QED BY <1>1, Invariant, PTL

\* multipart_complete.py: the bytes at the key are those of the row when it is committed.
THEOREM BytesCommitted == Spec => CommittedBytes
<1>1. IInv /\ [Next]_vars => [row' # row => object' = row']_vars
  <2> SUFFICES ASSUME IInv, Next, row' # row PROVE object' = row'
    BY DEF vars
  <2>1. CASE PutObject
    BY <2>1 DEF PutObject
  <2>2. CASE \E r \in Request : CommitEnd(r)
    BY <2>2 DEF IInv, Local, CompleteTellsTheTruth, CommitEnd
  <2>3. CASE ~ PutObject /\ ~ \E r \in Request : CommitEnd(r)
    BY <2>3 DEF Next, Handle, Arrive, Lock, Create, UploadPart, Complete, End, Fail, Crash,
                CreateDirectory, CreateRow, RemoveDirectory, CheckUpload, StagePart, BackupPart,
                PublishPart, CommitPart, DropPartBackup, RestorePart, Assemble, LockBucket,
                NotImplemented, BackupObject, PublishObject, RestoreObject, CheckAbort, MoveAside,
                Unlock, DropObjectBackup, RemoveUpload, RestoreUpload, Rollback, DropStaged,
                AnswerError
  <2> QED BY <2>1, <2>2, <2>3
<1> QED BY <1>1, Invariant, PTL DEF Spec, CommittedBytes

\* The four services implement the upload that UploadSession promises: it is opened once,
\* and ends once, as the object made of exactly the listed parts or as nothing.
THEOREM Refinement == Spec => ImplementsSession
<1>1. Init => Session!Init
  BY DEF Init, Session!Init, NoParts, Session!NoParts
<1>2. IInv /\ [Next]_vars => [Session!Next]_(Session!vars)
  <2> SUFFICES ASSUME IInv, Next, <<multipart, partRow, row>>' # <<multipart, partRow, row>>
               PROVE  Session!Next
    BY DEF vars, Session!vars
  <2>1. CASE PutObject
    BY <2>1 DEF PutObject, Session!Next, Session!PutObject
  <2>2. ASSUME NEW r \in Request, CreateRow(r) PROVE Session!Next
    BY <2>2 DEF CreateRow, IInv, Creation, Session!Next, Session!Open
  <2>3. ASSUME NEW r \in Request, CommitPart(r) PROVE Session!Next
    <3>1. number[r] \in Part /\ multipart = "open"
      BY <2>3 DEF CommitPart, IInv, Local, PartTellsTheTruth
    <3> QED BY <2>3, <3>1 DEF CommitPart, Session!Next, Session!PutPart
  <2>4. ASSUME NEW r \in Request, CommitEnd(r) PROVE Session!Next
    <3>1. multipart = "open" /\ kind[r] \in {"complete", "abort"}
      BY <2>4 DEF CommitEnd, IInv, Local, Route, EndTellsTheTruth
    <3>2. kind[r] = "complete" =>
             listed[r] \in Listing /\ \A n \in Part : listed[r][n] \in {None, partRow[n]}
      BY <2>4 DEF CommitEnd, IInv, Local, CompleteTellsTheTruth
    <3>3. multipart' = "ended" /\ partRow' = NoParts
          /\ row' = IF kind[r] = "complete" THEN listed[r] ELSE row
      BY <2>4 DEF CommitEnd
    <3>4. CASE kind[r] = "complete"
      BY <3>1, <3>2, <3>3, <3>4 DEF Session!Next, Session!Complete, Session!Parts,
             Session!NoParts, Listing, Parts, NoParts
    <3>5. CASE kind[r] = "abort"
      BY <3>1, <3>3, <3>5 DEF Session!Next, Session!Abort, Session!NoParts, NoParts
    <3> QED BY <3>1, <3>4, <3>5
  <2>5. CASE ~ \/ PutObject
               \/ \E r \in Request : CreateRow(r) \/ CommitPart(r) \/ CommitEnd(r)
    BY <2>5 DEF Next, Handle, Arrive, Lock, Create, UploadPart, Complete, End, Fail, Crash,
                CreateDirectory, RemoveDirectory, CheckUpload, StagePart, BackupPart,
                PublishPart, DropPartBackup, RestorePart, Assemble, LockBucket,
                NotImplemented, BackupObject, PublishObject, RestoreObject, CheckAbort, MoveAside,
                Unlock, DropObjectBackup, RemoveUpload, RestoreUpload, Rollback, DropStaged,
                AnswerError
  <2> QED BY <2>1, <2>2, <2>3, <2>4, <2>5
<1> QED BY <1>1, <1>2, Invariant, PTL DEF Spec, ImplementsSession, Session!Spec

\* multipart_complete.py: if the fsync of a replace does not fail after the replace, the
\* bytes of the committed object are at its key or in a backup that a completion made.
THEOREM ObjectKept ==
    ASSUME FsyncMayFail = FALSE
    PROVE  Spec => []ObjectRecoverable
<1>1. Init => OInv
  BY DEF Init, OInv, ObjectTellsTheTruth, ObjectRecoverable
<1>2. IInv /\ OInv /\ [Next]_vars => OInv'
  BY OInvStep
<1>3. OInv => ObjectRecoverable
  BY DEF OInv
<1> QED BY <1>1, <1>2, <1>3, Invariant, PTL DEF Spec

------------------------------------------------------------------------------
(* What a request leaves behind, when a call that raises did nothing.       *)

\* The temporary files of a request, and the upload it moved to its cleanup path: each
\* has a flag or a place in the handler that leads to its removal.
Leaves(r) ==
    /\ backup[r] # None => backupCreated[r]
    /\ kind[r] \in {"none", "create", "abort"} => staged[r] = None /\ backup[r] = None
    /\ pc[r] \in {"new", "waiting", "checking", "published", "moved", "committed", "cleaning",
                  "removing", "ok"} => staged[r] = None
    /\ dir = r => moved[r] /\ kind[r] \in {"complete", "abort"}
    /\ r \notin logged =>
          /\ pc[r] \in {"reconciled", "error"} => staged[r] = None
          /\ pc[r] \in {"objectdone", "restored", "reconciled", "error", "removing", "ok"} =>
                backup[r] = None
          /\ pc[r] \in {"restored", "reconciled", "error", "ok"} => dir # r

LInv == \A r \in Request : Leaves(r)

\* What a step of r leaves alone of another request: rmtree takes the temporary files of
\* part uploads with the directory, and nobody moves the upload to a path not its own.
Apart(s) ==
    /\ pc'[s] = pc[s] /\ backupCreated'[s] = backupCreated[s] /\ written'[s] = written[s]
    /\ moved'[s] = moved[s]
    /\ staged'[s] \in {staged[s], None} /\ backup'[s] \in {backup[s], None}
    /\ s \in logged' <=> s \in logged
    /\ dir' = s => dir = s

LEMMA HandleFrame ==
    ASSUME IInv, NEW r \in Request, Handle(r)
    PROVE  /\ UNCHANGED inputs /\ logged \subseteq logged'
           /\ \A s \in Request \ {r} : Apart(s)
<1> USE NullAssumption DEF Apart, IInv, TypeOK
<1>1. CASE Lock(r) \/ Create(r) \/ Fail(r)
  BY <1>1 DEF Lock, Create, CreateDirectory, CreateRow, RemoveDirectory, Fail, Rollback,
              DropStaged, AnswerError
<1>2. CASE UploadPart(r)
  BY <1>2 DEF UploadPart, CheckUpload, StagePart, BackupPart, PublishPart, CommitPart,
              DropPartBackup, RestorePart, MovePart, PlacePart
<1>3. CASE Complete(r)
  BY <1>3 DEF Complete, Assemble, LockBucket, NotImplemented, BackupObject, PublishObject,
              PlaceObject, RestoreObject
<1>4. CASE CheckAbort(r) \/ MoveAside(r) \/ CommitEnd(r) \/ Unlock(r) \/ DropObjectBackup(r)
           \/ RestoreUpload(r)
  BY <1>4 DEF CheckAbort, MoveAside, CommitEnd, Unlock, DropObjectBackup, RestoreUpload
<1>5. CASE RemoveUpload(r)
  BY <1>5 DEF RemoveUpload
<1> QED BY <1>1, <1>2, <1>3, <1>4, <1>5 DEF Handle, End

\* A step of a request keeps its own books.
LEMMA LeavesOwn ==
    ASSUME FsyncMayFail = FALSE, IInv, NEW r \in Request, Leaves(r), Handle(r)
    PROVE  Leaves(r)'
<1> USE NullAssumption DEF Leaves, IInv, TypeOK
<1>0. Route(r) /\ PartTellsTheTruth(r) /\ EndTellsTheTruth(r) /\ r \notin {None, "upload"}
  BY DEF Local
<1>1. CASE Lock(r) \/ Create(r)
  BY <1>0, <1>1 DEF Lock, Create, CreateDirectory, CreateRow, RemoveDirectory
<1>2. CASE Fail(r)
  BY <1>2 DEF Fail, Rollback, DropStaged, AnswerError
<1>3. CASE CheckUpload(r) \/ StagePart(r) \/ CommitPart(r) \/ DropPartBackup(r)
  BY <1>0, <1>3 DEF CheckUpload, StagePart, CommitPart, DropPartBackup
<1>4. CASE BackupPart(r)
  BY <1>0, <1>4 DEF BackupPart, MovePart, PartTellsTheTruth
<1>5. CASE PublishPart(r) \/ RestorePart(r)
  BY <1>0, <1>5 DEF PublishPart, RestorePart, PlacePart
<1>6. CASE Assemble(r) \/ LockBucket(r) \/ NotImplemented(r) \/ BackupObject(r)
  BY <1>0, <1>6 DEF Assemble, LockBucket, NotImplemented, BackupObject
<1>7. CASE PublishObject(r) \/ RestoreObject(r)
  BY <1>0, <1>7 DEF PublishObject, PlaceObject, RestoreObject
<1>8. CASE CheckAbort(r) \/ MoveAside(r) \/ CommitEnd(r) \/ Unlock(r)
  BY <1>0, <1>8 DEF CheckAbort, MoveAside, CommitEnd, Unlock
<1>9. CASE DropObjectBackup(r) \/ RestoreUpload(r) \/ RemoveUpload(r)
  BY <1>0, <1>9 DEF DropObjectBackup, RestoreUpload, RemoveUpload, Route
<1> QED BY <1>1, <1>2, <1>3, <1>4, <1>5, <1>6, <1>7, <1>8, <1>9
        DEF Handle, UploadPart, Complete, End

LEMMA LInvStep ==
    ASSUME FsyncMayFail = FALSE, IInv, LInv, [Next]_vars
    PROVE  LInv'
<1>1. ASSUME NEW r \in Request, Handle(r), NEW s \in Request PROVE Leaves(s)'
  <2>1. CASE s = r
    BY <1>1, <2>1, LeavesOwn DEF LInv
  <2>2. CASE s # r
    <3>1. Apart(s) /\ kind'[s] = kind[s] /\ Leaves(s)
      BY <1>1, <2>2, HandleFrame DEF LInv
    <3> QED BY <3>1 DEF Apart, Leaves
  <2> QED BY <2>1, <2>2
<1>2. ASSUME NEW r \in Request, Arrive(r), NEW s \in Request PROVE Leaves(s)'
  <2>1. /\ UNCHANGED <<dir, temps, flags, logged>>
        /\ s # r => pc'[s] = pc[s] /\ kind'[s] = kind[s]
        /\ pc[r] = "new" /\ kind[r] = "none" /\ pc'[r] = "waiting"
    BY <1>2 DEF Arrive, IInv, TypeOK, Creation
  <2>2. Leaves(s) /\ Leaves(r)
    BY DEF LInv
  <2>3. CASE s = r
    BY <2>1, <2>2, <2>3 DEF Leaves
  <2>4. CASE s # r
    BY <2>1, <2>2, <2>4 DEF Leaves
  <2> QED BY <2>3, <2>4
<1>3. ASSUME Crash, NEW s \in Request PROVE Leaves(s)'
  BY <1>3 DEF Crash, LInv, Leaves
<1>4. ASSUME PutObject \/ UNCHANGED vars, NEW s \in Request PROVE Leaves(s)'
  BY <1>4 DEF PutObject, vars, LInv, Leaves
<1> QED BY <1>1, <1>2, <1>3, <1>4 DEF Next, LInv

\* multipart_*.py: an answered request leaves no temporary file, and one that ended the
\* upload none of its parts, unless that was logged; if no fsync fails after its replace.
THEOREM NothingLeaks ==
    ASSUME FsyncMayFail = FALSE
    PROVE  Spec => []NoSilentLeak
<1>1. Init => LInv
  BY NullAssumption DEF Init, LInv, Leaves
<1>2. IInv /\ LInv /\ [Next]_vars => LInv'
  BY LInvStep
<1>3. LInv => NoSilentLeak
  BY DEF LInv, Leaves, NoSilentLeak
<1> QED BY <1>1, <1>2, <1>3, Invariant, PTL DEF Spec

------------------------------------------------------------------------------
(* What failures undo, when a call that raises did nothing.                 *)

\* The upload is at the cleanup path of the request that will end it or move it back.
Aside(r) ==
    Holding(r) /\ moved[r] /\ dir = r
    /\ pc[r] \in {"moved", "failed", "rolledback", "objectdone"}

\* A part upload has touched its part file and has not committed.
Doing(r) ==
    kind[r] = "part" /\ pc[r] \in {"saved", "published", "failed", "rolledback"}
    /\ (backupCreated[r] \/ written[r])

\* A completion has put its object at the key and has not committed.
Overwriting(r) ==
    kind[r] = "complete" /\ written[r] /\ pc[r] \in {"published", "moved", "failed", "rolledback"}

UploadInPlace ==
    /\ multipart = "open" => dir = "upload" \/ \E r \in Request : Aside(r)
    /\ \A r \in Request : At(r, "create", "made") => dir = "upload"

\* A part row follows the part file, or the backup of the upload that is at it.
PartFollows(n) ==
    /\ \A r \in Request : Doing(r) /\ number[r] = n => partRow[n] = backup[r]
    /\ (\A r \in Request : ~ (Doing(r) /\ number[r] = n)) => file[n] = partRow[n]

\* The object's row follows its file, or the backup of the completion that is at it.
ObjectFollows ==
    /\ \A r \in Request : Overwriting(r) => row = backup[r]
    /\ (\A r \in Request : ~ Overwriting(r)) => object = row

UInv ==
    Undisturbed =>
        /\ UploadInPlace
        /\ multipart # "ended" => \A n \in Part : PartFollows(n)
        /\ ObjectFollows

\* A step that does not log leaves the upload where it is, or moves it under its lock.
LEMMA UploadInPlaceStep ==
    ASSUME FsyncMayFail = FALSE, IInv, LInv, UploadInPlace, NEW r \in Request, Handle(r),
           r \notin logged'
    PROVE  UploadInPlace'
<1> USE NullAssumption DEF IInv, TypeOK
<1>0. /\ Local(r) /\ Leaves(r) /\ r # "upload" /\ UNCHANGED inputs
      /\ \A s \in Request \ {r} : Apart(s) /\ kind'[s] = kind[s] /\ (Holding(s)' <=> Holding(s))
  BY HandleFrame DEF LInv, Holding, Apart
<1>1. CASE Create(r)
  <2>1. /\ multipart = "none" /\ kind[r] = "create"
        /\ \A s \in Request : kind[s] = "create" => s = r
    BY <1>1 DEF Create, CreateDirectory, CreateRow, RemoveDirectory, Creation
  <2> QED BY <1>0, <1>1, <2>1 DEF Create, CreateDirectory, CreateRow, RemoveDirectory,
                                  UploadInPlace
<1>2. CASE RemoveUpload(r)
  <2>1. multipart' = "ended" /\ multipart = "ended"
    BY <1>0, <1>2 DEF RemoveUpload, Local, Route, EndTellsTheTruth
  <2>2. \A s \in Request : ~ At(s, "create", "made")
    BY <2>1 DEF Creation
  <2> QED BY <1>0, <1>2, <2>1, <2>2 DEF RemoveUpload, UploadInPlace, Apart
<1>3. CASE MoveAside(r) /\ dir' # dir
  <2>1. Aside(r)' /\ multipart # "none"
    BY <1>0, <1>3 DEF MoveAside, Aside, Holding, Local, Route, EndTellsTheTruth
  <2>2. \A s \in Request : ~ At(s, "create", "made")'
    BY <1>0, <1>3, <2>1 DEF Creation, Apart, MoveAside
  <2> QED BY <2>1, <2>2 DEF UploadInPlace
<1>4. CASE RestoreUpload(r) /\ dir' = "upload"
  BY <1>4 DEF UploadInPlace
<1>5. CASE UNCHANGED dir /\ kind[r] # "create"
  <2>1. multipart' = "open" => multipart = "open"
    BY <1>5 DEF Handle, Lock, Create, UploadPart, Complete, End, Fail, CreateDirectory, CreateRow,
                RemoveDirectory, CheckUpload, StagePart, BackupPart, PublishPart, CommitPart,
                DropPartBackup, RestorePart, Assemble, LockBucket, NotImplemented, BackupObject,
                PublishObject, RestoreObject, CheckAbort, MoveAside, CommitEnd, Unlock,
                DropObjectBackup, RemoveUpload, RestoreUpload, Rollback, DropStaged, AnswerError
  <2>2. \A s \in Request : At(s, "create", "made")' => At(s, "create", "made")
    BY <1>0, <1>5 DEF Apart
  <2>3. \A s \in Request \ {r} : Aside(s) => Aside(s)'
    BY <1>0, <1>5 DEF Aside, Apart
  <2>4. ASSUME Aside(r), multipart' = "open" PROVE Aside(r)'
    <3>1. kind[r] \in {"complete", "abort"}
      BY <1>0, <2>4 DEF Aside, Leaves
    <3>2. /\ ~ UploadPart(r) /\ ~ Create(r) /\ ~ Lock(r)
          /\ ~ Assemble(r) /\ ~ LockBucket(r) /\ ~ NotImplemented(r) /\ ~ BackupObject(r)
          /\ ~ PublishObject(r) /\ ~ CheckAbort(r) /\ ~ MoveAside(r) /\ ~ Unlock(r)
          /\ ~ DropObjectBackup(r) /\ ~ RemoveUpload(r) /\ ~ DropStaged(r) /\ ~ AnswerError(r)
      BY <2>4, <3>1 DEF Aside, Lock, UploadPart, Create, CreateDirectory, CreateRow,
             RemoveDirectory, CheckUpload, StagePart, BackupPart, PublishPart, CommitPart,
             DropPartBackup, RestorePart, Assemble, LockBucket, NotImplemented, BackupObject,
             PublishObject, CheckAbort, MoveAside, Unlock, DropObjectBackup, RemoveUpload,
             DropStaged, AnswerError
    <3>3. CASE RestoreObject(r) \/ CommitEnd(r) \/ Rollback(r)
      BY <1>0, <1>5, <2>4, <3>1, <3>3 DEF Aside, Holding, RestoreObject, CommitEnd, Rollback
    <3>4. CASE RestoreUpload(r)
      BY <1>0, <1>5, <2>4, <3>4 DEF Aside, RestoreUpload
    <3> QED BY <3>2, <3>3, <3>4 DEF Handle, Complete, End, Fail
  <2> QED BY <1>5, <2>1, <2>2, <2>3, <2>4 DEF UploadInPlace
<1>6. CASE ~ Create(r) /\ ~ RemoveUpload(r)
  <2>1. \/ MoveAside(r) /\ dir' # dir
        \/ RestoreUpload(r) /\ dir' = "upload"
        \/ UNCHANGED dir
    BY <1>6 DEF Handle, Lock, UploadPart, Complete, End, Fail,
                CheckUpload, StagePart, BackupPart, PublishPart, CommitPart,
                DropPartBackup, RestorePart, Assemble, LockBucket, NotImplemented, BackupObject,
                PublishObject, RestoreObject, CheckAbort, MoveAside, CommitEnd, Unlock,
                DropObjectBackup, RestoreUpload, Rollback, DropStaged, AnswerError
  <2>2. CASE kind[r] = "create"
    <3>1. UNCHANGED <<dir, multipart>> /\ pc'[r] # "made"
      BY <1>6, <2>2 DEF Handle, Lock, UploadPart, Complete, End, Fail, Create, CheckUpload,
             StagePart, BackupPart, PublishPart, CommitPart, DropPartBackup, RestorePart,
             Assemble, LockBucket, NotImplemented, BackupObject, PublishObject, RestoreObject,
             CheckAbort, MoveAside, CommitEnd, Unlock, DropObjectBackup, RestoreUpload, Rollback,
             DropStaged, AnswerError, Local, Route
    <3>2. \A s \in Request : Aside(s) => Aside(s)'
      BY <1>0, <2>2, <3>1 DEF Aside, Apart, Holding
    <3>3. \A s \in Request : At(s, "create", "made")' => At(s, "create", "made")
      BY <1>0, <3>1 DEF Apart
    <3> QED BY <3>1, <3>2, <3>3 DEF UploadInPlace
  <2> QED BY <1>3, <1>4, <1>5, <2>1, <2>2
<1> QED BY <1>1, <1>2, <1>6

\* The steps that touch neither a part file nor its row, nor what upload is at it.
LEMMA PartFollowsFrame ==
    ASSUME NEW n \in Part, PartFollows(n), partRow'[n] = partRow[n], file'[n] = file[n],
           \A s \in Request : /\ (Doing(s) /\ number[s] = n)' <=> Doing(s) /\ number[s] = n
                              /\ Doing(s) => backup'[s] = backup[s]
    PROVE  PartFollows(n)'
BY DEF PartFollows

\* A part upload alone is at its file: it moves it to its backup, or has done that.
LEMMA AloneAtPart ==
    ASSUME IInv, NEW r \in Request, kind[r] = "part", Holding(r),
           NEW s \in Request \ {r}, Doing(s)
    PROVE  number[s] # number[r]
BY DEF IInv, Exclusion, Overlaps, Holding, Doing

LEMMA UploadPartFollows ==
    ASSUME FsyncMayFail = FALSE, IInv, LInv, NEW r \in Request, UploadPart(r), r \notin logged',
           NEW n \in Part, PartFollows(n)
    PROVE  PartFollows(n)'
<1> USE DEF IInv, TypeOK, Parts
<1>0. /\ PartTellsTheTruth(r) /\ Leaves(r) /\ UNCHANGED inputs
      /\ kind[r] = "part" /\ Holding(r) /\ number[r] \in Part
      /\ \A s \in Request \ {r} : Doing(s) => number[s] # number[r]
  BY AloneAtPart, HandleFrame DEF LInv, Local, Handle, UploadPart, CheckUpload, StagePart,
     BackupPart, PublishPart, CommitPart, DropPartBackup, RestorePart, Holding, PartTellsTheTruth
<1>1. \A s \in Request \ {r} : backup'[s] = backup[s] /\ (Doing(s)' <=> Doing(s))
  <2>1. \A s \in Request \ {r} : Same(s)
    BY <1>0 DEF UploadPart, CheckUpload, StagePart, BackupPart, PublishPart, CommitPart,
       DropPartBackup, RestorePart, MovePart, PlacePart, Same
  <2> QED BY <1>0, <2>1 DEF Same, Doing
<1>2. CASE n # number[r]
  <2>1. partRow'[n] = partRow[n] /\ file'[n] = file[n]
    BY <1>0, <1>2 DEF UploadPart, CheckUpload, StagePart, BackupPart, PublishPart, CommitPart,
       DropPartBackup, RestorePart, MovePart, PlacePart
  <2> QED BY <1>0, <1>1, <1>2, <2>1 DEF PartFollows
<1>3. CASE n = number[r]
  <2> SUFFICES IF Doing(r)' THEN partRow'[n] = backup'[r] ELSE file'[n] = partRow'[n]
    BY <1>0, <1>1, <1>3 DEF PartFollows
  <2>0. IF Doing(r) THEN partRow[n] = backup[r] ELSE file[n] = partRow[n]
    BY <1>0, <1>3 DEF PartFollows
  <2>1. CASE CheckUpload(r) \/ StagePart(r) \/ DropPartBackup(r)
    BY <1>0, <1>3, <2>0, <2>1 DEF CheckUpload, StagePart, DropPartBackup, PartTellsTheTruth, Doing
  <2>2. CASE BackupPart(r)
    BY <1>0, <1>3, <2>0, <2>2 DEF BackupPart, MovePart, PartTellsTheTruth, Doing
  <2>3. CASE PublishPart(r)
    BY <1>0, <1>3, <2>0, <2>3 DEF PublishPart, PlacePart, PartTellsTheTruth, Doing, Leaves
  <2>4. CASE CommitPart(r)
    BY <1>0, <1>3, <2>0, <2>4 DEF CommitPart, PartTellsTheTruth, Doing
  <2>5. CASE RestorePart(r)
    BY <1>0, <1>3, <2>0, <2>5 DEF RestorePart, Doing, Leaves
  <2> QED BY <2>1, <2>2, <2>3, <2>4, <2>5 DEF UploadPart
<1> QED BY <1>2, <1>3

\* The other services leave the part files to the uploads, until the upload has ended.
LEMMA PartFollowsStep ==
    ASSUME FsyncMayFail = FALSE, IInv, LInv, NEW r \in Request, Handle(r), r \notin logged',
           multipart' # "ended", NEW n \in Part, PartFollows(n)
    PROVE  PartFollows(n)'
<1>1. CASE UploadPart(r)
  BY <1>1, UploadPartFollows
<1>2. CASE ~ UploadPart(r)
  <2>1. ~ RemoveUpload(r)
    BY DEF RemoveUpload, IInv, Local, Route, EndTellsTheTruth
  <2>2. UNCHANGED <<partRow, file>>
    BY <1>2, <2>1 DEF Handle, Lock, Create, Complete, End, Fail, CreateDirectory, CreateRow,
           RemoveDirectory, Assemble, LockBucket, NotImplemented, BackupObject, PublishObject,
           PlaceObject, RestoreObject, CheckAbort, MoveAside, CommitEnd, Unlock, DropObjectBackup,
           RestoreUpload, Rollback, DropStaged, AnswerError
  <2>3. UNCHANGED inputs /\ \A s \in Request \ {r} : Apart(s)
    BY HandleFrame
  <2>4. ASSUME NEW s \in Request, kind[s] = "part"
        PROVE  backup'[s] = backup[s] /\ (Doing(s)' <=> Doing(s))
    <3> USE DEF IInv, TypeOK
    <3>1. CASE Lock(r) \/ Fail(r)
      BY <2>4, <3>1 DEF Doing, Lock, Fail, Rollback, DropStaged, AnswerError, Local, Route
    <3>2. CASE Create(r) \/ Complete(r)
      BY <2>4, <3>2 DEF Doing, Create, CreateDirectory, CreateRow, RemoveDirectory, Complete,
             Assemble, LockBucket, NotImplemented, BackupObject, PublishObject, PlaceObject,
             RestoreObject
    <3>3. CASE CheckAbort(r) \/ MoveAside(r) \/ CommitEnd(r) \/ Unlock(r) \/ DropObjectBackup(r)
               \/ RestoreUpload(r)
      BY <2>4, <3>3 DEF Doing, CheckAbort, MoveAside, CommitEnd, Unlock, DropObjectBackup,
             RestoreUpload, Local, Route
    <3> QED BY <1>2, <2>1, <3>1, <3>2, <3>3 DEF Handle, End
  <2>5. \A s \in Request : /\ (Doing(s) /\ number[s] = n)' <=> Doing(s) /\ number[s] = n
                           /\ Doing(s) => backup'[s] = backup[s]
    BY <2>3, <2>4 DEF Doing
  <2> QED BY <2>2, <2>5, PartFollowsFrame
<1> QED BY <1>1, <1>2

\* A completion alone is at the key, under the lock of the bucket.
LEMMA AloneAtKey ==
    ASSUME IInv, OInv, NEW r \in Request, bucketLock = r, NEW s \in Request \ {r}
    PROVE  ~ Overwriting(s)
<1>1. ObjectTellsTheTruth(s) /\ s # r
  BY DEF OInv
<1> QED BY <1>1 DEF ObjectTellsTheTruth, Overwriting

LEMMA ObjectFollowsFrame ==
    ASSUME ObjectFollows, UNCHANGED <<row, object>>,
           \A s \in Request : /\ Overwriting(s)' <=> Overwriting(s)
                              /\ Overwriting(s) => backup'[s] = backup[s]
    PROVE  ObjectFollows'
BY DEF ObjectFollows

\* What a completion overwrites is in its backup, or is nothing.
LEMMA PublishObjectFollows ==
    ASSUME FsyncMayFail = FALSE, IInv, OInv, LInv, ObjectFollows, NEW r \in Request,
           PublishObject(r)
    PROVE  ObjectFollows'
<1> USE DEF IInv, TypeOK
<1>1. /\ kind[r] = "complete" /\ pc[r] = "saved" /\ bucketLock = r /\ ~ written[r]
      /\ Leaves(r) /\ (backupCreated[r] => backup[r] = object)
      /\ ~ backupCreated[r] => object = None
      /\ UNCHANGED <<row, kind, backup>>
      /\ \A s \in Request \ {r} : pc'[s] = pc[s] /\ written'[s] = written[s]
  BY DEF PublishObject, PlaceObject, Local, CompleteTellsTheTruth, LInv, OInv,
         ObjectTellsTheTruth
<1>2. \A s \in Request : ~ Overwriting(s) /\ (s # r => ~ Overwriting(s)')
  BY <1>1, AloneAtKey DEF Overwriting
<1>3. backup[r] = object /\ object = row
  BY <1>1, <1>2 DEF Leaves, ObjectFollows
<1>4. Overwriting(r)' \/ UNCHANGED object
  BY <1>1 DEF PublishObject, PlaceObject, Overwriting
<1> QED BY <1>1, <1>2, <1>3, <1>4 DEF ObjectFollows

\* A compensation that did not raise puts back what the row describes.
LEMMA RestoreObjectFollows ==
    ASSUME IInv, OInv, LInv, ObjectFollows, NEW r \in Request, RestoreObject(r), r \notin logged'
    PROVE  ObjectFollows'
<1> USE DEF IInv, TypeOK
<1>1. /\ kind[r] = "complete" /\ pc[r] = "rolledback" /\ pc'[r] = "objectdone"
      /\ UNCHANGED <<row, kind, written>> /\ Leaves(r) /\ ObjectTellsTheTruth(r)
      /\ \A s \in Request \ {r} : pc'[s] = pc[s] /\ backup'[s] = backup[s]
  BY DEF RestoreObject, LInv, OInv
<1>2. CASE written[r]
  <2>1. Overwriting(r) /\ bucketLock = r
    BY <1>1, <1>2 DEF Overwriting, ObjectTellsTheTruth
  <2>2. object' = backup[r] /\ backup[r] = row
    BY <1>1, <1>2, <2>1 DEF RestoreObject, Leaves, ObjectFollows
  <2>3. \A s \in Request : ~ Overwriting(s)'
    BY <1>1, <2>1, AloneAtKey DEF Overwriting
  <2> QED BY <1>1, <2>2, <2>3 DEF ObjectFollows
<1>3. CASE ~ written[r]
  <2>1. UNCHANGED object
    BY <1>3 DEF RestoreObject
  <2>2. \A s \in Request : /\ Overwriting(s)' <=> Overwriting(s)
                           /\ Overwriting(s) => backup'[s] = backup[s]
    BY <1>1, <1>3 DEF Overwriting
  <2> QED BY <1>1, <2>1, <2>2, ObjectFollowsFrame
<1> QED BY <1>2, <1>3

\* The commit of a completion makes the row describe what is at the key.
LEMMA CommitEndFollows ==
    ASSUME IInv, OInv, ObjectFollows, NEW r \in Request, CommitEnd(r)
    PROVE  ObjectFollows'
<1> USE DEF IInv, TypeOK
<1>1. /\ pc[r] = "moved" /\ UNCHANGED <<object, kind, written, backup>>
      /\ \A s \in Request \ {r} : pc'[s] = pc[s]
  BY DEF CommitEnd
<1>2. CASE kind[r] = "complete" /\ pc'[r] = "committed"
  <2>1. row' = listed[r] /\ object = listed[r] /\ bucketLock = r
    BY <1>1, <1>2 DEF CommitEnd, Local, CompleteTellsTheTruth
  <2>2. \A s \in Request : ~ Overwriting(s)'
    BY <1>1, <1>2, <2>1, AloneAtKey DEF Overwriting
  <2> QED BY <1>1, <2>1, <2>2 DEF ObjectFollows
<1>3. CASE kind[r] # "complete" \/ pc'[r] = "failed"
  <2>1. UNCHANGED row
    BY <1>3 DEF CommitEnd
  <2>2. \A s \in Request : Overwriting(s)' <=> Overwriting(s)
    BY <1>1, <1>3 DEF Overwriting
  <2> QED BY <1>1, <2>1, <2>2, ObjectFollowsFrame
<1> QED BY <1>2, <1>3 DEF CommitEnd

LEMMA ObjectFollowsStep ==
    ASSUME FsyncMayFail = FALSE, IInv, OInv, LInv, ObjectFollows, NEW r \in Request, Handle(r),
           r \notin logged'
    PROVE  ObjectFollows'
<1>1. CASE PublishObject(r) \/ RestoreObject(r) \/ CommitEnd(r)
  BY <1>1, PublishObjectFollows, RestoreObjectFollows, CommitEndFollows
<1>2. CASE ~ PublishObject(r) /\ ~ RestoreObject(r) /\ ~ CommitEnd(r)
  <2>1. UNCHANGED <<row, object, kind>>
    BY <1>2, HandleFrame DEF Handle, Lock, Create, UploadPart, Complete, End, Fail,
           CreateDirectory, CreateRow, RemoveDirectory, CheckUpload, StagePart, BackupPart,
           PublishPart, CommitPart, DropPartBackup, RestorePart, Assemble, LockBucket,
           NotImplemented, BackupObject, CheckAbort, MoveAside, Unlock, DropObjectBackup,
           RemoveUpload, RestoreUpload, Rollback, DropStaged, AnswerError
  <2>2. ASSUME NEW s \in Request, kind[s] = "complete"
        PROVE  /\ Overwriting(s)' <=> Overwriting(s)
               /\ Overwriting(s) => backup'[s] = backup[s]
    <3> USE DEF IInv, TypeOK
    <3>0. ObjectTellsTheTruth(s)
      BY DEF OInv
    <3>1. CASE Lock(r) \/ Fail(r)
      BY <2>2, <3>0, <3>1 DEF Overwriting, ObjectTellsTheTruth, Lock, Fail, Rollback, DropStaged,
             AnswerError
    <3>2. CASE Create(r) \/ UploadPart(r)
      <4>1. s # r
        BY <2>2, <3>2 DEF Create, CreateDirectory, CreateRow, RemoveDirectory, UploadPart,
               CheckUpload, StagePart, BackupPart, PublishPart, CommitPart, DropPartBackup,
               RestorePart
      <4> QED BY <2>2, <3>2, <4>1 DEF Overwriting, Create, CreateDirectory, CreateRow,
                 RemoveDirectory, UploadPart, CheckUpload, StagePart, BackupPart, MovePart,
                 PublishPart, PlacePart, CommitPart, DropPartBackup, RestorePart
    <3>3. CASE Assemble(r) \/ LockBucket(r) \/ NotImplemented(r) \/ BackupObject(r)
      BY <2>2, <3>0, <3>3 DEF Overwriting, ObjectTellsTheTruth, Assemble, LockBucket,
             NotImplemented, BackupObject
    <3>4. CASE CheckAbort(r) \/ MoveAside(r) \/ Unlock(r) \/ DropObjectBackup(r)
               \/ RestoreUpload(r) \/ RemoveUpload(r)
      BY <2>2, <3>4 DEF Overwriting, CheckAbort, MoveAside, Unlock, DropObjectBackup,
             RestoreUpload, RemoveUpload
    <3> QED BY <1>2, <3>1, <3>2, <3>3, <3>4 DEF Handle, Complete, End
  <2>3. \A s \in Request : /\ Overwriting(s)' <=> Overwriting(s)
                           /\ Overwriting(s) => backup'[s] = backup[s]
    BY <2>1, <2>2 DEF Overwriting
  <2> QED BY <2>1, <2>3, ObjectFollowsFrame
<1> QED BY <1>1, <1>2

\* Nobody who is undisturbed was disturbed before.
LEMMA UInvStep ==
    ASSUME FsyncMayFail = FALSE, IInv, OInv, LInv, UInv, [Next]_vars
    PROVE  UInv'
<1> SUFFICES ASSUME Undisturbed'
             PROVE  /\ UploadInPlace'
                    /\ multipart' # "ended" => \A n \in Part : PartFollows(n)'
                    /\ ObjectFollows'
  BY DEF UInv
<1>1. ASSUME NEW r \in Request, Handle(r) PROVE UInv'
  <2>1. Undisturbed /\ r \notin logged'
    <3>1. \A s \in Request : s \notin logged' /\ pc'[s] # "dead"
      BY DEF Undisturbed
    <3>2. \A s \in Request \ {r} : pc[s] # "dead"
      BY <1>1, <3>1, HandleFrame DEF Apart
    <3>3. pc[r] # "dead"
      BY <1>1 DEF Handle, Lock, Create, UploadPart, Complete, End, Fail, CreateDirectory,
             CreateRow, RemoveDirectory, CheckUpload, StagePart, BackupPart, PublishPart,
             CommitPart, DropPartBackup, RestorePart, Assemble, LockBucket, NotImplemented,
             BackupObject, PublishObject, RestoreObject, CheckAbort, MoveAside, CommitEnd, Unlock,
             DropObjectBackup, RemoveUpload, RestoreUpload, Rollback, DropStaged, AnswerError
    <3>4. logged \subseteq logged'
      BY <1>1, HandleFrame
    <3> QED BY <3>1, <3>2, <3>3, <3>4 DEF Undisturbed
  <2>2. multipart' # "ended" => multipart # "ended"
    BY <1>1 DEF Handle, Lock, Create, UploadPart, Complete, End, Fail, CreateDirectory,
           CreateRow, RemoveDirectory, CheckUpload, StagePart, BackupPart, PublishPart,
           CommitPart, DropPartBackup, RestorePart, Assemble, LockBucket, NotImplemented,
           BackupObject, PublishObject, RestoreObject, CheckAbort, MoveAside, CommitEnd, Unlock,
           DropObjectBackup, RemoveUpload, RestoreUpload, Rollback, DropStaged, AnswerError,
           IInv, Creation
  <2> QED BY <1>1, <2>1, <2>2, UploadInPlaceStep, PartFollowsStep, ObjectFollowsStep DEF UInv
<1>2. ASSUME NEW r \in Request, Arrive(r) PROVE UInv'
  <2>1. /\ UNCHANGED <<db, tree, temps, flags, logged>>
        /\ pc[r] = "new" /\ pc'[r] = "waiting" /\ kind[r] = "none"
        /\ \A s \in Request \ {r} : /\ pc'[s] = pc[s] /\ kind'[s] = kind[s]
                                    /\ number'[s] = number[s]
    BY <1>2 DEF Arrive, IInv, TypeOK, Creation
  <2>2. Undisturbed
    BY <2>1 DEF Undisturbed
  <2>3. \A s \in Request : /\ Doing(s)' <=> Doing(s)
                           /\ Doing(s) => number'[s] = number[s]
                           /\ Overwriting(s)' <=> Overwriting(s)
                           /\ Aside(s)' <=> Aside(s)
                           /\ At(s, "create", "made")' => At(s, "create", "made")
    BY <2>1 DEF Doing, Overwriting, Aside, Holding
  <2>4. UploadInPlace' /\ ObjectFollows'
    BY <2>1, <2>2, <2>3 DEF UInv, UploadInPlace, ObjectFollows
  <2>5. multipart' # "ended" => \A n \in Part : PartFollows(n)'
    BY <2>1, <2>2, <2>3 DEF UInv, PartFollows
  <2> QED BY <2>4, <2>5 DEF UInv
<1>3. CASE Crash
  BY <1>3 DEF Crash, Undisturbed
<1>4. CASE PutObject
  <2>1. \A s \in Request : ~ Overwriting(s)
    BY <1>4, NullAssumption DEF PutObject, OInv, ObjectTellsTheTruth, Overwriting
  <2>2. ObjectFollows'
    BY <1>4, <2>1 DEF PutObject, ObjectFollows, Overwriting
  <2>3. Undisturbed
    BY <1>4 DEF PutObject, Undisturbed
  <2>4. UploadInPlace' /\ (multipart' # "ended" => \A n \in Part : PartFollows(n)')
    BY <1>4, <2>3 DEF PutObject, UInv, UploadInPlace, Aside, Holding, PartFollows, Doing
  <2> QED BY <2>2, <2>4 DEF UInv
<1>5. CASE UNCHANGED vars
  BY <1>5 DEF vars, UInv, Undisturbed, UploadInPlace, Aside, Holding, PartFollows, Doing,
              ObjectFollows, Overwriting
<1> QED BY <1>1, <1>2, <1>3, <1>4, <1>5 DEF Next, UInv

\* multipart_*.py: whatever failed and was undone without a word in the log, when nobody
\* is at it an open upload has its directory in place with the acknowledged parts in it,
\* and the object is what its row says; if no fsync fails after its replace.
THEOREM FailuresUndone ==
    ASSUME FsyncMayFail = FALSE
    PROVE  Spec => []FailuresAreUndone
<1>1. Init => OInv /\ LInv
  BY NullAssumption DEF Init, OInv, ObjectTellsTheTruth, ObjectRecoverable, LInv, Leaves
<1>2. Init => UInv
  BY DEF Init, UInv, UploadInPlace, PartFollows, Doing, ObjectFollows, Overwriting, NoParts
<1>3. IInv /\ OInv /\ LInv /\ UInv /\ [Next]_vars => OInv' /\ LInv' /\ UInv'
  BY OInvStep, LInvStep, UInvStep
<1>4. IInv /\ UInv => FailuresAreUndone
  <2> SUFFICES ASSUME IInv, UInv, Quiet, Undisturbed, multipart = "open"
               PROVE  dir = "upload" /\ file = partRow /\ object = row
    BY DEF FailuresAreUndone
  <2>1. \A r \in Request : ~ Aside(r) /\ ~ Doing(r) /\ ~ Overwriting(r)
    BY DEF Quiet, Aside, Holding, Doing, Overwriting
  <2>2. \A n \in Part : file[n] = partRow[n]
    BY <2>1 DEF UInv, PartFollows
  <2>3. file = partRow
    BY <2>2 DEF IInv, TypeOK, Parts
  <2> QED BY <2>1, <2>3 DEF UInv, UploadInPlace, ObjectFollows
<1> QED BY <1>1, <1>2, <1>3, <1>4, Invariant, PTL DEF Spec

===============================================================================
