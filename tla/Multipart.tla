------------------------------ MODULE Multipart -------------------------------
(****************************************************************************)
(* One multipart upload, from its creation to its end: services/            *)
(* multipart_create.py, multipart_upload.py, multipart_complete.py and      *)
(* multipart_abort.py, over the multipart tables, the upload directory and  *)
(* the object at its key.                                                   *)
(*                                                                          *)
(* As in ObjectStore, every await is a step, any call may raise, also those *)
(* of a compensation, and the process may be killed and restarted. Locks    *)
(* keep the contract of LockManager: a part locks its file, a completion    *)
(* and an abort lock the directory that contains all of them. Plain uploads *)
(* to the key appear as what ObjectStore makes of them, one step under the  *)
(* bucket lock. SQLite's single writer is left to ObjectStore: a flush that *)
(* waits for it is a step not taken, one that gives up is a call that       *)
(* raises. The bucket is not versioned (see NotImplemented).                *)
(*                                                                          *)
(* A payload is named by the request that brought it; a completed object is *)
(* the function from part numbers to the payloads it was made of.           *)
(****************************************************************************)
EXTENDS Naturals, FiniteSets

CONSTANTS
    Request,      \* requests of all four services
    Part,         \* part numbers
    None,         \* no file, no row, nobody
    Other,        \* the object as a plain PUT leaves it
    FsyncMayFail, \* may os.replace succeed and the fsync after it raise?
    MaxFaults,    \* bound: how many calls raise
    MaxCrashes    \* bound: how often the process is killed

ASSUME NullAssumption ==
    /\ "upload" \notin Request
    /\ None \notin Request \cup {"upload"}
    /\ {None, Other} \cap [Part -> Request \cup {None}] = {}
ASSUME BoundAssumption ==
    FsyncMayFail \in BOOLEAN /\ MaxFaults \in Nat /\ MaxCrashes \in Nat

VARIABLES
    multipart,     \* the multipart row: "none" yet, "open", or "ended" (deleted)
    partRow,       \* committed part rows: whose payload partRow[n] describes
    row,           \* the committed row of the object
    object,        \* the file at its key
    dir,           \* the upload directory: None, "upload", or at r's cleanup path
    file,          \* file[n]: the part files in it
    bucketLock,    \* who holds the WRITE lock of the bucket directory
    pc,            \* pc[r]: where request r is
    kind,          \* kind[r]: its service
    number,        \* number[r]: the part number it uploads
    listed,        \* listed[r]: the parts and ETags its client lists
    staged,        \* staged[r]: what is at its staged path
    backup,        \* backup[r]: what is at its backup path
    backupCreated, \* its local variables backup_created,
    written,       \*   part_written or object_written,
    moved,         \*   and upload_moved
    logged,        \* requests that logged a failed cleanup or restore
    faults,        \* how many calls raised so far
    crashes        \* how often the process was killed so far

db     == <<multipart, partRow, row>>
tree   == <<object, dir, file>>
inputs == <<kind, number, listed>>
temps  == <<staged, backup>>
flags  == <<backupCreated, written, moved>>
vars   == <<db, tree, bucketLock, pc, inputs, temps, flags, logged, faults, crashes>>

Parts == [Part -> Request \cup {None}]
NoParts == [n \in Part |-> None]
Listing == Parts \ {NoParts}
Object == Listing \cup {Other, None}
Contents == Object \cup Request

Ended == {"ok", "error", "unbound", "dead"}

\* Before the first lock, and after the last.
Outside == {"new", "waiting", "cleaning", "removing"} \cup Ended

PC == Outside \cup
    {"checking", "made", "staging", "staged", "saved", "published", "assembled", "inbucket",
     "checked", "moved", "committed", "failed", "rolledback", "objectdone", "restored",
     "reconciled"}

TypeOK ==
    /\ multipart \in {"none", "open", "ended"}
    /\ partRow \in Parts
    /\ row \in Object /\ object \in Object
    /\ dir \in Request \cup {None, "upload"}
    /\ file \in Parts
    /\ bucketLock \in Request \cup {None}
    /\ pc \in [Request -> PC]
    /\ kind \in [Request -> {"none", "create", "part", "complete", "abort"}]
    /\ number \in [Request -> Part \cup {None}]
    /\ listed \in [Request -> Listing \cup {None}]
    /\ staged \in [Request -> Contents] /\ backup \in [Request -> Contents]
    /\ backupCreated \in [Request -> BOOLEAN]
    /\ written \in [Request -> BOOLEAN]
    /\ moved \in [Request -> BOOLEAN]
    /\ logged \subseteq Request
    /\ faults \in 0..MaxFaults
    /\ crashes \in 0..MaxCrashes

At(r, service, label) == kind[r] = service /\ pc[r] = label
Goto(r, label) == pc' = [pc EXCEPT ![r] = label]
Set(r, f, value) == [f EXCEPT ![r] = value]

\* A call raises before it did anything; or after it did, in its last fsync.
Fault == faults < MaxFaults /\ faults' = faults + 1
LateFault == FsyncMayFail /\ Fault
NoFault == UNCHANGED faults

\* log.exception after a failed cleanup or restore; the handler goes on.
Log(r) == logged' = logged \cup {r}
NoLog == UNCHANGED logged

\* Best-effort calls: one that works, one that raises into the log.
Tries == NoFault /\ NoLog
Logs(r) == Fault /\ Log(r)

------------------------------------------------------------------------------
(* Arrival and locks.                                                       *)

\* Clients know the upload ID from the answer to the creation. They list parts that
\* somebody uploads, or once uploaded, under that number.
Arrive(r) ==
    /\ pc[r] = "new"
    /\ Goto(r, "waiting")
    /\ \/ /\ \A s \in Request : kind[s] = "none"
          /\ kind' = Set(r, kind, "create")
          /\ UNCHANGED <<number, listed>>
       \/ /\ \E s \in Request : At(s, "create", "ok")
          /\ \/ /\ kind' = Set(r, kind, "part")
                /\ \E n \in Part : number' = Set(r, number, n)
                /\ UNCHANGED listed
             \/ /\ kind' = Set(r, kind, "complete")
                /\ \E list \in Listing :
                      /\ \A n \in Part : list[n] \in Request =>
                            kind[list[n]] = "part" /\ number[list[n]] = n
                      /\ listed' = Set(r, listed, list)
                /\ UNCHANGED number
             \/ /\ kind' = Set(r, kind, "abort")
                /\ UNCHANGED <<number, listed>>
    /\ UNCHANGED <<db, tree, bucketLock, temps, flags, logged, faults, crashes>>

\* (mutant) An exception leaves the lock registered.
HoldingAfterError(r) == kind[r] # "create" /\ pc[r] \notin Outside \ {"error"}

Holding(r) == kind[r] # "create" /\ pc[r] \notin Outside

\* (mutant) The lock of the directory does not cover the files in it.
OverlapsFlat(r, s) == kind[r] = "part" <=> kind[s] = "part"

\* The directory covers every part file; two files overlap if they are the same.
Overlaps(r, s) == kind[r] = "part" /\ kind[s] = "part" => number[r] = number[s]

\* lock_file(part_path) or lock_directory(upload_path), both WRITE.
Lock(r) ==
    /\ pc[r] = "waiting" /\ kind[r] # "create"
    /\ \A s \in Request \ {r} : Holding(s) => ~ Overlaps(r, s)
    /\ Goto(r, "checking")
    /\ UNCHANGED <<db, tree, bucketLock, inputs, temps, flags, logged, faults, crashes>>

------------------------------------------------------------------------------
(* multipart_create: no lock, as nobody knows the upload ID yet.            *)

CreateDirectory(r) ==
    /\ At(r, "create", "waiting")
    /\ \/ NoFault /\ Goto(r, "made") /\ dir' = "upload"
       \/ Fault /\ Goto(r, "failed") /\ dir' \in {None, "upload"}
    /\ UNCHANGED <<db, object, file, bucketLock, inputs, temps, flags, logged, crashes>>

CreateRow(r) ==
    /\ At(r, "create", "made")
    /\ \/ NoFault /\ Goto(r, "ok") /\ multipart' = "open"
       \/ Fault /\ Goto(r, "failed") /\ UNCHANGED multipart
    /\ UNCHANGED <<partRow, row, tree, bucketLock, inputs, temps, flags, logged, crashes>>

\* rmtree(upload_path); a missing directory is left as is.
RemoveDirectory(r) ==
    /\ At(r, "create", "rolledback")
    /\ Goto(r, "reconciled")
    /\ \/ Tries /\ dir' = None
       \/ Logs(r) /\ dir' \in {dir, None}
    /\ UNCHANGED <<db, object, file, bucketLock, inputs, temps, flags, crashes>>

------------------------------------------------------------------------------
(* multipart_upload, under the lock of the part file.                       *)

\* isdir(upload_path) and load_multipart
CheckUpload(r) ==
    /\ At(r, "part", "checking")
    /\ \/ NoFault /\ dir = "upload" /\ multipart = "open" /\ Goto(r, "staging")
       \/ NoFault /\ ~ (dir = "upload" /\ multipart = "open") /\ Goto(r, "failed")
       \/ Fault /\ Goto(r, "failed")
    /\ UNCHANGED <<db, tree, bucketLock, inputs, temps, flags, logged, crashes>>

\* upload(body, staged_path), hash and size: the body may end early, or a later call
\* raise with the file in place.
StagePart(r) ==
    /\ At(r, "part", "staging")
    /\ \/ NoFault /\ Goto(r, "staged") /\ staged' = Set(r, staged, r)
       \/ Fault /\ Goto(r, "failed") /\ staged' \in {staged, Set(r, staged, r)}
    /\ UNCHANGED <<db, tree, bucketLock, inputs, backup, flags, logged, crashes>>

\* The part file that the request replaces, and the move of it to the backup path.
MovePart(r) ==
    /\ backup' = Set(r, backup, file[number[r]])
    /\ file' = Set(number[r], file, None)

\* isfile(part_path), rename(part_path, backup_path)
BackupPart(r) ==
    /\ At(r, "part", "staged")
    /\ \/ /\ file[number[r]] = None
          /\ NoFault /\ Goto(r, "saved")
          /\ UNCHANGED <<file, backup, backupCreated>>
       \/ /\ file[number[r]] # None
          /\ NoFault /\ Goto(r, "saved")
          /\ MovePart(r) /\ backupCreated' = Set(r, backupCreated, TRUE)
       \/ /\ Fault /\ Goto(r, "failed")
          /\ UNCHANGED <<file, backup, backupCreated>>
       \/ /\ file[number[r]] # None
          /\ LateFault /\ Goto(r, "failed")
          /\ MovePart(r) /\ UNCHANGED backupCreated
    /\ UNCHANGED <<db, object, dir, bucketLock, inputs, staged, written, moved, logged,
                   crashes>>

PlacePart(r) ==
    /\ file' = Set(number[r], file, r)
    /\ staged' = Set(r, staged, None)

\* rename(staged_path, part_path)
PublishPart(r) ==
    /\ At(r, "part", "saved")
    /\ \/ NoFault /\ Goto(r, "published") /\ PlacePart(r) /\ written' = Set(r, written, TRUE)
       \/ Fault /\ Goto(r, "failed") /\ UNCHANGED <<file, staged, written>>
       \/ LateFault /\ Goto(r, "failed") /\ PlacePart(r) /\ UNCHANGED written
    /\ UNCHANGED <<db, object, dir, bucketLock, inputs, backup, backupCreated, moved, logged,
                   crashes>>

\* upsert_multipart_part and commit
CommitPart(r) ==
    /\ At(r, "part", "published")
    /\ \/ NoFault /\ Goto(r, "committed") /\ partRow' = Set(number[r], partRow, r)
       \/ Fault /\ Goto(r, "failed") /\ UNCHANGED partRow
    /\ UNCHANGED <<multipart, row, tree, bucketLock, inputs, temps, flags, logged, crashes>>

\* delete(backup_path), still under the lock
DropPartBackup(r) ==
    /\ At(r, "part", "committed")
    /\ Goto(r, "ok")
    /\ LET dropped == Set(r, backup, None)
       IN  \/ Tries /\ backup' = IF backupCreated[r] THEN dropped ELSE backup
           \/ Logs(r) /\ backupCreated[r] /\ backup' \in {backup, dropped}
    /\ UNCHANGED <<db, tree, bucketLock, inputs, staged, flags, crashes>>

\* (mutant) The backup is deleted whether or not it could be moved back.
RestorePartFinally(r) ==
    /\ At(r, "part", "rolledback")
    /\ Goto(r, "restored")
    /\ LET restored == Set(number[r], file, backup[r])
       IN  \/ Tries /\ file' = IF backupCreated[r] THEN restored ELSE file
           \/ Logs(r) /\ UNCHANGED file
    /\ backup' = Set(r, backup, None)
    /\ UNCHANGED <<db, object, dir, bucketLock, inputs, staged, flags, crashes>>

\* delete(part_path) if there was none before, else rename(backup_path, part_path).
RestorePart(r) ==
    /\ At(r, "part", "rolledback")
    /\ Goto(r, "restored")
    /\ LET n == number[r]
           deleted == Set(n, file, None)
           restored == Set(n, file, backup[r])
           dropped == Set(r, backup, None)
       IN  \/ /\ written[r] /\ ~ backupCreated[r]
              /\ \/ Tries /\ file' = deleted
                 \/ Logs(r) /\ file' \in {file, deleted}
              /\ UNCHANGED backup
           \/ /\ backupCreated[r]
              /\ \/ Tries /\ file' = restored /\ backup' = dropped
                 \/ Logs(r) /\ UNCHANGED <<file, backup>>
                 \/ FsyncMayFail /\ Logs(r) /\ file' = restored /\ backup' = dropped
           \/ /\ ~ written[r] /\ ~ backupCreated[r]
              /\ Tries /\ UNCHANGED <<file, backup>>
    /\ UNCHANGED <<db, object, dir, bucketLock, inputs, staged, flags, crashes>>

------------------------------------------------------------------------------
(* multipart_complete: assembly under the lock of the upload directory.     *)

\* A part file, at the path where the row says it is.
Bytes(n) == IF dir = "upload" THEN file[n] ELSE None

\* load_multipart, load_multipart_parts and the comparison with the listed ETags.
Stored(r) ==
    /\ multipart = "open"
    /\ \A n \in Part : listed[r][n] # None => partRow[n] = listed[r][n] /\ Bytes(n) # None

\* concat(part_paths, staged_path)
Assembled(r) == [n \in Part |-> IF listed[r][n] = None THEN None ELSE Bytes(n)]

\* (mutant) The ETags are compared, the bytes are not hashed again.
IntactUnchecked(r) == TRUE

\* The hashes of what was read are the stored ETags.
Intact(r) == Assembled(r) = listed[r]

Assemble(r) ==
    /\ At(r, "complete", "checking")
    /\ \/ /\ NoFault /\ Stored(r) /\ Intact(r)
          /\ Goto(r, "assembled") /\ staged' = Set(r, staged, Assembled(r))
       \/ /\ NoFault /\ Stored(r) /\ ~ Intact(r)
          /\ Goto(r, "failed") /\ staged' = Set(r, staged, Assembled(r))
       \/ /\ NoFault /\ ~ Stored(r)
          /\ Goto(r, "failed") /\ UNCHANGED staged
       \/ /\ Fault /\ Stored(r)
          /\ Goto(r, "failed") /\ staged' \in {staged, Set(r, staged, Assembled(r))}
    /\ UNCHANGED <<db, tree, bucketLock, inputs, backup, flags, logged, crashes>>

------------------------------------------------------------------------------
(* multipart_complete: publication under the lock of the bucket as well.    *)

LockBucket(r) ==
    /\ At(r, "complete", "assembled")
    /\ bucketLock = None /\ bucketLock' = r
    /\ Goto(r, "inbucket")
    /\ UNCHANGED <<db, tree, inputs, temps, flags, logged, faults, crashes>>

\* The branches for versioned buckets are `pass`: the handler leaves both locks and
\* dies of an UnboundLocalError.
NotImplemented(r) ==
    /\ At(r, "complete", "inbucket")
    /\ bucketLock' = None
    /\ Goto(r, "unbound")
    /\ UNCHANGED <<db, tree, inputs, temps, flags, logged, faults, crashes>>

\* object_mkdir, which may refuse the key (ObjectStore), and copy(object, backup) if
\* there is an object.
BackupObject(r) ==
    /\ At(r, "complete", "inbucket")
    /\ \/ /\ object = None
          /\ NoFault /\ Goto(r, "saved")
          /\ UNCHANGED <<backup, backupCreated>>
       \/ /\ object # None
          /\ NoFault /\ Goto(r, "saved")
          /\ backup' = Set(r, backup, object) /\ backupCreated' = Set(r, backupCreated, TRUE)
       \/ /\ Fault /\ Goto(r, "failed")
          /\ UNCHANGED <<backup, backupCreated>>
       \/ /\ object # None
          /\ LateFault /\ Goto(r, "failed")
          /\ backup' = Set(r, backup, object) /\ UNCHANGED backupCreated
    /\ UNCHANGED <<db, tree, bucketLock, inputs, staged, written, moved, logged, crashes>>

PlaceObject(r) ==
    /\ object' = staged[r]
    /\ staged' = Set(r, staged, None)

\* upsert_object, and rename(staged_path, object_path)
PublishObject(r) ==
    /\ At(r, "complete", "saved")
    /\ \/ NoFault /\ Goto(r, "published") /\ PlaceObject(r)
          /\ written' = Set(r, written, TRUE)
       \/ Fault /\ Goto(r, "failed") /\ UNCHANGED <<object, staged, written>>
       \/ LateFault /\ Goto(r, "failed") /\ PlaceObject(r) /\ UNCHANGED written
    /\ UNCHANGED <<db, dir, file, bucketLock, inputs, backup, backupCreated, moved, logged,
                   crashes>>

\* (mutant) The backup is deleted whether or not it could be copied back.
RestoreObjectFinally(r) ==
    /\ At(r, "complete", "rolledback")
    /\ Goto(r, "objectdone")
    /\ \/ Tries /\ object' = IF written[r] THEN backup[r] ELSE object
       \/ Logs(r) /\ UNCHANGED object
    /\ backup' = Set(r, backup, None)
    /\ UNCHANGED <<db, dir, file, bucketLock, inputs, staged, flags, crashes>>

\* delete(object_path), or copy(backup_path, object_path) and only then
\* delete(backup_path), or delete(backup_path) alone.
RestoreObject(r) ==
    /\ At(r, "complete", "rolledback")
    /\ Goto(r, "objectdone")
    /\ LET dropped == Set(r, backup, None)
       IN  \/ /\ written[r] /\ ~ backupCreated[r]
              /\ \/ Tries /\ object' = None
                 \/ Logs(r) /\ object' \in {object, None}
              /\ UNCHANGED backup
           \/ /\ written[r] /\ backupCreated[r]
              /\ \/ Tries /\ object' = backup[r] /\ backup' = dropped
                 \/ Logs(r) /\ object' \in {object, backup[r]} /\ UNCHANGED backup
                 \/ Logs(r) /\ object' = backup[r] /\ backup' = dropped
           \/ /\ ~ written[r] /\ backupCreated[r]
              /\ \/ Tries /\ backup' = dropped
                 \/ Logs(r) /\ backup' \in {backup, dropped}
              /\ UNCHANGED object
           \/ /\ ~ written[r] /\ ~ backupCreated[r]
              /\ Tries /\ UNCHANGED <<object, backup>>
    /\ UNCHANGED <<db, dir, file, bucketLock, inputs, staged, flags, crashes>>

------------------------------------------------------------------------------
(* multipart_abort, and the end that it shares with multipart_complete.     *)

\* load_multipart
CheckAbort(r) ==
    /\ At(r, "abort", "checking")
    /\ \/ NoFault /\ multipart = "open" /\ Goto(r, "checked")
       \/ NoFault /\ multipart # "open" /\ Goto(r, "failed")
       \/ Fault /\ Goto(r, "failed")
    /\ UNCHANGED <<db, tree, bucketLock, inputs, temps, flags, logged, crashes>>

\* (mutant) The directory stays where it is.
MoveAsideNever(r) ==
    /\ At(r, "complete", "published") \/ At(r, "abort", "checked")
    /\ NoFault /\ Goto(r, "moved")
    /\ UNCHANGED <<db, tree, bucketLock, inputs, temps, flags, logged, crashes>>

\* rename(upload_path, cleanup_path); the abort looks first whether it is there.
MoveAside(r) ==
    /\ At(r, "complete", "published") \/ At(r, "abort", "checked")
    /\ \/ /\ dir = "upload"
          /\ NoFault /\ Goto(r, "moved")
          /\ dir' = r /\ moved' = Set(r, moved, TRUE)
       \/ /\ dir # "upload" /\ kind[r] = "abort"
          /\ NoFault /\ Goto(r, "moved") /\ UNCHANGED <<dir, moved>>
       \/ /\ Fault /\ Goto(r, "failed") /\ UNCHANGED <<dir, moved>>
       \/ /\ dir = "upload"
          /\ LateFault /\ Goto(r, "failed")
          /\ dir' = r /\ UNCHANGED moved
    /\ UNCHANGED <<db, object, file, bucketLock, inputs, temps, backupCreated, written, logged,
                   crashes>>

\* delete_multipart_parts, delete the multipart row, commit; for a completion, the
\* object's row goes with them, its ETag made of the stored ones.
CommitEnd(r) ==
    /\ pc[r] = "moved"
    /\ \/ /\ NoFault /\ Goto(r, "committed")
          /\ multipart' = "ended"
          /\ partRow' = NoParts
          /\ row' = IF kind[r] = "complete" THEN listed[r] ELSE row
       \/ Fault /\ Goto(r, "failed") /\ UNCHANGED db
    /\ UNCHANGED <<tree, bucketLock, inputs, temps, flags, logged, crashes>>

\* The `async with` blocks are left.
Unlock(r) ==
    /\ pc[r] = "committed" /\ kind[r] \in {"complete", "abort"}
    /\ Goto(r, "cleaning")
    /\ bucketLock' = IF bucketLock = r THEN None ELSE bucketLock
    /\ UNCHANGED <<db, tree, inputs, temps, flags, logged, faults, crashes>>

\* delete(backup_path)
DropObjectBackup(r) ==
    /\ pc[r] = "cleaning"
    /\ Goto(r, "removing")
    /\ LET dropped == Set(r, backup, None)
       IN  \/ Tries /\ backup' = IF backupCreated[r] THEN dropped ELSE backup
           \/ Logs(r) /\ backupCreated[r] /\ backup' \in {backup, dropped}
    /\ UNCHANGED <<db, tree, bucketLock, inputs, staged, flags, crashes>>

\* rmtree(cleanup_path), with the temporary files of part uploads. Nobody looks at what
\* an rmtree that raises leaves.
RemoveUpload(r) ==
    /\ pc[r] = "removing"
    /\ Goto(r, "ok")
    /\ LET kept(f) == [s \in Request |-> IF kind[s] = "part" THEN None ELSE f[s]]
       IN  \/ /\ Tries /\ moved[r]
              /\ dir' = None /\ file' = NoParts
              /\ staged' = kept(staged) /\ backup' = kept(backup)
           \/ /\ Tries /\ ~ moved[r]
              /\ UNCHANGED <<dir, file, temps>>
           \/ /\ Logs(r) /\ moved[r]
              /\ UNCHANGED <<dir, file, temps>>
    /\ UNCHANGED <<db, object, bucketLock, inputs, flags, crashes>>

------------------------------------------------------------------------------
(* Compensation, before any lock is released.                               *)

Rollback(r) ==
    /\ pc[r] = "failed"
    /\ Goto(r, "rolledback")
    /\ Tries \/ Logs(r)
    /\ UNCHANGED <<db, tree, bucketLock, inputs, temps, flags, crashes>>

\* (mutant) The directory is not moved back.
RestoreUploadNever(r) ==
    /\ At(r, "complete", "objectdone") \/ At(r, "abort", "rolledback")
    /\ Goto(r, "restored") /\ Tries
    /\ UNCHANGED <<db, tree, bucketLock, inputs, temps, flags, crashes>>

\* rename(cleanup_path, upload_path)
RestoreUpload(r) ==
    /\ At(r, "complete", "objectdone") \/ At(r, "abort", "rolledback")
    /\ Goto(r, "restored")
    /\ \/ Tries /\ dir' = IF moved[r] THEN "upload" ELSE dir
       \/ Logs(r) /\ moved[r] /\ UNCHANGED dir
       \/ FsyncMayFail /\ Logs(r) /\ moved[r] /\ dir' = "upload"
    /\ UNCHANGED <<db, object, file, bucketLock, inputs, temps, flags, crashes>>

\* (mutant) Only what was published leaves nothing behind.
DropStagedIfWritten(r) ==
    /\ pc[r] = "restored"
    /\ Goto(r, "reconciled") /\ Tries
    /\ staged' = IF written[r] THEN Set(r, staged, None) ELSE staged
    /\ UNCHANGED <<db, tree, bucketLock, inputs, backup, flags, crashes>>

\* delete(staged_path)
DropStaged(r) ==
    /\ pc[r] = "restored"
    /\ Goto(r, "reconciled")
    /\ LET dropped == Set(r, staged, None)
       IN  \/ Tries /\ staged' = dropped
           \/ Logs(r) /\ kind[r] # "abort" /\ staged' \in {staged, dropped}
    /\ UNCHANGED <<db, tree, bucketLock, inputs, backup, flags, crashes>>

\* The exception leaves the locks and is answered.
AnswerError(r) ==
    /\ pc[r] = "reconciled"
    /\ Goto(r, "error")
    /\ bucketLock' = IF bucketLock = r THEN None ELSE bucketLock
    /\ UNCHANGED <<db, tree, inputs, temps, flags, logged, faults, crashes>>

------------------------------------------------------------------------------

\* A plain upload to the key (ObjectStore), seen from outside of its lock.
PutObject ==
    /\ bucketLock = None
    /\ object' = Other /\ row' = Other
    /\ UNCHANGED <<multipart, partRow, dir, file, bucketLock, pc, inputs, temps, flags, logged,
                   faults, crashes>>

\* The process is killed and started again: locks and requests are gone, committed rows
\* and files stay where they are.
Crash ==
    /\ crashes < MaxCrashes
    /\ crashes' = crashes + 1
    /\ \E r \in Request : pc[r] \notin {"new"} \cup Ended
    /\ bucketLock' = None
    /\ pc' = [r \in Request |-> IF pc[r] \in {"new"} \cup Ended THEN pc[r] ELSE "dead"]
    /\ UNCHANGED <<db, tree, inputs, temps, flags, logged, faults>>

Init ==
    /\ multipart = "none" /\ partRow = NoParts /\ row = None
    /\ object = None /\ dir = None /\ file = NoParts
    /\ bucketLock = None
    /\ pc = [r \in Request |-> "new"]
    /\ kind = [r \in Request |-> "none"]
    /\ number = [r \in Request |-> None]
    /\ listed = [r \in Request |-> None]
    /\ staged = [r \in Request |-> None] /\ backup = [r \in Request |-> None]
    /\ backupCreated = [r \in Request |-> FALSE]
    /\ written = [r \in Request |-> FALSE]
    /\ moved = [r \in Request |-> FALSE]
    /\ logged = {} /\ faults = 0 /\ crashes = 0

Create(r) == CreateDirectory(r) \/ CreateRow(r) \/ RemoveDirectory(r)

UploadPart(r) ==
    \/ CheckUpload(r) \/ StagePart(r) \/ BackupPart(r) \/ PublishPart(r) \/ CommitPart(r)
    \/ DropPartBackup(r) \/ RestorePart(r)

Complete(r) ==
    \/ Assemble(r) \/ LockBucket(r) \/ NotImplemented(r) \/ BackupObject(r)
    \/ PublishObject(r) \/ RestoreObject(r)

\* The ends of a completion and of an abort.
End(r) ==
    \/ CheckAbort(r) \/ MoveAside(r) \/ CommitEnd(r) \/ Unlock(r) \/ DropObjectBackup(r)
    \/ RemoveUpload(r) \/ RestoreUpload(r)

Fail(r) == Rollback(r) \/ DropStaged(r) \/ AnswerError(r)

Handle(r) == Lock(r) \/ Create(r) \/ UploadPart(r) \/ Complete(r) \/ End(r) \/ Fail(r)

Next ==
    \/ \E r \in Request : Arrive(r) \/ Handle(r)
    \/ PutObject
    \/ Crash

Spec == Init /\ [][Next]_vars

\* The event loop runs every request to its end; a lock that is free is granted.
FairSpec == Spec /\ \A r \in Request : WF_vars(Handle(r))

------------------------------------------------------------------------------
(* Properties.                                                              *)

\* What clients can see of the upload in committed rows is that of UploadSession: it
\* ends once, and what it leaves is made of parts that were there when it ended, although
\* they were looked at before the bucket lock was waited for.
Session == INSTANCE UploadSession WITH
    Payload <- Request, state <- multipart, parts <- partRow, object <- row

ImplementsSession == Session!Spec

\* The bytes of an object are those its row was made for at the moment of the commit:
\* part files that a crash left beside older rows never get into an object.
CommittedBytes == [][row' # row => object' = row']_vars

\* The payload of a part row is never lost while the upload is open: it is in the part
\* file or in a backup that a request made of it, wherever the directory is.
PartRecoverable ==
    \A n \in Part : partRow[n] # None =>
        /\ dir # None
        /\ \/ file[n] = partRow[n]
           \/ \E r \in Request :
              kind[r] = "part" /\ number[r] = n /\ backup[r] = partRow[n]

\* The bytes of a committed object are at its key or in the backup of a completion.
ObjectRecoverable ==
    row # None => object = row \/ \E r \in Request : kind[r] = "complete" /\ backup[r] = row

\* No request is under a lock.
Quiet == \A r \in Request : pc[r] \in Outside

\* Nobody was killed, or logged that something was left to the operator.
Undisturbed == \A r \in Request : pc[r] # "dead" /\ r \notin logged

\* Whatever failed, when nobody is at it an open upload can go on: its directory is in
\* place and holds the acknowledged parts, and the object is what its row says.
FailuresAreUndone ==
    Quiet /\ Undisturbed /\ multipart = "open" =>
        dir = "upload" /\ file = partRow /\ object = row

\* Nothing can be added to an upload that has ended: no part is known and no directory is
\* at the upload's path, even after crashes.
EndIsFinal == multipart = "ended" => partRow = NoParts /\ dir # "upload"

\* An answered request leaves no temporary file and, if it ended the upload, nothing of
\* it, unless that was logged.
NoSilentLeak ==
    \A r \in Request : pc[r] \in {"ok", "error"} /\ r \notin logged =>
        staged[r] = None /\ backup[r] = None /\ dir # r

\* Every request is answered or killed.
EveryRequestEnds == <>[](\A r \in Request : pc[r] \in Ended \cup {"new"})

===============================================================================
