----------------------------- MODULE ObjectStore -----------------------------
(****************************************************************************)
(* One bucket: services/object_upload.py and services/object_download.py    *)
(* over the objects table (SQLite) and the bucket directory (gocryptfs),    *)
(* which no common transaction covers.                                      *)
(*                                                                          *)
(* Every await of the upload is a step of its own, so that downloads,       *)
(* versioning changes and other uploads interleave there; every call that   *)
(* touches the disk or the database may raise, including those of the       *)
(* compensation; the process may be killed anywhere and restarted.          *)
(*                                                                          *)
(* A payload is named by the upload that brought it: size, ETag and content *)
(* type of a row identify it.                                               *)
(****************************************************************************)
EXTENDS Naturals, SequencesExt

CONSTANTS
    Upload,       \* PUT requests
    Download,     \* GET requests
    Name,         \* names of files and directories
    Path,         \* paths inside the bucket directory, sequences of names
    Key,          \* the paths that are used as object keys
    None,         \* no row, no file, nobody
    Dir,          \* what is stored at a path that is a directory
    FsyncMayFail, \* may os.replace succeed and the fsync after it raise?
    MaxFaults,    \* bound: how many calls raise
    MaxCrashes    \* bound: how often the process is killed

ASSUME PathAssumption == Path \subseteq Seq(Name) /\ Key \subseteq Path
ASSUME NullAssumption == /\ None \notin Upload \cup Key
                         /\ Dir \notin Upload \cup {None}
ASSUME BoundAssumption ==
    FsyncMayFail \in BOOLEAN /\ MaxFaults \in Nat /\ MaxCrashes \in Nat

VARIABLES
    row,           \* objects table, committed: whose payload row[k] describes
    node,          \* bucket directory: node[p] is a payload, Dir or None
    versioning,    \* bucket.versioning_status, committed
    bucketLock,    \* who holds the WRITE lock of the bucket directory
    dbWriter,      \* whose flushed, uncommitted transaction SQLite holds
    pc,            \* pc[r]: where upload r is
    key,           \* key[r]: its object key
    seen,          \* seen[r]: the versioning status it read
    staged,        \* staged[r]: its payload is at its staged path
    backup,        \* backup[r]: the payload at its backup path
    backupCreated, \* its local variable backup_created
    objectWritten, \* its local variable object_written
    logged,        \* uploads that logged a failed cleanup or restore
    dpc,           \* dpc[d]: where download d is
    dkey,          \* dkey[d]: the key it asked for
    drow,          \* drow[d]: the row its headers are made of
    body,          \* body[d]: the payload it streamed
    faults,        \* how many calls raised so far
    crashes        \* how often the process was killed so far

db      == <<row, versioning, dbWriter>>
locals  == <<key, seen, backupCreated, objectWritten>>
files   == <<staged, backup>>
reads   == <<dpc, dkey, drow, body>>
vars    == <<db, node, bucketLock, pc, locals, files, logged, reads, faults, crashes>>

Status == {"Disabled", "Enabled", "Suspended"}

\* The end states of a request: answered, or killed.
Ended == {"ok", "error", "dead"}

PC == {"new", "loaded", "staging", "staged", "prepared", "saved", "flushed", "published",
       "committed", "failed", "refused", "rolledback", "restored", "reconciled",
       "answering"} \cup Ended

TypeOK ==
    /\ row \in [Key -> Upload \cup {None}]
    /\ node \in [Path -> Upload \cup {None, Dir}]
    /\ versioning \in Status
    /\ bucketLock \in Upload \cup {None}
    /\ dbWriter \in Upload \cup {None}
    /\ pc \in [Upload -> PC]
    /\ key \in [Upload -> Key \cup {None}]
    /\ seen \in [Upload -> Status]
    /\ staged \in [Upload -> BOOLEAN]
    /\ backup \in [Upload -> Upload \cup {None}]
    /\ backupCreated \in [Upload -> BOOLEAN]
    /\ objectWritten \in [Upload -> BOOLEAN]
    /\ logged \subseteq Upload
    /\ dpc \in [Download -> {"new", "found", "streaming", "missing", "sent", "dead"}]
    /\ dkey \in [Download -> Key \cup {None}]
    /\ drow \in [Download -> Upload \cup {None}]
    /\ body \in [Download -> Upload \cup {None}]
    /\ faults \in 0..MaxFaults
    /\ crashes \in 0..MaxCrashes

\* The directories that carry the prefix of a key.
Above(k) == {p \in Path : IsStrictPrefix(p, k)}

IsFile(p) == node[p] \in Upload

Goto(r, label) == pc' = [pc EXCEPT ![r] = label]

\* A call raises before it did anything; or after it did, in its last fsync.
Fault == faults < MaxFaults /\ faults' = faults + 1
LateFault == FsyncMayFail /\ Fault
NoFault == UNCHANGED faults

\* log.exception after a failed cleanup; the handler goes on.
Log(r) == logged' = logged \cup {r}
NoLog == UNCHANGED logged

------------------------------------------------------------------------------
(* object_upload: the main transaction.                                     *)

\* load_bucket, before the lock is taken: the status is a snapshot.
LoadBucket(r) ==
    /\ pc[r] = "new"
    /\ \E k \in Key : key' = [key EXCEPT ![r] = k]
    /\ seen' = [seen EXCEPT ![r] = versioning]
    /\ Goto(r, "loaded")
    /\ UNCHANGED <<db, node, bucketLock, files, backupCreated, objectWritten, logged, reads,
                   faults, crashes>>

\* The WRITE lock of the bucket directory (module LockManager).
LockBucket(r) ==
    /\ pc[r] = "loaded"
    /\ bucketLock = None
    /\ bucketLock' = r
    /\ Goto(r, "staging")
    /\ UNCHANGED <<db, node, locals, files, logged, reads, faults, crashes>>

\* isdir, upload(body, staged), size, hash and mime type of the staged file. The
\* body may end early, or a later call raise with the file in place.
Stage(r) ==
    /\ pc[r] = "staging"
    /\ \/ NoFault /\ Goto(r, "staged") /\ staged' = [staged EXCEPT ![r] = TRUE]
       \/ Fault /\ Goto(r, "failed") /\ staged' \in {staged, [staged EXCEPT ![r] = TRUE]}
    /\ UNCHANGED <<db, node, bucketLock, locals, backup, logged, reads, crashes>>

\* (mutant) No isdir check of the key itself.
KeyConflictAbove(k) == \E p \in Above(k) : IsFile(p)

\* isdir(object_path), or mktree meets a file among the directories to make.
KeyConflict(k) == node[k] = Dir \/ \E p \in Above(k) : IsFile(p)

MakeAbove(k) == node' = [p \in Path |-> IF p \in Above(k) THEN Dir ELSE node[p]]

\* object_mkdir: the key and its prefixes must be free; missing directories are made
\* (and stay, whatever happens later), from the top down to one where a call raises.
Mkdir(r) ==
    /\ pc[r] = "staged"
    /\ \/ /\ KeyConflict(key[r])
          /\ NoFault /\ Goto(r, "refused") /\ UNCHANGED node
       \/ /\ ~ KeyConflict(key[r])
          /\ NoFault /\ Goto(r, "prepared") /\ MakeAbove(key[r])
       \/ /\ ~ KeyConflict(key[r])
          /\ Fault /\ Goto(r, "failed")
          /\ \E p \in Above(key[r]) \cup {key[r]} : MakeAbove(p)
    /\ UNCHANGED <<db, bucketLock, locals, files, logged, reads, crashes>>

\* A bucket that was not "Disabled" when it was loaded: the versioned branches are
\* `pass`, and the handler leaves the lock and dies of an UnboundLocalError.
NotImplemented(r) ==
    /\ pc[r] = "prepared"
    /\ seen[r] # "Disabled"
    /\ bucketLock' = None
    /\ Goto(r, "error")
    /\ UNCHANGED <<db, node, locals, files, logged, reads, faults, crashes>>

\* (mutant) The object is moved to the backup path, not copied.
BackupByRename(r) ==
    /\ pc[r] = "prepared"
    /\ seen[r] = "Disabled"
    /\ NoFault /\ Goto(r, "saved")
    /\ IF IsFile(key[r])
       THEN /\ backup' = [backup EXCEPT ![r] = node[key[r]]]
            /\ node' = [node EXCEPT ![key[r]] = None]
            /\ backupCreated' = [backupCreated EXCEPT ![r] = TRUE]
       ELSE UNCHANGED <<backup, node, backupCreated>>
    /\ UNCHANGED <<db, bucketLock, key, seen, objectWritten, staged, logged, reads, crashes>>

\* copy(object, backup) when there is an object file.
Backup(r) ==
    /\ pc[r] = "prepared"
    /\ seen[r] = "Disabled"
    /\ \/ /\ ~ IsFile(key[r])
          /\ NoFault /\ Goto(r, "saved")
          /\ UNCHANGED <<backup, backupCreated>>
       \/ /\ IsFile(key[r])
          /\ NoFault /\ Goto(r, "saved")
          /\ backup' = [backup EXCEPT ![r] = node[key[r]]]
          /\ backupCreated' = [backupCreated EXCEPT ![r] = TRUE]
       \/ /\ Fault /\ Goto(r, "failed")
          /\ UNCHANGED <<backup, backupCreated>>
       \/ /\ IsFile(key[r])
          /\ LateFault /\ Goto(r, "failed")
          /\ backup' = [backup EXCEPT ![r] = node[key[r]]]
          /\ UNCHANGED backupCreated
    /\ UNCHANGED <<db, node, bucketLock, key, seen, objectWritten, staged, logged, reads,
                   crashes>>

\* upsert_object: the flush opens SQLite's write transaction, or raises when another
\* one outlasts busy_timeout.
Flush(r) ==
    /\ pc[r] = "saved"
    /\ \/ NoFault /\ Goto(r, "flushed") /\ dbWriter = None /\ dbWriter' = r
       \/ Fault /\ Goto(r, "failed") /\ UNCHANGED dbWriter
    /\ UNCHANGED <<row, versioning, node, bucketLock, locals, files, logged, reads, crashes>>

\* os.replace(staged, object): the payload of r is at its key.
Replace(r) ==
    /\ node' = [node EXCEPT ![key[r]] = r]
    /\ staged' = [staged EXCEPT ![r] = FALSE]

\* (mutant) object_written is set after the commit.
PublishUnrecorded(r) ==
    /\ pc[r] = "flushed"
    /\ NoFault /\ Goto(r, "published")
    /\ Replace(r)
    /\ UNCHANGED <<db, bucketLock, locals, backup, logged, reads, crashes>>

\* rename(staged, object), which fsyncs the parents after the replacement.
Publish(r) ==
    /\ pc[r] = "flushed"
    /\ \/ /\ NoFault /\ Goto(r, "published")
          /\ Replace(r)
          /\ objectWritten' = [objectWritten EXCEPT ![r] = TRUE]
       \/ /\ Fault /\ Goto(r, "failed")
          /\ UNCHANGED <<node, staged, objectWritten>>
       \/ /\ LateFault /\ Goto(r, "failed")
          /\ Replace(r)
          /\ UNCHANGED objectWritten
    /\ UNCHANGED <<db, bucketLock, key, seen, backupCreated, backup, logged, reads, crashes>>

\* repo.commit(): the row describes the new payload.
Commit(r) ==
    /\ pc[r] = "published"
    /\ \/ /\ NoFault /\ Goto(r, "committed")
          /\ row' = [row EXCEPT ![key[r]] = r]
          /\ dbWriter' = None
       \/ /\ Fault /\ Goto(r, "failed")
          /\ UNCHANGED <<row, dbWriter>>
    /\ UNCHANGED <<versioning, node, bucketLock, locals, files, logged, reads, crashes>>

\* The `async with` of the bucket lock is left after a commit.
Unlock(r) ==
    /\ pc[r] = "committed"
    /\ bucketLock' = None
    /\ Goto(r, "answering")
    /\ UNCHANGED <<db, node, locals, files, logged, reads, faults, crashes>>

\* Best-effort removal of the backup, outside the lock; then the answer.
DropBackup(r) ==
    /\ pc[r] = "answering"
    /\ Goto(r, "ok")
    /\ \/ NoFault /\ NoLog
          /\ backup' = IF backupCreated[r] THEN [backup EXCEPT ![r] = None] ELSE backup
       \/ Fault /\ Log(r) /\ backupCreated[r] /\ backup' \in {backup, [backup EXCEPT ![r] = None]}
    /\ UNCHANGED <<db, node, bucketLock, locals, staged, reads, crashes>>

------------------------------------------------------------------------------
(* object_upload: compensation, before the lock is released. A call that    *)
(* raises here is logged and the next step is taken all the same.           *)

\* repo.rollback(); if it raises, the transaction ends with the session.
Rollback(r) ==
    /\ pc[r] \in {"failed", "refused"}
    /\ Goto(r, "rolledback")
    /\ \/ NoFault /\ NoLog /\ dbWriter' = IF dbWriter = r THEN None ELSE dbWriter
       \/ Fault /\ Log(r) /\ UNCHANGED dbWriter
    /\ UNCHANGED <<row, versioning, node, bucketLock, locals, files, reads, crashes>>

\* (mutant) Deletes what it wrote although there is a backup to restore.
UnpublishAlways(r) ==
    /\ objectWritten[r]
    /\ NoFault /\ NoLog
    /\ node' = [node EXCEPT ![key[r]] = None]
    /\ UNCHANGED backup

\* A new object was published: delete(object).
Unpublish(r) ==
    /\ objectWritten[r] /\ ~ backupCreated[r]
    /\ UNCHANGED backup
    /\ LET gone == [node EXCEPT ![key[r]] = None]
       IN  \/ NoFault /\ NoLog /\ node' = gone
           \/ Fault /\ Log(r) /\ node' \in {node, gone}

\* (mutant) The backup is deleted in a `finally`, not in the `else`.
RestoreFinally(r) ==
    /\ objectWritten[r] /\ backupCreated[r]
    /\ LET restored == [node EXCEPT ![key[r]] = backup[r]]
       IN  \/ NoFault /\ NoLog /\ node' = restored
           \/ Fault /\ Log(r) /\ node' \in {node, restored}
    /\ backup' = [backup EXCEPT ![r] = None]

\* An object was overwritten: copy(backup, object), and only then delete(backup).
Restore(r) ==
    /\ objectWritten[r] /\ backupCreated[r]
    /\ LET restored == [node EXCEPT ![key[r]] = backup[r]]
           dropped == [backup EXCEPT ![r] = None]
       IN  \/ NoFault /\ NoLog /\ node' = restored /\ backup' = dropped
           \/ Fault /\ Log(r) /\ node' \in {node, restored} /\ UNCHANGED backup
           \/ Fault /\ Log(r) /\ node' = restored /\ backup' = dropped

\* Nothing was published: "The original object is still intact, so discard the
\* backup."
Discard(r) ==
    /\ ~ objectWritten[r] /\ backupCreated[r]
    /\ UNCHANGED node
    /\ LET dropped == [backup EXCEPT ![r] = None]
       IN  \/ NoFault /\ NoLog /\ backup' = dropped
           \/ Fault /\ Log(r) /\ backup' \in {backup, dropped}

\* Nothing was published and there was no object.
NothingToRestore(r) ==
    /\ ~ objectWritten[r] /\ ~ backupCreated[r]
    /\ NoFault /\ NoLog
    /\ UNCHANGED <<node, backup>>

Compensate(r) ==
    /\ pc[r] = "rolledback"
    /\ Goto(r, "restored")
    /\ Unpublish(r) \/ Restore(r) \/ Discard(r) \/ NothingToRestore(r)
    /\ UNCHANGED <<db, bucketLock, locals, staged, reads, crashes>>

\* (mutant) Staged data is removed only when it had been published.
DropStagedIfWritten(r) ==
    /\ pc[r] = "restored"
    /\ Goto(r, "reconciled")
    /\ NoFault /\ NoLog
    /\ staged' = IF objectWritten[r] THEN [staged EXCEPT ![r] = FALSE] ELSE staged
    /\ UNCHANGED <<db, node, bucketLock, locals, backup, reads, crashes>>

\* delete(staged)
DropStaged(r) ==
    /\ pc[r] = "restored"
    /\ Goto(r, "reconciled")
    /\ LET dropped == [staged EXCEPT ![r] = FALSE]
       IN  \/ NoFault /\ NoLog /\ staged' = dropped
           \/ Fault /\ Log(r) /\ staged' \in {staged, dropped}
    /\ UNCHANGED <<db, node, bucketLock, locals, backup, reads, crashes>>

\* (mutant) The lock is only released on the way of the commit.
AnswerErrorLocked(r) ==
    /\ pc[r] = "reconciled"
    /\ dbWriter' = IF dbWriter = r THEN None ELSE dbWriter
    /\ Goto(r, "error")
    /\ UNCHANGED <<row, versioning, node, bucketLock, locals, files, logged, reads, faults,
                   crashes>>

\* The exception leaves the lock and is answered; the session is closed.
AnswerError(r) ==
    /\ pc[r] = "reconciled"
    /\ bucketLock' = None
    /\ dbWriter' = IF dbWriter = r THEN None ELSE dbWriter
    /\ Goto(r, "error")
    /\ UNCHANGED <<row, versioning, node, locals, files, logged, reads, faults, crashes>>

------------------------------------------------------------------------------
(* Everything that does not take the bucket lock.                           *)

\* services/bucket_versioning_update.py. "Disabled" cannot be restored.
PutVersioning ==
    /\ dbWriter = None
    /\ versioning' \in {"Enabled", "Suspended"} \ {versioning}
    /\ UNCHANGED <<row, node, dbWriter, bucketLock, pc, locals, files, logged, reads, faults,
                   crashes>>

\* object_download, load_object: the row, of which the headers are made.
ReadRow(d) ==
    /\ dpc[d] = "new"
    /\ \E k \in Key :
          /\ row[k] # None
          /\ dkey' = [dkey EXCEPT ![d] = k]
          /\ drow' = [drow EXCEPT ![d] = row[k]]
    /\ dpc' = [dpc EXCEPT ![d] = "found"]
    /\ UNCHANGED <<db, node, bucketLock, pc, locals, files, logged, body, faults, crashes>>

\* object_download, isfile: 404 although the row was there, or go on.
CheckBytes(d) ==
    /\ dpc[d] = "found"
    /\ dpc' = [dpc EXCEPT ![d] = IF IsFile(dkey[d]) THEN "streaming" ELSE "missing"]
    /\ UNCHANGED <<db, node, bucketLock, pc, locals, files, logged, dkey, drow, body, faults,
                   crashes>>

\* The router opens the file and streams it. Replacing the file meanwhile does not
\* change the open one.
Stream(d) ==
    /\ dpc[d] = "streaming"
    /\ dpc' = [dpc EXCEPT ![d] = "sent"]
    /\ body' = [body EXCEPT ![d] = node[dkey[d]]]
    /\ UNCHANGED <<db, node, bucketLock, pc, locals, files, logged, dkey, drow, faults, crashes>>

\* The process is killed and started again: requests, locks and the open transaction
\* are gone, committed rows and files stay, temporary files included.
Crash ==
    /\ crashes < MaxCrashes
    /\ crashes' = crashes + 1
    /\ \E r \in Upload : pc[r] \notin {"new"} \cup Ended
    /\ bucketLock' = None
    /\ dbWriter' = None
    /\ pc' = [r \in Upload |-> IF pc[r] \in {"new"} \cup Ended THEN pc[r] ELSE "dead"]
    /\ dpc' = [d \in Download |-> IF dpc[d] \in {"found", "streaming"} THEN "dead" ELSE dpc[d]]
    /\ UNCHANGED <<row, versioning, node, locals, files, logged, dkey, drow, body, faults>>

------------------------------------------------------------------------------

Init ==
    /\ row = [k \in Key |-> None]
    /\ node = [p \in Path |-> None]
    /\ versioning = "Disabled"
    /\ bucketLock = None
    /\ dbWriter = None
    /\ pc = [r \in Upload |-> "new"]
    /\ key = [r \in Upload |-> None]
    /\ seen = [r \in Upload |-> "Disabled"]
    /\ staged = [r \in Upload |-> FALSE]
    /\ backup = [r \in Upload |-> None]
    /\ backupCreated = [r \in Upload |-> FALSE]
    /\ objectWritten = [r \in Upload |-> FALSE]
    /\ logged = {}
    /\ dpc = [d \in Download |-> "new"]
    /\ dkey = [d \in Download |-> None]
    /\ drow = [d \in Download |-> None]
    /\ body = [d \in Download |-> None]
    /\ faults = 0
    /\ crashes = 0

\* The steps of an upload under the bucket lock, and the ones around it.
Transaction(r) ==
    \/ Stage(r) \/ Mkdir(r) \/ NotImplemented(r) \/ Backup(r) \/ Flush(r) \/ Publish(r)
    \/ Commit(r) \/ Unlock(r)

Compensation(r) == Rollback(r) \/ Compensate(r) \/ DropStaged(r) \/ AnswerError(r)

Put(r) ==
    LoadBucket(r) \/ LockBucket(r) \/ Transaction(r) \/ Compensation(r) \/ DropBackup(r)

Get(d) == ReadRow(d) \/ CheckBytes(d) \/ Stream(d)

Next ==
    \/ \E r \in Upload : Put(r)
    \/ \E d \in Download : Get(d)
    \/ PutVersioning
    \/ Crash

Spec == Init /\ [][Next]_vars

\* The event loop runs every request to its end; a lock that is free is granted
\* (LockManager, EveryTaskFinishes).
FairSpec == Spec /\ \A r \in Upload : WF_vars(Put(r))

------------------------------------------------------------------------------
(* Properties.                                                              *)

\* A committed object has a file at its path at every instant: during overwrites,
\* compensation, failed compensation and after crashes.
RowHasFile == \A k \in Key : row[k] # None => IsFile(k)

\* The bytes a committed row describes are never lost: they are at the key or in the
\* backup file of an upload to that key, whatever raises and whenever the process dies.
Recoverable ==
    \A k \in Key : row[k] # None =>
        \/ node[k] = row[k]
        \/ \E r \in Upload : key[r] = k /\ backup[r] = row[k]

\* Upload r has its payload at its key and has not committed.
InDoubt(r) == objectWritten[r] /\ pc[r] \in {"published", "failed", "rolledback"}

\* An upload to k was killed, or logged that its cleanup failed.
Disturbed(k) == \E r \in Upload : key[r] = k /\ (r \in logged \/ pc[r] = "dead")

\* The bytes at k, looking through an upload in doubt.
CommittedBytes(k) ==
    LET writers == {r \in Upload : InDoubt(r) /\ key[r] = k}
    IN  IF writers = {} THEN IF node[k] = Dir THEN None ELSE node[k]
                        ELSE backup[CHOOSE r \in writers : TRUE]

\* Bytes and metadata agree: at most the holder of the lock is in doubt, its backup is
\* what the row describes, and every other key holds the payload of its row. So a
\* failed upload leaves nothing behind unless the operator was told by the log.
BytesFollowRow ==
    \A k \in Key : ~ Disturbed(k) => CommittedBytes(k) = row[k]

\* A commit makes a row describe exactly the bytes that are in place at that moment,
\* and is done under the lock.
CommitAfterPublish ==
    [][\A k \in Key : row'[k] # row[k] => node[k] = row'[k] /\ bucketLock = row'[k]]_vars

\* An answered upload leaves no temporary file, on any of its paths, unless it logged
\* that; the unimplemented versioned branches are set aside.
NoSilentLeak ==
    \A r \in Upload :
        pc[r] \in {"ok", "error"} /\ r \notin logged /\ seen[r] = "Disabled" =>
            ~ staged[r] /\ backup[r] = None

\* The keys of committed objects never contain one another, and no file lies above a
\* file: the bucket directory can represent the bucket.
KeysAreLeaves ==
    \A p, q \in Path : IsStrictPrefix(p, q) /\ node[q] # None => node[p] = Dir

\* A download that found a row finds and streams bytes: never 404 after the row was
\* there, never a stream that breaks because the file is gone.
RowIsServed ==
    \A d \in Download : dpc[d] # "missing" /\ (dpc[d] = "sent" => body[d] \in Upload)

\* Every upload is answered or killed, and the bucket lock is free in the end.
EveryUploadEnds == <>[](bucketLock = None /\ \A r \in Upload : pc[r] \in Ended)

=============================================================================
