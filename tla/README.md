# A verified model of hidden

*hidden* is an S3-compatible object store: a single-process FastAPI application
that keeps object payloads as files in a gocryptfs mount and everything else in
a SQLite database inside the same mount. This directory models its concurrency
and its failure handling in TLA+, checks the models with TLC, and proves the
central safety properties with TLAPS for every value of the constants.

Paths below are relative to `src/`; `app/locks.py:173` is line 173 of that file.

## 1. The system

### Components

| Component | State | Operations | Module |
|---|---|---|---|
| Lock manager, `app/locks.py` | list of registered holders, one `asyncio.Condition` | `lock_directory`, `lock_file`, acquire, wait, release, cancellation | `LockManager`, `SubtreeLock` |
| Object upload and download, `app/services/object_upload.py`, `object_download.py`, `app/s3/object.py` | objects table, bucket directory, staged and backup files, local flags | PUT with its transaction and its compensation, GET, crash | `ObjectStore` |
| Bucket configuration, `bucket_versioning_update.py`, `bucket_object_lock_update.py` | one row of the buckets table | PutBucketVersioning, PutObjectLockConfiguration | `BucketConfig` |
| Multipart uploads, `multipart_*.py`, `app/s3/multipart.py` | multipart and part tables, upload directory, part files, the object at the key | create, upload part, complete, abort, plain PUT of the key | `Multipart`, `UploadSession` |
| Bucket requests, `bucket_create.py`, `bucket_list.py`, `bucket_get.py`, `bucket_*_retrieve.py` | buckets table, bucket directories, bucket locks | create with its compensation, list, get, retrieve | `BucketApi` |
| Authentication, `app/security/sigv4.py`, `require_auth.py` | none; the clock | extract, resolve the payload hash, verify | `SigV4`, used by `BucketApi` |
| Encrypted storage, `gocryptfs_*.py`, `app/runtime/`, `entrypoint.sh` | cipherdir, passphrase and Fernet key, mount, watchdog loop | init, mount, unmount, rotate, reveal, the gate before them, watchdog | `Gocryptfs` |
| Root user, `user_init.py` | users and keys tables, pooled connections | one initialisation | `Gocryptfs` |
| Files, `app/repositories/io.py` | none of its own | upload, write, copy, concat as one atomic write; rename, delete, mktree, rmdir | `Ingest`, `AtomicFile`; steps of `ObjectStore`, `Multipart`, `BucketApi` |
| Body readers, `app/streams.py` | the buffers of two readers | read, aws-chunked framing | `BodyReader`, used by `Ingest` |
| ORM, SQLite, `app/repositories/orm.py`, `app/db/` | open transactions | select with filters, order and limit; flush, commit, rollback | `Orm`; steps of `ObjectStore`, `BucketConfig`, `BucketApi` |
| Hooks, `app/hooks.py` | registered handlers | emit | `Emit` of `BucketApi` |
| Routers, XML, errors, logging, configuration | none, or constant | formatting | not modelled |

### How they interact

A request is an asyncio task. A service that changes files takes locks from the
lock manager (a bucket directory, an upload directory, one part file, or the
secrets directory), then mixes calls to the file layer and to the ORM, each of
them an `await` at which every other request can run. No transaction covers the
file system and the database together: the services order their steps, remember
how far they came in local flags, and undo what they did in an `except` block
when a call raises. SQLite has one writer at a time: the first flush of a
session takes the write lock until its commit or rollback. Downloads and the
two bucket configuration services take no lock of the lock manager at all.

### What is hard, and what makes each part correct

* **Lock manager.** A waiter that is notified runs later; the release runs in a
  task of its own, shielded from the cancellation of its owner; resources
  overlap in four ways (directory/directory, directory/file, file/directory,
  file/file). It is correct if conflicting locks are never held together, no
  wake-up is lost, nothing stays registered for ever, no nesting deadlocks, and
  the four overlap rules amount to locking sets of paths.
* **Upload.** Any call can raise, then so can its compensation; the process can
  die anywhere and nothing reconciles files and rows when it starts again;
  downloads look in from the side; keys are paths, so one key may be a prefix
  of another. It is correct if a committed row always has a file, committed
  bytes are never lost, rows and bytes agree unless the log says otherwise,
  temporary files do not pile up silently, and no key becomes a directory of
  another.
* **Bucket configuration.** A request validates a snapshot and SQLAlchemy then
  writes only the columns that differ from it. It is correct if the constraints
  hold, Object Lock cannot be lost, and a retention rule is one somebody asked
  for.
* **Multipart.** Parts and the upload directory are renamed aside before the
  commit that makes that true; a completion looks at the parts under one lock
  and then waits for a second one; an abort races part uploads; whatever fails
  is undone file by file, and each of these steps can fail too. It is correct
  if an upload ends once, an acknowledged part survives until then, the object
  is made of exactly the parts the client listed, and an open upload can go on
  after any failure that was not logged.
* **Body and file.** A body arrives in pieces that have nothing to do with its
  frames, may end or stop anywhere, and lies about its length; writing it is five
  calls, each of which can raise, be cancelled, or be the last before a crash. It
  is correct if what is stored is what was encoded, whatever the pieces, if
  everybody else sees the old or the whole new file, and if nothing temporary is
  left behind by an error.
* **Bucket requests.** What a client signed passes through proxies and queues
  before it is verified, against a clock that moves on; a bucket is a row and a
  directory without a common transaction; a list is read beside creations that
  may be taken back. It is correct if whoever is let in signed what is done, in
  time; if an answer says what happened; if every row has its directory; and if
  lists are exact.
* **Encrypted storage.** Preconditions are checked before the lock is waited
  for; secrets are on a medium that comes and goes; the watchdog is another
  process, which takes no lock and may unmount in the middle of a mount. It is
  correct if data stays decryptable whatever fails, no rotation undoes another,
  a storage that is open has a database, nothing is written in plain text, there
  is one root user, and a storage without secrets gets unmounted.

`PROJECT.json` lists the hazards line by line, with the properties that cover
them.

## 2. Modules

`LockManager` models one asyncio task per request that runs a *plan*, the locks
it nests. The critical sections of the code hold the condition's mutex without
awaiting anything but `wait()`, so each is one action: `AcquireGranted`,
`AcquireWait` and `AcquireRefused` are the first try of `_acquire`, `WakeGranted`
and `WakeAgain` its re-check after a notification, `ReleaseStep` the release
task (remove, `notify_all`), `Exit` the creation of that task. Cancellation is
possible in every state in which the task is suspended: `CancelWaiter`,
`CancelRunning`, `CancelReleasing` and `CancelAgain`, which follow
`_release_safely`. A body may leave early at any depth (it may raise). The field
`level` of a holder is not in the code: it tells apart entries that compare
equal there.

`SubtreeLock` is the abstract specification: clients take and give back
readers-writer locks on sets of paths, at once. `LockManager` refines it by
mapping each registered holder to the paths its resource covers.

`ObjectStore` models one bucket. The variables are the committed rows, the
nodes of the bucket directory, the lock, SQLite's writer, and per upload its
program counter, local flags and temporary files. One action per awaited group
of calls: `LoadBucket` (before the lock, a snapshot), `LockBucket`, `Stage`,
`Mkdir`, `Backup`, `Flush`, `Publish`, `Commit`, `Unlock`, `DropBackup`; the
`except` block is `Rollback`, `Compensate` (one of `Unpublish`, `Restore`,
`Discard`, `NothingToRestore`), `DropStaged`, `AnswerError`. A disjunct with `Fault`
is a call that raises before it did anything, one with `LateFault` a rename or
copy whose last directory fsync raises after the file is in place. `Get` is a
download in three steps without any lock, `PutVersioning` a change beside them,
`Crash` a kill and restart: rows and files stay, requests, locks and the open
transaction go. A payload is named by the upload that brought it, which is all
that hash, size and content type distinguish.

`UploadSession` is what a client that sees committed rows is promised: an
upload is opened once, takes parts, and ends once, as an object made of listed
parts or as nothing. `Multipart` implements it, over the rows, the upload
directory (in place, or renamed to the cleanup path of the request that ends
the upload), the part files, the object at the key, and per request its program
counter, flags, staged and backup file. One module holds all four services
because they meet in the upload directory; shared steps (`Rollback`,
`DropStaged`, `AnswerError`, `MoveAside`, `CommitEnd`) are one action for the
services that share them. Locks are not variables of their own: who is `Holding`
follows from the program counter, and `Overlaps` says, as the lock manager does,
that a directory covers its files. The bucket lock, nested inside, is a
variable, as plain uploads to the key compete for it; such an upload is one
step here (`PutObject`), what `ObjectStore` makes of it when it succeeds.
SQLite's write lock is left to `ObjectStore`: waiting for it is a step not yet
taken, giving up on it is a call that raises.

`BucketConfig` models the row of one bucket and requests of both services:
`Load` reads and validates, `Flush` sends the UPDATE of the columns that differ
from the snapshot (`Updated`) under the table's CHECK constraints, then `Commit`
or `Rollback`.

`Gocryptfs` models one request of any of six services (`init`, `mount`,
`unmount`, `rotate`, `reveal`, `user`) per member of `Request`. `CheckCipherdir`,
`CheckMountpoint` and `CheckPassphrase` are the gate, `CheckFernet` the check
that an initialisation makes itself, `Lock` the secrets lock (only reveals share
it). `WritePassphrase`, `CreateCipherdir`, `WriteFernet` and `Cleanup` are the
initialisation; `ReadPassphrase` is how each other service begins; then
`Rewrite` for a rotation; `Mount`, `MakeTree`, `CreateTables`, `CheckIntegrity`
and `RollbackMount`; `Unmount`; `SelectRoot` and `InsertRoot`. `Wake`, `Watch`
and `EmergencyUnmount` are one run of the watchdog: another step can come
between what it sees and what it does. `content` tells what is in the cipherdir
from what is in the bare mountpoint, into which the same calls write when
nothing is mounted. Files are named by the request that made them; ciphers are
ideal. Three ghosts remember that the code's own caveats came true: `blind` (an
initialisation got the lock although there was a storage, the TODO of
`gocryptfs_init.py:27`), `cut` (the watchdog unmounted in the middle of a mount)
and `logged` (the rollback of a mount failed, which the log reports). A fourth,
`raised`, names the mounts for which gocryptfs mounted and the removal of the
passfile raised afterwards (`cipherdir.py:120-124`), before the `try` that rolls
back: that is a disjunct of `Mount` (section 5).

`BodyReader` models the two readers of a request body byte by byte. `Receive` is
one piece from the network, of any length; `EndOfBody` and `Disconnect` its two
ends; `Feed` one read of the inner reader by the outer one; `ReadLine`, `NoLine`,
`ReadExact` and `CutShort` are the turns of the decoder's loops between two
awaits. A byte is a hexadecimal digit, one that means something in a line (CR, LF,
the semicolon, a blank, the signs, `_`, the x of `0x`), or another one. `HasSize`
and `FrameSize` are `int(line.split(b";", 1)[0].strip(), 16)` with all that it takes
for a number, negative ones too, and `Upto` is where a Python slice ends, which is
before the end of the buffer when the count is negative.
`Ingest` is `_atomic_write_stream` on top of it: `Open`, a chunk at a time
(`WriteUpload` from the readers, `WriteLocal` for `write`, `copy` and `concat`),
`Fsync`, `Replace`, `FsyncDirectory`, `Cleanup`, and from outside `Cancel`,
`LoseClient` and `Crash`. The destination is kept twice, as readers see it and as
the directory was last fsynced; a crash brings back either, and of a file that
was not fsynced any part. What clients send is defined with it: `Sent(b, n)` is
the first n pieces of a body, a line and its frame each, as AWS SDKs encode them,
with the sizes spelled as the client likes. A body is `Encoded` if it is a prefix of
all of them, cut anywhere, or goes on, where a size should be, with a line that is no
size to the code or with one that does not end. `Spec` has the encoded bodies,
`AnySpec` whatever bytes there are. `AtomicFile` is what the write promises: the
old content or the whole new one, for good once it has returned. `Ingest`
implements it.

`SigV4` and `Orm` are definitions only: what extraction, payload hash, canonical
request, time check and signature make of a request, and what a query returns:
`SelectAll` puts at place i the row with i - 1 others before it, and `Like` follows
the positions that a pattern can have reached after each byte of a text.
A signature is the record of everything that goes into it, so that two are equal
when the MACs are, and the parsing by regular expressions is one flag.
`BucketApi` runs requests through them. A request of the instance is what a
client signed (`sent`) and what arrives (`got`), which differ where something on
the way rewrote or lost a part. `Receive`, `ResolvePayload` (awaits the body) and
`Authenticate` are the way in; `LockBucket` to `Unlock` and `CallRaises`,
`Rollback`, `RemoveDirectory` are `bucket_create` and its `except` block;
`ListBuckets` and `ReadBucket` the reads; `Emit` runs one hook; `Tick` moves the
clock at any moment before the verification, `Crash` restarts the process. A
directory is made first and durable only after the fsync of its parent.
`orphaned` is a ghost: names whose directory a creation left behind.

`ObjectStore`, `Multipart` and `Gocryptfs` use the lock manager's contract (one holder of a
WRITE lock, and a free lock is granted to somebody) as `LockBucket` and `Lock`;
`LockManagerProofs` establishes it for the real manager. `ObjectStore` treats versioning as one
value that changes; `BucketConfig` shows how.

`SequenceLemmas` holds what several proofs need of the library's definitions: what
`FlattenSeq` computes, and that a set of naturals has a least element. The `MC...`
modules fix the constants for TLC. Operators marked `(mutant)` in
the modules are the plausible bugs that `PROJECT.json` pairs with each property:
replacing the real definition by the marked one makes TLC report the property
violated. They take no part in any specification.

## 3. Runs

| Run | Question | Instance | Result |
|---|---|---|---|
| `locks` | is the manager right for every shape of overlap, and do the nestings of the services always get through? | 3 tasks: every nesting of `app/services`, or the shapes of `tests/test_locks.py`, cancellation everywhere | exclusion, wake-ups, no leaks, no deadlock, progress and refinement hold |
| `store_faults` | do rows and files stay consistent, and is every upload answered? | 2 uploads, a download, keys `a` and `a/b`, 2 faults, 1 crash | seven properties hold |
| `store_fsync` | are committed bytes safe when a directory fsync fails? | 2 uploads, one key, 2 faults | **violated**, section 6 |
| `multipart_faults` | do parts, upload and object survive faults and crashes, and is every request answered? | 4 requests, one part number, 2 faults, 1 crash | eight properties hold |
| `config_races` | do stale snapshots break the configuration? | 4 requests, 3 rules, 1 fault | `AcknowledgedLockHolds`, `LockIsForever` hold |
| `gocryptfs_lifecycle` | do secrets, mount and root user keep together? | 2 requests of any service, 2 faults, 1 removal of the secrets, 1 restart | seven properties hold |
| `gocryptfs_watchdog` | is a storage without secrets always unmounted? | 2 requests, no fault, 1 removal | **violated**, section 6 |
| `ingest` | is an atomic write atomic, clean and finite, and does it store what was sent? | bodies of up to two frames, cut at every byte or whole, sizes spelled in eight ways, twelve lines that are no size, and plain ones; reads of 3 bytes, 2 faults, 1 crash | four properties hold |
| `ingest_framing` | are only whole payloads stored? | one body that has a negative size and no last frame, reads of 16 bytes | **violated**, section 6 |
| `api` | are answers true, lists exact, verdicts just, and rows with directories? | a request of 43 kinds beside a creation or a list, 2 faults, 1 crash, 3 moments | five properties hold |
| `api_prefix` | does a list have the keys that begin with the prefix? | one request with the prefix `b_`, no fault | **violated**, section 6 |
| `config_mixed` | is the rule in force one that was asked for? | as `config_races` | **violated**, section 6 |

### Bounds

* Three tasks of the lock manager: one that acts, one that it disturbs, and one
  that comes after both and competes for a wake-up. The tasks are interchangeable, so the
  initial states give them their plans in the order of a list (`AllRun`) instead of
  using TLC's symmetry, which is not sound for liveness. Two uploads in
  `store_faults`, one of which may have been through before the other overwrites
  it; with liveness among the properties, a third was more than it added, and
  the proofs hold for any number.
* `a` and `a/b` are the smallest keys of which one is a prefix of the other;
  the proof of `KeysAreLeaves` covers every depth.
* `MaxFaults = 2`: one call of the transaction and one of its compensation, or
  one in each of two uploads. `MaxCrashes = 1`: after a crash all requests of
  that run are dead, and a later upload finds what they left.
* Four multipart requests: one of each kind, or two of one kind instead of
  another, as requests choose what they are when they arrive. One part number: a
  second one matters only to what a completion takes and leaves, which the proofs
  of `PartsKept` and `Refinement` cover for any set of part numbers.
  `multipart_faults` runs with `FsyncMayFail = FALSE` (section 5).
* Four configuration requests: enable versioning, enable Object Lock, and two
  that hold snapshots from before.
* Two requests to the encrypted storage: initial states are an empty storage,
  an initialised one, and one that was mounted and used, so two requests meet in
  every pair of services at every stage. Sequences of three or more are what the
  proofs are for, which hold for any number of requests.
* The proofs remove all of these bounds for the properties they cover.
* Bodies of up to two frames, with and without chunk signatures, with no trailer,
  a short one, and one whose line is at the limit, and payloads that look like
  line ends and size lines; reads of 3 bytes split every one of them in another
  place, and the network delivers any number of bytes at a time. `LineMax = 4`
  lies above every size line but one, as 8 KiB does; `MaxBytes = 27` is exceeded by the
  longest of them only. `ingest_framing` reads 16 bytes at a time, so that what comes
  after a negative size is in the buffer. One old content, three local ones.
* One request of each kind (43 of them: each step of each handler, and each part
  of a signature being wrong on its own) beside one creation of the same bucket
  or a list. `MaxSkew = 1` and moments 0 to 2 make a request early, on time, at
  the edge, and late; the lifetime of presigned ones ends between two of them.
* Deadlock is checked everywhere except in `BucketConfig`, `Gocryptfs`, `Ingest`
  and `BucketApi`, where all requests may be over (the lock manager idles
  explicitly, versioning can always change in `ObjectStore`, and plain uploads
  always succeed in `Multipart`).

### Fairness

`LockManager!FairSpec` assumes that asyncio runs every task that is ready, that
bodies end, and that release tasks run; it assumes nothing about cancellation.
`ObjectStore!FairSpec` assumes weak fairness of each upload: its awaits return
or raise, and it gets the bucket lock when that is free for good. A lock that
other uploads keep taking is not assumed to be granted: the instance has
finitely many uploads, as every schedule up to a point in time has. Downloads,
versioning changes, faults and crashes are never forced to happen.
`Multipart!FairSpec` assumes the same of each request: once arrived, its awaits
return or raise, and it gets a lock that stays free. Plain uploads may come for
ever, and are not forced to. `Gocryptfs!FairSpec` assumes it of each request and
of the watchdog, whose loop the shell runs as long as it lives; requests need
not arrive, nor secrets be taken away or brought back. A request that is starved
by others at the secrets lock is again excluded by their finite number.
`Ingest!FairSpec` assumes that the one write goes on: calls return or raise, and
a client that stays connected sends the rest of its body or closes it. A client
that stays and sends nothing is not excluded by the code: nothing in it times out,
and the upload then waits, holding the bucket lock (`object_upload.py:140`).
`BucketApi!FairSpec` assumes that some request that can go on does, which is less
than fairness of each; bodies arrive.

## 4. Proofs

Each `...Proofs` module proves an inductive invariant (initial states, one lemma
per action, stuttering), then derives the named properties from it. TLC checked
the invariants on the instances first.

**`LockManagerProofs`** holds for any tasks, plans and paths.

| Theorem | Says |
|---|---|
| `TypeCorrect`, `Exclusion`, `NoLostWakeup`, `BodiesLocked`, `NothingLeaks` | the invariants of `locks` |
| `PathsExclusive` | no path is under a WRITE lock and another lock |
| `Refinement` | `LockManager` implements `SubtreeLock` |
| `DeadlockFreedom` | plans that take their locks in the order of a bounded rank never deadlock |

The invariant relates the program counter of each task to what it has
registered: a body is inside its locks, a pending release refers to one
registered holder, and a sleeper is in conflict with somebody else's holder,
which is what a missing `notify_all` would break. Refinement needs the lemma that
two resources overlap by the four rules of the code exactly when their sets of
paths meet. `DeadlockFreedom` picks, among the sleepers, one whose requested rank
is largest: the holder that blocks it cannot be asleep, for it would wait for a larger
rank. Its premise, that plans are ordered, is an assumption that
`MCLockManager` states about the nestings in the services and TLC evaluates.

**`ObjectStoreProofs`** holds for any keys of any depth, any uploads and
downloads, any number of faults and crashes.

| Theorem | Says |
|---|---|
| `TypeCorrect` | `TypeOK` |
| `FilesExist` | a committed row has a file at its key |
| `TreeOfKeys` | the bucket directory is always a tree whose files are leaves |
| `DownloadsServed` | a download that found a row finds and streams a payload |
| `CommitsDescribe` | a row changes only under the lock, to what is in place |
| `NothingLost` | if no directory fsync fails after its rename, the committed bytes are at the key or in a backup of an upload to it |
| `NothingLeaks` | under the same condition, `NoSilentLeak`: an upload that was answered left no temporary file, unless it logged that |
| `BytesAndRowsAgree` | under the same condition, `BytesFollowRow`: what is at a key is what its row describes, looking through the upload that is at it, unless the log says otherwise or the process died |

`RowHasFile` alone is not inductive: whether `delete(object_path)` in the
compensation is harmless depends on the flags of the handler. The invariant
therefore adds who may be inside the transaction (`HolderIsInside`), that the
flags tell the truth about key, backup and row at each program counter
(`LocalsTellTheTruth`, `Provenance`), and the shape of the tree. `NothingLost` needs a second layer,
`BackupIsCurrent`: the backup of the upload inside its transaction is what the
row describes. `NothingLeaks` needs `TInv`, which says of each upload where it
can have a staged file and a backup at each program counter, as long as it has
not logged anything. `BytesAndRowsAgree` needs `FInv` on top of both: a key that
nobody logged about and at which nobody died follows its row, through the backup of
the one upload whose fate is open there, and such disturbances stay. The three
are proved under `FsyncMayFail = FALSE`, because with late failures they are
false: TLC finds a counterexample to each (section 6 for the first), all from a
flag that is not set although the rename took place.

**`BucketConfigProofs`** holds for any requests, rules and faults: `TypeCorrect`
(the row satisfies its table's constraints), `LockAcknowledged`, `LockStays`.
The invariant says that a snapshot with Object Lock is never ahead of the row,
that a request moves Object Lock only to TRUE, and that what is flushed has
been checked and is guarded by the write lock. A request whose UPDATE is empty
commits without that lock, which is why the lemma `UpdatedRow` shows that it
changes nothing.

**`MultipartProofs`** holds for any requests, part numbers, faults and crashes.

| Theorem | Says |
|---|---|
| `TypeCorrect` | `TypeOK` |
| `EndsFinally` | an ended upload has no part rows and no directory at its path |
| `PartsKept` | an acknowledged part is in its file or in a backup until the upload ends |
| `BytesCommitted` | the bytes at the key are those of the row when it is committed |
| `Refinement` | `Multipart` implements `UploadSession` |
| `ObjectKept` | if no fsync fails after a replace, the committed object is at its key or in a completion's backup |
| `NothingLeaks` | under the same condition, `NoSilentLeak`: an answered request left no staged file, backup or renamed directory, unless it logged that |
| `FailuresUndone` | under the same condition, `FailuresAreUndone`: when nobody is at it, an open upload has its directory in place with the acknowledged parts in it, and the object is what its row says, whatever failed, unless that was logged |

The invariant has three layers. `Creation` and `Exclusion` say who can be at
the upload at all. `PartTellsTheTruth`, `EndTellsTheTruth` and
`CompleteTellsTheTruth` say what each request may rely on at each of its
program counters, which is what it saw under its lock (the upload is open, the
listed parts are the stored ones, the directory is aside). `Provenance` ties
a part row to the upload that committed it; it is why a compensation that
deletes "its" part file never deletes an acknowledged part. Steps are proved by
what they disturb: a step under the lock of a part leaves every other holder
alone because that has another part (`PartOthers`), one under the lock of the
directory because there is no other holder (`EndOthers`), and one that leaves
rows and files alone disturbs nobody (`QuietOthers`). `ObjectKept` needs
`ObjectTellsTheTruth` in addition: a completion that has written the object
still holds the bucket lock and the bytes it may have to put back. `LInv` says
for each request which temporary files it may have where, and whose path the
upload directory can be at; other requests only ever take such files away with
the directory (`Apart`). `UInv` follows the directory, each part file and the object
through the request that is at it, as long as nobody has logged a failure.
With late failures both new theorems are false, as TLC shows.

**`GocryptfsProofs`** holds for any requests, faults, removals of the secrets
and restarts.

| Theorem | Says |
|---|---|
| `TypeCorrect` | `TypeOK` |
| `DataIsRecoverable` | `Recoverable`: a storage with data keeps its configuration, its passphrase and its keys, unless an initialisation was let in blindly |
| `RotationsAreChained` | `RotationsChain`: of two rotations from one password one is refused |
| `MountsAreReady` | `MountedIsReady`: what is mounted after the mounts are over has a database, or the log tells why not, unless a removal of a passfile raised after gocryptfs had mounted (`raised`) |
| `NothingInPlainText` | `EncryptedAtRest`, unless a mount was cut short |
| `RootIsUnique` | `OneRoot`, under the same condition |

The shared invariant is what the lock is good for: holders exclude each other
(`Exclusive`), and a request that has opened the passphrase finds it unchanged,
under the same password, until it is through (`KeysOpened`); that is where a
rotation beside a mount, or a shared rotation, would break. On top of it,
`Sessions` says that no second root user can appear between `SelectRoot` and
`InsertRoot`, `Kept` that an initialisation that was not let in blindly finds no
data, `Uncut` that a mount that was not cut short is in place until it ends,
and `Chain` that a password once replaced is never current again.

**`IngestProofs`** holds for any limits, contents and faults; the first two theorems
for any bytes that clients send, the others for bodies that are `Encoded`.

| Theorem | Says |
|---|---|
| `TypeCorrect` | `TypeOK`, of the write and of the readers under it: what a size line is taken for is a number, of either sign |
| `TempRemoved` | `TempIsRemoved`: a temporary file stays only after a cancellation, a crash, or a removal that raised |
| `DecodesAsEncoded` | `DecodedAsEncoded`: what was written when the stream is over is what the client put into the frames that are there, for every split by the network and the reads and every spelling of sizes; what ends or strays inside of a piece is not stored; what has its last frame is refused only if it is too large or has a line at the limit |
| `WriteIsAtomic` | the write implements `AtomicFile`, without any premise |

`DecodesAsEncoded` is an induction over the body, carried by the steps of the
readers instead of by a recursion. Two facts about bodies come first. Where n
pieces of a body have got through, either the next piece comes, as far as the
body goes (`Goes`), or another line that is no size or does not end, and then the
body is not whole (`Strays`): `Continues`, which rests on `SameLine`, that two lines
that end in one place are the same. And the first line the decoder finds in its
buffer is the one that was sent there, wherever the buffer ends: `LineIn`. That a size
counts the same with an extension behind it is `SizeLine`.
The invariant then has two parts. `Flow` says that the two buffers hold, in
order, what comes next in the body. `Place` says that some number of pieces have
been decoded and where the decoder is in the next one (before its size, in its
payload, before the CRLF, in the trailer, at the end), and that what the caller
got together with what is waiting for it is the payload of these pieces. One lemma
for each step of the readers shows that it keeps both, or ends the read with a
reason. TLC checked the invariant on the instance of `ingest` before. The
concatenations this needs (`FlattenSeq`, which is recursive in the library) are
lemmas of `SequenceLemmas`.

`WriteIsAtomic` rests on it for the content, and for the rest on `Durable`:
what is closed is fsynced, what is in place is fsynced, and, once it is replaced,
is the content to be written. The refinement mapping shows `published` as soon as
the temporary file is in place, also to a write that then fails.

**`BucketApiProofs`** holds for any requests, users, keys, names, bounds and
lifetimes.

| Theorem | Says |
|---|---|
| `TypeCorrect` | `TypeOK` |
| `RowsHaveDirectories` | `RowHasDirectory` |
| `AnswersTell` | `AnswersAreTrue` |
| `VerdictsAreJust` | `VerdictIsJust`, as an action property |
| `ListingsAreExact` | `ListingIsExact`: a list of buckets has every bucket of the user that was there all the time and none that was never made, a list of keys those that begin with the prefix, letter by letter: it leaves out one only when it is full of earlier ones, as far as the prefix has no `_`, `%` or `\`, and shows no other, as far as it has no letter either; both in order |

The invariant adds to the properties who holds the bucket lock and the writer at each
program counter (`Locks`), what a creation knows of the row and the directory of
its bucket there (`Directories`, `Local`), and what its answer says (`Answers`).
`VerdictsAreJust` rests on lemmas about `SigV4`: a signature determines every
component of the request that goes into it, and for ASCII text the encoding of the
code is that of the rules. `ListingsAreExact` adds `ListInv`, what a request knows
of the table and is about to show, and rests on lemmas about `Orm`: texts are
totally ordered, `SelectAll` returns the rows that pass the filters in that order
without gaps, and LIKE with the pattern of a prefix without wildcards finds every text
that begins with it, and no other if the prefix has no letters. For the other prefixes
the code is wrong (section 6).

### Induction

The provers have no induction over data. Where a proof needs one (over a path, a
text, the pieces of a body, the members of a finite set), it argues about the
least counterexample, which `LeastNatural` provides from the well-foundedness of <.

### Only model-checked

Liveness: `EveryTaskFinishes`, `EveryUploadEnds`, `EveryRequestEnds`,
`WatchdogUnmounts`, `EveryWriteEnds`, `EveryAnswer`. Liveness under
fairness is outside what the prover covers. Every safety property that a passing
run checks is also a theorem; those of `ObjectStore` and `Multipart` that are
proved under `FsyncMayFail = FALSE` are checked with the same constant.

### Assumptions on constants

Paths are sequences of names, keys are paths, model values such as `None`, `Dir`,
`Null` are not requests, payloads or numbers, rules are what the XML parser
accepts, plans are sequences of locks, bodies are sequences of bytes.
`TableAssumption` of `BucketApi` says that texts are sequences of numbers, that the
tables are finite and that a bucket and a key name one object, which is the
UNIQUE constraint of its table. `ByteAssumption` of `Ingest` says that the kinds of
bytes are distinct. What a framed body is (lines without CRLF inside, sizes that are
those of the frames, cut or straying as described in section 2) is no assumption but
the definition `Encoded`, to which `Spec` restricts the bodies; `MCIngest` states, and
TLC evaluates, that its bodies are. The one that matters is `SignedAssumption` of `BucketApi`: what arrives carries the
signature that its client made with a secret of its own, and nobody else can make
one (hashes and MACs are perfect); clients announce the digest of their body or
none. Each is a named `ASSUME` in the module
that declares the constant, and TLC evaluates it on every run.

## 5. What is left out

* **Versioned uploads.** The branches for versioned buckets are `pass` in
  `object_upload.py:189-216` and fail later; `NotImplemented` models exactly this.
* **Order and size of parts.** `multipart_complete.py` refuses lists that are
  not ascending, and parts that are too small, before it changes anything.
* **Fsync failures and `FailuresAreUndone`.** A rename to a backup that raises in its
  last fsync leaves `backup_created` False, so an acknowledged part stays in the
  backup file (`multipart_upload.py:131`). That is the cause of the first
  finding below. `multipart_faults` runs without such failures; of the theorems
  about `Multipart`, `ObjectKept`, `NothingLeaks` and `FailuresUndone` assume their
  absence, the others hold with them.
* **Cancellation of uploads.** The server cancels requests only when it shuts
  down; from the store's view that is a `Crash`. The lock manager's own
  behaviour under cancellation is modelled in full.
* **Torn files.** In `ObjectStore` and `Multipart`, a write is one step that
  leaves an old or a new file; that it is so is what `Ingest` shows.
* **Ambiguous commits.** A commit that raises did not commit; SQLite is local
  and runs with `synchronous=FULL`.
* **What a download may see.** It reads the key between `Publish` and the end of
  the compensation, and may return a payload whose upload is then answered with
  an error. `RowIsServed` claims that it finds a payload, not whose.
* **The watchdog's other look.** It also unmounts when it finds no application
  process; that process is PID 1, so the container ends with it (`Crash`).
* **Stacked and lingering mounts.** `fusermount3 -uz` detaches lazily; files that
  were open stay so. The model lets pooled connections read on (`pooled`), and
  takes every other access to the path of the mountpoint for one to what is
  mounted there now.
* **The Fernet cache.** Whether the key is cached is left open: `InsertRoot` may
  fail or succeed when the file cannot be read.
* **Blind initialisations and cut mounts.** The properties that these break are
  conditional on the ghosts `blind` and `cut`: the source names the first as to
  be done, and accepts the second (`app/runtime/watchdog.py:16-20`).
* **Several processes.** The application is built for one worker (ADR-05).
* **Tags, user metadata, access checks, key syntax, default retention of
  rows.** They are data that no property here tells apart.
* **Hook handlers.** What they do is theirs; `BucketApi` has them raise or not.
* **Details of framing.** The two bytes after a payload are not compared with CRLF,
  in the model as in the code, and no property asks for it. Bytes of the framing count
  towards the limit.
* **What the code gets wrong.** `DecodedAsEncoded`, `ImplementsAtomicFile`,
  `ListingIsExact` and `MountedIsReady` are stated so that they hold: of a body that
  ends between two frames the first asks only that these frames are what is stored,
  the first two are about bodies without negative sizes, the third is about
  prefixes without wildcards, and in part without letters, the last
  excepts `raised`. The runs `ingest_framing` and `api_prefix` check what is excepted of the
  first three, and are findings.
* **A failed mount can stay mounted.** `cipherdir_mount` removes its passfile in a
  `finally` that swallows only `FileNotFoundError` (`cipherdir.py:120-124`). If that
  raises after gocryptfs has mounted, so does the call, which is before the `try` of
  `gocryptfs_mount.py:57`: the client gets an error, the storage stays mounted, without a
  database when it is a new one, nothing rolls it back and nothing is logged. `Mount` has
  that step; `MountedIsReady` is claimed for histories without it, and TLC finds it
  violated at once when the conjunct `raised = {}` is left out.
* **An upload that waits while versioning is enabled.** It decides on the status it read
  before it waited for the lock (`object_upload.py:119`), so it replaces the current
  object without a version record. `ObjectStore` has that interleaving (`PutVersioning`
  between `LoadBucket` and the lock); as versions do not exist yet, no property is
  about them.
* **Text beyond ASCII in signatures.** `uri_encode` escapes code points, the rules
  escape the bytes of UTF-8 (`sigv4.py:83`), so a prefix with an accent never
  verifies. `VerdictIsJust` is claimed for ASCII.
* **Slow bodies.** The payload hash awaits the body before the time is checked
  (`sigv4.py:338`), so a request can become late while it is being sent.
* **Directories nobody owns.** When the last fsync of `mktree` raises, the
  directory exists and `directory_created` is not set; nothing removes it, and the name is
  refused from then on. A restart in the middle of a creation does the same. The
  ghost `orphaned` and the crash counter except both from `RowHasDirectory`.
* **Empty directories.** They stay after failed uploads (ADR-27). The model
  keeps them, and a later PUT of such a prefix as a key is refused in it as in
  the code; no property asks otherwise.

## 6. Findings

* **Losing the only copy after a failed fsync** (`store_fsync`).
  `rename` in `app/repositories/io.py` renames and then fsyncs the parent directories.
  When the fsync raises, the upload has published the new bytes but
  `object_written` is still False; its compensation takes the old object for
  intact and deletes the backup. The row describes bytes that exist nowhere.
  `multipart_complete.py:346-357` compensates in the same way.
* **A retention rule nobody asked for** (`config_mixed`). Two concurrent
  requests over one snapshot change different columns, and both are
  acknowledged: the mode of one with the period of the other.
* **The watchdog ends for good** (`gocryptfs_watchdog`). The loop of
  `entrypoint.sh:25-30` inherits `set -e`, so a run of the watchdog that fails
  is its last. It fails when an unmount request gets in between its look at the
  mount and its unmount. A storage mounted afterwards stays mounted when its
  secrets are taken away.
* **A body without its last frame is stored** (`ingest_framing`). `_decode_frame` takes the
  end of the body for the end of the payload wherever a size line could begin
  (`streams.py:182`). An upload that is cut between two frames, or is empty, is
  answered as if it were complete.
* **A negative size is used as a count** (`ingest_framing`). `int(header, 16)` takes `-2`
  for a size (`streams.py:203`); `_read_exact(-2)` returns at once with all but the last
  two bytes of the buffer, lines of the framing among them, and how much that is depends
  on the reads. The body of the run shows both: `-2`, then a frame of two bytes and no
  last one; the file gets the size line of that frame too.
* **A prefix finds keys in the other case** (`api_prefix`). SQLite's LIKE does not tell
  the case of ASCII letters: a prefix that begins with `b` lists a key that begins with
  `B` (`bucket_get.py:43`).
* **A prefix with a wildcard misses keys** (`api_prefix`). The prefix is escaped with
  backslashes, but the query names no escape character and SQLite has no default
  one: the prefix `b_` does not list `b_c`, but lists `B\x` (`bucket_get.py:42`).

## 7. Plan

Done: 1. `SubtreeLock`, `LockManager` and their proofs. 2. `ObjectStore` and its
proofs. 3. `BucketConfig` and its proofs. 4. `UploadSession`, `Multipart` and
their proofs. 5. `Gocryptfs` and its proofs. 6. `AtomicFile`, `BodyReader`, `Ingest`
and the proof that a write is atomic. 7. `SigV4`, `Orm`, `BucketApi` and their proofs. 8. Proofs of `BytesFollowRow`, of
both `NoSilentLeak`, of `FailuresAreUndone`, `ListingIsExact` and
`DecodedAsEncoded`; `WriteIsAtomic` without a premise.

Next: 9. Composition of `Gocryptfs` with `ObjectStore`: an unmount in the middle of an
upload (`gocryptfs_unmount.py:51`).
