------------------------------ MODULE BucketApi ------------------------------
(****************************************************************************)
(* Requests on buckets, from the wire to the answer: authentication         *)
(* (dependencies/require_auth.py with SigV4), the creation of a bucket      *)
(* (services/bucket_create.py), and the reads: the list of buckets, the     *)
(* objects of one, its versioning and its Object Lock (services/bucket_list,*)
(* bucket_get, bucket_versioning_retrieve, bucket_object_lock_retrieve).    *)
(*                                                                          *)
(* A bucket is a row and a directory, which no common transaction covers.   *)
(* Every await is a step; calls raise, the process is killed and restarted. *)
(* What a client signed and what arrives differ when a proxy rewrites the   *)
(* request or bytes are lost, and time passes in between.                   *)
(****************************************************************************)
EXTENDS SigV4, Orm

CONSTANTS
    Request,     \* the requests
    Wire,        \* what may be sent: [by, secret, sent, got] for each name of it
    Offer,       \* Offer[r]: the names of what request r may be
    Name,        \* bucket names, texts
    Reserved,    \* [prefix, suffix]: texts no bucket name begins and ends with
    User,        \* users: [is_root, is_enabled] for each
    Key,         \* access keys: [user_id, is_enabled, secret] for each
    Object,      \* rows of the objects table
    InitRow,     \* rows the buckets table may start with
    Hook,        \* how many hooks extensions register for an event
    MaxClock,    \* bound: when time stops
    MaxFaults,   \* bound: how many calls raise
    MaxCrashes   \* bound: how often the process is killed

Row == [id : Request \cup DOMAIN User, bucket_name : Name, user_id : DOMAIN User,
        versioning_status : {"Disabled", "Enabled", "Suspended"},
        object_lock_enabled : BOOLEAN]

\* The texts on which the encoding of the code and that of the rules agree.
Ascii(q) == \A i \in DOMAIN q.prefix : q.prefix[i] < 128

ASSUME RequestAssumption ==
    /\ None \notin Request
    /\ \A r \in Request : Offer[r] \subseteq DOMAIN Wire
    /\ None \notin DOMAIN Wire /\ None \notin DOMAIN User
    /\ \A k \in DOMAIN Key : Key[k].user_id \in DOMAIN User
    /\ \A w \in DOMAIN Wire : Wire[w].got.bucket \in Name
    /\ Request \cap DOMAIN User = {} /\ Null \notin Row
    /\ InitRow \subseteq Row /\ \A b \in InitRow : b.id \in DOMAIN User
    /\ \A a, b \in InitRow : a.bucket_name = b.bucket_name => a = b
ASSUME WireAssumption ==
    \A w \in DOMAIN Wire : \A q \in {Wire[w].sent, Wire[w].got} :
        q.prefix \in Seq(0..255) /\ q.date \in Int \cup {None} /\ q.expires \in Int
\* Clients announce the digest of their body or none, and nobody else makes their
\* signatures: what arrives has the one the client made.
ASSUME SignedAssumption ==
    \A w \in DOMAIN Wire :
        LET sent == Wire[w].sent
        IN  /\ sent.hash \in Digest => sent.hash = sent.body
            /\ {sent.body, Wire[w].got.body} \subseteq Digest
            /\ {sent.source, Wire[w].got.source} \subseteq {"header", "query", "none"}
            /\ Ascii(sent) => Wire[w].got.signature = Signature(sent, uri_encode(sent.prefix), Wire[w].secret)
            /\ \A k \in DOMAIN Key : Key[k].secret = Wire[w].secret => Key[k].user_id = Wire[w].by
\* Names and keys are texts; the tables are finite, and a bucket has one object of a key.
ASSUME TableAssumption ==
    /\ Name \subseteq Seq(Nat) /\ IsFiniteSet(InitRow) /\ IsFiniteSet(Object)
    /\ \A o \in Object : o.object_key \in Seq(Nat) /\ o.delete_marker \in BOOLEAN
    /\ \A o, p \in Object :
         o.bucket_name = p.bucket_name /\ o.object_key = p.object_key => o = p
    /\ \A w \in DOMAIN Wire : Wire[w].got.max \in Nat
    /\ Null \notin Nat
ASSUME BoundAssumption ==
    Hook \in Nat /\ MaxClock \in Nat /\ MaxFaults \in Nat /\ MaxCrashes \in Nat

VARIABLES
    clock,       \* the server's time
    rows,        \* buckets table, committed
    writer,      \* whose flushed, uncommitted transaction SQLite holds
    dir,         \* bucket directories: "absent", "made" or "synced" with its parent
    bucketLock,  \* who holds the WRITE lock of a bucket directory
    pc,          \* where a request is
    wire,        \* what it is
    user,        \* current_user, once it is authenticated
    created,     \* its local variable directory_created
    shown,       \* what it has read
    hooks,       \* how many hooks it has still to run
    answer,      \* its answer
    known,       \* the buckets there were when it arrived
    orphaned,    \* names whose directory a failed creation left behind
    faults,      \* how many calls raised so far
    crashes      \* how often the process was killed so far

db      == <<rows, writer>>
request == <<wire, known, shown>>
locals  == <<user, created>>
bounds  == <<faults, crashes>>
vars    == <<clock, db, dir, bucketLock, pc, request, locals, hooks, answer, orphaned, bounds>>

DirState == {"absent", "made", "synced"}

Step == {"idle", "body", "auth", "lock", "check", "isdir", "insert", "mktree", "fsync",
         "commit", "unlock", "rollback", "rmdir", "read", "emit", "done"}

Refusals == {"AccessDenied", "InvalidAccessKeyId", "RequestTimeTooSkewed", "SignatureDoesNotMatch"}

Answer == Refusals \cup
    {"none", "ok", "cut", "dead", "InvalidBucketName", "BucketAlreadyExists",
     "BucketAlreadyOwnedByYou", "NoSuchBucket", "NoSuchObjectLock", "InternalError"}

TypeOK ==
    /\ clock \in 0..MaxClock
    /\ rows \subseteq Row /\ writer \in Request \cup {None}
    /\ dir \in [Name -> DirState]
    /\ bucketLock \in [Name -> Request \cup {None}]
    /\ pc \in [Request -> Step] /\ answer \in [Request -> Answer]
    /\ wire \in [Request -> DOMAIN Wire \cup {None}]
    /\ user \in [Request -> DOMAIN User \cup {None}]
    /\ created \in [Request -> BOOLEAN]
    /\ hooks \in [Request -> 0..Hook]
    /\ known \in [Request -> SUBSET Name]
    /\ orphaned \subseteq Name
    /\ faults \in 0..MaxFaults /\ crashes \in 0..MaxCrashes

Got(r) == Wire[wire[r]].got
Bucket(r) == Got(r).bucket

\* A row as bucket_create makes it; its id names the request that made it.
NewRow(r) == [id |-> r, bucket_name |-> Bucket(r), user_id |-> user[r],
              versioning_status |-> "Disabled", object_lock_enabled |-> FALSE]

\* What a session sees: the committed rows, and those it has flushed itself.
Table(r) == rows \cup {NewRow(s) : s \in {r} \cap {writer}}

Named(name) == {[column |-> "bucket_name", operator |-> "eq", value |-> name]}

Init ==
    /\ clock = 0
    /\ rows \in SUBSET InitRow /\ writer = None
    /\ dir = [n \in Name |-> IF \E b \in rows : b.bucket_name = n THEN "synced" ELSE "absent"]
    /\ bucketLock = [n \in Name |-> None]
    /\ pc = [r \in Request |-> "idle"] /\ answer = [r \in Request |-> "none"]
    /\ wire = [r \in Request |-> None] /\ user = [r \in Request |-> None]
    /\ created = [r \in Request |-> FALSE]
    /\ shown = [r \in Request |-> <<>>] /\ hooks = [r \in Request |-> 0]
    /\ known = [r \in Request |-> {}]
    /\ orphaned = {}
    /\ faults = 0 /\ crashes = 0

Creates(r) == user[r] # None /\ wire[r] # None /\ Got(r).op = "create"

Goto(r, step) == pc' = [pc EXCEPT ![r] = step]

\* A call raises.
Fault == faults < MaxFaults /\ faults' = faults + 1 /\ UNCHANGED crashes

\* Only what a creation asked for is remembered, for the properties.
Forget(r) ==
    /\ wire' = [wire EXCEPT ![r] = IF Creates(r) THEN @ ELSE None]
    /\ shown' = [shown EXCEPT ![r] = <<>>]
    /\ known' = [known EXCEPT ![r] = {}]

\* (mutant) The lock of the bucket is kept.
FinishLocked(r, what) ==
    /\ Goto(r, "done")
    /\ answer' = [answer EXCEPT ![r] = what]
    /\ writer' = IF writer = r THEN None ELSE writer
    /\ Forget(r)
    /\ UNCHANGED bucketLock

\* The request is answered: its lock and its session are closed on the way out.
Finish(r, what) ==
    /\ Goto(r, "done")
    /\ answer' = [answer EXCEPT ![r] = what]
    /\ writer' = IF writer = r THEN None ELSE writer
    /\ Forget(r)
    /\ bucketLock' = [n \in Name |-> IF bucketLock[n] = r THEN None ELSE bucketLock[n]]

Go(r, step) == Goto(r, step) /\ UNCHANGED <<answer, bucketLock, writer, request>>

------------------------------------------------------------------------------
(* Authentication.                                                          *)

\* extract_sigv4_auth.
Receive(r) ==
    /\ pc[r] = "idle"
    /\ \E w \in Offer[r] :
         \/ /\ Extracted(Wire[w].got)
            /\ wire' = [wire EXCEPT ![r] = w]
            /\ known' = [known EXCEPT ![r] = {b.bucket_name : b \in rows}]
            /\ Goto(r, "body")
            /\ UNCHANGED <<writer, bucketLock, shown, answer>>
         \/ /\ ~ Extracted(Wire[w].got)
            /\ Finish(r, "AccessDenied")
    /\ UNCHANGED <<clock, rows, dir, user, created, hooks, orphaned, bounds>>

\* resolve_payload_hash.
ResolvePayload(r) ==
    /\ pc[r] = "body"
    /\ IF PayloadVerdict(Got(r)) = "ok" THEN Go(r, "auth")
                                        ELSE Finish(r, PayloadVerdict(Got(r)))
    /\ UNCHANGED <<clock, rows, dir, locals, hooks, orphaned, bounds>>

\* The client leaves while its body is awaited.
Disconnect(r) ==
    /\ pc[r] = "body" /\ NeedsBody(Got(r))
    /\ Finish(r, "cut")
    /\ UNCHANGED <<clock, rows, dir, locals, hooks, orphaned, bounds>>

\* require_auth: the key and its user.
AccountVerdict(k) ==
    IF k \notin DOMAIN Key THEN "InvalidAccessKeyId"
    ELSE IF ~ Key[k].is_enabled \/ ~ User[Key[k].user_id].is_enabled THEN "AccessDenied"
    ELSE "ok"

AuthVerdict(q) ==
    IF AccountVerdict(q.key) # "ok" THEN AccountVerdict(q.key)
    ELSE VerifyVerdict(q, Key[q.key].secret, clock)

------------------------------------------------------------------------------
(* The names of buckets.                                                    *)

Digit == 48..57
Alphanumeric == Digit \cup (97..122)
Dot == 46
Hyphen == 45

\* _IP_ADDRESS_RE: four groups of one to three digits.
IsAddress(name) ==
    LET ends == {0, Len(name) + 1} \cup {i \in DOMAIN name : name[i] = Dot}
    IN  /\ ToSet(name) \subseteq Digit \cup {Dot}
        /\ Cardinality(ends) = 5
        /\ \A i \in ends \ {0} : (i - 4)..(i - 2) \cap ends # {} /\ i - 1 \notin ends

validate_bucket_name(name) ==
    /\ Len(name) \in 3..63
    /\ ToSet(name) \subseteq Alphanumeric \cup {Dot, Hyphen}
    /\ {name[1], name[Len(name)]} \subseteq Alphanumeric
    /\ \A i \in 1..(Len(name) - 1) :
         Dot \in {name[i], name[i + 1]} => {name[i], name[i + 1]} \cap Alphanumeric # {}
    /\ ~ IsAddress(name)
    /\ \A p \in Reserved.prefix : ~ IsPrefix(p, name)
    /\ \A s \in Reserved.suffix : ~ IsSuffix(s, name)

\* The end of require_auth, and the routers (bucket_put, bucket_list, bucket_get).
Authenticate(r) ==
    /\ pc[r] = "auth"
    /\ LET verdict == AuthVerdict(Got(r))
       IN  IF verdict # "ok"
             THEN Finish(r, verdict) /\ UNCHANGED user
             ELSE /\ user' = [user EXCEPT ![r] = Key[Got(r).key].user_id]
                  /\ CASE Got(r).op # "create" -> Go(r, "read")
                       [] Got(r).op = "create" /\ validate_bucket_name(Bucket(r)) -> Go(r, "lock")
                       [] OTHER -> Finish(r, "InvalidBucketName")
    /\ UNCHANGED <<clock, rows, dir, created, hooks, orphaned, bounds>>

------------------------------------------------------------------------------
(* bucket_create.                                                           *)

LockBucket(r) ==
    /\ pc[r] = "lock" /\ bucketLock[Bucket(r)] = None
    /\ bucketLock' = [bucketLock EXCEPT ![Bucket(r)] = r]
    /\ Goto(r, "check")
    /\ UNCHANGED <<clock, db, dir, request, locals, hooks, answer, orphaned, bounds>>

\* The look for a row of that name.
CheckRow(r) ==
    /\ pc[r] = "check"
    /\ LET existing == Select(Table(r), Named(Bucket(r)))
       IN  IF existing = Null THEN Go(r, "isdir")
           ELSE Finish(r, IF existing.user_id = user[r] THEN "BucketAlreadyOwnedByYou"
                                                        ELSE "BucketAlreadyExists")
    /\ UNCHANGED <<clock, rows, dir, locals, hooks, orphaned, bounds>>

\* isdir and isfile; nothing makes a file of that name.
CheckDirectory(r) ==
    /\ pc[r] = "isdir"
    /\ IF dir[Bucket(r)] = "absent" THEN Go(r, "insert") ELSE Finish(r, "BucketAlreadyExists")
    /\ UNCHANGED <<clock, rows, dir, locals, hooks, orphaned, bounds>>

\* The INSERT is flushed: SQLite has one writer, and the name is unique.
Insert(r) ==
    /\ pc[r] = "insert" /\ writer = None
    /\ IF Select(rows, Named(Bucket(r))) = Null
         THEN writer' = r /\ Goto(r, "mktree")
         ELSE UNCHANGED writer /\ Goto(r, "rollback")
    /\ UNCHANGED <<clock, rows, dir, bucketLock, request, locals, hooks, answer, orphaned, bounds>>

\* mktree: os.makedirs.
MakeDirectory(r) ==
    /\ pc[r] = "mktree"
    /\ dir' = [dir EXCEPT ![Bucket(r)] = IF @ = "absent" THEN "made" ELSE @]
    /\ Goto(r, "fsync")
    /\ UNCHANGED <<clock, db, bucketLock, request, locals, hooks, answer, orphaned, bounds>>

\* (mutant) The directory is not fsynced.
FsyncParentNever(r) ==
    /\ pc[r] = "fsync"
    /\ created' = [created EXCEPT ![r] = TRUE]
    /\ Goto(r, "commit")
    /\ UNCHANGED <<clock, db, dir, bucketLock, request, user, hooks, answer,
                   orphaned, bounds>>

\* mktree: the fsync of the directory above.
FsyncParent(r) ==
    /\ pc[r] = "fsync"
    /\ dir' = [dir EXCEPT ![Bucket(r)] = "synced"]
    /\ created' = [created EXCEPT ![r] = TRUE]
    /\ Goto(r, "commit")
    /\ UNCHANGED <<clock, db, bucketLock, request, user, hooks, answer,
                   orphaned, bounds>>

Commit(r) ==
    /\ pc[r] = "commit"
    /\ rows' = rows \cup {NewRow(r)} /\ writer' = None
    /\ Goto(r, "unlock")
    /\ UNCHANGED <<clock, dir, bucketLock, request, locals, hooks, answer, orphaned, bounds>>

Unlock(r) ==
    /\ pc[r] = "unlock"
    /\ bucketLock' = [bucketLock EXCEPT ![Bucket(r)] = None]
    /\ hooks' = [hooks EXCEPT ![r] = Hook]
    /\ Goto(r, "emit")
    /\ UNCHANGED <<clock, db, dir, request, locals, answer, orphaned, bounds>>

\* A query or a look at the directory raises, outside of the try block.
QueryRaises(r) ==
    /\ pc[r] \in {"auth", "check", "isdir", "read"}
    /\ Fault
    /\ Finish(r, "InternalError")
    /\ UNCHANGED <<clock, rows, dir, locals, hooks, orphaned>>

\* One of the calls of the try block raises. When it is the fsync in mktree, the
\* directory is there and directory_created is not set.
CallRaises(r) ==
    /\ pc[r] \in {"insert", "mktree", "fsync", "commit"}
    /\ Fault
    /\ orphaned' = orphaned \cup {n \in {Bucket(r)} : pc[r] = "fsync"}
    /\ Goto(r, "rollback")
    /\ UNCHANGED <<clock, db, dir, bucketLock, request, locals, hooks, answer>>

\* A rollback that raises is logged; the transaction ends with its session.
Rollback(r) ==
    /\ pc[r] = "rollback"
    /\ \/ writer' = (IF writer = r THEN None ELSE writer) /\ UNCHANGED bounds
       \/ Fault /\ UNCHANGED writer
    /\ Goto(r, "rmdir")
    /\ UNCHANGED <<clock, rows, dir, bucketLock, request, locals, hooks, answer, orphaned>>

\* The directory is removed if it was made; a removal that raises, before or after
\* the directory is gone, is logged.
RemoveDirectory(r) ==
    /\ pc[r] = "rmdir"
    /\ LET removed == [dir EXCEPT ![Bucket(r)] = "absent"]
       IN  \/ /\ dir' = (IF created[r] THEN removed ELSE dir)
              /\ UNCHANGED <<orphaned, bounds>>
           \/ /\ created[r] /\ Fault /\ dir' \in {dir, removed}
              /\ orphaned' = orphaned \cup {Bucket(r)}
    /\ Finish(r, "InternalError")
    /\ UNCHANGED <<clock, rows, locals, hooks>>

------------------------------------------------------------------------------
(* The reads.                                                               *)

\* load_bucket: root and the owner may.
Allowed(r, bucket) == User[user[r]].is_root \/ bucket.user_id = user[r]

\* bucket_list: root sees every bucket, a user the ones it owns.
ListFilters(r) ==
    IF User[user[r]].is_root THEN {}
    ELSE {[column |-> "user_id", operator |-> "eq", value |-> user[r]]}

\* bucket_get: current objects, without delete markers, by the prefix.
GetFilters(r) ==
    {[column |-> "bucket_name", operator |-> "eq", value |-> Bucket(r)],
     [column |-> "delete_marker", operator |-> "eq", value |-> FALSE]}
    \cup (IF Got(r).prefix = <<>> THEN {}
          ELSE {[column |-> "object_key", operator |-> "like",
                 value |-> Escaped(Got(r).prefix) \o <<Percent>>]})

Column(found, column) == [i \in DOMAIN found |-> found[i][column]]

Shows(r, what) ==
    /\ shown' = [shown EXCEPT ![r] = what]
    /\ hooks' = [hooks EXCEPT ![r] = Hook]
    /\ Goto(r, "emit")
    /\ UNCHANGED <<writer, bucketLock, wire, known, answer>>

Refuses(r, what) == Finish(r, what) /\ UNCHANGED hooks

\* (mutant) The list shows what other sessions have flushed.
ListBucketsDirty(r) ==
    /\ pc[r] = "read" /\ Got(r).op = "list"
    /\ LET table == rows \cup {NewRow(s) : s \in {writer} \ {None}}
       IN  Shows(r, Column(SelectAll(table, ListFilters(r), "bucket_name", Null), "bucket_name"))
    /\ UNCHANGED <<clock, rows, dir, user, created, orphaned, bounds>>

ListBuckets(r) ==
    /\ pc[r] = "read" /\ Got(r).op = "list"
    /\ Shows(r, Column(SelectAll(rows, ListFilters(r), "bucket_name", Null), "bucket_name"))
    /\ UNCHANGED <<clock, rows, dir, user, created, orphaned, bounds>>

bucket_get(r) ==
    /\ Got(r).op = "get"
    /\ Shows(r, Column(SelectAll(Object, GetFilters(r), "object_key", Got(r).max), "object_key"))

bucket_versioning_retrieve(r, bucket) ==
    /\ Got(r).op = "versioning"
    /\ Shows(r, <<bucket.versioning_status>>)

bucket_object_lock_retrieve(r, bucket) ==
    /\ Got(r).op = "object_lock"
    /\ \/ bucket.object_lock_enabled /\ Shows(r, <<bucket.object_lock_enabled>>)
       \/ ~ bucket.object_lock_enabled /\ Refuses(r, "NoSuchObjectLock")

\* The router of GET Bucket chooses; load_bucket comes first in each of them.
ReadBucket(r) ==
    /\ pc[r] = "read" /\ Got(r).op \in {"get", "versioning", "object_lock"}
    /\ LET bucket == Select(rows, Named(Bucket(r)))
       IN  IF bucket = Null THEN Refuses(r, "NoSuchBucket")
           ELSE IF ~ Allowed(r, bucket) THEN Refuses(r, "AccessDenied")
           ELSE \/ bucket_get(r)
                \/ bucket_versioning_retrieve(r, bucket)
                \/ bucket_object_lock_retrieve(r, bucket)
    /\ UNCHANGED <<clock, rows, dir, user, created, orphaned, bounds>>

------------------------------------------------------------------------------
(* Hooks, the clock and the process.                                        *)

\* (mutant) A hook that raises fails the request.
EmitRaises(r) ==
    /\ pc[r] = "emit" /\ hooks[r] > 0
    /\ \/ /\ hooks' = [hooks EXCEPT ![r] = @ - 1] /\ Go(r, "emit") /\ UNCHANGED bounds
       \/ Fault /\ Finish(r, "InternalError") /\ UNCHANGED hooks
    /\ UNCHANGED <<clock, rows, dir, locals, orphaned>>

\* HookManager.emit: the hooks run one after the other; one that raises is logged.
Emit(r) ==
    /\ pc[r] = "emit" /\ hooks[r] > 0
    /\ hooks' = [hooks EXCEPT ![r] = @ - 1]
    /\ Fault \/ UNCHANGED bounds
    /\ UNCHANGED <<clock, db, dir, bucketLock, pc, request, locals, answer, orphaned>>

Reply(r) ==
    /\ pc[r] = "emit" /\ hooks[r] = 0
    /\ Finish(r, "ok")
    /\ UNCHANGED <<clock, rows, dir, locals, hooks, orphaned, bounds>>

\* Time matters to the requests that are not verified yet.
Tick ==
    /\ clock < MaxClock /\ clock' = clock + 1
    /\ \E r \in Request : pc[r] \in {"idle", "body", "auth"}
    /\ UNCHANGED <<db, dir, bucketLock, pc, request, locals, hooks, answer, orphaned, bounds>>

\* The process is killed and started again: transactions are rolled back, and a
\* directory that was not fsynced is there or is not. Nothing cleans up.
Crash ==
    /\ crashes < MaxCrashes /\ crashes' = crashes + 1
    /\ \E r \in Request : pc[r] \notin {"idle", "done"}
    /\ writer' = None /\ bucketLock' = [n \in Name |-> None]
    /\ \E lost \in SUBSET {n \in Name : dir[n] = "made"} :
         dir' = [n \in Name |-> IF n \in lost THEN "absent"
                                ELSE IF dir[n] = "made" THEN "synced" ELSE dir[n]]
    /\ LET killed == {r \in Request : pc[r] \notin {"idle", "done"}}
       IN  /\ pc' = [r \in Request |-> IF r \in killed THEN "done" ELSE pc[r]]
           /\ answer' = [r \in Request |-> IF r \in killed THEN "dead" ELSE answer[r]]
           /\ wire' = [r \in Request |-> IF r \in killed THEN None ELSE wire[r]]
           /\ shown' = [r \in Request |-> <<>>] /\ known' = [r \in Request |-> {}]
    /\ UNCHANGED <<clock, rows, locals, hooks, orphaned, faults>>

Advance(r) ==
    \/ ResolvePayload(r) \/ Authenticate(r)
    \/ LockBucket(r) \/ CheckRow(r) \/ CheckDirectory(r) \/ Insert(r)
    \/ MakeDirectory(r) \/ FsyncParent(r) \/ Commit(r) \/ Unlock(r)
    \/ Rollback(r) \/ RemoveDirectory(r)
    \/ ListBuckets(r) \/ ReadBucket(r) \/ Emit(r) \/ Reply(r)

Next ==
    \/ \E r \in Request : Receive(r) \/ Disconnect(r) \/ QueryRaises(r) \/ CallRaises(r)
                             \/ Advance(r)
    \/ Tick
    \/ Crash

Spec == Init /\ [][Next]_vars

\* The event loop carries on some request that can go on; clients send their bodies.
FairSpec == Spec /\ WF_vars(\E r \in Request : Advance(r))

------------------------------------------------------------------------------
(* Properties.                                                              *)

\* What a request asks for: everything the handlers look at.
Asked(q) == <<q.op, q.bucket, q.prefix, q.max>>

\* What the client signed with the secret of its key is what arrived.
Intact(w) == w.got = w.sent /\ w.got.key \in DOMAIN Key /\ w.secret = Key[w.got.key].secret

\* Authentication is just (require_auth), for requests of ASCII text: whoever is let in
\* is an enabled user, is the one who signed, gets what it asked for and not what
\* arrived in its place, with the payload it announced, within the skew and the lifetime
\* it gave; and nobody who signed with its key is told that its signature does not match.
LetIn(r) ==
    LET w == Wire[wire[r]]
    IN  /\ User[user'[r]].is_enabled /\ user'[r] = w.by
        /\ w.secret = Key[w.got.key].secret
        /\ Asked(w.got) = Asked(w.sent)
        /\ w.got.body # w.sent.body => w.sent.hash \notin Digest \cup {None}
        /\ clock - w.sent.date \in -MaxSkew..MaxSkew
        /\ w.sent.source = "query" => clock - w.sent.date \in 0..w.sent.expires

VerdictIsJust ==
    [][\A r \in Request :
         /\ user[r] # user'[r] /\ Ascii(Wire[wire[r]].sent) => LetIn(r)
         /\ answer[r] # answer'[r] /\ answer'[r] = "SignatureDoesNotMatch" =>
              LET w == Wire[wire[r]]
              IN  ~ (Intact(w) /\ Ascii(w.sent))]_vars

\* The answer to a PUT Bucket is true (bucket_create, hooks.emit): success is answered
\* if and only if the bucket was made by this very request, whatever raised in between
\* or in a hook; and the two refusals name the right owner, at least until a restart
\* takes away a directory that no row belongs to.
AnswersAreTrue ==
    \A r \in Request : Creates(r) /\ pc[r] = "done" =>
        /\ answer[r] = "ok" <=> \E b \in rows : b.id = r
        /\ answer[r] = "BucketAlreadyOwnedByYou" =>
             \E b \in rows : b.bucket_name = Bucket(r) /\ b.user_id = user[r]
        /\ answer[r] = "BucketAlreadyExists" /\ crashes = 0 =>
             ~ \E b \in rows : b.bucket_name = Bucket(r) /\ b.user_id = user[r]

\* A bucket is a row and a directory (bucket_create): whoever has the row finds the
\* directory, also after a restart, and a name has one row; a directory without a row is
\* being worked on, or was left by a restart, by a removal that was logged, or by an
\* fsync that raised in mktree.
RowHasDirectory ==
    /\ \A b \in rows : dir[b.bucket_name] = "synced"
    /\ \A a, b \in rows : a.bucket_name = b.bucket_name => a = b
    /\ crashes = 0 => \A n \in Name :
         \/ dir[n] = "absent" \/ n \in orphaned \/ bucketLock[n] # None
         \/ \E b \in rows : b.bucket_name = n

\* The keys of the current objects that begin with the prefix, letter by letter.
Wanted(r) ==
    {o.object_key : o \in {p \in Object : /\ p.bucket_name = Bucket(r) /\ ~ p.delete_marker
                                          /\ IsPrefix(Got(r).prefix, p.object_key)}}

Wildcard == {Percent, Underscore, Backslash}
Letter == (65..90) \cup (97..122)

PrefixHasNo(chars, r) == ToSet(Got(r).prefix) \cap chars = {}

\* A list of buckets (bucket_list) shows all of the user's that there were when the request
\* came and none that is not there to stay: never one that a failing creation takes back.
\* A list of objects (bucket_get) leaves out a key that begins with the prefix only when it
\* is full of earlier ones, as far as the prefix has no wildcard, and shows no other key,
\* as far as it has no letter either. Both are in order and have nothing twice.
ListingIsExact ==
    \A r \in Request : pc[r] = "emit" =>
        /\ Got(r).op = "list" =>
             LET mine == {b.bucket_name : b \in {c \in rows : Allowed(r, c)}}
             IN  mine \cap known[r] \subseteq ToSet(shown[r]) /\ ToSet(shown[r]) \subseteq mine
        /\ Got(r).op = "get" =>
             /\ Len(shown[r]) <= Got(r).max
             /\ PrefixHasNo(Wildcard, r) => \A k \in Wanted(r) \ ToSet(shown[r]) :
                  /\ Len(shown[r]) = Got(r).max
                  /\ \A i \in DOMAIN shown[r] : TextBefore(shown[r][i], k)
             /\ PrefixHasNo(Wildcard \cup Letter, r) => ToSet(shown[r]) \subseteq Wanted(r)
        /\ Got(r).op \in {"list", "get"} =>
             \A i, j \in DOMAIN shown[r] : i < j => TextBefore(shown[r][i], shown[r][j])

\* A GET Bucket that is not full lists the keys that begin with the prefix, and no others.
\* So say the docstring of bucket_get, "Returns current objects whose key starts with the
\* given prefix", and that of its router, "list objects whose keys start with the
\* requested prefix".
ListsWhatBegins ==
    \A r \in Request :
        pc[r] = "emit" /\ Got(r).op = "get" /\ Len(shown[r]) < Got(r).max =>
            ToSet(shown[r]) = Wanted(r)

\* Every request is answered or cut off: no lock and no transaction is waited for in
\* vain, and neither are hooks.
EveryAnswer == []<>(\A r \in Request : pc[r] \in {"idle", "done"})

=============================================================================
