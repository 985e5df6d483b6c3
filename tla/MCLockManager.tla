---------------------------- MODULE MCLockManager ----------------------------
(****************************************************************************)
(* Instances of LockManager: the lock nestings of the services, and the     *)
(* shapes of tests/test_locks.py.                                           *)
(****************************************************************************)
EXTENDS LockManager, TLC

CONSTANTS t1, t2, t3

Names == {"buckets", "b", "tmp", "u", "1.part", "2.part", "secrets"}

BucketDir == <<"buckets", "b">>
TmpDir == <<"tmp">>
UploadDir == <<"tmp", "u">>
SecretsDir == <<"secrets">>

Paths == {BucketDir, TmpDir, UploadDir, SecretsDir, TmpDir \o <<"1.part">>,
          UploadDir \o <<"1.part">>, UploadDir \o <<"2.part">>}

Dir(p, type) ==
    [resource |-> [directory |-> p, filename |-> NoFilename], lock_type |-> type]

File(p, n, type) ==
    [resource |-> [directory |-> p, filename |-> n], lock_type |-> type]

\* Every nesting of locks in app/services.
Services == <<
    <<Dir(BucketDir, "WRITE")>>,                            \* object_upload, bucket_create
    <<File(UploadDir, "1.part", "WRITE")>>,                 \* multipart_upload
    <<File(UploadDir, "2.part", "WRITE")>>,
    <<Dir(UploadDir, "WRITE")>>,                            \* multipart_abort
    <<Dir(UploadDir, "WRITE"), Dir(BucketDir, "WRITE")>>,   \* multipart_complete
    <<Dir(SecretsDir, "READ")>>,                            \* gocryptfs_reveal
    <<Dir(SecretsDir, "WRITE")>> >>                        \* gocryptfs_init, _mount, ...

ServicePlans == ToSet(Services)

ServiceLocks == UNION {ToSet(p) : p \in ServicePlans}

\* Bucket directories come last.
ServiceRank == [l \in ServiceLocks |-> IF l.resource.directory = BucketDir THEN 1 ELSE 0]

ASSUME ServicePlansAreOrdered == Ordered(ServicePlans, ServiceRank)

------------------------------------------------------------------------------
(* The shapes of the tests: files and directories one inside the other,     *)
(* nested reads, and locks refused because the task itself is in the way.   *)

Shapes == <<
    <<>>,
    <<Dir(TmpDir, "READ"), Dir(UploadDir, "READ")>>,
    <<Dir(UploadDir, "READ"), File(TmpDir, "1.part", "WRITE")>>,
    <<Dir(UploadDir, "WRITE")>>,
    <<Dir(TmpDir, "READ"), File(UploadDir, "1.part", "WRITE")>>,   \* refused
    <<File(UploadDir, "1.part", "READ"), File(TmpDir, "1.part", "WRITE")>> >>

ShapePlans == ToSet(Shapes)

------------------------------------------------------------------------------
(* The instance: all three tasks are services, or all three are shapes.     *)

Plans == ServicePlans \cup ShapePlans

\* Tasks are interchangeable, so one assignment of plans stands for all that permute
\* it. This is not TLC's SYMMETRY, which is not sound for EveryTaskFinishes.
AllRun(plans) ==
    \E i, j, k \in DOMAIN plans :
        /\ i <= j /\ j <= k
        /\ plan = (t1 :> plans[i] @@ t2 :> plans[j] @@ t3 :> plans[k])

MCInit ==
    /\ Init
    /\ AllRun(Services) \/ AllRun(Shapes)

MCSpec == MCInit /\ [][Next]_vars /\ Fairness

=============================================================================
