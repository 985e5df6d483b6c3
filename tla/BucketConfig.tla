---------------------------- MODULE BucketConfig -----------------------------
(****************************************************************************)
(* The row of one bucket under concurrent PutBucketVersioning and           *)
(* PutObjectLockConfiguration: services/bucket_versioning_update.py and     *)
(* services/bucket_object_lock_update.py, with the CHECK constraints of     *)
(* models/bucket.py.                                                        *)
(*                                                                          *)
(* Neither service takes a lock. A request validates the row as it loaded   *)
(* it, and SQLAlchemy then writes the columns that differ from that         *)
(* snapshot onto whatever the row has become.                               *)
(****************************************************************************)
EXTENDS Naturals

CONSTANTS
    Request,      \* requests, each for one of the two services
    Rule,         \* the default retention rules that clients ask for
    Null,         \* SQL NULL; no rule; no request
    MaxFaults     \* bound: how many calls raise

Mode == {"GOVERNANCE", "COMPLIANCE"}

\* parse_bucket_object_lock: a mode with days or with years, or no Rule element.
IsRule(rule) ==
    /\ rule.mode \in Mode
    /\ \/ rule.days \in Nat \ {0} /\ rule.years = Null
       \/ rule.days = Null /\ rule.years \in Nat \ {0}

NoRule == [mode |-> Null, days |-> Null, years |-> Null]

ASSUME RuleAssumption ==
    \A rule \in Rule : DOMAIN rule = {"mode", "days", "years"} /\ IsRule(rule)
ASSUME NullAssumption == Null \notin Mode \cup Nat \cup Request
ASSUME BoundAssumption == MaxFaults \in Nat

VARIABLES
    bucket,       \* the committed row
    pc,           \* pc[r]: where request r is
    kind,         \* kind[r]: which service it is for
    loaded,       \* loaded[r]: the row as load_bucket read it
    wanted,       \* wanted[r]: the attributes of its S3Bucket object
    dbWriter,     \* whose flushed, uncommitted transaction SQLite holds
    faults        \* how many calls raised so far

vars == <<bucket, pc, kind, loaded, wanted, dbWriter, faults>>

Column == {"versioning", "lock", "mode", "days", "years"}

Row == [versioning : {"Disabled", "Enabled", "Suspended"},
        lock : BOOLEAN,
        mode : Mode \cup {Null},
        days : Nat \cup {Null},
        years : Nat \cup {Null}]

RuleOf(row) == [mode |-> row.mode, days |-> row.days, years |-> row.years]

\* The CHECK constraints of the buckets table.
Checked(row) ==
    /\ RuleOf(row) = NoRule \/ IsRule(RuleOf(row))
    /\ RuleOf(row) # NoRule => row.lock
    /\ row.lock => row.versioning = "Enabled"

\* The row is always one that the constraints admit.
TypeOK ==
    /\ bucket \in Row /\ Checked(bucket)
    /\ pc \in [Request -> {"new", "loaded", "flushed", "failed", "ok", "error"}]
    /\ kind \in [Request -> {"versioning", "lock"}]
    /\ loaded \in [Request -> Row]
    /\ wanted \in [Request -> Row]
    /\ dbWriter \in Request \cup {Null}
    /\ faults \in 0..MaxFaults

Goto(r, label) == pc' = [pc EXCEPT ![r] = label]

Fault == faults < MaxFaults /\ faults' = faults + 1
NoFault == UNCHANGED faults

\* The end of r's transaction, if it had written.
Released(r) == dbWriter' = IF dbWriter = r THEN Null ELSE dbWriter

------------------------------------------------------------------------------

\* set_bucket_versioning_status: "Disabled" cannot be restored, and nothing is
\* suspended while Object Lock is enabled.
SetVersioning(row, status) == [row EXCEPT !.versioning = status]
VersioningAllowed(row, status) == ~ (row.lock /\ status = "Suspended")

\* (mutant) A configuration without a default rule disables Object Lock.
SetObjectLockByRule(row, rule) ==
    [row EXCEPT !.lock = (rule # NoRule), !.mode = rule.mode, !.days = rule.days,
                !.years = rule.years]

\* set_bucket_object_lock_configuration: Object Lock needs versioning, stays enabled,
\* and the rule replaces the one before, column by column.
SetObjectLock(row, rule) ==
    [row EXCEPT !.lock = TRUE, !.mode = rule.mode, !.days = rule.days, !.years = rule.years]
ObjectLockAllowed(row, enabled) == row.versioning = "Enabled" /\ (row.lock \/ enabled)

\* load_bucket and the validation, with no await between the two.
Load(r) ==
    /\ pc[r] = "new"
    /\ loaded' = [loaded EXCEPT ![r] = bucket]
    /\ \/ \E status \in {"Enabled", "Suspended"} :
              /\ VersioningAllowed(bucket, status)
              /\ wanted' = [wanted EXCEPT ![r] = SetVersioning(bucket, status)]
              /\ kind' = [kind EXCEPT ![r] = "versioning"]
       \/ \E rule \in Rule \cup {NoRule}, enabled \in BOOLEAN :
              /\ ObjectLockAllowed(bucket, enabled)
              /\ wanted' = [wanted EXCEPT ![r] = SetObjectLock(bucket, rule)]
              /\ kind' = [kind EXCEPT ![r] = "lock"]
    /\ Goto(r, "loaded")
    /\ UNCHANGED <<bucket, dbWriter, faults>>

\* The validation raises an S3 error before anything is changed.
Refuse(r) ==
    /\ pc[r] = "new"
    /\ \/ ~ VersioningAllowed(bucket, "Suspended")
       \/ ~ ObjectLockAllowed(bucket, FALSE)
    /\ Goto(r, "error")
    /\ UNCHANGED <<bucket, kind, loaded, wanted, dbWriter, faults>>

\* The UPDATE of a session: the columns changed since they were loaded.
Updated(r) ==
    [c \in Column |-> IF wanted[r][c] # loaded[r][c] THEN wanted[r][c] ELSE bucket[c]]

\* repo.update: nothing to write; an UPDATE, once the writer before it is through; an
\* UPDATE that violates a constraint; or a call that raises, such as one that outlasts
\* busy_timeout.
Flush(r) ==
    /\ pc[r] = "loaded"
    /\ \/ /\ NoFault /\ wanted[r] = loaded[r]
          /\ Goto(r, "flushed") /\ UNCHANGED dbWriter
       \/ /\ NoFault /\ wanted[r] # loaded[r] /\ dbWriter = Null
          /\ Checked(Updated(r))
          /\ dbWriter' = r /\ Goto(r, "flushed")
       \/ /\ NoFault /\ wanted[r] # loaded[r] /\ dbWriter = Null
          /\ ~ Checked(Updated(r))
          /\ Goto(r, "failed") /\ UNCHANGED dbWriter
       \/ Fault /\ Goto(r, "failed") /\ UNCHANGED dbWriter
    /\ UNCHANGED <<bucket, kind, loaded, wanted>>

\* repo.commit
Commit(r) ==
    /\ pc[r] = "flushed"
    /\ \/ NoFault /\ bucket' = Updated(r) /\ Released(r) /\ Goto(r, "ok")
       \/ Fault /\ Goto(r, "failed") /\ UNCHANGED <<bucket, dbWriter>>
    /\ UNCHANGED <<kind, loaded, wanted>>

\* repo.rollback; if it raises, that is logged, and the session's end does the same.
Rollback(r) ==
    /\ pc[r] = "failed"
    /\ Released(r)
    /\ Goto(r, "error")
    /\ UNCHANGED <<bucket, kind, loaded, wanted, faults>>

------------------------------------------------------------------------------

NewRow == [versioning |-> "Disabled", lock |-> FALSE, mode |-> Null, days |-> Null,
           years |-> Null]

Init ==
    /\ bucket = NewRow
    /\ pc = [r \in Request |-> "new"]
    /\ kind = [r \in Request |-> "versioning"]
    /\ loaded = [r \in Request |-> NewRow]
    /\ wanted = [r \in Request |-> NewRow]
    /\ dbWriter = Null
    /\ faults = 0

Next == \E r \in Request : Load(r) \/ Refuse(r) \/ Flush(r) \/ Commit(r) \/ Rollback(r)

Spec == Init /\ [][Next]_vars

------------------------------------------------------------------------------
(* Properties.                                                              *)

\* Once Object Lock is enabled it stays so, and versioning stays Enabled, although a
\* request that would suspend it, or knows no Object Lock, may still be on its way.
LockIsForever ==
    [][bucket.lock => bucket'.lock /\ bucket'.versioning = "Enabled"]_vars

\* A client that was told its Object Lock configuration is in force has Object Lock.
AcknowledgedLockHolds ==
    \A r \in Request : pc[r] = "ok" /\ kind[r] = "lock" => bucket.lock

\* bucket_object_lock_update.py:28: "Once enabled, Object Lock remains enabled. The
\* optional default retention rule may be replaced or removed." The rule in force is
\* one that somebody asked for, never a mixture of two.
RuleIsAsAsked == RuleOf(bucket) \in Rule \cup {NoRule}

=============================================================================
