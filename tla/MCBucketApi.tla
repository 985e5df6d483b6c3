----------------------------- MODULE MCBucketApi -----------------------------
(****************************************************************************)
(* Instances of BucketApi: one request of every kind, with everything that  *)
(* can be wrong about its signature, beside a creation of the same bucket   *)
(* by another user and a list.                                              *)
(****************************************************************************)
EXTENDS BucketApi, TLC

CONSTANTS r1, r2

Users ==
    [root |-> [is_root |-> TRUE, is_enabled |-> TRUE],
     alice |-> [is_root |-> FALSE, is_enabled |-> TRUE],
     bob |-> [is_root |-> FALSE, is_enabled |-> TRUE],
     eve |-> [is_root |-> FALSE, is_enabled |-> FALSE]]

Keys ==
    [kroot |-> [user_id |-> "root", is_enabled |-> TRUE, secret |-> "s1"],
     kalice |-> [user_id |-> "alice", is_enabled |-> TRUE, secret |-> "s2"],
     kold |-> [user_id |-> "alice", is_enabled |-> FALSE, secret |-> "s3"],
     kbob |-> [user_id |-> "bob", is_enabled |-> TRUE, secret |-> "s4"],
     keve |-> [user_id |-> "eve", is_enabled |-> TRUE, secret |-> "s5"]]

\* "aaa", "a.b"; "1.1.1.1", "a..b", "xn--a": no names of buckets.
aaa == <<97, 97, 97>>
ab == <<97, 46, 98>>
Names == {aaa, ab, <<49, 46, 49, 46, 49, 46, 49>>, <<97, 46, 46, 98>>, <<120, 110, 45, 45, 97>>}

ReservedTexts == [prefix |-> {<<120, 110, 45, 45>>}, suffix |-> {<<46, 109, 114, 97, 112>>}]

\* Bucket "a.b" of bob, with Object Lock, and its objects; <<98, 95, 99>> is "b_c" and
\* <<66, 92, 120>> is "B\x".
InitRows == {[id |-> "bob", bucket_name |-> ab, user_id |-> "bob",
              versioning_status |-> "Enabled", object_lock_enabled |-> TRUE]}

Objects ==
    {[bucket_name |-> ab, object_key |-> k, delete_marker |-> k = <<97, 47, 99>>] :
        k \in {<<97>>, <<97, 47, 98>>, <<97, 47, 99>>, <<65>>, <<98, 95, 99>>, <<66, 92, 120>>,
               <<49>>, <<49, 47, 98>>, <<50>>}}

------------------------------------------------------------------------------
(* Requests as clients sign them.                                           *)

Base == [source |-> "header", wellFormed |-> TRUE, key |-> "kalice", datestamp |-> DayOf(0),
         region |-> Region, service |-> Service, signed |-> <<Host>>, date |-> 0, expires |-> 0,
         signature |-> None, op |-> "create", bucket |-> aaa, prefix |-> <<>>, max |-> 2,
         headers |-> [h \in {Host, Host + 1} |-> "x"], hash |-> "b1", body |-> "b1"]

Of(op, bucket) == [Base EXCEPT !.op = op, !.bucket = bucket]

Get(prefix) == [Of("get", ab) EXCEPT !.prefix = prefix]

Presigned == [Get(<<97>>) EXCEPT !.source = "query", !.date = 1, !.expires = 1, !.hash = "UNSIGNED-PAYLOAD"]

Signed(q, secret) == [q EXCEPT !.signature = Signature(q, AwsEncode(q.prefix), secret)]

\* `user` signs q with its key; `change` happens to it on the way.
Sent(by, key, q, change(_)) ==
    LET s == Signed([q EXCEPT !.key = key], Keys[key].secret)
    IN  [by |-> by, secret |-> Keys[key].secret, sent |-> s, got |-> change(s)]

Nothing(q) == q

Clean(by, key, q) == Sent(by, key, q, Nothing)

Bob(q, change(_)) == Sent("bob", "kbob", q, change)

OtherPrefix(q) == [q EXCEPT !.prefix = <<98>>]
OtherMax(q)    == [q EXCEPT !.max = 1]
OtherOp(q)     == [q EXCEPT !.op = "versioning"]
OtherBody(q)   == [q EXCEPT !.body = "b2"]
OtherHost(q)   == [q EXCEPT !.headers[Host] = "y"]
OtherHeader(q) == [q EXCEPT !.headers[Host + 1] = "y"]
NoHeader(q)    == [q EXCEPT !.headers = [h \in {Host} |-> "x"]]
OtherKey(q)    == [q EXCEPT !.key = "kalice"]
NoKey(q)       == [q EXCEPT !.key = "lost"]
Malformed(q)   == [q EXCEPT !.wellFormed = FALSE]
Unsigned(q)    == [q EXCEPT !.source = "none"]
Longer(q)      == [q EXCEPT !.expires = 3]

Core == [
    create_alice |-> Clean("alice", "kalice", Base),
    create_bob   |-> Clean("bob", "kbob", Base),
    list_alice   |-> Clean("alice", "kalice", Of("list", aaa)),
    list_root    |-> Clean("root", "kroot", Of("list", aaa))]

Handled == [
    address   |-> Clean("alice", "kalice", Of("create", <<49, 46, 49, 46, 49, 46, 49>>)),
    dots      |-> Clean("alice", "kalice", Of("create", <<97, 46, 46, 98>>)),
    reserved  |-> Clean("alice", "kalice", Of("create", <<120, 110, 45, 45, 97>>)),
    theirs    |-> Clean("alice", "kalice", Of("create", ab)),
    list_bob  |-> Clean("bob", "kbob", Of("list", aaa)),
    versions  |-> Clean("bob", "kbob", Of("versioning", ab)),
    lock      |-> Clean("bob", "kbob", Of("object_lock", ab)),
    no_lock   |-> Clean("alice", "kalice", Of("object_lock", aaa)),
    foreign   |-> Clean("alice", "kalice", Get(<<97>>)),
    get_all   |-> Clean("root", "kroot", Get(<<>>)),
    get_a     |-> Clean("bob", "kbob", Get(<<97>>)),
    get_slash |-> Clean("bob", "kbob", Get(<<97, 47>>)),
    get_1     |-> Clean("bob", "kbob", Get(<<49>>)),
    get_b_    |-> Clean("bob", "kbob", Get(<<98, 95>>)),
    accent    |-> Clean("bob", "kbob", Get(<<233>>)),
    presigned |-> Clean("bob", "kbob", Presigned)]

Refused == [
    prefix    |-> Bob(Presigned, OtherPrefix),
    max       |-> Bob(Get(<<97>>), OtherMax),
    op        |-> Bob(Get(<<97>>), OtherOp),
    digest    |-> Bob(Get(<<97>>), OtherBody),
    no_digest |-> Bob([Get(<<97>>) EXCEPT !.hash = None], OtherBody),
    unsigned  |-> Bob([Get(<<97>>) EXCEPT !.hash = "UNSIGNED-PAYLOAD"], OtherBody),
    bad_hash  |-> Bob([Get(<<97>>) EXCEPT !.hash = "?"], Nothing),
    host      |-> Bob(Get(<<97>>), OtherHost),
    header    |-> Bob(Get(<<97>>), OtherHeader),
    no_header |-> Bob([Get(<<97>>) EXCEPT !.signed = <<Host, Host + 1>>], NoHeader),
    key       |-> Bob(Get(<<97>>), OtherKey),
    no_key    |-> Bob(Get(<<97>>), NoKey),
    old_key   |-> Clean("alice", "kold", Of("list", aaa)),
    disabled  |-> Clean("eve", "keve", Of("list", aaa)),
    region    |-> Bob([Get(<<97>>) EXCEPT !.region = "other"], Nothing),
    day       |-> Bob([Get(<<97>>) EXCEPT !.datestamp = DayOf(4)], Nothing),
    no_host   |-> Bob([Get(<<97>>) EXCEPT !.signed = <<Host + 1>>], Nothing),
    no_names  |-> Bob([Get(<<97>>) EXCEPT !.signed = <<>>], Nothing),
    unsorted  |-> Bob([Get(<<97>>) EXCEPT !.signed = <<Host + 1, Host>>], Nothing),
    no_date   |-> Bob([Get(<<97>>) EXCEPT !.date = None, !.datestamp = 0], Nothing),
    malformed |-> Bob(Get(<<97>>), Malformed),
    anonymous |-> Bob(Get(<<97>>), Unsigned),
    longer    |-> Bob(Presigned, Longer),
    endless   |-> Bob([Presigned EXCEPT !.expires = 0], Nothing)]

Wires == Core @@ Handled @@ Refused

Offers == [r \in Request |->
    CASE r = r1 -> DOMAIN Wires
      [] r = r2 -> {"create_bob", "list_root"}]

\* A GET Bucket with the prefix "b_", alone.
PrefixOffers == [r \in Request |-> IF r = r1 THEN {"get_b_"} ELSE {}]

=============================================================================
