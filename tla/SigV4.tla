-------------------------------- MODULE SigV4 --------------------------------
(****************************************************************************)
(* app/security/sigv4.py: how a signed request is taken apart and verified. *)
(* Only definitions: the requests that use them are those of BucketApi.     *)
(*                                                                          *)
(* A request is a record of what arrives: where its signature is, the parts *)
(* of the credential, the time it claims, the names of the signed headers   *)
(* (numbers, in alphabetical order), the headers, the operation with its    *)
(* arguments, the announced payload hash and the body.  Hashes and MACs are *)
(* perfect: the digest of a body is the body, a signature is the record of  *)
(* everything that goes into it.                                            *)
(****************************************************************************)
EXTENDS Integers, SequencesExt

CONSTANTS
    Region,      \* S3_REGION
    Service,     \* S3_SERVICE
    MaxSkew,     \* S3_SIGV4_MAX_SKEW_SECONDS
    DayLength,   \* the seconds of a day
    Host,        \* the header "host"
    Digest,      \* the digests of bodies: the bodies
    None         \* nothing of that kind

ASSUME SkewAssumption == MaxSkew \in Nat /\ DayLength \in Nat \ {0}

DayOf(time) == time \div DayLength

Verdict == {"ok", "AccessDenied", "InvalidAccessKeyId", "RequestTimeTooSkewed",
            "SignatureDoesNotMatch"}

------------------------------------------------------------------------------
(* uri_encode.  A character is its code point, here below 256; one that is  *)
(* percent-encoded is marked TRUE.                                          *)

\* _UNRESERVED: digits, letters, and - . _ ~
Unreserved == (48..57) \cup (65..90) \cup (97..122) \cup {45, 46, 95, 126}

\* The code escapes the code point of a character.
uri_encode(text) == [i \in 1..Len(text) |-> <<text[i] \notin Unreserved, text[i]>>]

\* The rules escape the bytes of its UTF-8 encoding.
AwsEncode(text) ==
    FlattenSeq([i \in 1..Len(text) |->
        IF text[i] < 128 THEN <<<<text[i] \notin Unreserved, text[i]>>>>
        ELSE <<<<TRUE, 192 + (text[i] \div 64)>>, <<TRUE, 128 + (text[i] % 64)>>>>])

------------------------------------------------------------------------------
(* What is signed.                                                          *)

\* resolve_payload_hash: without x-amz-content-sha256, the digest of the body.
PayloadHash(q) == IF q.hash = None THEN q.body ELSE q.hash

\* It has to wait for the whole body.
NeedsBody(q) == q.hash = None \/ q.hash \in Digest

\* A digest in the header is compared with the body; a marker is opaque.
PayloadVerdict(q) ==
    IF q.hash \in Digest /\ q.hash # q.body THEN "SignatureDoesNotMatch"
    ELSE IF q.hash \in Digest \cup {None, "UNSIGNED-PAYLOAD", "STREAMING-PAYLOAD"} THEN "ok"
    ELSE "AccessDenied"

\* (mutant) The query of a presigned request is left out, not only its signature.
CanonicalQueryHeaderOnly(q, encoded) ==
    IF q.source = "query" THEN {} ELSE {<<"prefix", encoded>>, <<"max-keys", q.max>>}

\* _canonical_query_string: all but the signature itself. The order of the pairs
\* on the wire does not matter, as they are sorted.
CanonicalQuery(q, encoded) ==
    {<<"prefix", encoded>>, <<"max-keys", q.max>>}
      \cup (IF q.source # "query" THEN {}
            ELSE {<<"X-Amz-Credential", q.key>>, <<"X-Amz-Date", q.date>>,
                  <<"X-Amz-Expires", q.expires>>, <<"X-Amz-SignedHeaders", q.signed>>})

\* _canonical_request and _canonical_headers.
CanonicalRequest(q, encoded) ==
    [op |-> q.op, uri |-> q.bucket, query |-> CanonicalQuery(q, encoded),
     headers |-> [h \in ToSet(q.signed) |-> q.headers[h]], names |-> q.signed,
     hash |-> PayloadHash(q)]

\* _derive_signing_key and the MAC over the string to sign.
Signature(q, encoded, secret) ==
    [key |-> <<secret, q.datestamp, q.region, q.service>>,
     text |-> <<q.date, q.datestamp, q.region, q.service, CanonicalRequest(q, encoded)>>]

------------------------------------------------------------------------------
(* Taking a request apart, and verifying it.                                *)

\* extract_sigv4_auth: Authorization or the query; `wellFormed` says that the
\* regular expressions, the hexadecimal signature and the number of seconds parse.
Extracted(q) ==
    /\ q.source \in {"header", "query"} /\ q.wellFormed
    /\ q.source = "query" => q.expires > 0
    /\ q.date # None
    /\ q.signed # <<>>
    /\ \A i, j \in DOMAIN q.signed : i < j => q.signed[i] <= q.signed[j]

\* (mutant) The lifetime of a presigned request starts when it arrives.
TimeVerdictLifetimeless(q, now) ==
    IF now - q.date > MaxSkew \/ q.date - now > MaxSkew THEN "RequestTimeTooSkewed" ELSE "ok"

\* _assert_time_valid: within the skew, and a presigned one within its lifetime.
TimeVerdict(q, now) ==
    IF now - q.date > MaxSkew \/ q.date - now > MaxSkew THEN "RequestTimeTooSkewed"
    ELSE IF q.source = "query" /\ (now < q.date \/ now - q.date > q.expires) THEN "AccessDenied"
    ELSE "ok"

\* verify_sigv4, in its order: scope, time, headers, signature.
VerifyVerdict(q, secret, now) ==
    IF \/ q.region # Region \/ q.service # Service
       \/ q.datestamp # DayOf(q.date)
       \/ Host \notin ToSet(q.signed)
      THEN "AccessDenied"
    ELSE IF TimeVerdict(q, now) # "ok" THEN TimeVerdict(q, now)
    ELSE IF ~ ToSet(q.signed) \subseteq DOMAIN q.headers THEN "AccessDenied"
    ELSE IF q.signature # Signature(q, uri_encode(q.prefix), secret) THEN "SignatureDoesNotMatch"
    ELSE "ok"

=============================================================================
