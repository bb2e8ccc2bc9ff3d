------------------------------ MODULE KeyCache ------------------------------
(***************************************************************************)
(* The cache of signing keys behind JWKSVerifier: Verify looks a key id up *)
(* in the cached document, and fetches the issuer's document when the id   *)
(* is unknown or the cache is older than its ttl                           *)
(* (internal/platform/httpx/auth.go).                                      *)
(*                                                                         *)
(* The fetch runs outside the lock and nothing keeps two of them apart, so *)
(* documents may be stored in another order than they were served, each    *)
(* with the time of its storing.  The issuer changes its document whenever *)
(* it likes.  A document is the set of ids of its RSA keys; time passes in *)
(* ticks, and what a handler does between two calls takes no time to speak *)
(* of until the document is stored.                                        *)
(***************************************************************************)
EXTENDS Integers

CONSTANTS
    Caller,        \* requests being authenticated at once
    Kid,           \* key ids
    CacheTtl,      \* age at which the cached document is stale
    Timeout,       \* the HTTP client's timeout
    MaxTicks,      \* bound: ticks
    MaxRotations   \* bound: changes of the issuer's document

ASSUME KeyCacheAssumption ==
    /\ Kid # {}
    /\ CacheTtl \in Nat \ {0} /\ Timeout \in Nat /\ MaxTicks \in Nat /\ MaxRotations \in Nat

VARIABLES
    now,        \* the clock
    document,   \* the issuer's document
    changed,    \* when each id last entered or left it
    rotations,  \* changes of it so far
    keys,       \* the cached document
    fetched,    \* when it was stored
    verify      \* each request: where it is, its key id, when it looked, the document it read

cacheVars == <<now, document, changed, rotations, keys, fetched, verify>>

-----------------------------------------------------------------------------
\* Before anything that could still matter when the clock is at 0.
LongAgo == 0 - (CacheTtl + Timeout)

NoVerification == [pc |-> "idle", kid |-> CHOOSE k \in Kid : TRUE, start |-> 0, doc |-> {}]

\* NewJWKSVerifier: no keys, and the zero time as the time of the last fetch.
CacheInit ==
    /\ now = 0
    /\ document \in SUBSET Kid
    /\ changed = [k \in Kid |-> LongAgo]
    /\ rotations = 0
    /\ keys = {}
    /\ fetched = LongAgo
    /\ verify = [r \in Caller |-> NoVerification]

\* The last time the issuer's document had id k, and the last time it did not.
LastIn(k)  == IF k \in document THEN now ELSE changed[k]
LastOut(k) == IF k \in document THEN changed[k] ELSE now

\* The issuer publishes a key, or withdraws it.
Rotate(k) ==
    /\ rotations < MaxRotations
    /\ rotations' = rotations + 1
    /\ document' = IF k \in document THEN document \ {k} ELSE document \cup {k}
    /\ changed' = [changed EXCEPT ![k] = now]
    /\ UNCHANGED <<now, keys, fetched, verify>>

\* Fault: a cached key is trusted whatever its age.
Fresh_Ever == TRUE

Fresh == now - fetched < CacheTtl

\* keyForKID, the first look: a known key of a fresh document is the answer.
Look(r, k) ==
    /\ verify[r].pc = "idle"
    /\ verify' = [verify EXCEPT ![r] =
           [pc |-> IF k \in keys /\ Fresh THEN "found" ELSE "fetching",
            kid |-> k, start |-> now, doc |-> {}]]
    /\ UNCHANGED <<now, document, changed, rotations, keys, fetched>>

\* Authenticate without a bearer token, or Verify with one of another method.
Malformed(r) ==
    /\ verify[r].pc = "idle"
    /\ verify' = [verify EXCEPT ![r].pc = "failed"]
    /\ UNCHANGED <<now, document, changed, rotations, keys, fetched>>

\* refresh: the issuer answers, and the answer is read and parsed.
Fetch(r) ==
    /\ verify[r].pc = "fetching"
    /\ verify' = [verify EXCEPT ![r] =
           [pc |-> "parsed", kid |-> verify[r].kid, start |-> verify[r].start, doc |-> document]]
    /\ UNCHANGED <<now, document, changed, rotations, keys, fetched>>

\* No answer, one with another status than 200, or one that cannot be decoded.
FetchFails(r) ==
    /\ verify[r].pc = "fetching"
    /\ verify' = [verify EXCEPT ![r].pc = "failed"]
    /\ UNCHANGED <<now, document, changed, rotations, keys, fetched>>

\* Fault: a fetched document is dropped while the cached one is fresh.
Store_KeepsFresh(r) ==
    /\ verify[r].pc = "parsed"
    /\ IF Fresh THEN UNCHANGED <<keys, fetched>> ELSE keys' = verify[r].doc /\ fetched' = now
    /\ verify' = [verify EXCEPT ![r].pc = "stored"]
    /\ UNCHANGED <<now, document, changed, rotations>>

\* refresh, under the lock: the document replaces the cached one.
Store(r) ==
    /\ verify[r].pc = "parsed"
    /\ keys' = verify[r].doc
    /\ fetched' = now
    /\ verify' = [verify EXCEPT ![r].pc = "stored"]
    /\ UNCHANGED <<now, document, changed, rotations>>

\* keyForKID, the second look.
Read(r) ==
    /\ verify[r].pc = "stored"
    /\ verify' = [verify EXCEPT ![r].pc = IF verify[r].kid \in keys THEN "found" ELSE "unknown"]
    /\ UNCHANGED <<now, document, changed, rotations, keys, fetched>>

\* The request is answered: 401, or by whatever comes after Authenticate.
Answered(r) == verify[r].pc \in {"found", "unknown", "failed"}

Respond(r) ==
    /\ Answered(r)
    /\ verify' = [verify EXCEPT ![r] = NoVerification]
    /\ UNCHANGED <<now, document, changed, rotations, keys, fetched>>

\* The client gives up on a fetch at its timeout.
InTime == \A r \in Caller :
    verify[r].pc \in {"fetching", "parsed"} => now < verify[r].start + Timeout

CacheTick ==
    /\ now < MaxTicks
    /\ InTime
    /\ now' = now + 1
    /\ UNCHANGED <<document, changed, rotations, keys, fetched, verify>>

CacheStep(r) == (\E k \in Kid : Look(r, k)) \/ Malformed(r) \/ Fetch(r) \/ FetchFails(r) \/ Store(r) \/ Read(r)

CacheNext ==
    \/ CacheTick
    \/ \E k \in Kid : Rotate(k)
    \/ \E r \in Caller : CacheStep(r) \/ Respond(r)

CacheSpec == CacheInit /\ [][CacheNext]_cacheVars

-----------------------------------------------------------------------------
(* Properties.                                                             *)

Verification ==
    [pc : {"idle", "fetching", "parsed", "stored", "found", "unknown", "failed"},
     kid : Kid, start : Int, doc : SUBSET Kid]

\* The variables have the values the cache and the handlers allow.
CacheTypeOK ==
    /\ now \in Nat
    /\ document \in SUBSET Kid
    /\ changed \in [Kid -> Int]
    /\ rotations \in Nat
    /\ keys \in SUBSET Kid
    /\ fetched \in Int
    /\ verify \in [Caller -> Verification]

\* A withdrawn key is not trusted for long: a key that keyForKID returns was in the
\* issuer's document less than CacheTtl + Timeout before the request began, whatever order
\* concurrent refreshes were stored in (the ttl, the client's timeout).
TrustedWasPublished ==
    \A r \in Caller :
        verify[r].pc = "found" => LastIn(verify[r].kid) > verify[r].start - (CacheTtl + Timeout)

\* A key id is reported as not found only if the issuer's document lacked it less than a
\* Timeout before the request began, or later: a refresh that stores an older document
\* last hides a new key no longer than that (refresh on an unknown key id).
UnknownWasUnpublished ==
    \A r \in Caller :
        verify[r].pc = "unknown" => LastOut(verify[r].kid) >= verify[r].start - Timeout

(* The inductive invariant behind them.                                    *)

\* The cached document was the issuer's at most a Timeout before it was stored.
CacheWasServed ==
    \A k \in Kid : IF k \in keys THEN LastIn(k) >= fetched - Timeout ELSE LastOut(k) >= fetched - Timeout

\* A fetch in flight is younger than its timeout, and the document it read was the
\* issuer's after it began; what is stored is at least as young as its request.
FetchIsRecent ==
    \A r \in Caller :
        /\ verify[r].start <= now
        /\ verify[r].pc \in {"fetching", "parsed"} => now <= verify[r].start + Timeout
        /\ verify[r].pc = "parsed" => \A k \in Kid :
             IF k \in verify[r].doc THEN LastIn(k) >= verify[r].start ELSE LastOut(k) >= verify[r].start
        /\ verify[r].pc = "stored" => fetched >= verify[r].start

\* Nothing is dated in the future.
PastTimes == fetched <= now /\ \A k \in Kid : changed[k] <= now

KeyCacheInv ==
    /\ CacheTypeOK /\ PastTimes /\ CacheWasServed /\ FetchIsRecent
    /\ TrustedWasPublished /\ UnknownWasUnpublished
=============================================================================
