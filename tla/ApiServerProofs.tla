--------------------------- MODULE ApiServerProofs ---------------------------
(***************************************************************************)
(* Proofs about the API process.  Migrations and ApiServer, for any number *)
(* of servers, releases, requests and faults: MigrationsInv is inductive   *)
(* for Migrations, and ApiServer takes steps of Migrations or leaves its   *)
(* variables alone, so it holds there too.  The key cache behind           *)
(* Authenticate, for any callers, key ids, ttl and timeout.                *)
(***************************************************************************)
EXTENDS ApiServer, KeyCache, TLAPS

\* The time the provers may take for a step.
USE SMTT(60)

-----------------------------------------------------------------------------
(* The key cache.                                                          *)

\* What was known of an id at some time stays known: the last time the issuer's document
\* had it, and the last time it had not, only move forward.
LEMMA LastTimesGrow ==
    ASSUME CacheTypeOK, PastTimes, [CacheNext]_cacheVars
    PROVE  /\ now' \in Nat /\ now' >= now
           /\ \A k \in Kid : /\ LastIn(k) \in Int /\ LastIn(k)' \in Int /\ LastIn(k)' >= LastIn(k)
                             /\ LastOut(k) \in Int /\ LastOut(k)' \in Int /\ LastOut(k)' >= LastOut(k)
<1> USE DEF CacheTypeOK, PastTimes, LastIn, LastOut
<1>1. CASE CacheTick
  BY <1>1 DEF CacheTick
<1>2. CASE \E k \in Kid : Rotate(k)
  BY <1>2 DEF Rotate
<1>3. CASE UNCHANGED <<now, document, changed>>
  BY <1>3
<1>4. CASE \E r \in Caller : CacheStep(r) \/ Respond(r)
  BY <1>3, <1>4 DEF CacheStep, Respond, Look, Malformed, Fetch, FetchFails, Store, Read
<1>5. QED
  BY <1>1, <1>2, <1>3, <1>4 DEF CacheNext, cacheVars

\* CacheTypeOK is preserved by every step.
LEMMA TypeStep ==
    ASSUME CacheTypeOK, [CacheNext]_cacheVars
    PROVE  CacheTypeOK'
<1> USE DEF CacheTypeOK, Verification
<1>1. CASE CacheTick
  BY <1>1 DEF CacheTick
<1>2. CASE \E k \in Kid : Rotate(k)
  BY <1>2 DEF Rotate
<1>3. ASSUME NEW r \in Caller, CacheStep(r) \/ Respond(r) PROVE CacheTypeOK'
  <2>1. ASSUME NEW k \in Kid, Look(r, k) PROVE CacheTypeOK'
    BY <2>1 DEF Look
  <2>2. CASE Malformed(r)
    BY <2>2 DEF Malformed
  <2>3. CASE Fetch(r)
    BY <2>3 DEF Fetch
  <2>4. CASE FetchFails(r)
    BY <2>4 DEF FetchFails
  <2>5. CASE Store(r)
    BY <2>5 DEF Store
  <2>6. CASE Read(r)
    BY <2>6 DEF Read
  <2>7. CASE Respond(r)
    <3>1. NoVerification \in Verification
      BY KeyCacheAssumption DEF NoVerification
    <3>2. QED
      BY <3>1, <2>7 DEF Respond
  <2>8. QED
    BY <1>3, <2>1, <2>2, <2>3, <2>4, <2>5, <2>6, <2>7 DEF CacheStep
<1>4. CASE UNCHANGED cacheVars
  BY <1>4 DEF cacheVars
<1>5. QED
  BY <1>1, <1>2, <1>3, <1>4 DEF CacheNext

\* A step that leaves the cache alone keeps what is known of it.
LEMMA CacheKept ==
    ASSUME KeyCacheInv, [CacheNext]_cacheVars, UNCHANGED <<keys, fetched>>
    PROVE  CacheWasServed'
BY LastTimesGrow, KeyCacheAssumption DEF KeyCacheInv, CacheWasServed, CacheTypeOK

\* What is known of one request: the facts of FetchIsRecent and the two properties.
VerifySound(r) ==
    /\ verify[r].start <= now
    /\ verify[r].pc \in {"fetching", "parsed"} => now <= verify[r].start + Timeout
    /\ verify[r].pc = "parsed" => \A k \in Kid :
         IF k \in verify[r].doc THEN LastIn(k) >= verify[r].start ELSE LastOut(k) >= verify[r].start
    /\ verify[r].pc = "stored" => fetched >= verify[r].start
    /\ verify[r].pc = "found" => LastIn(verify[r].kid) > verify[r].start - (CacheTtl + Timeout)
    /\ verify[r].pc = "unknown" => LastOut(verify[r].kid) >= verify[r].start - Timeout

\* Another request's step, or a rotation, keeps what is known of a request; a store by
\* another request only makes the cache younger.
LEMMA SoundKept ==
    ASSUME KeyCacheInv, [CacheNext]_cacheVars, NEW r \in Caller,
           verify'[r] = verify[r], now' = now,
           fetched' = fetched \/ fetched' = now
    PROVE  VerifySound(r)'
<1>1. verify[r] \in Verification
  BY DEF KeyCacheInv, CacheTypeOK
<1>2. verify[r].start \in Int /\ verify[r].kid \in Kid /\ fetched \in Int /\ now \in Nat
  BY <1>1 DEF KeyCacheInv, CacheTypeOK, Verification
<1>3. VerifySound(r)
  BY DEF KeyCacheInv, VerifySound, FetchIsRecent, TrustedWasPublished, UnknownWasUnpublished
<1>4. /\ CacheTypeOK /\ PastTimes
      /\ fetched <= now
  BY DEF KeyCacheInv, PastTimes
<1>5. \A k \in Kid : /\ LastIn(k) \in Int /\ LastIn(k)' \in Int /\ LastIn(k)' >= LastIn(k)
                     /\ LastOut(k) \in Int /\ LastOut(k)' \in Int /\ LastOut(k)' >= LastOut(k)
  BY <1>4, LastTimesGrow
<1>6. QED
  BY <1>2, <1>3, <1>4, <1>5, KeyCacheAssumption DEF VerifySound

\* KeyCacheInv, with what it says of each request put together.
LEMMA InvIsVerifySound == KeyCacheInv => CacheTypeOK /\ PastTimes /\ CacheWasServed /\ \A r \in Caller : VerifySound(r)
BY DEF KeyCacheInv, VerifySound, FetchIsRecent, TrustedWasPublished, UnknownWasUnpublished

\* The inductive step for a request of its own: looking, fetching, storing, reading.
LEMMA SoundStep ==
    ASSUME KeyCacheInv, NEW r \in Caller, CacheStep(r) \/ Respond(r), CacheTypeOK',
           \A k \in Kid : LastIn(k) \in Int /\ LastOut(k) \in Int
    PROVE  VerifySound(r)'
<1> DEFINE v == verify[r]
<1>1. /\ v \in Verification /\ v.start \in Int /\ v.kid \in Kid /\ v.doc \in SUBSET Kid
      /\ fetched \in Int /\ now \in Nat /\ fetched <= now /\ VerifySound(r) /\ CacheWasServed
  BY InvIsVerifySound DEF CacheTypeOK, Verification, PastTimes
<1>2. verify \in [Caller -> Verification]
  BY DEF KeyCacheInv, CacheTypeOK
<1>3. UNCHANGED <<now, document, changed>>
  BY DEF CacheStep, Respond, Look, Malformed, Fetch, FetchFails, Store, Read
<1>4. \A k \in Kid : LastIn(k)' = LastIn(k) /\ LastOut(k)' = LastOut(k)
  BY <1>3 DEF LastIn, LastOut
<1>5. ASSUME NEW k \in Kid, Look(r, k) PROVE VerifySound(r)'
  <2>1. /\ verify'[r].start = now /\ verify'[r].kid = k
        /\ verify'[r].pc = IF k \in keys /\ Fresh THEN "found" ELSE "fetching"
    BY <1>2, <1>5 DEF Look
  <2>2. k \in keys /\ Fresh => LastIn(k) > now - (CacheTtl + Timeout)
    BY <1>1, KeyCacheAssumption DEF CacheWasServed, Fresh
  <2>3. QED
    BY <1>1, <1>3, <1>4, <2>1, <2>2, KeyCacheAssumption DEF VerifySound
<1>6. CASE Malformed(r) \/ FetchFails(r)
  <2>1. verify'[r].start = v.start /\ verify'[r].pc = "failed"
    BY <1>1, <1>2, <1>6 DEF Malformed, FetchFails, Verification
  <2>2. QED
    BY <1>1, <1>3, <2>1 DEF VerifySound
<1>7. CASE Fetch(r)
  <2>1. verify'[r] = [pc |-> "parsed", kid |-> v.kid, start |-> v.start, doc |-> document]
    BY <1>2, <1>7 DEF Fetch
  <2>2. \A k \in Kid : (k \in document => LastIn(k) = now) /\ (k \notin document => LastOut(k) = now)
    BY DEF LastIn, LastOut
  <2>3. v.pc = "fetching"
    BY <1>7 DEF Fetch
  <2>4. QED
    BY <1>1, <1>3, <1>4, <2>1, <2>2, <2>3 DEF VerifySound
<1>8. CASE Store(r)
  <2>1. verify'[r].start = v.start /\ verify'[r].pc = "stored" /\ fetched' = now
    BY <1>1, <1>2, <1>8 DEF Store, Verification
  <2>2. QED
    BY <1>1, <1>3, <2>1 DEF VerifySound
<1>9. CASE Read(r)
  <2>1. /\ verify'[r].start = v.start /\ verify'[r].kid = v.kid
        /\ verify'[r].pc = IF v.kid \in keys THEN "found" ELSE "unknown"
    BY <1>1, <1>2, <1>9 DEF Read, Verification
  <2>2. v.pc = "stored" /\ fetched >= v.start
    BY <1>1, <1>9 DEF Read, VerifySound
  <2>3. IF v.kid \in keys THEN LastIn(v.kid) >= fetched - Timeout ELSE LastOut(v.kid) >= fetched - Timeout
    BY <1>1 DEF CacheWasServed
  <2>4. LastIn(v.kid) \in Int /\ LastOut(v.kid) \in Int
    BY <1>1
  <2>5. QED
    BY <1>1, <1>3, <1>4, <2>1, <2>2, <2>3, <2>4, KeyCacheAssumption DEF VerifySound
<1>10. CASE Respond(r)
  <2>1. verify'[r].start = 0 /\ verify'[r].pc = "idle"
    <3>1. verify' = [verify EXCEPT ![r] = NoVerification]
      BY <1>10, ZenonT(60) DEF Respond
    <3> QED BY <1>2, <3>1 DEF NoVerification
  <2>2. QED
    BY <1>1, <1>3, <2>1 DEF VerifySound
<1>11. QED
  BY <1>5, <1>6, <1>7, <1>8, <1>9, <1>10 DEF CacheStep

\* Only a document that was fetched in time is stored: the cached one stays recent.
LEMMA TableStep ==
    ASSUME KeyCacheInv, [CacheNext]_cacheVars
    PROVE  CacheWasServed' /\ PastTimes'
<1>1. /\ CacheTypeOK /\ PastTimes /\ CacheWasServed
      /\ now \in Nat /\ fetched \in Int /\ changed \in [Kid -> Int] /\ verify \in [Caller -> Verification]
  BY DEF KeyCacheInv, CacheTypeOK
<1>2. now' \in Nat /\ now' >= now
  BY <1>1, LastTimesGrow
<1>3. ASSUME NEW r \in Caller, Store(r) PROVE CacheWasServed' /\ PastTimes'
  <2>1. verify[r] \in Verification /\ verify[r].start \in Int /\ verify[r].doc \in SUBSET Kid
    BY <1>1 DEF Verification
  <2>2. VerifySound(r) /\ verify[r].pc = "parsed"
    BY <1>3, InvIsVerifySound DEF Store
  <2>3. keys' = verify[r].doc /\ fetched' = now /\ UNCHANGED <<now, document, changed>>
    BY <1>3 DEF Store
  <2>4. \A k \in Kid : LastIn(k)' = LastIn(k) /\ LastOut(k)' = LastOut(k) /\ LastIn(k) \in Int /\ LastOut(k) \in Int
    BY <1>1, <2>3 DEF LastIn, LastOut
  <2>5. CacheWasServed'
    BY <1>1, <2>1, <2>2, <2>3, <2>4, KeyCacheAssumption DEF CacheWasServed, VerifySound
  <2>6. PastTimes'
    BY <1>1, <2>3 DEF PastTimes
  <2>7. QED
    BY <2>5, <2>6
<1>4. CASE UNCHANGED <<keys, fetched>>
  <2>1. CacheWasServed'
    BY <1>4, CacheKept
  <2>2. changed' = changed \/ \E k \in Kid : changed' = [changed EXCEPT ![k] = now]
    BY DEF CacheNext, CacheTick, Rotate, CacheStep, Respond, Look, Malformed, Fetch, FetchFails, Store, Read, cacheVars
  <2>3. PastTimes'
    BY <1>1, <1>2, <1>4, <2>2 DEF PastTimes
  <2>4. QED
    BY <2>1, <2>3
<1>5. UNCHANGED <<keys, fetched>> \/ \E r \in Caller : Store(r)
  BY DEF CacheNext, CacheTick, Rotate, CacheStep, Respond, Look, Malformed, Fetch, FetchFails, Read, cacheVars
<1>6. QED
  BY <1>3, <1>4, <1>5

\* KeyCacheInv holds at the start and is kept by every step.
THEOREM KeyCacheInductive == CacheSpec => []KeyCacheInv
<1>1. CacheInit => KeyCacheInv
  <2> SUFFICES ASSUME CacheInit PROVE KeyCacheInv
    OBVIOUS
  <2>1. NoVerification \in Verification /\ NoVerification.pc = "idle" /\ NoVerification.start = 0
    BY KeyCacheAssumption DEF NoVerification, Verification
  <2>2. LongAgo \in Int /\ LongAgo <= 0
    BY KeyCacheAssumption DEF LongAgo
  <2>3. CacheTypeOK
    BY <2>1, <2>2 DEF CacheInit, CacheTypeOK
  <2>4. PastTimes
    BY <2>2 DEF CacheInit, PastTimes
  <2>5. CacheWasServed
    BY <2>2, KeyCacheAssumption DEF CacheInit, CacheWasServed, LastIn, LastOut
  <2>6. ASSUME NEW r \in Caller PROVE VerifySound(r)
    <3>1. verify[r].pc = "idle" /\ verify[r].start = 0 /\ now = 0
      BY <2>1 DEF CacheInit
    <3>2. QED
      BY <3>1 DEF VerifySound
  <2>7. QED
    BY <2>3, <2>4, <2>5, <2>6 DEF KeyCacheInv, VerifySound, FetchIsRecent, TrustedWasPublished, UnknownWasUnpublished
<1>2. KeyCacheInv /\ [CacheNext]_cacheVars => KeyCacheInv'
  <2> SUFFICES ASSUME KeyCacheInv, [CacheNext]_cacheVars PROVE KeyCacheInv'
    OBVIOUS
  <2>1. CacheTypeOK /\ PastTimes /\ now \in Nat /\ verify \in [Caller -> Verification]
    BY DEF KeyCacheInv, CacheTypeOK
  <2>2. CacheTypeOK'
    BY <2>1, TypeStep
  <2>3. CacheWasServed' /\ PastTimes'
    BY TableStep
  <2>4. \A k \in Kid : LastIn(k) \in Int /\ LastOut(k) \in Int
    BY <2>1, LastTimesGrow
  <2>5. ASSUME NEW r \in Caller PROVE VerifySound(r)'
    <3>1. CASE CacheStep(r) \/ Respond(r)
      BY <2>2, <2>4, <3>1, SoundStep
    <3>2. ASSUME NEW q \in Caller, q # r, CacheStep(q) \/ Respond(q) PROVE VerifySound(r)'
      <4>1. verify'[r] = verify[r] /\ now' = now /\ (fetched' = fetched \/ fetched' = now)
        BY <2>1, <3>2 DEF CacheStep, Respond, Look, Malformed, Fetch, FetchFails, Store, Read
      <4>2. QED
        BY <4>1, SoundKept
    <3>3. CASE UNCHANGED cacheVars \/ \E k \in Kid : Rotate(k)
      <4>1. verify'[r] = verify[r] /\ now' = now /\ fetched' = fetched
        BY <3>3 DEF Rotate, cacheVars
      <4>2. QED
        BY <4>1, SoundKept
    <3>4. CASE CacheTick
      <4>1. verify[r] \in Verification /\ verify[r].start \in Int /\ verify[r].kid \in Kid
        BY <2>1 DEF Verification
      <4>2. VerifySound(r)
        BY InvIsVerifySound
      <4>3. /\ verify'[r] = verify[r] /\ now' = now + 1 /\ fetched' = fetched
            /\ verify[r].pc \in {"fetching", "parsed"} => now < verify[r].start + Timeout
        BY <3>4 DEF CacheTick, InTime
      <4>4. \A k \in Kid : /\ LastIn(k) \in Int /\ LastIn(k)' \in Int /\ LastIn(k)' >= LastIn(k)
                           /\ LastOut(k) \in Int /\ LastOut(k)' \in Int /\ LastOut(k)' >= LastOut(k)
        BY <2>1, LastTimesGrow
      <4>5. QED
        BY <2>1, <4>1, <4>2, <4>3, <4>4, KeyCacheAssumption DEF VerifySound
    <3>5. QED
      BY <3>1, <3>2, <3>3, <3>4 DEF CacheNext
  <2>6. QED
    BY <2>2, <2>3, <2>5 DEF KeyCacheInv, VerifySound, FetchIsRecent, TrustedWasPublished, UnknownWasUnpublished
<1>3. QED
  BY <1>1, <1>2, PTL DEF CacheSpec

\* Whatever the order of concurrent refreshes, no key is trusted that was withdrawn a ttl
\* and a timeout before the request began.
THEOREM TrustIsRecent == CacheSpec => []TrustedWasPublished
BY KeyCacheInductive, PTL DEF KeyCacheInv

\* A key published a timeout before a request began, and not withdrawn since, is never
\* reported as not found to it.
THEOREM PublishedIsFound == CacheSpec => []UnknownWasUnpublished
BY KeyCacheInductive, PTL DEF KeyCacheInv

-----------------------------------------------------------------------------
(* Migrations, and the process that runs them, serves and stops.            *)

PC == {"stopped", "reading", "applying", "applied", "recorded", "serving"}
Proc == [pc : PC, pending : SUBSET Version]
Running(x) == x.pc \in {"applied", "recorded"}
First(x, v) == v \in x.pending /\ \A u \in x.pending : v <= u

\* The files of a release are the first versions.
LEMMA FilesAreVersions ==
    /\ Version \subseteq Nat \ {0}
    /\ \A s \in Server : Files(s) \subseteq Version
    /\ \A s \in Server : \A v \in Files(s) : \A u \in 1..(v - 1) : u \in Files(s)
  BY MigrationsAssumption DEF Version, Files

\* What a server's state must be for the invariant, given the tables.
Sound(s, x) ==
    /\ x \in Proc
    /\ x.pending = {} <=> x.pc \in {"stopped", "reading", "serving"}
    /\ x.pc \in {"applying", "applied", "recorded"} =>
          x.pending \subseteq Files(s) /\ \A v \in Files(s) \ x.pending : tables[v] = 1
    /\ x.pc = "serving" => \A v \in Files(s) : tables[v] = 1
    /\ Running(x) => \A v \in Version : First(x, v) => tables[v] = 0 /\ ~ Uncommitted(s, v)

\* In an invariant state every server's is that.
LEMMA InvIsSound ==
    ASSUME MigrationsInv, NEW s \in Server
    PROVE  Sound(s, api[s])
  BY DEF MigrationsInv, TypeOK, ServingIsMigrated, RestIsApplied, RunsAlone, Sound, Proc, PC,
     Running, First, IsNext

\* A step of one server that leaves the tables alone.
LEMMA ServerStep ==
    ASSUME MigrationsInv, NEW s \in Server, NEW x, Sound(s, x), api' = [api EXCEPT ![s] = x],
           UNCHANGED <<tables, schema_migrations>>
    PROVE  MigrationsInv'
  <1>1. \A o \in Server : api'[o] = IF o = s THEN x ELSE api[o]
    BY DEF MigrationsInv, TypeOK
  <1>2. TypeOK'
    <2>1. api' \in [Server -> Proc]
      BY DEF MigrationsInv, TypeOK, Sound, Proc, PC
    <2>2. \A o \in Server : api'[o].pending = {} <=> api'[o].pc \in {"stopped", "reading", "serving"}
      BY <1>1 DEF MigrationsInv, TypeOK, Sound
    <2> QED BY <2>1, <2>2 DEF MigrationsInv, TypeOK, Proc, PC
  <1>3. RecordedIsApplied' /\ InVersionOrder'
    BY DEF MigrationsInv, RecordedIsApplied, InVersionOrder
  <1>4. ServingIsMigrated'
    BY <1>1 DEF MigrationsInv, ServingIsMigrated, Sound
  <1>5. RestIsApplied'
    BY <1>1 DEF MigrationsInv, RestIsApplied, Sound
  <1>6. RunsAlone'
    <2> SUFFICES ASSUME NEW o \in Server, NEW v \in Version, Running(api'[o]), First(api'[o], v)
                 PROVE  tables[v] = 0 /\ \A p \in Server \ {o} : ~(Running(api'[p]) /\ First(api'[p], v))
      BY DEF RunsAlone, Uncommitted, IsNext, Running, First
    <2>1. \A p \in Server, q \in Server : p # q /\ Running(api[p]) /\ First(api[p], v) =>
            tables[v] = 0 /\ ~(Running(api[q]) /\ First(api[q], v))
      BY DEF MigrationsInv, RunsAlone, Uncommitted, IsNext, Running, First
    <2>2. Running(x) /\ First(x, v) =>
            tables[v] = 0 /\ \A p \in Server \ {s} : ~(Running(api[p]) /\ First(api[p], v))
      BY DEF Sound, Uncommitted, IsNext, Running, First
    <2>3. Running(api[o]) /\ First(api[o], v) => tables[v] = 0
      BY DEF MigrationsInv, RunsAlone, IsNext, Running, First
    <2> QED BY <1>1, <2>1, <2>2, <2>3
  <1> QED BY <1>2, <1>3, <1>4, <1>5, <1>6 DEF MigrationsInv

\* A commit: the file is applied and recorded, and its server goes on or exits.
LEMMA CommitStep ==
    ASSUME MigrationsInv, NEW s \in Server, NEW v \in Version, NEW x \in Proc,
           api[s].pc = "recorded", IsNext(s, v),
           tables' = [tables EXCEPT ![v] = @ + 1], schema_migrations' = schema_migrations \cup {v},
           api' = [api EXCEPT ![s] = x], ~ Running(x),
           x.pending = {} <=> x.pc \in {"stopped", "reading", "serving"},
           x.pc \in {"applying", "serving"} => x.pending = api[s].pending \ {v}
    PROVE  MigrationsInv'
  <1>1. \A o \in Server : api'[o] = IF o = s THEN x ELSE api[o]
    BY DEF MigrationsInv, TypeOK
  <1>2. tables[v] = 0 /\ ~ Uncommitted(s, v)
    BY DEF MigrationsInv, RunsAlone
  <1>3. \A u \in Version : tables'[u] = IF u = v THEN 1 ELSE tables[u]
    BY <1>2 DEF MigrationsInv, TypeOK
  <1>4. api[s].pending \subseteq Files(s) /\ \A u \in Files(s) \ api[s].pending : tables[u] = 1
    BY DEF MigrationsInv, RestIsApplied
  <1>5. TypeOK'
    <2>1. tables' \in [Version -> Nat] /\ schema_migrations' \in SUBSET Version
      BY DEF MigrationsInv, TypeOK
    <2>2. api' \in [Server -> Proc]
      BY DEF MigrationsInv, TypeOK, Proc, PC
    <2>3. \A o \in Server : api'[o].pending = {} <=> api'[o].pc \in {"stopped", "reading", "serving"}
      BY <1>1 DEF MigrationsInv, TypeOK
    <2> QED BY <2>1, <2>2, <2>3 DEF TypeOK, Proc, PC
  <1>6. RecordedIsApplied'
    BY <1>3 DEF MigrationsInv, RecordedIsApplied
  <1>7. \A u \in 1..(v - 1) : u \in Files(s) /\ u \in Version /\ u < v /\ u # v
    BY <1>4, FilesAreVersions DEF IsNext
  <1>8. \A u \in 1..(v - 1) : tables[u] = 1
    BY <1>4, <1>7, FilesAreVersions DEF IsNext
  <1>9. InVersionOrder'
    <2> SUFFICES ASSUME NEW w \in Version, tables'[w] > 0, NEW u \in 1..(w - 1) PROVE tables'[u] > 0
      BY DEF InVersionOrder
    <2>1. u \in Version
      BY FilesAreVersions DEF Version
    <2>2. CASE w = v
      BY <1>3, <1>7, <1>8, <2>1, <2>2
    <2>3. CASE w # v
      BY <1>3, <2>1, <2>3 DEF MigrationsInv, InVersionOrder
    <2> QED BY <2>2, <2>3
  <1>10. \A o \in Server : \A u \in Files(o) : tables[u] = 1 => tables'[u] = 1
    BY <1>3, FilesAreVersions
  <1>11. \A u \in Files(s) \ (api[s].pending \ {v}) : tables'[u] = 1
    BY <1>3, <1>4, FilesAreVersions
  <1>12. ServingIsMigrated'
    BY <1>1, <1>10, <1>11 DEF MigrationsInv, ServingIsMigrated
  <1>13. RestIsApplied'
    BY <1>1, <1>4, <1>10, <1>11 DEF MigrationsInv, RestIsApplied, Running
  <1>14. RunsAlone'
    <2> SUFFICES ASSUME NEW o \in Server, NEW w \in Version, Running(api'[o]), First(api'[o], w)
                 PROVE  tables'[w] = 0 /\ \A p \in Server \ {o} : ~(Running(api'[p]) /\ First(api'[p], w))
      BY DEF RunsAlone, Uncommitted, IsNext, Running, First
    <2>1. o # s /\ Running(api[o]) /\ First(api[o], w)
      BY <1>1
    <2>2. w # v
      BY <1>2, <2>1 DEF Uncommitted, IsNext, Running, First
    <2>3. tables[w] = 0 /\ \A p \in Server \ {o} : ~(Running(api[p]) /\ First(api[p], w))
      BY <2>1 DEF MigrationsInv, RunsAlone, Uncommitted, IsNext, Running, First
    <2> QED BY <1>1, <1>3, <2>2, <2>3
  <1> QED BY <1>5, <1>6, <1>9, <1>12, <1>13, <1>14 DEF MigrationsInv

\* Stopped and reading servers have nothing to answer for.
LEMMA IdleIsSound ==
    ASSUME NEW s \in Server, NEW x, x.pending = {}, x.pc \in {"stopped", "reading"}, x \in Proc
    PROVE  Sound(s, x)
  BY DEF Sound, Running

\* MigrationsInv holds at first and every step keeps it.
THEOREM MigrationsInductive ==
    /\ Init => MigrationsInv
    /\ MigrationsInv /\ [Next]_vars => MigrationsInv'
  <1>0. Stopped \in Proc /\ Stopped.pending = {} /\ Stopped.pc = "stopped"
    BY DEF Stopped, Proc, PC
  <1>1. Init => MigrationsInv
    <2> SUFFICES ASSUME Init PROVE MigrationsInv
      OBVIOUS
    <2>1. \A s \in Server : api[s] = Stopped
      BY ZenonT(60) DEF Init
    <2>2. TypeOK
      BY <1>0, <2>1 DEF Init, TypeOK, Proc, PC
    <2>3. RecordedIsApplied /\ InVersionOrder
      BY DEF Init, RecordedIsApplied, InVersionOrder
    <2>4. ServingIsMigrated /\ RestIsApplied /\ RunsAlone
      BY <1>0, <2>1 DEF ServingIsMigrated, RestIsApplied, RunsAlone
    <2> QED BY <2>2, <2>3, <2>4 DEF MigrationsInv
  <1>2. ASSUME MigrationsInv, [Next]_vars PROVE MigrationsInv'
    <2> USE <1>2
    <2>0. \A s \in Server : api[s] \in Proc
      BY DEF MigrationsInv, TypeOK, Proc, PC
    <2>1. ASSUME NEW s \in Server, Start(s) PROVE MigrationsInv'
      <3> DEFINE x == [api[s] EXCEPT !.pc = "reading"]
      <3>1. api' = [api EXCEPT ![s] = x] /\ UNCHANGED <<tables, schema_migrations>> /\ api[s].pc = "stopped"
        BY <2>1 DEF Start
      <3>2. api[s].pending = {}
        BY <3>1 DEF MigrationsInv, TypeOK
      <3>3. x \in Proc /\ x.pending = {} /\ x.pc = "reading"
        BY <2>0, <3>2 DEF Proc, PC
      <3> HIDE DEF x
      <3>4. Sound(s, x)
        BY <3>3, IdleIsSound
      <3> QED BY <3>1, <3>4, ServerStep, ZenonT(60)
    <2>2. ASSUME NEW s \in Server, NEW seen \in SUBSET schema_migrations, Loop(s, Files(s) \ seen),
                 UNCHANGED <<tables, schema_migrations>>
          PROVE  MigrationsInv'
      <3> DEFINE P == Files(s) \ seen
                 x == [pc |-> IF P = {} THEN "serving" ELSE "applying", pending |-> P]
      <3>1. api' = [api EXCEPT ![s] = x]
        BY <2>2 DEF Loop
      <3>2. \A v \in Files(s) \ P : tables[v] = 1
        BY DEF MigrationsInv, RecordedIsApplied, TypeOK
      <3>3. P \subseteq Files(s) /\ P \subseteq Version
        BY FilesAreVersions
      <3> HIDE DEF P
      <3>4. x \in Proc /\ x.pending = P /\ x.pc = IF P = {} THEN "serving" ELSE "applying"
        BY <3>3 DEF Proc, PC
      <3> HIDE DEF x
      <3>5. Sound(s, x)
        BY <3>2, <3>3, <3>4 DEF Sound, Running
      <3> QED BY <2>2, <3>1, <3>5, ServerStep, ZenonT(60)
    <2>3. ASSUME NEW s \in Server, ReadApplied(s) \/ ReadInterrupted(s) PROVE MigrationsInv'
      BY <2>2, <2>3, ZenonT(60) DEF ReadApplied, ReadInterrupted
    <2>4. ASSUME NEW s \in Server, Exit(s), UNCHANGED <<tables, schema_migrations>> PROVE MigrationsInv'
      BY <1>0, <2>4, IdleIsSound, ServerStep, ZenonT(60) DEF Exit
    <2>5. ASSUME NEW s \in Server, Apply(s) PROVE MigrationsInv'
      <3>1. PICK v \in Version :
              /\ IsNext(s, v)
              /\ ~ Uncommitted(s, v)
              /\ IF tables[v] > 0 THEN Exit(s) ELSE api' = [api EXCEPT ![s].pc = "applied"]
        BY <2>5 DEF Apply
      <3>2. UNCHANGED <<tables, schema_migrations>> /\ api[s].pc = "applying"
        BY <2>5 DEF Apply
      <3>3. CASE tables[v] > 0
        BY <2>4, <3>1, <3>2, <3>3
      <3>4. CASE ~(tables[v] > 0)
        <4> DEFINE x == [api[s] EXCEPT !.pc = "applied"]
        <4>1. api' = [api EXCEPT ![s] = x]
          BY <3>1, <3>4
        <4>2. x \in Proc /\ x.pending = api[s].pending /\ x.pc = "applied"
          BY <2>0 DEF Proc, PC
        <4> HIDE DEF x
        <4>3. tables[v] = 0
          BY <3>4 DEF MigrationsInv, TypeOK
        <4>4. \A u \in Version : First(x, u) => u = v
          BY <3>1, <4>2, FilesAreVersions DEF First, IsNext
        <4>5. Sound(s, api[s])
          BY InvIsSound
        <4>6. Sound(s, x)
          BY <3>1, <3>2, <4>2, <4>3, <4>4, <4>5 DEF Sound
        <4> QED BY <3>2, <4>1, <4>6, ServerStep, ZenonT(60)
      <3> QED BY <3>3, <3>4
    <2>6. ASSUME NEW s \in Server, Record(s) PROVE MigrationsInv'
      <3> DEFINE x == [api[s] EXCEPT !.pc = "recorded"]
      <3>1. api' = [api EXCEPT ![s] = x] /\ UNCHANGED <<tables, schema_migrations>> /\ api[s].pc = "applied"
        BY <2>6 DEF Record
      <3>2. x \in Proc /\ x.pending = api[s].pending /\ x.pc = "recorded"
        BY <2>0 DEF Proc, PC
      <3> HIDE DEF x
      <3>3. Sound(s, x)
        BY <3>1, <3>2, InvIsSound DEF Sound, Running, First
      <3> QED BY <3>1, <3>3, ServerStep, ZenonT(60)
    <2>7. ASSUME NEW s \in Server, Commit(s) \/ CommitUnconfirmed(s) PROVE MigrationsInv'
      <3>1. PICK v \in Version :
              /\ IsNext(s, v)
              /\ tables' = [tables EXCEPT ![v] = @ + 1]
              /\ schema_migrations' = schema_migrations \cup {v}
        BY <2>7, ZenonT(60) DEF Commit, CommitUnconfirmed, Committed
      <3>2. api[s].pc = "recorded"
        BY <2>7 DEF Commit, CommitUnconfirmed
      <3>3. \A u \in Version : IsNext(s, u) => u = v
        BY <3>1, FilesAreVersions DEF IsNext
      <3>4. CASE Exit(s)
        <4>1. ~ Running(Stopped)
          BY <1>0 DEF Running
        <4> QED BY <1>0, <3>1, <3>2, <3>4, <4>1, CommitStep, ZenonT(60) DEF Exit
      <3>5. CASE Loop(s, api[s].pending \ {v})
        <4> DEFINE P == api[s].pending \ {v}
                   x == [pc |-> IF P = {} THEN "serving" ELSE "applying", pending |-> P]
        <4>1. api' = [api EXCEPT ![s] = x]
          BY <3>5 DEF Loop
        <4>2. P \subseteq Version
          BY <2>0 DEF Proc
        <4>3. x \in Proc /\ x.pending = P /\ x.pc = IF P = {} THEN "serving" ELSE "applying"
          BY <4>2 DEF Proc, PC
        <4>4. ~ Running(x)
          BY <4>3 DEF Running
        <4> HIDE DEF x
        <4> QED BY <3>1, <3>2, <4>1, <4>3, <4>4, CommitStep, ZenonT(60)
      <3> QED BY <2>7, <3>3, <3>4, <3>5, ZenonT(60) DEF Commit, CommitUnconfirmed
    <2>8. ASSUME NEW s \in Server, Fail(s) PROVE MigrationsInv'
      BY <2>4, <2>8 DEF Fail
    <2>9. CASE UNCHANGED vars
      BY <2>9 DEF vars, MigrationsInv, TypeOK, RecordedIsApplied, ServingIsMigrated, InVersionOrder,
         RestIsApplied, RunsAlone, IsNext, Uncommitted
    <2> QED BY <2>1, <2>3, <2>5, <2>6, <2>7, <2>8, <2>9 DEF Next, Step
  <1> QED BY <1>1, <1>2

\* The migrations of running processes are those of Migrations; exits are added.
LEMMA MigrationsKept ==
    ASSUME MigrationsInv, [APINext]_apiVars
    PROVE  MigrationsInv'
  <1>1. ASSUME UNCHANGED <<tables, schema_migrations, api>> PROVE MigrationsInv'
    BY <1>1, ZenonT(60) DEF MigrationsInv, TypeOK, RecordedIsApplied, ServingIsMigrated, InVersionOrder,
       RestIsApplied, RunsAlone, IsNext, Uncommitted
  <1>2. ASSUME NEW s \in Server, Launch(s) \/ Migrating(s) \/ Misled(s) \/ Crash(s) PROVE MigrationsInv'
    <2>1. Next
      BY <1>2, ZenonT(60) DEF Launch, Migrating, Misled, Crash, Next, Step
    <2> QED BY <2>1, MigrationsInductive
  <1>3. ASSUME NEW s \in Server, Listen(s) \/ ListenFails(s) \/ Signal(s) \/ Drained(s) \/ ShutdownExpires(s)
        PROVE  MigrationsInv'
    BY <1>1, <1>3 DEF Listen, ListenFails, Signal, Drained, ShutdownExpires, vars
  <1>4. ASSUME NEW s \in Server, Quit(s) PROVE MigrationsInv'
    <2>1. Stopped \in Proc /\ Stopped.pending = {} /\ Stopped.pc = "stopped"
      BY DEF Stopped, Proc, PC
    <2>2. Sound(s, Stopped)
      BY <2>1, IdleIsSound
    <2> QED BY <1>4, <2>2, ServerStep, ZenonT(60) DEF Quit, Exit
  <1>5. ASSUME NEW r \in Request, Acquire(r) \/ Return(r) \/ Reply(r) \/ Deadline(r) PROVE MigrationsInv'
    BY <1>1, <1>5 DEF Acquire, Return, Reply, Deadline, vars
  <1>6. ASSUME NEW r \in Request, NEW s \in Server, Accept(r, s) PROVE MigrationsInv'
    BY <1>1, <1>6 DEF Accept, vars
  <1>7. CASE UNCHANGED apiVars
    BY <1>1, <1>7 DEF apiVars, vars
  <1> QED BY <1>2, <1>3, <1>4, <1>5, <1>6, <1>7 DEF APINext, Proceed

\* A step of one request at a server that still has it.
LEMMA RequestStep ==
    ASSUME ProcessInv, NEW r \in Request, NEW x \in Handled, req' = [req EXCEPT ![r] = x],
           UNCHANGED <<api, phase, code>>,
           x.pc \in {"running", "holding"} =>
               phase[x.at] \in {"up", "draining"} \/ (Active(r) /\ x.at = req[r].at)
    PROVE  ProcessTypeOK' /\ ActiveIsServed' /\ CleanIsDrained'
  <1>1. \A q \in Request : req'[q] = IF q = r THEN x ELSE req[q]
    BY DEF ProcessInv, ProcessTypeOK
  <1>2. ProcessTypeOK'
    BY DEF ProcessInv, ProcessTypeOK
  <1>3. ActiveIsServed'
    BY <1>1 DEF ProcessInv, ActiveIsServed, Active
  <1>4. \A s \in Server : phase[s] = "closing" /\ ActiveAt(s) = {} => ActiveAt(s)' = {}
    BY <1>1 DEF ActiveAt, Active
  <1>5. CleanIsDrained'
    BY <1>4 DEF ProcessInv, CleanIsDrained
  <1> QED BY <1>2, <1>3, <1>5

\* ProcessInv holds at first and every step keeps it.
THEOREM ProcessInductive ==
    /\ APIInit => ProcessInv
    /\ ProcessInv /\ [APINext]_apiVars => ProcessInv'
  <1>1. APIInit => ProcessInv
    <2> SUFFICES ASSUME APIInit PROVE ProcessInv
      OBVIOUS
    <2>1. MigrationsInv
      BY MigrationsInductive DEF APIInit
    <2>2. Unsent.pc = "unsent" /\ \A r \in Request : req[r] = Unsent
      BY DEF APIInit, Unsent
    <2>3. ProcessTypeOK
      BY DEF APIInit, ProcessTypeOK
    <2>4. ActiveIsServed /\ CleanIsDrained
      BY <2>2 DEF APIInit, ActiveIsServed, CleanIsDrained, Active
    <2> QED BY <2>1, <2>3, <2>4 DEF ProcessInv
  <1>2. ASSUME ProcessInv, [APINext]_apiVars PROVE ProcessInv'
    <2> USE <1>2
    <2>0. MigrationsInv' /\ ProcessTypeOK
      BY MigrationsKept DEF ProcessInv
    <2>1. SUFFICES ProcessTypeOK' /\ ActiveIsServed' /\ CleanIsDrained'
      BY <2>0 DEF ProcessInv
    <2>2. \A r \in Request : Active(r) => req[r] \in Handled
      BY <2>0 DEF ProcessTypeOK, Active, Unsent
    <2>3. ASSUME NEW r \in Request, NEW s \in Server, Accept(r, s)
          PROVE  ProcessTypeOK' /\ ActiveIsServed' /\ CleanIsDrained'
      <3> DEFINE x == [pc |-> "running", at |-> s, late |-> FALSE]
      <3>1. req' = [req EXCEPT ![r] = x] /\ UNCHANGED <<api, phase, code>> /\ phase[s] = "up"
        BY <2>3 DEF Accept, vars
      <3>2. x \in Handled /\ x.at = s
        BY DEF Handled
      <3> HIDE DEF x
      <3> QED BY <3>1, <3>2, RequestStep, ZenonT(60)
    <2>4. ASSUME NEW r \in Request, Acquire(r) \/ Return(r) \/ Reply(r) \/ Deadline(r)
          PROVE  ProcessTypeOK' /\ ActiveIsServed' /\ CleanIsDrained'
      <3>1. Active(r) /\ req[r] \in Handled /\ UNCHANGED <<api, phase, code>>
        BY <2>2, <2>4 DEF Acquire, Return, Reply, Deadline, Active, vars
      <3>2. PICK x \in Handled : x.at = req[r].at /\ req' = [req EXCEPT ![r] = x]
        <4>1. CASE Acquire(r) \/ Return(r) \/ Reply(r)
          <5>1. PICK pc \in {"running", "holding", "answered", "lost"} : req' = [req EXCEPT ![r].pc = pc]
            BY <4>1 DEF Acquire, Return, Reply, Goto
          <5>2. [req[r] EXCEPT !.pc = pc] \in Handled /\ [req[r] EXCEPT !.pc = pc].at = req[r].at
            BY <3>1 DEF Handled
          <5> QED BY <5>1, <5>2, ZenonT(60)
        <4>2. CASE Deadline(r)
          <5>1. [req[r] EXCEPT !.late = TRUE] \in Handled /\ [req[r] EXCEPT !.late = TRUE].at = req[r].at
            BY <3>1, ZenonT(60) DEF Handled
          <5> QED BY <4>2, <5>1, ZenonT(60) DEF Deadline
        <4> QED BY <2>4, <4>1, <4>2
      <3> QED BY <3>1, <3>2, RequestStep, ZenonT(60)
    <2>5. ASSUME NEW s \in Server, Launch(s) \/ Migrating(s) \/ Misled(s)
          PROVE  ProcessTypeOK' /\ ActiveIsServed' /\ CleanIsDrained'
      <3>1. UNCHANGED <<phase, code, req>>
        BY <2>5 DEF Launch, Migrating, Misled, process
      <3>2. api[s].pc # "serving" /\ \A o \in Server : o # s => api'[o] = api[o]
        <4>1. api \in [Server -> Proc]
          BY DEF ProcessInv, MigrationsInv, TypeOK, Proc, PC
        <4>2. api[s].pc # "serving"
          BY <2>5 DEF Launch, Migrating, Misled, Start, ReadApplied, Apply, Record, Commit,
             ReadInterrupted, CommitUnconfirmed
        <4>3. ASSUME Launch(s) \/ Migrating(s) PROVE \A o \in Server : o # s => api'[o] = api[o]
          BY <4>1, <4>3 DEF Launch, Migrating, Start, ReadApplied, Apply, Record, Commit, Loop, Exit
        <4>4. ASSUME Misled(s) PROVE \A o \in Server : o # s => api'[o] = api[o]
          BY <4>1, <4>4 DEF Misled, ReadInterrupted, CommitUnconfirmed, Loop, Exit
        <4> QED BY <2>5, <4>2, <4>3, <4>4, ZenonT(60)
      <3>3. phase[s] = "off"
        BY <3>2 DEF ProcessInv, ActiveIsServed
      <3> QED BY <2>0, <3>1, <3>2, <3>3
              DEF ProcessInv, ProcessTypeOK, ActiveIsServed, CleanIsDrained, Active, ActiveAt
    <2>6. ASSUME NEW s \in Server, Listen(s) \/ Signal(s)
          PROVE  ProcessTypeOK' /\ ActiveIsServed' /\ CleanIsDrained'
      <3>1. PICK p \in {"up", "draining"} : phase' = [phase EXCEPT ![s] = p]
        BY <2>6 DEF Listen, Signal
      <3>2. UNCHANGED <<api, code, req>> /\ api[s].pc = "serving"
        BY <2>6 DEF Listen, Signal, vars
      <3>3. \A o \in Server : phase'[o] = IF o = s THEN p ELSE phase[o]
        BY <2>0, <3>1 DEF ProcessTypeOK
      <3>4. \A r \in Request : Active(r) => req[r].at \in Server
        BY <2>2 DEF Handled
      <3> QED BY <2>0, <3>1, <3>2, <3>3, <3>4
              DEF ProcessInv, ProcessTypeOK, ActiveIsServed, CleanIsDrained, Active, ActiveAt
    <2>7. ASSUME NEW s \in Server, ListenFails(s) \/ Drained(s) \/ ShutdownExpires(s)
          PROVE  ProcessTypeOK' /\ ActiveIsServed' /\ CleanIsDrained'
      <3>1. /\ phase' = [phase EXCEPT ![s] = "closing"] /\ UNCHANGED <<api, req>>
            /\ \/ code' = [code EXCEPT ![s] = "error"]
               \/ code' = [code EXCEPT ![s] = "ok"] /\ ActiveAt(s) = {}
        BY <2>7 DEF ListenFails, Drained, ShutdownExpires, vars
      <3>2. api[s].pc = "serving"
        BY <2>7 DEF ListenFails, Drained, ShutdownExpires, ProcessInv, ActiveIsServed
      <3>3. \A o \in Server : /\ phase'[o] = IF o = s THEN "closing" ELSE phase[o]
                              /\ o # s => code'[o] = code[o]
                              /\ ActiveAt(o)' = ActiveAt(o)
        BY <2>0, <3>1 DEF ProcessTypeOK, ActiveAt, Active
      <3>4. code'[s] = "error" \/ (code'[s] = "ok" /\ ActiveAt(s) = {})
        BY <2>0, <3>1 DEF ProcessTypeOK
      <3>5. ProcessTypeOK'
        BY <2>0, <3>1 DEF ProcessTypeOK
      <3>6. \A r \in Request : Active(r) => req[r].at \in Server
        BY <2>2 DEF Handled
      <3>7. ActiveIsServed'
        BY <3>1, <3>2, <3>3, <3>6 DEF ProcessInv, ActiveIsServed, Active
      <3>8. CleanIsDrained'
        BY <3>3, <3>4 DEF ProcessInv, CleanIsDrained
      <3> QED BY <3>5, <3>7, <3>8
    <2>8. ASSUME NEW s \in Server, Quit(s) \/ Crash(s)
          PROVE  ProcessTypeOK' /\ ActiveIsServed' /\ CleanIsDrained'
      <3>1. phase' = [phase EXCEPT ![s] = "off"] /\ Cut(s) /\ api' = [api EXCEPT ![s] = Stopped]
        BY <2>8 DEF Quit, Crash, Fail, Exit
      <3>2. code' = code \/ code' = [code EXCEPT ![s] = "error"]
        BY <2>8 DEF Quit, Crash
      <3>3. \A o \in Server : /\ phase'[o] = IF o = s THEN "off" ELSE phase[o]
                              /\ o # s => code'[o] = code[o] /\ api'[o] = api[o]
        BY <2>0, <3>1, <3>2 DEF ProcessTypeOK, ProcessInv, MigrationsInv, TypeOK
      <3>4. \A r \in Request : req'[r] = IF Active(r) /\ req[r].at = s THEN [req[r] EXCEPT !.pc = "cut"] ELSE req[r]
        BY <3>1 DEF Cut, ActiveAt
      <3>5. \A r \in Request : Active(r) => [req[r] EXCEPT !.pc = "cut"] \in Handled
                                            /\ [req[r] EXCEPT !.pc = "cut"].pc = "cut"
        BY <2>2 DEF Handled
      <3>6. \A r \in Request : req'[r] \in {Unsent} \cup Handled
        BY <2>0, <3>4, <3>5, ZenonT(60) DEF ProcessTypeOK
      <3>7. ProcessTypeOK'
        <4>1. req' \in [Request -> {Unsent} \cup Handled]
          BY <3>1, <3>6 DEF Cut
        <4> QED BY <2>0, <3>1, <3>2, <4>1 DEF ProcessTypeOK
      <3>8. \A r \in Request : Active(r)' => Active(r) /\ req'[r] = req[r] /\ req[r].at # s /\ req[r].at \in Server
        BY <2>2, <3>4, <3>5, ZenonT(60) DEF Active, Handled
      <3>9. ActiveIsServed'
        BY <3>3, <3>8 DEF ProcessInv, ActiveIsServed
      <3>10. \A o \in Server : ActiveAt(o) = {} => ActiveAt(o)' = {}
        BY <3>8 DEF ActiveAt
      <3>11. CleanIsDrained'
        BY <3>3, <3>10 DEF ProcessInv, CleanIsDrained
      <3> QED BY <3>7, <3>9, <3>11
    <2>9. CASE UNCHANGED apiVars
      BY <2>0, <2>9 DEF apiVars, vars, process, ProcessInv, ProcessTypeOK, ActiveIsServed, CleanIsDrained,
         Active, ActiveAt
    <2> QED BY <2>3, <2>4, <2>5, <2>6, <2>7, <2>8, <2>9 DEF APINext, Proceed
  <1> QED BY <1>1, <1>2

\* ProcessInv holds in every state.
LEMMA ProcessSafety == APISpec => []ProcessInv
  BY ProcessInductive, PTL DEF APISpec

\* For any number of servers, releases and faults: a file is applied once, and recorded
\* exactly when it is applied (the transaction around file and INSERT in Migrate).
THEOREM AppliedWithRecord == APISpec => []RecordedIsApplied
  <1>1. ProcessInv => RecordedIsApplied
    BY DEF ProcessInv, MigrationsInv
  <1> QED BY <1>1, ProcessSafety, PTL

\* For any number of servers, releases and faults: the files are applied in the order of
\* their versions, across all servers (the sort in Migrate).
THEOREM AppliedInOrder == APISpec => []InVersionOrder
  <1>1. ProcessInv => InVersionOrder
    BY DEF ProcessInv, MigrationsInv
  <1> QED BY <1>1, ProcessSafety, PTL

\* For any number of servers, releases and requests: requests are handled only where all
\* the files of the release are applied (Migrate before Start in cmd/api).
THEOREM SchemaSafety == APISpec => []HandledOnSchema
  <1>1. ProcessInv => HandledOnSchema
    <2> SUFFICES ASSUME ProcessInv PROVE HandledOnSchema
      OBVIOUS
    <2>1. \A r \in Request : Active(r) => req[r].at \in Server /\ api[req[r].at].pc = "serving"
      BY DEF ProcessInv, ProcessTypeOK, ActiveIsServed, Active, Unsent, Handled
    <2> QED BY <2>1 DEF HandledOnSchema, ProcessInv, MigrationsInv, ServingIsMigrated
  <1> QED BY <1>1, ProcessSafety, PTL

\* Only Launch takes a server out of "stopped".
LEMMA OnlyLaunchStarts ==
    ASSUME ProcessInv, [APINext]_apiVars, NEW s \in Server, api'[s].pc # "stopped"
    PROVE  api[s].pc # "stopped" \/ Launch(s)
  <1>1. api \in [Server -> Proc]
    BY DEF ProcessInv, MigrationsInv, TypeOK, Proc, PC
  <1>2. ASSUME NEW o \in Server, Launch(o) PROVE api[s].pc # "stopped" \/ Launch(s)
    BY <1>1, <1>2, ZenonT(60) DEF Launch, Start
  <1>3. ASSUME NEW o \in Server, Migrating(o) PROVE api[s].pc # "stopped"
    BY <1>1, <1>3 DEF Migrating, ReadApplied, Apply, Record, Commit, Loop, Exit
  <1>4. ASSUME NEW o \in Server, Misled(o) PROVE api[s].pc # "stopped"
    BY <1>1, <1>4 DEF Misled, ReadInterrupted, CommitUnconfirmed, Loop, Exit
  <1>5. ASSUME NEW o \in Server, Quit(o) \/ Crash(o) PROVE api[s].pc # "stopped"
    <2>1. Exit(o)
      BY <1>5, ZenonT(60) DEF Quit, Crash, Fail
    <2> QED BY <1>1, <2>1 DEF Exit, Stopped
  <1>6. ASSUME NEW o \in Server, Listen(o) \/ ListenFails(o) \/ Signal(o) \/ Drained(o) \/ ShutdownExpires(o)
        PROVE  UNCHANGED api
    BY <1>6, ZenonT(60) DEF Listen, ListenFails, Signal, Drained, ShutdownExpires, vars
  <1>7. ASSUME NEW r \in Request, \/ Acquire(r) \/ Return(r) \/ Reply(r) \/ Deadline(r)
                                  \/ \E o \in Server : Accept(r, o)
        PROVE  UNCHANGED api
    BY <1>7, ZenonT(60) DEF Accept, Acquire, Return, Reply, Deadline, vars
  <1>8. CASE UNCHANGED apiVars
    BY <1>8 DEF apiVars, vars
  <1> QED BY <1>2, <1>3, <1>4, <1>5, <1>6, <1>7, <1>8, ZenonT(60) DEF APINext, Proceed

\* For any settings: a server that serves has what its verifier needs, and no server in
\* production trusts a shared secret.  buildVerifier decides by itself, at a time when
\* only StartedIsValid still tells what validate has seen.
THEOREM VerifierSafety == APISpec => []VerifierIsConfigured
  <1>1. APIInit => StartedIsValid
    BY DEF APIInit, Init, Stopped, StartedIsValid
  <1>2. ProcessInv /\ StartedIsValid /\ [APINext]_apiVars => StartedIsValid'
    <2> SUFFICES ASSUME ProcessInv, StartedIsValid, [APINext]_apiVars, NEW s \in Server,
                        api'[s].pc # "stopped"
                 PROVE  validate(Setting[s]) /\ Opens(Setting[s])
      BY DEF StartedIsValid
    <2> QED BY OnlyLaunchStarts, ZenonT(60) DEF StartedIsValid, Launch
  <1>3. StartedIsValid => VerifierIsConfigured
    <2> SUFFICES ASSUME NEW c, validate(c)
                 PROVE  IF buildVerifier(c) = "jwks" THEN c.jwks /\ c.issuer /\ c.audience
                        ELSE c.secret /\ ~ IsProduction(c)
      BY ZenonT(60) DEF StartedIsValid, VerifierIsConfigured
    <2>1. c.mode = "jwks" \/ c.mode = "hmac"
      BY DEF validate
    <2>2. CASE c.mode = "jwks"
      BY <2>2, ZenonT(60) DEF validate, buildVerifier
    <2>3. CASE c.mode = "hmac"
      <3>1. buildVerifier(c) # "jwks"
        BY <2>3 DEF buildVerifier
      <3> QED BY <2>3, <3>1, ZenonT(60) DEF validate
    <2> QED BY <2>1, <2>2, <2>3
  <1> QED BY <1>1, <1>2, <1>3, ProcessSafety, PTL DEF APISpec

\* For any number of servers, requests and connections: a process that reports a clean
\* shutdown has cut off no request.
THEOREM CleanExit == APISpec => CleanExitCutsNone
  <1>1. ProcessInv /\ [APINext]_apiVars => [\A r \in Request :
            Active(r) /\ req'[r].pc = "cut" => code'[req[r].at] = "error"]_apiVars
    <2> SUFFICES ASSUME ProcessInv, APINext, NEW r \in Request, Active(r), req'[r].pc = "cut"
                 PROVE  code'[req[r].at] = "error"
      OBVIOUS
    <2>1. req[r].at \in Server /\ req[r].pc # "cut"
      BY DEF ProcessInv, ProcessTypeOK, Active, Unsent, Handled
    <2>2. PICK s \in Server : Quit(s) \/ Crash(s)
      <3>1. ASSUME NEW s \in Server, Launch(s) \/ Migrating(s) \/ Misled(s) \/ Listen(s) \/ ListenFails(s)
                                     \/ Signal(s) \/ Drained(s) \/ ShutdownExpires(s)
            PROVE  req' = req
        BY <3>1, ZenonT(60) DEF Launch, Migrating, Misled, Listen, ListenFails, Signal, Drained, ShutdownExpires, process
      <3>2. ASSUME NEW q \in Request, Acquire(q) \/ Return(q) \/ Reply(q) \/ Deadline(q)
            PROVE  req'[r].pc # "cut"
        <4>1. req[r] \in Handled /\ req \in [Request -> {Unsent} \cup Handled]
          BY DEF ProcessInv, ProcessTypeOK, Active, Unsent
        <4>2. q # r => req'[r] = req[r]
          BY <3>2, <4>1 DEF Acquire, Return, Reply, Deadline, Goto
        <4>3. CASE q = r /\ ~ Deadline(q)
          <5>1. PICK pc \in {"running", "holding", "answered", "lost"} : req' = [req EXCEPT ![r].pc = pc]
            BY <3>2, <4>3 DEF Acquire, Return, Reply, Goto
          <5>2. req'[r] = [req[r] EXCEPT !.pc = pc]
            BY <4>1, <5>1
          <5>3. [req[r] EXCEPT !.pc = pc].pc = pc
            BY <4>1 DEF Handled
          <5> QED BY <5>2, <5>3
        <4>4. CASE q = r /\ Deadline(q)
          <5>1. req'[r] = [req[r] EXCEPT !.late = TRUE]
            BY <4>1, <4>4 DEF Deadline
          <5>2. [req[r] EXCEPT !.late = TRUE].pc = req[r].pc
            BY <4>1 DEF Handled
          <5> QED BY <2>1, <5>1, <5>2
        <4> QED BY <2>1, <3>2, <4>2, <4>3, <4>4
      <3>3. ASSUME NEW q \in Request, NEW s \in Server, Accept(q, s) PROVE req'[r].pc # "cut"
        BY <2>1, <3>3 DEF Accept, ProcessInv, ProcessTypeOK
      <3> QED BY <2>1, <3>1, <3>2, <3>3, ZenonT(60) DEF APINext, Proceed
    <2>3. req[r].at = s
      <3>1. Cut(s)
        BY <2>2, ZenonT(60) DEF Quit, Crash
      <3> QED BY <2>1, <3>1 DEF Cut, ActiveAt
    <2>4. CASE Quit(s)
      <3>1. r \in ActiveAt(s) /\ phase[s] = "closing" /\ code' = code
        BY <2>3, <2>4, ZenonT(60) DEF Quit, ActiveAt
      <3> QED BY <2>3, <3>1 DEF ProcessInv, CleanIsDrained
    <2>5. CASE Crash(s)
      <3>1. code' = [code EXCEPT ![s] = "error"]
        BY <2>5, ZenonT(60) DEF Crash
      <3>2. code \in [Server -> {"none", "ok", "error"}]
        BY DEF ProcessInv, ProcessTypeOK
      <3> QED BY <2>3, <3>1, <3>2
    <2> QED BY <2>2, <2>4, <2>5
  <1> QED BY <1>1, ProcessInductive, PTL DEF APISpec, CleanExitCutsNone
=============================================================================
