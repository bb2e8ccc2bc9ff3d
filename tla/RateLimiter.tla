---------------------------- MODULE RateLimiter ----------------------------
(***************************************************************************)
(* The rate limiter of the API: a map from identity to token bucket, made  *)
(* on first use and removed when idle (internal/platform/httpx/            *)
(* ratelimit.go).  A bucket is a rate.Limiter: it keeps the level it had   *)
(* when a request was last admitted and works out the present one.         *)
(*                                                                         *)
(* A tick is the time in which a bucket gains one unit; a request costs    *)
(* Cost units, so fractions of a token are units.  The mutex makes allow   *)
(* and each sweep of the map one step.                                     *)
(***************************************************************************)
EXTENDS Integers

CONSTANTS
    Key,      \* identities: subjects, or remote addresses
    Cost,     \* units of one token
    Full,     \* units of burst tokens
    Ttl,      \* idle time after which a bucket may go, and period of the sweep
    MaxTime   \* bound: ticks

(***************************************************************************)
(* A bucket that was idle for longer than Ttl has filled up.  The defaults *)
(* (50 a second, burst 100, ten minutes) are far from the limit; Load does *)
(* not check it.                                                           *)
(***************************************************************************)
ASSUME RefillsInTime ==
    /\ Cost \in Nat \ {0} /\ Full \in Nat /\ Ttl \in Nat \ {0} /\ MaxTime \in Nat
    /\ Full <= Ttl + 1

VARIABLES
    clock,
    buckets,   \* the keys of the map
    entry,     \* their entries: level and time of the last admission, time of the last use
    due,       \* when the ticker fires next
    verdict,   \* the last answer to each identity
    watch      \* an observer: the identity it watches, since when, and the units admitted since

limiterVars == <<clock, buckets, entry, due, verdict, watch>>

-----------------------------------------------------------------------------
New == [tokens |-> Full, last |-> clock, seen |-> clock]

LimiterInit ==
    /\ clock = 0
    /\ buckets = {}
    /\ entry = [k \in Key |-> New]
    /\ due = Ttl
    /\ verdict = [k \in Key |-> "none"]
    /\ watch \in [key : Key, since : {0}, spent : {0}]

\* Fault: a bucket is not capped at its burst.
Advance_Uncapped(e) == e.tokens + (clock - e.last)

\* rate.Limiter: the present level of a bucket.
Advance(e) == IF e.tokens + (clock - e.last) < Full THEN e.tokens + (clock - e.last) ELSE Full

\* Fault: the entry keeps the time it was made as its last use.
Used_KeepsSeen(e) ==
    [tokens |-> IF Advance(e) >= Cost THEN Advance(e) - Cost ELSE e.tokens,
     last   |-> IF Advance(e) >= Cost THEN clock ELSE e.last,
     seen   |-> e.seen]

\* The entry after a request: seen is set, and Allow takes a token if there is one.
Used(e) ==
    [tokens |-> IF Advance(e) >= Cost THEN Advance(e) - Cost ELSE e.tokens,
     last   |-> IF Advance(e) >= Cost THEN clock ELSE e.last,
     seen   |-> clock]

\* RateLimit and allow: 429, or on to the handler.
Allow(k) ==
    LET e == IF k \in buckets THEN entry[k] ELSE New
        ok == Advance(e) >= Cost
    IN  /\ buckets' = buckets \cup {k}
        /\ entry' = [entry EXCEPT ![k] = Used(e)]
        /\ verdict' = [verdict EXCEPT ![k] = IF ok THEN "admitted" ELSE "limited"]
        /\ watch' = [key |-> watch.key, since |-> watch.since,
                     spent |-> IF ok /\ k = watch.key THEN watch.spent + Cost ELSE watch.spent]
        /\ UNCHANGED <<clock, due>>

\* Fault: a bucket goes only when it was idle for two periods.
Idle_Late(k) == clock - entry[k].seen > 2 * Ttl

Idle(k) == clock - entry[k].seen > Ttl

\* reap: the ticker fires and idle buckets are deleted.
Reap ==
    /\ clock = due
    /\ buckets' = {k \in buckets : ~Idle(k)}
    /\ due' = due + Ttl
    /\ UNCHANGED <<clock, entry, verdict, watch>>

\* Time passes; the sweep is not late.
Tick ==
    /\ clock < MaxTime
    /\ clock < due
    /\ clock' = clock + 1
    /\ UNCHANGED <<buckets, entry, due, verdict, watch>>

\* The observer begins anew, now and with any identity.
Observe(k) ==
    /\ watch' = [key |-> k, since |-> clock, spent |-> 0]
    /\ UNCHANGED <<clock, buckets, entry, due, verdict>>

LimiterNext == Tick \/ Reap \/ \E k \in Key : Allow(k) \/ Observe(k)

LimiterSpec == LimiterInit /\ [][LimiterNext]_limiterVars

-----------------------------------------------------------------------------
(* Properties.                                                             *)

\* The variables have the values the map, the ticker and the observer allow.
LimiterTypeOK ==
    /\ clock \in Nat /\ due \in Nat
    /\ buckets \in SUBSET Key
    /\ entry \in [Key -> [tokens : 0..Full, last : Nat, seen : Nat]]
    /\ verdict \in [Key -> {"none", "admitted", "limited"}]
    /\ watch \in [key : Key, since : Nat, spent : Nat]

Level(k) == IF k \in buckets THEN Advance(entry[k]) ELSE Full

Promise == INSTANCE TokenBucket WITH level <- [k \in Key |-> Level(k)]

\* Removing an idle bucket and making a new one is invisible: each identity is served as
\* by one bucket that is always there (seen, the sweep's >, the cap at burst).
LimitsLikeBucket == Promise!Spec

\* In no stretch of time, wherever it begins, is an identity admitted more than its burst
\* and what the rate adds in that time.
WithinRate == watch.spent <= Full + (clock - watch.since)

\* The map does not grow with identities long gone: a bucket unused for more than two
\* periods is not there (the sweep runs every Ttl and spares only younger ones).
IdleBucketsGo == \A k \in buckets : clock - entry[k].seen <= 2 * Ttl

(* The inductive invariant behind them.                                    *)

\* Times are in the past, a use is no older than the admission before it, and what the
\* last sweep spared was used within its Ttl.
EntryTimes ==
    /\ clock <= due /\ due <= clock + Ttl /\ watch.since <= clock
    /\ \A k \in buckets : /\ entry[k].last <= entry[k].seen
                           /\ entry[k].seen <= clock
                           /\ due - 2 * Ttl <= entry[k].seen

\* What the watched bucket holds has not been spent.
SpentIsGone ==
    \A k \in Key : k = watch.key => watch.spent + Level(k) <= Full + (clock - watch.since)

RateLimiterInv == LimiterTypeOK /\ EntryTimes /\ SpentIsGone
=============================================================================
