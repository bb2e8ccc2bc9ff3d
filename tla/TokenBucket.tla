---------------------------- MODULE TokenBucket ----------------------------
(***************************************************************************)
(* What rate limiting promises each identity: a bucket of its own, full at *)
(* first, that gains a unit every tick, and a request admitted exactly     *)
(* when the bucket holds its cost.  Nothing is said of maps or of buckets  *)
(* that come and go.                                                       *)
(***************************************************************************)
EXTENDS Naturals

CONSTANTS
    Key,    \* identities
    Cost,   \* units one request takes
    Full    \* units a bucket holds

VARIABLES
    level,    \* what each bucket holds
    verdict   \* the last answer to each identity

vars == <<level, verdict>>

Init ==
    /\ level = [k \in Key |-> Full]
    /\ verdict = [k \in Key |-> "none"]

Tick ==
    /\ level' = [k \in Key |-> IF level[k] < Full THEN level[k] + 1 ELSE Full]
    /\ UNCHANGED verdict

Admit(k) ==
    /\ level[k] >= Cost
    /\ level' = [level EXCEPT ![k] = @ - Cost]
    /\ verdict' = [verdict EXCEPT ![k] = "admitted"]

Refuse(k) ==
    /\ level[k] < Cost
    /\ verdict' = [verdict EXCEPT ![k] = "limited"]
    /\ UNCHANGED level

Next == Tick \/ \E k \in Key : Admit(k) \/ Refuse(k)

Spec == Init /\ [][Next]_vars
=============================================================================
