---------------------------- MODULE EventDelivery ----------------------------
(***************************************************************************)
(* What the outbox relay promises: an event reaches the stream only after  *)
(* its transaction committed, is marked published only after it reached    *)
(* the stream, and stays marked.  An event may reach the stream again.     *)
(* Nothing is said of replicas, batches, locks or lost replies.            *)
(***************************************************************************)
EXTENDS Naturals

CONSTANT Event

VARIABLES
    outbox,   \* "absent", "pending" or "published"
    stored    \* events the stream holds

vars == <<outbox, stored>>

Init ==
    /\ outbox = [e \in Event |-> "absent"]
    /\ stored = {}

CommitEvent(e) ==
    /\ outbox[e] = "absent"
    /\ outbox' = [outbox EXCEPT ![e] = "pending"]
    /\ UNCHANGED stored

Store(e) ==
    /\ outbox[e] # "absent"
    /\ stored' = stored \cup {e}
    /\ UNCHANGED outbox

MarkPublished(S) ==
    /\ \A e \in S : outbox[e] # "absent"
    /\ S \subseteq stored
    /\ outbox' = [e \in Event |-> IF e \in S THEN "published" ELSE outbox[e]]
    /\ UNCHANGED stored

Next ==
    \/ \E e \in Event : CommitEvent(e) \/ Store(e)
    \/ \E S \in SUBSET Event : MarkPublished(S)

Spec == Init /\ [][Next]_vars
=============================================================================
