-------------------------------- MODULE Relay --------------------------------
(***************************************************************************)
(* The outbox relay: replicas that claim unpublished rows of outbox_events *)
(* with FOR UPDATE SKIP LOCKED, publish them to JetStream and mark them,   *)
(* in one transaction per batch (internal/relay, internal/platform/events, *)
(* cmd/relay).                                                             *)
(*                                                                         *)
(* An event is a number: its place in ORDER BY created_at, id.  created_at *)
(* is the start of the writing transaction, so rows may appear in any      *)
(* order.  The stream keeps a message id for its duplicate window.         *)
(***************************************************************************)
EXTENDS Integers, FiniteSets

CONSTANTS
    Event,       \* rows the outbox will hold, numbered in claim order
    Worker,      \* relay replicas
    Batch,       \* rows claimed per transaction
    MaxFaults,   \* bound: failures, crashes and lost sessions
    MaxExpiry    \* bound: times one message id leaves the duplicate window

ASSUME RelayAssumption ==
    /\ Event \subseteq Nat
    /\ Batch \in Nat \ {0}
    /\ MaxFaults \in Nat /\ MaxExpiry \in Nat

VARIABLES
    outbox,     \* outbox_events: "absent", "pending" or "published"
    copies,     \* stored messages of each event in the stream
    window,     \* message ids the stream would recognise as duplicates
    expiries,   \* times an id has left the window
    inflight,   \* publishes whose caller gave up, still on their way
    relay,      \* the state of each replica
    faults      \* faults so far

vars == <<outbox, copies, window, expiries, inflight, relay, faults>>

-----------------------------------------------------------------------------
(* A replica waits for its ticker, claims, publishes and marks.  session   *)
(* says whether its database session, and with it its locks, still exists. *)

Waiting  == [pc |-> "waiting", batch |-> {}, sent |-> {}, session |-> FALSE]
Claiming == [pc |-> "claiming", batch |-> {}, sent |-> {}, session |-> FALSE]

Replica ==
    [pc      : {"waiting", "claiming", "publishing", "marking"},
     batch   : SUBSET Event,
     sent    : SUBSET Event,
     session : BOOLEAN]

Init ==
    /\ outbox = [e \in Event |-> "absent"]
    /\ copies = [e \in Event |-> 0]
    /\ window = {}
    /\ expiries = [e \in Event |-> 0]
    /\ inflight = [e \in Event |-> 0]
    /\ relay = [w \in Worker |-> Waiting]
    /\ faults = 0

Locked(e) == \E w \in Worker : relay[w].session /\ e \in relay[w].batch

Claimable == {e \in Event : outbox[e] = "pending" /\ ~Locked(e)}

\* Fault: the claim has no ORDER BY.
FirstRows_Unordered(S) ==
    /\ S \subseteq Claimable
    /\ IF Cardinality(Claimable) <= Batch THEN S = Claimable ELSE Cardinality(S) = Batch

\* The first Batch of the claimable rows, or all of them.
FirstRows(S) ==
    /\ S \subseteq Claimable
    /\ \A e \in S, f \in Claimable \ S : e < f
    /\ IF Cardinality(Claimable) <= Batch THEN S = Claimable ELSE Cardinality(S) = Batch

\* The row the publish loop is at.
IsNext(w, e) ==
    /\ e \in relay[w].batch \ relay[w].sent
    /\ \A f \in relay[w].batch \ relay[w].sent : e <= f

\* Fault: published without a message id.
Deliver_NoMsgID(e) ==
    /\ copies' = [copies EXCEPT ![e] = @ + 1]
    /\ UNCHANGED window

\* The stream takes a message, or drops it as a duplicate.
Deliver(e) ==
    /\ copies' = [copies EXCEPT ![e] = IF e \in window THEN @ ELSE @ + 1]
    /\ window' = window \cup {e}

Fault == faults < MaxFaults /\ faults' = faults + 1

-----------------------------------------------------------------------------
\* The transaction that wrote the row commits.
CommitEvent(e) ==
    /\ outbox[e] = "absent"
    /\ outbox' = [outbox EXCEPT ![e] = "pending"]
    /\ UNCHANGED <<copies, window, expiries, inflight, relay, faults>>

\* Run: the ticker starts a DrainOnce.
DrainOnce(w) ==
    /\ relay[w].pc = "waiting"
    /\ relay' = [relay EXCEPT ![w] = Claiming]
    /\ UNCHANGED <<outbox, copies, window, expiries, inflight, faults>>

ClaimBatch(w) ==
    /\ relay[w].pc = "claiming"
    /\ \E S \in SUBSET Event :
         /\ FirstRows(S)
         /\ relay' = [relay EXCEPT ![w] =
                IF S = {} THEN Waiting
                ELSE [pc |-> "publishing", batch |-> S, sent |-> {}, session |-> TRUE]]
    /\ UNCHANGED <<outbox, copies, window, expiries, inflight, faults>>

\* Publish returns nil: the stream has the message, or had it.
Publish(w) ==
    /\ relay[w].pc = "publishing"
    /\ \E e \in Event :
         /\ IsNext(w, e)
         /\ Deliver(e)
         /\ relay' = [relay EXCEPT ![w] =
                [pc      |-> IF relay[w].batch = relay[w].sent \cup {e} THEN "marking" ELSE "publishing",
                 batch   |-> relay[w].batch,
                 sent    |-> relay[w].sent \cup {e},
                 session |-> relay[w].session]]
    /\ UNCHANGED <<outbox, expiries, inflight, faults>>

\* Fault: a failed publish is skipped and the batch goes on.
PublishFails_Skips(w) ==
    /\ Fault
    /\ relay[w].pc = "publishing"
    /\ \E e \in Event :
         /\ IsNext(w, e)
         /\ inflight' = [inflight EXCEPT ![e] = @ + 1]
         /\ relay' = [relay EXCEPT ![w] =
                [pc      |-> IF relay[w].batch = relay[w].sent \cup {e} THEN "marking" ELSE "publishing",
                 batch   |-> relay[w].batch,
                 sent    |-> relay[w].sent \cup {e},
                 session |-> relay[w].session]]
    /\ UNCHANGED <<outbox, copies, window, expiries>>

\* Publish returns an error, or the process dies in it; the message may still arrive.
PublishFails(w) ==
    /\ Fault
    /\ relay[w].pc = "publishing"
    /\ \E e \in Event : IsNext(w, e) /\ inflight' = [inflight EXCEPT ![e] = @ + 1]
    /\ relay' = [relay EXCEPT ![w] = Waiting]
    /\ UNCHANGED <<outbox, copies, window, expiries>>

LateArrival(e) ==
    /\ inflight[e] > 0
    /\ inflight' = [inflight EXCEPT ![e] = @ - 1]
    /\ Deliver(e)
    /\ UNCHANGED <<outbox, expiries, relay, faults>>

Published(w) == [e \in Event |-> IF e \in relay[w].batch THEN "published" ELSE outbox[e]]

\* Fault: a full batch ends the drain and its rows are never marked.
MarkPublished_Forgets(w) ==
    /\ relay[w].pc = "marking"
    /\ relay[w].session
    /\ relay' = [relay EXCEPT ![w] = Waiting]
    /\ UNCHANGED <<outbox, copies, window, expiries, inflight, faults>>

\* Mark and commit; a full batch makes DrainOnce claim again.
MarkPublished(w) ==
    /\ relay[w].pc = "marking"
    /\ relay[w].session
    /\ outbox' = Published(w)
    /\ relay' = [relay EXCEPT ![w] = IF Cardinality(relay[w].batch) < Batch THEN Waiting ELSE Claiming]
    /\ UNCHANGED <<copies, window, expiries, inflight, faults>>

\* The commit took effect but its reply was lost.
MarkUnconfirmed(w) ==
    /\ Fault
    /\ relay[w].pc = "marking"
    /\ relay[w].session
    /\ outbox' = Published(w)
    /\ relay' = [relay EXCEPT ![w] = Waiting]
    /\ UNCHANGED <<copies, window, expiries, inflight>>

\* The session is gone: the UPDATE fails.
MarkFails(w) ==
    /\ relay[w].pc = "marking"
    /\ ~relay[w].session
    /\ relay' = [relay EXCEPT ![w] = Waiting]
    /\ UNCHANGED <<outbox, copies, window, expiries, inflight, faults>>

\* Postgres drops the session and its locks while the replica is publishing.
LoseSession(w) ==
    /\ Fault
    /\ relay[w].session
    /\ relay' = [relay EXCEPT ![w].session = FALSE]
    /\ UNCHANGED <<outbox, copies, window, expiries, inflight>>

\* Any other error, a shutdown, or a crash and restart.
Crash(w) ==
    /\ Fault
    /\ relay[w].pc # "waiting"
    /\ relay' = [relay EXCEPT ![w] = Waiting]
    /\ UNCHANGED <<outbox, copies, window, expiries, inflight>>

\* A message id is older than the duplicate window.
Expire(e) ==
    /\ e \in window
    /\ expiries[e] < MaxExpiry
    /\ window' = window \ {e}
    /\ expiries' = [expiries EXCEPT ![e] = @ + 1]
    /\ UNCHANGED <<outbox, copies, inflight, relay, faults>>

Step(w) ==
    \/ DrainOnce(w) \/ ClaimBatch(w) \/ Publish(w)
    \/ MarkPublished(w) \/ MarkFails(w)

Next ==
    \/ \E e \in Event : CommitEvent(e) \/ LateArrival(e) \/ Expire(e)
    \/ \E w \in Worker : \/ Step(w) \/ PublishFails(w) \/ MarkUnconfirmed(w)
                         \/ LoseSession(w) \/ Crash(w)

Spec == Init /\ [][Next]_vars

(***************************************************************************)
(* A replica goes on with its loop: the ticker fires, the calls it makes   *)
(* return.  Faults are finitely many (MaxFaults); nothing makes a late     *)
(* message arrive or a transaction commit.                                 *)
(***************************************************************************)
FairSpec == Spec /\ \A w \in Worker : WF_vars(Step(w))

-----------------------------------------------------------------------------
(* Properties.                                                             *)

\* The variables have the values the table, the stream and the loop allow.
TypeOK ==
    /\ outbox \in [Event -> {"absent", "pending", "published"}]
    /\ copies \in [Event -> Nat]
    /\ window \in SUBSET Event
    /\ expiries \in [Event -> Nat]
    /\ inflight \in [Event -> Nat]
    /\ relay \in [Worker -> Replica]
    /\ faults \in Nat

\* No event is lost: a row is marked published only when the stream holds its
\* message (OutboxStore's contract), through crashes, lost replies and sessions.
PublishedIsStored == \A e \in Event : outbox[e] = "published" => copies[e] > 0

\* Two replicas never hold the same row at once (FOR UPDATE SKIP LOCKED).
ExclusiveClaims ==
    \A v, w \in Worker :
        v # w /\ relay[v].session /\ relay[w].session => relay[v].batch \cap relay[w].batch = {}

\* The stream holds one message of an event and at most one more for every time its
\* id left the duplicate window, however often replicas publish it (EnsureStream).
OncePerWindow == \A e \in Event : copies[e] <= 1 + expiries[e]

\* No event fires twice.
NoDoubleFire == \A e \in Event : copies[e] <= 1

\* The relay implements EventDelivery: stored only once committed, marked only once
\* stored, never unmarked.
Delivery == INSTANCE EventDelivery WITH stored <- {e \in Event : copies[e] > 0}

DeliversEvents == Delivery!Spec

(* The inductive invariant behind them.                                    *)

\* A replica works on committed rows, has stored what it counts as sent, and marks
\* only when it has sent the whole batch.
SentIsStored ==
    \A w \in Worker :
        /\ \A e \in relay[w].batch : outbox[e] # "absent"
        /\ \A e \in relay[w].sent : copies[e] > 0
        /\ relay[w].pc = "marking" => relay[w].batch = relay[w].sent

\* Only committed rows are on their way to the stream or in it.
StoredIsCommitted ==
    \A e \in Event : inflight[e] > 0 \/ copies[e] > 0 => outbox[e] # "absent"

\* Every message of an event but the one whose id is in the window has expired.
WindowCounts ==
    \A e \in Event :
        /\ e \in window => copies[e] > 0 /\ copies[e] <= 1 + expiries[e]
        /\ e \notin window => copies[e] <= expiries[e]

RelayInv == TypeOK /\ SentIsStored /\ StoredIsCommitted /\ WindowCounts /\ PublishedIsStored /\ ExclusiveClaims

\* Every committed event is eventually stored and marked, whichever replicas fail.
EventuallyPublished ==
    \A e \in Event : outbox[e] = "pending" ~> outbox[e] = "published" /\ copies[e] > 0
=============================================================================
