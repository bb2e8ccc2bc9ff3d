------------------------------ MODULE Pipeline ------------------------------
(***************************************************************************)
(* From command to stream: transactions that write outbox rows, composed   *)
(* with the relay that publishes them (Store.Execute and Outbox.Append of  *)
(* both modules, the outbox_events table, internal/relay).                 *)
(*                                                                         *)
(* created_at defaults to now(), the start of the writing transaction, so  *)
(* the number of a row, its place in the relay's order, is the place of    *)
(* its transaction among the starts.  Transactions overlap and end in any  *)
(* order.                                                                  *)
(***************************************************************************)
EXTENDS Relay

VARIABLES
    writer,     \* the transaction of each row: "idle", "open", "committed" or "gone"
    before,     \* rows committed when the transaction of a row began
    overtaken   \* <<e, f>>: a replica claimed f while another one held e, an earlier row

pipeVars == <<vars, writer, before, overtaken>>

-----------------------------------------------------------------------------
PipeInit ==
    /\ Init
    /\ writer = [e \in Event |-> "idle"]
    /\ before = [e \in Event |-> {}]
    /\ overtaken = {}

\* Execute begins the transaction that will write row e.
Begin(e) ==
    /\ writer[e] = "idle"
    /\ \A f \in Event : f < e => writer[f] # "idle"
    /\ writer' = [writer EXCEPT ![e] = "open"]
    /\ before' = [before EXCEPT ![e] = {f \in Event : outbox[f] # "absent"}]
    /\ UNCHANGED <<vars, overtaken>>

\* The transaction commits: the change and its row appear together.
Commit(e) ==
    /\ writer[e] = "open"
    /\ CommitEvent(e)
    /\ writer' = [writer EXCEPT ![e] = "committed"]
    /\ UNCHANGED <<before, overtaken>>

\* A refused command, a failed statement or a crash: no change and no row.
Rollback(e) ==
    /\ writer[e] = "open"
    /\ writer' = [writer EXCEPT ![e] = "gone"]
    /\ UNCHANGED <<vars, before, overtaken>>

\* A claim, with what it skips.
Claim(w) ==
    /\ ClaimBatch(w)
    /\ overtaken' = overtaken \cup
         {p \in Event \X Event : /\ outbox[p[1]] = "pending" /\ Locked(p[1])
                                 /\ p[2] \in relay'[w].batch /\ p[1] < p[2]}
    /\ UNCHANGED <<writer, before>>

\* The other steps of a replica.
Deliveries(w) ==
    /\ DrainOnce(w) \/ Publish(w) \/ MarkPublished(w) \/ MarkFails(w)
    /\ UNCHANGED <<writer, before, overtaken>>

Faults(w) ==
    /\ PublishFails(w) \/ MarkUnconfirmed(w) \/ LoseSession(w) \/ Crash(w)
    /\ UNCHANGED <<writer, before, overtaken>>

Stream(e) ==
    /\ LateArrival(e) \/ Expire(e)
    /\ UNCHANGED <<writer, before, overtaken>>

PipeNext ==
    \/ \E e \in Event : Begin(e) \/ Commit(e) \/ Rollback(e) \/ Stream(e)
    \/ \E w \in Worker : Claim(w) \/ Deliveries(w) \/ Faults(w)

PipeSpec == PipeInit /\ [][PipeNext]_pipeVars

\* As in Relay: a replica goes on with its loop; no transaction has to commit.
FairPipeSpec == PipeSpec /\ \A w \in Worker : WF_pipeVars(Claim(w) \/ Deliveries(w))

-----------------------------------------------------------------------------
(* Properties.                                                             *)

Stored(e) == copies[e] > 0

\* A command that had ended when another began reaches the stream before it, through
\* failed publishes, late arrivals, lost sessions and retries (ORDER BY created_at, the
\* loop over a batch).  Only SKIP LOCKED excuses: a replica held the earlier row when
\* another claimed the later one.  Commands that overlap are streamed in any order.
StreamedInOrder ==
    \A f \in Event : Stored(f) =>
        \A e \in before[f] : Stored(e) \/ <<e, f>> \in overtaken

(* The inductive invariant behind it.                                      *)

PipeTypeOK ==
    /\ writer \in [Event -> {"idle", "open", "committed", "gone"}]
    /\ before \in [Event -> SUBSET Event]
    /\ overtaken \in SUBSET (Event \X Event)

\* Transactions begin in the order of their rows, and one that has not begun wrote nothing.
BegunInOrder ==
    \A f \in Event :
        /\ writer[f] = "idle" => outbox[f] = "absent"
        /\ writer[f] # "idle" => \A e \in Event : e < f => writer[e] # "idle"

\* Rows that were committed when another's transaction began are earlier than its row.
BeforeIsEarlier ==
    \A f \in Event, e \in Event : e \in before[f] => e < f /\ outbox[e] # "absent"

Ready(e, f) == Stored(e) \/ <<e, f>> \in overtaken

\* What waits for a row on its way to the stream is stored, was overtaken, or is sent
\* first from the same batch.
SentInOrder ==
    \A f \in Event, e \in Event : e \in before[f] =>
        /\ inflight[f] > 0 => Ready(e, f)
        /\ \A w \in Worker : f \in relay[w].batch => Ready(e, f) \/ e \in relay[w].batch

PipeInv ==
    /\ RelayInv /\ PipeTypeOK /\ BegunInOrder /\ BeforeIsEarlier
    /\ SentInOrder /\ StreamedInOrder
=============================================================================
