----------------------------- MODULE FlowProofs -----------------------------
(***************************************************************************)
(* Proofs about what is delivered and what is let through: events by Relay *)
(* and Pipeline, for any set of events and any number of replicas, faults, *)
(* transactions and batch sizes, and requests by RateLimiter, for any      *)
(* identities, burst, cost and ttl with RefillsInTime.  RelayInv is        *)
(* inductive, and so is PipeInv, whose first part it is: every step of the *)
(* composition is a step of Relay or leaves its variables alone.           *)
(***************************************************************************)
EXTENDS Pipeline, RateLimiter, TLAPS

\* The time the provers may take for a step.
USE SMTT(60)

-----------------------------------------------------------------------------
(* The relay.                                                              *)

\* What a replica does to its own state, seen by every replica.
LEMMA OneReplica ==
    ASSUME TypeOK, NEW w \in Worker, NEW x \in Replica, relay' = [relay EXCEPT ![w] = x]
    PROVE  /\ relay' \in [Worker -> Replica]
           /\ \A v \in Worker : relay'[v] = IF v = w THEN x ELSE relay[v]
  BY DEF TypeOK

\* A replica that holds no batch.
LEMMA NoBatch ==
    ASSUME NEW x \in {Waiting, Claiming}
    PROVE  x \in Replica /\ x.batch = {} /\ x.sent = {} /\ x.pc # "marking" /\ x.session = FALSE
  <1>1. CASE x = Waiting
    BY <1>1 DEF Waiting, Replica
  <1>2. CASE x = Claiming
    BY <1>2 DEF Claiming, Replica
  <1> QED BY <1>1, <1>2, ZenonT(60)

\* A replica that gives up or starts over leaves the invariant alone.
LEMMA ResetKeepsInv ==
    ASSUME RelayInv, NEW w \in Worker, NEW x \in {Waiting, Claiming},
           relay' = [relay EXCEPT ![w] = x], faults' \in Nat,
           UNCHANGED <<outbox, copies, window, expiries, inflight>>
    PROVE  RelayInv'
  <1>1. x \in Replica /\ x.batch = {} /\ x.sent = {} /\ x.pc # "marking" /\ x.session = FALSE
    BY NoBatch, ZenonT(60)
  <1>2. \A v \in Worker : relay'[v] = IF v = w THEN x ELSE relay[v]
    BY <1>1, OneReplica, ZenonT(60) DEF RelayInv
  <1>3. TypeOK'
    BY <1>1, OneReplica DEF RelayInv, TypeOK
  <1>4. SentIsStored'
    BY <1>1, <1>2 DEF RelayInv, SentIsStored
  <1>5. ExclusiveClaims'
    BY <1>1, <1>2 DEF RelayInv, ExclusiveClaims
  <1> QED BY <1>3, <1>4, <1>5 DEF RelayInv, StoredIsCommitted, WindowCounts, PublishedIsStored

\* The stream's duplicate rule keeps the count of messages and loses none.
LEMMA DeliverEffect ==
    ASSUME TypeOK, WindowCounts, NEW e \in Event, Deliver(e), UNCHANGED expiries
    PROVE  /\ copies' \in [Event -> Nat] /\ window' \in SUBSET Event
           /\ \A f \in Event : copies[f] > 0 => copies'[f] > 0
           /\ copies'[e] > 0
           /\ \A f \in Event \ {e} : copies'[f] = copies[f]
           /\ WindowCounts'
  <1>1. \A f \in Event : copies[f] \in Nat /\ expiries[f] \in Nat
    BY DEF TypeOK
  <1>2. copies'[e] = IF e \in window THEN copies[e] ELSE copies[e] + 1
    BY DEF TypeOK, Deliver
  <1>3. \A f \in Event \ {e} : copies'[f] = copies[f] /\ (f \in window' <=> f \in window)
    BY DEF TypeOK, Deliver
  <1>4. e \in window' /\ window' \in SUBSET Event /\ copies' \in [Event -> Nat]
    BY <1>1 DEF TypeOK, Deliver
  <1>5. copies'[e] > 0 /\ copies'[e] <= 1 + expiries[e]
    BY <1>1, <1>2 DEF WindowCounts
  <1>6. WindowCounts'
    BY <1>3, <1>4, <1>5 DEF WindowCounts
  <1> QED BY <1>3, <1>4, <1>5, <1>6

\* RelayInv holds at first and every step keeps it.
THEOREM RelayInductive ==
    /\ Init => RelayInv
    /\ RelayInv /\ [Next]_vars => RelayInv'
  <1>1. Init => RelayInv
    BY DEF Init, RelayInv, TypeOK, SentIsStored, StoredIsCommitted, WindowCounts, PublishedIsStored,
       ExclusiveClaims, Waiting, Replica
  <1>2. ASSUME RelayInv, [Next]_vars PROVE RelayInv'
    <2> USE <1>2
    <2>0. TypeOK
      BY DEF RelayInv
    <2>1. ASSUME NEW e \in Event, CommitEvent(e) PROVE RelayInv'
      <3>1. TypeOK'
        BY <2>1 DEF RelayInv, TypeOK, CommitEvent
      <3>2. \A f \in Event : outbox'[f] = IF f = e THEN "pending" ELSE outbox[f]
        BY <2>0, <2>1 DEF TypeOK, CommitEvent
      <3>3. SentIsStored' /\ ExclusiveClaims'
        BY <2>0, <2>1, <3>2 DEF RelayInv, SentIsStored, ExclusiveClaims, CommitEvent, TypeOK, Replica
      <3>4. StoredIsCommitted' /\ WindowCounts' /\ PublishedIsStored'
        BY <2>1, <3>2 DEF RelayInv, StoredIsCommitted, WindowCounts, PublishedIsStored, CommitEvent
      <3> QED BY <3>1, <3>3, <3>4 DEF RelayInv
    <2>2. ASSUME NEW e \in Event, LateArrival(e) PROVE RelayInv'
      <3>1. /\ copies' \in [Event -> Nat] /\ window' \in SUBSET Event
            /\ \A f \in Event : copies[f] > 0 => copies'[f] > 0
            /\ copies'[e] > 0
            /\ \A f \in Event \ {e} : copies'[f] = copies[f]
            /\ WindowCounts'
        BY <2>2, DeliverEffect DEF LateArrival, RelayInv
      <3>2. inflight' \in [Event -> Nat] /\ \A f \in Event : inflight'[f] > 0 => inflight[f] > 0
        BY <2>0, <2>2 DEF TypeOK, LateArrival
      <3>3. TypeOK'
        BY <2>0, <2>2, <3>1, <3>2 DEF TypeOK, LateArrival
      <3>4. SentIsStored' /\ ExclusiveClaims'
        BY <2>0, <2>2, <3>1 DEF RelayInv, SentIsStored, ExclusiveClaims, LateArrival, TypeOK, Replica
      <3>5. StoredIsCommitted' /\ PublishedIsStored'
        BY <2>2, <3>1, <3>2 DEF RelayInv, StoredIsCommitted, PublishedIsStored, LateArrival
      <3> QED BY <3>1, <3>3, <3>4, <3>5 DEF RelayInv
    <2>3. ASSUME NEW e \in Event, Expire(e) PROVE RelayInv'
      <3>1. TypeOK'
        BY <2>3 DEF RelayInv, TypeOK, Expire
      <3>2. WindowCounts'
        <4>1. \A f \in Event : copies[f] \in Nat /\ expiries[f] \in Nat
          BY <2>0 DEF TypeOK
        <4>2. /\ \A f \in Event : expiries'[f] = IF f = e THEN expiries[f] + 1 ELSE expiries[f]
              /\ \A f \in Event : f \in window' <=> f \in window /\ f # e
              /\ copies' = copies /\ e \in window
          BY <2>0, <2>3 DEF TypeOK, Expire
        <4> QED BY <4>1, <4>2 DEF RelayInv, WindowCounts
      <3> QED BY <2>3, <3>1, <3>2 DEF RelayInv, SentIsStored, StoredIsCommitted, PublishedIsStored,
                 ExclusiveClaims, Expire
    <2>4. ASSUME NEW w \in Worker, DrainOnce(w) PROVE RelayInv'
      BY <2>0, <2>4, ResetKeepsInv, ZenonT(60) DEF DrainOnce, TypeOK
    <2>5. ASSUME NEW w \in Worker, ClaimBatch(w) PROVE RelayInv'
      <3>1. PICK S \in SUBSET Event :
              /\ FirstRows(S)
              /\ relay' = [relay EXCEPT ![w] =
                   IF S = {} THEN Waiting
                   ELSE [pc |-> "publishing", batch |-> S, sent |-> {}, session |-> TRUE]]
        BY <2>5, ZenonT(60) DEF ClaimBatch
      <3> DEFINE x == [pc |-> "publishing", batch |-> S, sent |-> {}, session |-> TRUE]
      <3>2. UNCHANGED <<outbox, copies, window, expiries, inflight, faults>>
        BY <2>5 DEF ClaimBatch
      <3>3. CASE S = {}
        BY <2>0, <3>1, <3>2, <3>3, ResetKeepsInv, ZenonT(60) DEF TypeOK
      <3>4. CASE S # {}
        <4>1. x \in Replica /\ x.pc = "publishing" /\ x.batch = S /\ x.sent = {} /\ x.session
          BY DEF Replica
        <4>2. relay' = [relay EXCEPT ![w] = x]
          BY <3>1, <3>4, ZenonT(60)
        <4> HIDE DEF x
        <4>3. \A v \in Worker : relay'[v] = IF v = w THEN x ELSE relay[v]
          BY <2>0, <4>1, <4>2, OneReplica, ZenonT(60)
        <4>4. TypeOK'
          BY <2>0, <3>2, <4>1, <4>2, OneReplica DEF TypeOK
        <4>5. \A e \in S : outbox[e] = "pending" /\ ~Locked(e)
          BY <3>1 DEF FirstRows, Claimable
        <4>6. SentIsStored'
          BY <3>2, <4>1, <4>3, <4>5 DEF RelayInv, SentIsStored
        <4>7. ExclusiveClaims'
          BY <4>1, <4>3, <4>5 DEF RelayInv, ExclusiveClaims, Locked
        <4> QED BY <3>2, <4>4, <4>6, <4>7 DEF RelayInv, StoredIsCommitted, WindowCounts, PublishedIsStored
      <3> QED BY <3>3, <3>4
    <2>6. ASSUME NEW w \in Worker, Publish(w) PROVE RelayInv'
      <3>1. PICK e \in Event :
              /\ IsNext(w, e)
              /\ Deliver(e)
              /\ relay' = [relay EXCEPT ![w] =
                   [pc      |-> IF relay[w].batch = relay[w].sent \cup {e} THEN "marking" ELSE "publishing",
                    batch   |-> relay[w].batch,
                    sent    |-> relay[w].sent \cup {e},
                    session |-> relay[w].session]]
        BY <2>6, ZenonT(60) DEF Publish
      <3> DEFINE x == [pc      |-> IF relay[w].batch = relay[w].sent \cup {e} THEN "marking" ELSE "publishing",
                       batch   |-> relay[w].batch,
                       sent    |-> relay[w].sent \cup {e},
                       session |-> relay[w].session]
      <3>2. UNCHANGED <<outbox, expiries, inflight, faults>>
        BY <2>6 DEF Publish
      <3>3. relay[w] \in Replica
        BY <2>0 DEF TypeOK
      <3>4. /\ x \in Replica /\ x.batch = relay[w].batch /\ x.sent = relay[w].sent \cup {e}
            /\ x.session = relay[w].session /\ (x.pc = "marking" => x.batch = x.sent)
        BY <3>3 DEF Replica
      <3>5. relay' = [relay EXCEPT ![w] = x] /\ e \in relay[w].batch
        BY <3>1 DEF IsNext
      <3> HIDE DEF x
      <3>6. \A v \in Worker : relay'[v] = IF v = w THEN x ELSE relay[v]
        BY <2>0, <3>4, <3>5, OneReplica, ZenonT(60)
      <3>7. /\ copies' \in [Event -> Nat] /\ window' \in SUBSET Event
            /\ \A f \in Event : copies[f] > 0 => copies'[f] > 0
            /\ copies'[e] > 0
            /\ \A f \in Event \ {e} : copies'[f] = copies[f]
            /\ WindowCounts'
        BY <3>1, <3>2, DeliverEffect DEF RelayInv
      <3>8. TypeOK'
        BY <2>0, <3>2, <3>4, <3>5, <3>7, OneReplica DEF TypeOK
      <3>9. \A v \in Worker : relay[v].batch \subseteq Event /\ relay[v].sent \subseteq Event
        BY <2>0 DEF TypeOK, Replica
      <3>10. SentIsStored'
        BY <3>2, <3>4, <3>6, <3>7, <3>9, ZenonT(60) DEF RelayInv, SentIsStored
      <3>11. ExclusiveClaims'
        BY <3>4, <3>6 DEF RelayInv, ExclusiveClaims
      <3>12. StoredIsCommitted' /\ PublishedIsStored'
        BY <3>2, <3>5, <3>7 DEF RelayInv, StoredIsCommitted, PublishedIsStored, SentIsStored
      <3> QED BY <3>7, <3>8, <3>10, <3>11, <3>12 DEF RelayInv
    <2>7. ASSUME NEW w \in Worker, PublishFails(w) PROVE RelayInv'
      <3>1. PICK e \in Event : IsNext(w, e) /\ inflight' = [inflight EXCEPT ![e] = @ + 1]
        BY <2>7, ZenonT(60) DEF PublishFails
      <3>2. inflight' \in [Event -> Nat] /\ \A f \in Event : inflight'[f] > 0 => inflight[f] > 0 \/ f = e
        BY <2>0, <3>1 DEF TypeOK
      <3>3. outbox[e] # "absent"
        BY <3>1 DEF IsNext, RelayInv, SentIsStored
      <3>4. /\ Waiting \in Replica /\ Waiting.batch = {} /\ Waiting.sent = {}
            /\ Waiting.pc = "waiting" /\ Waiting.session = FALSE
        BY DEF Waiting, Replica
      <3>5. \A v \in Worker : relay'[v] = IF v = w THEN Waiting ELSE relay[v]
        BY <2>0, <2>7, <3>4, OneReplica, ZenonT(60) DEF PublishFails
      <3>6. TypeOK'
        BY <2>0, <2>7, <3>2, <3>4, OneReplica DEF TypeOK, PublishFails, Fault
      <3>7. SentIsStored'
        BY <2>7, <3>4, <3>5 DEF RelayInv, SentIsStored, PublishFails
      <3>8. ExclusiveClaims'
        BY <3>4, <3>5 DEF RelayInv, ExclusiveClaims
      <3>9. StoredIsCommitted' /\ WindowCounts' /\ PublishedIsStored'
        BY <2>7, <3>2, <3>3 DEF RelayInv, StoredIsCommitted, WindowCounts, PublishedIsStored, PublishFails
      <3> QED BY <3>6, <3>7, <3>8, <3>9 DEF RelayInv
    <2>8. ASSUME NEW w \in Worker, MarkPublished(w) \/ MarkUnconfirmed(w) PROVE RelayInv'
      <3>1. PICK x \in {Waiting, Claiming} : relay' = [relay EXCEPT ![w] = x]
        BY <2>8 DEF MarkPublished, MarkUnconfirmed
      <3>2. x \in Replica /\ x.batch = {} /\ x.sent = {} /\ x.pc # "marking" /\ x.session = FALSE
        BY NoBatch, ZenonT(60)
      <3>3. \A v \in Worker : relay'[v] = IF v = w THEN x ELSE relay[v]
        BY <2>0, <3>1, <3>2, OneReplica, ZenonT(60)
      <3>4. /\ outbox' = Published(w) /\ UNCHANGED <<copies, window, expiries, inflight>>
            /\ relay[w].pc = "marking" /\ faults' \in Nat
        BY <2>0, <2>8 DEF MarkPublished, MarkUnconfirmed, Fault, TypeOK
      <3>5. \A e \in Event : outbox'[e] = IF e \in relay[w].batch THEN "published" ELSE outbox[e]
        BY <3>4 DEF Published
      <3>6. \A e \in relay[w].batch : copies[e] > 0
        BY <3>4 DEF RelayInv, SentIsStored
      <3>7. TypeOK'
        BY <2>0, <3>1, <3>2, <3>4, OneReplica DEF TypeOK, Published
      <3>8. \A v \in Worker : relay[v].batch \subseteq Event
        BY <2>0 DEF TypeOK, Replica
      <3>9. SentIsStored'
        BY <3>2, <3>3, <3>4, <3>5, <3>8 DEF RelayInv, SentIsStored
      <3>10. ExclusiveClaims'
        BY <3>2, <3>3 DEF RelayInv, ExclusiveClaims
      <3>11. StoredIsCommitted' /\ WindowCounts' /\ PublishedIsStored'
        BY <3>4, <3>5, <3>6 DEF RelayInv, StoredIsCommitted, WindowCounts, PublishedIsStored
      <3> QED BY <3>7, <3>9, <3>10, <3>11 DEF RelayInv
    <2>9. ASSUME NEW w \in Worker, MarkFails(w) \/ Crash(w) PROVE RelayInv'
      <3>1. relay' = [relay EXCEPT ![w] = Waiting] /\ UNCHANGED <<outbox, copies, window, expiries, inflight>>
        BY <2>9 DEF MarkFails, Crash
      <3>2. faults' \in Nat
        BY <2>0, <2>9 DEF MarkFails, Crash, Fault, TypeOK
      <3> QED BY <3>1, <3>2, ResetKeepsInv, ZenonT(60)
    <2>10. ASSUME NEW w \in Worker, LoseSession(w) PROVE RelayInv'
      <3> DEFINE x == [relay[w] EXCEPT !.session = FALSE]
      <3>1. relay' = [relay EXCEPT ![w] = x] /\ UNCHANGED <<outbox, copies, window, expiries, inflight>>
        BY <2>10 DEF LoseSession
      <3>2. relay[w] \in Replica
        BY <2>0 DEF TypeOK
      <3>3. /\ x \in Replica /\ x.batch = relay[w].batch /\ x.sent = relay[w].sent
            /\ x.pc = relay[w].pc /\ x.session = FALSE
        BY <3>2, ZenonT(60) DEF Replica
      <3> HIDE DEF x
      <3>4. \A v \in Worker : relay'[v] = IF v = w THEN x ELSE relay[v]
        BY <2>0, <3>1, <3>3, OneReplica, ZenonT(60)
      <3>5. TypeOK'
        <4>1. faults' \in Nat
          BY <2>0, <2>10 DEF TypeOK, LoseSession, Fault
        <4>2. relay' \in [Worker -> Replica]
          BY <2>0, <3>1, <3>3, OneReplica, ZenonT(60)
        <4> QED BY <2>0, <3>1, <4>1, <4>2 DEF TypeOK
      <3>6. SentIsStored'
        BY <3>1, <3>3, <3>4 DEF RelayInv, SentIsStored
      <3>7. ExclusiveClaims'
        BY <3>3, <3>4 DEF RelayInv, ExclusiveClaims
      <3> QED BY <3>1, <3>5, <3>6, <3>7 DEF RelayInv, StoredIsCommitted, WindowCounts, PublishedIsStored
    <2>11. CASE UNCHANGED vars
      BY <2>11 DEF vars, RelayInv, TypeOK, SentIsStored, StoredIsCommitted, WindowCounts,
         PublishedIsStored, ExclusiveClaims
    <2> QED BY <2>1, <2>2, <2>3, <2>4, <2>5, <2>6, <2>7, <2>8, <2>9, <2>10, <2>11 DEF Next, Step
  <1> QED BY <1>1, <1>2

\* For any number of events, replicas and faults: nothing is marked that the stream
\* does not hold, no row is held twice, and duplicates only come from expired ids.
THEOREM RelaySafety ==
    Spec => [](TypeOK /\ PublishedIsStored /\ ExclusiveClaims /\ OncePerWindow)
  <1>1. RelayInv => TypeOK /\ PublishedIsStored /\ ExclusiveClaims /\ OncePerWindow
    <2> SUFFICES ASSUME RelayInv, NEW e \in Event PROVE copies[e] <= 1 + expiries[e]
      BY DEF RelayInv, OncePerWindow
    <2>1. copies[e] \in Nat /\ expiries[e] \in Nat
      BY DEF RelayInv, TypeOK
    <2> QED BY <2>1 DEF RelayInv, WindowCounts
  <1> QED BY <1>1, RelayInductive, PTL DEF Spec

\* The relay's replicas, with their crashes and late messages, implement the
\* delivery contract of EventDelivery.
THEOREM ImplementsDelivery == Spec => DeliversEvents
  <1> DEFINE stored == {e \in Event : copies[e] > 0}
  <1>1. Init => Delivery!Init
    BY DEF Init, Delivery!Init
  <1>2. RelayInv /\ [Next]_vars => [Delivery!Next]_(Delivery!vars)
    <2> SUFFICES ASSUME RelayInv, [Next]_vars PROVE [Delivery!Next]_(Delivery!vars)
      OBVIOUS
    <2> USE DEF Delivery!vars
    <2>0. TypeOK /\ WindowCounts
      BY DEF RelayInv
    <2>1. ASSUME NEW e \in Event, CommitEvent(e) PROVE Delivery!Next
      BY <2>1, ZenonT(60) DEF CommitEvent, Delivery!Next, Delivery!CommitEvent
    <2>2. ASSUME NEW e \in Event, Deliver(e), UNCHANGED <<outbox, expiries>>, outbox[e] # "absent"
          PROVE  Delivery!Next
      <3>1. stored' = stored \cup {e}
        BY <2>0, <2>2, DeliverEffect
      <3> QED BY <2>2, <3>1 DEF Delivery!Next, Delivery!Store
    <2>3. ASSUME NEW e \in Event, LateArrival(e) PROVE Delivery!Next
      BY <2>2, <2>3 DEF LateArrival, RelayInv, StoredIsCommitted
    <2>4. ASSUME NEW w \in Worker, Publish(w) PROVE Delivery!Next
      BY <2>2, <2>4 DEF Publish, IsNext, RelayInv, SentIsStored
    <2>5. ASSUME NEW w \in Worker, MarkPublished(w) \/ MarkUnconfirmed(w) PROVE Delivery!Next
      <3> DEFINE S == relay[w].batch
      <3>1. S \in SUBSET Event
        BY <2>0 DEF TypeOK, Replica
      <3>2. outbox' = Published(w) /\ copies' = copies /\ relay[w].pc = "marking"
        BY <2>5 DEF MarkPublished, MarkUnconfirmed
      <3>3. S \subseteq stored /\ \A e \in S : outbox[e] # "absent"
        BY <3>1, <3>2 DEF RelayInv, SentIsStored
      <3>4. Delivery!MarkPublished(S)
        BY <3>2, <3>3 DEF Delivery!MarkPublished, Published
      <3> QED BY <3>1, <3>4 DEF Delivery!Next
    <2>6. ASSUME UNCHANGED <<outbox, copies>> PROVE UNCHANGED Delivery!vars
      BY <2>6
    <2>7. CASE \E e \in Event : Expire(e)
      BY <2>6, <2>7 DEF Expire
    <2>8. CASE \E w \in Worker : \/ DrainOnce(w) \/ ClaimBatch(w) \/ MarkFails(w)
                                 \/ PublishFails(w) \/ LoseSession(w) \/ Crash(w)
      BY <2>6, <2>8 DEF DrainOnce, ClaimBatch, MarkFails, PublishFails, LoseSession, Crash
    <2>9. CASE UNCHANGED vars
      BY <2>6, <2>9 DEF vars
    <2> QED BY <2>1, <2>3, <2>4, <2>5, <2>7, <2>8, <2>9 DEF Next, Step
  <1> QED BY <1>1, <1>2, RelayInductive, PTL DEF Spec, DeliversEvents, Delivery!Spec

-----------------------------------------------------------------------------
(* The relay and the transactions that write its rows.                     *)

\* Every step of the composition is a step of the relay, or none.
LEMMA PipeStepsRelay == [PipeNext]_pipeVars => [Next]_vars
  <1>1. ASSUME NEW e \in Event, Begin(e) \/ Rollback(e) PROVE UNCHANGED vars
    BY <1>1 DEF Begin, Rollback
  <1>2. ASSUME NEW e \in Event, Commit(e) PROVE Next
    BY <1>2 DEF Commit, Next
  <1>3. ASSUME NEW e \in Event, Stream(e) PROVE Next
    BY <1>3 DEF Stream, Next
  <1>4. ASSUME NEW w \in Worker, Claim(w) PROVE Next
    BY <1>4 DEF Claim, Next, Step
  <1>5. ASSUME NEW w \in Worker, Deliveries(w) PROVE Next
    BY <1>5 DEF Deliveries, Next, Step
  <1>6. ASSUME NEW w \in Worker, Faults(w) PROVE Next
    BY <1>6 DEF Faults, Next
  <1>7. UNCHANGED pipeVars => UNCHANGED vars
    BY DEF pipeVars
  <1> QED BY <1>1, <1>2, <1>3, <1>4, <1>5, <1>6, <1>7 DEF PipeNext

\* What a step may do to rows on their way without disturbing the order.
LEMMA OrderKept ==
    ASSUME PipeInv, before' = before, overtaken \subseteq overtaken',
           \A f \in Event : copies[f] > 0 => copies'[f] > 0,
           \A f \in Event : outbox[f] # "absent" => outbox'[f] # "absent",
           \A f \in Event, e \in Event : e \in before[f] =>
              /\ copies'[f] > 0 => copies[f] > 0 \/ Ready(e, f)
              /\ inflight'[f] > 0 => inflight[f] > 0 \/ Ready(e, f)
              /\ \A v \in Worker : f \in relay'[v].batch =>
                    \/ relay'[v].batch = relay[v].batch
                    \/ Ready(e, f) \/ <<e, f>> \in overtaken' \/ e \in relay'[v].batch
    PROVE  BeforeIsEarlier' /\ SentInOrder' /\ StreamedInOrder'
  <1>1. \A f \in Event, e \in Event : Ready(e, f) => Ready(e, f)'
    BY ZenonT(60) DEF Ready, Stored
  <1>2. BeforeIsEarlier'
    BY DEF PipeInv, BeforeIsEarlier
  <1>3. SentInOrder'
    <2> SUFFICES ASSUME NEW f \in Event, NEW e \in Event, e \in before[f]
                 PROVE  /\ inflight'[f] > 0 => Ready(e, f)'
                        /\ \A w \in Worker : f \in relay'[w].batch => Ready(e, f)' \/ e \in relay'[w].batch
      BY ZenonT(60) DEF SentInOrder
    <2>1. inflight'[f] > 0 => Ready(e, f)
      BY ZenonT(60) DEF PipeInv, SentInOrder
    <2>2. ASSUME NEW w \in Worker, f \in relay'[w].batch
          PROVE  Ready(e, f)' \/ e \in relay'[w].batch
      <3>1. CASE relay'[w].batch = relay[w].batch
        BY <1>1, <2>2, <3>1, ZenonT(60) DEF PipeInv, SentInOrder
      <3>2. CASE <<e, f>> \in overtaken'
        BY <3>2, ZenonT(60) DEF Ready
      <3> QED BY <1>1, <2>2, <3>1, <3>2, ZenonT(60)
    <2> QED BY <1>1, <2>1, <2>2, ZenonT(60)
  <1>4. StreamedInOrder'
    <2> SUFFICES ASSUME NEW f \in Event, copies'[f] > 0, NEW e \in before'[f]
                 PROVE  Ready(e, f)'
      BY ZenonT(60) DEF StreamedInOrder, Ready, Stored
    <2>1. e \in Event /\ e \in before[f]
      BY DEF PipeInv, PipeTypeOK
    <2>2. Ready(e, f)
      BY <2>1, ZenonT(60) DEF PipeInv, StreamedInOrder, Ready, Stored
    <2> QED BY <1>1, <2>1, <2>2, ZenonT(60)
  <1> QED BY <1>2, <1>3, <1>4

\* A replica that gives up its batch, loses its session or ends a batch disturbs no order.
LEMMA ReplicaKeepsOrder ==
    ASSUME PipeInv, NEW w \in Worker, NEW x \in Replica, relay' = [relay EXCEPT ![w] = x],
           x.batch \in {{}, relay[w].batch}, UNCHANGED <<copies, inflight, before, overtaken>>,
           \A f \in Event : outbox[f] # "absent" => outbox'[f] # "absent"
    PROVE  BeforeIsEarlier' /\ SentInOrder' /\ StreamedInOrder'
  <1>1. \A v \in Worker : relay'[v] = IF v = w THEN x ELSE relay[v]
    BY OneReplica, ZenonT(60) DEF PipeInv, RelayInv
  <1>2. \A v \in Worker : relay'[v].batch \in {{}, relay[v].batch}
    BY <1>1
  <1>3. \A f \in Event, v \in Worker : f \in relay'[v].batch => relay'[v].batch = relay[v].batch
    BY <1>2
  <1> QED BY <1>3, OrderKept

\* A message that reaches the stream, or leaves the caller, after what it waits for.
LEMMA SendKeepsOrder ==
    ASSUME PipeInv, NEW g \in Event, \A e \in Event : e \in before[g] => Ready(e, g),
           \A v \in Worker : relay'[v].batch \in {{}, relay[v].batch},
           \A f \in Event : copies[f] > 0 => copies'[f] > 0,
           \A f \in Event \ {g} : copies'[f] = copies[f],
           \A f \in Event : inflight'[f] > 0 => inflight[f] > 0 \/ f = g,
           UNCHANGED <<outbox, before, overtaken>>
    PROVE  BeforeIsEarlier' /\ SentInOrder' /\ StreamedInOrder'
  <1>1. \A f \in Event, v \in Worker : f \in relay'[v].batch => relay'[v].batch = relay[v].batch
    OBVIOUS
  <1>2. \A f \in Event, e \in Event : e \in before[f] =>
          /\ copies'[f] > 0 => copies[f] > 0 \/ Ready(e, f)
          /\ inflight'[f] > 0 => inflight[f] > 0 \/ Ready(e, f)
    BY ZenonT(60)
  <1> QED BY <1>1, <1>2, OrderKept

\* The row a replica is at waits for nothing: earlier rows of its batch are sent, the
\* others stored or overtaken.
LEMMA NextIsReady ==
    ASSUME PipeInv, NEW w \in Worker, NEW g \in Event, IsNext(w, g)
    PROVE  \A e \in Event : e \in before[g] => Ready(e, g)
  <1> SUFFICES ASSUME NEW e \in Event, e \in before[g] PROVE Ready(e, g)
    OBVIOUS
  <1>1. Ready(e, g) \/ e \in relay[w].batch
    BY DEF PipeInv, SentInOrder, IsNext
  <1>2. CASE e \in relay[w].batch
    <2>1. e < g /\ e \in Int /\ g \in Int
      BY RelayAssumption DEF PipeInv, BeforeIsEarlier
    <2>2. e \in relay[w].sent
      BY <1>2, <2>1 DEF IsNext
    <2> QED BY <2>2 DEF PipeInv, RelayInv, SentIsStored, Ready, Stored
  <1> QED BY <1>1, <1>2

\* PipeInv holds at first and every step keeps it.
THEOREM PipeInductive ==
    /\ PipeInit => PipeInv
    /\ PipeInv /\ [PipeNext]_pipeVars => PipeInv'
  <1>1. PipeInit => PipeInv
    <2> SUFFICES ASSUME PipeInit PROVE PipeInv
      OBVIOUS
    <2>1. RelayInv
      BY RelayInductive DEF PipeInit
    <2>2. \A e \in Event : before[e] = {} /\ writer[e] = "idle" /\ outbox[e] = "absent"
      BY DEF PipeInit, Init
    <2>3. PipeTypeOK
      BY DEF PipeInit, PipeTypeOK
    <2> QED BY <2>1, <2>2, <2>3 DEF PipeInv, BegunInOrder, BeforeIsEarlier, SentInOrder, StreamedInOrder
  <1>2. ASSUME PipeInv, [PipeNext]_pipeVars PROVE PipeInv'
    <2> USE <1>2
    <2>0. RelayInv /\ TypeOK /\ PipeTypeOK /\ RelayInv'
      BY PipeStepsRelay, RelayInductive DEF PipeInv, RelayInv
    <2>1. ASSUME NEW g \in Event, Begin(g) PROVE PipeInv'
      <3>1. /\ writer[g] = "idle" /\ \A f \in Event : f < g => writer[f] # "idle"
            /\ writer' = [writer EXCEPT ![g] = "open"]
            /\ before' = [before EXCEPT ![g] = {f \in Event : outbox[f] # "absent"}]
            /\ UNCHANGED <<outbox, copies, window, expiries, inflight, relay, faults, overtaken>>
        BY <2>1 DEF Begin, vars
      <3>2. PipeTypeOK'
        BY <2>0, <3>1 DEF PipeTypeOK
      <3>3. BegunInOrder'
        BY <2>0, <3>1 DEF PipeInv, BegunInOrder, PipeTypeOK
      <3>4. outbox[g] = "absent" /\ \A f \in Event : outbox[f] # "absent" => f < g
        <4>1. \A f \in Event : writer[f] # "idle" => ~(g < f) /\ f # g
          BY <3>1 DEF PipeInv, BegunInOrder
        <4>2. \A f \in Event : f \in Int /\ g \in Int
          BY RelayAssumption
        <4> QED BY <3>1, <4>1, <4>2 DEF PipeInv, BegunInOrder
      <3>5. \A f \in Event : before'[f] = IF f = g THEN {e \in Event : outbox[e] # "absent"} ELSE before[f]
        BY <2>0, <3>1 DEF PipeTypeOK
      <3>6. BeforeIsEarlier'
        BY <3>1, <3>4, <3>5 DEF PipeInv, BeforeIsEarlier
      <3>7. ~(inflight[g] > 0) /\ ~(copies[g] > 0) /\ \A w \in Worker : g \notin relay[w].batch
        BY <2>0, <3>4 DEF RelayInv, StoredIsCommitted, SentIsStored
      <3>8. SentInOrder'
        BY <3>1, <3>5, <3>7, ZenonT(60) DEF PipeInv, SentInOrder, Ready, Stored
      <3>9. StreamedInOrder'
        BY <3>1, <3>5, <3>7 DEF PipeInv, StreamedInOrder, Stored
      <3> QED BY <2>0, <3>2, <3>3, <3>6, <3>8, <3>9 DEF PipeInv
    <2>2. ASSUME NEW g \in Event, Commit(g) PROVE PipeInv'
      <3>1. /\ writer[g] = "open" /\ writer' = [writer EXCEPT ![g] = "committed"]
            /\ outbox' = [outbox EXCEPT ![g] = "pending"]
            /\ UNCHANGED <<copies, inflight, relay, before, overtaken>>
        BY <2>2 DEF Commit, CommitEvent
      <3>2. PipeTypeOK'
        BY <2>0, <3>1 DEF PipeTypeOK
      <3>3. BegunInOrder'
        BY <2>0, <3>1 DEF PipeInv, BegunInOrder, PipeTypeOK, TypeOK
      <3>4. \A f \in Event : outbox[f] # "absent" => outbox'[f] # "absent"
        BY <2>0, <3>1 DEF TypeOK
      <3>5. BeforeIsEarlier' /\ SentInOrder' /\ StreamedInOrder'
        BY <3>1, <3>4, OrderKept, ZenonT(60)
      <3> QED BY <2>0, <3>2, <3>3, <3>5 DEF PipeInv
    <2>3. ASSUME NEW g \in Event, Rollback(g) PROVE PipeInv'
      <3>1. /\ writer[g] = "open" /\ writer' = [writer EXCEPT ![g] = "gone"]
            /\ UNCHANGED <<outbox, copies, inflight, relay, before, overtaken>>
        BY <2>3 DEF Rollback, vars
      <3>2. PipeTypeOK'
        BY <2>0, <3>1 DEF PipeTypeOK
      <3>3. BegunInOrder'
        BY <2>0, <3>1 DEF PipeInv, BegunInOrder, PipeTypeOK
      <3>4. BeforeIsEarlier' /\ SentInOrder' /\ StreamedInOrder'
        BY <3>1, OrderKept
      <3> QED BY <2>0, <3>2, <3>3, <3>4 DEF PipeInv
    <2>4. ASSUME UNCHANGED <<writer, before>>, overtaken' \in SUBSET (Event \X Event),
                 \A f \in Event : outbox'[f] = "absent" <=> outbox[f] = "absent"
          PROVE  PipeTypeOK' /\ BegunInOrder'
      BY <2>0, <2>4 DEF PipeInv, PipeTypeOK, BegunInOrder
    <2>5. ASSUME NEW g \in Event, Stream(g) PROVE PipeInv'
      <3>1. UNCHANGED <<writer, before, overtaken, outbox, relay>>
        BY <2>5 DEF Stream, LateArrival, Expire
      <3>2. PipeTypeOK' /\ BegunInOrder'
        BY <2>0, <2>4, <3>1 DEF PipeTypeOK
      <3>3. CASE LateArrival(g)
        <4>1. /\ \A f \in Event : copies[f] > 0 => copies'[f] > 0
              /\ \A f \in Event \ {g} : copies'[f] = copies[f]
          BY <2>0, <3>3, DeliverEffect DEF LateArrival, RelayInv
        <4>2. \A f \in Event : inflight'[f] > 0 => inflight[f] > 0
          BY <2>0, <3>3 DEF LateArrival, TypeOK
        <4>3. \A e \in Event : e \in before[g] => Ready(e, g)
          BY <3>3, ZenonT(60) DEF LateArrival, PipeInv, SentInOrder
        <4>4. BeforeIsEarlier' /\ SentInOrder' /\ StreamedInOrder'
          BY <3>1, <4>1, <4>2, <4>3, SendKeepsOrder, ZenonT(60)
        <4> QED BY <2>0, <3>2, <4>4 DEF PipeInv
      <3>4. CASE Expire(g)
        <4>1. UNCHANGED <<copies, inflight>>
          BY <3>4 DEF Expire
        <4>2. BeforeIsEarlier' /\ SentInOrder' /\ StreamedInOrder'
          BY <3>1, <4>1, OrderKept, ZenonT(60)
        <4> QED BY <2>0, <3>2, <4>2 DEF PipeInv
      <3> QED BY <2>5, <3>3, <3>4 DEF Stream
    <2>6. ASSUME NEW w \in Worker, Claim(w) PROVE PipeInv'
      <3>1. PICK S \in SUBSET Event :
              /\ FirstRows(S)
              /\ relay' = [relay EXCEPT ![w] =
                   IF S = {} THEN Waiting
                   ELSE [pc |-> "publishing", batch |-> S, sent |-> {}, session |-> TRUE]]
        BY <2>6, ZenonT(60) DEF Claim, ClaimBatch
      <3> DEFINE x == IF S = {} THEN Waiting
                      ELSE [pc |-> "publishing", batch |-> S, sent |-> {}, session |-> TRUE]
      <3>2. UNCHANGED <<writer, before, outbox, copies, inflight>>
        BY <2>6 DEF Claim, ClaimBatch
      <3>3. x \in Replica /\ x.batch = S
        BY DEF Replica, Waiting
      <3>4. \A v \in Worker : relay'[v] = IF v = w THEN x ELSE relay[v]
        BY <2>0, <3>1, <3>3, OneReplica, ZenonT(60)
      <3> HIDE DEF x
      <3>5. \A v \in Worker : relay'[v].batch = IF v = w THEN S ELSE relay[v].batch
        BY <3>3, <3>4
      <3>6. overtaken' = overtaken \cup
              {p \in Event \X Event : /\ outbox[p[1]] = "pending" /\ Locked(p[1])
                                      /\ p[2] \in relay'[w].batch /\ p[1] < p[2]}
        BY <2>6 DEF Claim
      <3>7. PipeTypeOK' /\ BegunInOrder'
        BY <2>0, <2>4, <3>2, <3>6 DEF PipeTypeOK
      <3>8. ASSUME NEW f \in S, NEW e \in Event, e \in before[f]
            PROVE  Ready(e, f) \/ <<e, f>> \in overtaken' \/ e \in S
        <4>1. e < f /\ outbox[e] # "absent" /\ f \in Event /\ e \in Int /\ f \in Int
          BY <3>8, RelayAssumption DEF PipeInv, BeforeIsEarlier
        <4>2. outbox[e] \in {"pending", "published"}
          BY <2>0, <4>1 DEF TypeOK
        <4>3. CASE outbox[e] = "published"
          BY <2>0, <4>3 DEF RelayInv, PublishedIsStored, Ready, Stored
        <4>4. CASE outbox[e] = "pending" /\ Locked(e)
          BY <3>5, <3>6, <4>1, <4>4
        <4>5. CASE outbox[e] = "pending" /\ ~Locked(e)
          <5>1. e \in Claimable
            BY <4>5 DEF Claimable
          <5>2. e \notin S => f < e
            BY <3>1, <5>1 DEF FirstRows
          <5> QED BY <4>1, <5>2
        <4> QED BY <4>2, <4>3, <4>4, <4>5
      <3>9. BeforeIsEarlier' /\ SentInOrder' /\ StreamedInOrder'
        <4>1. overtaken \subseteq overtaken'
          BY <3>6
        <4>2. \A f \in Event, e \in Event, v \in Worker : e \in before[f] /\ f \in relay'[v].batch =>
                \/ relay'[v].batch = relay[v].batch
                \/ Ready(e, f) \/ <<e, f>> \in overtaken' \/ e \in relay'[v].batch
          BY <3>5, <3>8, ZenonT(60)
        <4> QED BY <3>2, <4>1, <4>2, OrderKept
      <3> QED BY <2>0, <3>7, <3>9 DEF PipeInv
    <2>7. ASSUME NEW w \in Worker, NEW x \in Replica, relay' = [relay EXCEPT ![w] = x],
                 x.batch \in {{}, relay[w].batch},
                 UNCHANGED <<copies, inflight, writer, before, overtaken>>,
                 outbox' = outbox \/ (outbox' = Published(w) /\ \A e \in relay[w].batch : outbox[e] # "absent")
          PROVE  PipeInv'
      <3>1. \A f \in Event : outbox'[f] = "absent" <=> outbox[f] = "absent"
        BY <2>7 DEF Published
      <3>2. PipeTypeOK' /\ BegunInOrder'
        BY <2>0, <2>4, <2>7, <3>1 DEF PipeTypeOK
      <3>3. BeforeIsEarlier' /\ SentInOrder' /\ StreamedInOrder'
        BY <2>7, <3>1, ReplicaKeepsOrder, ZenonT(60)
      <3> QED BY <2>0, <3>2, <3>3 DEF PipeInv
    <2>8. ASSUME NEW w \in Worker, UNCHANGED <<writer, before, overtaken>>,
                 DrainOnce(w) \/ MarkPublished(w) \/ MarkFails(w) \/ MarkUnconfirmed(w) \/ Crash(w)
          PROVE  PipeInv'
      <3>1. PICK x \in {Waiting, Claiming} : relay' = [relay EXCEPT ![w] = x]
        BY <2>8 DEF DrainOnce, MarkPublished, MarkFails, MarkUnconfirmed, Crash
      <3>2. x \in Replica /\ x.batch = {}
        BY NoBatch, ZenonT(60)
      <3>3. UNCHANGED <<copies, inflight>> /\ (outbox' = outbox \/ outbox' = Published(w))
        BY <2>8 DEF DrainOnce, MarkPublished, MarkFails, MarkUnconfirmed, Crash
      <3>4. \A e \in relay[w].batch : outbox[e] # "absent"
        BY <2>0, ZenonT(60) DEF RelayInv, SentIsStored
      <3> QED BY <2>7, <2>8, <3>1, <3>2, <3>3, <3>4, ZenonT(60)
    <2>9. ASSUME NEW w \in Worker, UNCHANGED <<writer, before, overtaken>>, LoseSession(w)
          PROVE  PipeInv'
      <3> DEFINE x == [relay[w] EXCEPT !.session = FALSE]
      <3>1. relay' = [relay EXCEPT ![w] = x] /\ UNCHANGED <<outbox, copies, inflight>>
        BY <2>9 DEF LoseSession
      <3>2. relay[w] \in Replica
        BY <2>0 DEF TypeOK
      <3>3. x \in Replica /\ x.batch = relay[w].batch
        BY <3>2, ZenonT(60) DEF Replica
      <3> HIDE DEF x
      <3> QED BY <2>7, <2>9, <3>1, <3>3, ZenonT(60)
    <2>10. ASSUME NEW w \in Worker, UNCHANGED <<writer, before, overtaken>>, Publish(w) \/ PublishFails(w)
           PROVE  PipeInv'
      <3>1. outbox' = outbox
        BY <2>10 DEF Publish, PublishFails
      <3>2. PipeTypeOK' /\ BegunInOrder'
        BY <2>0, <2>4, <2>10, <3>1 DEF PipeTypeOK
      <3>3. CASE Publish(w)
        <4>1. PICK g \in Event :
                /\ IsNext(w, g)
                /\ Deliver(g)
                /\ relay' = [relay EXCEPT ![w] =
                     [pc      |-> IF relay[w].batch = relay[w].sent \cup {g} THEN "marking" ELSE "publishing",
                      batch   |-> relay[w].batch,
                      sent    |-> relay[w].sent \cup {g},
                      session |-> relay[w].session]]
          BY <3>3, ZenonT(60) DEF Publish
        <4> DEFINE x == [pc      |-> IF relay[w].batch = relay[w].sent \cup {g} THEN "marking" ELSE "publishing",
                         batch   |-> relay[w].batch,
                         sent    |-> relay[w].sent \cup {g},
                         session |-> relay[w].session]
        <4>2. UNCHANGED <<expiries, inflight>>
          BY <3>3 DEF Publish
        <4>3. relay[w] \in Replica
          BY <2>0 DEF TypeOK
        <4>4. x \in Replica /\ x.batch = relay[w].batch
          BY <4>3 DEF Replica
        <4>5. relay' = [relay EXCEPT ![w] = x]
          BY <4>1
        <4> HIDE DEF x
        <4>6. \A v \in Worker : relay'[v] = IF v = w THEN x ELSE relay[v]
          BY <2>0, <4>4, <4>5, OneReplica, ZenonT(60)
        <4>7. \A v \in Worker : relay'[v].batch \in {{}, relay[v].batch}
          BY <4>4, <4>6
        <4>8. /\ \A f \in Event : copies[f] > 0 => copies'[f] > 0
              /\ \A f \in Event \ {g} : copies'[f] = copies[f]
          BY <2>0, <4>1, <4>2, DeliverEffect DEF RelayInv
        <4>9. \A e \in Event : e \in before[g] => Ready(e, g)
          BY <4>1, NextIsReady
        <4>10. BeforeIsEarlier' /\ SentInOrder' /\ StreamedInOrder'
          BY <2>10, <3>1, <4>2, <4>7, <4>8, <4>9, SendKeepsOrder, ZenonT(60)
        <4> QED BY <2>0, <3>2, <4>10 DEF PipeInv
      <3>4. CASE PublishFails(w)
        <4>1. PICK g \in Event : IsNext(w, g) /\ inflight' = [inflight EXCEPT ![g] = @ + 1]
          BY <3>4, ZenonT(60) DEF PublishFails
        <4>2. copies' = copies /\ relay' = [relay EXCEPT ![w] = Waiting]
          BY <3>4 DEF PublishFails
        <4>3. \A f \in Event : inflight'[f] > 0 => inflight[f] > 0 \/ f = g
          BY <2>0, <4>1 DEF TypeOK
        <4>4. Waiting \in Replica /\ Waiting.batch = {}
          BY NoBatch, ZenonT(60)
        <4>5. \A v \in Worker : relay'[v].batch \in {{}, relay[v].batch}
          BY <2>0, <4>2, <4>4 DEF TypeOK
        <4>6. \A e \in Event : e \in before[g] => Ready(e, g)
          BY <4>1, NextIsReady
        <4>7. BeforeIsEarlier' /\ SentInOrder' /\ StreamedInOrder'
          BY <2>10, <3>1, <4>2, <4>3, <4>5, <4>6, SendKeepsOrder
        <4> QED BY <2>0, <3>2, <4>7 DEF PipeInv
      <3> QED BY <2>10, <3>3, <3>4
    <2>11. CASE UNCHANGED pipeVars
      <3>1. UNCHANGED <<outbox, copies, inflight, relay, writer, before, overtaken>>
        BY <2>11 DEF pipeVars, vars
      <3>2. PipeTypeOK' /\ BegunInOrder'
        BY <2>0, <2>4, <3>1 DEF PipeTypeOK
      <3>3. BeforeIsEarlier' /\ SentInOrder' /\ StreamedInOrder'
        BY <3>1, OrderKept
      <3> QED BY <2>0, <3>2, <3>3 DEF PipeInv
    <2>12. ASSUME NEW w \in Worker, Deliveries(w) \/ Faults(w) PROVE PipeInv'
      BY <2>8, <2>9, <2>10, <2>12 DEF Deliveries, Faults
    <2> QED BY <2>1, <2>2, <2>3, <2>5, <2>6, <2>11, <2>12 DEF PipeNext
  <1> QED BY <1>1, <1>2

\* For any number of overlapping transactions, replicas and faults: a command that ended
\* before another began is streamed first, unless its row was held by another replica.
THEOREM StreamOrder == PipeSpec => []StreamedInOrder
  <1>1. PipeInv => StreamedInOrder
    BY DEF PipeInv
  <1> QED BY <1>1, PipeInductive, PTL DEF PipeSpec

\* The composition implements the relay.
THEOREM PipelineRelays == PipeSpec => Spec
  <1>1. PipeInit => Init
    BY DEF PipeInit
  <1> QED BY <1>1, PipeStepsRelay, PTL DEF PipeSpec, Spec

\* From command to stream no event is stored twice unless its id has left the duplicate
\* window, whatever fails in between.
THEOREM PipelineOnce == PipeSpec => []OncePerWindow
  BY PipelineRelays, RelaySafety, PTL

\* The composition keeps the delivery contract, because the relay does.
THEOREM PipelineDelivers == PipeSpec => DeliversEvents
  BY PipelineRelays, ImplementsDelivery, PTL

-----------------------------------------------------------------------------
(* The rate limiter.                                                       *)

Entries == [tokens : 0..Full, last : Nat, seen : Nat]

\* A new bucket is full; the level of any bucket is between 0 and Full.
LEMMA AdvanceBounds ==
    ASSUME clock \in Nat, NEW e \in Entries, e.last <= clock
    PROVE  Advance(e) \in 0..Full /\ Advance(e) \in Int
BY RefillsInTime DEF Entries, Advance

LEMMA NewEntry ==
    ASSUME clock \in Nat
    PROVE  New \in Entries /\ New.last <= clock /\ New.last = clock /\ Advance(New) = Full
BY RefillsInTime DEF Entries, New, Advance

\* The bucket a request is measured against.
Found(k) == IF k \in buckets THEN entry[k] ELSE New

LEMMA FoundIsEntry ==
    ASSUME RateLimiterInv, NEW k \in Key
    PROVE  /\ Found(k) \in Entries /\ Found(k).last <= clock /\ Found(k).last \in Nat
           /\ Advance(Found(k)) = Level(k) /\ Level(k) \in 0..Full
           /\ Found(k).tokens \in 0..Full
<1>1. clock \in Nat /\ entry[k] \in Entries
  BY DEF RateLimiterInv, LimiterTypeOK, Entries
<1>2. CASE k \in buckets
  <2>1. entry[k].last <= clock
    BY <1>1, <1>2 DEF RateLimiterInv, EntryTimes, Entries
  <2>2. QED
    BY <1>1, <1>2, <2>1, AdvanceBounds DEF Found, Level, Entries
<1>3. CASE k \notin buckets
  BY <1>1, <1>3, NewEntry, RefillsInTime DEF Found, Level, Entries
<1>4. QED
  BY <1>2, <1>3

\* What a request leaves behind: the bucket it found, less its cost if it held that much.
LEMMA UsedEntry ==
    ASSUME RateLimiterInv, NEW k \in Key
    PROVE  LET u == Used(Found(k)) IN
           /\ u \in Entries /\ u.seen = clock /\ u.last <= clock
           /\ Advance(u) = IF Level(k) >= Cost THEN Level(k) - Cost ELSE Level(k)
<1> DEFINE e == Found(k)
<1>1. /\ e \in Entries /\ e.last <= clock /\ e.last \in Nat /\ Advance(e) = Level(k) /\ Level(k) \in 0..Full
      /\ e.tokens \in 0..Full /\ clock \in Nat
  BY FoundIsEntry DEF RateLimiterInv, LimiterTypeOK
<1> HIDE DEF e
<1>2. CASE Level(k) >= Cost
  <2>1. Used(e) = [tokens |-> Level(k) - Cost, last |-> clock, seen |-> clock]
    BY <1>1, <1>2 DEF Used
  <2>2. QED
    BY <1>1, <1>2, <2>1, RefillsInTime DEF Advance, Entries, e
<1>3. CASE ~(Level(k) >= Cost)
  <2>1. Used(e) = [tokens |-> e.tokens, last |-> e.last, seen |-> clock]
    BY <1>1, <1>3 DEF Used
  <2>2. Advance(Used(e)) = Advance(e)
    BY <2>1 DEF Advance
  <2>3. QED
    BY <1>1, <1>3, <2>1, <2>2, RefillsInTime DEF Entries, e
<1>4. QED
  BY <1>2, <1>3

\* How each step moves the level of a bucket: a request takes its cost, a tick adds a unit,
\* a sweep does nothing, because what it removes is full.
LEMMA LevelAllow ==
    ASSUME RateLimiterInv, NEW k \in Key, Allow(k), NEW j \in Key
    PROVE  Level(j)' = IF j = k /\ Level(k) >= Cost THEN Level(k) - Cost ELSE Level(j)
<1>1. /\ buckets' = buckets \cup {k} /\ clock' = clock
      /\ entry' = [entry EXCEPT ![k] = Used(Found(k))]
  BY DEF Allow, Found
<1>2. entry \in [Key -> Entries]
  BY DEF RateLimiterInv, LimiterTypeOK, Entries
<1>3. CASE j = k
  <2>1. entry'[j] = Used(Found(k)) /\ j \in buckets'
    BY <1>1, <1>2, <1>3
  <2>2. Level(j)' = Advance(Used(Found(k)))
    BY <1>1, <2>1 DEF Level, Advance
  <2>3. QED
    BY <1>3, <2>2, UsedEntry
<1>4. CASE j # k
  <2>1. entry'[j] = entry[j] /\ (j \in buckets' <=> j \in buckets)
    BY <1>1, <1>2, <1>4
  <2>2. QED
    BY <1>1, <1>4, <2>1 DEF Level, Advance
<1>5. QED
  BY <1>3, <1>4

LEMMA LevelTick ==
    ASSUME RateLimiterInv, Tick, NEW j \in Key
    PROVE  Level(j)' = IF Level(j) < Full THEN Level(j) + 1 ELSE Full
<1>1. clock' = clock + 1 /\ entry' = entry /\ buckets' = buckets /\ clock \in Nat
  BY DEF RateLimiterInv, LimiterTypeOK, Tick
<1>2. CASE j \in buckets
  <2>1. entry[j] \in Entries /\ entry[j].last <= clock
    BY <1>1, <1>2 DEF RateLimiterInv, LimiterTypeOK, EntryTimes, Entries
  <2>2. entry[j].tokens \in 0..Full /\ entry[j].last \in Nat
    BY <2>1 DEF Entries
  <2>3. Level(j) = Advance(entry[j])
    BY <1>2 DEF Level
  <2>4. Level(j)' = IF entry[j].tokens + (clock' - entry[j].last) < Full
                    THEN entry[j].tokens + (clock' - entry[j].last) ELSE Full
    BY <1>1, <1>2, ZenonT(60) DEF Level, Advance
  <2>5. QED
    BY <1>1, <2>1, <2>2, <2>3, <2>4, RefillsInTime DEF Advance
<1>3. CASE j \notin buckets
  BY <1>1, <1>3, RefillsInTime DEF Level
<1>4. QED
  BY <1>2, <1>3

LEMMA LevelReap ==
    ASSUME RateLimiterInv, Reap, NEW j \in Key
    PROVE  Level(j)' = Level(j)
<1>1. /\ clock' = clock /\ entry' = entry /\ clock \in Nat
      /\ buckets' = {k \in buckets : ~Idle(k)}
  BY DEF RateLimiterInv, LimiterTypeOK, Reap
<1>2. CASE j \in buckets /\ Idle(j)
  <2>1. entry[j] \in Entries /\ entry[j].last <= entry[j].seen /\ clock - entry[j].seen > Ttl
    BY <1>2 DEF RateLimiterInv, LimiterTypeOK, EntryTimes, Entries, Idle
  <2>2. entry[j].tokens \in 0..Full /\ entry[j].last \in Nat /\ entry[j].seen \in Nat
    BY <2>1 DEF Entries
  <2>3. Advance(entry[j]) = Full
    BY <1>1, <2>1, <2>2, RefillsInTime DEF Advance
  <2>4. j \notin buckets'
    BY <1>1, <1>2
  <2>5. QED
    BY <1>2, <2>3, <2>4 DEF Level
<1>3. CASE ~(j \in buckets /\ Idle(j))
  <2>1. j \in buckets' <=> j \in buckets
    BY <1>1, <1>3
  <2>2. QED
    BY <1>1, <2>1 DEF Level, Advance
<1>4. QED
  BY <1>2, <1>3

LEMMA LevelObserve ==
    ASSUME RateLimiterInv, UNCHANGED <<clock, buckets, entry>>, NEW j \in Key
    PROVE  Level(j)' = Level(j)
BY DEF Level, Advance

\* RateLimiterInv holds at the start and is kept by every step.
THEOREM RateLimiterInductive == LimiterSpec => []RateLimiterInv
<1>1. LimiterInit => RateLimiterInv
  <2> SUFFICES ASSUME LimiterInit PROVE RateLimiterInv
    OBVIOUS
  <2>1. New \in Entries
    BY NewEntry DEF LimiterInit
  <2>2. LimiterTypeOK
    BY <2>1, RefillsInTime DEF LimiterInit, LimiterTypeOK, Entries
  <2>3. EntryTimes
    BY RefillsInTime DEF LimiterInit, EntryTimes
  <2>4. watch.spent = 0 /\ watch.since = 0 /\ clock = 0 /\ \A k \in Key : Level(k) = Full
    BY DEF LimiterInit, Level
  <2>5. SpentIsGone
    BY <2>4, RefillsInTime DEF SpentIsGone
  <2>6. QED
    BY <2>2, <2>3, <2>5 DEF RateLimiterInv
<1>2. RateLimiterInv /\ [LimiterNext]_limiterVars => RateLimiterInv'
  <2> SUFFICES ASSUME RateLimiterInv, [LimiterNext]_limiterVars PROVE RateLimiterInv'
    OBVIOUS
  <2>1. /\ clock \in Nat /\ due \in Nat /\ buckets \in SUBSET Key /\ entry \in [Key -> Entries]
        /\ verdict \in [Key -> {"none", "admitted", "limited"}]
        /\ watch \in [key : Key, since : Nat, spent : Nat]
        /\ EntryTimes /\ SpentIsGone
    BY DEF RateLimiterInv, LimiterTypeOK, Entries
  <2>2. watch.key \in Key /\ watch.since \in Nat /\ watch.spent \in Nat
    BY <2>1
  <2>3. \A k \in Key : Level(k) \in 0..Full
    BY FoundIsEntry
  <2>4. ASSUME NEW k \in Key, Allow(k) PROVE RateLimiterInv'
    <3> DEFINE u == Used(Found(k))
    <3>1. u \in Entries /\ u.seen = clock /\ u.last <= clock /\ u.last \in Nat
      BY UsedEntry DEF Entries
    <3>2. /\ buckets' = buckets \cup {k} /\ UNCHANGED <<clock, due>>
          /\ entry' = [entry EXCEPT ![k] = u]
          /\ verdict' = [verdict EXCEPT ![k] = IF Advance(Found(k)) >= Cost THEN "admitted" ELSE "limited"]
          /\ watch' = [key |-> watch.key, since |-> watch.since,
                       spent |-> IF Advance(Found(k)) >= Cost /\ k = watch.key THEN watch.spent + Cost ELSE watch.spent]
      BY <2>4, ZenonT(60) DEF Allow, Found
    <3> HIDE DEF u
    <3>3. LimiterTypeOK'
      <4>1. buckets' \in SUBSET Key /\ entry' \in [Key -> Entries]
        BY <2>1, <3>1, <3>2
      <4>2. verdict' \in [Key -> {"none", "admitted", "limited"}]
        BY <2>1, <3>2
      <4>3. watch' \in [key : Key, since : Nat, spent : Nat]
        BY <2>2, <3>2, RefillsInTime
      <4> QED BY <2>1, <3>2, <4>1, <4>2, <4>3, ZenonT(60) DEF LimiterTypeOK, Entries
    <3>4. \A j \in buckets' : entry'[j] = IF j = k THEN u ELSE entry[j]
      BY <2>1, <3>2
    <3>5. EntryTimes'
      <4>1. watch'.since = watch.since /\ clock <= due
        BY <2>1, <3>2 DEF EntryTimes
      <4>2. \A j \in buckets' : j # k => j \in buckets /\ j \in Key
        BY <2>1, <3>2
      <4>3. due - 2 * Ttl <= clock
        BY <2>1, RefillsInTime DEF EntryTimes
      <4>4. \A j \in buckets' : /\ entry'[j].last <= entry'[j].seen
                               /\ entry'[j].seen <= clock
                               /\ due - 2 * Ttl <= entry'[j].seen
        BY <2>1, <3>1, <3>4, <4>2, <4>3 DEF EntryTimes
      <4> QED BY <2>1, <3>2, <4>1, <4>4 DEF EntryTimes
    <3>6. SpentIsGone'
      <4>1. \A j \in Key : Level(j)' = IF j = k /\ Level(k) >= Cost THEN Level(k) - Cost ELSE Level(j)
        BY <2>4, LevelAllow
      <4>2. Advance(Found(k)) = Level(k)
        BY FoundIsEntry
      <4>3. /\ watch'.key = watch.key /\ watch'.since = watch.since
            /\ watch'.spent = IF Level(k) >= Cost /\ k = watch.key THEN watch.spent + Cost ELSE watch.spent
        BY <3>2, <4>2
      <4>4. QED
        BY <2>1, <2>2, <2>3, <3>2, <4>1, <4>3, RefillsInTime DEF SpentIsGone
    <3>7. QED
      BY <3>3, <3>5, <3>6 DEF RateLimiterInv
  <2>5. CASE Tick
    <3>1. /\ clock' = clock + 1 /\ clock < due
          /\ UNCHANGED <<buckets, entry, due, verdict, watch>>
      BY <2>5 DEF Tick
    <3>2. LimiterTypeOK'
      BY <2>1, <3>1 DEF LimiterTypeOK, Entries
    <3>3. EntryTimes'
      <4>1. \A k \in buckets : entry[k].seen \in Nat /\ entry[k].last \in Nat
        BY <2>1 DEF Entries
      <4>2. QED
        BY <2>1, <2>2, <3>1, <4>1, RefillsInTime DEF EntryTimes
    <3>4. \A j \in Key : Level(j)' = IF Level(j) < Full THEN Level(j) + 1 ELSE Full
      BY <2>5, LevelTick
    <3>5. SpentIsGone'
      BY <2>1, <2>2, <2>3, <3>1, <3>4, RefillsInTime DEF SpentIsGone
    <3>6. QED
      BY <3>2, <3>3, <3>5 DEF RateLimiterInv
  <2>6. CASE Reap
    <3>1. /\ clock = due /\ due' = due + Ttl /\ buckets' = {k \in buckets : ~Idle(k)}
          /\ UNCHANGED <<clock, entry, verdict, watch>>
      BY <2>6 DEF Reap
    <3>2. LimiterTypeOK'
      BY <2>1, <3>1, RefillsInTime DEF LimiterTypeOK, Entries
    <3>3. EntryTimes'
      <4>1. \A k \in buckets' : k \in buckets /\ ~(clock - entry[k].seen > Ttl) /\ entry[k].seen \in Nat
        BY <2>1, <3>1 DEF Idle, Entries
      <4>2. \A k \in buckets' : due' - 2 * Ttl <= entry[k].seen
        BY <2>1, <3>1, <4>1, RefillsInTime
      <4>3. QED
        BY <2>1, <2>2, <3>1, <4>1, <4>2, RefillsInTime DEF EntryTimes
    <3>4. \A j \in Key : Level(j)' = Level(j)
      BY <2>6, LevelReap
    <3>5. SpentIsGone'
      BY <2>1, <3>1, <3>4 DEF SpentIsGone
    <3>6. QED
      BY <3>2, <3>3, <3>5 DEF RateLimiterInv
  <2>7. ASSUME NEW k \in Key, Observe(k) PROVE RateLimiterInv'
    <3>1. /\ watch' = [key |-> k, since |-> clock, spent |-> 0]
          /\ UNCHANGED <<clock, buckets, entry, due, verdict>>
      BY <2>7 DEF Observe
    <3>2. LimiterTypeOK'
      BY <2>1, <3>1 DEF LimiterTypeOK, Entries
    <3>3. EntryTimes'
      BY <2>1, <3>1 DEF EntryTimes
    <3>4. \A j \in Key : Level(j)' = Level(j)
      BY <3>1, LevelObserve
    <3>5. SpentIsGone'
      BY <2>1, <2>3, <3>1, <3>4, RefillsInTime DEF SpentIsGone
    <3>6. QED
      BY <3>2, <3>3, <3>5 DEF RateLimiterInv
  <2>8. CASE UNCHANGED limiterVars
    <3>1. \A j \in Key : Level(j)' = Level(j)
      BY <2>8, LevelObserve DEF limiterVars
    <3>2. QED
      BY <2>1, <2>8, <3>1 DEF limiterVars, RateLimiterInv, LimiterTypeOK, EntryTimes, SpentIsGone, Entries
  <2>9. QED
    BY <2>4, <2>5, <2>6, <2>7, <2>8 DEF LimiterNext
<1>3. QED
  BY <1>1, <1>2, PTL DEF LimiterSpec

\* In no stretch of time is an identity admitted more than its burst and what the rate adds,
\* however often its bucket is removed and made anew.
THEOREM RateIsKept == LimiterSpec => []WithinRate
<1>1. RateLimiterInv => WithinRate
  <2> SUFFICES ASSUME RateLimiterInv PROVE WithinRate
    OBVIOUS
  <2>1. /\ watch.key \in Key /\ watch.since \in Nat /\ watch.spent \in Nat
        /\ clock \in Nat /\ Level(watch.key) \in 0..Full
    BY FoundIsEntry DEF RateLimiterInv, LimiterTypeOK
  <2>2. QED
    BY <2>1, RefillsInTime DEF RateLimiterInv, SpentIsGone, WithinRate
<1>2. QED
  BY <1>1, RateLimiterInductive, PTL

\* A bucket unused for more than two periods of the sweep is gone.
THEOREM IdleGo == LimiterSpec => []IdleBucketsGo
<1>1. RateLimiterInv => IdleBucketsGo
  BY RefillsInTime DEF RateLimiterInv, LimiterTypeOK, EntryTimes, IdleBucketsGo
<1>2. QED
  BY <1>1, RateLimiterInductive, PTL

\* The limiter implements TokenBucket: making and removing buckets is invisible.
THEOREM ImplementsBucket == LimiterSpec => LimitsLikeBucket
<1>1. LimiterInit => Promise!Init
  BY DEF LimiterInit, Promise!Init, Level
<1>2. RateLimiterInv /\ [LimiterNext]_limiterVars => [Promise!Next]_Promise!vars
  <2> SUFFICES ASSUME RateLimiterInv, [LimiterNext]_limiterVars PROVE [Promise!Next]_Promise!vars
    OBVIOUS
  <2> DEFINE level == [k \in Key |-> Level(k)]
  <2>1. ASSUME NEW k \in Key, Allow(k) PROVE Promise!Admit(k) \/ Promise!Refuse(k)
    <3>1. Advance(Found(k)) = Level(k) /\ Level(k) \in 0..Full
      BY FoundIsEntry
    <3>2. verdict' = [verdict EXCEPT ![k] = IF Level(k) >= Cost THEN "admitted" ELSE "limited"]
      BY <2>1, <3>1, ZenonT(60) DEF Allow, Found
    <3>3. \A j \in Key : Level(j)' = IF j = k /\ Level(k) >= Cost THEN Level(k) - Cost ELSE Level(j)
      BY <2>1, LevelAllow
    <3>4. CASE Level(k) >= Cost
      <4>1. level' = [level EXCEPT ![k] = Level(k) - Cost]
        BY <3>3, <3>4, ZenonT(60)
      <4>2. QED
        BY <3>2, <3>4, <4>1 DEF Promise!Admit
    <3>5. CASE ~(Level(k) >= Cost)
      <4>1. level' = level
        BY <3>3, <3>5
      <4>2. Level(k) < Cost
        BY <3>1, <3>5, RefillsInTime
      <4>3. QED
        BY <3>2, <3>5, <4>1, <4>2 DEF Promise!Refuse
    <3>6. QED
      BY <3>4, <3>5
  <2>2. CASE Tick
    <3>1. \A j \in Key : Level(j)' = IF Level(j) < Full THEN Level(j) + 1 ELSE Full
      BY <2>2, LevelTick
    <3>2. verdict' = verdict
      BY <2>2 DEF Tick
    <3>3. QED
      BY <3>1, <3>2 DEF Promise!Next, Promise!Tick
  <2>3. CASE Reap \/ (\E k \in Key : Observe(k)) \/ UNCHANGED limiterVars
    <3>1. \A j \in Key : Level(j)' = Level(j)
      BY <2>3, LevelReap, LevelObserve DEF Observe, limiterVars
    <3>2. verdict' = verdict
      BY <2>3, ZenonT(60) DEF Reap, Observe, limiterVars
    <3>3. QED
      BY <3>1, <3>2 DEF Promise!vars
  <2>4. QED
    BY <2>1, <2>2, <2>3 DEF LimiterNext, Promise!Next
<1>3. QED
  BY <1>1, <1>2, RateLimiterInductive, PTL DEF LimiterSpec, LimitsLikeBucket, Promise!Spec
=============================================================================
