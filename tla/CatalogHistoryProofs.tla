------------------------- MODULE CatalogHistoryProofs -------------------------
(***************************************************************************)
(* Proofs about the ownership history of a service and the order of times, *)
(* for any number of services, requests and values.  HistoryInv, and       *)
(* StampInv when the servers' clocks agree, are kept by every step that    *)
(* keeps StagedInv.                                                        *)
(***************************************************************************)
EXTENDS CatalogProofs

\* The time the provers may take for a step.
USE SMTT(60)

-----------------------------------------------------------------------------
(* What a change does to the times of a row and to its history.            *)

\* A domain method that does something stamps the row and its one event with the same time.
LEMMA AppliedStamp ==
    ASSUME NEW s \in Service, NEW c \in MutateCommand, NEW now \in Nat
    PROVE  \/ Applied(s, c, now) = s /\ Recorded(s, c, now) = <<>>
           \/ /\ Applied(s, c, now).updatedAt = now
              /\ \E e \in Event : Recorded(s, c, now) = <<e>> /\ e.at = now
  <1>0. ASSUME NEW u \in Service PROVE touch(u, now).updatedAt = now
    <2> DEFINE w == [u EXCEPT !.version = u.version + 1]
    <2>1. w \in Service
      BY DEF Service
    <2>2. touch(u, now) = [w EXCEPT !.updatedAt = now]
      BY DEF touch
    <2> HIDE DEF w
    <2> QED BY <2>1, <2>2 DEF Service
  <1>1. CASE IsNoOp(s, c)
    BY <1>1 DEF Applied, Recorded
  <1>2. CASE ~IsNoOp(s, c) /\ c \in OwnershipCommand
    <2> DEFINE e == [type |-> "ownership_changed", previous |-> s.ownership.OwningTeam,
                     new |-> c.ownership.OwningTeam, at |-> now]
               u == [s EXCEPT !.ownership = c.ownership]
    <2>1. c.op = "ChangeOwnership" /\ c.ownership \in Ownership
      BY <1>2 DEF OwnershipCommand
    <2>2. Applied(s, c, now) = touch(u, now) /\ Recorded(s, c, now) = <<e>>
      BY <1>2, <2>1 DEF Applied, Recorded
    <2>3. e \in Event /\ e.at = now
      BY <2>1 DEF Event, Service, Ownership
    <2>4. u \in Service
      BY <2>1 DEF Service
    <2> HIDE DEF e, u
    <2> QED BY <1>0, <2>2, <2>3, <2>4
  <1>3. CASE ~IsNoOp(s, c) /\ c \in LifecycleCommand
    <2> DEFINE e == [type |-> "lifecycle_changed", from |-> s.lifecycle, to |-> c.lifecycle, at |-> now]
               u == [s EXCEPT !.lifecycle = c.lifecycle]
    <2>1. c.op = "ChangeLifecycle" /\ c.lifecycle \in Lifecycle
      BY <1>3 DEF LifecycleCommand
    <2>2. Applied(s, c, now) = touch(u, now) /\ Recorded(s, c, now) = <<e>>
      BY <1>3, <2>1 DEF Applied, Recorded
    <2>3. e \in Event /\ e.at = now
      BY <2>1 DEF Event, Service
    <2>4. u \in Service
      BY <2>1 DEF Service
    <2> HIDE DEF e, u
    <2> QED BY <1>0, <2>2, <2>3, <2>4
  <1>4. CASE ~IsNoOp(s, c) /\ c \in RetireCommand
    <2> DEFINE e == [type |-> "retired", at |-> now]
               u == [s EXCEPT !.lifecycle = "retired"]
    <2>1. c.op = "RetireService"
      BY <1>4 DEF RetireCommand
    <2>2. Applied(s, c, now) = touch(u, now) /\ Recorded(s, c, now) = <<e>>
      BY <1>4, <2>1 DEF Applied, Recorded
    <2>3. e \in Event /\ e.at = now
      BY DEF Event
    <2>4. u \in Service
      BY DEF Service, Lifecycle
    <2> HIDE DEF e, u
    <2> QED BY <1>0, <2>2, <2>3, <2>4
  <1> QED BY <1>1, <1>2, <1>3, <1>4 DEF MutateCommand

\* recordOwnership on the history of a service whose newest interval alone is open: the
\* owner's interval stays as it is, another's is closed at the time of the change and
\* followed by one that starts then.
LEMMA RecordOwnershipStep ==
    ASSUME NEW h \in Seq(Interval), NEW s \in Service, h # <<>>,
           \A i \in DOMAIN h : h[i].valid_to = Null <=> i = Len(h)
    PROVE  LET g == recordOwnership(h, s)  n == Len(h) IN
           /\ h[n].ownership = s.ownership => g = h
           /\ h[n].ownership # s.ownership =>
                /\ Len(g) = n + 1
                /\ \A i \in 1..(n - 1) : g[i] = h[i]
                /\ g[n] = [h[n] EXCEPT !.valid_to = s.updatedAt]
                /\ g[n + 1] = [ownership |-> s.ownership, valid_from |-> s.updatedAt, valid_to |-> Null]
  <1> DEFINE n == Len(h)
             row(i) == IF h[i].valid_to = Null /\ h[i].ownership # s.ownership
                       THEN [h[i] EXCEPT !.valid_to = s.updatedAt] ELSE h[i]
             closed == [i \in DOMAIN h |-> row(i)]
             new == [ownership |-> s.ownership, valid_from |-> s.updatedAt, valid_to |-> Null]
  <1>1. n \in Nat \ {0} /\ DOMAIN h = 1..n
    BY SeqDomain
  <1>2. recordOwnership(h, s) =
            IF \E i \in DOMAIN closed : closed[i].valid_to = Null /\ closed[i].ownership = s.ownership
            THEN closed ELSE Append(closed, new)
    BY ZenonT(60) DEF recordOwnership
  <1>3. CASE h[n].ownership = s.ownership
    <2>1. \A i \in 1..n : row(i) = h[i]
      BY <1>1, <1>3
    <2>2. closed = h
      BY <1>1, <2>1
    <2>3. n \in DOMAIN closed /\ closed[n].valid_to = Null /\ closed[n].ownership = s.ownership
      BY <1>1, <1>3, <2>2
    <2> HIDE DEF closed
    <2>4. recordOwnership(h, s) = h
      BY <1>2, <2>2, <2>3
    <2> QED BY <1>3, <2>4
  <1>4. CASE h[n].ownership # s.ownership
    <2>1. h[n] \in Interval /\ s.updatedAt \in Nat /\ s.ownership \in Ownership
      BY <1>1 DEF Service
    <2>2. /\ [h[n] EXCEPT !.valid_to = s.updatedAt] \in Interval
          /\ [h[n] EXCEPT !.valid_to = s.updatedAt].valid_to # Null
      <3> HIDE DEF n
      <3> QED BY <2>1, ClosedInterval, NullAssumption
    <2>3. /\ \A i \in 1..(n - 1) : row(i) = h[i] /\ h[i].valid_to # Null
          /\ row(n) = [h[n] EXCEPT !.valid_to = s.updatedAt]
      BY <1>1, <1>4
    <2>4. \A i \in 1..n : row(i) \in Interval /\ row(i).valid_to # Null
      <3>1. \A i \in 1..(n - 1) : row(i) \in Interval /\ row(i).valid_to # Null
        BY <1>1, <2>3
      <3>2. row(n) \in Interval /\ row(n).valid_to # Null
        BY <2>2, <2>3, ZenonT(60)
      <3> HIDE DEF n, row
      <3>3. \A i \in 1..n : i \in 1..(n - 1) \/ i = n
        BY <1>1
      <3> QED BY <3>1, <3>2, <3>3
    <2> HIDE DEF row
    <2>5. DOMAIN closed = 1..n /\ \A i \in 1..n : closed[i] = row(i)
      BY <1>1
    <2>6. closed \in Seq(Interval) /\ Len(closed) = n
      <3>1. closed \in [1..n -> Interval]
        BY <1>1, <2>4
      <3> QED BY <1>1, <3>1, FunctionIsSeq
    <2>7. new \in Interval
      BY <2>1 DEF Interval
    <2> HIDE DEF closed, new
    <2>8. recordOwnership(h, s) = Append(closed, new)
      BY <1>2, <2>4, <2>5
    <2>9. /\ Len(Append(closed, new)) = n + 1
          /\ \A i \in 1..n : Append(closed, new)[i] = row(i)
          /\ Append(closed, new)[n + 1] = new
      BY <2>5, <2>6, <2>7, AppendSeq
    <2>10. n \in 1..n /\ \A i \in 1..(n - 1) : i \in 1..n
      BY <1>1
    <2> HIDE DEF n
    <2>11. /\ Len(Append(closed, new)) = n + 1
           /\ \A i \in 1..(n - 1) : Append(closed, new)[i] = h[i]
           /\ Append(closed, new)[n] = [h[n] EXCEPT !.valid_to = s.updatedAt]
           /\ Append(closed, new)[n + 1] = new
      BY <2>3, <2>9, <2>10, ZenonT(60)
    <2> QED BY <1>4, <2>8, <2>11, ZenonT(60) DEF n, new
  <1> QED BY <1>3, <1>4

\* The first owner's interval.
LEMMA RecordOwnershipFirst ==
    ASSUME NEW s \in Service
    PROVE  recordOwnership(<<>>, s) =
             <<[ownership |-> s.ownership, valid_from |-> s.updatedAt, valid_to |-> Null]>>
  <1> DEFINE h == <<>>
             closed == [i \in DOMAIN h |-> IF h[i].valid_to = Null /\ h[i].ownership # s.ownership
                                          THEN [h[i] EXCEPT !.valid_to = s.updatedAt] ELSE h[i]]
             new == [ownership |-> s.ownership, valid_from |-> s.updatedAt, valid_to |-> Null]
  <1>1. DOMAIN h = {}
    OBVIOUS
  <1>2. closed = <<>> /\ DOMAIN closed = {}
    BY <1>1
  <1>3. recordOwnership(h, s) =
            IF \E i \in DOMAIN closed : closed[i].valid_to = Null /\ closed[i].ownership = s.ownership
            THEN closed ELSE Append(closed, new)
    BY ZenonT(60) DEF recordOwnership
  <1>4. Append(<<>>, new) = <<new>>
    OBVIOUS
  <1> HIDE DEF closed, new
  <1>5. recordOwnership(<<>>, s) = <<new>>
    BY <1>2, <1>3, <1>4
  <1> QED BY <1>5 DEF new

\* The newest interval, and no other, is open.
NewestIsOpen(h) == h # <<>> /\ \A i \in DOMAIN h : h[i].valid_to = Null <=> i = Len(h)

\* No interval starts after t.
StartedBy(h, t) == \A i \in DOMAIN h : h[i].valid_from <= t

\* Each closed interval runs forward and ends where the next one starts.
Tiled(h) == \A i \in DOMAIN h : h[i].valid_to # Null =>
    /\ h[i].valid_from <= h[i].valid_to
    /\ i + 1 \in DOMAIN h
    /\ h[i + 1].valid_from = h[i].valid_to

\* recordOwnership leaves one open interval, the owner's; a change that is stamped no
\* earlier than the intervals it finds keeps them tiled.
LEMMA RecordOwnershipKeeps ==
    ASSUME NEW h \in Seq(Interval), NEW s \in Service, h = <<>> \/ NewestIsOpen(h),
           NEW g, g = recordOwnership(h, s)
    PROVE  /\ NewestIsOpen(g)
           /\ g[Len(g)].ownership = s.ownership
           /\ StartedBy(h, s.updatedAt) => StartedBy(g, s.updatedAt) /\ (Tiled(h) => Tiled(g))
  <1> DEFINE n == Len(h)
             new == [ownership |-> s.ownership, valid_from |-> s.updatedAt, valid_to |-> Null]
  <1>1. g \in Seq(Interval) /\ s.updatedAt \in Nat /\ s.updatedAt # Null
    BY RecordOwnershipType, NullAssumption DEF Service
  <1>2. new.ownership = s.ownership /\ new.valid_from = s.updatedAt /\ new.valid_to = Null
    OBVIOUS
  <1>3. CASE h = <<>>
    <2>1. g = <<new>>
      BY <1>3, RecordOwnershipFirst
    <2> HIDE DEF new
    <2>2. g # <<>> /\ Len(g) = 1 /\ DOMAIN g = {1} /\ g[1] = new
      BY <2>1
    <2> QED BY <1>1, <1>2, <2>2 DEF NewestIsOpen, StartedBy, Tiled
  <1>4. CASE NewestIsOpen(h) /\ h[n].ownership = s.ownership
    <2>1. g = h
      BY <1>4, RecordOwnershipStep, ZenonT(60) DEF NewestIsOpen
    <2> QED BY <1>4, <2>1
  <1>5. CASE NewestIsOpen(h) /\ h[n].ownership # s.ownership
    <2> DEFINE last == [h[n] EXCEPT !.valid_to = s.updatedAt]
    <2>1. n \in Nat \ {0} /\ DOMAIN h = 1..n
      BY <1>5, SeqDomain DEF NewestIsOpen
    <2>2. /\ Len(g) = n + 1
          /\ \A i \in 1..(n - 1) : g[i] = h[i]
          /\ g[n] = last
          /\ g[n + 1] = new
      <3>1. LET w == recordOwnership(h, s) IN
              /\ Len(w) = n + 1
              /\ \A i \in 1..(n - 1) : w[i] = h[i]
              /\ w[n] = last
              /\ w[n + 1] = new
        BY <1>5, RecordOwnershipStep, ZenonT(60) DEF NewestIsOpen
      <3> QED BY <3>1, ZenonT(60)
    <2>3. h[n] \in Interval
      BY <2>1
    <2>4. last.valid_from = h[n].valid_from /\ last.valid_to = s.updatedAt
      <3> HIDE DEF n
      <3> QED BY <2>3 DEF Interval
    <2>5. g # <<>> /\ DOMAIN g = 1..(n + 1)
      <3> HIDE DEF n
      <3> QED BY <1>1, <2>1, <2>2
    <2>6. \A i \in 1..(n - 1) : h[i].valid_to # Null
      BY <1>5, <2>1 DEF NewestIsOpen
    <2> HIDE DEF n, new, last
    <2>7. \A i \in 1..(n + 1) : i \in 1..(n - 1) \/ i = n \/ i = n + 1
      BY <2>1
    <2>8. NewestIsOpen(g)
      <3> SUFFICES ASSUME NEW i \in 1..(n + 1) PROVE g[i].valid_to = Null <=> i = n + 1
        BY <2>2, <2>5 DEF NewestIsOpen
      <3>1. CASE i \in 1..(n - 1)
        BY <2>1, <2>2, <2>6, <3>1
      <3>2. CASE i = n
        BY <1>1, <2>1, <2>2, <2>4, <3>2
      <3>3. CASE i = n + 1
        BY <1>2, <2>2, <3>3
      <3> QED BY <2>7, <3>1, <3>2, <3>3
    <2>9. ASSUME StartedBy(h, s.updatedAt) PROVE StartedBy(g, s.updatedAt)
      <3> SUFFICES ASSUME NEW i \in 1..(n + 1) PROVE g[i].valid_from <= s.updatedAt
        BY <2>5 DEF StartedBy
      <3>1. CASE i \in 1..(n - 1)
        BY <2>1, <2>2, <2>9, <3>1 DEF StartedBy
      <3>2. CASE i = n
        BY <2>1, <2>2, <2>4, <2>9, <3>2 DEF StartedBy
      <3>3. CASE i = n + 1
        BY <1>1, <1>2, <2>2, <3>3
      <3> QED BY <2>7, <3>1, <3>2, <3>3
    <2>10. ASSUME StartedBy(h, s.updatedAt), Tiled(h) PROVE Tiled(g)
      <3> SUFFICES ASSUME NEW i \in 1..(n + 1), g[i].valid_to # Null
                   PROVE  /\ g[i].valid_from <= g[i].valid_to
                          /\ i + 1 \in 1..(n + 1)
                          /\ g[i + 1].valid_from = g[i].valid_to
        BY <2>5 DEF Tiled
      <3>1. CASE i \in 1..(n - 1)
        <4>1. i \in 1..n /\ i + 1 \in 1..n /\ i + 1 \in 1..(n + 1)
          BY <2>1, <3>1
        <4>2. /\ h[i].valid_from <= h[i].valid_to
              /\ h[i + 1].valid_from = h[i].valid_to
          BY <2>1, <2>6, <2>10, <3>1, <4>1 DEF Tiled
        <4>3. g[i] = h[i] /\ g[i + 1].valid_from = h[i + 1].valid_from
          BY <2>1, <2>2, <2>4, <3>1
        <4> QED BY <4>1, <4>2, <4>3
      <3>2. CASE i = n
        <4>1. h[n].valid_from <= s.updatedAt
          BY <2>1, <2>10 DEF StartedBy
        <4> QED BY <1>2, <2>1, <2>2, <2>4, <3>2, <4>1
      <3>3. CASE i = n + 1
        BY <1>2, <2>2, <3>3
      <3> QED BY <2>7, <3>1, <3>2, <3>3
    <2>11. g[Len(g)].ownership = s.ownership
      BY <1>2, <2>2
    <2> QED BY <2>8, <2>9, <2>10, <2>11
  <1> QED BY <1>3, <1>4, <1>5

-----------------------------------------------------------------------------
(* The ownership history and the order of times.                           *)

HistoryInv == NothingBeforeRow /\ HistoryMatchesRow

\* HistoryInv says of each history that it is empty or that its newest interval is open.
LEMMA HistoryShape ==
    ASSUME HistoryInv, NEW i \in ServiceID
    PROVE  /\ services[i] = Null => history[i] = <<>> /\ outbox[i] = <<>>
           /\ services[i] # Null => /\ NewestIsOpen(history[i])
                                    /\ history[i][Len(history[i])].ownership = services[i].ownership
  BY DEF HistoryInv, NothingBeforeRow, HistoryMatchesRow, NewestIsOpen

\* What Commit(r) does to the history of its service.
LEMMA CommitHistory ==
    ASSUME StagedInv, HistoryInv, NEW r \in Request, Commit(r)
    PROVE  LET id == tx[r].cmd.id  s == tx[r].svc IN
           /\ id \in ServiceID /\ s \in Service /\ s # Null
           /\ history[id] \in Seq(Interval)
           /\ history[id] = <<>> \/ NewestIsOpen(history[id])
           /\ \A i \in ServiceID :
                /\ services'[i] = IF i = id THEN s ELSE services[i]
                /\ outbox'[i] = IF i = id THEN outbox[i] \o tx[r].events ELSE outbox[i]
                /\ history'[i] = IF i = id THEN recordOwnership(history[i], s) ELSE history[i]
  <1> DEFINE id == tx[r].cmd.id  s == tx[r].svc
  <1>1. /\ id \in ServiceID /\ s \in Service
        /\ services' = [services EXCEPT ![id] = s]
        /\ outbox' = [outbox EXCEPT ![id] = @ \o tx[r].events]
    BY CommitEffect, ZenonT(60)
  <1>2. history' = [history EXCEPT ![id] = recordOwnership(history[id], s)]
    BY DEF Commit
  <1> HIDE DEF id, s
  <1>3. \A i \in ServiceID :
          /\ services'[i] = IF i = id THEN s ELSE services[i]
          /\ outbox'[i] = IF i = id THEN outbox[i] \o tx[r].events ELSE outbox[i]
          /\ history'[i] = IF i = id THEN recordOwnership(history[i], s) ELSE history[i]
    BY <1>1, <1>2 DEF StagedInv, TypeOK
  <1>4. history[id] \in Seq(Interval) /\ (history[id] = <<>> \/ NewestIsOpen(history[id]))
    BY <1>1, HistoryShape DEF StagedInv, TypeOK
  <1> QED BY <1>1, <1>3, <1>4, NullAssumption, ZenonT(60) DEF id, s

\* A commit leaves the history of its service in step with the row.
LEMMA CommitKeepsHistory ==
    ASSUME StagedInv, HistoryInv, NEW r \in Request, Commit(r)
    PROVE  HistoryInv'
  <1> DEFINE id == tx[r].cmd.id  s == tx[r].svc
  <1>1. /\ id \in ServiceID /\ s \in Service /\ s # Null
        /\ history[id] \in Seq(Interval)
        /\ history[id] = <<>> \/ NewestIsOpen(history[id])
        /\ \A i \in ServiceID :
             /\ services'[i] = IF i = id THEN s ELSE services[i]
             /\ outbox'[i] = IF i = id THEN outbox[i] \o tx[r].events ELSE outbox[i]
             /\ history'[i] = IF i = id THEN recordOwnership(history[i], s) ELSE history[i]
    BY CommitHistory, ZenonT(60)
  <1> HIDE DEF id, s
  <1>2. NewestIsOpen(history'[id]) /\ history'[id][Len(history'[id])].ownership = s.ownership
    BY <1>1, RecordOwnershipKeeps, ZenonT(60)
  <1>3. NothingBeforeRow'
    BY <1>1 DEF HistoryInv, NothingBeforeRow
  <1>4. HistoryMatchesRow'
    <2> SUFFICES ASSUME NEW i \in ServiceID, services'[i] # Null
                 PROVE  /\ NewestIsOpen(history'[i])
                        /\ history'[i][Len(history'[i])].ownership = services'[i].ownership
      BY DEF HistoryMatchesRow, NewestIsOpen
    <2>1. CASE i = id
      BY <1>1, <1>2, <2>1
    <2>2. CASE i # id
      BY <1>1, <2>2, HistoryShape
    <2> QED BY <2>1, <2>2
  <1> QED BY <1>3, <1>4 DEF HistoryInv

\* HistoryInv holds in every state.
LEMMA HistoryAlways ==
    ASSUME IfMatchAhead = 0
    PROVE  Spec => [](StagedInv /\ HistoryInv)
  <1>1. Init => HistoryInv
    BY DEF Init, HistoryInv, NothingBeforeRow, HistoryMatchesRow
  <1>2. StagedInv /\ HistoryInv /\ [Next]_vars => HistoryInv'
    <2> SUFFICES ASSUME StagedInv, HistoryInv, [Next]_vars PROVE HistoryInv'
      OBVIOUS
    <2>1. CASE \E r \in Request : Commit(r)
      BY <2>1, CommitKeepsHistory
    <2>2. CASE UNCHANGED <<services, history, outbox>>
      BY <2>2 DEF HistoryInv, NothingBeforeRow, HistoryMatchesRow
    <2> QED BY <2>1, <2>2, OnlyCommitWrites
  <1> QED BY <1>1, <1>2, StagedInductive, PTL DEF Spec

\* The newest row of the ownership history, and no other, is open and names the owner in
\* catalog_services, however the transactions that write both interleave.
THEOREM HistorySafety ==
    ASSUME IfMatchAhead = 0
    PROVE  Spec => []HistoryMatchesRow
  <1>1. HistoryInv => HistoryMatchesRow
    BY DEF HistoryInv
  <1> QED BY <1>1, HistoryAlways, PTL

StampInv == StampsInOrder /\ HistoryTiles /\ OccurredInOrder

\* What a commit writes is stamped no earlier than what it finds.
LEMMA CommitStamp ==
    ASSUME StagedInv, HistoryInv, StampInv, NEW r \in Request, Commit(r)
    PROVE  LET id == tx[r].cmd.id  s == tx[r].svc IN
           /\ s.updatedAt <= clock
           /\ StartedBy(history[id], s.updatedAt)
           /\ \A i \in DOMAIN outbox[id] : outbox[id][i].at <= s.updatedAt
           /\ tx[r].events = <<>> \/ \E e \in Event : tx[r].events = <<e>> /\ e.at = s.updatedAt
  <1> DEFINE c == tx[r].cmd  row == services[c.id]  s == tx[r].svc
  <1>1. PICK now \in 0..MaxClock :
          \/ /\ c \in RegisterCommand /\ row = Null
             /\ s = Register(c, now) /\ tx[r].events = <<Registered(c, now)>>
          \/ /\ c \in MutateCommand /\ c.op # "RegisterService" /\ row \in Service
             /\ s = Applied(row, c, now) /\ tx[r].events = Recorded(row, c, now)
    BY CommitEffect, ZenonT(60)
  <1>2. c.id \in ServiceID /\ s \in Service /\ now \in Nat
    <2>1. c.id \in ServiceID /\ s \in Service
      BY CommitEffect, ZenonT(60)
    <2> QED BY <2>1, BoundAssumption
  <1>3. tx[r] # Idle /\ HasWritten(r)
    BY DEF Commit, Idle, HasWritten
  <1>4. s.updatedAt <= clock
    BY <1>3 DEF StampInv, StampsInOrder
  <1>5. CASE row = Null /\ s = Register(c, now) /\ tx[r].events = <<Registered(c, now)>> /\ c \in RegisterCommand
    <2>1. history[c.id] = <<>> /\ outbox[c.id] = <<>>
      BY <1>2, <1>5, HistoryShape
    <2>2. StartedBy(history[c.id], s.updatedAt) /\ DOMAIN outbox[c.id] = {}
      BY <2>1 DEF StartedBy
    <2>3. Registered(c, now) \in Event
      BY <1>2, <1>5, RegisterType
    <2>4. Registered(c, now).at = s.updatedAt
      BY <1>5 DEF Registered, Register
    <2> QED BY <1>4, <1>5, <2>2, <2>3, <2>4
  <1>6. CASE /\ c \in MutateCommand /\ c.op # "RegisterService" /\ row \in Service
             /\ s = Applied(row, c, now) /\ tx[r].events = Recorded(row, c, now)
    <2>1. row # Null /\ tx[r].read = row
      BY <1>3, <1>6, NullAssumption DEF StagedInv, WrittenIsCurrent
    <2>2. row.updatedAt <= s.updatedAt
      BY <1>3, <1>6, <2>1 DEF StampInv, StampsInOrder
    <2>3. row.updatedAt \in Nat /\ s.updatedAt \in Nat
      BY <1>2, <1>6, ZenonT(60) DEF Service
    <2>4. ASSUME NEW i \in DOMAIN history[c.id] PROVE history[c.id][i].valid_from <= s.updatedAt
      <3>1. history[c.id][i].valid_from <= row.updatedAt
        BY <1>2, <2>1, <2>4 DEF StampInv, StampsInOrder
      <3>2. history[c.id] \in Seq(Interval)
        BY <1>2 DEF StagedInv, TypeOK
      <3>3. history[c.id][i] \in Interval
        BY <2>4, <3>2
      <3>4. history[c.id][i].valid_from \in Nat
        BY <3>3 DEF Interval
      <3> QED BY <2>2, <2>3, <3>1, <3>4
    <2>5. ASSUME NEW i \in DOMAIN outbox[c.id] PROVE outbox[c.id][i].at <= s.updatedAt
      <3>1. outbox[c.id][i].at <= row.updatedAt
        BY <1>2, <2>1, <2>5 DEF StampInv, StampsInOrder
      <3>2. outbox[c.id] \in Seq(Event)
        BY <1>2 DEF StagedInv, TypeOK
      <3>3. outbox[c.id][i].at \in Nat
        BY <2>5, <3>2 DEF Event
      <3> QED BY <2>2, <2>3, <3>1, <3>3
    <2>6. tx[r].events = <<>> \/ \E e \in Event : tx[r].events = <<e>> /\ e.at = s.updatedAt
      BY <1>2, <1>6, AppliedStamp
    <2> QED BY <1>4, <2>4, <2>5, <2>6, ZenonT(60) DEF StartedBy
  <1> QED BY <1>1, <1>5, <1>6, ZenonT(60)

\* A commit keeps the intervals tiled and the events in order.
LEMMA CommitKeepsStamps ==
    ASSUME StagedInv, HistoryInv, StampInv, NEW r \in Request, Commit(r)
    PROVE  StampInv'
  <1> DEFINE id == tx[r].cmd.id  s == tx[r].svc  e == tx[r].events
  <1>1. /\ id \in ServiceID /\ s \in Service /\ s # Null
        /\ history[id] \in Seq(Interval)
        /\ history[id] = <<>> \/ NewestIsOpen(history[id])
        /\ \A i \in ServiceID :
             /\ services'[i] = IF i = id THEN s ELSE services[i]
             /\ outbox'[i] = IF i = id THEN outbox[i] \o e ELSE outbox[i]
             /\ history'[i] = IF i = id THEN recordOwnership(history[i], s) ELSE history[i]
    BY CommitHistory, ZenonT(60)
  <1>2. /\ s.updatedAt <= clock
        /\ StartedBy(history[id], s.updatedAt)
        /\ \A i \in DOMAIN outbox[id] : outbox[id][i].at <= s.updatedAt
        /\ e = <<>> \/ \E x \in Event : e = <<x>> /\ x.at = s.updatedAt
    BY CommitStamp, ZenonT(60)
  <1>3. clock' = clock /\ \A q \in Request : tx'[q] = IF q = r THEN Idle ELSE tx[q]
    BY DEF Commit, StagedInv, TypeOK
  <1>4. outbox[id] \in Seq(Event) /\ s.updatedAt \in Nat
    BY <1>1 DEF StagedInv, TypeOK, Service
  <1> HIDE DEF id, s, e
  <1>5. \A i \in ServiceID : Tiled(history[i])
    BY DEF StampInv, HistoryTiles, Tiled
  <1>6. StartedBy(history'[id], s.updatedAt) /\ Tiled(history'[id])
    BY <1>1, <1>2, <1>5, RecordOwnershipKeeps, ZenonT(60)
  <1>7. HistoryTiles'
    <2>1. \A i \in ServiceID : Tiled(history'[i])
      BY <1>1, <1>5, <1>6
    <2> QED BY <2>1 DEF HistoryTiles, Tiled
  <1>8. /\ \A i \in DOMAIN outbox'[id] : outbox'[id][i].at <= s.updatedAt
        /\ \A i, j \in DOMAIN outbox'[id] : i < j => outbox'[id][i].at <= outbox'[id][j].at
    <2>1. CASE e = <<>>
      <3>1. outbox'[id] = outbox[id]
        BY <1>1, <1>4, <2>1
      <3> QED BY <1>1, <1>2, <3>1 DEF StampInv, OccurredInOrder
    <2>2. CASE e # <<>>
      <3>1. PICK x \in Event : e = <<x>> /\ x.at = s.updatedAt
        BY <1>2, <2>2
      <3> DEFINE n == Len(outbox[id])
      <3>2. n \in Nat /\ DOMAIN outbox[id] = 1..n
        BY <1>4
      <3>3. outbox'[id] = Append(outbox[id], x)
        <4>1. outbox'[id] = outbox[id] \o <<x>>
          BY <1>1, <3>1, ZenonT(60)
        <4>2. Append(outbox[id], x) = outbox[id] \o <<x>>
          BY <1>4, AppendSeq
        <4> QED BY <4>1, <4>2
      <3>4. /\ Len(outbox'[id]) = n + 1 /\ outbox'[id] \in Seq(Event)
            /\ \A i \in 1..n : outbox'[id][i] = outbox[id][i]
            /\ outbox'[id][n + 1] = x
        BY <1>4, <3>3, AppendSeq
      <3>5. DOMAIN outbox'[id] = 1..(n + 1)
        BY <3>4
      <3> HIDE DEF n
      <3>6. \A i \in 1..(n + 1) : i \in 1..n \/ i = n + 1
        BY <3>2
      <3>7. \A i \in 1..(n + 1) : outbox'[id][i].at <= s.updatedAt
        <4>1. \A i \in 1..n : outbox'[id][i].at <= s.updatedAt
          BY <1>2, <3>2, <3>4
        <4>2. outbox'[id][n + 1].at <= s.updatedAt
          BY <1>4, <3>1, <3>4
        <4> QED BY <3>6, <4>1, <4>2
      <3>8. ASSUME NEW i \in 1..(n + 1), NEW j \in 1..(n + 1), i < j
            PROVE  outbox'[id][i].at <= outbox'[id][j].at
        <4>1. CASE j = n + 1
          BY <3>1, <3>4, <3>7, <4>1
        <4>2. CASE j \in 1..n
          <5>1. i \in 1..n
            BY <3>2, <3>8, <4>2
          <5>2. outbox[id][i].at <= outbox[id][j].at
            BY <1>1, <3>2, <3>8, <4>2, <5>1 DEF StampInv, OccurredInOrder
          <5> QED BY <3>4, <4>2, <5>1, <5>2
        <4> QED BY <3>6, <4>1, <4>2
      <3> QED BY <3>5, <3>7, <3>8
    <2> QED BY <2>1, <2>2
  <1>9. OccurredInOrder'
    BY <1>1, <1>8 DEF StampInv, OccurredInOrder
  <1>10. StampsInOrder'
    <2>1. ASSUME NEW i \in ServiceID, services'[i] # Null
          PROVE  /\ services'[i].updatedAt <= clock'
                 /\ \A k \in DOMAIN history'[i] : history'[i][k].valid_from <= services'[i].updatedAt
                 /\ \A k \in DOMAIN outbox'[i] : outbox'[i][k].at <= services'[i].updatedAt
      <3>1. CASE i = id
        <4>1. services'[i] = s
          BY <1>1, <3>1, ZenonT(60)
        <4>2. \A k \in DOMAIN history'[id] : history'[id][k].valid_from <= s.updatedAt
          BY <1>6, ZenonT(60) DEF StartedBy
        <4> QED BY <1>2, <1>3, <1>8, <3>1, <4>1, <4>2, ZenonT(60)
      <3>2. CASE i # id
        <4>1. /\ services'[i] = services[i] /\ history'[i] = history[i]
              /\ outbox'[i] = outbox[i] /\ clock' = clock
          BY <1>1, <1>3, <3>2, ZenonT(60)
        <4> QED BY <2>1, <4>1, ZenonT(60) DEF StampInv, StampsInOrder
      <3> QED BY <3>1, <3>2
    <2>2. ASSUME NEW q \in Request, tx'[q] # Idle
          PROVE  /\ tx'[q].svc.updatedAt <= clock'
                 /\ tx'[q].cmd.op # "RegisterService" => tx'[q].read.updatedAt <= tx'[q].svc.updatedAt
      <3>1. tx'[q] = tx[q] /\ tx[q] # Idle /\ clock' = clock
        BY <1>3, <2>2, ZenonT(60)
      <3> QED BY <3>1, ZenonT(60) DEF StampInv, StampsInOrder
    <2> QED BY <2>1, <2>2 DEF StampsInOrder
  <1> QED BY <1>7, <1>9, <1>10 DEF StampInv

\* Before a commit nothing is stamped but the request that begins, with a time that is past
\* and not before the row it read.
LEMMA StampStep ==
    ASSUME StagedInv, StampInv, UNCHANGED <<services, history, outbox>>, clock' \in Nat, clock <= clock',
           \A q \in Request : tx'[q] # Idle =>
             \/ /\ tx[q] # Idle /\ tx'[q].cmd = tx[q].cmd
                /\ tx'[q].svc = tx[q].svc /\ tx'[q].read = tx[q].read
             \/ /\ tx'[q].svc.updatedAt = clock /\ tx'[q].cmd.op = "RegisterService"
             \/ /\ tx'[q].read \in Service /\ tx'[q].read.updatedAt <= clock
                /\ tx'[q].svc.updatedAt \in {clock, tx'[q].read.updatedAt}
    PROVE  StampInv'
  <1>1. clock \in Nat /\ \A q \in Request : tx[q] # Idle => tx[q].svc \in Service
    BY TxFields DEF StagedInv, TypeOK
  <1>2. ASSUME NEW q \in Request, tx'[q] # Idle
        PROVE  /\ tx'[q].svc.updatedAt <= clock'
               /\ tx'[q].cmd.op # "RegisterService" => tx'[q].read.updatedAt <= tx'[q].svc.updatedAt
    <2>1. CASE /\ tx[q] # Idle /\ tx'[q].cmd = tx[q].cmd
               /\ tx'[q].svc = tx[q].svc /\ tx'[q].read = tx[q].read
      <3>1. /\ tx[q].svc.updatedAt <= clock
            /\ tx[q].cmd.op # "RegisterService" => tx[q].read.updatedAt <= tx[q].svc.updatedAt
        BY <2>1 DEF StampInv, StampsInOrder
      <3>2. tx[q].svc.updatedAt \in Nat
        BY <1>1, <2>1 DEF Service
      <3> QED BY <1>1, <2>1, <3>1, <3>2
    <2>2. CASE tx'[q].svc.updatedAt = clock /\ tx'[q].cmd.op = "RegisterService"
      BY <2>2
    <2>3. CASE /\ tx'[q].read \in Service /\ tx'[q].read.updatedAt <= clock
               /\ tx'[q].svc.updatedAt \in {clock, tx'[q].read.updatedAt}
      <3>1. tx'[q].read.updatedAt \in Nat
        BY <2>3 DEF Service
      <3> QED BY <1>1, <2>3, <3>1
    <2> QED BY <1>2, <2>1, <2>2, <2>3
  <1>3. ASSUME NEW i \in ServiceID, services[i] # Null PROVE services[i].updatedAt <= clock'
    <2>1. services[i].updatedAt <= clock
      BY <1>3 DEF StampInv, StampsInOrder
    <2>2. services[i].updatedAt \in Nat
      BY <1>3 DEF StagedInv, TypeOK, Service
    <2> QED BY <1>1, <2>1, <2>2
  <1>4. StampsInOrder'
    BY <1>2, <1>3 DEF StampInv, StampsInOrder
  <1> QED BY <1>4 DEF StampInv, HistoryTiles, OccurredInOrder

\* Every step keeps the stamps in order when the servers' clocks agree.
LEMMA NextKeepsStamps ==
    ASSUME Skew = 0, StagedInv, HistoryInv, StampInv, [Next]_vars
    PROVE  StampInv'
  <1>1. clock \in Nat /\ \A q \in Request : tx[q] \in Tx
    BY DEF StagedInv, TypeOK
  <1>2. \A now \in Now : now = clock
    BY <1>1 DEF Now
  <1>3. ASSUME NEW r \in Request, NEW t, UNCHANGED <<services, history, outbox, clock>>,
               tx' = [tx EXCEPT ![r] = t],
               \/ t = Idle
               \/ /\ tx[r] # Idle /\ t.cmd = tx[r].cmd /\ t.svc = tx[r].svc /\ t.read = tx[r].read
               \/ t.svc.updatedAt = clock /\ t.cmd.op = "RegisterService"
               \/ /\ t.read \in Service /\ t.read.updatedAt <= clock
                  /\ t.svc.updatedAt \in {clock, t.read.updatedAt}
        PROVE  StampInv'
    <2>1. \A q \in Request : tx'[q] = IF q = r THEN t ELSE tx[q]
      BY <1>3 DEF StagedInv, TypeOK
    <2>2. clock' \in Nat /\ clock <= clock'
      BY <1>1, <1>3
    <2> QED BY <1>3, <2>1, <2>2, StampStep, ZenonT(60)
  <1>4. ASSUME NEW r \in Request, BeginRegister(r) PROVE StampInv'
    <2>1. PICK id \in FreshID, n \in Name, o \in Ownership, now \in Now :
             tx' = [tx EXCEPT ![r] =
               [pc |-> "new", ifMatch |-> 0, read |-> Null,
                cmd |-> [op |-> "RegisterService", id |-> id, name |-> n, ownership |-> o],
                svc |-> Register([op |-> "RegisterService", id |-> id, name |-> n, ownership |-> o], now),
                events |-> <<Registered([op |-> "RegisterService", id |-> id, name |-> n,
                                         ownership |-> o], now)>>]]
      BY <1>4, ZenonT(60) DEF BeginRegister
    <2> DEFINE c == [op |-> "RegisterService", id |-> id, name |-> n, ownership |-> o]
               t == [pc |-> "new", ifMatch |-> 0, read |-> Null, cmd |-> c,
                     svc |-> Register(c, now), events |-> <<Registered(c, now)>>]
    <2>2. t.cmd.op = "RegisterService" /\ t.svc.updatedAt = clock
      BY <1>2 DEF Register
    <2>3. tx' = [tx EXCEPT ![r] = t]
      BY <2>1
    <2> HIDE DEF t
    <2> QED BY <1>3, <1>4, <2>2, <2>3, ZenonT(60) DEF BeginRegister
  <1>5. ASSUME NEW r \in Request, FindByID(r) PROVE StampInv'
    <2>1. PICK c \in MutateCommand :
             /\ services[c.id] # Null
             /\ \E m \in 0..(services[c.id].version + IfMatchAhead), now \in Now :
                  tx' = [tx EXCEPT ![r] =
                    [pc |-> "loaded", cmd |-> c, ifMatch |-> m, read |-> services[c.id],
                     svc |-> Applied(services[c.id], c, now),
                     events |-> Recorded(services[c.id], c, now)]]
      BY <1>5, ZenonT(60) DEF FindByID
    <2>2. PICK m \in 0..(services[c.id].version + IfMatchAhead), now \in Now :
             tx' = [tx EXCEPT ![r] =
               [pc |-> "loaded", cmd |-> c, ifMatch |-> m, read |-> services[c.id],
                svc |-> Applied(services[c.id], c, now),
                events |-> Recorded(services[c.id], c, now)]]
      BY <2>1, ZenonT(60)
    <2> DEFINE row == services[c.id]
               t == [pc |-> "loaded", cmd |-> c, ifMatch |-> m, read |-> row,
                     svc |-> Applied(row, c, now), events |-> Recorded(row, c, now)]
    <2>3. c.id \in ServiceID
      BY DEF MutateCommand, OwnershipCommand, LifecycleCommand, RetireCommand
    <2>4. row \in Service /\ row.updatedAt <= clock
      BY <2>1, <2>3, ZenonT(60) DEF StagedInv, TypeOK, StampInv, StampsInOrder
    <2>5. t.read = row /\ t.svc = Applied(row, c, now) /\ tx' = [tx EXCEPT ![r] = t]
      BY <2>2
    <2> HIDE DEF t, row
    <2>6. now = clock /\ now \in Nat
      BY <1>1, <1>2
    <2>7. Applied(row, c, now).updatedAt \in {clock, row.updatedAt}
      BY <2>4, <2>6, AppliedStamp
    <2> QED BY <1>3, <1>5, <2>4, <2>5, <2>7, ZenonT(60) DEF FindByID
  <1>6. ASSUME NEW r \in Request, Rollback(r) PROVE StampInv'
    BY <1>3, <1>6, ZenonT(60) DEF Rollback
  <1>7. ASSUME NEW r \in Request, FindByTenantAndName(r) \/ Insert(r) \/ Update(r) \/ AppendEvents(r)
        PROVE  StampInv'
    <2>1. tx[r] \in Tx /\ tx[r] # Idle /\ UNCHANGED <<services, history, outbox, clock>>
      BY <1>1, <1>7 DEF FindByTenantAndName, Insert, Update, AppendEvents, Idle
    <2>2. \/ tx' = [tx EXCEPT ![r] = Idle]
          \/ \E p \in {"checked", "written", "appended"} : tx' = [tx EXCEPT ![r] = [tx[r] EXCEPT !.pc = p]]
      BY <1>7 DEF FindByTenantAndName, Insert, Update, AppendEvents
    <2>3. CASE tx' = [tx EXCEPT ![r] = Idle]
      BY <1>3, <2>1, <2>3, ZenonT(60)
    <2>4. ASSUME NEW p \in {"checked", "written", "appended"}, tx' = [tx EXCEPT ![r] = [tx[r] EXCEPT !.pc = p]]
          PROVE  StampInv'
      <3> DEFINE t == [tx[r] EXCEPT !.pc = p]
      <3>0. p \in {"new", "checked", "loaded", "written", "appended"}
        BY <2>4
      <3>1. t.cmd = tx[r].cmd /\ t.svc = tx[r].svc /\ t.read = tx[r].read
        BY <2>1, <3>0, TxMove, ZenonT(60)
      <3>2. tx' = [tx EXCEPT ![r] = t]
        BY <2>4
      <3> HIDE DEF t
      <3> QED BY <1>3, <2>1, <3>1, <3>2, ZenonT(60)
    <2> QED BY <2>2, <2>3, <2>4
  <1>8. ASSUME NEW r \in Request, Commit(r) PROVE StampInv'
    BY <1>8, CommitKeepsStamps
  <1>9. CASE Tick \/ UNCHANGED vars
    <2>1. UNCHANGED <<services, history, outbox, tx>> /\ clock' \in Nat /\ clock <= clock'
      BY <1>1, <1>9 DEF Tick, vars
    <2> QED BY <2>1, StampStep
  <1> QED BY <1>4, <1>5, <1>6, <1>7, <1>8, <1>9 DEF Next, Statement

\* StampInv holds in every state when the servers' clocks agree.
LEMMA StampsAlways ==
    ASSUME IfMatchAhead = 0, Skew = 0
    PROVE  Spec => []StampInv
  <1>1. Init => StampInv
    BY DEF Init, StampInv, StampsInOrder, HistoryTiles, OccurredInOrder
  <1>2. StagedInv /\ HistoryInv /\ StampInv /\ [Next]_vars => StampInv'
    BY NextKeepsStamps
  <1> QED BY <1>1, <1>2, HistoryAlways, PTL DEF Spec

\* When the servers' clocks agree, the ownership intervals of a service run forward and
\* follow each other without a gap or an overlap.
THEOREM HistoryTimeline ==
    ASSUME IfMatchAhead = 0, Skew = 0
    PROVE  Spec => []HistoryTiles
  <1>1. StampInv => HistoryTiles
    BY DEF StampInv
  <1> QED BY <1>1, StampsAlways, PTL

\* When the servers' clocks agree, the events of a service carry times in the order in
\* which they were committed, although the time is read before the row is locked.
THEOREM EventTimeline ==
    ASSUME IfMatchAhead = 0, Skew = 0
    PROVE  Spec => []OccurredInOrder
  <1>1. StampInv => OccurredInOrder
    BY DEF StampInv
  <1> QED BY <1>1, StampsAlways, PTL
=============================================================================
