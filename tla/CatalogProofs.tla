---------------------------- MODULE CatalogProofs ----------------------------
(***************************************************************************)
(* Proofs about Catalog, for any number of services, requests and values.  *)
(*                                                                         *)
(* StagedInv is inductive when no If-Match runs ahead of the row a request *)
(* reads.  The safety properties and the step simulation of AtomicCatalog  *)
(* follow from it; those about times also need clocks that agree.          *)
(***************************************************************************)
EXTENDS Catalog, TLAPS

\* The time the provers may take for a step.
USE SMTT(60)

-----------------------------------------------------------------------------
(* Sequences.                                                              *)

\* A function on 1..n is a sequence of length n.
LEMMA FunctionIsSeq ==
    ASSUME NEW S, NEW n \in Nat, NEW f \in [1..n -> S]
    PROVE  f \in Seq(S) /\ Len(f) = n
  BY SMT

\* A sequence is such a function.
LEMMA SeqDomain ==
    ASSUME NEW S, NEW h \in Seq(S)
    PROVE  Len(h) \in Nat /\ DOMAIN h = 1..Len(h) /\ (h # <<>> => Len(h) # 0)
  BY SMT

\* Concatenation adds the lengths.
LEMMA ConcatSeq ==
    ASSUME NEW S, NEW h \in Seq(S), NEW g \in Seq(S)
    PROVE  h \o g \in Seq(S) /\ Len(h \o g) = Len(h) + Len(g) /\ h \o <<>> = h
  BY SMT

\* Append adds one element at the end.
LEMMA AppendSeq ==
    ASSUME NEW S, NEW h \in Seq(S), NEW e \in S
    PROVE  /\ Append(h, e) \in Seq(S) /\ Len(Append(h, e)) = Len(h) + 1
           /\ \A i \in 1..Len(h) : Append(h, e)[i] = h[i]
           /\ Append(h, e)[Len(h) + 1] = e
           /\ Append(h, e) = h \o <<e>>
  BY SMT

-----------------------------------------------------------------------------
(* What the domain methods return.                                         *)

\* Register yields a well-formed row at version 1 and one well-formed event.
LEMMA RegisterType ==
    ASSUME NEW c \in RegisterCommand, NEW now \in Nat
    PROVE  /\ Register(c, now) \in Service
           /\ Register(c, now).version = 1
           /\ Register(c, now).name = c.name
           /\ Register(c, now).lifecycle = "experimental"
           /\ Register(c, now).ownership = c.ownership
           /\ Registered(c, now) \in Event
  BY DEF RegisterCommand, Register, Registered, Service, Event, Lifecycle

\* touch advances the version and leaves the rest of the aggregate alone.
LEMMA TouchStep ==
    ASSUME NEW s \in Service, NEW now \in Nat
    PROVE  /\ touch(s, now) \in Service
           /\ touch(s, now).version = s.version + 1
           /\ touch(s, now).name = s.name
           /\ touch(s, now).lifecycle = s.lifecycle
           /\ touch(s, now).ownership = s.ownership
  <1> DEFINE u == [s EXCEPT !.version = s.version + 1]
  <1>1. u \in Service /\ u.version = s.version + 1 /\ u.name = s.name
           /\ u.lifecycle = s.lifecycle /\ u.ownership = s.ownership
    BY DEF Service
  <1>2. touch(s, now) = [u EXCEPT !.updatedAt = now]
    BY DEF touch
  <1> HIDE DEF u
  <1> QED BY <1>1, <1>2 DEF Service

\* A domain method that does nothing leaves the aggregate and records no event; one
\* that does something advances the version by one and records one event.
LEMMA AppliedStep ==
    ASSUME NEW s \in Service, NEW c \in MutateCommand, NEW now \in Nat
    PROVE  /\ Applied(s, c, now) \in Service
           /\ Recorded(s, c, now) \in Seq(Event)
           /\ Applied(s, c, now).name = s.name
           /\ \/ Applied(s, c, now) = s /\ Recorded(s, c, now) = <<>>
              \/ /\ Applied(s, c, now).version = s.version + 1
                 /\ Len(Recorded(s, c, now)) = 1
  <1>1. CASE IsNoOp(s, c)
    BY <1>1 DEF Applied, Recorded
  <1>2. CASE ~IsNoOp(s, c) /\ c \in OwnershipCommand
    <2> DEFINE e == [type |-> "ownership_changed", previous |-> s.ownership.OwningTeam,
                     new |-> c.ownership.OwningTeam, at |-> now]
    <2>1. c.op = "ChangeOwnership" /\ c.ownership \in Ownership
      BY <1>2 DEF OwnershipCommand
    <2> DEFINE u == [s EXCEPT !.ownership = c.ownership]
    <2>2. Applied(s, c, now) = touch(u, now)
      BY <1>2, <2>1 DEF Applied
    <2>3. Recorded(s, c, now) = <<e>>
      BY <1>2, <2>1 DEF Recorded
    <2>4. e \in Event
      BY <2>1 DEF Event, Service, Ownership
    <2>5. u \in Service /\ u.version = s.version /\ u.name = s.name
      BY <2>1 DEF Service
    <2>6. <<e>> \in Seq(Event) /\ Len(<<e>>) = 1
      BY <2>4
    <2> HIDE DEF e, u
    <2> QED BY <2>2, <2>3, <2>5, <2>6, TouchStep
  <1>3. CASE ~IsNoOp(s, c) /\ c \in LifecycleCommand
    <2> DEFINE e == [type |-> "lifecycle_changed", from |-> s.lifecycle, to |-> c.lifecycle, at |-> now]
    <2>1. c.op = "ChangeLifecycle" /\ c.lifecycle \in Lifecycle
      BY <1>3 DEF LifecycleCommand
    <2> DEFINE u == [s EXCEPT !.lifecycle = c.lifecycle]
    <2>2. Applied(s, c, now) = touch(u, now)
      BY <1>3, <2>1 DEF Applied
    <2>3. Recorded(s, c, now) = <<e>>
      BY <1>3, <2>1 DEF Recorded
    <2>4. e \in Event
      BY <2>1 DEF Event, Service
    <2>5. u \in Service /\ u.version = s.version /\ u.name = s.name
      BY <2>1 DEF Service
    <2>6. <<e>> \in Seq(Event) /\ Len(<<e>>) = 1
      BY <2>4
    <2> HIDE DEF e, u
    <2> QED BY <2>2, <2>3, <2>5, <2>6, TouchStep
  <1>4. CASE ~IsNoOp(s, c) /\ c \in RetireCommand
    <2> DEFINE e == [type |-> "retired", at |-> now]
    <2>1. c.op = "RetireService"
      BY <1>4 DEF RetireCommand
    <2> DEFINE u == [s EXCEPT !.lifecycle = "retired"]
    <2>2. Applied(s, c, now) = touch(u, now)
      BY <1>4, <2>1 DEF Applied
    <2>3. Recorded(s, c, now) = <<e>>
      BY <1>4, <2>1 DEF Recorded
    <2>4. e \in Event
      BY DEF Event
    <2>5. u \in Service /\ u.version = s.version /\ u.name = s.name
      BY <2>1 DEF Service, Lifecycle
    <2>6. <<e>> \in Seq(Event) /\ Len(<<e>>) = 1
      BY <2>4
    <2> HIDE DEF e, u
    <2> QED BY <2>2, <2>3, <2>5, <2>6, TouchStep
  <1> QED BY <1>1, <1>2, <1>3, <1>4 DEF MutateCommand

\* The rule on production services is kept by every accepted command.
LEMMA AppliedOnCall ==
    ASSUME NEW s \in Service, NEW c \in MutateCommand, NEW now \in Nat, Accepts(s, c),
           s.lifecycle = "production" => hasOnCall(s.ownership),
           Applied(s, c, now).lifecycle = "production"
    PROVE  hasOnCall(Applied(s, c, now).ownership)
  <1>1. CASE IsNoOp(s, c)
    BY <1>1 DEF Applied
  <1>2. CASE ~IsNoOp(s, c) /\ c \in OwnershipCommand
    BY <1>2, ZenonT(60) DEF Applied, Accepts, touch, OwnershipCommand, Service
  <1>3. CASE ~IsNoOp(s, c) /\ c \in LifecycleCommand
    <2>1. c.op = "ChangeLifecycle" /\ s.lifecycle # c.lifecycle
      BY <1>3 DEF LifecycleCommand, IsNoOp
    <2>2. Applied(s, c, now).lifecycle = c.lifecycle /\ Applied(s, c, now).ownership = s.ownership
      BY <1>3, <2>1, ZenonT(60) DEF Applied, touch, Service
    <2>3. c.lifecycle = "production" => hasOnCall(s.ownership)
      BY <2>1 DEF Accepts
    <2> QED BY <2>2, <2>3
  <1>4. CASE ~IsNoOp(s, c) /\ c \in RetireCommand
    BY <1>4 DEF Applied, touch, RetireCommand, Service
  <1> QED BY <1>1, <1>2, <1>3, <1>4 DEF MutateCommand

\* On a retired service every accepted command is one that finds nothing to do.
LEMMA RetiredIsNoOp ==
    ASSUME NEW s \in Service, NEW c \in MutateCommand, NEW now, Accepts(s, c), s.lifecycle = "retired"
    PROVE  Applied(s, c, now) = s /\ Recorded(s, c, now) = <<>>
  <1>1. IsNoOp(s, c)
    <2>1. CASE c.op = "ChangeOwnership"
      BY <2>1 DEF Accepts
    <2>2. CASE c.op = "ChangeLifecycle"
      <3>1. s.lifecycle # c.lifecycle => c.lifecycle \in lifecycleTransitions["retired"]
        BY <2>2 DEF Accepts
      <3>2. lifecycleTransitions["retired"] = {}
        BY DEF lifecycleTransitions
      <3> QED BY <2>2, <3>1, <3>2 DEF IsNoOp
    <2>3. CASE c.op = "RetireService"
      BY <2>3 DEF IsNoOp
    <2> QED BY <2>1, <2>2, <2>3 DEF MutateCommand, OwnershipCommand, LifecycleCommand, RetireCommand
  <1> QED BY <1>1 DEF Applied, Recorded

-----------------------------------------------------------------------------
(* Rows of the other tables.                                               *)

\* A closed interval is an interval.
LEMMA ClosedInterval ==
    ASSUME NEW x \in Interval, NEW t \in Nat
    PROVE  [x EXCEPT !.valid_to = t] \in Interval /\ [x EXCEPT !.valid_to = t].valid_to = t
  BY DEF Interval

\* recordOwnership turns a list of intervals into a list of intervals.
LEMMA RecordOwnershipType ==
    ASSUME NEW h \in Seq(Interval), NEW s \in Service
    PROVE  recordOwnership(h, s) \in Seq(Interval)
  <1> DEFINE row(i) == IF h[i].valid_to = Null /\ h[i].ownership # s.ownership
                       THEN [h[i] EXCEPT !.valid_to = s.updatedAt] ELSE h[i]
             closed == [i \in DOMAIN h |-> row(i)]
             new == [ownership |-> s.ownership, valid_from |-> s.updatedAt, valid_to |-> Null]
  <1>1. DOMAIN h = 1..Len(h) /\ Len(h) \in Nat
    OBVIOUS
  <1>2. \A i \in 1..Len(h) : row(i) \in Interval
    <2> TAKE i \in 1..Len(h)
    <2>1. h[i] \in Interval
      BY <1>1
    <2>2. [h[i] EXCEPT !.valid_to = s.updatedAt] \in Interval
      <3>1. s.updatedAt \in Nat
        BY DEF Service
      <3> QED BY <2>1, <3>1, ClosedInterval
    <2> QED BY <2>1, <2>2
  <1>3. closed \in [1..Len(h) -> Interval]
    BY <1>1, <1>2
  <1>4. closed \in Seq(Interval)
    BY <1>1, <1>3, FunctionIsSeq
  <1>5. new \in Interval
    BY DEF Interval, Service
  <1>6. recordOwnership(h, s) \in {closed, Append(closed, new)}
    BY DEF recordOwnership
  <1> HIDE DEF closed, new
  <1> QED BY <1>4, <1>5, <1>6

\* A transaction is idle exactly when its program counter says so; otherwise it has
\* all its fields.
LEMMA TxFields ==
    ASSUME NEW t \in Tx
    PROVE  /\ t = Idle <=> t.pc = "idle"
           /\ t # Idle => /\ t.pc \in {"new", "checked", "loaded", "written", "appended"}
                         /\ t.cmd \in Command
                         /\ t.ifMatch \in Nat
                         /\ t.read \in Service \cup {Null}
                         /\ t.svc \in Service
                         /\ t.events \in Seq(Event)
  BY DEF Tx, Idle

\* Moving the program counter keeps a transaction's other fields.
LEMMA TxMove ==
    ASSUME NEW t \in Tx, t # Idle, NEW p \in {"new", "checked", "loaded", "written", "appended"}
    PROVE  /\ [t EXCEPT !.pc = p] \in Tx
           /\ [t EXCEPT !.pc = p] # Idle
           /\ [t EXCEPT !.pc = p].pc = p
           /\ [t EXCEPT !.pc = p].cmd = t.cmd
           /\ [t EXCEPT !.pc = p].ifMatch = t.ifMatch
           /\ [t EXCEPT !.pc = p].read = t.read
           /\ [t EXCEPT !.pc = p].svc = t.svc
           /\ [t EXCEPT !.pc = p].events = t.events
  BY DEF Tx, Idle

\* Every command names a service, and is a registration or a change.
LEMMA CommandFields ==
    ASSUME NEW c \in Command
    PROVE  /\ c.id \in ServiceID
           /\ c.op = "RegisterService" => c \in RegisterCommand /\ c.name \in Name
           /\ c.op # "RegisterService" => c \in MutateCommand
  BY DEF Command, MutateCommand, RegisterCommand, OwnershipCommand, LifecycleCommand, RetireCommand

-----------------------------------------------------------------------------
(* StagedInv is inductive.  Three kinds of step keep the tables: a request *)
(* that ends, one that moves on, one that begins.  Commit is the fourth.   *)

Tables == <<services, history, outbox, clock>>

\* A request that ends without Commit changes nothing for the others.
LEMMA EndKeepsStaged ==
    ASSUME StagedInv, NEW r \in Request,
           tx' = [tx EXCEPT ![r] = Idle], UNCHANGED Tables
    PROVE  StagedInv'
  <1> USE DEF Tables
  <1>1. \A q \in Request : tx'[q] = IF q = r THEN Idle ELSE tx[q]
    BY DEF StagedInv, TypeOK
  <1>2. Idle \in Tx /\ Idle.pc = "idle"
    BY DEF Idle, Tx
  <1>3. TypeOK' /\ clock' <= MaxClock
    BY <1>2 DEF StagedInv, TypeOK
  <1>4. RegisterStaged'
    BY <1>1 DEF StagedInv, RegisterStaged
  <1>5. MutateStaged'
    BY <1>1 DEF StagedInv, MutateStaged
  <1>6. WrittenIsCurrent'
    BY <1>1, <1>2 DEF StagedInv, WrittenIsCurrent, HasWritten, NameTaken
  <1>7. LocksExclusive'
    BY <1>1, <1>2 DEF StagedInv, LocksExclusive, HasWritten
  <1> QED BY <1>3, <1>4, <1>5, <1>6, <1>7 DEF StagedInv

\* A request that moves on, and that may commit what it has written if it has.
LEMMA MoveKeepsStaged ==
    ASSUME StagedInv, NEW r \in Request, tx[r] # Idle,
           NEW p \in {"checked", "written", "appended"},
           p = "checked" => tx[r].cmd.op = "RegisterService",
           p # "checked" =>
             \/ HasWritten(r)
             \/ /\ tx[r].cmd.op = "RegisterService"
                /\ ~NameTaken(tx[r].cmd.name) /\ ~NameLocked(r, tx[r].cmd.name)
             \/ /\ tx[r].cmd.op # "RegisterService"
                /\ services[tx[r].cmd.id] = tx[r].read /\ ~RowLocked(r, tx[r].cmd.id),
           tx' = [tx EXCEPT ![r] = [tx[r] EXCEPT !.pc = p]], UNCHANGED Tables
    PROVE  StagedInv'
  <1> USE DEF Tables
  <1> DEFINE t == [tx[r] EXCEPT !.pc = p]
  <1>1. tx[r] \in Tx /\ p \in {"new", "checked", "loaded", "written", "appended"}
    BY DEF StagedInv, TypeOK
  <1>2. /\ t \in Tx /\ t # Idle /\ t.pc = p /\ t.cmd = tx[r].cmd /\ t.ifMatch = tx[r].ifMatch
        /\ t.read = tx[r].read /\ t.svc = tx[r].svc /\ t.events = tx[r].events
    BY <1>1, TxMove, ZenonT(60)
  <1>3. \A q \in Request : tx'[q] = IF q = r THEN t ELSE tx[q]
    BY DEF StagedInv, TypeOK
  <1>4. tx' = [tx EXCEPT ![r] = t]
    OBVIOUS
  <1> HIDE DEF t
  <1>5. \A q \in Request : /\ tx'[q] # Idle <=> tx[q] # Idle
                           /\ tx[q] # Idle => /\ tx'[q].cmd = tx[q].cmd
                                              /\ tx'[q].ifMatch = tx[q].ifMatch
                                              /\ tx'[q].read = tx[q].read
                                              /\ tx'[q].svc = tx[q].svc
                                              /\ tx'[q].events = tx[q].events
                           /\ q # r => tx'[q] = tx[q]
    BY <1>2, <1>3
  <1>6. tx'[r].pc = p /\ tx'[r].cmd = tx[r].cmd /\ tx'[r].read = tx[r].read
    BY <1>2, <1>3
  <1>7. TypeOK' /\ clock' <= MaxClock
    BY <1>2, <1>4, ZenonT(60) DEF StagedInv, TypeOK
  <1>8. RegisterStaged'
    BY <1>5, <1>6 DEF StagedInv, RegisterStaged
  <1>9. MutateStaged'
    <2> SUFFICES ASSUME NEW q \in Request, tx'[q] # Idle, tx'[q].cmd.op # "RegisterService"
                 PROVE  /\ tx'[q].pc \notin {"new", "checked"}
                        /\ tx'[q].read # Null
                        /\ services[tx'[q].cmd.id] # Null
                        /\ tx'[q].read.version <= services[tx'[q].cmd.id].version
                        /\ tx'[q].read.version = services[tx'[q].cmd.id].version => tx'[q].read = services[tx'[q].cmd.id]
                        /\ tx'[q].ifMatch <= tx'[q].read.version
                        /\ Accepts(tx'[q].read, tx'[q].cmd)
                        /\ \E now \in 0..MaxClock : /\ tx'[q].svc = Applied(tx'[q].read, tx'[q].cmd, now)
                                                    /\ tx'[q].events = Recorded(tx'[q].read, tx'[q].cmd, now)
      BY ZenonT(60) DEF MutateStaged
    <2>1. /\ tx[q] # Idle /\ tx'[q].cmd = tx[q].cmd /\ tx'[q].ifMatch = tx[q].ifMatch
          /\ tx'[q].read = tx[q].read /\ tx'[q].svc = tx[q].svc /\ tx'[q].events = tx[q].events
      BY <1>5, ZenonT(60)
    <2>2. tx'[q].pc \notin {"new", "checked"}
      <3>1. CASE q = r
        BY <1>6, <2>1, <3>1
      <3>2. CASE q # r
        <4>1. tx'[q] = tx[q]
          BY <1>5, <3>2
        <4> QED BY <2>1, <4>1, ZenonT(60) DEF StagedInv, MutateStaged
      <3> QED BY <3>1, <3>2
    <2> QED BY <2>1, <2>2, ZenonT(60) DEF StagedInv, MutateStaged
  <1>10. WrittenIsCurrent'
    <2> SUFFICES ASSUME NEW q \in Request, HasWritten(q)'
                 PROVE  IF tx'[q].cmd.op = "RegisterService" THEN ~NameTaken(tx'[q].cmd.name)
                        ELSE services[tx'[q].cmd.id] = tx'[q].read
      BY ZenonT(60) DEF WrittenIsCurrent, NameTaken
    <2>1. ASSUME HasWritten(q), tx'[q].cmd = tx[q].cmd, tx'[q].read = tx[q].read
          PROVE  IF tx'[q].cmd.op = "RegisterService" THEN ~NameTaken(tx'[q].cmd.name)
                 ELSE services[tx'[q].cmd.id] = tx'[q].read
      BY <2>1 DEF StagedInv, WrittenIsCurrent
    <2>2. CASE q # r
      <3>1. tx'[q] = tx[q]
        BY <1>5, <2>2
      <3> QED BY <2>1, <3>1 DEF HasWritten
    <2>3. CASE q = r
      <3>1. p # "checked"
        BY <1>6, <2>3 DEF HasWritten
      <3> QED BY <1>6, <2>1, <2>3, <3>1
    <2> QED BY <2>2, <2>3
  <1>11. LocksExclusive'
    <2> SUFFICES ASSUME NEW q \in Request, NEW u \in Request, q # u, HasWritten(q)', HasWritten(u)'
                 PROVE  /\ tx'[q].cmd.id # tx'[u].cmd.id
                        /\ tx'[q].cmd.op = "RegisterService" /\ tx'[u].cmd.op = "RegisterService" =>
                             tx'[q].cmd.name # tx'[u].cmd.name
      BY DEF LocksExclusive
    <2>1. tx[q] # Idle /\ tx[u] # Idle
      BY <1>3, <1>6 DEF HasWritten, Idle
    <2>2. tx'[q].cmd = tx[q].cmd /\ tx'[u].cmd = tx[u].cmd
      BY <1>5, <2>1
    <2>3. tx[q].cmd.op = "RegisterService" \/ tx[u].cmd.op = "RegisterService" =>
            tx[q].cmd.id # tx[u].cmd.id
      BY <2>1 DEF StagedInv, RegisterStaged
    <2>4. CASE HasWritten(q) /\ HasWritten(u)
      BY <2>2, <2>4 DEF StagedInv, LocksExclusive
    <2>5. CASE q = r /\ ~HasWritten(r) /\ HasWritten(u)
      BY <2>2, <2>3, <2>5, <1>6 DEF NameLocked, RowLocked, HasWritten
    <2>6. CASE u = r /\ ~HasWritten(r) /\ HasWritten(q)
      BY <2>2, <2>3, <2>6, <1>6 DEF NameLocked, RowLocked, HasWritten
    <2> QED BY <2>4, <2>5, <2>6, <1>5 DEF HasWritten
  <1> QED BY <1>7, <1>8, <1>9, <1>10, <1>11 DEF StagedInv

\* A request that begins, on a fresh id or on the row it just read.
LEMMA BeginKeepsStaged ==
    ASSUME StagedInv, NEW r \in Request, tx[r] = Idle, NEW t \in Tx, t # Idle,
           t.cmd.op = "RegisterService" =>
             /\ t.pc = "new"
             /\ services[t.cmd.id] = Null
             /\ \A q \in Request : tx[q] # Idle => tx[q].cmd.id # t.cmd.id
             /\ \E now \in 0..MaxClock :
                  t.svc = Register(t.cmd, now) /\ t.events = <<Registered(t.cmd, now)>>,
           t.cmd.op # "RegisterService" =>
             /\ t.pc = "loaded"
             /\ services[t.cmd.id] # Null
             /\ t.read = services[t.cmd.id]
             /\ t.ifMatch <= t.read.version
             /\ Accepts(t.read, t.cmd)
             /\ \E now \in 0..MaxClock :
                  /\ t.svc = Applied(t.read, t.cmd, now)
                  /\ t.events = Recorded(t.read, t.cmd, now),
           tx' = [tx EXCEPT ![r] = t], UNCHANGED Tables
    PROVE  StagedInv'
  <1> USE DEF Tables
  <1>1. \A q \in Request : tx'[q] = IF q = r THEN t ELSE tx[q]
    BY DEF StagedInv, TypeOK
  <1>2. t.pc \notin {"written", "appended"} /\ t.cmd.id \in ServiceID
    BY TxFields, CommandFields
  <1>3. TypeOK' /\ clock' <= MaxClock
    BY DEF StagedInv, TypeOK
  <1>4. RegisterStaged'
    <2> SUFFICES ASSUME NEW q \in Request, tx'[q] # Idle, tx'[q].cmd.op = "RegisterService"
                 PROVE  /\ tx'[q].pc # "loaded"
                        /\ services[tx'[q].cmd.id] = Null
                        /\ \A u \in Request \ {q} : tx'[u] # Idle => tx'[u].cmd.id # tx'[q].cmd.id
                        /\ \E now \in 0..MaxClock : /\ tx'[q].svc = Register(tx'[q].cmd, now)
                                                    /\ tx'[q].events = <<Registered(tx'[q].cmd, now)>>
      BY DEF RegisterStaged
    <2>1. CASE q = r
      BY <1>1, <2>1
    <2>2. CASE q # r
      BY <1>1, <2>2 DEF StagedInv, RegisterStaged
    <2> QED BY <2>1, <2>2
  <1>5. MutateStaged'
    <2>1. t.cmd.op # "RegisterService" => t.read \in Service /\ t.read.version <= t.read.version
      BY <1>2 DEF StagedInv, TypeOK, Service
    <2> QED BY <1>1, <2>1, NullAssumption DEF StagedInv, MutateStaged
  <1>6. WrittenIsCurrent'
    BY <1>1, <1>2 DEF StagedInv, WrittenIsCurrent, HasWritten, NameTaken
  <1>7. LocksExclusive'
    BY <1>1, <1>2 DEF StagedInv, LocksExclusive, HasWritten
  <1> QED BY <1>3, <1>4, <1>5, <1>6, <1>7 DEF StagedInv

\* What Commit(r) finds and what it leaves: the row it replaces is the one it read,
\* and the new row is that row with the command applied, one version on or unchanged.
LEMMA CommitEffect ==
    ASSUME StagedInv, NEW r \in Request, Commit(r)
    PROVE  LET c == tx[r].cmd  row == services[c.id]  s == tx[r].svc IN
           /\ c.id \in ServiceID /\ s \in Service /\ tx[r].events \in Seq(Event)
           /\ services' = [services EXCEPT ![c.id] = s]
           /\ outbox' = [outbox EXCEPT ![c.id] = @ \o tx[r].events]
           /\ tx' = [tx EXCEPT ![r] = Idle]
           /\ \E now \in 0..MaxClock :
                \/ /\ c \in RegisterCommand /\ c.op = "RegisterService"
                   /\ row = Null /\ ~NameTaken(c.name)
                   /\ s = Register(c, now) /\ tx[r].events = <<Registered(c, now)>>
                   /\ s.name = c.name /\ s.version = 1
                \/ /\ c \in MutateCommand /\ c.op # "RegisterService"
                   /\ row \in Service /\ Accepts(row, c)
                   /\ s = Applied(row, c, now) /\ tx[r].events = Recorded(row, c, now)
                   /\ s.name = row.name
                   /\ \/ s = row /\ tx[r].events = <<>>
                      \/ s.version = row.version + 1 /\ Len(tx[r].events) = 1
  <1> DEFINE c == tx[r].cmd  row == services[c.id]  s == tx[r].svc
  <1>1. tx[r].pc = "appended" /\ HasWritten(r) /\ tx[r] # Idle
    BY DEF Commit, HasWritten, Idle
  <1>2. c \in Command /\ s \in Service /\ tx[r].events \in Seq(Event) /\ tx[r].read \in Service \cup {Null}
    BY <1>1, TxFields DEF StagedInv, TypeOK
  <1>3. c.id \in ServiceID
    BY <1>2, CommandFields
  <1>4. 0..MaxClock \subseteq Nat
    BY BoundAssumption
  <1>5. CASE c.op = "RegisterService"
    <2>1. c \in RegisterCommand /\ row = Null /\ ~NameTaken(c.name)
      <3>1. c \in RegisterCommand
        BY <1>2, <1>5, CommandFields
      <3>2. row = Null
        BY <1>1, <1>5 DEF StagedInv, RegisterStaged
      <3>3. ~NameTaken(c.name)
        BY <1>1, <1>5, ZenonT(60) DEF StagedInv, WrittenIsCurrent
      <3> QED BY <3>1, <3>2, <3>3
    <2>2. PICK now \in 0..MaxClock : s = Register(c, now) /\ tx[r].events = <<Registered(c, now)>>
      BY <1>1, <1>5 DEF StagedInv, RegisterStaged
    <2>3. s.name = c.name /\ s.version = 1
      BY <1>4, <2>1, <2>2, RegisterType
    <2> QED BY <1>2, <1>3, <1>5, <2>1, <2>2, <2>3, ZenonT(60) DEF Commit
  <1>6. CASE c.op # "RegisterService"
    <2>1. c \in MutateCommand /\ row = tx[r].read /\ row # Null /\ Accepts(row, c)
      BY <1>1, <1>2, <1>6, CommandFields DEF StagedInv, MutateStaged, WrittenIsCurrent
    <2>2. row \in Service
      BY <1>2, <2>1
    <2>3. PICK now \in 0..MaxClock : s = Applied(row, c, now) /\ tx[r].events = Recorded(row, c, now)
      BY <1>1, <1>6, <2>1 DEF StagedInv, MutateStaged
    <2>4. /\ s.name = row.name
          /\ \/ s = row /\ tx[r].events = <<>>
             \/ s.version = row.version + 1 /\ Len(tx[r].events) = 1
      <3>1. now \in Nat
        BY <1>4
      <3>2. /\ Applied(row, c, now).name = row.name
            /\ \/ Applied(row, c, now) = row /\ Recorded(row, c, now) = <<>>
               \/ Applied(row, c, now).version = row.version + 1 /\ Len(Recorded(row, c, now)) = 1
        BY <2>1, <2>2, <3>1, AppliedStep, ZenonT(60)
      <3> QED BY <2>3, <3>2, ZenonT(60)
    <2> QED BY <1>2, <1>3, <1>6, <2>1, <2>2, <2>3, <2>4, ZenonT(60) DEF Commit
  <1> QED BY <1>5, <1>6, ZenonT(60)

\* A commit keeps what the other requests in flight rely on.
LEMMA CommitKeepsStaged ==
    ASSUME StagedInv, NEW r \in Request, Commit(r)
    PROVE  StagedInv'
  <1> DEFINE c == tx[r].cmd  row == services[c.id]  s == tx[r].svc
  <1>1. /\ c.id \in ServiceID /\ s \in Service /\ tx[r].events \in Seq(Event)
        /\ services' = [services EXCEPT ![c.id] = s]
        /\ outbox' = [outbox EXCEPT ![c.id] = @ \o tx[r].events]
        /\ tx' = [tx EXCEPT ![r] = Idle]
    BY CommitEffect, ZenonT(60)
  <1>2. \/ c.op = "RegisterService" /\ row = Null /\ s.name = c.name
        \/ /\ c.op # "RegisterService" /\ row \in Service /\ s.name = row.name
           /\ s = row \/ s.version = row.version + 1
    BY CommitEffect, ZenonT(60)
  <1>3. \A q \in Request : tx'[q] = IF q = r THEN Idle ELSE tx[q]
    BY <1>1 DEF StagedInv, TypeOK
  <1>4. \A i \in ServiceID : services'[i] = IF i = c.id THEN s ELSE services[i]
    BY <1>1 DEF StagedInv, TypeOK
  <1>5. HasWritten(r) /\ tx[r] # Idle /\ Idle \in Tx /\ Idle.pc = "idle" /\ s # Null
    <2>1. HasWritten(r) /\ tx[r] # Idle
      BY DEF Commit, HasWritten, Idle
    <2>2. Idle \in Tx /\ Idle.pc = "idle"
      BY DEF Idle, Tx
    <2> QED BY <1>1, <2>1, <2>2, NullAssumption
  <1>6. \A q \in Request : tx[q] # Idle => /\ tx[q].cmd \in Command /\ tx[q].cmd.id \in ServiceID
                                           /\ tx[q].read \in Service \cup {Null}
    <2>1. \A q \in Request : tx[q] \in Tx
      BY ZenonT(60) DEF StagedInv, TypeOK
    <2> QED BY <2>1, TxFields, CommandFields, ZenonT(60)
  <1> HIDE DEF c, row, s
  <1>7. TypeOK' /\ clock' <= MaxClock
    <2>1. services' \in [ServiceID -> Service \cup {Null}]
      BY <1>1 DEF StagedInv, TypeOK
    <2>2. history' \in [ServiceID -> Seq(Interval)]
      <3>1. history[c.id] \in Seq(Interval)
        BY <1>1 DEF StagedInv, TypeOK
      <3>2. recordOwnership(history[c.id], s) \in Seq(Interval)
        BY <1>1, <3>1, RecordOwnershipType
      <3>3. history' = [history EXCEPT ![c.id] = recordOwnership(history[c.id], s)]
        BY DEF Commit, c, s
      <3> QED BY <3>2, <3>3, ZenonT(60) DEF StagedInv, TypeOK
    <2>3. outbox' \in [ServiceID -> Seq(Event)]
      <3>1. outbox[c.id] \o tx[r].events \in Seq(Event)
        BY <1>1, ConcatSeq DEF StagedInv, TypeOK
      <3> QED BY <1>1, <3>1 DEF StagedInv, TypeOK
    <2>4. tx' \in [Request -> Tx]
      BY <1>1, <1>5 DEF StagedInv, TypeOK
    <2>5. UNCHANGED clock
      BY ZenonT(60) DEF Commit
    <2> QED BY <2>1, <2>2, <2>3, <2>4, <2>5, ZenonT(60) DEF StagedInv, TypeOK
  <1>8. RegisterStaged'
    <2>1. \A q \in Request \ {r} : tx[q] # Idle /\ tx[q].cmd.op = "RegisterService" => tx[q].cmd.id # c.id
      BY <1>5 DEF StagedInv, RegisterStaged, c
    <2> QED BY <1>3, <1>4, <1>6, <2>1 DEF StagedInv, RegisterStaged
  <1>9. MutateStaged'
    <2> SUFFICES ASSUME NEW q \in Request, q # r, tx[q] # Idle, tx[q].cmd.op # "RegisterService",
                        tx[q].cmd.id = c.id
                 PROVE  /\ tx[q].read.version <= s.version
                        /\ tx[q].read.version = s.version => tx[q].read = s
      BY <1>3, <1>4, <1>5, <1>6 DEF StagedInv, MutateStaged
    <2>1. c.op # "RegisterService"
      BY <1>5 DEF StagedInv, RegisterStaged, c
    <2>2. /\ tx[q].read \in Service
          /\ tx[q].read.version <= row.version
          /\ tx[q].read.version = row.version => tx[q].read = row
      BY <1>6, ZenonT(60) DEF StagedInv, MutateStaged, row
    <2>3. tx[q].read.version \in Nat /\ row.version \in Nat
      BY <1>2, <2>1, <2>2 DEF Service
    <2> QED BY <1>2, <2>1, <2>2, <2>3
  <1>10. WrittenIsCurrent'
    <2> SUFFICES ASSUME NEW q \in Request, q # r, HasWritten(q)
                 PROVE  IF tx[q].cmd.op = "RegisterService"
                        THEN \A i \in ServiceID : services'[i] # Null => services'[i].name # tx[q].cmd.name
                        ELSE services'[tx[q].cmd.id] = tx[q].read
      BY <1>3, <1>5 DEF WrittenIsCurrent, HasWritten, NameTaken
    <2>1. tx[q] # Idle /\ tx[q].cmd.id # c.id
      BY <1>5 DEF StagedInv, LocksExclusive, HasWritten, Idle, c
    <2>2. CASE tx[q].cmd.op = "RegisterService"
      <3>1. \A i \in ServiceID : services[i] # Null => services[i].name # tx[q].cmd.name
        BY <2>2 DEF StagedInv, WrittenIsCurrent, NameTaken
      <3>2. s.name # tx[q].cmd.name
        <4>1. CASE c.op = "RegisterService"
          BY <1>2, <1>5, <2>2, <4>1 DEF StagedInv, LocksExclusive, c
        <4>2. CASE c.op # "RegisterService"
          BY <1>1, <1>2, <3>1, <4>2, NullAssumption DEF row
        <4> QED BY <4>1, <4>2
      <3> QED BY <1>4, <2>2, <3>1, <3>2
    <2>3. CASE tx[q].cmd.op # "RegisterService"
      BY <1>4, <1>6, <2>1, <2>3 DEF StagedInv, WrittenIsCurrent
    <2> QED BY <2>2, <2>3
  <1>11. LocksExclusive'
    BY <1>3, <1>5 DEF StagedInv, LocksExclusive, HasWritten
  <1> QED BY <1>7, <1>8, <1>9, <1>10, <1>11 DEF StagedInv

\* StagedInv holds at first and every step of every request keeps it, when a client
\* only sends an If-Match that a response carried.
THEOREM StagedInductive ==
    ASSUME IfMatchAhead = 0
    PROVE  /\ Init => StagedInv
           /\ StagedInv /\ [Next]_vars => StagedInv'
  <1>1. Init => StagedInv
    BY BoundAssumption DEF Init, StagedInv, TypeOK, Tx, Idle, RegisterStaged, MutateStaged, WrittenIsCurrent,
       LocksExclusive, HasWritten
  <1>2. ASSUME StagedInv, [Next]_vars PROVE StagedInv'
    <2>1. ASSUME NEW r \in Request, BeginRegister(r) PROVE StagedInv'
      <3>1. PICK id \in FreshID, n \in Name, o \in Ownership, now \in Now :
               tx' = [tx EXCEPT ![r] =
                 [pc |-> "new", ifMatch |-> 0, read |-> Null,
                  cmd |-> [op |-> "RegisterService", id |-> id, name |-> n, ownership |-> o],
                  svc |-> Register([op |-> "RegisterService", id |-> id, name |-> n, ownership |-> o], now),
                  events |-> <<Registered([op |-> "RegisterService", id |-> id, name |-> n,
                                           ownership |-> o], now)>>]]
        BY <2>1, ZenonT(60) DEF BeginRegister
      <3> DEFINE c == [op |-> "RegisterService", id |-> id, name |-> n, ownership |-> o]
                 t == [pc |-> "new", ifMatch |-> 0, read |-> Null, cmd |-> c,
                       svc |-> Register(c, now), events |-> <<Registered(c, now)>>]
      <3>2. c \in RegisterCommand /\ c \in Command /\ c.op = "RegisterService" /\ c.id = id
        BY DEF FreshID, RegisterCommand, Command
      <3>3. now \in 0..MaxClock /\ now \in Nat
        BY <1>2, BoundAssumption DEF Now, StagedInv, TypeOK
      <3> HIDE DEF c
      <3>4. Register(c, now) \in Service /\ <<Registered(c, now)>> \in Seq(Event)
        BY <3>2, <3>3, RegisterType
      <3>5. t \in Tx /\ t # Idle
        BY <3>2, <3>4 DEF Tx, Idle
      <3>6. tx' = [tx EXCEPT ![r] = t] /\ tx[r] = Idle /\ UNCHANGED Tables
        BY <2>1, <3>1, ZenonT(60) DEF BeginRegister, Tables, c
      <3>7. t.cmd = c /\ t.pc = "new" /\ t.svc = Register(c, now) /\ t.events = <<Registered(c, now)>>
        OBVIOUS
      <3> HIDE DEF t
      <3>8. services[id] = Null /\ \A q \in Request : tx[q] # Idle => tx[q].cmd.id # id
        BY ZenonT(60) DEF FreshID
      <3>9. /\ t.cmd.op = "RegisterService" /\ t.pc = "new" /\ services[t.cmd.id] = Null
            /\ \A q \in Request : tx[q] # Idle => tx[q].cmd.id # t.cmd.id
            /\ t.svc = Register(t.cmd, now) /\ t.events = <<Registered(t.cmd, now)>>
        BY <3>2, <3>7, <3>8, ZenonT(60)
      <3> QED BY <1>2, <3>3, <3>5, <3>6, <3>9, BeginKeepsStaged, ZenonT(60)
    <2>2. ASSUME NEW r \in Request, FindByID(r) PROVE StagedInv'
      <3>1. PICK c \in MutateCommand :
               /\ services[c.id] # Null
               /\ Accepts(services[c.id], c)
               /\ \E m \in 0..(services[c.id].version + IfMatchAhead), now \in Now :
                    tx' = [tx EXCEPT ![r] =
                      [pc |-> "loaded", cmd |-> c, ifMatch |-> m, read |-> services[c.id],
                       svc |-> Applied(services[c.id], c, now),
                       events |-> Recorded(services[c.id], c, now)]]
        BY <2>2, ZenonT(60) DEF FindByID
      <3>2. PICK m \in 0..(services[c.id].version + IfMatchAhead), now \in Now :
               tx' = [tx EXCEPT ![r] =
                 [pc |-> "loaded", cmd |-> c, ifMatch |-> m, read |-> services[c.id],
                  svc |-> Applied(services[c.id], c, now),
                  events |-> Recorded(services[c.id], c, now)]]
        BY <3>1, ZenonT(60)
      <3> DEFINE row == services[c.id]
                 t == [pc |-> "loaded", cmd |-> c, ifMatch |-> m, read |-> row,
                       svc |-> Applied(row, c, now), events |-> Recorded(row, c, now)]
      <3>3. c \in Command /\ c.op # "RegisterService" /\ c.id \in ServiceID
        BY DEF Command, MutateCommand, OwnershipCommand, LifecycleCommand, RetireCommand
      <3>4. row \in Service
        BY <1>2, <3>1, <3>3 DEF StagedInv, TypeOK
      <3>5. now \in 0..MaxClock /\ now \in Nat
        BY <1>2, BoundAssumption DEF Now, StagedInv, TypeOK
      <3>6. m \in Nat /\ m <= row.version
        BY <3>4 DEF Service
      <3>7. Applied(row, c, now) \in Service /\ Recorded(row, c, now) \in Seq(Event)
        BY <3>4, <3>5, AppliedStep, ZenonT(60)
      <3>8. tx' = [tx EXCEPT ![r] = t] /\ tx[r] = Idle /\ UNCHANGED Tables
        BY <2>2, <3>2, ZenonT(60) DEF FindByID, Tables
      <3>9. row # Null /\ Accepts(row, c)
        BY <3>1, <3>4, NullAssumption, ZenonT(60)
      <3>10. t \in Tx /\ t # Idle
        BY <3>3, <3>4, <3>6, <3>7 DEF Tx, Idle
      <3>11. /\ t.cmd = c /\ t.pc = "loaded" /\ t.read = services[t.cmd.id] /\ t.ifMatch <= t.read.version
             /\ t.svc = Applied(t.read, t.cmd, now) /\ t.events = Recorded(t.read, t.cmd, now)
        BY <3>6
      <3> HIDE DEF t, row
      <3>12. services[t.cmd.id] # Null /\ Accepts(t.read, t.cmd) /\ t.cmd.op # "RegisterService"
        BY <3>1, <3>3, <3>11, ZenonT(60)
      <3> QED BY <1>2, <3>5, <3>8, <3>10, <3>11, <3>12, BeginKeepsStaged, ZenonT(60)
    <2>3. ASSUME NEW r \in Request, FindByTenantAndName(r) PROVE StagedInv'
      <3>1. tx[r] # Idle /\ tx[r].cmd.op = "RegisterService" /\ UNCHANGED Tables
        BY <1>2, <2>3 DEF FindByTenantAndName, StagedInv, MutateStaged, Idle, Tables
      <3>2. CASE NameTaken(tx[r].cmd.name)
        BY <1>2, <2>3, <3>1, <3>2, EndKeepsStaged, ZenonT(60) DEF FindByTenantAndName
      <3>3. CASE ~NameTaken(tx[r].cmd.name)
        <4>1. tx' = [tx EXCEPT ![r] = [tx[r] EXCEPT !.pc = "checked"]]
          BY <2>3, <3>3 DEF FindByTenantAndName
        <4> QED BY <1>2, <3>1, <4>1, MoveKeepsStaged, ZenonT(60)
      <3> QED BY <3>2, <3>3
    <2>4. ASSUME NEW r \in Request, Insert(r) PROVE StagedInv'
      <3>1. tx[r] # Idle /\ tx[r].cmd.op = "RegisterService" /\ UNCHANGED Tables
        BY <1>2, <2>4 DEF Insert, StagedInv, MutateStaged, Idle, Tables
      <3>2. CASE NameTaken(tx[r].cmd.name)
        BY <1>2, <2>4, <3>1, <3>2, EndKeepsStaged, ZenonT(60) DEF Insert
      <3>3. CASE ~NameTaken(tx[r].cmd.name)
        <4>1. tx' = [tx EXCEPT ![r] = [tx[r] EXCEPT !.pc = "written"]] /\ ~NameLocked(r, tx[r].cmd.name)
          BY <2>4, <3>3 DEF Insert
        <4> QED BY <1>2, <3>1, <3>3, <4>1, MoveKeepsStaged, ZenonT(60)
      <3> QED BY <3>2, <3>3
    <2>5. ASSUME NEW r \in Request, Update(r) PROVE StagedInv'
      <3> DEFINE row == services[tx[r].cmd.id]
                 match == row.version = expectedVersionOr(tx[r].ifMatch, tx[r].read.version)
      <3>1. tx[r] # Idle /\ tx[r].cmd.op # "RegisterService" /\ UNCHANGED Tables
        BY <1>2, <2>5 DEF Update, StagedInv, RegisterStaged, Idle, Tables
      <3>2. CASE ~match
        <4>1. tx' = [tx EXCEPT ![r] = Idle]
          BY <2>5, <3>2 DEF Update
        <4> QED BY <1>2, <3>1, <4>1, EndKeepsStaged, ZenonT(60)
      <3>3. CASE match
        <4>1. tx' = [tx EXCEPT ![r] = [tx[r] EXCEPT !.pc = "written"]] /\ ~RowLocked(r, tx[r].cmd.id)
          BY <2>5, <3>3 DEF Update
        <4>2. tx[r].read \in Service /\ row \in Service /\ tx[r].ifMatch \in Nat
          <5>1. tx[r] \in Tx /\ services \in [ServiceID -> Service \cup {Null}]
            BY <1>2 DEF StagedInv, TypeOK
          <5>2. tx[r].cmd.id \in ServiceID /\ tx[r].read \in Service \cup {Null} /\ tx[r].ifMatch \in Nat
            BY <3>1, <5>1, TxFields, CommandFields, ZenonT(60)
          <5>3. tx[r].read # Null /\ row # Null
            BY <1>2, <3>1 DEF StagedInv, MutateStaged
          <5> QED BY <5>1, <5>2, <5>3
        <4>3. /\ tx[r].ifMatch <= tx[r].read.version /\ tx[r].read.version <= row.version
              /\ tx[r].read.version = row.version => tx[r].read = row
          BY <1>2, <3>1 DEF StagedInv, MutateStaged
        <4>4. row.version = tx[r].read.version
          BY <3>3, <4>2, <4>3 DEF expectedVersionOr, Service
        <4> QED BY <1>2, <3>1, <4>1, <4>3, <4>4, MoveKeepsStaged, ZenonT(60)
      <3> QED BY <3>2, <3>3
    <2>6. ASSUME NEW r \in Request, AppendEvents(r) PROVE StagedInv'
      <3>1. tx[r] # Idle /\ HasWritten(r) /\ UNCHANGED Tables
            /\ tx' = [tx EXCEPT ![r] = [tx[r] EXCEPT !.pc = "appended"]]
        BY <2>6 DEF AppendEvents, Idle, HasWritten, Tables
      <3> QED BY <1>2, <3>1, MoveKeepsStaged, ZenonT(60)
    <2>7. ASSUME NEW r \in Request, Commit(r) PROVE StagedInv'
      BY <1>2, <2>7, CommitKeepsStaged
    <2>8. ASSUME NEW r \in Request, Rollback(r) PROVE StagedInv'
      BY <1>2, <2>8, EndKeepsStaged, ZenonT(60) DEF Rollback, Tables
    <2>9. CASE Tick \/ UNCHANGED vars
      <3>1. UNCHANGED <<services, tx>>
        BY <2>9 DEF Tick, vars
      <3>2. TypeOK' /\ clock' <= MaxClock
        BY <1>2, <2>9, BoundAssumption DEF Tick, vars, StagedInv, TypeOK
      <3>3. RegisterStaged'
        BY <1>2, <3>1 DEF StagedInv, RegisterStaged
      <3>4. MutateStaged'
        BY <1>2, <3>1 DEF StagedInv, MutateStaged
      <3>5. WrittenIsCurrent' /\ LocksExclusive'
        BY <1>2, <3>1 DEF StagedInv, WrittenIsCurrent, LocksExclusive, HasWritten, NameTaken
      <3> QED BY <3>2, <3>3, <3>4, <3>5 DEF StagedInv
    <2> QED BY <1>2, <2>1, <2>2, <2>3, <2>4, <2>5, <2>6, <2>7, <2>8, <2>9 DEF Next, Statement
  <1> QED BY <1>1, <1>2

-----------------------------------------------------------------------------
(* The safety properties.                                                  *)

\* Only Commit changes the committed tables.
LEMMA OnlyCommitWrites ==
    ASSUME [Next]_vars
    PROVE  (\E r \in Request : Commit(r)) \/ UNCHANGED <<services, history, outbox>>
  BY DEF Next, vars, Statement, BeginRegister, FindByID, FindByTenantAndName, Insert, Update,
     AppendEvents, Rollback, Tick

CommittedInv == ProductionHasOnCall /\ UniqueNames /\ EventPerVersion

\* A commit keeps the on-call rule, the uniqueness of names and one event per version.
LEMMA CommitKeepsCommitted ==
    ASSUME StagedInv, CommittedInv, NEW r \in Request, Commit(r)
    PROVE  CommittedInv'
  <1> DEFINE c == tx[r].cmd  row == services[c.id]  s == tx[r].svc  e == tx[r].events
  <1>1. /\ c.id \in ServiceID /\ s \in Service /\ e \in Seq(Event)
        /\ services' = [services EXCEPT ![c.id] = s]
        /\ outbox' = [outbox EXCEPT ![c.id] = @ \o e]
    BY CommitEffect, ZenonT(60)
  <1>2. PICK now \in 0..MaxClock :
          \/ /\ c \in RegisterCommand /\ row = Null /\ ~NameTaken(c.name)
             /\ s = Register(c, now) /\ e = <<Registered(c, now)>>
             /\ s.name = c.name /\ s.version = 1
          \/ /\ c \in MutateCommand /\ row \in Service /\ Accepts(row, c)
             /\ s = Applied(row, c, now) /\ e = Recorded(row, c, now)
             /\ s.name = row.name
             /\ \/ s = row /\ e = <<>>
                \/ s.version = row.version + 1 /\ Len(e) = 1
    BY CommitEffect, ZenonT(60)
  <1>3. now \in Nat
    BY BoundAssumption
  <1>4. \A i \in ServiceID : /\ services'[i] = IF i = c.id THEN s ELSE services[i]
                             /\ outbox'[i] = IF i = c.id THEN outbox[i] \o e ELSE outbox[i]
    BY <1>1 DEF StagedInv, TypeOK
  <1>5. s # Null /\ outbox[c.id] \in Seq(Event)
    BY <1>1, NullAssumption DEF StagedInv, TypeOK
  <1> HIDE DEF c, row, s, e
  <1>6. ProductionHasOnCall'
    <2>1. s.lifecycle = "production" => hasOnCall(s.ownership)
      <3>1. CASE c \in RegisterCommand /\ s = Register(c, now)
        BY <1>3, <3>1, RegisterType
      <3>2. CASE c \in MutateCommand /\ row \in Service /\ Accepts(row, c) /\ s = Applied(row, c, now)
        <4>1. row.lifecycle = "production" => hasOnCall(row.ownership)
          BY <1>1, <3>2, NullAssumption DEF CommittedInv, ProductionHasOnCall, row
        <4> QED BY <1>3, <3>2, <4>1, AppliedOnCall
      <3> QED BY <1>2, <3>1, <3>2
    <2> QED BY <1>4, <2>1 DEF CommittedInv, ProductionHasOnCall
  <1>7. UniqueNames'
    <2>1. \A i \in ServiceID : services[i] # Null /\ services[i].name = s.name => i = c.id
      <3>1. CASE row = Null /\ ~NameTaken(c.name) /\ s.name = c.name
        BY <3>1 DEF NameTaken
      <3>2. CASE row \in Service /\ s.name = row.name
        BY <1>1, <3>2, NullAssumption DEF CommittedInv, UniqueNames, row
      <3> QED BY <1>2, <3>1, <3>2
    <2> QED BY <1>4, <2>1 DEF CommittedInv, UniqueNames
  <1>8. EventPerVersion'
    <2>1. Len(outbox[c.id] \o e) = s.version
      <3>1. Len(outbox[c.id] \o e) = Len(outbox[c.id]) + Len(e)
        BY <1>1, <1>5, ConcatSeq
      <3>2. CASE row = Null /\ e = <<Registered(c, now)>> /\ s.version = 1
        BY <1>1, <3>1, <3>2 DEF CommittedInv, EventPerVersion, row
      <3>3. CASE row \in Service /\ s = row /\ e = <<>>
        <4>1. Len(outbox[c.id]) = row.version /\ row.version \in Nat
          BY <1>1, <3>3, NullAssumption DEF CommittedInv, EventPerVersion, row, Service
        <4> QED BY <3>1, <3>3, <4>1
      <3>4. CASE row \in Service /\ s.version = row.version + 1 /\ Len(e) = 1
        <4>1. Len(outbox[c.id]) = row.version
          BY <1>1, <3>4, NullAssumption DEF CommittedInv, EventPerVersion, row
        <4> QED BY <3>1, <3>4, <4>1
      <3> QED BY <1>2, <3>2, <3>3, <3>4
    <2> QED BY <1>4, <1>5, <2>1, ZenonT(60) DEF CommittedInv, EventPerVersion
  <1> QED BY <1>6, <1>7, <1>8 DEF CommittedInv

\* StagedInv and CommittedInv hold in every state.
LEMMA CommittedAlways ==
    ASSUME IfMatchAhead = 0
    PROVE  Spec => [](StagedInv /\ CommittedInv)
  <1>1. Init => StagedInv /\ CommittedInv
    <2>1. Init => CommittedInv
      BY DEF Init, CommittedInv, ProductionHasOnCall, UniqueNames, EventPerVersion
    <2> QED BY <2>1, StagedInductive
  <1>2. StagedInv /\ CommittedInv /\ [Next]_vars => (StagedInv /\ CommittedInv)'
    <2> SUFFICES ASSUME StagedInv, CommittedInv, [Next]_vars PROVE CommittedInv'
      BY StagedInductive
    <2>1. CASE \E r \in Request : Commit(r)
      BY <2>1, CommitKeepsCommitted
    <2>2. CASE UNCHANGED <<services, history, outbox>>
      BY <2>2 DEF CommittedInv, ProductionHasOnCall, UniqueNames, EventPerVersion
    <2> QED BY <2>1, <2>2, OnlyCommitWrites
  <1> QED BY <1>1, <1>2, PTL DEF Spec

\* For every number of services, requests and values, a committed service in production has
\* an on-call reference, although the domain methods check a copy read earlier.
THEOREM OnCallSafety ==
    ASSUME IfMatchAhead = 0
    PROVE  Spec => []ProductionHasOnCall
  <1>1. CommittedInv => ProductionHasOnCall
    BY DEF CommittedInv
  <1> QED BY <1>1, CommittedAlways, PTL

\* Two committed services never share a name, however registrations interleave (the unique
\* index behind the check of RegisterService).
THEOREM NameSafety ==
    ASSUME IfMatchAhead = 0
    PROVE  Spec => []UniqueNames
  <1>1. CommittedInv => UniqueNames
    BY DEF CommittedInv
  <1> QED BY <1>1, CommittedAlways, PTL

\* Every committed version of a service has left exactly one event in the outbox
\* (Outbox.Append inside Execute).
THEOREM EventSafety ==
    ASSUME IfMatchAhead = 0
    PROVE  Spec => []EventPerVersion
  <1>1. CommittedInv => EventPerVersion
    BY DEF CommittedInv
  <1> QED BY <1>1, CommittedAlways, PTL

\* The variables keep their types for every value of the constants.
THEOREM TypeCorrect ==
    ASSUME IfMatchAhead = 0
    PROVE  Spec => []TypeOK
  <1>1. StagedInv => TypeOK
    BY DEF StagedInv
  <1> QED BY <1>1, CommittedAlways, PTL

\* No write lands on a version it did not see: a committed row only ever moves to
\* the next version.
THEOREM NoLostUpdate ==
    ASSUME IfMatchAhead = 0
    PROVE  Spec => VersionedWrites
  <1>1. StagedInv /\ [Next]_vars => [NextVersion]_services
    <2> SUFFICES ASSUME StagedInv, NEW r \in Request, Commit(r), NEW i \in ServiceID,
                        services[i] # Null, services'[i] # services[i]
                 PROVE  services'[i] # Null /\ services'[i].version = services[i].version + 1
      BY OnlyCommitWrites DEF NextVersion
    <2>1. i = tx[r].cmd.id /\ services'[i] = tx[r].svc /\ tx[r].svc \in Service
      BY CommitEffect, ZenonT(60) DEF StagedInv, TypeOK
    <2>2. tx[r].svc.version = services[i].version + 1
      BY CommitEffect, <2>1, ZenonT(60)
    <2> QED BY <2>1, <2>2, NullAssumption
  <1>2. Spec => []StagedInv
    BY CommittedAlways, PTL
  <1> QED BY <1>1, <1>2, PTL DEF Spec, VersionedWrites

\* Whatever was in flight when a service was retired, its row and its events stay as they
\* are: the methods of the aggregate accept on a retired row only what does nothing, and
\* what they accepted on an older row is not written.
THEOREM RetirementFinal ==
    ASSUME IfMatchAhead = 0
    PROVE  Spec => RetiredIsFinal
  <1>1. StagedInv /\ [Next]_vars =>
          [\A s \in ServiceID : services[s] # Null /\ services[s].lifecycle = "retired" =>
              services'[s] = services[s] /\ outbox'[s] = outbox[s]]_<<services, outbox>>
    <2> SUFFICES ASSUME StagedInv, NEW r \in Request, Commit(r), NEW i \in ServiceID,
                        services[i] # Null, services[i].lifecycle = "retired"
                 PROVE  services'[i] = services[i] /\ outbox'[i] = outbox[i]
      BY OnlyCommitWrites
    <2> DEFINE c == tx[r].cmd  row == services[c.id]
    <2>1. /\ c.id \in ServiceID
          /\ services' = [services EXCEPT ![c.id] = tx[r].svc]
          /\ outbox' = [outbox EXCEPT ![c.id] = outbox[c.id] \o tx[r].events]
      BY CommitEffect, ZenonT(60)
    <2>2. CASE i # c.id
      BY <2>1, <2>2 DEF StagedInv, TypeOK
    <2>3. CASE i = c.id
      <3>1. PICK now \in 0..MaxClock :
              /\ c \in MutateCommand /\ row \in Service /\ Accepts(row, c)
              /\ tx[r].svc = Applied(row, c, now) /\ tx[r].events = Recorded(row, c, now)
        BY <2>3, CommitEffect, ZenonT(60)
      <3>2. tx[r].svc = row /\ tx[r].events = <<>>
        BY <2>3, <3>1, RetiredIsNoOp, ZenonT(60)
      <3>3. outbox[c.id] \in Seq(Event)
        BY <2>1 DEF StagedInv, TypeOK
      <3>4. outbox[c.id] \o <<>> = outbox[c.id]
        BY <3>3, ConcatSeq
      <3> QED BY <2>1, <2>3, <3>2, <3>4 DEF StagedInv, TypeOK
    <2> QED BY <2>2, <2>3
  <1>2. Spec => []StagedInv
    BY CommittedAlways, PTL
  <1> QED BY <1>1, <1>2, PTL DEF Spec, RetiredIsFinal

-----------------------------------------------------------------------------
(* Refinement: a commit is an atomic command, every other step a stutter.  *)

\* The transactions of any number of requests implement commands that take effect at
\* one instant on the current row.
THEOREM ImplementsAtomic ==
    ASSUME IfMatchAhead = 0
    PROVE  Spec => AtomicWrites
  <1> USE DEF Atomic!vars
  <1>1. Init => Atomic!Init
    BY DEF Init, Atomic!Init
  <1>2. /\ Atomic!RegisterCommand = RegisterCommand /\ Atomic!MutateCommand = MutateCommand
        /\ \A c, now : Atomic!Register(c, now) = Register(c, now)
        /\ \A c, now : Atomic!Registered(c, now) = Registered(c, now)
    BY DEF Atomic!RegisterCommand, Atomic!MutateCommand, RegisterCommand, MutateCommand,
       Atomic!OwnershipCommand, Atomic!LifecycleCommand, Atomic!RetireCommand, Atomic!Ownership, Atomic!Lifecycle,
       OwnershipCommand, LifecycleCommand, RetireCommand, Ownership, Lifecycle,
       Atomic!Register, Atomic!Registered, Register, Registered
  <1>3. \A s, c : Atomic!IsNoOp(s, c) = IsNoOp(s, c)
    BY DEF Atomic!IsNoOp, IsNoOp
  <1>4. ASSUME NEW s, NEW c \in MutateCommand, NEW now
        PROVE  /\ Atomic!Applied(s, c, now) = Applied(s, c, now)
               /\ Atomic!Recorded(s, c, now) = Recorded(s, c, now)
    <2>1. \A u : Atomic!touch(u, now) = touch(u, now)
      BY DEF Atomic!touch, touch
    <2>2. c.op \in {"ChangeOwnership", "ChangeLifecycle", "RetireService"}
      BY DEF MutateCommand, OwnershipCommand, LifecycleCommand, RetireCommand
    <2> QED BY <1>3, <2>1, <2>2 DEF Atomic!Applied, Atomic!Recorded, Applied, Recorded
  <1>5. \A s, c : Atomic!Accepts(s, c) = Accepts(s, c)
    BY DEF Atomic!Accepts, Accepts, Atomic!hasOnCall, hasOnCall, Atomic!lifecycleTransitions, lifecycleTransitions
  <1>6. StagedInv /\ [Next]_vars => [Atomic!Next]_(Atomic!vars)
    <2> SUFFICES ASSUME StagedInv, NEW r \in Request, Commit(r) PROVE Atomic!Next
      BY OnlyCommitWrites
    <2> DEFINE c == tx[r].cmd  row == services[c.id]  s == tx[r].svc  e == tx[r].events
    <2>1. /\ c.id \in ServiceID
          /\ services' = [services EXCEPT ![c.id] = s]
          /\ outbox' = [outbox EXCEPT ![c.id] = outbox[c.id] \o e]
      BY CommitEffect, ZenonT(60)
    <2>2. PICK now \in 0..MaxClock :
            \/ /\ c \in RegisterCommand /\ row = Null /\ ~NameTaken(c.name)
               /\ s = Register(c, now) /\ e = <<Registered(c, now)>>
            \/ /\ c \in MutateCommand /\ row \in Service /\ Accepts(row, c)
               /\ s = Applied(row, c, now) /\ e = Recorded(row, c, now)
      BY CommitEffect, ZenonT(60)
    <2> HIDE DEF c, s, e
    <2>3. CASE /\ c \in RegisterCommand /\ row = Null /\ ~NameTaken(c.name)
               /\ s = Register(c, now) /\ e = <<Registered(c, now)>>
      <3>1. Atomic!RegisterService(c, now)
        BY <1>2, <2>1, <2>3, ZenonT(60) DEF Atomic!RegisterService, NameTaken
      <3> QED BY <1>2, <2>3, <3>1, ZenonT(60) DEF Atomic!Next
    <2>4. CASE /\ c \in MutateCommand /\ row \in Service /\ Accepts(row, c)
               /\ s = Applied(row, c, now) /\ e = Recorded(row, c, now)
      <3>1. Atomic!Mutate(c, now)
        BY <1>4, <1>5, <2>1, <2>4, NullAssumption, ZenonT(60) DEF Atomic!Mutate
      <3> QED BY <1>2, <2>4, <3>1, ZenonT(60) DEF Atomic!Next
    <2> QED BY <2>2, <2>3, <2>4
  <1>7. Spec => []StagedInv
    BY CommittedAlways, PTL
  <1> QED BY <1>1, <1>6, <1>7, PTL DEF Spec, AtomicWrites, Atomic!Spec
=============================================================================
