------------------------------- MODULE Catalog -------------------------------
(***************************************************************************)
(* The catalog's write path: concurrent requests, each one READ COMMITTED  *)
(* Postgres transaction over catalog_services, catalog_ownership_history   *)
(* and outbox_events (internal/modules/catalog/app and adapters/postgres). *)
(*                                                                         *)
(* One action per statement that another transaction can interleave with.  *)
(* services, history and outbox are the committed tables; what a           *)
(* transaction has written is staged in tx until Commit.  A transaction    *)
(* in state "written" or "appended" holds the row lock of its service (or, *)
(* for an insert, its entry of the unique index), so what it staged is     *)
(* still what the statements would compute when Commit applies it.         *)
(*                                                                         *)
(* A command that validation or the domain method rejects returns before   *)
(* it wrote anything: no step.  No code deletes a service, so the "row is  *)
(* gone" branch of Update is never taken.                                  *)
(***************************************************************************)
EXTENDS CatalogDomain

CONSTANTS
    Request,        \* requests in flight at once
    MaxClock,       \* bound: last instant of the wall clock
    MaxVersion,     \* bound: no command starts on a row at this version
    Skew,           \* how far an API server's clock may lag
    IfMatchAhead    \* how far an If-Match may run ahead of the committed row

ASSUME BoundAssumption ==
    MaxClock \in Nat /\ MaxVersion \in Nat /\ Skew \in Nat /\ IfMatchAhead \in Nat

VARIABLES
    services,   \* catalog_services: [ServiceID -> row or Null]
    history,    \* catalog_ownership_history: the rows of each service
    outbox,     \* outbox_events: the events of each aggregate, in commit order
    clock,      \* wall-clock time
    tx          \* the transaction of each request

vars == <<services, history, outbox, clock, tx>>

-----------------------------------------------------------------------------
Interval == [ownership : Ownership, valid_from : Nat, valid_to : Nat \cup {Null}]

Idle == [pc |-> "idle"]

Tx == {Idle} \cup
    [pc      : {"new", "checked", "loaded", "written", "appended"},
     cmd     : Command,
     ifMatch : Nat,
     read    : Service \cup {Null},
     svc     : Service,
     events  : Seq(Event)]

Init ==
    /\ services = [s \in ServiceID |-> Null]
    /\ history = [s \in ServiceID |-> <<>>]
    /\ outbox = [s \in ServiceID |-> <<>>]
    /\ clock = 0
    /\ tx = [r \in Request |-> Idle]

\* What clock.Now() may return on some API server.
Now == {t \in 0..clock : t >= clock - Skew}

HasWritten(r) == tx[r].pc \in {"written", "appended"}

\* Another transaction has an uncommitted write of service id / of name n.
RowLocked(r, id) ==
    \E q \in Request \ {r} : HasWritten(q) /\ tx[q].cmd.id = id

NameLocked(r, n) ==
    \E q \in Request \ {r} :
        HasWritten(q) /\ tx[q].cmd.op = "RegisterService" /\ tx[q].cmd.name = n

NameTaken(n) == \E s \in ServiceID : services[s] # Null /\ services[s].name = n

\* NewServiceID never returns an id twice.
FreshID ==
    {id \in ServiceID : services[id] = Null /\ \A r \in Request : tx[r] # Idle => tx[r].cmd.id # id}

expectedVersionOr(provided, current) == IF provided > 0 THEN provided ELSE current

\* Fault: the previous owner's interval stays open.
recordOwnership_NoClose(h, s) ==
    IF \E i \in DOMAIN h : h[i].valid_to = Null /\ h[i].ownership = s.ownership
    THEN h
    ELSE Append(h, [ownership |-> s.ownership, valid_from |-> s.updatedAt, valid_to |-> Null])

\* Fault: the new interval starts when the service was created.
recordOwnership_FromCreation(h, s) ==
    LET closed == [i \in DOMAIN h |->
            IF h[i].valid_to = Null /\ h[i].ownership # s.ownership
            THEN [h[i] EXCEPT !.valid_to = s.updatedAt] ELSE h[i]]
    IN  IF \E i \in DOMAIN closed : closed[i].valid_to = Null /\ closed[i].ownership = s.ownership
        THEN closed
        ELSE Append(closed, [ownership |-> s.ownership, valid_from |-> s.createdAt, valid_to |-> Null])

\* Close every open interval of another owner; open one unless the new owner's is open.
recordOwnership(h, s) ==
    LET closed == [i \in DOMAIN h |->
            IF h[i].valid_to = Null /\ h[i].ownership # s.ownership
            THEN [h[i] EXCEPT !.valid_to = s.updatedAt] ELSE h[i]]
    IN  IF \E i \in DOMAIN closed : closed[i].valid_to = Null /\ closed[i].ownership = s.ownership
        THEN closed
        ELSE Append(closed, [ownership |-> s.ownership, valid_from |-> s.updatedAt, valid_to |-> Null])

-----------------------------------------------------------------------------
(* RegisterService: aggregate, name check, insert, append, commit.         *)

BeginRegister(r) ==
    /\ tx[r] = Idle
    /\ \E id \in FreshID, n \in Name, o \in Ownership, now \in Now :
         LET c == [op |-> "RegisterService", id |-> id, name |-> n, ownership |-> o]
         IN  tx' = [tx EXCEPT ![r] =
                [pc |-> "new", cmd |-> c, ifMatch |-> 0, read |-> Null,
                 svc |-> Register(c, now), events |-> <<Registered(c, now)>>]]
    /\ UNCHANGED <<services, history, outbox, clock>>

FindByTenantAndName(r) ==
    /\ tx[r].pc = "new"
    /\ tx' = [tx EXCEPT ![r] =
            IF NameTaken(tx[r].cmd.name) THEN Idle ELSE [@ EXCEPT !.pc = "checked"]]
    /\ UNCHANGED <<services, history, outbox, clock>>

\* Fault: no unique index, the name check alone decides.
Insert_NoIndex(r) ==
    /\ tx[r].pc = "checked"
    /\ tx' = [tx EXCEPT ![r].pc = "written"]
    /\ UNCHANGED <<services, history, outbox, clock>>

\* The unique index makes the INSERT wait for an uncommitted row of that name.
Insert(r) ==
    /\ tx[r].pc = "checked"
    /\ ~NameLocked(r, tx[r].cmd.name)
    /\ tx' = [tx EXCEPT ![r] =
            IF NameTaken(tx[r].cmd.name) THEN Idle ELSE [@ EXCEPT !.pc = "written"]]
    /\ UNCHANGED <<services, history, outbox, clock>>

-----------------------------------------------------------------------------
(* mutate: read the row, run the domain method, update, append, commit.    *)

\* If-Match is absent or malformed (0), or a version some response carried.
FindByID(r) ==
    /\ tx[r] = Idle
    /\ \E c \in MutateCommand :
         /\ services[c.id] # Null
         /\ services[c.id].version < MaxVersion
         /\ Accepts(services[c.id], c)
         /\ \E m \in 0..(services[c.id].version + IfMatchAhead), now \in Now :
              tx' = [tx EXCEPT ![r] =
                [pc |-> "loaded", cmd |-> c, ifMatch |-> m, read |-> services[c.id],
                 svc |-> Applied(services[c.id], c, now),
                 events |-> Recorded(services[c.id], c, now)]]
    /\ UNCHANGED <<services, history, outbox, clock>>

\* Fault: UPDATE ... WHERE id, without the version predicate.
Update_AnyVersion(r) ==
    /\ tx[r].pc = "loaded"
    /\ ~RowLocked(r, tx[r].cmd.id)
    /\ tx' = [tx EXCEPT ![r].pc = "written"]
    /\ UNCHANGED <<services, history, outbox, clock>>

\* Fault: on a version conflict the statement is tried again instead of failing.
Update_Retry(r) ==
    /\ tx[r].pc = "loaded"
    /\ ~RowLocked(r, tx[r].cmd.id)
    /\ services[tx[r].cmd.id].version = expectedVersionOr(tx[r].ifMatch, tx[r].read.version)
    /\ tx' = [tx EXCEPT ![r].pc = "written"]
    /\ UNCHANGED <<services, history, outbox, clock>>

\* UPDATE ... WHERE version = expected waits for the row lock, then looks again.
Update(r) ==
    /\ tx[r].pc = "loaded"
    /\ ~RowLocked(r, tx[r].cmd.id)
    /\ tx' = [tx EXCEPT ![r] =
            IF services[@.cmd.id].version = expectedVersionOr(@.ifMatch, @.read.version)
            THEN [@ EXCEPT !.pc = "written"] ELSE Idle]
    /\ UNCHANGED <<services, history, outbox, clock>>

-----------------------------------------------------------------------------
(* The end of every transaction.                                           *)

\* Fault: the outbox writes on the pool, outside the transaction.
AppendEvents_OnPool(r) ==
    /\ tx[r].pc = "written"
    /\ outbox' = [outbox EXCEPT ![tx[r].cmd.id] = @ \o tx[r].events]
    /\ tx' = [tx EXCEPT ![r] = [@ EXCEPT !.pc = "appended", !.events = <<>>]]
    /\ UNCHANGED <<services, history, clock>>

\* Outbox.Append: the events join the transaction's writes.
AppendEvents(r) ==
    /\ tx[r].pc = "written"
    /\ tx' = [tx EXCEPT ![r].pc = "appended"]
    /\ UNCHANGED <<services, history, outbox, clock>>

Commit(r) ==
    /\ tx[r].pc = "appended"
    /\ LET id == tx[r].cmd.id
           s  == tx[r].svc
       IN  /\ services' = [services EXCEPT ![id] = s]
           /\ history' = [history EXCEPT ![id] = recordOwnership(@, s)]
           /\ outbox' = [outbox EXCEPT ![id] = @ \o tx[r].events]
    /\ tx' = [tx EXCEPT ![r] = Idle]
    /\ UNCHANGED clock

\* A failed statement, a request past its deadline, or a crashed API server.
Rollback(r) ==
    /\ tx[r] # Idle
    /\ tx' = [tx EXCEPT ![r] = Idle]
    /\ UNCHANGED <<services, history, outbox, clock>>

Tick ==
    /\ clock < MaxClock
    /\ clock' = clock + 1
    /\ UNCHANGED <<services, history, outbox, tx>>

Statement(r) ==
    \/ FindByTenantAndName(r)
    \/ Insert(r)
    \/ Update(r)
    \/ AppendEvents(r)
    \/ Commit(r)

Next ==
    \/ \E r \in Request : BeginRegister(r) \/ FindByID(r) \/ Statement(r) \/ Rollback(r)
    \/ Tick

Spec == Init /\ [][Next]_vars

(***************************************************************************)
(* A request that has begun goes on to its next statement, and Postgres    *)
(* hands a contended row or index entry to its waiters in turn.            *)
(***************************************************************************)
Fairness == \A r \in Request :
    WF_vars(Statement(r)) /\ SF_vars(Insert(r)) /\ SF_vars(Update(r))

FairSpec == Spec /\ Fairness

-----------------------------------------------------------------------------
(* Properties.                                                             *)

\* The variables hold what the schema and the Go types allow.
TypeOK ==
    /\ services \in [ServiceID -> Service \cup {Null}]
    /\ history \in [ServiceID -> Seq(Interval)]
    /\ outbox \in [ServiceID -> Seq(Event)]
    /\ clock \in Nat
    /\ tx \in [Request -> Tx]

\* A committed row in production has an on-call reference, although the rule is
\* checked on a copy read before the write (domain ChangeOwnership, ChangeLifecycle).
ProductionHasOnCall ==
    \A s \in ServiceID : services[s] # Null =>
        (services[s].lifecycle = "production" => hasOnCall(services[s].ownership))

\* The name check of RegisterService races, the unique index decides: two
\* committed services never share a (tenant, name).
UniqueNames ==
    \A s, u \in ServiceID :
        services[s] # Null /\ services[u] # Null /\ services[s].name = services[u].name => s = u

\* Every committed version of a service left exactly one event in the outbox and
\* every event belongs to a committed version (Outbox.Append inside Execute).
EventPerVersion ==
    \A s \in ServiceID :
        Len(outbox[s]) = IF services[s] = Null THEN 0 ELSE services[s].version

\* Exactly the newest history row of a service is open and it names the row's
\* owner: recordOwnership neither leaves two owners nor loses the current one.
HistoryMatchesRow ==
    \A s \in ServiceID : services[s] # Null =>
        /\ history[s] # <<>>
        /\ \A i \in DOMAIN history[s] : history[s][i].valid_to = Null <=> i = Len(history[s])
        /\ history[s][Len(history[s])].ownership = services[s].ownership

\* The validity intervals of a service run forward and follow each other without
\* a gap or an overlap, so every past instant has one owner (recordOwnership).
HistoryTiles ==
    \A s \in ServiceID : \A i \in DOMAIN history[s] :
        history[s][i].valid_to # Null =>
            /\ history[s][i].valid_from <= history[s][i].valid_to
            /\ i + 1 \in DOMAIN history[s]
            /\ history[s][i + 1].valid_from = history[s][i].valid_to

\* Events of a service carry occurred_at in the order they were committed, so a
\* consumer can order them by it (clock.Now is read after the row).
OccurredInOrder ==
    \A s \in ServiceID : \A i, j \in DOMAIN outbox[s] :
        i < j => outbox[s][i].at <= outbox[s][j].at

\* Every change names the version it was made against: no update is written for a
\* request that sent no If-Match (ifMatch, expectedVersionOr).
WritesAreConditional ==
    \A r \in Request :
        HasWritten(r) /\ tx[r].cmd.op # "RegisterService" => tx[r].ifMatch > 0

NextVersion ==
    \A s \in ServiceID : services[s] # Null /\ services'[s] # services[s] =>
        services'[s] # Null /\ services'[s].version = services[s].version + 1

\* A committed row changes only by one version at a time: no write lands on top of
\* one it did not see (Repository.Update's version predicate).
VersionedWrites == [][NextVersion]_services

\* Nothing changes a retired service or the events it left (domain methods under
\* concurrent writers).
RetiredIsFinal ==
    [][\A s \in ServiceID :
        services[s] # Null /\ services[s].lifecycle = "retired" =>
            services'[s] = services[s] /\ outbox'[s] = outbox[s]]_<<services, outbox>>

\* The transactions implement commands that take effect at one instant: no lost
\* update, no event without its change (Store.Execute, mutate, RegisterService).
Atomic == INSTANCE AtomicCatalog WITH Time <- 0..MaxClock

AtomicWrites == Atomic!Spec

(***************************************************************************)
(* The inductive invariant behind the safety properties, for clients whose *)
(* If-Match is a version they were sent (IfMatchAhead = 0).                *)
(***************************************************************************)

\* A registration in flight has an id no row and no other request uses.
RegisterStaged ==
    \A r \in Request : tx[r] # Idle /\ tx[r].cmd.op = "RegisterService" =>
        /\ tx[r].pc # "loaded"
        /\ services[tx[r].cmd.id] = Null
        /\ \A q \in Request \ {r} : tx[q] # Idle => tx[q].cmd.id # tx[r].cmd.id
        /\ \E now \in 0..MaxClock :
             tx[r].svc = Register(tx[r].cmd, now) /\ tx[r].events = <<Registered(tx[r].cmd, now)>>

\* A change in flight was computed from a row the service had; that row is older
\* than the committed one or is the committed one.
MutateStaged ==
    \A r \in Request : tx[r] # Idle /\ tx[r].cmd.op # "RegisterService" =>
        /\ tx[r].pc \notin {"new", "checked"}
        /\ tx[r].read # Null
        /\ services[tx[r].cmd.id] # Null
        /\ tx[r].read.version <= services[tx[r].cmd.id].version
        /\ tx[r].read.version = services[tx[r].cmd.id].version => tx[r].read = services[tx[r].cmd.id]
        /\ tx[r].ifMatch <= tx[r].read.version
        /\ Accepts(tx[r].read, tx[r].cmd)
        /\ \E now \in 0..MaxClock :
             /\ tx[r].svc = Applied(tx[r].read, tx[r].cmd, now)
             /\ tx[r].events = Recorded(tx[r].read, tx[r].cmd, now)

\* What a transaction has written it may still commit: an insert's name is free, an
\* update's row is the one it read (unique index, version predicate, row lock).
WrittenIsCurrent ==
    \A r \in Request : HasWritten(r) =>
        IF tx[r].cmd.op = "RegisterService"
        THEN ~NameTaken(tx[r].cmd.name)
        ELSE services[tx[r].cmd.id] = tx[r].read

\* Two transactions never hold the same row or the same name at once.
LocksExclusive ==
    \A r, q \in Request : r # q /\ HasWritten(r) /\ HasWritten(q) =>
        /\ tx[r].cmd.id # tx[q].cmd.id
        /\ tx[r].cmd.op = "RegisterService" /\ tx[q].cmd.op = "RegisterService" =>
             tx[r].cmd.name # tx[q].cmd.name

StagedInv ==
    /\ TypeOK
    /\ clock <= MaxClock
    /\ RegisterStaged
    /\ MutateStaged
    /\ WrittenIsCurrent
    /\ LocksExclusive

\* A service without a row has no history and no events.
NothingBeforeRow ==
    \A s \in ServiceID : services[s] = Null => history[s] = <<>> /\ outbox[s] = <<>>

\* With clocks that agree (Skew = 0), a row's stamp is past, no earlier than those of its
\* history and its events, and a change in flight is stamped after the row it read.
StampsInOrder ==
    /\ \A s \in ServiceID : services[s] # Null =>
        /\ services[s].updatedAt <= clock
        /\ \A i \in DOMAIN history[s] : history[s][i].valid_from <= services[s].updatedAt
        /\ \A i \in DOMAIN outbox[s] : outbox[s][i].at <= services[s].updatedAt
    /\ \A r \in Request : tx[r] # Idle =>
        /\ tx[r].svc.updatedAt <= clock
        /\ tx[r].cmd.op # "RegisterService" => tx[r].read.updatedAt <= tx[r].svc.updatedAt

\* Every request ends: no transaction waits for a lock for ever.
RequestsFinish ==
    \A r \in Request : tx[r] # Idle ~> tx[r] = Idle
=============================================================================
