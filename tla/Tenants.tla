------------------------------- MODULE Tenants -------------------------------
(***************************************************************************)
(* The tenant module's write path: concurrent CreateTenant, ChangeStatus   *)
(* and UpdateQuota requests, each one READ COMMITTED transaction over      *)
(* tenants and outbox_events (internal/modules/tenant).                    *)
(*                                                                         *)
(* As in Catalog there is one action per statement, what a transaction has *)
(* written is staged until Commit, and a transaction past its write holds  *)
(* the row's lock or its entry of the unique index.                        *)
(***************************************************************************)
EXTENDS TenantDomain

CONSTANTS
    Request,      \* requests in flight at once
    MaxVersion,   \* bound: no command starts on a row at this version
    IfMatchAhead  \* how far an If-Match may run ahead of the committed row

ASSUME TenantsAssumption == Quota \subseteq Nat /\ MaxVersion \in Nat /\ IfMatchAhead \in Nat

VARIABLES
    tenants,      \* the committed table
    outbox,       \* committed events of each tenant, oldest first
    tx            \* the transaction of each request

vars == <<tenants, outbox, tx>>

-----------------------------------------------------------------------------
(* Transactions.                                                           *)

Idle == [pc |-> "idle"]

Init ==
    /\ tenants = [t \in TenantID |-> Null]
    /\ outbox = [t \in TenantID |-> <<>>]
    /\ tx = [r \in Request |-> Idle]

Rollback(r) == tx' = [tx EXCEPT ![r] = Idle]

Writing(r) == tx[r].pc \in {"written", "appended"}

\* Another transaction holds the lock of the row that r writes.
RowLocked(r) == \E o \in Request \ {r} : Writing(o) /\ tx[o].cmd.id = tx[r].cmd.id

\* Another transaction has inserted r's slug and not ended yet.
SlugPending(r) == \E o \in Request \ {r} :
    Writing(o) /\ tx[o].cmd.op = "CreateTenant" /\ tx[o].cmd.slug = tx[r].cmd.slug

SlugTaken(s) == \E t \in TenantID : tenants[t] # Null /\ tenants[t].slug = s

BeginCreate(r, c) ==
    /\ tx[r] = Idle
    /\ tenants[c.id] = Null
    /\ \A o \in Request : tx[o] # Idle => tx[o].cmd.id # c.id
    /\ tx' = [tx EXCEPT ![r] = [pc |-> "new", cmd |-> c, expected |-> 0,
                                row |-> Create(c), events |-> <<Created(c)>>]]
    /\ UNCHANGED <<tenants, outbox>>

\* FindBySlug: the early answer to a slug that is taken.
FindBySlug(r) ==
    /\ tx[r].pc = "new"
    /\ IF SlugTaken(tx[r].row.slug) THEN Rollback(r) ELSE tx' = [tx EXCEPT ![r].pc = "checked"]
    /\ UNCHANGED <<tenants, outbox>>

\* Fault: the table has no unique constraint.
Insert_NoIndex(r) ==
    /\ tx[r].pc = "checked"
    /\ tx' = [tx EXCEPT ![r].pc = "written"]
    /\ UNCHANGED <<tenants, outbox>>

\* Insert waits for a concurrent insert of the slug and fails if that one committed.
Insert(r) ==
    /\ tx[r].pc = "checked"
    /\ ~ SlugPending(r)
    /\ IF SlugTaken(tx[r].row.slug) THEN Rollback(r) ELSE tx' = [tx EXCEPT ![r].pc = "written"]
    /\ UNCHANGED <<tenants, outbox>>

\* mutate: FindByID, then the domain method.  The If-Match is not compared with the version
\* just read; without one (0) expectedVersionOr takes that version.
FindByID(r, c, ifMatch) ==
    LET t == tenants[c.id] IN
    /\ tx[r] = Idle
    /\ t # Null
    /\ t.version < MaxVersion
    /\ Accepts(t, c)
    /\ ifMatch <= t.version + IfMatchAhead
    /\ tx' = [tx EXCEPT ![r] =
                [pc |-> "loaded", cmd |-> c, expected |-> IF ifMatch > 0 THEN ifMatch ELSE t.version,
                 row |-> Applied(t, c), events |-> Recorded(t, c)]]
    /\ UNCHANGED <<tenants, outbox>>

\* Fault: the version is not part of the condition.
Update_AnyVersion(r) ==
    /\ tx[r].pc = "loaded"
    /\ ~ RowLocked(r)
    /\ tx' = [tx EXCEPT ![r].pc = "written"]
    /\ UNCHANGED <<tenants, outbox>>

\* UPDATE ... WHERE version = expected, once no other transaction holds the row.
Update(r) ==
    /\ tx[r].pc = "loaded"
    /\ ~ RowLocked(r)
    /\ IF tenants[tx[r].cmd.id].version = tx[r].expected
       THEN tx' = [tx EXCEPT ![r].pc = "written"]
       ELSE Rollback(r)
    /\ UNCHANGED <<tenants, outbox>>

\* Fault: the events are appended outside the transaction.
AppendEvents_Outside(r) ==
    /\ tx[r].pc = "written"
    /\ tx' = [tx EXCEPT ![r].pc = "appended", ![r].events = <<>>]
    /\ outbox' = [outbox EXCEPT ![tx[r].cmd.id] = @ \o tx[r].events]
    /\ UNCHANGED tenants

AppendEvents(r) ==
    /\ tx[r].pc = "written"
    /\ tx' = [tx EXCEPT ![r].pc = "appended"]
    /\ UNCHANGED <<tenants, outbox>>

Commit(r) ==
    /\ tx[r].pc = "appended"
    /\ tenants' = [tenants EXCEPT ![tx[r].cmd.id] = tx[r].row]
    /\ outbox' = [outbox EXCEPT ![tx[r].cmd.id] = @ \o tx[r].events]
    /\ Rollback(r)

\* A statement fails, the context is cancelled or the process dies.
Abort(r) ==
    /\ tx[r] # Idle
    /\ Rollback(r)
    /\ UNCHANGED <<tenants, outbox>>

Next == \E r \in Request :
    \/ \E c \in CreateCommand : BeginCreate(r, c)
    \/ \E c \in MutateCommand, v \in 0..(MaxVersion + IfMatchAhead) : FindByID(r, c, v)
    \/ FindBySlug(r) \/ Insert(r) \/ Update(r) \/ AppendEvents(r) \/ Commit(r) \/ Abort(r)

Spec == Init /\ [][Next]_vars

-----------------------------------------------------------------------------
(* Properties.  All but UniqueSlugs take IfMatchAhead = 0.                 *)

Event ==
         [type : {"created"}, slug : Slug]
    \cup [type : {"quota_updated"}, quota : Quota]
    \cup [type : {"status_changed"}, from : Status, to : Status]

Tx == {Idle} \cup
    [pc : {"new", "checked", "loaded", "written", "appended"}, cmd : CreateCommand \cup MutateCommand,
     expected : Nat, row : Tenant, events : Seq(Event)]

TypeOK ==
    /\ tenants \in [TenantID -> Tenant \cup {Null}]
    /\ outbox \in [TenantID -> Seq(Event)]
    /\ tx \in [Request -> Tx]

\* A slug belongs to one tenant, however creates race.
UniqueSlugs == \A s, t \in TenantID :
    tenants[s] # Null /\ tenants[t] # Null /\ tenants[s].slug = tenants[t].slug => s = t

\* What a consumer of the events knows of the tenant after one more of them.
Hear(known, e) ==
    CASE e.type = "created"        -> [slug |-> e.slug, status |-> "active", quota |-> Null, version |-> 1]
      [] e.type = "quota_updated"  -> [known EXCEPT !.quota = e.quota, !.version = @ + 1]
      [] e.type = "status_changed" ->
            [known EXCEPT !.status = IF @ = e.from THEN e.to ELSE "broken", !.version = @ + 1]

\* What the consumer knows after all of them, in order.
Known(events) ==
    LET known[n \in 0..Len(events)] ==
            IF n = 0 THEN [status |-> "none"] ELSE Hear(known[n - 1], events[n])
    IN  known[Len(events)]

\* The events of a tenant, replayed, give its row: no update is lost, none is published
\* twice, and each status change starts where the one before ended.  TenantCreated does not
\* carry the quota, so a consumer knows it from the first TenantQuotaUpdated on.
EventsReplay == \A t \in TenantID : tenants[t] # Null =>
    LET known == Known(outbox[t]) IN
    /\ known.slug = tenants[t].slug
    /\ known.status = tenants[t].status
    /\ known.version = tenants[t].version
    /\ known.quota \in {Null, tenants[t].quota}

\* Archiving is final: no request in flight when a tenant is archived changes it later.
ArchivedIsFinal == [][\A t \in TenantID :
    tenants[t] # Null /\ tenants[t].status = "archived" => tenants'[t] = tenants[t]]_vars

Atomic == INSTANCE AtomicTenants

\* Requests that interleave statement by statement, fail and are rolled back implement
\* commands that each take effect at one instant on the row as it is then: Store.Execute's
\* transaction, the version in UPDATE's condition and the unique index see to it, for
\* clients whose If-Match is a version they were sent.
AtomicCommands == Atomic!Spec

-----------------------------------------------------------------------------
(* Why they hold, and which of it takes clients whose If-Match is a        *)
(* version they were sent (IfMatchAhead = 0).                              *)

Writes(x) == x.pc \in {"written", "appended"}

\* What mutation x is about to write, given its row: what its command makes of the row as
\* it is now, unless the row has moved past the version the UPDATE expects.
Current(x, t) ==
    /\ x.expected <= t.version
    /\ x.expected = t.version =>
           Accepts(t, x.cmd) /\ x.row = Applied(t, x.cmd) /\ x.events = Recorded(t, x.cmd)

\* What transaction x is about to write, given the table: a create a row that is not there
\* yet, under a slug that is free once it has inserted; a mutation a row with the same slug.
Holds(x, table) ==
    LET t == table[x.cmd.id] IN
    IF x.cmd.op = "CreateTenant"
    THEN /\ x.pc # "loaded" /\ t = Null
         /\ x.row = Create(x.cmd) /\ x.events = <<Created(x.cmd)>>
         /\ Writes(x) => ~ \E s \in TenantID : table[s] # Null /\ table[s].slug = x.cmd.slug
    ELSE /\ x.pc \in {"loaded", "written", "appended"}
         /\ t # Null /\ x.row.slug = t.slug
         /\ Writes(x) => x.expected = t.version
         /\ IfMatchAhead = 0 => Current(x, t)

\* Two transactions in flight keep clear of each other: a create has its id for itself,
\* one that has written has the row, or the slug, for itself.
Apart(x, y) ==
    /\ x.cmd.op = "CreateTenant" \/ y.cmd.op = "CreateTenant" => x.cmd.id # y.cmd.id
    /\ Writes(x) /\ Writes(y) => x.cmd.id # y.cmd.id
    /\ Writes(x) /\ Writes(y) /\ x.cmd.op = "CreateTenant" /\ y.cmd.op = "CreateTenant"
          => x.cmd.slug # y.cmd.slug

Staged ==
    /\ \A r \in Request : tx[r] # Idle => Holds(tx[r], tenants)
    /\ \A r, o \in Request : r # o /\ tx[r] # Idle /\ tx[o] # Idle => Apart(tx[r], tx[o])

\* What the events tell is the row, but for a quota that none has told yet.
Told(t) ==
    IF tenants[t] = Null THEN outbox[t] = <<>>
    ELSE Known(outbox[t]) \in
            [slug : {tenants[t].slug}, status : {tenants[t].status},
             quota : {Null, tenants[t].quota}, version : {tenants[t].version}]

TenantsInv ==
    /\ TypeOK /\ Staged /\ UniqueSlugs
    /\ IfMatchAhead = 0 => \A t \in TenantID : Told(t)
=============================================================================
