---------------------------- MODULE TenantsProofs ----------------------------
(***************************************************************************)
(* TenantsInv (module Tenants) is an invariant, for any number of tenants, *)
(* slugs and requests and any If-Match; slugs are unique.  For clients     *)
(* whose If-Match is a version they were sent, the events replay to the    *)
(* row, archiving is final, and the transactions implement atomic commands.*)
(***************************************************************************)
EXTENDS Tenants, TLAPS

\* The time the provers may take for a step.
USE SMTT(60)

-----------------------------------------------------------------------------
(* Replaying events.  Known(h) is a value of a recursive function on       *)
(* 0..Len(h).  That the function exists, and where it ends, is carried     *)
(* along by the invariant: one more event extends it.                      *)

Unknown == [status |-> "none"]

\* What is known after each of the first n events.
Replays(f, h, n) == f = [k \in 0..n |-> IF k = 0 THEN Unknown ELSE Hear(f[k - 1], h[k])]

\* The replay of h exists and ends in K.
Replayed(h, K) ==
    /\ \E f : Replays(f, h, Len(h))
    /\ \A f : Replays(f, h, Len(h)) => f[Len(h)] \in K

\* Known is where the replay ends.
LEMMA ReplayedKnown ==
    ASSUME NEW h, NEW K, Replayed(h, K)
    PROVE  Known(h) \in K
  <1> DEFINE F == CHOOSE f : Replays(f, h, Len(h))
  <1>1. Known(h) = F[Len(h)]
    BY ZenonT(60) DEF Known, Replays, Unknown
  <1>2. Replays(F, h, Len(h))
    BY ZenonT(60) DEF Replayed
  <1> HIDE DEF F
  <1> QED BY <1>1, <1>2, ZenonT(60) DEF Replayed

\* A replay starts with nothing known and hears one event at a time.
LEMMA ReplayStep ==
    ASSUME NEW h, NEW n \in Nat, NEW f, Replays(f, h, n)
    PROVE  /\ f[0] = Unknown
           /\ \A k \in 1..n : f[k] = Hear(f[k - 1], h[k])
  <1>1. \A k \in 0..n : f[k] = IF k = 0 THEN Unknown ELSE Hear(f[k - 1], h[k])
    BY ZenonT(60) DEF Replays
  <1>2. 0 \in 0..n /\ \A k \in 1..n : k \in 0..n /\ k # 0
    OBVIOUS
  <1> QED BY <1>1, <1>2, ZenonT(60)

\* Without events nothing is known.
LEMMA ReplayedEmpty == Replayed(<<>>, {Unknown})
  <1> DEFINE z == [k \in 0..0 |-> Unknown]
  <1>1. Len(<<>>) = 0 /\ 0 \in Nat
    OBVIOUS
  <1>2. z = [k \in 0..0 |-> IF k = 0 THEN Unknown ELSE Hear(z[k - 1], <<>>[k])]
    <2>1. \A k \in 0..0 : k = 0
      OBVIOUS
    <2> QED BY <2>1, ZenonT(60)
  <1> HIDE DEF z
  <1>3. Replays(z, <<>>, 0)
    BY <1>2, ZenonT(60) DEF Replays
  <1>4. \A f : Replays(f, <<>>, 0) => f[0] = Unknown
    BY <1>1, ReplayStep, ZenonT(60)
  <1> QED BY <1>1, <1>3, <1>4, ZenonT(60) DEF Replayed

\* One more event is heard last.
LEMMA ReplayedAppend ==
    ASSUME NEW h \in Seq(Event), NEW e \in Event, NEW K, NEW L,
           Replayed(h, K), \A k \in K : Hear(k, e) \in L
    PROVE  Replayed(h \o <<e>>, L)
  <1> DEFINE n == Len(h)
             g == h \o <<e>>
  <1>1. /\ n \in Nat /\ n + 1 \in Nat /\ Len(g) = n + 1 /\ g[n + 1] = e
        /\ \A k \in 1..n : g[k] = h[k]
    OBVIOUS
  <1>2. (\E f : Replays(f, h, n)) /\ \A f : Replays(f, h, n) => f[n] \in K
    BY ZenonT(60) DEF Replayed
  <1> HIDE DEF n, g
  <1>3. \E f : Replays(f, g, n + 1)
    <2>1. PICK f : Replays(f, h, n)
      BY <1>2, ZenonT(60)
    <2>2. f[0] = Unknown /\ \A k \in 1..n : f[k] = Hear(f[k - 1], h[k])
      BY <1>1, <2>1, ReplayStep, ZenonT(60)
    <2> DEFINE w == [k \in 0..(n + 1) |-> IF k = n + 1 THEN Hear(f[n], e) ELSE f[k]]
               W(k) == IF k = 0 THEN Unknown ELSE Hear(w[k - 1], g[k])
    <2>3. ASSUME NEW k \in 0..(n + 1) PROVE w[k] = W(k)
      <3>1. CASE k = n + 1
        <4>1. k # 0 /\ k - 1 = n /\ n \in 0..(n + 1) /\ n # n + 1
          BY <1>1, <3>1
        <4>2. w[n] = f[n] /\ w[k] = Hear(f[n], g[k])
          BY <1>1, <3>1, <4>1, ZenonT(60)
        <4> QED BY <4>1, <4>2, ZenonT(60)
      <3>2. CASE k # n + 1 /\ k # 0
        <4>1. k \in 1..n /\ k - 1 \in 0..(n + 1) /\ k - 1 # n + 1
          BY <1>1, <3>2
        <4>2. w[k - 1] = f[k - 1] /\ w[k] = f[k]
          BY <3>2, <4>1, ZenonT(60)
        <4> QED BY <1>1, <2>2, <3>2, <4>1, <4>2, ZenonT(60)
      <3>3. CASE k = 0
        <4>1. 0 # n + 1 /\ 0 \in 0..(n + 1)
          BY <1>1
        <4> QED BY <2>2, <3>3, <4>1, ZenonT(60)
      <3> QED BY <3>1, <3>2, <3>3
    <2>4. w = [k \in 0..(n + 1) |-> W(k)]
      BY <2>3, ZenonT(60)
    <2> HIDE DEF w
    <2> QED BY <2>4, ZenonT(60) DEF Replays
  <1>4. ASSUME NEW w, Replays(w, g, n + 1) PROVE w[n + 1] \in L
    <2>1. w[0] = Unknown /\ \A k \in 1..(n + 1) : w[k] = Hear(w[k - 1], g[k])
      BY <1>1, <1>4, ReplayStep, ZenonT(60)
    <2> DEFINE f == [k \in 0..n |-> w[k]]
               W(k) == IF k = 0 THEN Unknown ELSE Hear(f[k - 1], h[k])
    <2>2. ASSUME NEW k \in 0..n PROVE f[k] = W(k)
      <3>1. CASE k = 0
        BY <2>1, <3>1, ZenonT(60)
      <3>2. CASE k # 0
        <4>1. k \in 1..n /\ k \in 1..(n + 1) /\ k - 1 \in 0..n
          BY <1>1, <3>2
        <4> QED BY <1>1, <2>1, <3>2, <4>1, ZenonT(60)
      <3> QED BY <3>1, <3>2
    <2>3. f = [k \in 0..n |-> W(k)]
      BY <2>2, ZenonT(60)
    <2>4. n \in 0..n /\ n + 1 \in 1..(n + 1) /\ (n + 1) - 1 = n
      BY <1>1
    <2>5. f[n] = w[n]
      BY <2>4, ZenonT(60)
    <2> HIDE DEF f
    <2>6. f[n] \in K
      BY <1>2, <2>3, ZenonT(60) DEF Replays
    <2>7. w[n + 1] = Hear(w[n], e)
      BY <1>1, <2>1, <2>4, ZenonT(60)
    <2> QED BY <2>5, <2>6, <2>7, ZenonT(60)
  <1> QED BY <1>1, <1>3, <1>4, ZenonT(60) DEF Replayed, g

-----------------------------------------------------------------------------
(* The aggregate's steps, and what a consumer makes of their events.       *)

\* What a consumer who heard everything knows of row t.
Knowledge(t) ==
    [slug : {t.slug}, status : {t.status}, quota : {Null, t.quota}, version : {t.version}]

\* A new tenant's row, and its event, which tells all of it but the quota.
LEMMA CreateStep ==
    ASSUME NEW c \in CreateCommand, NEW k
    PROVE  /\ Create(c) \in Tenant /\ Create(c).slug = c.slug /\ Created(c) \in Event
           /\ Hear(k, Created(c)) \in Knowledge(Create(c))
  <1>1. Create(c) \in Tenant /\ Create(c).slug = c.slug /\ Created(c) \in Event
    BY DEF CreateCommand, Create, Created, Tenant, Event, Status, statusTransitions
  <1>2. Hear(k, Created(c)) = [slug |-> c.slug, status |-> "active", quota |-> Null, version |-> 1]
    BY DEF Hear, Created
  <1> QED BY <1>1, <1>2 DEF Knowledge, Create

\* touch advances the version and nothing else.
LEMMA TouchStep ==
    ASSUME NEW t \in Tenant
    PROVE  /\ touch(t) \in Tenant /\ touch(t).slug = t.slug /\ touch(t).status = t.status
           /\ touch(t).quota = t.quota /\ touch(t).version = t.version + 1
  BY DEF Tenant, touch

\* An accepted change of status or quota that does something: one event, which tells it.
LEMMA AppliedStep ==
    ASSUME NEW t \in Tenant, NEW c \in MutateCommand
    PROVE  /\ Applied(t, c) \in Tenant /\ Applied(t, c).slug = t.slug
           /\ \/ Applied(t, c) = t /\ Recorded(t, c) = <<>>
              \/ /\ Applied(t, c).version = t.version + 1
                 /\ \E e \in Event : /\ Recorded(t, c) = <<e>>
                                     /\ \A k \in Knowledge(t) : Hear(k, e) \in Knowledge(Applied(t, c))
  <1>1. CASE IsNoOp(t, c)
    <2>1. c.op # "UpdateQuota"
      BY <1>1 DEF IsNoOp
    <2>2. Applied(t, c) = t /\ Recorded(t, c) = <<>>
      BY <1>1, <2>1 DEF Applied, Recorded
    <2> QED BY <2>2
  <1>2. CASE ~ IsNoOp(t, c) /\ c.op = "ChangeStatus"
    <2>1. c.status \in Status
      BY <1>2 DEF MutateCommand
    <2> DEFINE u == [t EXCEPT !.status = c.status]
               v == touch(u)
               e == [type |-> "status_changed", from |-> t.status, to |-> c.status]
    <2>2. u \in Tenant /\ u.slug = t.slug /\ u.status = c.status /\ u.quota = t.quota /\ u.version = t.version
      BY <2>1 DEF Tenant
    <2>3. Applied(t, c) = v /\ Recorded(t, c) = <<e>>
      BY <1>2 DEF Applied, Recorded
    <2>4. e \in Event /\ e.type = "status_changed" /\ e.from = t.status /\ e.to = c.status
      BY <2>1 DEF Event, Tenant
    <2> HIDE DEF u, e
    <2>5. v \in Tenant /\ v.slug = t.slug /\ v.status = c.status /\ v.quota = t.quota /\ v.version = t.version + 1
      BY <2>2, TouchStep
    <2> HIDE DEF v
    <2>6. ASSUME NEW k \in Knowledge(t) PROVE Hear(k, e) \in Knowledge(v)
      <3>1. Hear(k, e) = [[k EXCEPT !.status = IF @ = e.from THEN e.to ELSE "broken"] EXCEPT !.version = @ + 1]
        BY <2>4 DEF Hear
      <3> DEFINE w == [k EXCEPT !.status = IF @ = e.from THEN e.to ELSE "broken"]
      <3>2. w \in [slug : {t.slug}, status : {c.status}, quota : {Null, t.quota}, version : {t.version}]
        BY <2>4 DEF Knowledge
      <3> HIDE DEF w
      <3>3. [w EXCEPT !.version = @ + 1] \in Knowledge(v)
        BY <2>5, <3>2 DEF Knowledge
      <3> QED BY <3>1, <3>3 DEF w
    <2> QED BY <2>3, <2>4, <2>5, <2>6
  <1>3. CASE ~ IsNoOp(t, c) /\ c.op = "UpdateQuota"
    <2>1. c.quota \in Quota
      BY <1>3 DEF MutateCommand
    <2> DEFINE u == [t EXCEPT !.quota = c.quota]
               v == touch(u)
               e == [type |-> "quota_updated", quota |-> c.quota]
    <2>2. u \in Tenant /\ u.slug = t.slug /\ u.status = t.status /\ u.quota = c.quota /\ u.version = t.version
      BY <2>1 DEF Tenant
    <2>3. Applied(t, c) = v /\ Recorded(t, c) = <<e>>
      BY <1>3 DEF Applied, Recorded
    <2>4. e \in Event /\ e.type = "quota_updated" /\ e.quota = c.quota
      BY <2>1 DEF Event
    <2> HIDE DEF u, e
    <2>5. v \in Tenant /\ v.slug = t.slug /\ v.status = t.status /\ v.quota = c.quota /\ v.version = t.version + 1
      BY <2>2, TouchStep
    <2> HIDE DEF v
    <2>6. ASSUME NEW k \in Knowledge(t) PROVE Hear(k, e) \in Knowledge(v)
      <3>1. Hear(k, e) = [[k EXCEPT !.quota = e.quota] EXCEPT !.version = @ + 1]
        BY <2>4 DEF Hear
      <3> DEFINE w == [k EXCEPT !.quota = e.quota]
      <3>2. w \in [slug : {t.slug}, status : {t.status}, quota : {c.quota}, version : {t.version}]
        BY <2>4 DEF Knowledge
      <3> HIDE DEF w
      <3>3. [w EXCEPT !.version = @ + 1] \in Knowledge(v)
        BY <2>5, <3>2 DEF Knowledge
      <3> QED BY <3>1, <3>3 DEF w
    <2> QED BY <2>3, <2>4, <2>5, <2>6
  <1> QED BY <1>1, <1>2, <1>3 DEF MutateCommand

\* An archived tenant accepts no change that does something.
LEMMA ArchivedIsNoOp ==
    ASSUME NEW t \in Tenant, NEW c \in MutateCommand, t.status = "archived", Accepts(t, c)
    PROVE  Applied(t, c) = t
  <1>1. statusTransitions[t.status] = {}
    BY DEF statusTransitions
  <1>2. c.op = "ChangeStatus"
    BY ZenonT(60) DEF MutateCommand, Accepts
  <1>3. c.status = t.status
    BY <1>1, <1>2 DEF Accepts
  <1> QED BY <1>2, <1>3 DEF Applied, IsNoOp

-----------------------------------------------------------------------------
(* The statements of a transaction.                                        *)

\* A transaction in flight, field by field.
LEMMA TxFields ==
    ASSUME TypeOK, NEW r \in Request, tx[r] # Idle
    PROVE  /\ tx[r] \in [pc : {"new", "checked", "loaded", "written", "appended"},
                         cmd : CreateCommand \cup MutateCommand,
                         expected : Nat, row : Tenant, events : Seq(Event)]
           /\ tx[r].pc \in {"new", "checked", "loaded", "written", "appended"}
           /\ tx[r].cmd \in CreateCommand \cup MutateCommand /\ tx[r].cmd.id \in TenantID
           /\ tx[r].expected \in Nat /\ tx[r].row \in Tenant /\ tx[r].events \in Seq(Event)
           /\ tx[r].cmd.op = "CreateTenant" => tx[r].cmd \in CreateCommand
           /\ tx[r].cmd.op # "CreateTenant" => tx[r].cmd \in MutateCommand
  <1> DEFINE x == tx[r]
  <1>1. x \in [pc : {"new", "checked", "loaded", "written", "appended"},
               cmd : CreateCommand \cup MutateCommand,
               expected : Nat, row : Tenant, events : Seq(Event)]
    BY DEF TypeOK, Tx
  <1> HIDE DEF x
  <1>2. /\ x.pc \in {"new", "checked", "loaded", "written", "appended"}
        /\ x.cmd \in CreateCommand \cup MutateCommand
        /\ x.expected \in Nat /\ x.row \in Tenant /\ x.events \in Seq(Event)
    BY <1>1
  <1>3. \A c \in CreateCommand \cup MutateCommand :
            /\ c.id \in TenantID
            /\ c.op = "CreateTenant" => c \in CreateCommand
            /\ c.op # "CreateTenant" => c \in MutateCommand
    BY DEF CreateCommand, MutateCommand
  <1> QED BY <1>1, <1>2, <1>3 DEF x

\* A transaction moves on to its next statement.
LEMMA TxMove ==
    ASSUME TypeOK, NEW r \in Request, tx[r] # Idle,
           NEW p \in {"new", "checked", "loaded", "written", "appended"},
           tx' = [tx EXCEPT ![r].pc = p]
    PROVE  \E x \in Tx : /\ tx' = [tx EXCEPT ![r] = x] /\ x # Idle
                         /\ x.pc = p /\ x.cmd = tx[r].cmd /\ x.expected = tx[r].expected
                         /\ x.row = tx[r].row /\ x.events = tx[r].events
  <1> DEFINE x == [tx[r] EXCEPT !.pc = p]
  <1>1. tx' = [tx EXCEPT ![r] = x]
    BY DEF TypeOK
  <1>2. x \in [pc : {"new", "checked", "loaded", "written", "appended"},
               cmd : CreateCommand \cup MutateCommand,
               expected : Nat, row : Tenant, events : Seq(Event)]
    BY TxFields
  <1>3. /\ x.pc = p /\ x.cmd = tx[r].cmd /\ x.expected = tx[r].expected
        /\ x.row = tx[r].row /\ x.events = tx[r].events
    BY TxFields
  <1> HIDE DEF x
  <1>4. x \in Tx /\ x # Idle
    BY <1>2, <1>3 DEF Tx, Idle
  <1> QED BY <1>1, <1>3, <1>4, ZenonT(60)

\* One transaction takes a step and the tables stay as they are.
LEMMA TxStep ==
    ASSUME TypeOK, Staged, NEW r \in Request, NEW x \in Tx, tx' = [tx EXCEPT ![r] = x],
           UNCHANGED <<tenants, outbox>>,
           x # Idle => Holds(x, tenants),
           \A o \in Request \ {r} : x # Idle /\ tx[o] # Idle => Apart(x, tx[o]) /\ Apart(tx[o], x)
    PROVE  TypeOK' /\ Staged'
  <1>1. /\ tx' \in [Request -> Tx]
        /\ \A o \in Request : tx'[o] = IF o = r THEN x ELSE tx[o]
    BY DEF TypeOK
  <1>2. TypeOK'
    BY <1>1 DEF TypeOK
  <1>3. \A o \in Request : tx'[o] # Idle => Holds(tx'[o], tenants)
    BY <1>1 DEF Staged
  <1>4. \A q, o \in Request : q # o /\ tx'[q] # Idle /\ tx'[o] # Idle => Apart(tx'[q], tx'[o])
    BY <1>1 DEF Staged
  <1> QED BY <1>2, <1>3, <1>4 DEF Staged

\* A transaction that ends without having written frees what it held.
LEMMA RollbackKeeps ==
    ASSUME TypeOK, Staged, NEW r \in Request, Rollback(r), UNCHANGED <<tenants, outbox>>
    PROVE  TypeOK' /\ Staged'
  BY TxStep, Idle \in Tx, ZenonT(60) DEF Rollback, Tx

\* BeginCreate takes an id that neither the table nor a transaction in flight has.
LEMMA BeginCreateKeeps ==
    ASSUME TypeOK, Staged, NEW r \in Request, NEW c \in CreateCommand, BeginCreate(r, c)
    PROVE  TypeOK' /\ Staged'
  <1> DEFINE x == [pc |-> "new", cmd |-> c, expected |-> 0, row |-> Create(c), events |-> <<Created(c)>>]
  <1>1. Create(c) \in Tenant /\ <<Created(c)>> \in Seq(Event)
    BY CreateStep
  <1>2. x \in Tx /\ x # Idle
    BY <1>1 DEF Tx, Idle
  <1>3. /\ x.pc = "new" /\ x.cmd = c /\ x.row = Create(c) /\ x.events = <<Created(c)>>
        /\ c.op = "CreateTenant" /\ tx' = [tx EXCEPT ![r] = x]
    BY DEF BeginCreate, CreateCommand
  <1> HIDE DEF x
  <1>4. Holds(x, tenants)
    BY <1>3 DEF BeginCreate, Holds, Writes
  <1>5. \A o \in Request \ {r} : tx[o] # Idle => Apart(x, tx[o]) /\ Apart(tx[o], x)
    BY <1>3 DEF BeginCreate, Apart, Writes
  <1> QED BY <1>2, <1>3, <1>4, <1>5, TxStep, ZenonT(60) DEF BeginCreate

\* FindByID computes from the row as it is; an If-Match no newer than the row keeps what
\* it computes from being stored over another version.
LEMMA FindByIDKeeps ==
    ASSUME TypeOK, Staged, NEW r \in Request, NEW c \in MutateCommand, NEW v \in Nat, FindByID(r, c, v)
    PROVE  TypeOK' /\ Staged'
  <1> DEFINE t == tenants[c.id]
             n == IF v > 0 THEN v ELSE t.version
             x == [pc |-> "loaded", cmd |-> c, expected |-> n, row |-> Applied(t, c), events |-> Recorded(t, c)]
  <1>1. c.id \in TenantID /\ c.op # "CreateTenant" /\ c \in CreateCommand \cup MutateCommand
    BY DEF MutateCommand
  <1>2. /\ t \in Tenant /\ t # Null /\ t.version \in Nat /\ Accepts(t, c)
        /\ v <= t.version + IfMatchAhead
        /\ tx' = [tx EXCEPT ![r] = x]
    BY <1>1 DEF TypeOK, FindByID, Tenant
  <1>3. n \in Nat /\ (IfMatchAhead = 0 => n <= t.version)
    BY <1>2
  <1>4. Applied(t, c) \in Tenant /\ Applied(t, c).slug = t.slug /\ Recorded(t, c) \in Seq(Event)
    <2>1. t \in Tenant
      BY <1>2
    <2> HIDE DEF t
    <2>2. /\ Applied(t, c) \in Tenant /\ Applied(t, c).slug = t.slug
          /\ Recorded(t, c) = <<>> \/ \E e \in Event : Recorded(t, c) = <<e>>
      BY <2>1, AppliedStep, ZenonT(60)
    <2>3. <<>> \in Seq(Event) /\ \A e \in Event : <<e>> \in Seq(Event)
      OBVIOUS
    <2> QED BY <2>2, <2>3, ZenonT(60)
  <1> HIDE DEF n
  <1>5. x \in Tx /\ x # Idle
    BY <1>1, <1>3, <1>4 DEF Tx, Idle
  <1>6. x.pc = "loaded" /\ x.cmd = c /\ x.expected = n /\ x.row = Applied(t, c) /\ x.events = Recorded(t, c)
    OBVIOUS
  <1> HIDE DEF x
  <1>7. Holds(x, tenants)
    BY <1>1, <1>2, <1>3, <1>4, <1>6 DEF Holds, Current, Writes
  <1>8. \A o \in Request \ {r} : tx[o] # Idle => Apart(x, tx[o]) /\ Apart(tx[o], x)
    <2> SUFFICES ASSUME NEW o \in Request \ {r}, tx[o] # Idle PROVE Apart(x, tx[o]) /\ Apart(tx[o], x)
      OBVIOUS
    <2>1. tx[o].cmd.op = "CreateTenant" => tx[o].cmd.id # c.id
      BY <1>2 DEF Staged, Holds
    <2> QED BY <1>1, <1>6, <2>1 DEF Apart, Writes
  <1> QED BY <1>2, <1>5, <1>7, <1>8, TxStep, ZenonT(60) DEF FindByID

\* The statements between the first and Commit: each moves its transaction on, and one
\* that starts to write has waited for whoever had the row or the slug.
LEMMA MoveKeeps ==
    ASSUME TypeOK, Staged, NEW r \in Request,
           FindBySlug(r) \/ Insert(r) \/ Update(r) \/ AppendEvents(r)
    PROVE  TypeOK' /\ Staged'
  <1>0. tx[r] # Idle /\ UNCHANGED <<tenants, outbox>>
    BY DEF FindBySlug, Insert, Update, AppendEvents, Idle
  <1>1. CASE Rollback(r)
    BY <1>0, <1>1, RollbackKeeps
  <1>2. CASE tx[r].pc = "new" /\ tx' = [tx EXCEPT ![r].pc = "checked"]
    <2>1. PICK x \in Tx : /\ tx' = [tx EXCEPT ![r] = x] /\ x # Idle
                          /\ x.pc = "checked" /\ x.cmd = tx[r].cmd /\ x.expected = tx[r].expected
                          /\ x.row = tx[r].row /\ x.events = tx[r].events
      BY <1>0, <1>2, TxMove, ZenonT(60)
    <2>2. Holds(x, tenants)
      BY <1>0, <1>2, <2>1 DEF Staged, Holds, Current, Writes
    <2>3. \A o \in Request \ {r} : tx[o] # Idle => Apart(x, tx[o]) /\ Apart(tx[o], x)
      BY <1>0, <2>1 DEF Staged, Apart, Writes
    <2> QED BY <1>0, <2>1, <2>2, <2>3, TxStep, ZenonT(60)
  <1>3. CASE Insert(r) /\ ~ Rollback(r)
    <2>1. PICK x \in Tx : /\ tx' = [tx EXCEPT ![r] = x] /\ x # Idle
                          /\ x.pc = "written" /\ x.cmd = tx[r].cmd /\ x.expected = tx[r].expected
                          /\ x.row = tx[r].row /\ x.events = tx[r].events
      BY <1>0, <1>3, TxMove DEF Insert
    <2>2. /\ tx[r].cmd.op = "CreateTenant" /\ tx[r].cmd \in CreateCommand
          /\ tx[r].row = Create(tx[r].cmd) /\ tx[r].row.slug = tx[r].cmd.slug
      <3>1. tx[r].pc = "checked" /\ Holds(tx[r], tenants)
        BY <1>0, <1>3 DEF Staged, Insert
      <3>2. tx[r].cmd.op = "CreateTenant" /\ tx[r].row = Create(tx[r].cmd)
        BY <3>1 DEF Holds
      <3> QED BY <1>0, <3>2, TxFields, CreateStep
    <2>3. Holds(x, tenants)
      <3>1. Holds(tx[r], tenants)
        BY <1>0 DEF Staged
      <3>2. tenants[tx[r].cmd.id] = Null /\ tx[r].events = <<Created(tx[r].cmd)>>
        BY <2>2, <3>1 DEF Holds
      <3>3. ~ SlugTaken(tx[r].cmd.slug)
        BY <1>3, <2>2, ZenonT(60) DEF Insert
      <3> QED BY <2>1, <2>2, <3>2, <3>3 DEF Holds, SlugTaken
    <2>4. \A o \in Request \ {r} : tx[o] # Idle => Apart(x, tx[o]) /\ Apart(tx[o], x)
      <3> SUFFICES ASSUME NEW o \in Request \ {r}, tx[o] # Idle PROVE Apart(x, tx[o]) /\ Apart(tx[o], x)
        OBVIOUS
      <3>1. Apart(tx[r], tx[o]) /\ Apart(tx[o], tx[r])
        BY <1>0 DEF Staged
      <3>2. ~ (Writes(tx[o]) /\ tx[o].cmd.op = "CreateTenant" /\ tx[o].cmd.slug = tx[r].cmd.slug)
        BY <1>3, ZenonT(60) DEF Insert, SlugPending, Writing, Writes
      <3>3. tx[o].cmd.id # tx[r].cmd.id
        BY <2>2, <3>1 DEF Apart
      <3> QED BY <2>1, <3>2, <3>3 DEF Apart
    <2> QED BY <1>0, <2>1, <2>3, <2>4, TxStep, ZenonT(60)
  <1>4. CASE Update(r) /\ ~ Rollback(r)
    <2>1. PICK x \in Tx : /\ tx' = [tx EXCEPT ![r] = x] /\ x # Idle
                          /\ x.pc = "written" /\ x.cmd = tx[r].cmd /\ x.expected = tx[r].expected
                          /\ x.row = tx[r].row /\ x.events = tx[r].events
      BY <1>0, <1>4, TxMove DEF Update
    <2>2. tx[r].cmd.op # "CreateTenant"
      BY <1>0, <1>4 DEF Staged, Holds, Update
    <2>3. Holds(x, tenants)
      <3>1. Holds(tx[r], tenants)
        BY <1>0 DEF Staged
      <3>2. tenants[tx[r].cmd.id].version = tx[r].expected
        BY <1>4, ZenonT(60) DEF Update
      <3> QED BY <2>1, <2>2, <3>1, <3>2 DEF Holds, Current
    <2>4. \A o \in Request \ {r} : tx[o] # Idle => Apart(x, tx[o]) /\ Apart(tx[o], x)
      BY <1>0, <1>4, <2>1, <2>2 DEF Staged, Apart, Writes, Update, RowLocked, Writing
    <2> QED BY <1>0, <2>1, <2>3, <2>4, TxStep, ZenonT(60)
  <1>5. CASE AppendEvents(r)
    <2>1. PICK x \in Tx : /\ tx' = [tx EXCEPT ![r] = x] /\ x # Idle
                          /\ x.pc = "appended" /\ x.cmd = tx[r].cmd /\ x.expected = tx[r].expected
                          /\ x.row = tx[r].row /\ x.events = tx[r].events
      BY <1>0, <1>5, TxMove, ZenonT(60) DEF AppendEvents
    <2>2. tx[r].pc = "written"
      BY <1>5 DEF AppendEvents
    <2>3. Holds(x, tenants)
      BY <1>0, <2>1, <2>2, ZenonT(60) DEF Staged, Holds, Current, Writes
    <2>4. \A o \in Request \ {r} : tx[o] # Idle => Apart(x, tx[o]) /\ Apart(tx[o], x)
      BY <1>0, <2>1, <2>2 DEF Staged, Apart, Writes
    <2> QED BY <1>0, <2>1, <2>3, <2>4, TxStep, ZenonT(60)
  <1> QED BY <1>1, <1>2, <1>3, <1>4, <1>5 DEF FindBySlug

-----------------------------------------------------------------------------
(* Commit.                                                                 *)

\* Transaction x puts row new in the place of old: a new row, the same row and no event,
\* or the next version and its one event.
Change(x, old, new) ==
    \/ /\ x.cmd.op = "CreateTenant" /\ old = Null /\ new.slug = x.cmd.slug
       /\ \E e \in Event : x.events = <<e>> /\ \A k : Hear(k, e) \in Knowledge(new)
    \/ x.cmd.op # "CreateTenant" /\ old \in Tenant /\ new = old /\ x.events = <<>>
    \/ /\ x.cmd.op # "CreateTenant" /\ old \in Tenant
       /\ old.status # "archived" /\ new.slug = old.slug /\ new.version = old.version + 1
       /\ \E e \in Event : x.events = <<e>> /\ \A k \in Knowledge(old) : Hear(k, e) \in Knowledge(new)

\* What Commit stores has a slug that is no other tenant's; with no If-Match ahead of the row
\* it is what the command makes of the row that is there now.
LEMMA CommitStores ==
    ASSUME TypeOK, Staged, UniqueSlugs, NEW r \in Request, Commit(r)
    PROVE  /\ tx[r].cmd.id \in TenantID /\ tx[r].row \in Tenant /\ tx[r] # Idle /\ Writes(tx[r])
           /\ \A s \in TenantID \ {tx[r].cmd.id} : tenants[s] # Null => tenants[s].slug # tx[r].row.slug
           /\ \/ /\ tx[r].cmd.op = "CreateTenant" /\ tenants[tx[r].cmd.id] = Null
                 /\ tx[r].row.slug = tx[r].cmd.slug
              \/ /\ tx[r].cmd.op # "CreateTenant" /\ tenants[tx[r].cmd.id] \in Tenant
                 /\ tx[r].row.slug = tenants[tx[r].cmd.id].slug
           /\ IfMatchAhead = 0 => Change(tx[r], tenants[tx[r].cmd.id], tx[r].row)
  <1> DEFINE i == tx[r].cmd.id
             old == tenants[i]
             new == tx[r].row
  <1>1. tx[r] # Idle /\ tx[r].pc = "appended" /\ Writes(tx[r])
    BY DEF Commit, Idle, Writes
  <1>2. i \in TenantID /\ new \in Tenant
    BY <1>1, TxFields
  <1>3. Holds(tx[r], tenants)
    BY <1>1 DEF Staged
  <1>4. CASE tx[r].cmd.op = "CreateTenant"
    <2>1. PICK c \in CreateCommand : c = tx[r].cmd
      BY <1>1, <1>4, TxFields
    <2>2. /\ old = Null /\ new = Create(c) /\ tx[r].events = <<Created(c)>>
          /\ ~ \E s \in TenantID : tenants[s] # Null /\ tenants[s].slug = c.slug
      BY <1>1, <1>3, <1>4, <2>1 DEF Holds
    <2>3. /\ Created(c) \in Event /\ Create(c).slug = c.slug
          /\ \A k : Hear(k, Created(c)) \in Knowledge(Create(c))
      BY CreateStep, ZenonT(60)
    <2>4. Change(tx[r], old, new)
      BY <1>4, <2>1, <2>2, <2>3 DEF Change
    <2> QED BY <1>1, <1>2, <1>4, <2>1, <2>2, <2>3, <2>4
  <1>5. CASE tx[r].cmd.op # "CreateTenant"
    <2>1. PICK c \in MutateCommand : c = tx[r].cmd
      BY <1>1, <1>5, TxFields
    <2>2. old # Null /\ new.slug = old.slug
      BY <1>1, <1>3, <1>5 DEF Holds
    <2>3. old \in Tenant
      BY <1>2, <2>2 DEF TypeOK
    <2>4. \A s \in TenantID \ {i} : tenants[s] # Null => tenants[s].slug # new.slug
      BY <1>2, <2>2, ZenonT(60) DEF UniqueSlugs
    <2>5. ASSUME IfMatchAhead = 0 PROVE Change(tx[r], old, new)
      <3>1. Accepts(old, c) /\ new = Applied(old, c) /\ tx[r].events = Recorded(old, c)
        BY <1>1, <1>3, <1>5, <2>1, <2>5 DEF Holds, Current
      <3> HIDE DEF old, new
      <3>2. \/ Applied(old, c) = old /\ Recorded(old, c) = <<>>
            \/ /\ Applied(old, c).version = old.version + 1
               /\ \E e \in Event : /\ Recorded(old, c) = <<e>>
                                   /\ \A k \in Knowledge(old) : Hear(k, e) \in Knowledge(Applied(old, c))
        BY <2>3, AppliedStep, ZenonT(60)
      <3>3. old.status = "archived" => Applied(old, c) = old
        BY <2>3, <3>1, ArchivedIsNoOp, ZenonT(60)
      <3>4. old.version \in Nat
        BY <2>3 DEF Tenant
      <3>5. Applied(old, c).version = old.version + 1 => old.status # "archived"
        BY <3>3, <3>4
      <3> QED BY <1>5, <2>2, <2>3, <3>1, <3>2, <3>5 DEF Change
    <2> QED BY <1>1, <1>2, <1>5, <2>2, <2>3, <2>4, <2>5
  <1> QED BY <1>4, <1>5

\* The other transactions: a create has another id and, once it has inserted, another
\* slug; a mutation of this row has not written, and is too late if the version moved.
LEMMA CommitKeepsOthers ==
    ASSUME TypeOK, Staged, UniqueSlugs, NEW r \in Request, Commit(r),
           NEW o \in Request \ {r}, tx[o] # Idle
    PROVE  Holds(tx[o], tenants')
  <1> DEFINE i == tx[r].cmd.id
             old == tenants[i]
             new == tx[r].row
             y == tx[o]
             j == tx[o].cmd.id
  <1>1. /\ i \in TenantID /\ new \in Tenant /\ tx[r] # Idle /\ Writes(tx[r])
        /\ \/ tx[r].cmd.op = "CreateTenant" /\ old = Null /\ new.slug = tx[r].cmd.slug
           \/ tx[r].cmd.op # "CreateTenant" /\ old \in Tenant /\ new.slug = old.slug
    BY CommitStores
  <1>2. \A s \in TenantID : tenants'[s] = IF s = i THEN new ELSE tenants[s]
    BY DEF Commit, TypeOK
  <1>3. Holds(y, tenants) /\ Apart(tx[r], y)
    BY <1>1 DEF Staged
  <1>4. j \in TenantID /\ y.expected \in Nat
    BY TxFields
  <1>5. new # Null /\ (old \in Tenant => old # Null)
    BY <1>1, NullAssumption
  <1>6. CASE y.cmd.op = "CreateTenant"
    <2>1. j # i
      BY <1>3, <1>6 DEF Apart
    <2>2. tenants'[j] = tenants[j]
      BY <1>2, <1>4, <2>1
    <2>3. ASSUME Writes(y), NEW s \in TenantID, tenants'[s] # Null PROVE tenants'[s].slug # y.cmd.slug
      <3>1. \A u \in TenantID : tenants[u] # Null => tenants[u].slug # y.cmd.slug
        BY <1>3, <1>6, <2>3 DEF Holds
      <3>2. CASE s # i
        BY <1>2, <2>3, <3>1, <3>2
      <3>3. CASE s = i /\ tx[r].cmd.op = "CreateTenant"
        BY <1>1, <1>2, <1>3, <1>6, <2>3, <3>3 DEF Apart
      <3>4. CASE s = i /\ tx[r].cmd.op # "CreateTenant"
        BY <1>1, <1>2, <1>5, <3>1, <3>4, ZenonT(60)
      <3> QED BY <3>2, <3>3, <3>4
    <2> QED BY <1>3, <1>6, <2>2, <2>3 DEF Holds
  <1>7. CASE y.cmd.op # "CreateTenant" /\ j # i
    <2>1. tenants'[j] = tenants[j]
      BY <1>2, <1>4, <1>7
    <2> QED BY <1>3, <1>7, <2>1, ZenonT(60) DEF Holds, Current
  <1>8. CASE y.cmd.op # "CreateTenant" /\ j = i
    <2>1. tenants'[j] = new /\ tx[r].cmd.op # "CreateTenant" /\ ~ Writes(y)
      BY <1>1, <1>2, <1>3, <1>8, ZenonT(60) DEF Apart
    <2>2. y.pc \in {"loaded", "written", "appended"} /\ y.row.slug = new.slug /\ new # Null
      <3>1. y.pc \in {"loaded", "written", "appended"} /\ y.row.slug = old.slug
        BY <1>3, <1>8 DEF Holds
      <3> QED BY <1>1, <1>5, <2>1, <3>1
    <2>3. ASSUME IfMatchAhead = 0 PROVE Current(y, new)
      <3>1. Current(y, old)
        BY <1>3, <1>8, <2>3 DEF Holds
      <3>2. CASE new = old
        BY <3>1, <3>2, ZenonT(60)
      <3>3. CASE new.version = old.version + 1 /\ old \in Tenant
        <4>1. old.version \in Nat /\ y.expected <= old.version
          BY <3>1, <3>3 DEF Tenant, Current
        <4>2. y.expected <= new.version /\ y.expected # new.version
          BY <1>4, <3>3, <4>1
        <4> QED BY <4>2 DEF Current
      <3>4. Change(tx[r], old, new)
        BY <2>3, CommitStores
      <3> QED BY <2>1, <3>2, <3>3, <3>4 DEF Change
    <2> QED BY <1>8, <2>1, <2>2, <2>3, ZenonT(60) DEF Holds
  <1> QED BY <1>6, <1>7, <1>8

\* A consumer that heard a tenant's events knows its row.
Heard(t) == IF tenants[t] = Null THEN outbox[t] = <<>> ELSE Replayed(outbox[t], Knowledge(tenants[t]))

\* TenantsInv with the replay itself in the place of what it yields.
ReplayInv ==
    /\ TypeOK /\ Staged /\ UniqueSlugs
    /\ IfMatchAhead = 0 => \A t \in TenantID : Heard(t)

\* It is the stronger of the two: Known is where the replay ends.
LEMMA ReplayInvIsInv == ReplayInv => TenantsInv
  BY ReplayedKnown, ZenonT(60) DEF ReplayInv, TenantsInv, Heard, Told, Knowledge

\* Commit keeps the invariant.
LEMMA CommitKeeps ==
    ASSUME ReplayInv, NEW r \in Request, Commit(r)
    PROVE  ReplayInv'
  <1> DEFINE i == tx[r].cmd.id
             old == tenants[i]
             new == tx[r].row
             evs == tx[r].events
  <1> USE DEF ReplayInv
  <1>1. /\ i \in TenantID /\ new \in Tenant /\ tx[r] # Idle
        /\ \A s \in TenantID \ {i} : tenants[s] # Null => tenants[s].slug # new.slug
    BY CommitStores
  <1>2. /\ tenants' = [tenants EXCEPT ![i] = new] /\ outbox' = [outbox EXCEPT ![i] = @ \o evs]
        /\ tx' = [tx EXCEPT ![r] = Idle]
    BY DEF Commit, Rollback
  <1>3. evs \in Seq(Event)
    BY <1>1, TxFields
  <1>4. TypeOK'
    <2>1. tenants' \in [TenantID -> Tenant \cup {Null}]
      BY <1>1, <1>2 DEF TypeOK
    <2>2. outbox[i] \o evs \in Seq(Event)
      BY <1>1, <1>3 DEF TypeOK
    <2>3. outbox' \in [TenantID -> Seq(Event)]
      BY <1>1, <1>2, <2>2 DEF TypeOK
    <2>4. tx' \in [Request -> Tx]
      BY <1>2 DEF TypeOK, Tx
    <2> QED BY <2>1, <2>3, <2>4 DEF TypeOK
  <1>5. Staged'
    <2>1. \A o \in Request : tx'[o] = IF o = r THEN Idle ELSE tx[o]
      BY <1>2 DEF TypeOK
    <2>2. \A o \in Request : tx'[o] # Idle => Holds(tx'[o], tenants')
      BY <2>1, CommitKeepsOthers, ZenonT(60)
    <2>3. \A q, o \in Request : q # o /\ tx'[q] # Idle /\ tx'[o] # Idle => Apart(tx'[q], tx'[o])
      BY <2>1 DEF Staged
    <2> QED BY <2>2, <2>3 DEF Staged
  <1>6. \A s \in TenantID : tenants'[s] = IF s = i THEN new ELSE tenants[s]
    BY <1>2 DEF TypeOK
  <1>7. UniqueSlugs'
    BY <1>1, <1>6 DEF UniqueSlugs
  <1>8. ASSUME IfMatchAhead = 0, NEW t \in TenantID PROVE Heard(t)'
    <2>1. new # Null
      BY <1>1, NullAssumption
    <2>2. CASE t # i
      <3>1. outbox'[t] = outbox[t] /\ tenants'[t] = tenants[t]
        BY <1>2, <1>6, <2>2 DEF TypeOK
      <3> QED BY <1>8, <3>1 DEF Heard
    <2>3. CASE t = i
      <3>1. outbox'[t] = outbox[t] \o evs /\ tenants'[t] = new /\ outbox[t] \in Seq(Event)
        BY <1>2, <1>6, <2>3, ZenonT(60) DEF TypeOK
      <3>2. Heard(t) /\ tenants[t] = old
        BY <1>8, <2>3
      <3>3. Replayed(outbox[t] \o evs, Knowledge(new))
        <4>1. \/ /\ old = Null
                 /\ \E e \in Event : evs = <<e>> /\ \A k : Hear(k, e) \in Knowledge(new)
              \/ old \in Tenant /\ new = old /\ evs = <<>>
              \/ /\ old \in Tenant
                 /\ \E e \in Event : evs = <<e>> /\ \A k \in Knowledge(old) : Hear(k, e) \in Knowledge(new)
          <5>1. Change(tx[r], old, new)
            BY <1>8, CommitStores
          <5> HIDE DEF old, new
          <5> QED BY <5>1 DEF Change
        <4>2. old = Null => Replayed(outbox[t], {Unknown})
          BY <3>2, ReplayedEmpty, ZenonT(60) DEF Heard
        <4>3. old \in Tenant => Replayed(outbox[t], Knowledge(old))
          BY <3>2, NullAssumption, ZenonT(60) DEF Heard
        <4>4. outbox[t] \o <<>> = outbox[t]
          BY <3>1
        <4> HIDE DEF old, new, evs
        <4>5. CASE old = Null /\ \E e \in Event : evs = <<e>> /\ \A k : Hear(k, e) \in Knowledge(new)
          BY <3>1, <4>2, <4>5, ReplayedAppend, ZenonT(60)
        <4>6. CASE old \in Tenant /\ \E e \in Event :
                      evs = <<e>> /\ \A k \in Knowledge(old) : Hear(k, e) \in Knowledge(new)
          BY <3>1, <4>3, <4>6, ReplayedAppend, ZenonT(60)
        <4> QED BY <4>1, <4>3, <4>4, <4>5, <4>6, ZenonT(60)
      <3> QED BY <2>1, <3>1, <3>3, ZenonT(60) DEF Heard
    <2> QED BY <2>2, <2>3
  <1> QED BY <1>4, <1>5, <1>7, <1>8

-----------------------------------------------------------------------------
(* The theorems.                                                           *)

\* Steps that leave both tables alone leave what they say of each other alone.
LEMMA TablesKeep ==
    ASSUME ReplayInv, UNCHANGED <<tenants, outbox>>, TypeOK' /\ Staged'
    PROVE  ReplayInv'
  BY DEF ReplayInv, UniqueSlugs, Heard

\* ReplayInv is inductive: a transaction that has written has its row and its slug for
\* itself, and, with no If-Match ahead of the row, every transaction in flight holds what its
\* command makes of the row or will be refused by its version, and rows and events stay in step.
THEOREM TenantsInductive == Spec => []TenantsInv
  <1>1. Init => ReplayInv
    <2> SUFFICES ASSUME Init PROVE ReplayInv
      OBVIOUS
    <2>1. TypeOK
      BY DEF Init, TypeOK, Tx
    <2>2. Staged /\ UniqueSlugs /\ \A t \in TenantID : Heard(t)
      BY DEF Init, Staged, UniqueSlugs, Heard
    <2> QED BY <2>1, <2>2 DEF ReplayInv
  <1>2. ReplayInv /\ [Next]_vars => ReplayInv'
    <2> SUFFICES ASSUME ReplayInv, [Next]_vars PROVE ReplayInv'
      OBVIOUS
    <2>0. TypeOK /\ Staged
      BY DEF ReplayInv
    <2>1. CASE UNCHANGED vars
      BY <2>1 DEF ReplayInv, vars, TypeOK, Staged, UniqueSlugs, Heard
    <2>2. ASSUME NEW r \in Request, NEW c \in CreateCommand, BeginCreate(r, c) PROVE ReplayInv'
      BY <2>0, <2>2, BeginCreateKeeps, TablesKeep, ZenonT(60) DEF BeginCreate
    <2>3. ASSUME NEW r \in Request, NEW c \in MutateCommand, NEW v \in 0..(MaxVersion + IfMatchAhead), FindByID(r, c, v)
          PROVE  ReplayInv'
      <3>1. v \in Nat /\ UNCHANGED <<tenants, outbox>>
        BY <2>3, TenantsAssumption DEF FindByID
      <3> QED BY <2>0, <2>3, <3>1, FindByIDKeeps, TablesKeep
    <2>4. ASSUME NEW r \in Request, FindBySlug(r) \/ Insert(r) \/ Update(r) \/ AppendEvents(r)
          PROVE  ReplayInv'
      BY <2>0, <2>4, MoveKeeps, TablesKeep DEF FindBySlug, Insert, Update, AppendEvents
    <2>5. ASSUME NEW r \in Request, Commit(r) PROVE ReplayInv'
      BY <2>5, CommitKeeps
    <2>6. ASSUME NEW r \in Request, Abort(r) PROVE ReplayInv'
      BY <2>0, <2>6, RollbackKeeps, TablesKeep DEF Abort
    <2> QED BY <2>1, <2>2, <2>3, <2>4, <2>5, <2>6 DEF Next
  <1> QED BY <1>1, <1>2, ReplayInvIsInv, PTL DEF Spec

\* No two tenants share a slug, for any number of racing creates and any If-Match: the look-up before the
\* insert does not ensure it, the unique index does.
THEOREM SlugSafety == Spec => []UniqueSlugs
  <1>1. TenantsInv => UniqueSlugs
    BY DEF TenantsInv
  <1> QED BY <1>1, TenantsInductive, PTL

\* The outbox of a tenant, replayed, is its row: Execute writes the row and its events
\* together, and the version condition keeps two writers from the same base, when clients
\* send an If-Match they were sent.
THEOREM ReplaySafety ==
    ASSUME IfMatchAhead = 0
    PROVE  Spec => []EventsReplay
  <1>1. TenantsInv => EventsReplay
    <2> SUFFICES ASSUME TenantsInv, NEW t \in TenantID, tenants[t] # Null
                 PROVE  /\ Known(outbox[t]).slug = tenants[t].slug
                        /\ Known(outbox[t]).status = tenants[t].status
                        /\ Known(outbox[t]).version = tenants[t].version
                        /\ Known(outbox[t]).quota \in {Null, tenants[t].quota}
      BY ZenonT(60) DEF EventsReplay
    <2>1. Known(outbox[t]) \in Knowledge(tenants[t])
      BY DEF TenantsInv, Told, Knowledge
    <2> DEFINE k == Known(outbox[t])
               row == tenants[t]
    <2> HIDE DEF k, row
    <2>2. k \in Knowledge(row)
      BY <2>1 DEF k, row
    <2>3. k.slug = row.slug /\ k.status = row.status /\ k.version = row.version /\ k.quota \in {Null, row.quota}
      BY <2>2 DEF Knowledge
    <2> QED BY <2>3 DEF k, row
  <1> QED BY <1>1, TenantsInductive, PTL

\* No commit changes an archived tenant, not even one whose transaction read the row
\* before it was archived, when clients send an If-Match they were sent.
THEOREM ArchivalFinal ==
    ASSUME IfMatchAhead = 0
    PROVE  Spec => ArchivedIsFinal
  <1>1. TenantsInv /\ [Next]_vars =>
            [\A t \in TenantID : tenants[t] # Null /\ tenants[t].status = "archived"
                                    => tenants'[t] = tenants[t]]_vars
    <2> SUFFICES ASSUME TenantsInv, [Next]_vars, NEW t \in TenantID,
                        tenants[t] # Null, tenants[t].status = "archived"
                 PROVE  tenants'[t] = tenants[t]
      OBVIOUS
    <2>1. CASE UNCHANGED tenants
      BY <2>1
    <2>2. ASSUME NEW r \in Request, Commit(r) PROVE tenants'[t] = tenants[t]
      <3> DEFINE i == tx[r].cmd.id
      <3>1. i \in TenantID /\ Change(tx[r], tenants[i], tx[r].row)
        BY <2>2, CommitStores DEF TenantsInv
      <3>2. t = i => tx[r].row = tenants[t]
        BY <3>1 DEF Change
      <3>3. tenants'[t] = IF t = i THEN tx[r].row ELSE tenants[t]
        BY <2>2, <3>1 DEF TenantsInv, TypeOK, Commit
      <3> QED BY <3>2, <3>3
    <2> QED BY <2>1, <2>2 DEF Next, vars, BeginCreate, FindByID, FindBySlug, Insert, Update, AppendEvents, Abort
  <1> QED BY <1>1, TenantsInductive, PTL DEF Spec, ArchivedIsFinal

-----------------------------------------------------------------------------
(* Refinement: a commit is an atomic command, every other step a stutter.  *)

\* The atomic specification speaks of the same commands, rows and events.
LEMMA SameDomain ==
    /\ Atomic!CreateCommand = CreateCommand /\ Atomic!MutateCommand = MutateCommand
    /\ \A c : Atomic!Create(c) = Create(c) /\ Atomic!Created(c) = Created(c)
    /\ \A t, c : Atomic!Accepts(t, c) = Accepts(t, c)
    /\ \A t, c : Atomic!Applied(t, c) = Applied(t, c)
    /\ \A t, c : Atomic!Recorded(t, c) = Recorded(t, c)
  <1>1. Atomic!CreateCommand = CreateCommand /\ Atomic!MutateCommand = MutateCommand
    BY DEF Atomic!CreateCommand, CreateCommand, Atomic!MutateCommand, MutateCommand,
       Atomic!Status, Status, Atomic!statusTransitions, statusTransitions
  <1>2. \A c : Atomic!Create(c) = Create(c) /\ Atomic!Created(c) = Created(c)
    BY DEF Atomic!Create, Create, Atomic!Created, Created
  <1>3. \A t, c : Atomic!IsNoOp(t, c) = IsNoOp(t, c)
    BY DEF Atomic!IsNoOp, IsNoOp
  <1>4. \A t : Atomic!touch(t) = touch(t)
    BY DEF Atomic!touch, touch
  <1>5. \A t, c : Atomic!Accepts(t, c) = Accepts(t, c)
    BY DEF Atomic!Accepts, Accepts, Atomic!statusTransitions, statusTransitions
  <1>6. \A t, c : Atomic!Applied(t, c) = Applied(t, c)
    BY <1>3, <1>4 DEF Atomic!Applied, Applied
  <1>7. \A t, c : Atomic!Recorded(t, c) = Recorded(t, c)
    BY <1>3 DEF Atomic!Recorded, Recorded
  <1> QED BY <1>1, <1>2, <1>5, <1>6, <1>7

\* Commit does to the tables, at one instant, what its command says of the row that is
\* there at that instant.
LEMMA CommitIsAtomic ==
    ASSUME IfMatchAhead = 0, TypeOK, Staged, NEW r \in Request, Commit(r)
    PROVE  Atomic!Next
  <1> DEFINE c == tx[r].cmd
             old == tenants[c.id]
  <1>1. tx[r] # Idle /\ Writes(tx[r])
    BY DEF Commit, Idle, Writes
  <1>2. Holds(tx[r], tenants)
    BY <1>1 DEF Staged
  <1>3. /\ tenants' = [tenants EXCEPT ![c.id] = tx[r].row]
        /\ outbox' = [outbox EXCEPT ![c.id] = outbox[c.id] \o tx[r].events]
    BY ZenonT(60) DEF Commit
  <1>4. CASE c.op = "CreateTenant"
    <2>1. c \in CreateCommand
      BY <1>1, <1>4, TxFields
    <2>2. /\ old = Null /\ tx[r].row = Create(c) /\ tx[r].events = <<Created(c)>>
          /\ \A s \in TenantID : tenants[s] # Null => tenants[s].slug # c.slug
      BY <1>1, <1>2, <1>4 DEF Holds
    <2>3. Atomic!CreateTenant(c)
      BY <1>3, <2>2, SameDomain, ZenonT(60) DEF Atomic!CreateTenant
    <2> QED BY <2>1, <2>3, SameDomain, ZenonT(60) DEF Atomic!Next
  <1>5. CASE c.op # "CreateTenant"
    <2>1. c \in MutateCommand
      BY <1>1, <1>5, TxFields
    <2>2. /\ old # Null /\ Accepts(old, c)
          /\ tx[r].row = Applied(old, c) /\ tx[r].events = Recorded(old, c)
      BY <1>1, <1>2, <1>5 DEF Holds, Current
    <2>3. Atomic!Mutate(c)
      BY <1>3, <2>2, SameDomain, ZenonT(60) DEF Atomic!Mutate
    <2> QED BY <2>1, <2>3, SameDomain, ZenonT(60) DEF Atomic!Next
  <1> QED BY <1>4, <1>5

\* Requests that interleave, read stale rows, fail or are rolled back implement commands
\* that each take effect at one instant, for any number of tenants and requests, when
\* clients send an If-Match they were sent.
THEOREM ImplementsAtomicCommands ==
    ASSUME IfMatchAhead = 0
    PROVE  Spec => AtomicCommands
  <1> USE DEF Atomic!vars
  <1>1. Init => Atomic!Init
    BY DEF Init, Atomic!Init
  <1>2. TenantsInv /\ [Next]_vars => [Atomic!Next]_(Atomic!vars)
    <2> SUFFICES ASSUME TenantsInv, [Next]_vars PROVE Atomic!Next \/ UNCHANGED <<tenants, outbox>>
      OBVIOUS
    <2>1. ASSUME NEW r \in Request, Commit(r) PROVE Atomic!Next
      BY <2>1, CommitIsAtomic DEF TenantsInv
    <2> QED BY <2>1, ZenonT(60) DEF Next, vars, BeginCreate, FindByID, FindBySlug, Insert, Update, AppendEvents, Abort
  <1> QED BY <1>1, <1>2, TenantsInductive, PTL DEF Spec, AtomicCommands, Atomic!Spec
=============================================================================
