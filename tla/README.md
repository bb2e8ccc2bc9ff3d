# Forge platform: TLA+ models and proofs

Forge is an internal developer platform. An HTTP API keeps a service catalog and
a tenant registry in Postgres, a relay publishes their events to NATS JetStream,
a Temporal workflow provisions tenants, and a Kubernetes operator reconciles
`Application` resources. This directory models the parts whose correctness
depends on interleavings, failures and retries, checks them with TLC on small
instances, and proves the most important properties with TLAPS for every size.

Paths below are relative to `src/`. `PROJECT.json` maps every definition to the
lines it models and lists the runs, hazards, findings and theorems.

## The system and its parts

| Part | Source | State | Operations | Modules |
|---|---|---|---|---|
| Catalog aggregate | `internal/modules/catalog/domain` | one service: name, lifecycle, ownership, version | Register, ChangeOwnership, ChangeLifecycle, Retire | `CatalogDomain` |
| Catalog write path | `internal/modules/catalog/app`, `adapters/postgres` | services, ownership history, outbox, transactions in flight | one action per statement, Commit, Rollback | `Catalog`, `AtomicCatalog`, `CatalogProofs`, `CatalogHistoryProofs` |
| Idempotent registration | `catalog/api/handlers.go`, `internal/platform/idempotency` | stored responses, handlers in flight | Lookup, the command, Save, failures between them | `Registration`, `RetryProofs` |
| Tenant write path | `internal/modules/tenant` | tenants, outbox, transactions in flight | CreateTenant, ChangeStatus, UpdateQuota by statement | `TenantDomain`, `Tenants`, `AtomicTenants`, `TenantsProofs` |
| Listing | `List`, `encodeCursor`, `decodeCursor` of both modules | the table, a client's walk | a page, inserts and updates between pages | `Pagination`, `PaginationProofs` |
| Outbox relay | `internal/relay`, `internal/platform/events`, `cmd/relay` | outbox rows, stream, duplicate window, replicas | claim, publish, mark, crash, lost session, late message | `Relay`, `EventDelivery`, `FlowProofs` |
| From command to stream | `Store.Execute`, `Outbox.Append`, the relay | the above and the transactions that write the rows | begin, commit, roll back; the relay's | `Pipeline`, `FlowProofs` |
| Provisioning saga | `internal/provisioning`, `cmd/worker`, `cmd/provision` | external resources, a workflow run | steps, retries, compensations, cancellation | `Provisioning`, `RetryProofs` |
| Application operator | `internal/controller`, `cmd/operator` | API objects, informer caches, work queue, a reconcile | every API call of Reconcile, watch events, garbage collection | `Reconciler`, `ReconcilerProofs` |
| Migration runner | `internal/platform/postgres/migrate.go` | tables, `schema_migrations`, servers starting | read, apply, record, commit, exit | `Migrations`, `ApiServerProofs` |
| API process | `cmd/api`, `internal/platform/config`, `postgres.go`, `httpx/server.go`, `Timeout` | processes, requests, connections of the pool | start, listen, accept, acquire, answer, deadline, signal, drain, exit, crash | `ApiServer`, `ApiServerProofs` |
| JWKS key cache | `internal/platform/httpx/auth.go` | cached document, verifications in flight | look, fetch, store, read again; rotation | `KeyCache`, `ApiServerProofs` |
| Rate limiter | `internal/platform/httpx/ratelimit.go` | a map of buckets | allow, sweep | `RateLimiter`, `TokenBucket`, `FlowProofs` |
| Read modules, other middleware, logging | `internal/modules/application`, `internal/modules/provisioning`, `internal/platform` | none of their own | | not modelled |

The parts meet in three places, and each meeting is a module. The catalog and the
tenants write the outbox rows the relay publishes: `Pipeline` puts the writing
transactions in front of `Relay`. The registration handler runs the catalog's command:
`Registration` extends `AtomicCatalog`, the specification that `Catalog` is proved to
implement, so it needs no transactions of its own. The API process runs the migrations
before it serves: `ApiServer` extends `Migrations`.

## How the modules read

A module has one action per operation or statement that others can interleave
with. Operators named `X_Something` and introduced by "Fault:" are not part of any
specification: each is a plausible mistake in `X`, and the property it is meant for
fails when it takes `X`'s place. Constants whose comment begins with "bound:" exist
only to keep the state space finite.

### Catalog

`services`, `history` and `outbox` are the committed tables. `tx[r]` is the
transaction of a request, with what it has written and not committed. Under READ
COMMITTED a read sees the last commit; `Update` and `Insert` wait for a lock and
then look again, as Postgres does. `FindByID` includes the domain method, which
touches nothing shared. `Rollback` stands for every failed statement, expired
deadline and crash. A version conflict ends the request, and so does a name taken.

`AtomicCatalog` is what a client may rely on: each command takes effect at one
instant on the row as it is then. `Catalog` implements it with the tables mapped
to themselves: a commit is the command, every other step a stutter.

### Registration

A client draws a key for one body and sends it as often as it likes. The steps of
the handler are Lookup, the command, and Save, which runs after the command has
committed; a crash, a failed Save and a lost reply to COMMIT may fall between them.

### Tenants

Like `Catalog`, with unique slugs. A change writes against the If-Match the client sent
or else against the version the request itself read. The handler takes any number and
`mutate` does not compare it with the row; as in `Catalog`, `IfMatchAhead` says how far it
may run ahead of the committed one. With 0 clients send versions that responses carried,
which is what the ETag is for and what all properties but the unique slugs rest on. The rules of
the aggregate are in `TenantDomain`. `AtomicTenants` is the promise: a command takes effect
at one instant on the tenant as it is then, and leaves exactly its events. `Tenants`
implements it with the tables mapped to themselves.

### Pagination

A walk of GET requests over a table that changes between two pages. `ChecksOrder`
selects the cursor of the catalog (TRUE) or of the tenants (FALSE).

### Relay

An event is a number, its place in `ORDER BY created_at, id`; rows commit in any
order. A replica waits, claims a batch, publishes row after row, marks and commits.
The database session, and with it the row locks, may be lost while the replica goes
on. A publish that failed for its caller may still arrive (`inflight`). The stream
drops a message whose id it still remembers, and forgets ids (`Expire`).

`EventDelivery` is the contract: stored only once committed, marked only once
stored, never unmarked.

### Pipeline

`created_at` is the start of the writing transaction, so the number of a row is the
place of its transaction among the starts. Transactions overlap, commit in any order or
roll back. `before[f]` remembers which rows were committed when f's transaction began,
and `overtaken` which claims passed over a row that another replica held; both are read
by `StreamedInOrder` alone. The database's clock is taken not to run backwards.

### Provisioning

Steps 1 to 4 create resources, step 5 finalizes. An attempt that fails may have done
nothing, may have done its work, or may do it later. The state of the workflow is
Temporal's and survives worker crashes, so a crash is a failed attempt.

### Reconciler

One Application, its Deployment, Service and ConfigMap, and an operator that reads
two of these kinds from caches. Every API call is a step, so users, pods, people who
edit by hand and the garbage collector may act between any two. A resourceVersion is
current when no event of the object is still on its way. A call that failed for its
caller, or whose operator was stopped, may land later (`late`); this is also what an old
operator does to its successor during a rollout, leader election being off.

The CRD schema admits any string as `cpu` or `memory`. `Quantity` maps the strings that
are quantities to their canonical form; on any other `resource.MustParse` panics in
`desiredDeployment`, which controller-runtime turns into an error of Reconcile
(`DeploymentFails`). A quantity that the API server refuses in a Deployment, such as a
negative one, has the same effect and counts as no quantity. Such an Application is
retried for ever, nothing of it is applied, and its status does not say so (`Retrying`);
`ComesToRest` names it as the one exception.

`Converged` says what the operator does not repair: the Service of an Application that
is no longer exposed, and a ConfigMap that was touched by hand or by a late call after
the last reconcile, since nothing watches ConfigMaps.

### Migrations

Servers of several releases start at once. No lock surrounds `Migrate`; what keeps
two servers apart is that running a file's CREATE statements waits for another
transaction that has run them, and fails once that one has committed.

### ApiServer

Processes with settings that `validate` accepts migrate, listen and accept requests. A
request runs its handler, which takes a connection and gives it back any number of
times; the pool has `maxConns`. The 30 s of the Timeout middleware and of WriteTimeout
are one event (`Deadline`): calls that wait fail, and what the handler still answers is
lost. A signal makes Shutdown wait until no request is active or its time is over; run
then returns and its deferred pool.Close waits for connections still held.

### KeyCache

Verifications look into the cached document and fetch the issuer's when the key id is
unknown or the document older than the ttl. Only the looks and the store hold the lock,
so fetches overlap and the older document may be stored last. `changed` dates the last
change of each key at the issuer, for the two properties.

### RateLimiter

A tick is the time in which a bucket gains one unit of its `Full`; a request costs
`Cost`. An entry is what `rate.Limiter` keeps: the level at the last admission and its
time. `watch` is an observer that counts what one identity is admitted since any moment.
`TokenBucket` is the promise: one bucket per identity that is always there.

## Runs

| Run | States | What it shows |
|---|---|---|
| `catalog_writes` | 702,011 | two requests on one service: on-call rule, one event per version, ownership history in step with the row and without gaps, ordered events, no lost update, retirement final, refinement of `AtomicCatalog` |
| `catalog_contention` | 32,055 | two names, two services: the unique index decides, every request ends |
| `registration_retry` | 12,550 | one service and one success response per key |
| `tenants_writes` | 25,149 | unique slugs, events replay to the row, archiving final, refinement of `AtomicTenants`, with `IfMatchAhead = 0` |
| `pagination_walk` | 38,603 | pages in order without duplicates, no steady row skipped |
| `event_pipeline` | 208,586 | nothing lost, duplicates only after expiry, commands that follow one another streamed in order unless one replica overtakes another, refinement of `EventDelivery`, every committed event published once faults stop |
| `saga_rollback` | 198,794 | success is complete; a failure rolls back in reverse; every run ends, with all kinds of failure |
| `reconciler_settles` | 444,102 | when nothing is left to do the cluster matches the Application; the operator comes to rest, or is left with an Application whose resources do not parse |
| `api_process` | 37,075 | files applied once, in order, and recorded with their effects; requests only on a migrated schema and with a configured verifier; requests and signalled processes end; a clean exit cuts no request off; valid servers come up |
| `key_cache` | 2,135,354 | a withdrawn key is trusted for less than the ttl and one fetch, a published one hidden for at most one fetch |
| `rate_limit` | 547,152 | never more than burst and rate in any stretch of time, removal of idle buckets invisible (refinement of `TokenBucket`), no bucket older than two sweeps |

One run shows where the code departs from what its comments say; TLC finds a
counterexample to the sentence quoted in `PROJECT.json`.

| Run | What happens |
|---|---|
| `registration_original_outcome` | a retry before Save is answered 409 for its own service |

Further configurations, not among the runs, show other sentences that do not hold as
they stand. TLC refutes the property of each.

| Configuration | What happens | Said in |
|---|---|---|
| `MCCatalogPipelined.cfg` | If-Match v+1 on a row read at v overwrites the commit of v+1 (`VersionedWrites`) | `internal/modules/catalog/app/ports.go:10-11` |
| `MCTenantsPipelined.cfg` | If-Match v+1 on a row read at v overwrites the commit that archived the tenant (`ArchivedIsFinal`) | `internal/modules/tenant/domain/errors.go:14` |
| `MCReconcilerResources.cfg` | an Application with a cpu that is no quantity is requeued for ever (`AlwaysRests`) | `docs/reconciler.md:89-91` |
| `MCReconcilerExpose.cfg` | an Application that stops being exposed keeps its Service | `internal/controller/application_controller_test.go:94` |
| `MCCatalogSkew.cfg` | with clocks that differ, ownership intervals end before they start | `docs/architecture.md:41-42` |
| `MCCatalogIfMatch.cfg` | a change without If-Match is written | `docs/ARCHITECTURE.md:60-61` |
| `MCPaginationTenants.cfg` | a tenant cursor is accepted in the other order | `docs/architecture.md:35-36` |
| `RelayDouble.cfg` | a crash before commit and a retry after the duplicate window store an event twice (`OncePerWindow` counts them) | `docs/ARCHITECTURE.md:67` |
| `ProvisioningResidue.cfg` | work of a step that lost every reply stays behind | `internal/provisioning/workflow_test.go:57` |
| `ProvisioningRerun.cfg` | a failing second run removes what the first provisioned | `internal/provisioning/workflow.go:13-15` |
| `ProvisioningLate.cfg` | an attempt that outlives its timeout undoes a later success | `internal/provisioning/provisioner.go:13-14` |
| `ProvisioningCancel.cfg` | a cancelled workflow rolls nothing back | `internal/provisioning/workflow.go:90` |

One more holds and takes the relay by itself, with more faults than the run that composes
it: `Relay.cfg` (two faults, 114,431 states).

### Bounds and why they are enough

- Catalog: two requests on one service are what a lost update, a stale check or a
  broken history takes; the third version lets a row be registered, changed and
  changed again. Two services and two names let registrations compete or not.
- Registration: three attempts allow an original, a concurrent retry and a later
  one; two keys allow strangers to compete for a name.
- Pipeline: three rows and batches of two give a full batch, a short one and rows left
  over; one fault falls anywhere, and each id may leave the duplicate window once. It
  also passes with two faults (1,235,292 states), which takes too long to repeat.
- Provisioning: `MaximumAttempts` is the code's 3. A second run finds what the first
  left. One late attempt at a time may be under way, into the next run too (`MaxLate`).
- Reconciler: two specs that differ in every field the operator derives something
  from, and one with a cpu that does not parse; three changes suffice to create, delete and create again, and one fault falls
  anywhere between them and may leave a call that lands at any later time.
- Pagination: four rows with two sort values give ties within and across pages.
- ApiServer: two servers of two releases, one with a shared secret and one with JWKS,
  race through three files; two more have settings that must not start. One connection
  and two requests make a request wait for another; one signal and one fault may hit the
  same server.
- KeyCache: two fetches in the wrong order and two changes of the document are what it
  takes to store an old document late; the ttl is longer than the timeout, as in the
  code, and time runs past both.
- RateLimiter: a burst of two requests, half a token per tick, and three sweeps. `Full`
  is the largest that `RefillsInTime` admits: with a longer refill, removing an idle
  bucket would give its burst back early. The sweep is taken to run when it is due.

Symmetry is used in runs without liveness only, on sets whose members are not compared.
Deadlock is not checked where everything may be done: all attempts used, bounds
reached, all servers serving.

### Fairness

- Catalog: a request goes on to its next statement (weak), and Postgres serves the
  waiters of a lock in turn (strong, for `Insert` and `Update` only).
- Pipeline: the ticker fires and calls return (weak, per replica). Faults are bounded;
  nothing is assumed of late messages, and no transaction has to commit.
- Provisioning: Temporal ends every attempt, by success, failure or timeout (weak).
- Reconciler: watches deliver, the worker runs, the garbage collector collects (weak,
  each kind of watch by itself).
- ApiServer: a process goes on with what it does and one that exited is started again
  (weak, per server); timers fire, and a call returns once its context is done (weak, per
  request). Nothing else makes a handler answer or a call return: `RequestsEnd` rests on
  the Timeout middleware. The restart is assumed of whatever hosts the API; nothing in
  the repository states it. A server that loses the race to apply a file exits, so
  without the restart `ComeUp` would not hold.

## Theorems

TLAPS checks them for every value of the constants that the named assumptions admit.
Preparing a step for the provers costs more the more its module has and extends, so proof
modules are kept small and extend little of the library; `RetryProofs`, `FlowProofs` and
`ApiServerProofs` each hold more than one component, whose specifications therefore have
names of their own (`SagaSpec`, `RegSpec`, `LimiterSpec`, `CacheSpec`).

**Catalog** (`CatalogProofs`, `CatalogHistoryProofs`), assuming `IfMatchAhead = 0`: a client's If-Match is a
version some response carried. `MCCatalogPipelined.cfg` shows the assumption is needed.
The properties of the tables are not inductive, because what a commit writes was
computed earlier. `StagedInv` says what is known of it: a registration in flight has
an id of its own (`RegisterStaged`); a change was computed from a row that is the
committed one or older (`MutateStaged`); one that has written still has the row it
read, or a free name (`WrittenIsCurrent`); no two hold the same (`LocksExclusive`).
`StagedInductive` proves that it holds always. From it follow `OnCallSafety`,
`NameSafety`, `EventSafety`, `RetirementFinal`, `TypeCorrect`, `NoLostUpdate` and
`ImplementsAtomic`, the safety refinement of `AtomicCatalog`. The ownership history
needs one more fact, that a service has no history and no events before its row
(`NothingBeforeRow`), for `HistorySafety`. `HistoryTimeline` and `EventTimeline` also
assume `Skew = 0`, clocks that agree (`MCCatalogSkew.cfg` shows what happens
otherwise), and rest on the times of a row, its events and its history being in order
(`StampsInOrder`).

**Registration** (`RetryProofs`), assuming that a stored answer is distinguishable from
none (`AnswerAssumption`) and that every attempt has an id of its own, as NewServiceID
gives it (`AttemptAssumption`). `RegInv` says that every service was created by the
attempt with its id and under the name of its key's body (`RowsAreCreated`,
`NamesDiffer`), that a success answer is about the attempt's own
service or is the stored one (`AnswersExplained`) and that a stored answer is that of
the attempt which created its service (`KeysExplained`). `RegInductive` gives
`OneServicePerKey` and `OneAnswerPerKey`: a key is drawn for one body, so it is the
unique name that keeps it to one service.

**Tenants** (`TenantsProofs`). For any If-Match, `TenantsInv` says that a transaction in
flight is about to store a row with the slug of its tenant (`Holds`) and that transactions
which have written keep clear of each other (`Apart`). For `IfMatchAhead = 0` it says
besides that a change holds what its command makes of the row as it is, unless the row has
moved past the version it expects (`Current`), and that replaying a tenant's events gives
its row (`Told`). `Known` is the value of a recursive function, and that this function exists for
every outbox would take an induction over its events. The induction over steps does it
instead: `ReplayInv` carries the replay along (`Heard`), and `ReplayedAppend` extends it
by the one event a commit adds. `TenantsInductive` gives `SlugSafety` without an
assumption, and `ReplaySafety` and `ArchivalFinal` assuming `IfMatchAhead = 0`, which
`MCTenantsPipelined.cfg` shows to be needed. Under it `CommitIsAtomic` shows that a commit is a command of `AtomicTenants`, on
the row of that instant; every other step leaves the tables alone, which gives
`ImplementsAtomicCommands`.

**Pagination** (`PaginationProofs`), assuming `ChecksOrder`: a cursor is refused in another
order than its own, as the catalog does. `MCPaginationTenants.cfg` shows the assumption is
needed. There are finitely many ids (`PaginationAssumption`), as there are finitely many
UUIDs, so `OrderExists` can show by induction on their number that selected rows can be
put in order, and `OrderByOrders` that the page query returns each of them once.
`PageOfList` says what a page and its cursor are. `PaginationInv` adds to the properties
that the cursor divides the rows: what is listed is not beyond it, and what has matched
all along is listed or beyond it (`CursorDivides`). `WalkInductive` gives
`PagesAreOrdered` and `PagesAreComplete`.

**Relay** (in `FlowProofs`), with no further assumption. `RelayInv` adds to the
properties that what a replica counts as sent is stored and that it marks only whole
batches (`SentIsStored`), that only committed rows travel (`StoredIsCommitted`) and
that all messages but the one in the window have expired (`WindowCounts`).
`RelayInductive` gives `RelaySafety` and `ImplementsDelivery`.

**Provisioning** (`RetryProofs`), for any number of attempts and runs and every
kind of failure. A late attempt can undo anything, so the model remembers the
resources late attempts have touched since the run began (`overtaken`), and the
properties excuse these and no others. `Midway` says which resources exist in each
phase of a run. `SagaInductive` gives `SuccessComplete`, `FailureRolledBack` and
`ReverseOrder`.

**Pipeline** (`FlowProofs`). `StreamedInOrder` is about what has been stored, and a
message is on its way before that. `PipeInv` adds to `RelayInv` that transactions begin
in the order of their rows (`BegunInOrder`, `BeforeIsEarlier`) and that whatever a row
in a batch or in flight has to wait for is stored, was overtaken, or is sent first from
the same batch (`SentInOrder`). `PipeInductive` gives `StreamOrder`. Every step of the
pipeline is one of the relay or leaves it alone (`PipelineRelays`), so `PipelineOnce` and
`PipelineDelivers` follow from the relay's theorems.

**Operator** (`ReconcilerProofs`), for any specs the schema admits, with resource strings
that parse or not, and any number of changes, faults and restarts. It says nothing of an
Application that is retried for ever, which never settles. That a settled cluster is the one asked for is not
inductive, because it says nothing of a Reconcile under way. `Progress` does: when no
other Reconcile is due, the one in progress works from the Application as it is, and
every object it has passed is as desired. What disturbs such an object makes another
Reconcile due, except at the ConfigMap. With it go that the caches are behind only where
an event is on its way (`CacheIsCurrent`), that a new uid is new to every object and
every call still under way (`UidsAreFresh`), and that only an exposed Application gets a
Service (`ServiceExplained`). `ReconcilerInductive` gives `ReconcilerSafety`.

**API process** (`ApiServerProofs`). `MigrationsInv` says that a server in a file's
transaction is alone with it (`RunsAlone`) and that what is not pending for a server is
applied (`RestIsApplied`); `MigrationsInductive` proves it for concurrent startups.
`ProcessInv` adds that requests are at processes that serve (`ActiveIsServed`) and that a
process about to exit without an error has none (`CleanIsDrained`). `ProcessInductive`
gives `AppliedWithRecord`, `AppliedInOrder`, `SchemaSafety` and `CleanExit`; with
`StartedIsValid`, only settings that `validate` accepts get past startup, it gives
`VerifierSafety`.

**Key cache** (`ApiServerProofs`), for any ttl and timeout. `KeyCacheInv` says that the
cached document was the issuer's at most one timeout before its fetch time
(`CacheWasServed`) and that a document in flight was the issuer's after its request began
(`FetchIsRecent`). `KeyCacheInductive` gives `TrustIsRecent` and `PublishedIsFound`.

**Rate limiter** (`FlowProofs`), assuming `RefillsInTime`: a bucket fills up within
the ttl, as with the defaults. `RateLimiterInv` orders the times of an entry and the next
sweep (`EntryTimes`) and says that what the watched bucket still holds has not been spent
(`SpentIsGone`). `RateLimiterInductive` gives `RateIsKept`, `IdleGo` and
`ImplementsBucket`: a sweep and a new bucket are stutters of the eternal bucket.

Only model-checked: all liveness (`RequestsFinish`, `EventuallyPublished`, `RunsEnd`,
`ComesToRest`, `RequestsEnd`, `SignalledExits`, `ComeUp`), because the prover handles
neither fairness nor ENABLED. Every other property of the runs that pass has a theorem.

## Not modelled

- Reads of the Kubernetes and Temporal APIs for the UI, the other middleware, error
  mapping, logging and metrics: no state that outlives a request.
- The example consumer, which logs what it receives.
- Signature checking, JSON, SQL text and HTTP headers other than If-Match and
  Idempotency-Key.
- The stream's 30-day retention: an event is followed until it is stored.
- Two operators that go on side by side: the model has one, its successor and the last
  call of the old one. Refusals by the API server that do not depend on the resources (a
  name that is too long for a label, an env name it does not take): the operator would
  retry these for ever too. The informers' resync after hours, which would restore a ConfigMap.
- Startup of the API beyond its settings and migrations: the Kubernetes and Temporal
  clients only choose between two read-only modules. A signal during startup is a crash.
- A tenant create that is sent again: its handler reads no Idempotency-Key and the retry
  is a create like any other.
- Migration files out of sequence (a version added below one already applied).

## Plan

Writers that are commands of `AtomicCatalog` and `AtomicTenants` in `Pipeline`, in the place
of transactions of which only the events are told, so that what a consumer of the stream
knows can be compared with the rows.
