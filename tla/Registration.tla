----------------------------- MODULE Registration -----------------------------
(***************************************************************************)
(* POST /services with an Idempotency-Key: the Register handler around the *)
(* catalog's RegisterService command and the idempotency store             *)
(* (catalog/api/handlers.go, platform/idempotency).                        *)
(*                                                                         *)
(* A client draws one key for one body and sends it again, at once or      *)
(* later, when it has no answer.  Each request is one attempt.  The        *)
(* command is the single step AtomicCatalog allows, which Catalog          *)
(* implements; the service an attempt registers has an id of its own.      *)
(***************************************************************************)
EXTENDS AtomicCatalog

CONSTANTS
    Key,       \* idempotency keys
    Attempt,   \* requests, each with the id NewServiceID gives it
    MaxVersion \* bound: others leave a row at this version alone

ASSUME AttemptAssumption == Attempt = ServiceID /\ MaxVersion \in Nat /\ Time \subseteq Nat

VARIABLES
    bodies,    \* the request each key was drawn for
    keys,      \* idempotency_keys: the response stored under each key
    attempts   \* the handler of each request

regVars == <<services, outbox, bodies, keys, attempts>>

-----------------------------------------------------------------------------
Body == [name : Name, ownership : Ownership]

Created(id, row) == [status |-> 201, id |-> id, row |-> row]
Conflict         == [status |-> 409]
Failed           == [status |-> 500]

CreatedResponse == [status : {201}, id : ServiceID, row : Service]

\* A key that is free, or an answer that did not arrive, is told from a body and a response.
NullIsNoAnswer == Null \notin Body \cup CreatedResponse \cup {Conflict, Failed}

ASSUME AnswerAssumption == NullIsNoAnswer

Unsent == [pc |-> "unsent"]

RegInit ==
    /\ Init
    /\ bodies = [k \in Key |-> Null]
    /\ keys = [k \in Key |-> Null]
    /\ attempts = [a \in Attempt |-> Unsent]

At(a, pc) == attempts[a].pc = pc

Goto(a, pc) == attempts' = [attempts EXCEPT ![a].pc = pc]

\* The handler writes its response and returns.
Respond(a, r) == attempts' = [attempts EXCEPT ![a].pc = "done", ![a].answer = r]

\* The handler's command has committed.
Committed(a, pc, r) ==
    attempts' = [attempts EXCEPT ![a].pc = pc, ![a].created = TRUE, ![a].answer = r]

\* A client sends its request, for the first time or again.
Send(a, k, b) ==
    /\ At(a, "unsent")
    /\ bodies[k] \in {Null, b}
    /\ bodies' = [bodies EXCEPT ![k] = b]
    /\ attempts' = [attempts EXCEPT ![a] =
                        [pc |-> "lookup", key |-> k, created |-> FALSE, answer |-> Null]]
    /\ UNCHANGED <<services, outbox, keys>>

\* Fault: the replay shows the service as it is now.
Lookup_Current(a) ==
    /\ At(a, "lookup")
    /\ LET saved == keys[attempts[a].key] IN
        IF saved = Null THEN Goto(a, "register")
        ELSE Respond(a, Created(saved.id, services[saved.id]))
    /\ UNCHANGED <<services, outbox, bodies, keys>>

\* A stored response is replayed.
Lookup(a) ==
    /\ At(a, "lookup")
    /\ LET saved == keys[attempts[a].key] IN
        IF saved = Null THEN Goto(a, "register") ELSE Respond(a, saved)
    /\ UNCHANGED <<services, outbox, bodies, keys>>

NameTaken(n) == \E s \in ServiceID : services[s] # Null /\ services[s].name = n

CommandOf(a) ==
    [op |-> "RegisterService", id |-> a, name |-> bodies[attempts[a].key].name,
     ownership |-> bodies[attempts[a].key].ownership]

\* ErrNameConflict: answered and not stored.
Refuse(a) ==
    /\ At(a, "register")
    /\ NameTaken(CommandOf(a).name)
    /\ Respond(a, Conflict)
    /\ UNCHANGED <<services, outbox, bodies, keys>>

\* Fault: the table has no unique constraint on names.
Execute_AnyName(a, now) ==
    /\ At(a, "register")
    /\ services' = [services EXCEPT ![a] = Register(CommandOf(a), now)]
    /\ outbox' = [outbox EXCEPT ![a] = @ \o <<Registered(CommandOf(a), now)>>]
    /\ Committed(a, "save", Created(a, Register(CommandOf(a), now)))
    /\ UNCHANGED <<bodies, keys>>

\* The command commits.
Execute(a, now) ==
    /\ At(a, "register")
    /\ RegisterService(CommandOf(a), now)
    /\ Committed(a, "save", Created(a, Register(CommandOf(a), now)))
    /\ UNCHANGED <<bodies, keys>>

\* The command commits but the reply to COMMIT is lost.
ExecuteUnconfirmed(a, now) ==
    /\ At(a, "register")
    /\ RegisterService(CommandOf(a), now)
    /\ Committed(a, "done", Failed)
    /\ UNCHANGED <<bodies, keys>>

\* INSERT ... ON CONFLICT DO NOTHING, then the response.
Save(a) ==
    /\ At(a, "save")
    /\ keys' = [keys EXCEPT ![attempts[a].key] = IF @ = Null THEN attempts[a].answer ELSE @]
    /\ Goto(a, "done")
    /\ UNCHANGED <<services, outbox, bodies>>

\* A failed Save is ignored.
SaveFails(a) ==
    /\ At(a, "save")
    /\ Goto(a, "done")
    /\ UNCHANGED <<services, outbox, bodies, keys>>

\* Lookup or the command fails with nothing written.
CallFails(a) ==
    /\ At(a, "lookup") \/ At(a, "register")
    /\ Respond(a, Failed)
    /\ UNCHANGED <<services, outbox, bodies, keys>>

\* The API server dies, or the client has gone: no answer arrives.
Crash(a) ==
    /\ ~ At(a, "unsent") /\ ~ At(a, "done")
    /\ Respond(a, Null)
    /\ UNCHANGED <<services, outbox, bodies, keys>>

\* Meanwhile other requests change the registered services.
Others ==
    /\ \E now \in Time, c \in MutateCommand :
        Mutate(c, now) /\ services[c.id].version < MaxVersion
    /\ UNCHANGED <<bodies, keys, attempts>>

RegNext ==
    \/ \E a \in Attempt :
        \/ \E k \in Key, b \in Body : Send(a, k, b)
        \/ Lookup(a) \/ Refuse(a) \/ Save(a) \/ SaveFails(a) \/ CallFails(a) \/ Crash(a)
        \/ \E now \in Time : Execute(a, now) \/ ExecuteUnconfirmed(a, now)
    \/ Others

RegSpec == RegInit /\ [][RegNext]_regVars

-----------------------------------------------------------------------------
(* Properties.                                                             *)

Handler ==
    [pc : {"lookup", "register", "save", "done"}, key : Key, created : BOOLEAN,
     answer : CreatedResponse \cup {Conflict, Failed, Null}]

TypeOK ==
    /\ bodies \in [Key -> Body \cup {Null}]
    /\ keys \in [Key -> CreatedResponse \cup {Null}]
    /\ attempts \in [Attempt -> {Unsent} \cup Handler]

SameKey(a, b) == ~ At(a, "unsent") /\ ~ At(b, "unsent") /\ attempts[a].key = attempts[b].key

\* However often a request is sent, one service at most comes of it.
RegisteredOnce == \A a, b \in Attempt :
    SameKey(a, b) /\ attempts[a].created /\ attempts[b].created => a = b

Answered(a, status) ==
    At(a, "done") /\ attempts[a].answer # Null /\ attempts[a].answer.status = status

\* All the requests of a key that are answered with success get the same status and body,
\* and go on getting them after the service has changed (Lookup, Save).  A replay has no
\* Location and no ETag; headers are not part of the model.
AnswersAgree == \A a, b \in Attempt :
    SameKey(a, b) /\ Answered(a, 201) /\ Answered(b, 201) => attempts[a].answer = attempts[b].answer

\* A request sent again gets the original outcome: once one of a key's requests has
\* registered its service, none is told that the name is taken.
OriginalOutcome == \A a, b \in Attempt :
    SameKey(a, b) /\ attempts[a].created => ~ Answered(b, 409)

-----------------------------------------------------------------------------
(* Why they hold.                                                          *)

Sent(a) == ~ At(a, "unsent")

\* Rows are those of the attempts that created one, under the name their key was drawn for.
RowsAreCreated == \A a \in Attempt :
    /\ services[a] # Null <=> Sent(a) /\ attempts[a].created
    /\ Sent(a) => bodies[attempts[a].key] # Null
    /\ Sent(a) /\ attempts[a].created => services[a].name = bodies[attempts[a].key].name

NamesDiffer == \A s, t \in ServiceID :
    services[s] # Null /\ services[t] # Null /\ services[s].name = services[t].name => s = t

\* An answer is there once the handler has one; a response of success is about the
\* service the attempt created, or the one stored under its key.
AnswersExplained == \A a \in Attempt : Sent(a) =>
    /\ attempts[a].pc \in {"lookup", "register"} => ~ attempts[a].created /\ attempts[a].answer = Null
    /\ At(a, "save") => attempts[a].created /\ attempts[a].answer \in CreatedResponse
    /\ attempts[a].answer \in CreatedResponse =>
        \/ attempts[a].created /\ attempts[a].answer.id = a
        \/ At(a, "done") /\ attempts[a].answer = keys[attempts[a].key]

\* A stored response is the answer of the attempt of this key that created its service.
KeysExplained == \A k \in Key, a \in Attempt : keys[k] # Null /\ keys[k].id = a =>
    At(a, "done") /\ attempts[a].key = k /\ attempts[a].created /\ attempts[a].answer = keys[k]

RegInv ==
    /\ services \in [ServiceID -> Service \cup {Null}]
    /\ TypeOK /\ RowsAreCreated /\ NamesDiffer /\ AnswersExplained /\ KeysExplained
=============================================================================
