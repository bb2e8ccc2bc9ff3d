----------------------------- MODULE ApiServer -----------------------------
(***************************************************************************)
(* The API process from start to exit: configuration, migrations (module   *)
(* Migrations), listening, requests that share the connection pool, and    *)
(* the graceful shutdown with its deferred calls (cmd/api, internal/       *)
(* platform/config, httpx/server.go, postgres.go and the Timeout           *)
(* middleware).                                                            *)
(*                                                                         *)
(* What a handler does is left open: it takes and returns pool connections *)
(* as it likes and answers at some time, or hangs in a call.  net/http and *)
(* pgxpool are external: Shutdown closes the listener and returns when no  *)
(* request is active, Close refuses connections at once and returns when   *)
(* those taken have come back.                                             *)
(***************************************************************************)
EXTENDS Migrations, FiniteSets

CONSTANTS
    Setting,      \* [Server -> its environment variables]
    Request,      \* requests of clients, each sent once
    MaxSignals    \* bound: SIGTERMs

ASSUME ApiServerAssumption == MaxSignals \in Nat

VARIABLES
    phase,    \* each process after Migrate: "off", "up", "draining" or "closing"
    code,     \* what run returned, or will: "none", "ok" or "error"
    req,      \* each request: where it is, the server that has it, whether its time is up
    signals   \* the bound's counter

process == <<phase, code, req, signals>>
apiVars == <<vars, process>>

-----------------------------------------------------------------------------
(* Configuration.                                                          *)

IsProduction(c) == c.env = "production"

\* Fault: the mode is not compared with the two known ones.
validate_AnyMode(c) ==
    /\ c.db
    /\ c.mode = "hmac" => c.secret /\ ~ IsProduction(c)
    /\ c.mode = "jwks" => c.jwks /\ c.issuer /\ c.audience
    /\ c.minConns <= c.maxConns

\* db, secret, jwks, issuer and audience say whether the variable is set and not empty.
validate(c) ==
    /\ c.db
    /\ c.mode \in {"hmac", "jwks"}
    /\ c.mode = "hmac" => c.secret /\ ~ IsProduction(c)
    /\ c.mode = "jwks" => c.jwks /\ c.issuer /\ c.audience
    /\ c.minConns <= c.maxConns

\* pgxpool refuses a pool of no connections.
Opens(c) == c.maxConns >= 1

buildVerifier(c) == IF c.mode = "jwks" THEN "jwks" ELSE "hmac"

-----------------------------------------------------------------------------
(* Requests and the pool.                                                  *)

Active(r) == req[r].pc \in {"running", "holding"}
ActiveAt(s) == {r \in Request : Active(r) /\ req[r].at = s}
HeldAt(s) == {r \in ActiveAt(s) : req[r].pc = "holding"}

Unsent == [pc |-> "unsent"]

Handled ==
    [pc : {"running", "holding", "answered", "lost", "cut"}, at : Server, late : BOOLEAN]

APIInit ==
    /\ Init
    /\ phase = [s \in Server |-> "off"]
    /\ code = [s \in Server |-> "none"]
    /\ req = [r \in Request |-> Unsent]
    /\ signals = 0

Goto(r, pc) == req' = [req EXCEPT ![r].pc = pc]

Accept(r, s) ==
    /\ req[r].pc = "unsent"
    /\ phase[s] = "up"
    /\ req' = [req EXCEPT ![r] = [pc |-> "running", at |-> s, late |-> FALSE]]
    /\ UNCHANGED <<vars, phase, code, signals>>

\* Fault: the handlers' calls do not get the request's context.
Acquire_NoContext(r) ==
    /\ req[r].pc = "running"
    /\ phase[req[r].at] # "closing"
    /\ Cardinality(HeldAt(req[r].at)) < Setting[req[r].at].maxConns
    /\ Goto(r, "holding")
    /\ UNCHANGED <<vars, phase, code, signals>>

\* A call or a transaction gets its connection; without one it waits, or fails when the
\* pool is closed or the context done.
Acquire(r) ==
    /\ req[r].pc = "running"
    /\ ~ req[r].late
    /\ phase[req[r].at] # "closing"
    /\ Cardinality(HeldAt(req[r].at)) < Setting[req[r].at].maxConns
    /\ Goto(r, "holding")
    /\ UNCHANGED <<vars, phase, code, signals>>

\* It ends and the connection goes back.
Return(r) ==
    /\ req[r].pc = "holding"
    /\ Goto(r, "running")
    /\ UNCHANGED <<vars, phase, code, signals>>

\* The handler answers; past the connection's write deadline nothing arrives.
Reply(r) ==
    /\ req[r].pc = "running"
    /\ Goto(r, IF req[r].late THEN "lost" ELSE "answered")
    /\ UNCHANGED <<vars, phase, code, signals>>

\* Fault: no Timeout middleware.
Deadline_Never(r) ==
    /\ Active(r) /\ ~ Active(r)
    /\ UNCHANGED apiVars

\* Timeout: 30 s are over.  WriteTimeout, also 30 s, began a moment earlier.
Deadline(r) ==
    /\ Active(r) /\ ~ req[r].late
    /\ req' = [req EXCEPT ![r].late = TRUE]
    /\ UNCHANGED <<vars, phase, code, signals>>

-----------------------------------------------------------------------------
(* The process.                                                            *)

\* Requests of a process that ends are cut off.
Cut(s) == req' = [r \in Request |-> IF r \in ActiveAt(s) THEN [req[r] EXCEPT !.pc = "cut"] ELSE req[r]]

\* Load, pg.New and the beginning of Migrate; other settings end the process.
Launch(s) ==
    /\ validate(Setting[s]) /\ Opens(Setting[s])
    /\ Start(s)
    /\ UNCHANGED process

Migrating(s) ==
    /\ ReadApplied(s) \/ Apply(s) \/ Record(s) \/ Commit(s)
    /\ UNCHANGED process

Misled(s) ==
    /\ ReadInterrupted(s) \/ CommitUnconfirmed(s)
    /\ UNCHANGED process

Listen(s) ==
    /\ api[s].pc = "serving" /\ phase[s] = "off"
    /\ phase' = [phase EXCEPT ![s] = "up"]
    /\ UNCHANGED <<vars, code, req, signals>>

\* Start returns an error, such as an address in use: select takes it and run returns.
ListenFails(s) ==
    /\ Fault
    /\ api[s].pc = "serving" /\ phase[s] = "off"
    /\ phase' = [phase EXCEPT ![s] = "closing"]
    /\ code' = [code EXCEPT ![s] = "error"]
    /\ UNCHANGED <<tables, schema_migrations, api, req, signals>>

\* SIGTERM, before or after the listener is open: Shutdown begins.
Signal(s) ==
    /\ signals < MaxSignals /\ signals' = signals + 1
    /\ api[s].pc = "serving" /\ phase[s] \in {"off", "up"}
    /\ phase' = [phase EXCEPT ![s] = "draining"]
    /\ UNCHANGED <<vars, code, req>>

\* Fault: the error of Shutdown is dropped.
Drained_Anyway(s) ==
    /\ phase[s] = "draining"
    /\ phase' = [phase EXCEPT ![s] = "closing"]
    /\ code' = [code EXCEPT ![s] = "ok"]
    /\ UNCHANGED <<vars, req, signals>>

Drained(s) ==
    /\ phase[s] = "draining"
    /\ ActiveAt(s) = {}
    /\ phase' = [phase EXCEPT ![s] = "closing"]
    /\ code' = [code EXCEPT ![s] = "ok"]
    /\ UNCHANGED <<vars, req, signals>>

\* ShutdownTimeout is over with requests still active: run returns the error.
ShutdownExpires(s) ==
    /\ phase[s] = "draining"
    /\ ActiveAt(s) # {}
    /\ phase' = [phase EXCEPT ![s] = "closing"]
    /\ code' = [code EXCEPT ![s] = "error"]
    /\ UNCHANGED <<vars, req, signals>>

\* The deferred calls: pool.Close returns, traces are flushed, the process exits.
Quit(s) ==
    /\ phase[s] = "closing"
    /\ HeldAt(s) = {}
    /\ phase' = [phase EXCEPT ![s] = "off"]
    /\ Exit(s)
    /\ Cut(s)
    /\ UNCHANGED <<tables, schema_migrations, faults, code, signals>>

\* A startup that fails, or a process that dies at any time.
Crash(s) ==
    /\ Fail(s)
    /\ phase' = [phase EXCEPT ![s] = "off"]
    /\ code' = [code EXCEPT ![s] = "error"]
    /\ Cut(s)
    /\ UNCHANGED signals

\* What a process does by itself, and what becomes of a request whatever its handler does.
Proceed(s) == Launch(s) \/ Migrating(s) \/ Listen(s) \/ Drained(s) \/ ShutdownExpires(s) \/ Quit(s)
TimeOut(r) == Deadline(r) \/ (Active(r) /\ req[r].late /\ (Return(r) \/ Reply(r)))

APINext ==
    \/ \E s \in Server :
        \/ Proceed(s) \/ Misled(s) \/ ListenFails(s) \/ Signal(s) \/ Crash(s)
        \/ \E r \in Request : Accept(r, s)
    \/ \E r \in Request : Acquire(r) \/ Return(r) \/ Reply(r) \/ Deadline(r)

APISpec == APIInit /\ [][APINext]_apiVars

(***************************************************************************)
(* A process goes on with what it is doing and is started again when it    *)
(* exits; timers fire; a call returns once its context is done.  Nothing   *)
(* else makes a handler answer or a call return.                           *)
(***************************************************************************)
FairAPISpec ==
    /\ APISpec
    /\ \A s \in Server : WF_apiVars(Proceed(s))
    /\ \A r \in Request : WF_apiVars(TimeOut(r))

-----------------------------------------------------------------------------
(* Properties.                                                             *)

\* A server that serves checks tokens with a verifier it has the settings for, and in
\* production never with a shared secret: buildVerifier takes every mode but jwks for
\* hmac and relies on validate.
VerifierIsConfigured ==
    \A s \in Server : api[s].pc = "serving" =>
        LET c == Setting[s] IN
        IF buildVerifier(c) = "jwks" THEN c.jwks /\ c.issuer /\ c.audience
        ELSE c.secret /\ ~ IsProduction(c)

\* A process that reports a clean shutdown has cut off no request.
CleanExitCutsNone == [][\A r \in Request :
    Active(r) /\ req'[r].pc = "cut" => code'[req[r].at] = "error"]_apiVars

\* Only a server that has applied all the files of its release handles requests.
HandledOnSchema == \A r \in Request : Active(r) => \A v \in Files(req[r].at) : tables[v] = 1

\* Every request ends, answered or not, though handlers hang in their calls and wait for
\* connections that others hold (the Timeout middleware).
RequestsEnd == \A r \in Request : Active(r) ~> ~ Active(r)

\* A process told to stop exits, although pool.Close waits for handlers that Shutdown
\* has given up on.
SignalledExits == \A s \in Server : phase[s] = "draining" ~> phase[s] = "off"

\* Servers whose settings are valid all come to listen, after lost migration races,
\* crashes, failed listens and restarts.
ComeUp == \A s \in Server : validate(Setting[s]) /\ Opens(Setting[s]) => <>[](phase[s] = "up")

(* The inductive invariant behind the safety properties.                   *)

ProcessTypeOK ==
    /\ phase \in [Server -> {"off", "up", "draining", "closing"}]
    /\ code \in [Server -> {"none", "ok", "error"}]
    /\ req \in [Request -> {Unsent} \cup Handled]

\* Requests are at processes that serve, on servers whose migrations are done.
ActiveIsServed ==
    /\ \A s \in Server : phase[s] # "off" => api[s].pc = "serving"
    /\ \A r \in Request : Active(r) => phase[req[r].at] # "off"

\* A process about to exit knows what it returns, and has no request if that is no error.
CleanIsDrained ==
    \A s \in Server : phase[s] = "closing" =>
        code[s] = "error" \/ (code[s] = "ok" /\ ActiveAt(s) = {})

ProcessInv == MigrationsInv /\ ProcessTypeOK /\ ActiveIsServed /\ CleanIsDrained

\* A process that has come past Load and pg.New has settings both accept.
StartedIsValid ==
    \A s \in Server : api[s].pc # "stopped" => validate(Setting[s]) /\ Opens(Setting[s])
=============================================================================
