----------------------------- MODULE Migrations -----------------------------
(***************************************************************************)
(* Migrate, run by every API server before it serves: pending *.up.sql     *)
(* files in version order, each in a transaction of its own that also      *)
(* records the version (internal/platform/postgres/migrate.go, cmd/api).   *)
(*                                                                         *)
(* Servers start together, and servers of several releases at once; a      *)
(* release embeds the files 1..Release[s].  No lock is taken around        *)
(* Migrate.  Every file creates tables without IF NOT EXISTS, so running   *)
(* one waits for an uncommitted run of the same file and fails after a     *)
(* committed one, before the key of schema_migrations is reached.          *)
(***************************************************************************)
EXTENDS Integers

CONSTANTS
    Server,      \* API server processes
    Release,     \* [Server -> number of migration files]
    MaxFaults    \* bound: failed calls, crashes and broken reads

ASSUME MigrationsAssumption == Release \in [Server -> Nat] /\ MaxFaults \in Nat

VARIABLES
    tables,              \* times each file's statements are committed
    schema_migrations,   \* versions recorded as applied
    api,                 \* each server: where it is, and the versions it has still to apply
    faults

vars == <<tables, schema_migrations, api, faults>>

-----------------------------------------------------------------------------
Files(s) == 1..Release[s]
Version == UNION {Files(s) : s \in Server}

Stopped == [pc |-> "stopped", pending |-> {}]

Init ==
    /\ tables = [v \in Version |-> 0]
    /\ schema_migrations = {}
    /\ api = [s \in Server |-> Stopped]
    /\ faults = 0

Fault == faults < MaxFaults /\ faults' = faults + 1

\* Fault: the files run in the order of the directory, 10 before 9.
IsNext_Any(s, v) == v \in api[s].pending

IsNext(s, v) == v \in api[s].pending /\ \A u \in api[s].pending : v <= u

\* Another server has run file v and not ended its transaction.
Uncommitted(s, v) == \E o \in Server \ {s} :
    api[o].pc \in {"applied", "recorded"} /\ IsNext(o, v)

\* The server serves once nothing is pending.
Loop(s, pending) ==
    api' = [api EXCEPT ![s] = [pc |-> IF pending = {} THEN "serving" ELSE "applying", pending |-> pending]]

Exit(s) == api' = [api EXCEPT ![s] = Stopped]

\* The process starts and makes sure that schema_migrations exists.
Start(s) ==
    /\ api[s].pc = "stopped"
    /\ api' = [api EXCEPT ![s].pc = "reading"]
    /\ UNCHANGED <<tables, schema_migrations, faults>>

ReadApplied(s) ==
    /\ api[s].pc = "reading"
    /\ Loop(s, Files(s) \ schema_migrations)
    /\ UNCHANGED <<tables, schema_migrations, faults>>

\* The connection breaks while the versions are read: rows.Err is not looked at, and the
\* versions not read are taken for pending.
ReadInterrupted(s) ==
    /\ Fault
    /\ api[s].pc = "reading"
    /\ \E seen \in SUBSET schema_migrations : Loop(s, Files(s) \ seen)
    /\ UNCHANGED <<tables, schema_migrations>>

\* Fault: a file that another server is running is left to that server.
Apply_LeavesToOther(s) ==
    /\ api[s].pc = "applying"
    /\ \E v \in Version :
        /\ IsNext(s, v)
        /\ IF Uncommitted(s, v) THEN Loop(s, api[s].pending \ {v})
           ELSE IF tables[v] > 0 THEN Exit(s)
           ELSE api' = [api EXCEPT ![s].pc = "applied"]
    /\ UNCHANGED <<tables, schema_migrations, faults>>

\* Fault: the statements wait until they can succeed.
Apply_Waits(s) ==
    /\ api[s].pc = "applying"
    /\ \E v \in Version : IsNext(s, v) /\ ~ Uncommitted(s, v) /\ tables[v] = 0
    /\ api' = [api EXCEPT ![s].pc = "applied"]
    /\ UNCHANGED <<tables, schema_migrations, faults>>

\* Run the next file; a file that is applied already makes Migrate return the error.
Apply(s) ==
    /\ api[s].pc = "applying"
    /\ \E v \in Version :
        /\ IsNext(s, v)
        /\ ~ Uncommitted(s, v)
        /\ IF tables[v] > 0 THEN Exit(s) ELSE api' = [api EXCEPT ![s].pc = "applied"]
    /\ UNCHANGED <<tables, schema_migrations, faults>>

\* Fault: the version is recorded on the pool, outside the transaction.
Record_OnPool(s) ==
    /\ api[s].pc = "applied"
    /\ \E v \in Version : IsNext(s, v) /\ schema_migrations' = schema_migrations \cup {v}
    /\ api' = [api EXCEPT ![s].pc = "recorded"]
    /\ UNCHANGED <<tables, faults>>

\* INSERT INTO schema_migrations, in the transaction.
Record(s) ==
    /\ api[s].pc = "applied"
    /\ api' = [api EXCEPT ![s].pc = "recorded"]
    /\ UNCHANGED <<tables, schema_migrations, faults>>

\* The transaction commits.
Committed(s) ==
    \E v \in Version :
        /\ IsNext(s, v)
        /\ tables' = [tables EXCEPT ![v] = @ + 1]
        /\ schema_migrations' = schema_migrations \cup {v}

Commit(s) ==
    /\ api[s].pc = "recorded"
    /\ Committed(s)
    /\ \E v \in Version : IsNext(s, v) /\ Loop(s, api[s].pending \ {v})
    /\ UNCHANGED faults

\* The commit takes effect and its answer is lost: Migrate returns the error.
CommitUnconfirmed(s) ==
    /\ Fault
    /\ api[s].pc = "recorded"
    /\ Committed(s)
    /\ Exit(s)

\* A call fails or the process dies: an open transaction is rolled back.
Fail(s) ==
    /\ Fault
    /\ api[s] # Stopped
    /\ Exit(s)
    /\ UNCHANGED <<tables, schema_migrations>>

Step(s) == Start(s) \/ ReadApplied(s) \/ Apply(s) \/ Record(s) \/ Commit(s)

Next == \E s \in Server : Step(s) \/ ReadInterrupted(s) \/ CommitUnconfirmed(s) \/ Fail(s)

Spec == Init /\ [][Next]_vars

\* A server goes on with its startup, and one that exited is started again.
FairSpec == Spec /\ \A s \in Server : WF_vars(Step(s))

-----------------------------------------------------------------------------
(* Properties.                                                             *)

TypeOK ==
    /\ tables \in [Version -> Nat]
    /\ schema_migrations \in SUBSET Version
    /\ api \in [Server -> [pc : {"stopped", "reading", "applying", "applied", "recorded", "serving"},
                           pending : SUBSET Version]]
    /\ \A s \in Server : api[s].pending = {} <=> api[s].pc \in {"stopped", "reading", "serving"}

\* A file is applied once and recorded exactly when it is applied, however servers race,
\* fail or misread what is recorded (the transaction around file and INSERT).
RecordedIsApplied ==
    \A v \in Version : tables[v] = IF v \in schema_migrations THEN 1 ELSE 0

\* A server never serves on a schema older than its release, although it may have skipped
\* versions because others were recorded (the pending list, the exit on failure).
ServingIsMigrated ==
    \A s \in Server : api[s].pc = "serving" => \A v \in Files(s) : tables[v] = 1

\* Versions are applied in order across all servers: a file finds the tables of every
\* earlier one (sort by version).
InVersionOrder ==
    \A v \in Version : tables[v] > 0 => \A u \in 1..(v - 1) : tables[u] > 0

(* The inductive invariant behind them.                                    *)

\* What a server at its files has not to apply any more is applied.
RestIsApplied ==
    \A s \in Server : api[s].pc \in {"applying", "applied", "recorded"} =>
        /\ api[s].pending \subseteq Files(s)
        /\ \A v \in Files(s) \ api[s].pending : tables[v] = 1

\* A file that ran in an open transaction is not applied, and no other server ran it.
RunsAlone ==
    \A s \in Server, v \in Version : api[s].pc \in {"applied", "recorded"} /\ IsNext(s, v) =>
        tables[v] = 0 /\ ~ Uncommitted(s, v)

MigrationsInv ==
    /\ TypeOK /\ RecordedIsApplied /\ ServingIsMigrated /\ InVersionOrder
    /\ RestIsApplied /\ RunsAlone

\* Servers that lose the race exit, and once started again they all come to serve.
AllServe == \A s \in Server : <>[](api[s].pc = "serving")
=============================================================================
