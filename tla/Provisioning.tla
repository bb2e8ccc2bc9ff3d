---------------------------- MODULE Provisioning ----------------------------
(***************************************************************************)
(* ProvisionTenantWorkflow: a saga over the systems a tenant environment   *)
(* spans, run by Temporal for one tenant slug (internal/provisioning,      *)
(* cmd/provision).                                                         *)
(*                                                                         *)
(* Steps 1 to 4 create the namespace, the quota, the DNS record and the    *)
(* secret path; step 5 finalizes and creates nothing.  Temporal runs an    *)
(* activity at most MaximumAttempts times.  The workflow's own state is    *)
(* durable, so a worker crash is a failed attempt.  The workflow id is the *)
(* slug's, so its runs follow each other.                                  *)
(*                                                                         *)
(* An attempt that Temporal counts as failed may have done nothing         *)
(* ("error"), may have done its work and lost the reply ("hidden"), or may *)
(* outlive its StartToCloseTimeout and do its work later ("late").         *)
(***************************************************************************)
EXTENDS Integers, FiniteSets

CONSTANTS
    MaximumAttempts,   \* RetryPolicy.MaximumAttempts
    Faults,            \* kinds of failure that happen
    MaxRuns,           \* bound: times the workflow is started
    MaxLate            \* bound: late attempts under way, and resources they touched in a run

ASSUME ProvisioningAssumption ==
    /\ MaximumAttempts \in Nat \ {0}
    /\ Faults \subseteq {"error", "hidden", "late", "cancel"}
    /\ MaxRuns \in Nat /\ MaxLate \in Nat

VARIABLES
    resources,   \* what exists in the external systems
    late,        \* activities with an attempt that Temporal gave up and still runs
    runs,        \* workflow runs started
    pc,          \* "idle", "running" or "compensating"
    step,        \* the step being executed, or the one that failed
    comp,        \* the compensation being executed
    attempt,     \* failed attempts of the current activity
    gaveUp,      \* compensations of this run that failed for good
    before,      \* resources when this run began
    overtaken,   \* resources a late attempt has touched since then
    outcome      \* result of the last run

sagaVars == <<resources, late, runs, pc, step, comp, attempt, gaveUp, before, overtaken, outcome>>

-----------------------------------------------------------------------------
Resource == 1..4
Finalize == 5

Activity == [op : {"create", "delete"}, of : Resource]

\* The effect of an activity; creating or deleting twice changes nothing.
Effect(op, i, R) ==
    IF op = "create" THEN R \cup ({i} \cap Resource) ELSE R \ {i}

\* An attempt outlives its timeout: it will do its work later.
RunsLate(a) ==
    /\ a \in Activity
    /\ Cardinality(late) + Cardinality(overtaken) < MaxLate
    /\ late' = late \cup {a}

\* What a failed attempt leaves behind.
FailedAttempt(op, i) ==
    \/ "error" \in Faults /\ UNCHANGED <<resources, late>>
    \/ "hidden" \in Faults /\ resources' = Effect(op, i, resources) /\ UNCHANGED late
    \/ "late" \in Faults /\ RunsLate([op |-> op, of |-> i]) /\ UNCHANGED resources

SagaInit ==
    /\ resources = {} /\ late = {}
    /\ runs = 0 /\ pc = "idle" /\ step = 1 /\ comp = 0 /\ attempt = 0
    /\ gaveUp = {} /\ before = {} /\ overtaken = {} /\ outcome = "none"

\* ExecuteWorkflow: a new run of the slug's workflow id.
ExecuteWorkflow ==
    /\ pc = "idle"
    /\ runs < MaxRuns
    /\ runs' = runs + 1
    /\ pc' = "running" /\ step' = 1 /\ comp' = 0 /\ attempt' = 0
    /\ gaveUp' = {} /\ before' = resources /\ overtaken' = {} /\ outcome' = "none"
    /\ UNCHANGED <<resources, late>>

Return(result) == pc' = "idle" /\ outcome' = result

\* An activity succeeds: its compensation is registered and the next one starts.
StepSucceeds ==
    /\ pc = "running"
    /\ resources' = Effect("create", step, resources)
    /\ IF step = Finalize
       THEN Return("succeeded") /\ UNCHANGED <<step, attempt>>
       ELSE step' = step + 1 /\ attempt' = 0 /\ UNCHANGED <<pc, outcome>>
    /\ UNCHANGED <<late, runs, comp, gaveUp, before, overtaken>>

\* An attempt fails and is retried.
StepRetries ==
    /\ pc = "running"
    /\ attempt + 1 < MaximumAttempts
    /\ FailedAttempt("create", step)
    /\ attempt' = attempt + 1
    /\ UNCHANGED <<runs, pc, step, comp, gaveUp, before, overtaken, outcome>>

\* Fault: a step that failed for good is taken for done.
StepFails_Ignored ==
    /\ pc = "running"
    /\ attempt + 1 = MaximumAttempts
    /\ step # Finalize
    /\ FailedAttempt("create", step)
    /\ attempt' = 0
    /\ step' = step + 1
    /\ UNCHANGED <<runs, pc, comp, gaveUp, before, overtaken, outcome>>

\* Fault: the rollback starts one compensation too low.
StepFails_SkipsLast ==
    /\ pc = "running"
    /\ attempt + 1 = MaximumAttempts
    /\ FailedAttempt("create", step)
    /\ attempt' = 0
    /\ IF step <= 2
       THEN Return("failed") /\ UNCHANGED comp
       ELSE pc' = "compensating" /\ comp' = step - 2 /\ UNCHANGED outcome
    /\ UNCHANGED <<runs, step, gaveUp, before, overtaken>>

\* The last attempt fails.  The first step returns at once, the others compensate.
StepFails ==
    /\ pc = "running"
    /\ attempt + 1 = MaximumAttempts
    /\ FailedAttempt("create", step)
    /\ attempt' = 0
    /\ IF step = 1
       THEN Return("failed") /\ UNCHANGED comp
       ELSE pc' = "compensating" /\ comp' = step - 1 /\ UNCHANGED outcome
    /\ UNCHANGED <<runs, step, gaveUp, before, overtaken>>

\* compensate's loop goes on to the compensation registered before, or ends.
NextCompensation ==
    /\ attempt' = 0
    /\ IF comp = 1
       THEN Return("failed") /\ UNCHANGED comp
       ELSE comp' = comp - 1 /\ UNCHANGED <<pc, outcome>>

\* Fault: the compensations run in the order the steps did.
CompensationSucceeds_Forward ==
    /\ pc = "compensating"
    /\ resources' = Effect("delete", step - comp, resources)
    /\ NextCompensation
    /\ UNCHANGED <<late, runs, step, gaveUp, before, overtaken>>

CompensationSucceeds ==
    /\ pc = "compensating"
    /\ resources' = Effect("delete", comp, resources)
    /\ NextCompensation
    /\ UNCHANGED <<late, runs, step, gaveUp, before, overtaken>>

CompensationRetries ==
    /\ pc = "compensating"
    /\ attempt + 1 < MaximumAttempts
    /\ FailedAttempt("delete", comp)
    /\ attempt' = attempt + 1
    /\ UNCHANGED <<runs, pc, step, comp, gaveUp, before, overtaken, outcome>>

\* Fault: a failed compensation is tried again for ever.
CompensationFails_Again ==
    /\ pc = "compensating"
    /\ attempt + 1 = MaximumAttempts
    /\ FailedAttempt("delete", comp)
    /\ attempt' = 0
    /\ UNCHANGED <<runs, pc, step, comp, gaveUp, before, overtaken, outcome>>

\* A compensation that fails for good is logged and the rollback goes on.
CompensationFails ==
    /\ pc = "compensating"
    /\ attempt + 1 = MaximumAttempts
    /\ FailedAttempt("delete", comp)
    /\ gaveUp' = gaveUp \cup {comp}
    /\ NextCompensation
    /\ UNCHANGED <<runs, step, before, overtaken>>

InFlight ==
    IF pc = "running" THEN [op |-> "create", of |-> step] ELSE [op |-> "delete", of |-> comp]

\* The workflow's context is cancelled: the activity at hand is abandoned, and every
\* compensation fails, for compensate schedules them on the same context.
Cancel ==
    /\ "cancel" \in Faults
    /\ pc # "idle"
    /\ UNCHANGED late \/ RunsLate(InFlight)
    /\ Return("failed")
    /\ gaveUp' = gaveUp \cup 1..(IF pc = "running" THEN step - 1 ELSE comp)
    /\ UNCHANGED <<resources, runs, step, comp, attempt, before, overtaken>>

LateAttempt(a) ==
    /\ a \in late
    /\ late' = late \ {a}
    /\ resources' = Effect(a.op, a.of, resources)
    /\ overtaken' = overtaken \cup {a.of}
    /\ UNCHANGED <<runs, pc, step, comp, attempt, gaveUp, before, outcome>>

Workflow ==
    \/ StepSucceeds \/ StepRetries \/ StepFails
    \/ CompensationSucceeds \/ CompensationRetries \/ CompensationFails

SagaNext ==
    \/ ExecuteWorkflow \/ Workflow \/ Cancel
    \/ \E a \in Activity : LateAttempt(a)

SagaSpec == SagaInit /\ [][SagaNext]_sagaVars

\* Temporal ends every attempt: it succeeds, fails or times out.
SagaFairSpec == SagaSpec /\ WF_sagaVars(Workflow)

-----------------------------------------------------------------------------
(* Properties.                                                             *)

SagaTypeOK ==
    /\ resources \in SUBSET Resource
    /\ late \in SUBSET Activity
    /\ runs \in 0..MaxRuns
    /\ pc \in {"idle", "running", "compensating"}
    /\ step \in 1..Finalize
    /\ comp \in 0..4
    /\ attempt \in 0..(MaximumAttempts - 1)
    /\ gaveUp \in SUBSET Resource
    /\ before \in SUBSET Resource /\ overtaken \in SUBSET Resource
    /\ outcome \in {"none", "succeeded", "failed"}

\* A workflow that reports success leaves the whole environment in place, whatever
\* failed runs and retries came before it; only an attempt that outlived its timeout
\* can take a resource away.
SuccessIsComplete == outcome = "succeeded" => Resource \subseteq resources \cup overtaken

\* What a run does not have to remove: the unreported work of the step at hand, resources
\* whose compensation failed for good, what lay beyond its reach, late attempts' work.
Excused == gaveUp \cup {step} \cup (before \ 1..step) \cup overtaken

\* Nothing else is left behind by a failed run: every completed step is rolled back,
\* whichever attempts, replies and compensations fail, and up to a cancellation.
ResidueExplained == outcome = "failed" => resources \subseteq Excused

\* Completed steps are rolled back in reverse order: the saga deletes a resource only
\* when the later ones are gone or excused.
InReverse == \A i \in Resource :
    late \subseteq late' /\ i \in resources /\ i \notin resources' =>
        \A j \in (i + 1)..4 : j \in resources => j \in Excused

RolledBackInReverse == [][InReverse]_sagaVars

\* What a run knows midway: the completed steps are in place, and only what the rollback
\* has still to visit, or is excused, exists during it.
Midway ==
    /\ pc # "idle" => outcome = "none"
    /\ pc = "running" =>
        /\ 1..(step - 1) \subseteq resources \cup overtaken
        /\ resources \subseteq 1..step \cup (before \ 1..step) \cup overtaken
    /\ pc = "compensating" =>
        /\ comp \in 1..(step - 1)
        /\ resources \subseteq 1..comp \cup Excused

SagaInv == SagaTypeOK /\ Midway /\ SuccessIsComplete /\ ResidueExplained

\* A failed run leaves nothing behind.
FailedLeavesNothing == outcome = "failed" => resources = {}

\* Provisioning is atomic: a failed run leaves the tenant as it found it.
AtomicLike == outcome = "failed" => resources = before

\* An environment that was reported as provisioned stands.
SuccessStands == outcome = "succeeded" => resources = Resource

\* Every run of the workflow ends, compensations included.
RunsEnd == pc # "idle" ~> pc = "idle"
=============================================================================
