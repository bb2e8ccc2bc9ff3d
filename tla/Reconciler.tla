----------------------------- MODULE Reconciler -----------------------------
(***************************************************************************)
(* ApplicationReconciler: the controller that turns one Application into a *)
(* Deployment, a Service and an observability ConfigMap                    *)
(* (internal/controller, cmd/operator).                                    *)
(*                                                                         *)
(* The API server holds the objects; the operator reads Applications and   *)
(* Deployments from an informer cache that lags behind it, and every watch *)
(* event it consumes queues the Application.  Each API call of Reconcile   *)
(* is a step, so that everything else may happen between two of them.  A   *)
(* call that was given up, or whose operator was stopped while the next    *)
(* one starts, may still take effect later.                                *)
(* Two objects of one kind are told apart by uid; uid 0 is no object.  A   *)
(* resourceVersion is current when no event of the object is on its way.   *)
(***************************************************************************)
EXTENDS Integers

CONSTANTS
    Specs,          \* specs the CRD schema admits
    Quantity,       \* canonical form of each string that is a resource quantity
    StatusSteps,    \* attempts of retry.DefaultRetry
    MaxEvents,      \* bound: changes by users, the cluster and intruders
    MaxFaults       \* bound: failed API calls and operator restarts

ASSUME ReconcilerAssumption ==
    /\ Specs # {}
    /\ Specs \subseteq [port : Nat, replicas : Nat, tier : 1..4, expose : BOOLEAN,
                        readOnly : {"unset", "yes", "no"}, cpu : STRING, memory : STRING]
    /\ \A s \in Specs : s.tier # 1 \/ s.replicas >= 2
    /\ StatusSteps \in Nat \ {0}
    /\ MaxEvents \in Nat /\ MaxFaults \in Nat

VARIABLES
    app, dep, svc, cm,    \* the objects on the API server
    cache,                \* the operator's informer caches that Reconcile reads
    unseen,               \* kinds of object with watch events on their way
    queued,               \* the Application is in the work queue
    pc, local, live,      \* Reconcile: where it is, what it read of Application and Deployment
    steps,                \* attempts of updateStatus
    late,                 \* calls given up that may still reach the API server
    exposed,              \* the Application has been exposed
    uids, events, faults  \* uids given out, and the two bounds' counters

server == <<app, dep, svc, cm>>
control == <<pc, local, live, steps, late>>
bounds == <<uids, exposed, events, faults>>
vars == <<server, cache, unseen, queued, control, bounds>>

Watched == {"app", "dep", "svc"}

-----------------------------------------------------------------------------
(* Desired state.                                                          *)

desiredReplicas(s) == IF s.replicas = 0 THEN 1 ELSE s.replicas

effectiveTier(s) == IF s.tier \in 1..4 THEN s.tier ELSE 3

readOnlyRoot(s) == s.readOnly # "no"

tierDefaults ==
    <<[cpu |-> "1", memory |-> "1Gi"], [cpu |-> "500m", memory |-> "512Mi"],
      [cpu |-> "250m", memory |-> "256Mi"], [cpu |-> "100m", memory |-> "128Mi"]>>

\* The strings to be parsed: the tier's, unless the spec has its own.
requests(s) ==
    LET def == tierDefaults[effectiveTier(s)] IN
    [cpu    |-> IF s.cpu # "" THEN s.cpu ELSE def.cpu,
     memory |-> IF s.memory # "" THEN s.memory ELSE def.memory]

\* resource.MustParse panics on a string that is not a quantity, which the CRD schema admits.
Builds(s) == {requests(s).cpu, requests(s).memory} \subseteq DOMAIN Quantity

MustParse(q) == IF q \in DOMAIN Quantity THEN Quantity[q] ELSE "panic"

resourceRequirements(s) ==
    [cpu |-> MustParse(requests(s).cpu), memory |-> MustParse(requests(s).memory)]

\* The Deployment of a spec that Builds.
desiredDeployment(s) ==
    [port |-> s.port, replicas |-> desiredReplicas(s), tier |-> effectiveTier(s),
     readOnlyRoot |-> readOnlyRoot(s), resources |-> resourceRequirements(s)]

desiredService(s) == [port |-> s.port, tier |-> effectiveTier(s)]

\* The alert on missing replicas is the only part that depends on the spec.
desiredObservability(s) == [alertBelow |-> desiredReplicas(s)]

\* The status that updateStatus computes from the Deployment it was given.
StatusOf(a, d) ==
    [phase |-> IF d.ready >= desiredReplicas(a.spec) THEN "Ready" ELSE "Progressing",
     observed |-> a.gen, replicas |-> d.replicas, ready |-> d.ready]

NoStatus == [phase |-> "", observed |-> 0, replicas |-> 0, ready |-> 0]
AnySpec == CHOOSE s \in Specs : TRUE
NoApp == [uid |-> 0, gen |-> 0, spec |-> AnySpec, status |-> NoStatus]
NoDep == [uid |-> 0, conf |-> desiredDeployment(AnySpec), edited |-> FALSE, replicas |-> 0, ready |-> 0]
\* What Reconcile looks at in an Application it reads, and in a Deployment.
Wanted(a) == [uid |-> a.uid, spec |-> a.spec]
Status(d) == [found |-> d.uid # 0, replicas |-> d.replicas, ready |-> d.ready]
Objects == [app |-> app, dep |-> Status(dep)]
NoSvc == [uid |-> 0, conf |-> desiredService(AnySpec), edited |-> FALSE]
NoCM  == [uid |-> 0, conf |-> desiredObservability(AnySpec), stray |-> FALSE]

-----------------------------------------------------------------------------
(* The cluster: users, pods, people who edit by hand, the garbage          *)
(* collector and the watches.                                              *)

Init ==
    /\ app = NoApp /\ dep = NoDep /\ svc = NoSvc /\ cm = NoCM
    /\ cache = [app |-> NoApp, dep |-> Status(NoDep)]
    /\ unseen = {} /\ queued = FALSE
    /\ pc = "idle" /\ local = Wanted(NoApp) /\ live = Status(NoDep) /\ steps = 0 /\ late = {}
    /\ uids = 0 /\ exposed = FALSE /\ events = 0 /\ faults = 0

Event == events < MaxEvents /\ events' = events + 1
Fault == faults < MaxFaults /\ faults' = faults + 1

CreateApp(s) ==
    /\ Event
    /\ app.uid = 0
    /\ uids' = uids + 1
    /\ app' = [uid |-> uids', gen |-> 1, spec |-> s, status |-> NoStatus]
    /\ exposed' = s.expose
    /\ unseen' = unseen \cup {"app"}
    /\ UNCHANGED <<dep, svc, cm, cache, queued, control, faults>>

UpdateSpec(s) ==
    /\ Event
    /\ app.uid # 0 /\ app.spec # s
    /\ app' = [app EXCEPT !.spec = s, !.gen = @ + 1]
    /\ exposed' = (exposed \/ s.expose)
    /\ unseen' = unseen \cup {"app"}
    /\ UNCHANGED <<dep, svc, cm, cache, queued, control, uids, faults>>

DeleteApp ==
    /\ Event
    /\ app.uid # 0
    /\ app' = NoApp
    /\ exposed' = FALSE
    /\ unseen' = unseen \cup {"app"}
    /\ UNCHANGED <<dep, svc, cm, cache, queued, control, uids, faults>>

\* Pods come and go: the Deployment's status moves.
PodsChange(ready) ==
    /\ Event
    /\ dep.uid # 0
    /\ dep' = [dep EXCEPT !.replicas = dep.conf.replicas, !.ready = ready]
    /\ unseen' = unseen \cup {"dep"}
    /\ UNCHANGED <<app, svc, cm, cache, queued, control, uids, exposed, faults>>

\* Someone edits or deletes an owned object; nothing watches the ConfigMap.
Drift ==
    /\ Event
    /\ \/ dep.uid # 0 /\ dep' \in {NoDep, [dep EXCEPT !.edited = TRUE]}
          /\ unseen' = unseen \cup {"dep"} /\ UNCHANGED <<svc, cm>>
       \/ svc.uid # 0 /\ svc' \in {NoSvc, [svc EXCEPT !.edited = TRUE]}
          /\ unseen' = unseen \cup {"svc"} /\ UNCHANGED <<dep, cm>>
       \/ cm.uid # 0 /\ cm' \in {[NoCM EXCEPT !.stray = TRUE], [cm EXCEPT !.stray = TRUE]}
          /\ UNCHANGED <<dep, svc, unseen>>
    /\ UNCHANGED <<app, cache, queued, control, uids, exposed, faults>>

Orphan(o) == o.uid \notin {0, app.uid}

\* The garbage collector removes an object whose owner is gone.
CollectDeployment ==
    /\ Orphan(dep) /\ dep' = NoDep /\ unseen' = unseen \cup {"dep"}
    /\ UNCHANGED <<app, svc, cm, cache, queued, control, bounds>>

CollectService ==
    /\ Orphan(svc) /\ svc' = NoSvc /\ unseen' = unseen \cup {"svc"}
    /\ UNCHANGED <<app, dep, cm, cache, queued, control, bounds>>

CollectObservability ==
    /\ Orphan(cm) /\ cm' = [NoCM EXCEPT !.stray = cm.stray]
    /\ UNCHANGED <<app, dep, svc, cache, unseen, queued, control, bounds>>

\* The watch events of an Application, Deployment or Service reach the operator.
Watch(k) ==
    /\ k \in unseen
    /\ cache' = IF k = "svc" THEN cache ELSE [cache EXCEPT ![k] = Objects[k]]
    /\ unseen' = unseen \ {k}
    /\ queued' = TRUE
    /\ UNCHANGED <<server, control, bounds>>

-----------------------------------------------------------------------------
(* Reconcile, one API call a step.                                         *)

\* What Reconcile has read goes with it.
Return == pc' = "idle" /\ local' = Wanted(NoApp) /\ live' = Status(NoDep) /\ steps' = 0

\* An error returned by Reconcile puts the Application back in the queue.
Requeue == Return /\ queued' = TRUE

\* Fault: Reconcile asks for another round when it is done.
Done_Requeue == Return /\ queued' = TRUE

Done == Return /\ UNCHANGED queued

\* The worker takes the Application from the queue and reads it from the cache.
Reconcile ==
    /\ pc = "idle" /\ queued
    /\ queued' = FALSE
    /\ local' = Wanted(cache.app)
    /\ pc' = IF cache.app.uid = 0 THEN "idle" ELSE "deployment"
    /\ UNCHANGED <<server, cache, unseen, live, steps, late, bounds>>

\* Server-side apply creates the object or takes the operator's fields back; when
\* there is nothing to change it writes nothing.
WriteDeployment(a) ==
    /\ dep' = [dep EXCEPT !.uid = a.uid, !.conf = desiredDeployment(a.spec), !.edited = FALSE]
    /\ unseen' = IF dep' # dep THEN unseen \cup {"dep"} ELSE unseen
    /\ UNCHANGED <<svc, cm>>

WriteService(a) ==
    /\ svc' = [uid |-> a.uid, conf |-> desiredService(a.spec), edited |-> FALSE]
    /\ unseen' = IF svc' # svc THEN unseen \cup {"svc"} ELSE unseen
    /\ UNCHANGED <<dep, cm>>

\* stray: not by the Reconcile in progress.
WriteObservability(a, stray) ==
    /\ cm' = [uid |-> a.uid, conf |-> desiredObservability(a.spec), stray |-> stray]
    /\ UNCHANGED <<dep, svc, unseen>>

Apply ==
    /\ \/ /\ pc = "deployment" /\ Builds(local.spec) /\ WriteDeployment(local)
          /\ pc' = IF local.spec.expose THEN "service" ELSE "observability"
       \/ pc = "service" /\ WriteService(local) /\ pc' = "observability"
       \/ pc = "observability" /\ WriteObservability(local, FALSE) /\ pc' = "live"
    /\ UNCHANGED <<app, cache, queued, local, live, steps, late, bounds>>

\* desiredDeployment panics before anything is applied: the panic, recovered, is an error
\* of Reconcile.
DeploymentFails ==
    /\ pc = "deployment" /\ ~ Builds(local.spec)
    /\ Requeue
    /\ UNCHANGED <<server, cache, unseen, late, bounds>>

\* The Deployment is read back through the cache, which may not hold it yet; from here
\* on the Application is read anew.
ReadDeployment ==
    /\ pc = "live"
    /\ IF ~ cache.dep.found THEN Requeue
       ELSE /\ pc' = "status" /\ local' = Wanted(NoApp) /\ live' = cache.dep
            /\ UNCHANGED <<queued, steps>>
    /\ UNCHANGED <<server, cache, unseen, late, bounds>>

\* Status().Update on condition of the version read, under RetryOnConflict.
UpdateStatus(new) ==
    IF "app" \notin unseen
    THEN /\ app' = [app EXCEPT !.status = new]
         /\ unseen' = unseen \cup {"app"}
         /\ Done
    ELSE /\ IF app.uid # 0 /\ steps + 1 < StatusSteps
            THEN steps' = steps + 1 /\ UNCHANGED <<pc, local, live, queued>>
            ELSE Requeue
         /\ UNCHANGED <<app, unseen>>

\* Fault: the comparison forgets the observed generation.
updateStatus_IgnoresGeneration ==
    /\ pc = "status"
    /\ LET a == cache.app
           new == StatusOf(a, live)
           same == [new EXCEPT !.observed = a.status.observed] = a.status
       IN  \/ a.uid = 0 /\ Requeue /\ UNCHANGED <<app, unseen>>
           \/ a.uid # 0 /\ same /\ Done /\ UNCHANGED <<app, unseen>>
           \/ a.uid # 0 /\ ~ same /\ UpdateStatus(new)
    /\ UNCHANGED <<dep, svc, cm, cache, late, bounds>>

\* An attempt of updateStatus: read the Application from the cache, compute its status,
\* and write it unless nothing changed.
updateStatus ==
    /\ pc = "status"
    /\ LET a == cache.app
           new == StatusOf(a, live)
       IN  \/ a.uid = 0 /\ Requeue /\ UNCHANGED <<app, unseen>>
           \/ a.uid # 0 /\ a.status = new /\ Done /\ UNCHANGED <<app, unseen>>
           \/ a.uid # 0 /\ a.status # new /\ UpdateStatus(new)
    /\ UNCHANGED <<dep, svc, cm, cache, late, bounds>>

\* A call whose answer is not awaited any more is lost, or still on its way.
Abandon ==
    late' \in {late} \cup
        IF pc \in {"deployment", "service", "observability"} /\ (pc = "deployment" => Builds(local.spec))
        THEN {late \cup {[kind |-> pc, app |-> local]}} ELSE {}

\* A call fails: Reconcile returns the error.
CallFails ==
    /\ Fault
    /\ pc # "idle"
    /\ Requeue /\ Abandon
    /\ UNCHANGED <<server, cache, unseen, uids, exposed, events>>

\* The status is written and the answer lost.
StatusUnconfirmed ==
    /\ Fault
    /\ pc = "status" /\ app.uid # 0 /\ "app" \notin unseen
    /\ app.status # StatusOf(app, live)
    /\ app' = [app EXCEPT !.status = StatusOf(app, live)]
    /\ unseen' = unseen \cup {"app"}
    /\ Requeue
    /\ UNCHANGED <<dep, svc, cm, cache, late, uids, exposed, events>>

\* The operator restarts: its caches are listed anew and every object found is queued.
Restart ==
    /\ Fault
    /\ Return /\ Abandon
    /\ cache' = Objects /\ unseen' = {}
    /\ queued' = (app.uid # 0 \/ dep.uid # 0 \/ svc.uid # 0)
    /\ UNCHANGED <<server, uids, exposed, events>>

\* A call that was given up reaches the API server.
Land(c) ==
    /\ late' = late \ {c}
    /\ \/ c.kind = "deployment" /\ WriteDeployment(c.app)
       \/ c.kind = "service" /\ WriteService(c.app)
       \/ c.kind = "observability" /\ WriteObservability(c.app, TRUE)
    /\ UNCHANGED <<app, cache, queued, pc, local, live, steps, bounds>>

Operator ==
    \/ Reconcile \/ Apply \/ DeploymentFails \/ ReadDeployment \/ updateStatus

Users ==
    \/ \E s \in Specs : CreateApp(s) \/ UpdateSpec(s)
    \/ DeleteApp \/ Drift
    \/ \E r \in 0..dep.conf.replicas : PodsChange(r)

Collect == CollectDeployment \/ CollectService \/ CollectObservability

Next ==
    \/ Users \/ Collect
    \/ \E k \in Watched : Watch(k)
    \/ Operator \/ CallFails \/ StatusUnconfirmed \/ Restart
    \/ \E c \in late : Land(c)

Spec == Init /\ [][Next]_vars

\* The watches deliver, the worker runs, the garbage collector goes on.
FairSpec ==
    /\ Spec
    /\ WF_vars(Operator)
    /\ \A k \in Watched : WF_vars(Watch(k))
    /\ WF_vars(Collect)

-----------------------------------------------------------------------------
(* Properties.                                                             *)

AppType ==
    [uid : Nat, gen : Nat, spec : Specs,
     status : [phase : {"", "Progressing", "Ready"}, observed : Nat, replicas : Nat, ready : Nat]]
Parsed == {Quantity[q] : q \in DOMAIN Quantity} \cup {"panic"}
WantedType == [uid : Nat, spec : Specs]
DepType ==
    [uid : Nat, edited : BOOLEAN, replicas : Nat, ready : Nat,
     conf : [port : Nat, replicas : Nat \ {0}, tier : 1..4, readOnlyRoot : BOOLEAN,
             resources : [cpu : Parsed, memory : Parsed]]]
DepStatus == [found : BOOLEAN, replicas : Nat, ready : Nat]

TypeOK ==
    /\ app \in AppType /\ local \in WantedType
    /\ dep \in DepType /\ live \in DepStatus
    /\ cache \in [app : AppType, dep : DepStatus]
    /\ svc \in [uid : Nat, conf : [port : Nat, tier : 1..4], edited : BOOLEAN]
    /\ cm \in [uid : Nat, conf : [alertBelow : Nat \ {0}], stray : BOOLEAN]
    /\ unseen \subseteq Watched /\ queued \in BOOLEAN
    /\ pc \in {"idle", "deployment", "service", "observability", "live", "status"}
    /\ steps \in 0..(StatusSteps - 1)
    /\ late \subseteq [kind : {"deployment", "service", "observability"}, app : WantedType]
    /\ exposed \in BOOLEAN /\ uids \in Nat

\* The cluster has nothing left to do: no event on its way, no orphan.
Quiet == unseen = {} /\ ~ Orphan(dep) /\ ~ Orphan(svc) /\ ~ Orphan(cm)

\* Nor has the operator: nothing is queued or running.
Settled == Quiet /\ pc = "idle" /\ ~ queued

\* The operator is taken up with an Application whose Deployment it cannot build.
Retrying ==
    /\ Quiet /\ app.uid # 0 /\ ~ Builds(app.spec)
    /\ pc = "deployment" \/ (pc = "idle" /\ queued)

Matches(o, conf) == o.uid = app.uid /\ o.conf = conf

\* The cluster is what the Application asks for, and its status says so.  Two things the
\* operator leaves alone: the Service of an Application that was exposed earlier, and a
\* ConfigMap that someone, or a call given up, wrote after the last Reconcile.
Converged ==
    IF app.uid = 0
    THEN dep.uid = 0 /\ svc.uid = 0 /\ cm.uid = 0
    ELSE /\ Matches(dep, desiredDeployment(app.spec)) /\ ~ dep.edited
         /\ app.spec.expose => Matches(svc, desiredService(app.spec)) /\ ~ svc.edited
         /\ ~ app.spec.expose => svc.uid = 0 \/ exposed
         /\ Matches(cm, desiredObservability(app.spec)) \/ cm.stray
         /\ app.status = StatusOf(app, dep)

\* The operator never stops short: once nothing is left to do, whatever was edited,
\* deleted, created again, lost or written late in between, the cluster is what the
\* Application asks.
SettledIsConverged == Settled => Converged

\* An Application that is not exposed has no Service once nothing is left to do.
NoServiceWhenNotExposed == Settled /\ app.uid # 0 /\ ~ app.spec.expose => svc.uid = 0

\* Once the changes stop the operator comes to rest: its own writes do not keep it busy.
\* The one exception is an Application with a resource string that cannot be parsed, which
\* it takes up for ever and never gets past the Deployment of.
ComesToRest == <>[](Settled \/ Retrying)

\* Once the changes stop the operator comes to rest, whatever the spec.
AlwaysRests == <>[]Settled

-----------------------------------------------------------------------------
(* Why SettledIsConverged holds.                                           *)

\* The cache is behind only where an event is on its way.
CacheIsCurrent ==
    /\ "app" \notin unseen => cache.app = app
    /\ "dep" \notin unseen => cache.dep = Status(dep)

\* The Applications read at some time that a write may still be made from.
Snapshots == {Wanted(app), Wanted(cache.app), local} \cup {c.app : c \in late}

\* A uid that is given out is new to every object and every snapshot.
UidsAreFresh ==
    /\ {dep.uid, svc.uid, cm.uid} \subseteq 0..uids
    /\ \A a \in Snapshots : a.uid \in 0..uids

\* Only an Application that was exposed gets a Service.
ServiceExplained ==
    /\ \A a \in Snapshots : a.uid # 0 /\ a.uid = app.uid /\ a.spec.expose => exposed
    /\ pc = "service" => local.spec.expose
    /\ \A c \in late : c.kind = "service" => c.app.spec.expose
    /\ svc.uid # 0 /\ svc.uid = app.uid => exposed

\* No further Reconcile is due.
NoneDue == unseen = {} /\ ~ queued

\* When no other Reconcile is due, the one in progress works from the Application as it
\* is, and what it has passed is what the Application asks for.
Progress ==
    NoneDue /\ app.uid # 0 =>
        /\ pc \in {"deployment", "service", "observability", "live"} => local = Wanted(app)
        /\ pc # "deployment" => Matches(dep, desiredDeployment(app.spec)) /\ ~ dep.edited
        /\ pc \notin {"deployment", "service"} /\ app.spec.expose =>
               Matches(svc, desiredService(app.spec)) /\ ~ svc.edited
        /\ pc \notin {"deployment", "service", "observability"} =>
               Matches(cm, desiredObservability(app.spec)) \/ cm.stray
        /\ pc = "status" => live = Status(dep)
        /\ pc = "idle" => app.status = StatusOf(app, dep)

ReconcilerInv ==
    TypeOK /\ CacheIsCurrent /\ UidsAreFresh /\ ServiceExplained /\ Progress
=============================================================================
