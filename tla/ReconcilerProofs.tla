--------------------------- MODULE ReconcilerProofs ---------------------------
(***************************************************************************)
(* ReconcilerInv (module Reconciler) is an inductive invariant, and with   *)
(* it a cluster with nothing left to do is what the Application asks for.  *)
(***************************************************************************)
EXTENDS Reconciler, TLAPS

\* The time the provers may take for a step.
USE SMTT(60)

-----------------------------------------------------------------------------
(* Types: the objects, and what each action makes of them.                 *)

\* A Deployment's part that the operator sets.
DepConf == [port : Nat, replicas : Nat \ {0}, tier : 1..4, readOnlyRoot : BOOLEAN,
            resources : [cpu : Parsed, memory : Parsed]]

\* What is applied for a spec that the schema admits.
LEMMA DesiredTypes ==
    ASSUME NEW s \in Specs
    PROVE  /\ desiredDeployment(s) \in DepConf
           /\ desiredService(s) \in [port : Nat, tier : 1..4]
           /\ desiredObservability(s) \in [alertBelow : Nat \ {0}]
  <1>1. s \in [port : Nat, replicas : Nat, tier : 1..4, expose : BOOLEAN, readOnly : {"unset", "yes", "no"},
               cpu : STRING, memory : STRING]
    BY ReconcilerAssumption
  <1>2. s.port \in Nat /\ desiredReplicas(s) \in Nat \ {0} /\ effectiveTier(s) \in 1..4
    BY <1>1 DEF desiredReplicas, effectiveTier
  <1>3. readOnlyRoot(s) \in BOOLEAN
    BY DEF readOnlyRoot
  <1>4. \A q : MustParse(q) \in Parsed
    BY DEF MustParse, Parsed
  <1>5. resourceRequirements(s) \in [cpu : Parsed, memory : Parsed]
    BY <1>4 DEF resourceRequirements
  <1>6. desiredDeployment(s) \in DepConf
    BY <1>2, <1>3, <1>5, ZenonT(60) DEF desiredDeployment, DepConf
  <1> QED BY <1>2, <1>6 DEF desiredService, desiredObservability

\* The absent objects.
LEMMA NoneTypes ==
    /\ NoApp \in AppType /\ NoApp.uid = 0 /\ Wanted(NoApp) \in WantedType /\ Wanted(NoApp).uid = 0
    /\ NoDep \in DepType /\ NoDep.uid = 0
    /\ NoSvc \in [uid : Nat, conf : [port : Nat, tier : 1..4], edited : BOOLEAN] /\ NoSvc.uid = 0
    /\ NoCM \in [uid : Nat, conf : [alertBelow : Nat \ {0}], stray : BOOLEAN] /\ NoCM.uid = 0
  <1>1. AnySpec \in Specs
    BY ReconcilerAssumption DEF AnySpec
  <1>2. NoApp \in AppType /\ NoApp.uid = 0
    BY <1>1 DEF NoApp, AppType, NoStatus
  <1>3. Wanted(NoApp) \in WantedType /\ Wanted(NoApp).uid = 0
    BY <1>1 DEF NoApp, Wanted, WantedType
  <1>4. NoDep \in DepType /\ NoDep.uid = 0
    BY <1>1, DesiredTypes, ZenonT(60) DEF NoDep, DepType, DepConf
  <1> QED BY <1>1, <1>2, <1>3, <1>4, DesiredTypes DEF NoSvc, NoCM

\* The status computed and the part of a Deployment that is read are of their types.
LEMMA StatusTypes ==
    /\ \A d \in DepType : Status(d) \in DepStatus
    /\ \A a \in AppType, d \in DepStatus \cup DepType :
          StatusOf(a, d) \in [phase : {"", "Progressing", "Ready"}, observed : Nat, replicas : Nat, ready : Nat]
  BY ZenonT(60) DEF DepType, DepStatus, AppType, Status, StatusOf

\* A status depends on the Deployment only through what Reconcile reads of it.
LEMMA StatusOfRead ==
    ASSUME NEW a, NEW d PROVE StatusOf(a, Status(d)) = StatusOf(a, d)
  BY DEF StatusOf, Status

\* Server-side apply of the Deployment, and that a change of it is on the watch.
LEMMA DeploymentWritten ==
    ASSUME TypeOK, NEW a \in WantedType, WriteDeployment(a)
    PROVE  /\ dep' \in DepType /\ dep'.uid = a.uid /\ dep'.conf = desiredDeployment(a.spec) /\ ~ dep'.edited
           /\ unseen \subseteq unseen' /\ unseen' \subseteq Watched
           /\ dep' = dep \/ "dep" \in unseen'
           /\ UNCHANGED <<svc, cm>>
  <1>1. a.uid \in Nat /\ desiredDeployment(a.spec) \in DepConf
    BY DesiredTypes, ZenonT(60) DEF WantedType
  <1> DEFINE c == desiredDeployment(a.spec)
  <1>2. dep' = [dep EXCEPT !.uid = a.uid, !.conf = c, !.edited = FALSE]
    BY DEF WriteDeployment
  <1>3. dep \in DepType
    BY DEF TypeOK
  <1> HIDE DEF c
  <1>4. dep' \in DepType /\ dep'.uid = a.uid /\ dep'.conf = c /\ dep'.edited = FALSE
    BY <1>1, <1>2, <1>3, ZenonT(60) DEF DepType, DepConf, c
  <1> QED BY <1>4 DEF WriteDeployment, TypeOK, Watched, c

\* The same for the Service.
LEMMA ServiceWritten ==
    ASSUME TypeOK, NEW a \in WantedType, WriteService(a)
    PROVE  /\ svc' \in [uid : Nat, conf : [port : Nat, tier : 1..4], edited : BOOLEAN]
           /\ svc'.uid = a.uid /\ svc'.conf = desiredService(a.spec) /\ ~ svc'.edited
           /\ unseen \subseteq unseen' /\ unseen' \subseteq Watched
           /\ svc' = svc \/ "svc" \in unseen'
           /\ UNCHANGED <<dep, cm>>
  <1>1. a.uid \in Nat /\ desiredService(a.spec) \in [port : Nat, tier : 1..4]
    BY DesiredTypes, ZenonT(60) DEF WantedType
  <1> QED BY <1>1 DEF WriteService, TypeOK, Watched

\* Nothing watches the ConfigMap.
LEMMA ObservabilityWritten ==
    ASSUME TypeOK, NEW a \in WantedType, NEW b \in BOOLEAN, WriteObservability(a, b)
    PROVE  /\ cm' \in [uid : Nat, conf : [alertBelow : Nat \ {0}], stray : BOOLEAN]
           /\ cm'.uid = a.uid /\ cm'.conf = desiredObservability(a.spec) /\ (cm'.stray <=> b)
           /\ UNCHANGED <<dep, svc, unseen>>
  <1>1. a.uid \in Nat /\ desiredObservability(a.spec) \in [alertBelow : Nat \ {0}]
    BY DesiredTypes, ZenonT(60) DEF WantedType
  <1> QED BY <1>1 DEF WriteObservability, TypeOK

\* A Reconcile that ends, or is given up, leaves the types alone.
LEMMA ReturnTypes ==
    ASSUME TypeOK
    PROVE  /\ Return => pc' = "idle" /\ local' \in WantedType /\ live' \in DepStatus /\ steps' \in 0..(StatusSteps - 1)
           /\ Abandon => late' \subseteq [kind : {"deployment", "service", "observability"}, app : WantedType]
  <1>1. Return => pc' = "idle" /\ local' \in WantedType /\ live' \in DepStatus /\ steps' \in 0..(StatusSteps - 1)
    <2>1. 0 \in 0..(StatusSteps - 1)
      BY ReconcilerAssumption
    <2>2. Wanted(NoApp) \in WantedType /\ Status(NoDep) \in DepStatus
      BY NoneTypes, StatusTypes, ZenonT(60)
    <2> QED BY <2>1, <2>2 DEF Return
  <1>2. Abandon => late' \subseteq [kind : {"deployment", "service", "observability"}, app : WantedType]
    BY DEF Abandon, TypeOK
  <1> QED BY <1>1, <1>2

\* A change of spec keeps the Application's uid.
LEMMA SpecWritten ==
    ASSUME NEW a \in AppType, NEW s \in Specs
    PROVE  /\ [a EXCEPT !.spec = s, !.gen = @ + 1] \in AppType
           /\ [a EXCEPT !.spec = s, !.gen = @ + 1].uid = a.uid
           /\ [a EXCEPT !.spec = s, !.gen = @ + 1].spec = s
  <1>0. a.gen \in Nat
    BY ZenonT(60) DEF AppType
  <1>1. PICK n \in Nat : n = a.gen + 1
    BY <1>0
  <1>2. PICK b : b = [a EXCEPT !.spec = s, !.gen = n]
    OBVIOUS
  <1>3. b \in AppType /\ b.uid = a.uid /\ b.spec = s
    BY <1>2, ZenonT(60) DEF AppType
  <1>4. b = [a EXCEPT !.spec = s, !.gen = @ + 1]
    BY <1>1, <1>2
  <1> QED BY <1>3, <1>4

\* Users, pods and people who edit by hand.
LEMMA UsersKeepTypes ==
    ASSUME TypeOK, Users PROVE TypeOK'
  <1> USE DEF TypeOK, bounds, server, control, Watched
  <1>1. ASSUME NEW s \in Specs, CreateApp(s) PROVE TypeOK'
    <2>1. uids + 1 \in Nat /\ NoStatus \in [phase : {"", "Progressing", "Ready"}, observed : Nat, replicas : Nat, ready : Nat]
      BY DEF NoStatus
    <2>2. app' \in AppType /\ s.expose \in BOOLEAN
      BY <1>1, <2>1, ReconcilerAssumption, ZenonT(60) DEF CreateApp, AppType
    <2> QED BY <1>1, <2>1, <2>2, ZenonT(60) DEF CreateApp
  <1>2. ASSUME NEW s \in Specs, UpdateSpec(s) PROVE TypeOK'
    <2>1. [app EXCEPT !.spec = s, !.gen = @ + 1] \in AppType
      BY SpecWritten, ZenonT(60)
    <2>2. (exposed \/ s.expose) \in BOOLEAN
      OBVIOUS
    <2> QED BY <1>2, <2>1, <2>2 DEF UpdateSpec
  <1>3. CASE DeleteApp
    BY <1>3, NoneTypes, ZenonT(60) DEF DeleteApp
  <1>4. CASE Drift
    <2>0. /\ [dep EXCEPT !.edited = TRUE] \in DepType
          /\ [NoCM EXCEPT !.stray = TRUE] \in [uid : Nat, conf : [alertBelow : Nat \ {0}], stray : BOOLEAN]
      BY NoneTypes, ZenonT(60) DEF DepType
    <2>1. dep' \in DepType
      BY <1>4, <2>0, NoneTypes, ZenonT(60) DEF Drift
    <2>2. svc' \in [uid : Nat, conf : [port : Nat, tier : 1..4], edited : BOOLEAN]
      BY <1>4, NoneTypes, ZenonT(60) DEF Drift
    <2>3. cm' \in [uid : Nat, conf : [alertBelow : Nat \ {0}], stray : BOOLEAN]
      BY <1>4, <2>0, NoneTypes, ZenonT(60) DEF Drift
    <2>4. unseen' \subseteq Watched
      BY <1>4 DEF Drift
    <2> QED BY <1>4, <2>1, <2>2, <2>3, <2>4 DEF Drift
  <1>5. ASSUME NEW r \in 0..dep.conf.replicas, PodsChange(r) PROVE TypeOK'
    <2>1. r \in Nat /\ dep.conf.replicas \in Nat
      BY DEF DepType
    <2>2. dep' \in DepType
      BY <1>5, <2>1, ZenonT(60) DEF PodsChange, DepType
    <2> QED BY <1>5, <2>2 DEF PodsChange
  <1> QED BY <1>1, <1>2, <1>3, <1>4, <1>5 DEF Users

\* The garbage collector and the watches.
LEMMA ClusterKeepsTypes ==
    ASSUME TypeOK, Collect \/ \E k \in Watched : Watch(k) PROVE TypeOK'
  <1> USE DEF TypeOK, bounds, server, control, Watched
  <1>1. CASE CollectDeployment
    BY <1>1, NoneTypes DEF CollectDeployment
  <1>2. CASE CollectService
    BY <1>2, NoneTypes DEF CollectService
  <1>3. CASE CollectObservability
    <2>1. cm.stray \in BOOLEAN
      OBVIOUS
    <2>2. cm' \in [uid : Nat, conf : [alertBelow : Nat \ {0}], stray : BOOLEAN]
      BY <1>3, <2>1, NoneTypes DEF CollectObservability
    <2> QED BY <1>3, <2>2 DEF CollectObservability
  <1>4. ASSUME NEW k \in Watched, Watch(k) PROVE TypeOK'
    <2>1. Status(dep) \in DepStatus
      BY StatusTypes, ZenonT(60)
    <2>2. Objects["app"] = app /\ Objects["dep"] = Status(dep)
      BY DEF Objects
    <2>3. cache' \in [app : AppType, dep : DepStatus]
      BY <1>4, <2>1, <2>2 DEF Watch
    <2> QED BY <1>4, <2>3 DEF Watch
  <1> QED BY <1>1, <1>2, <1>3, <1>4 DEF Collect

\* The steps of Reconcile.
LEMMA OperatorKeepsTypes ==
    ASSUME TypeOK, Operator PROVE TypeOK'
  <1> USE DEF TypeOK, bounds, server, control
  <1>1. CASE Reconcile
    <2>1. Wanted(cache.app) \in WantedType
      BY ZenonT(60) DEF AppType, Wanted, WantedType
    <2> QED BY <1>1, <2>1, ZenonT(60) DEF Reconcile
  <1>2. CASE Apply
    <2>1. CASE pc = "deployment"
      BY <1>2, <2>1, DeploymentWritten DEF Apply
    <2>2. CASE pc = "service"
      BY <1>2, <2>2, ServiceWritten DEF Apply
    <2>3. CASE pc = "observability"
      BY <1>2, <2>3, ObservabilityWritten, ZenonT(60) DEF Apply
    <2> QED BY <1>2, <2>1, <2>2, <2>3, ZenonT(60) DEF Apply
  <1>3. CASE ReadDeployment
    BY <1>3, ReturnTypes, NoneTypes, ZenonT(60) DEF ReadDeployment, Requeue
  <1>4. CASE updateStatus
    <2> DEFINE new == StatusOf(cache.app, live)
    <2>1. new \in [phase : {"", "Progressing", "Ready"}, observed : Nat, replicas : Nat, ready : Nat]
      BY StatusTypes, ZenonT(60)
    <2> HIDE DEF new
    <2>2. /\ app' = app \/ app' = [app EXCEPT !.status = new]
          /\ unseen' = unseen \/ unseen' = unseen \cup {"app"}
          /\ \/ Return /\ queued' \in {queued, TRUE}
             \/ steps + 1 < StatusSteps /\ steps' = steps + 1 /\ UNCHANGED <<pc, local, live, queued>>
      BY <1>4, ZenonT(60) DEF updateStatus, UpdateStatus, Requeue, Done, new
    <2>3. app' \in AppType
      <3>1. [app EXCEPT !.status = new] \in AppType
        BY <2>1, ZenonT(60) DEF AppType
      <3> QED BY <2>2, <3>1
    <2>4. unseen' \subseteq Watched
      BY <2>2 DEF Watched
    <2>5. pc' \in {"idle", "status"} /\ local' \in WantedType /\ live' \in DepStatus /\ steps' \in 0..(StatusSteps - 1)
      <3>1. CASE Return
        BY <3>1, ReturnTypes
      <3>2. CASE steps + 1 < StatusSteps /\ steps' = steps + 1 /\ UNCHANGED <<pc, local, live, queued>>
        BY <1>4, <3>2, ReconcilerAssumption DEF updateStatus
      <3> QED BY <2>2, <3>1, <3>2, ZenonT(60)
    <2> QED BY <1>4, <2>2, <2>3, <2>4, <2>5, ZenonT(60) DEF updateStatus
  <1>5. CASE DeploymentFails
    BY <1>5, ReturnTypes DEF DeploymentFails, Requeue
  <1> QED BY <1>1, <1>2, <1>3, <1>4, <1>5 DEF Operator

\* Calls that fail, restarts, and calls that land late.
LEMMA FaultsKeepTypes ==
    ASSUME TypeOK, CallFails \/ StatusUnconfirmed \/ Restart \/ \E c \in late : Land(c) PROVE TypeOK'
  <1> USE DEF TypeOK, bounds, server, control
  <1>1. CASE CallFails
    BY <1>1, ReturnTypes DEF CallFails, Requeue
  <1>2. CASE StatusUnconfirmed
    <2>1. StatusOf(app, live) \in [phase : {"", "Progressing", "Ready"}, observed : Nat, replicas : Nat, ready : Nat]
      BY StatusTypes, ZenonT(60)
    <2>2. app' \in AppType
      BY <1>2, <2>1, ZenonT(60) DEF StatusUnconfirmed, AppType
    <2> QED BY <1>2, <2>2, ReturnTypes DEF StatusUnconfirmed, Requeue, Watched
  <1>3. CASE Restart
    <2>1. cache' \in [app : AppType, dep : DepStatus]
      BY <1>3, StatusTypes, ZenonT(60) DEF Restart, Objects
    <2> QED BY <1>3, <2>1, ReturnTypes DEF Restart
  <1>4. ASSUME NEW c \in late, Land(c) PROVE TypeOK'
    <2>1. c.app \in WantedType
      OBVIOUS
    <2>2. CASE c.kind = "deployment"
      BY <1>4, <2>1, <2>2, DeploymentWritten DEF Land
    <2>3. CASE c.kind = "service"
      BY <1>4, <2>1, <2>3, ServiceWritten DEF Land
    <2>4. CASE c.kind = "observability"
      BY <1>4, <2>1, <2>4, ObservabilityWritten, ZenonT(60) DEF Land
    <2> QED BY <1>4, <2>2, <2>3, <2>4 DEF Land
  <1> QED BY <1>1, <1>2, <1>3, <1>4

-----------------------------------------------------------------------------
(* All actions together, and the cache.                                    *)

\* Every step keeps the types.
LEMMA TypesKeep ==
    ASSUME TypeOK, [Next]_vars PROVE TypeOK'
  <1>1. CASE UNCHANGED vars
    BY <1>1 DEF TypeOK, vars, server, control, bounds
  <1> QED BY <1>1, UsersKeepTypes, ClusterKeepsTypes, OperatorKeepsTypes, FaultsKeepTypes DEF Next

\* Every change of an Application or a Deployment is on the watch until the cache has it.
LEMMA CacheKeeps ==
    ASSUME TypeOK, CacheIsCurrent, [Next]_vars PROVE CacheIsCurrent'
  <1> USE DEF CacheIsCurrent, server, control, bounds
  <1>1. CASE UNCHANGED <<app, dep, cache>> /\ unseen \subseteq unseen'
    BY <1>1 DEF Status
  <1>2. CASE Users
    BY <1>2, ZenonT(60) DEF Users, CreateApp, UpdateSpec, DeleteApp, PodsChange, Drift, Status
  <1>3. CASE Collect
    BY <1>3 DEF Collect, CollectDeployment, CollectService, CollectObservability, Status
  <1>4. ASSUME NEW k \in Watched, Watch(k) PROVE CacheIsCurrent'
    <2>1. Objects["app"] = app /\ Objects["dep"] = Status(dep)
      BY DEF Objects
    <2>2. Status(dep)' = Status(dep)
      BY <1>4 DEF Watch, Status
    <2>3. cache'.app = (IF k = "app" THEN app ELSE cache.app) /\ cache'.dep = (IF k = "dep" THEN Status(dep) ELSE cache.dep)
      BY <1>4, <2>1 DEF Watch, Watched, TypeOK
    <2> QED BY <1>4, <2>2, <2>3 DEF Watch
  <1>5. ASSUME NEW a \in WantedType, WriteDeployment(a), UNCHANGED <<app, cache>> PROVE CacheIsCurrent'
    BY <1>5, DeploymentWritten DEF Status
  <1>6. CASE Operator
    <2>1. CASE Apply
      BY <1>1, <1>5, <2>1 DEF Apply, TypeOK, WriteService, WriteObservability
    <2>2. CASE updateStatus
      BY <2>2 DEF updateStatus, UpdateStatus, Status
    <2> QED BY <1>1, <1>6, <2>1, <2>2 DEF Operator, Reconcile, DeploymentFails, ReadDeployment
  <1>7. CASE CallFails \/ StatusUnconfirmed
    BY <1>7 DEF CallFails, StatusUnconfirmed, Status
  <1>8. CASE Restart
    BY <1>8 DEF Restart, Objects, Status
  <1>9. ASSUME NEW c \in late, Land(c) PROVE CacheIsCurrent'
    BY <1>1, <1>5, <1>9 DEF Land, TypeOK, WriteService, WriteObservability
  <1> QED BY <1>1, <1>2, <1>3, <1>4, <1>6, <1>7, <1>8, <1>9 DEF Next, vars

\* An Application keeps its uid and, while it lives, that it has been exposed; a new one
\* has a uid that none has had.
LEMMA AppSteps ==
    ASSUME TypeOK, [Next]_vars
    PROVE  \/ /\ app'.uid = app.uid /\ uids' = uids /\ (exposed => exposed')
              /\ app'.spec.expose => app.spec.expose \/ exposed'
           \/ app'.uid = 0 /\ uids' = uids
           \/ app'.uid = uids + 1 /\ uids' = uids + 1 /\ (app'.spec.expose => exposed')
  <1> DEFINE Goal == \/ /\ app'.uid = app.uid /\ uids' = uids /\ (exposed => exposed')
                        /\ app'.spec.expose => app.spec.expose \/ exposed'
                     \/ app'.uid = 0 /\ uids' = uids
                     \/ app'.uid = uids + 1 /\ uids' = uids + 1 /\ (app'.spec.expose => exposed')
  <1> SUFFICES Goal
    OBVIOUS
  <1> USE DEF server, control, bounds
  <1>1. CASE UNCHANGED <<app, uids, exposed>>
    BY <1>1
  <1>2. ASSUME NEW s \in Specs, CreateApp(s) PROVE Goal
    BY <1>2 DEF CreateApp
  <1>3. ASSUME NEW s \in Specs, UpdateSpec(s) PROVE Goal
    <2>1. app'.uid = app.uid /\ app'.spec = s
      BY <1>3, SpecWritten, ZenonT(60) DEF UpdateSpec, TypeOK
    <2> QED BY <1>3, <2>1, ZenonT(60) DEF UpdateSpec
  <1>4. CASE DeleteApp
    BY <1>4, NoneTypes DEF DeleteApp
  <1>5. ASSUME NEW st, app' = [app EXCEPT !.status = st], UNCHANGED <<uids, exposed>> PROVE Goal
    BY <1>5, ZenonT(60) DEF TypeOK, AppType
  <1>6. CASE updateStatus \/ StatusUnconfirmed
    BY <1>1, <1>5, <1>6 DEF updateStatus, UpdateStatus, StatusUnconfirmed
  <1> HIDE DEF Goal
  <1> QED
    BY <1>1, <1>2, <1>3, <1>4, <1>6, ZenonT(60) DEF Next, vars, Users, PodsChange, Drift, Collect, CollectDeployment,
       CollectService, CollectObservability, Watch, Operator, Reconcile, Apply, DeploymentFails, ReadDeployment, CallFails, Restart, Land

-----------------------------------------------------------------------------
(* Snapshots, uids and Services.                                           *)

\* A snapshot is of the Application as it is or one that was there before.
LEMMA SnapshotSteps ==
    ASSUME TypeOK, [Next]_vars
    PROVE  Snapshots' \subseteq Snapshots \cup {Wanted(app'), Wanted(NoApp)}
  <1> USE DEF server, control, bounds
  <1>1. CASE UNCHANGED <<cache, local, late>>
    BY <1>1 DEF Snapshots
  <1>2. ASSUME UNCHANGED cache, late' \subseteq late, local' \in {local, Wanted(NoApp), Wanted(cache.app)}
        PROVE  Snapshots' \subseteq Snapshots \cup {Wanted(app'), Wanted(NoApp)}
    BY <1>2 DEF Snapshots
  <1>3. ASSUME NEW k \in Watched, Watch(k) PROVE Snapshots' \subseteq Snapshots \cup {Wanted(app'), Wanted(NoApp)}
    <2>1. cache'.app \in {app, cache.app}
      BY <1>3 DEF Watch, Watched, TypeOK, Objects
    <2> QED BY <1>3, <2>1 DEF Snapshots, Watch
  <1>4. ASSUME cache'.app \in {cache.app, app}, local' = Wanted(NoApp), Abandon
        PROVE  Snapshots' \subseteq Snapshots \cup {Wanted(app'), Wanted(NoApp)}
    <2>1. \A c \in late' : c.app \in Snapshots
      BY <1>4 DEF Abandon, Snapshots
    <2> QED BY <1>4, <2>1 DEF Snapshots
  <1>5. CASE CallFails \/ Restart
    BY <1>4, <1>5 DEF CallFails, Restart, Requeue, Return, Objects
  <1>6. CASE Operator \/ StatusUnconfirmed
    BY <1>2, <1>6, ZenonT(60) DEF Operator, Reconcile, Apply, DeploymentFails, ReadDeployment, updateStatus, UpdateStatus, StatusUnconfirmed,
       Requeue, Done, Return
  <1>7. ASSUME NEW c \in late, Land(c) PROVE Snapshots' \subseteq Snapshots \cup {Wanted(app'), Wanted(NoApp)}
    BY <1>2, <1>7 DEF Land
  <1> QED BY <1>1, <1>3, <1>5, <1>6, <1>7, ZenonT(60) DEF Next, vars, Users, CreateApp, UpdateSpec, DeleteApp, PodsChange, Drift,
       Collect, CollectDeployment, CollectService, CollectObservability

\* An object is given the uid of a snapshot; a Service that of one that asks for it.
LEMMA ObjectSteps ==
    ASSUME TypeOK, ServiceExplained, [Next]_vars
    PROVE  /\ dep'.uid \in {dep.uid, 0} \cup {a.uid : a \in Snapshots}
           /\ cm'.uid \in {cm.uid, 0} \cup {a.uid : a \in Snapshots}
           /\ svc'.uid \in {svc.uid, 0} \cup {a.uid : a \in {b \in Snapshots : b.spec.expose}}
  <1> DEFINE Given == {a.uid : a \in Snapshots}
             Asked == {a.uid : a \in {b \in Snapshots : b.spec.expose}}
             Goal == /\ dep'.uid \in {dep.uid, 0} \cup Given
                     /\ cm'.uid \in {cm.uid, 0} \cup Given
                     /\ svc'.uid \in {svc.uid, 0} \cup Asked
  <1> SUFFICES Goal
    OBVIOUS
  <1> USE DEF server, control, bounds
  <1>1. CASE UNCHANGED <<dep, svc, cm>>
    BY <1>1
  <1>2. CASE Drift
    <2>1. dep'.uid \in {dep.uid, 0}
      BY <1>2, NoneTypes DEF Drift, TypeOK, DepType
    <2>2. svc'.uid \in {svc.uid, 0}
      BY <1>2, NoneTypes DEF Drift, TypeOK
    <2>3. cm'.uid \in {cm.uid, 0}
      BY <1>2, NoneTypes DEF Drift, TypeOK
    <2> QED BY <2>1, <2>2, <2>3
  <1>3. ASSUME NEW n, PodsChange(n) PROVE Goal
    <2>1. dep'.uid = dep.uid
      BY <1>3 DEF PodsChange, TypeOK, DepType
    <2> QED BY <1>3, <2>1 DEF PodsChange
  <1>4. CASE Collect
    <2>1. [NoCM EXCEPT !.stray = cm.stray].uid = 0
      BY NoneTypes
    <2> QED BY <1>4, <2>1, NoneTypes DEF Collect, CollectDeployment, CollectService, CollectObservability
  <1>5. \A a \in Snapshots : a.uid \in Given /\ (a.spec.expose => a.uid \in Asked)
    OBVIOUS
  <1> HIDE DEF Given, Asked
  <1>6. ASSUME NEW a \in Snapshots, a \in WantedType
        PROVE  /\ WriteDeployment(a) => Goal
               /\ a.spec.expose /\ WriteService(a) => Goal
               /\ \A b \in BOOLEAN : WriteObservability(a, b) => Goal
    <2>1. CASE WriteDeployment(a)
      BY <1>5, <1>6, <2>1, DeploymentWritten
    <2>2. CASE a.spec.expose /\ WriteService(a)
      BY <1>5, <1>6, <2>2, ServiceWritten
    <2>3. ASSUME NEW b \in BOOLEAN, WriteObservability(a, b) PROVE Goal
      BY <1>5, <1>6, <2>3, ObservabilityWritten
    <2> HIDE DEF Goal
    <2> QED BY <2>1, <2>2, <2>3
  <1> HIDE DEF Goal
  <1>7. CASE Apply
    <2>1. local \in Snapshots /\ local \in WantedType /\ (pc = "service" => local.spec.expose)
      BY DEF Snapshots, TypeOK, ServiceExplained
    <2> QED BY <1>6, <1>7, <2>1, ZenonT(60) DEF Apply
  <1>8. ASSUME NEW c \in late, Land(c) PROVE Goal
    <2>1. c.app \in Snapshots /\ c.app \in WantedType /\ (c.kind = "service" => c.app.spec.expose)
      BY DEF Snapshots, TypeOK, ServiceExplained
    <2> QED BY <1>6, <1>8, <2>1, ZenonT(60) DEF Land
  <1> QED BY <1>1, <1>2, <1>3, <1>4, <1>7, <1>8, ZenonT(60) DEF Next, vars, Users, CreateApp, UpdateSpec, DeleteApp, Watch,
       Operator, Reconcile, DeploymentFails, ReadDeployment, updateStatus, CallFails, StatusUnconfirmed, Restart

\* uids stay below the counter: what has one got it from a snapshot, or CreateApp just did.
LEMMA FreshKeeps ==
    ASSUME TypeOK, UidsAreFresh, ServiceExplained, [Next]_vars PROVE UidsAreFresh'
  <1>1. uids \in Nat /\ uids' \in {uids, uids + 1} /\ app'.uid \in {app.uid, 0, uids'}
    BY AppSteps DEF TypeOK
  <1>2. \A a \in Snapshots : a.uid \in 0..uids
    BY DEF UidsAreFresh
  <1>3. app.uid \in 0..uids /\ 0..uids \subseteq 0..uids'
    <2>1. Wanted(app) \in Snapshots /\ Wanted(app).uid = app.uid
      BY DEF Snapshots, Wanted
    <2> QED BY <1>1, <1>2, <2>1
  <1>4. \A a \in Snapshots' : a.uid \in 0..uids'
    <2>1. \A a \in Snapshots' : a \in Snapshots \/ a.uid = app'.uid \/ a.uid = 0
      BY SnapshotSteps, NoneTypes DEF Wanted
    <2>2. app'.uid \in 0..uids' /\ 0 \in 0..uids'
      BY <1>1, <1>3
    <2> QED BY <1>2, <1>3, <2>1, <2>2
  <1>5. {dep'.uid, svc'.uid, cm'.uid} \subseteq 0..uids'
    <2>1. {dep'.uid, svc'.uid, cm'.uid} \subseteq {dep.uid, svc.uid, cm.uid, 0} \cup {a.uid : a \in Snapshots}
      BY ObjectSteps
    <2>2. {dep.uid, svc.uid, cm.uid, 0} \cup {a.uid : a \in Snapshots} \subseteq 0..uids
      BY <1>1, <1>2 DEF UidsAreFresh
    <2> QED BY <1>3, <2>1, <2>2
  <1> QED BY <1>4, <1>5 DEF UidsAreFresh

\* A Service, or a call that would write one, comes from an Application that was exposed.
LEMMA ServiceKeeps ==
    ASSUME TypeOK, UidsAreFresh, ServiceExplained, [Next]_vars PROVE ServiceExplained'
  <1>1. app'.uid \in {0, app.uid} \/ app'.uid = uids + 1
    BY AppSteps
  <1>2. uids \in Nat /\ \A a \in Snapshots : a.uid \in 0..uids
    BY DEF TypeOK, UidsAreFresh
  <1>3. \A a \in Snapshots : a.uid # 0 /\ a.uid = app'.uid /\ a.spec.expose => exposed'
    <2> SUFFICES ASSUME NEW a \in Snapshots, a.uid # 0, a.uid = app'.uid, a.spec.expose PROVE exposed'
      OBVIOUS
    <2>1. a.uid # uids + 1
      BY <1>2
    <2>2. app'.uid = app.uid /\ (exposed => exposed')
      BY <2>1, AppSteps
    <2> QED BY <2>2 DEF ServiceExplained
  <1>4. app'.uid # 0 /\ app'.spec.expose => exposed'
    <2>1. Wanted(app) \in Snapshots /\ Wanted(app).uid = app.uid /\ Wanted(app).spec = app.spec
      BY DEF Snapshots, Wanted
    <2> QED BY <1>3, <2>1, AppSteps
  <1>5. \A a \in Snapshots' : a.uid # 0 /\ a.uid = app'.uid /\ a.spec.expose => exposed'
    <2>1. Wanted(NoApp).uid = 0 /\ Wanted(app').uid = app'.uid /\ Wanted(app').spec = app'.spec
      BY NoneTypes DEF Wanted
    <2> QED BY <1>3, <1>4, <2>1, SnapshotSteps
  <1>6. svc'.uid # 0 /\ svc'.uid = app'.uid => exposed'
    <2>1. svc.uid \in 0..uids
      BY DEF UidsAreFresh
    <2>2. svc.uid # 0 /\ svc.uid = app'.uid => exposed'
      <3> SUFFICES ASSUME svc.uid # 0, svc.uid = app'.uid PROVE exposed'
        OBVIOUS
      <3>1. svc.uid # uids + 1
        BY <1>2, <2>1
      <3> QED BY <3>1, AppSteps DEF ServiceExplained
    <2> QED BY <1>3, <2>2, ObjectSteps
  <1>7. (pc' = "service" => local'.spec.expose) /\ \A c \in late' : c.kind = "service" => c.app.spec.expose
    <2> DEFINE Goal == (pc' = "service" => local'.spec.expose) /\ \A c \in late' : c.kind = "service" => c.app.spec.expose
    <2> SUFFICES Goal
      OBVIOUS
    <2> USE DEF server, control, bounds, ServiceExplained
    <2>1. CASE UNCHANGED <<pc, local>> /\ late' \subseteq late
      BY <2>1
    <2>2. CASE pc' # "service" /\ late' \subseteq late
      BY <2>2
    <2>3. CASE Apply
      BY <2>3, ZenonT(60) DEF Apply
    <2>4. CASE CallFails \/ Restart
      BY <2>4 DEF CallFails, Restart, Requeue, Return, Abandon
    <2>5. ASSUME NEW c \in late, Land(c) PROVE Goal
      BY <2>1, <2>5 DEF Land
    <2> HIDE DEF Goal
    <2> QED BY <2>1, <2>2, <2>3, <2>4, <2>5, ZenonT(60) DEF Next, vars, Users, CreateApp, UpdateSpec, DeleteApp, PodsChange, Drift,
         Collect, CollectDeployment, CollectService, CollectObservability, Watch, Operator, Reconcile, DeploymentFails,
         ReadDeployment, updateStatus, UpdateStatus, StatusUnconfirmed, Requeue, Done, Return
  <1> QED BY <1>5, <1>6, <1>7 DEF ServiceExplained

-----------------------------------------------------------------------------
(* Progress of a Reconcile, and the theorems.                              *)

\* Whatever disturbs what a Reconcile has passed makes another one due, but for writes
\* to the ConfigMap, which the invariant counts as stray.
LEMMA ProgressKeeps ==
    ASSUME ReconcilerInv, [Next]_vars PROVE Progress'
  <1> SUFFICES ASSUME unseen' = {}, ~ queued', app'.uid # 0 PROVE Progress'
    BY DEF Progress, NoneDue
  <1> USE DEF server, control, bounds
  <1>0. TypeOK /\ CacheIsCurrent /\ Progress
    BY DEF ReconcilerInv
  <1>1. CASE UNCHANGED vars
    BY <1>0, <1>1, ZenonT(60) DEF vars, Progress, NoneDue, Matches, Status
  <1>2. ASSUME UNCHANGED <<app, dep, svc, unseen, queued, pc, local, live>>,
               cm'.stray \/ cm' = cm \/ (cm.uid # app.uid /\ cm'.stray = cm.stray)
        PROVE  Progress'
    BY <1>0, <1>2, ZenonT(60) DEF Progress, NoneDue, Matches, Status
  <1>3. CASE Users
    <2>1. CASE Drift
      <3>1. UNCHANGED <<app, dep, svc, unseen, queued, pc, local, live>> /\ cm'.stray
        BY <1>0, <2>1, NoneTypes DEF Drift, TypeOK
      <3> QED BY <1>2, <3>1
    <2> QED BY <1>3, <2>1, ZenonT(60) DEF Users, CreateApp, UpdateSpec, DeleteApp, PodsChange
  <1>4. CASE Collect
    <2>1. [NoCM EXCEPT !.stray = cm.stray].stray = cm.stray
      BY NoneTypes
    <2> QED BY <1>2, <1>4, <2>1, ZenonT(60) DEF Collect, CollectDeployment, CollectService, CollectObservability, Orphan
  <1>5. ASSUME NEW k \in Watched, Watch(k) PROVE Progress'
    BY <1>5 DEF Watch
  <1>6. CASE Reconcile
    BY <1>0, <1>6, ZenonT(60) DEF Reconcile, CacheIsCurrent, Progress, Wanted
  <1>7. CASE Apply
    <2>1. CASE pc = "deployment"
      <3>1. /\ dep'.uid = local.uid /\ dep'.conf = desiredDeployment(local.spec) /\ ~ dep'.edited /\ dep' = dep
            /\ unseen = {} /\ UNCHANGED <<svc, cm>>
        BY <1>0, <1>7, <2>1, DeploymentWritten, ZenonT(60) DEF Apply, TypeOK
      <3>2. local = Wanted(app) /\ UNCHANGED <<app, queued, local>> /\ pc' = IF local.spec.expose THEN "service" ELSE "observability"
        BY <1>0, <1>7, <2>1, <3>1 DEF Apply, Progress, NoneDue
      <3> QED BY <3>1, <3>2 DEF Progress, Matches, Wanted
    <2>2. CASE pc = "service"
      <3>1. /\ svc'.uid = local.uid /\ svc'.conf = desiredService(local.spec) /\ ~ svc'.edited
            /\ unseen = {} /\ UNCHANGED <<dep, cm>>
        BY <1>0, <1>7, <2>2, ServiceWritten DEF Apply, TypeOK
      <3>2. local = Wanted(app) /\ UNCHANGED <<app, queued, local>> /\ pc' = "observability"
        BY <1>0, <1>7, <2>2, <3>1 DEF Apply, Progress, NoneDue
      <3>3. Matches(dep, desiredDeployment(app.spec)) /\ ~ dep.edited
        BY <1>0, <2>2, <3>1, <3>2 DEF Progress, NoneDue
      <3> QED BY <3>1, <3>2, <3>3 DEF Progress, Matches, Wanted
    <2>3. CASE pc = "observability"
      <3>1. /\ cm'.uid = local.uid /\ cm'.conf = desiredObservability(local.spec) /\ UNCHANGED <<dep, svc, unseen>>
        BY <1>0, <1>7, <2>3, ObservabilityWritten, ZenonT(60) DEF Apply, TypeOK
      <3>2. local = Wanted(app) /\ UNCHANGED <<app, queued, local>> /\ pc' = "live"
        BY <1>0, <1>7, <2>3, <3>1 DEF Apply, Progress, NoneDue
      <3>3. /\ Matches(dep, desiredDeployment(app.spec)) /\ ~ dep.edited
            /\ app.spec.expose => Matches(svc, desiredService(app.spec)) /\ ~ svc.edited
        BY <1>0, <2>3, <3>1, <3>2 DEF Progress, NoneDue
      <3> QED BY <3>1, <3>2, <3>3 DEF Progress, Matches, Wanted
    <2> QED BY <1>7, <2>1, <2>2, <2>3, ZenonT(60) DEF Apply
  <1>8. CASE ReadDeployment
    BY <1>0, <1>8, ZenonT(60) DEF ReadDeployment, Requeue, Progress, NoneDue, Matches, CacheIsCurrent, Status
  <1>9. CASE updateStatus
    <2>1. UNCHANGED <<app, dep, svc, cm, unseen>> /\ pc = "status" /\ pc' = "idle" /\ ~ queued
          /\ cache.app.status = StatusOf(cache.app, live)
      BY <1>9 DEF updateStatus, UpdateStatus, Requeue, Done, Return
    <2>2. cache.app = app /\ live = Status(dep)
      BY <1>0, <2>1 DEF CacheIsCurrent, Progress, NoneDue
    <2>3. app.status = StatusOf(app, dep)
      BY <2>1, <2>2, StatusOfRead
    <2>4. (app.status = StatusOf(app, dep))'
      BY <2>1, <2>3 DEF StatusOf
    <2> QED BY <1>0, <2>1, <2>4, ZenonT(60) DEF Progress, NoneDue, Matches
  <1>10. CASE DeploymentFails \/ CallFails \/ StatusUnconfirmed
    BY <1>10 DEF DeploymentFails, CallFails, StatusUnconfirmed, Requeue
  <1>11. CASE Restart
    BY <1>11, ZenonT(60) DEF Restart
  <1>12. ASSUME NEW c \in late, Land(c) PROVE Progress'
    <2>1. c.app \in WantedType
      BY <1>0 DEF TypeOK
    <2>2. UNCHANGED <<app, dep, svc, unseen, queued, pc, local, live>> /\ (cm' = cm \/ cm'.stray)
      BY <1>0, <1>12, <2>1, DeploymentWritten, ServiceWritten, ObservabilityWritten, ZenonT(60) DEF Land, TypeOK
    <2> QED BY <1>2, <2>2
  <1> QED BY <1>1, <1>3, <1>4, <1>5, <1>6, <1>7, <1>8, <1>9, <1>10, <1>11, <1>12 DEF Next, Operator

\* ReconcilerInv is inductive: for any specs, any number of changes, faults and restarts.
THEOREM ReconcilerInductive == Spec => []ReconcilerInv
  <1>1. Init => ReconcilerInv
    <2> SUFFICES ASSUME Init PROVE ReconcilerInv
      OBVIOUS
    <2>1. TypeOK
      <3>1. 0 \in 0..(StatusSteps - 1)
        BY ReconcilerAssumption
      <3>2. Status(NoDep) \in DepStatus
        BY NoneTypes, StatusTypes, ZenonT(60)
      <3> QED BY <3>1, <3>2, NoneTypes, ZenonT(60) DEF Init, TypeOK, Watched
    <2>2. CacheIsCurrent /\ UidsAreFresh /\ ServiceExplained /\ Progress
      BY NoneTypes DEF Init, CacheIsCurrent, UidsAreFresh, Snapshots, Wanted, ServiceExplained, Progress
    <2> QED BY <2>1, <2>2 DEF ReconcilerInv
  <1>2. ReconcilerInv /\ [Next]_vars => ReconcilerInv'
    BY TypesKeep, CacheKeeps, FreshKeeps, ServiceKeeps, ProgressKeeps DEF ReconcilerInv
  <1> QED BY <1>1, <1>2, PTL DEF Spec

\* Whenever nothing is left to do the cluster is what the Application asks for: no lost
\* call, late write, stale read, restart or edit makes Reconcile stop short.
THEOREM ReconcilerSafety == Spec => []SettledIsConverged
  <1>1. ReconcilerInv => SettledIsConverged
    <2> SUFFICES ASSUME ReconcilerInv, Settled PROVE Converged
      BY DEF SettledIsConverged
    <2>1. CASE app.uid = 0
      BY <2>1 DEF Settled, Quiet, Orphan, Converged
    <2>2. CASE app.uid # 0
      <3>1. Progress /\ NoneDue /\ pc = "idle"
        BY DEF ReconcilerInv, Settled, Quiet, NoneDue
      <3>2. svc.uid = 0 \/ exposed
        BY DEF ReconcilerInv, ServiceExplained, Settled, Quiet, Orphan
      <3> QED BY <2>2, <3>1, <3>2 DEF Progress, Converged
    <2> QED BY <2>1, <2>2
  <1> QED BY <1>1, ReconcilerInductive, PTL
=============================================================================
