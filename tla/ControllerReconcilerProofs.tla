---------------------- MODULE ControllerReconcilerProofs ----------------------
(***************************************************************************)
(* What ControllerReconciler guarantees for every set of CRs and every     *)
(* bound: the types, that the requeue loop of a CR survives the Service as *)
(* well, where a status lands, that it implements StatefulSetKeeper, and   *)
(* who owns what it makes.                                                 *)
(* The steps it shares with StatefulSetReconciler are those of the modules *)
(* StatefulSetReconcilerProofs and StatefulSetKeeperProofs.                *)
(***************************************************************************)
EXTENDS ControllerReconciler, StatefulSetKeeperProofs

(* The variables this module adds.                                         *)
ServiceTypeOK ==
    /\ service \in [ServiceNames -> Service]
    /\ serviceSeen \in [ServiceNames -> Service]
    /\ accessPoint \in ServiceNames \cup {NoAccessPoint}

(* Nothing exists at the start.                                            *)
LEMMA ControllerInitType == ControllerInit => ControllerTypeOK /\ NeverForgotten
  <1>1. NoServiceObject \in Service
    BY DEF NoServiceObject, Service, Owner
  <1>2. Init => NeverForgotten
    BY DEF Init, NeverForgotten, NoStore
  <1> QED
    BY <1>1, <1>2, InitType DEF ControllerInit, ControllerTypeOK

(* The access point is the name of a Service, and the key comes back.      *)
LEMMA SetAccessPointEnds ==
    ASSUME TypeOK, NEW k \in Keys, SetAccessPoint(k)
    PROVE  accessPoint' \in ServiceNames /\ ReturnLater(k)
  BY ServiceNamesAssumption, NameOfKey DEF SetAccessPoint, LookedUp

(* The two calls about the Service keep the types, rewrite nothing of the  *)
(* CR, and go on or come back later.                                       *)
LEMMA ServiceCalls ==
    ASSUME ControllerTypeOK, NEW k \in Keys, GetService(k) \/ CreateService(k)
    PROVE  /\ ControllerTypeOK'
           /\ UNCHANGED <<crLog, sts, pods, crSeen, dirty>>
           /\ delayed \subseteq delayed'
           /\ \A j \in Keys \ {k} : job'[j] = job[j]
           /\ job'[k].call \in {"idle", "createService"}
           /\ job'[k].call # "idle" => job'[k].rv = job[k].rv
           /\ job'[k].call # "idle" \/ k \in delayed'
  <1>1. /\ TypeOK /\ ServiceTypeOK
        /\ job[k] \in Job /\ job \in [Keys -> Job]
        /\ job[k].rv \in 1..Len(crLog[k]) /\ faults \in Nat
    BY DEF ControllerTypeOK, ServiceTypeOK, TypeOK
  <1>2. /\ Held(k) \in Store
        /\ \A j \in Keys : Len(crLog[j]) \in Nat \ {0}
    BY <1>1, CurrentTypes
  <1>3. /\ UNCHANGED <<crLog, sts, crSeen, stsSeen, pods, dirty, serviceSeen>>
        /\ UNCHANGED <<edits, foreign, shuffles, restarts>>
        /\ UNCHANGED faults \/ faults' = faults + 1
        /\ UNCHANGED accessPoint \/ SetAccessPoint(k)
        /\ ReturnLater(k) \/ ReturnError(k) \/ Proceed(k, "createService")
    BY DEF GetService, CreateService, SetAccessPoint, NoFault, Fault, server, cache
  <1>4. JobStep(k)
    <2>1. GoodCopy(k, job[k]) /\ Len(crLog'[k]) \in Nat \ {0} /\ "createService" \in Calls
      BY <1>1, <1>2, <1>3 DEF GoodCopy, Calls
    <2> QED
      BY <1>1, <1>3, <2>1, EndsOfCall DEF Proceed, Returns
  <1>5. TypeOK'
    <2>1. /\ crLog' \in [Keys -> Seq(Store)] /\ sts' \in [Names -> StatefulSet]
          /\ edits' \in Nat /\ foreign' \in Nat /\ shuffles' \in Nat
          /\ faults' \in Nat /\ restarts' \in Nat
          /\ \A j \in Keys : /\ Len(crLog'[j]) \in Nat
                              /\ Len(crLog[j]) <= Len(crLog'[j])
      BY <1>1, <1>2, <1>3 DEF TypeOK
    <2> QED
      BY <1>1, <1>3, <1>4, <2>1, JobStepType
  <1>6. service' \in [ServiceNames -> Service]
    <2>1. /\ NameOf(k) \in ServiceNames
          /\ ServiceFor(k, Held(k)) \in Service
      BY <1>2, RecordTypes, NameOfKey, ServiceNamesAssumption
         DEF Service, ServiceFor, Owner
    <2>2. \/ UNCHANGED service
          \/ service' = [service EXCEPT ![NameOf(k)] = ServiceFor(k, Held(k))]
      BY DEF GetService, CreateService
    <2> QED
      BY <1>1, <2>1, <2>2 DEF ServiceTypeOK
  <1>7. accessPoint' \in ServiceNames \cup {NoAccessPoint}
    BY <1>1, <1>3, SetAccessPointEnds DEF ServiceTypeOK
  <1>8. /\ job'[k].call \in {"idle", "createService"}
        /\ job'[k].call # "idle" => job'[k].rv = job[k].rv
        /\ job'[k].call # "idle" \/ k \in delayed'
    BY <1>1, <1>3 DEF ReturnLater, ReturnError, Return, NoJob, Proceed, Becomes, Job
  <1>9. /\ delayed \subseteq delayed'
        /\ \A j \in Keys \ {k} : job'[j] = job[j]
    BY <1>1, <1>4 DEF JobStep
  <1> QED
    BY <1>1, <1>3, <1>5, <1>6, <1>7, <1>8, <1>9 DEF ControllerTypeOK, ServiceTypeOK

(* The steps that only the Service takes part in.                          *)
LEMMA ServiceSteps ==
    ASSUME ControllerTypeOK,
           NEW n \in ServiceNames,
           CollectService(n) \/ ServiceByHand(n) \/ DeliverService(n)
    PROVE  ControllerTypeOK' /\ UNCHANGED <<crLog, sts, pods, crSeen, dirty, delayed, job>>
  <1>1. TypeOK /\ ServiceTypeOK
    BY DEF ControllerTypeOK, ServiceTypeOK
  <1>2. NoServiceObject \in Service /\ NoOwner \in Owner
    BY DEF NoServiceObject, Service, Owner
  <1>3. ASSUME CollectService(n)
        PROVE  ServiceTypeOK' /\ UNCHANGED vars
    BY <1>1, <1>2, <1>3 DEF CollectService, ServiceTypeOK
  <1>4. ASSUME DeliverService(n)
        PROVE  ServiceTypeOK' /\ UNCHANGED vars
    BY <1>1, <1>4 DEF DeliverService, ServiceTypeOK
  <1>5. ASSUME ServiceByHand(n)
        PROVE  /\ ServiceTypeOK' /\ foreign' \in Nat
               /\ UNCHANGED <<crLog, sts, crSeen, stsSeen, pods, job>>
               /\ UNCHANGED <<dirty, delayed, failing>>
               /\ UNCHANGED <<edits, shuffles, faults, restarts>>
    <2>1. service[n] \in Service /\ foreign \in Nat
      BY <1>1 DEF ServiceTypeOK, TypeOK
    <2>2. [live |-> ~service[n].live, owner |-> NoOwner] \in Service
      BY <1>2, <2>1 DEF Service
    <2>3. service' =
             [service EXCEPT ![n] = [live |-> ~service[n].live, owner |-> NoOwner]]
      BY <1>5 DEF ServiceByHand
    <2> QED
      BY <1>1, <1>5, <2>1, <2>2, <2>3 DEF ServiceByHand, ServiceTypeOK, server, cache, queue
  <1>6. UNCHANGED vars
           => TypeOK' /\ UNCHANGED <<crLog, sts, pods, crSeen, dirty, delayed, job>>
    BY <1>1 DEF vars, server, cache, queue, budget, TypeOK
  <1>7. ASSUME ServiceByHand(n) PROVE TypeOK'
    BY <1>1, <1>5, <1>7 DEF TypeOK
  <1> QED
    BY <1>3, <1>4, <1>5, <1>6, <1>7 DEF ControllerTypeOK, ServiceTypeOK

(* A restart lists the Services too, and forgets the access point.         *)
LEMMA RestartSteps ==
    ASSUME ControllerTypeOK, RestartController
    PROVE  ControllerTypeOK' /\ NeverForgotten'
  <1>1. TypeOK /\ Restart
    BY DEF ControllerTypeOK, RestartController
  <1>2. TypeOK'
    BY <1>1, RestartType
  <1>3. NeverForgotten'
    BY <1>1 DEF Restart, NeverForgotten, Rv, Current, server
  <1> QED
    BY <1>2, <1>3 DEF RestartController, ControllerTypeOK

(* Every variable keeps its type, and a CR that the cache holds is always  *)
(* queued, waiting or in work: neither the calls about the Service nor the *)
(* retries they force end the loop.                                        *)
LEMMA ControllerStep ==
    ControllerTypeOK /\ NeverForgotten /\ [ControllerNext]_controllerVars
        => ControllerTypeOK' /\ NeverForgotten'
  <1> SUFFICES ASSUME ControllerTypeOK, NeverForgotten,
                      [ControllerNext]_controllerVars
               PROVE  ControllerTypeOK' /\ NeverForgotten'
    OBVIOUS
  <1>1. TypeOK
    BY DEF ControllerTypeOK
  <1>2. ASSUME NEW k \in Keys, GetService(k) \/ CreateService(k)
        PROVE  ControllerTypeOK' /\ NeverForgotten'
    BY <1>2, ServiceCalls DEF NeverForgotten
  <1>3. ASSUME Environment \/ \E k \in Keys : GetStore(k) \/ CallOfReconcile(k),
               UNCHANGED services
        PROVE  ControllerTypeOK' /\ NeverForgotten'
    <2>1. TypeOK'
      BY <1>1, <1>3, GetStoreType, CallOfReconcileType, EnvironmentType
    <2>2. NeverForgotten'
      BY <1>1, <1>3, LoopStep
    <2> QED
      BY <1>3, <2>1, <2>2 DEF ControllerTypeOK, services
  <1>4. CASE UNCHANGED controllerVars
    BY <1>4 DEF controllerVars, services, vars, server, cache, queue, budget,
       ControllerTypeOK, TypeOK, NeverForgotten
  <1>5. ASSUME NEW n \in ServiceNames,
               CollectService(n) \/ ServiceByHand(n) \/ DeliverService(n)
        PROVE  ControllerTypeOK' /\ NeverForgotten'
    BY <1>5, ServiceSteps DEF NeverForgotten
  <1> QED
    BY <1>2, <1>3, <1>4, <1>5, RestartSteps DEF ControllerNext, CallOfController

(* Every variable of the Controller reconciler keeps its type; the access  *)
(* point is empty or the name of a Service.                                *)
THEOREM ControllerTypeCorrect == ControllerSpec => []ControllerTypeOK
  BY ControllerInitType, ControllerStep, PTL DEF ControllerSpec

(* The requeue loop of a Controller never ends, although every reconcile   *)
(* after the first fails to create its Service.                            *)
THEOREM ControllerLoopNeverEnds == ControllerSpec => []NeverForgotten
  BY ControllerInitType, ControllerStep, PTL DEF ControllerSpec

-----------------------------------------------------------------------------
(* The status and the objects.                                             *)

(* Where the steps of ControllerReconciler come from.                      *)
LEMMA ControllerNextSteps ==
    ASSUME [ControllerNext]_controllerVars
    PROVE  \/ Restart
           \/ Environment
           \/ \E k \in Keys : GetStore(k) \/ CallOfReconcile(k)
           \/ \E k \in Keys : GetService(k) \/ CreateService(k)
           \/ \E n \in ServiceNames :
                 CollectService(n) \/ ServiceByHand(n) \/ DeliverService(n)
           \/ UNCHANGED vars
  BY DEF ControllerNext, RestartController, CallOfController, controllerVars

(* The copy of a reconcile is right at every moment here, too: the calls   *)
(* about the Service come when the status has been dealt with.             *)
THEOREM ControllerCopyInvariant == ControllerSpec => []CopyInv
  <1>1. ControllerInit => CopyInv
    BY DEF ControllerInit, Init, CopyInv, CopyLives, CopyIsRead, SizeOfCopy,
       CopyDiffers, NoJob
  <1>2. ControllerTypeOK /\ ControllerTypeOK' /\ CopyInv
           /\ [ControllerNext]_controllerVars => CopyInv'
    <2> SUFFICES ASSUME ControllerTypeOK, ControllerTypeOK', CopyInv,
                        [ControllerNext]_controllerVars
                 PROVE  CopyInv'
      OBVIOUS
    <2>1. TypeOK /\ TypeOK'
      BY DEF ControllerTypeOK
    <2>2. CASE Restart
      BY <2>2 DEF Restart, CopyInv, CopyLives, CopyIsRead, SizeOfCopy,
         CopyDiffers, NoJob
    <2>3. CASE UNCHANGED <<crLog, crSeen, job>>
      BY <2>3 DEF CopyInv, CopyLives, CopyIsRead, SizeOfCopy, CopyDiffers, Held
    <2>4. ASSUME NEW k \in Keys, GetService(k) \/ CreateService(k), NEW j \in Keys
          PROVE  CopyOK(j)'
      <3>1. /\ UNCHANGED <<crLog, crSeen>> /\ \A i \in Keys \ {k} : job'[i] = job[i]
            /\ job'[k].call \in {"idle", "createService"}
            /\ job'[k].call # "idle" => job'[k].rv = job[k].rv
            /\ job[k].call \in {"getService", "createService"}
        BY <2>4, ServiceCalls DEF GetService, CreateService
      <3>2. CASE j = k
        <4>1. Kind(k) # "Store" /\ Held(k).live
          BY <3>1 DEF CopyInv, CopyLives
        <4>2. job'[k].call # "idle" => Held(k)' = Held(k)
          BY <3>1 DEF Held
        <4> QED
          BY <3>1, <3>2, <4>1, <4>2
          DEF CopyOK, CopyLives, CopyIsRead, SizeOfCopy, CopyDiffers
      <3>3. CASE j # k
        BY <3>1, <3>3 DEF CopyInv, CopyOK, CopyLives, CopyIsRead, SizeOfCopy,
           CopyDiffers, Held
      <3> QED
        BY <3>2, <3>3
    <2>5. ASSUME NEW k \in Keys, GetService(k) \/ CreateService(k) PROVE CopyInv'
      BY <2>4, <2>5 DEF CopyInv, CopyOK
    <2>6. UNCHANGED vars => UNCHANGED <<crLog, crSeen, job>>
      BY DEF vars, server, cache
    <2> QED
      BY <2>1, <2>2, <2>3, <2>5, <2>6, ControllerNextSteps, ServiceSteps, CopyStep
  <1> QED
    BY <1>1, <1>2, ControllerTypeCorrect, PTL DEF ControllerSpec

(* A status only lands on what it was computed from, with Controllers and  *)
(* Stores side by side, which share the pods.                              *)
THEOREM ControllerStatusLandsRight == ControllerSpec => StatusOfWhatWasRead
  <1>1. ControllerTypeOK => TypeOK
    BY DEF ControllerTypeOK
  <1>2. [ControllerNext]_controllerVars /\ TypeOK /\ CopyInv =>
           [\A k \in Keys :
               (UpdateSize(k) \/ UpdateNodes(k)) /\ crLog'[k] # crLog[k] =>
                   LET written == Current(crLog'[k])
                   IN  /\ written.size = written.replicas
                       /\ written.uid = Held(k).uid]_vars
    BY StatusLands
  <1> QED
    BY <1>1, <1>2, ControllerTypeCorrect, ControllerCopyInvariant, PTL
    DEF ControllerSpec, StatusOfWhatWasRead

(* The status is rewritten with nothing new in it only for the order of a  *)
(* list, with Controllers and Stores side by side, which share the pods.   *)
THEOREM ControllerOnlyNewsOrOrder == ControllerSpec => RewrittenForOrderOnly
  <1>1. ControllerTypeOK => TypeOK
    BY DEF ControllerTypeOK
  <1>2. ControllerTypeOK /\ CopyInv =>
           [\A k \in Keys :
               (UpdateSize(k) \/ UpdateNodes(k)) /\ crLog'[k] # crLog[k] =>
                   LET before == Current(crLog[k])
                       written == Current(crLog'[k])
                   IN  \/ written.size # before.size
                       \/ PodsNamed(written) # PodsNamed(before)
                       \/ ~InOrdinalOrder(written.nodes)
                       \/ ~InOrdinalOrder(before.nodes)]_vars
    BY <1>1, UpdateIsNews
  <1> QED
    BY <1>2, ControllerTypeCorrect, ControllerCopyInvariant, PTL
    DEF ControllerSpec, RewrittenForOrderOnly

(* The Controller reconciler implements the keeper, for Controllers and    *)
(* the Stores about: the Service and the access point touch nothing of it. *)
THEOREM ControllerKeeperImplementation == ControllerSpec => ImplementsKeeper
  <1>1. ControllerTypeOK /\ CopyInv /\ [ControllerNext]_controllerVars
           => [Keeper!Next]_(Keeper!vars)
    <2> SUFFICES ASSUME ControllerTypeOK, CopyInv, [ControllerNext]_controllerVars
                 PROVE  [Keeper!Next]_(Keeper!vars)
      OBVIOUS
    <2>1. TypeOK
      BY DEF ControllerTypeOK
    <2>2. UNCHANGED <<crLog, sts, pods, crSeen, job>> => UNCHANGED Keeper!vars
      BY DEF Keeper!vars, Read, Listed
    <2>3. ASSUME NEW k \in Keys, GetService(k) \/ CreateService(k)
          PROVE  Keeper!Forget
      <3>1. /\ UNCHANGED <<crLog, sts, pods, crSeen>>
            /\ \A j \in Keys \ {k} : job'[j] = job[j]
            /\ job'[k].call \in {"idle", "createService"}
        BY <2>3, ServiceCalls
      <3>2. Quiet(k) /\ \A j \in Keys \ {k} : Quiet(j)
        BY <2>1, <3>1, OverIsQuiet, SameIsQuiet
      <3> QED
        BY <2>1, <3>1, <3>2, QuietMaps
    <2>4. UNCHANGED vars => UNCHANGED <<crLog, sts, pods, crSeen, job>>
      BY DEF vars, server, cache
    <2>5. Keeper!Forget => Keeper!Next
      BY DEF Keeper!Next
    <2> QED
      BY <2>1, <2>2, <2>3, <2>4, <2>5, ControllerNextSteps, ServiceSteps,
         RestartMaps, StepsMap
  <1>2. ControllerInit => Keeper!Init
    BY InitMaps DEF ControllerInit
  <1> QED
    BY <1>1, <1>2, ControllerTypeCorrect, ControllerCopyInvariant, PTL
    DEF ControllerSpec, ImplementsKeeper, Keeper!Spec

-----------------------------------------------------------------------------
(* What StatefulSets and Services are made from.                           *)

(* StatefulSets are of one piece with Controllers about, too: those that   *)
(* both kinds of CRs make under one name are never mixed.                  *)
THEOREM ControllerStatefulSetsOfOnePiece == ControllerSpec => []StatefulSetsMade
  <1>1. ControllerInit => StatefulSetsMade
    BY DEF ControllerInit, Init, StatefulSetsMade, NoStatefulSet
  <1>2. ControllerTypeOK /\ CopyInv /\ StatefulSetsMade
           /\ [ControllerNext]_controllerVars => StatefulSetsMade'
    <2> SUFFICES ASSUME ControllerTypeOK, CopyInv, StatefulSetsMade,
                        [ControllerNext]_controllerVars
                 PROVE  StatefulSetsMade'
      OBVIOUS
    <2>1. TypeOK
      BY DEF ControllerTypeOK
    <2>2. Restart \/ UNCHANGED vars => UNCHANGED <<crLog, sts>>
      BY DEF Restart, vars, server
    <2> QED
      BY <2>1, <2>2, ControllerNextSteps, ServiceCalls, ServiceSteps, MadeStep,
         MadeUnchanged
  <1> QED
    BY <1>1, <1>2, ControllerTypeCorrect, ControllerCopyInvariant, PTL
    DEF ControllerSpec

(* No step rewrites a version or takes back what others have written.      *)
LEMMA NothingTakenBack ==
    ASSUME ControllerTypeOK, [ControllerNext]_controllerVars
    PROVE  /\ \A k \in Keys : VersionsKept(k)
           /\ foreign' >= foreign /\ foreign \in Nat /\ foreign' \in Nat
  <1>1. TypeOK /\ foreign \in Nat
    BY DEF ControllerTypeOK, TypeOK
  <1>2. UNCHANGED crLog => \A k \in Keys : VersionsKept(k)
    BY DEF VersionsKept
  <1>3. Restart \/ UNCHANGED vars => UNCHANGED <<crLog, foreign>>
    BY DEF Restart, vars, server, budget
  <1>4. ASSUME NEW k \in Keys, GetService(k) \/ CreateService(k)
        PROVE  UNCHANGED <<crLog, foreign>>
    BY <1>4, ServiceCalls DEF GetService, CreateService
  <1>5. ASSUME NEW n \in ServiceNames,
               CollectService(n) \/ ServiceByHand(n) \/ DeliverService(n)
        PROVE  UNCHANGED crLog /\ foreign' \in {foreign, foreign + 1}
    BY <1>5, ServiceSteps DEF CollectService, ServiceByHand, DeliverService, vars, budget
  <1>6. ASSUME NEW k \in Keys, GetStore(k) \/ CallOfReconcile(k)
        PROVE  UNCHANGED foreign
    BY <1>6 DEF GetStore, CallOfReconcile, GetStatefulSet, CreateStatefulSet,
       ListPods, UpdateSize, UpdateNodes
  <1>7. ASSUME NEW k \in Keys, Users(k) \/ Queues(k) PROVE UNCHANGED foreign
    BY <1>7 DEF Users, CreateStore, EditStore, DeleteStore, UserWrites,
       Queues, DeliverStore, Resync, DelayEnds, budget
  <1>8. ASSUME NEW n \in Names, Others(n) \/ DeliverStatefulSet(n)
        PROVE  foreign' \in {foreign, foreign + 1}
    BY <1>8 DEF Others, ScaledByHand, DeletedByHand, ForeignWrites,
       CollectGarbage, PodStarts, PodStops, PodLost, StrangerStarts,
       DeliverStatefulSet, budget
  <1>9. Environment => foreign' \in {foreign, foreign + 1}
    BY <1>7, <1>8 DEF Environment
  <1>10. foreign' \in {foreign, foreign + 1}
    BY <1>3, <1>4, <1>5, <1>6, <1>9, ControllerNextSteps
  <1>11. \A k \in Keys : VersionsKept(k)
    BY <1>1, <1>2, <1>3, <1>4, <1>5, ControllerNextSteps, OutsideSteps,
       ReconcileSteps
  <1> QED
    BY <1>1, <1>10, <1>11

(* A Service that is there after a step was there before, or was just made *)
(* by hand, or by the reconcile of the Controller of its name.             *)
LEMMA ServicesBefore ==
    ASSUME ControllerTypeOK, [ControllerNext]_controllerVars,
           NEW n \in ServiceNames, service'[n].live
    PROVE  \/ service[n].live /\ service'[n].owner = service[n].owner
           \/ service'[n].owner = NoOwner /\ foreign' = foreign + 1
           \/ \E k \in Keys :
                 /\ NameOf(k) = n
                 /\ job[k].call = "createService"
                 /\ service'[n].owner = <<k, Held(k).uid>>
  <1>1. service \in [ServiceNames -> Service]
    BY DEF ControllerTypeOK
  <1>2. ASSUME NEW m \in ServiceNames, CollectService(m)
        PROVE  service'[n] = service[n]
    BY <1>1, <1>2 DEF CollectService, NoServiceObject
  <1>3. ASSUME NEW m \in ServiceNames, ServiceByHand(m)
        PROVE  \/ service'[n] = service[n]
               \/ service'[n].owner = NoOwner /\ foreign' = foreign + 1
    BY <1>1, <1>3 DEF ServiceByHand
  <1>4. ASSUME NEW k \in Keys, CreateService(k)
        PROVE  \/ service'[n] = service[n]
               \/ /\ NameOf(k) = n
                  /\ job[k].call = "createService"
                  /\ service'[n].owner = <<k, Held(k).uid>>
    BY <1>1, <1>4 DEF CreateService, ServiceFor
  <1>5. \/ UNCHANGED service
        \/ \E k \in Keys : CreateService(k)
        \/ \E m \in ServiceNames : CollectService(m) \/ ServiceByHand(m)
    BY DEF ControllerNext, RestartController, CallOfController, GetService,
       DeliverService, controllerVars, services
  <1> QED
    BY <1>2, <1>3, <1>4, <1>5

(* Every Service that nobody made by hand is owned by an incarnation of    *)
(* the Controller of its name, although other Controllers may look it up:  *)
(* what the garbage collector needs to take it with its Controller.        *)
THEOREM ServicesOwned == ControllerSpec => []ServicesMade
  <1>1. ControllerInit => ServicesMade
    BY DEF ControllerInit, ServicesMade, NoServiceObject
  <1>2. ControllerTypeOK /\ CopyInv /\ ServicesMade
           /\ [ControllerNext]_controllerVars => ServicesMade'
    <2> SUFFICES ASSUME ControllerTypeOK, CopyInv, ServicesMade,
                        [ControllerNext]_controllerVars,
                        NEW n \in ServiceNames, service'[n].live
                 PROVE  \/ service'[n].owner = NoOwner /\ foreign' > 0
                        \/ \E k \in Controllers :
                              /\ NameOf(k) = n
                              /\ \E i \in 1..Len(crLog'[k]) :
                                    /\ crLog'[k][i].live
                                    /\ service'[n].owner = <<k, crLog'[k][i].uid>>
      BY DEF ServicesMade, ServiceMade
    <2>1. /\ \A k \in Keys : VersionsKept(k)
          /\ foreign' >= foreign /\ foreign \in Nat /\ foreign' \in Nat
      BY NothingTakenBack
    <2>2. ASSUME NEW k \in Keys, Kind(k) = "Controller", NameOf(k) = n,
                 NEW i \in 1..Len(crLog[k]), crLog[k][i].live,
                 service'[n].owner = <<k, crLog[k][i].uid>>
          PROVE  \E j \in Controllers :
                    /\ NameOf(j) = n
                    /\ \E v \in 1..Len(crLog'[j]) :
                          /\ crLog'[j][v].live
                          /\ service'[n].owner = <<j, crLog'[j][v].uid>>
      <3>1. i \in 1..Len(crLog'[k]) /\ crLog'[k][i] = crLog[k][i]
        BY <2>1, <2>2 DEF VersionsKept
      <3> QED
        BY <2>2, <3>1 DEF Controllers
    <2>3. CASE service[n].live /\ service'[n].owner = service[n].owner
      BY <2>1, <2>2, <2>3 DEF ServicesMade, ServiceMade, Controllers
    <2>4. CASE service'[n].owner = NoOwner /\ foreign' = foreign + 1
      BY <2>1, <2>4
    <2>5. ASSUME NEW k \in Keys, NameOf(k) = n, job[k].call = "createService",
                 service'[n].owner = <<k, Held(k).uid>>
          PROVE  \E j \in Controllers :
                    /\ NameOf(j) = n
                    /\ \E v \in 1..Len(crLog'[j]) :
                          /\ crLog'[j][v].live
                          /\ service'[n].owner = <<j, crLog'[j][v].uid>>
      <3>1. Kind(k) # "Store" /\ Held(k).live
        BY <2>5 DEF CopyInv, CopyLives
      <3>2. Kind(k) = "Controller"
        BY <3>1, KeysAssumption DEF Kind, Kinds
      <3>3. job[k].rv \in 1..Len(crLog[k])
        BY DEF ControllerTypeOK, TypeOK
      <3> QED
        BY <2>2, <2>5, <3>1, <3>2, <3>3 DEF Held
    <2> QED
      BY <2>3, <2>4, <2>5, ServicesBefore
  <1> QED
    BY <1>1, <1>2, ControllerTypeCorrect, ControllerCopyInvariant, PTL
    DEF ControllerSpec
=============================================================================
