------------------------ MODULE ControllerReconciler ------------------------
(***************************************************************************)
(* The reconciler of Controller custom resources: what StatefulSetReconciler*)
(* has, and then the Service of the Controller and the access point, a     *)
(* variable of the process that all Controllers set.  Stores may be about. *)
(*                                                                         *)
(* The Service is looked up as BuildSvcResourceName(name), and created as  *)
(* name: a Controller may find the Service of another one.                 *)
(***************************************************************************)
EXTENDS StatefulSetReconciler

CONSTANTS
    ServiceNames,            \* the names of the Services that are followed
    BuildSvcResourceName,    \* "vanus-" and the name of a CR
    NoAccessPoint            \* the empty string

ASSUME ServiceNamesAssumption ==
    /\ Names \subseteq ServiceNames
    /\ BuildSvcResourceName \in [Names -> ServiceNames]
    /\ \A n \in Names : BuildSvcResourceName[n] # n
    /\ NoAccessPoint \notin ServiceNames

VARIABLES
    service,       \* API server: the Services
    serviceSeen,   \* informer cache: the Services it holds
    accessPoint    \* ControllerAccessPoint, without the port

services == <<service, serviceSeen, accessPoint>>
controllerVars == <<vars, services>>

Service == [live: BOOLEAN, owner: Owner]
NoServiceObject == [live |-> FALSE, owner |-> NoOwner]

Controllers == {k \in Keys : Kind(k) = "Controller"}
LookedUp(k) == BuildSvcResourceName[NameOf(k)]

(* Mutant: the owner reference is not set.                                 *)
ServiceWithoutOwner(k, controller) == [live |-> TRUE, owner |-> NoOwner]

(* generateSvcForController: an owner reference to the CR.                 *)
ServiceFor(k, controller) == [live |-> TRUE, owner |-> <<k, controller.uid>>]

ControllerTypeOK ==
    /\ TypeOK
    /\ service \in [ServiceNames -> Service]
    /\ serviceSeen \in [ServiceNames -> Service]
    /\ accessPoint \in ServiceNames \cup {NoAccessPoint}

ControllerInit ==
    /\ Init
    /\ service = [n \in ServiceNames |-> NoServiceObject]
    /\ serviceSeen = [n \in ServiceNames |-> NoServiceObject]
    /\ accessPoint = NoAccessPoint

-----------------------------------------------------------------------------
(* The Service has an owner reference; its finalizer only orphans what     *)
(* depends on it.                                                          *)
CollectService(n) ==
    /\ service[n].owner # NoOwner
    /\ ~OwnerLives(service[n].owner)
    /\ service' = [service EXCEPT ![n] = NoServiceObject]
    /\ UNCHANGED <<vars, serviceSeen, accessPoint>>

(* Somebody deletes a Service, or makes one that nobody owns.              *)
ServiceByHand(n) ==
    /\ MayForeign
    /\ foreign' = foreign + 1
    /\ service' = [service EXCEPT ![n] = [live |-> ~@.live, owner |-> NoOwner]]
    /\ UNCHANGED <<server, cache, queue, job, edits, shuffles, faults, restarts,
                   serviceSeen, accessPoint>>

DeliverService(n) ==
    /\ serviceSeen[n] # service[n]
    /\ serviceSeen' = [serviceSeen EXCEPT ![n] = service[n]]
    /\ UNCHANGED <<vars, service, accessPoint>>

(* Mutant: reconciles start before the Services are listed.                *)
RestartWithoutServices ==
    /\ Restart
    /\ serviceSeen' = <<>>
    /\ accessPoint' = NoAccessPoint
    /\ UNCHANGED service

RestartController ==
    /\ Restart
    /\ serviceSeen' = service
    /\ accessPoint' = NoAccessPoint
    /\ UNCHANGED service

(* The end of the reconcile: the access point is set, whether or not the   *)
(* Service it names is the one that was created.                           *)
SetAccessPoint(k) ==
    /\ accessPoint' = LookedUp(k)
    /\ ReturnLater(k)

(* Mutant: an error that is not NotFound ends the reconcile for good.      *)
GetServiceOrStop(k) ==
    /\ job[k].call = "getService"
    /\ \/ serviceSeen[LookedUp(k)].live /\ SetAccessPoint(k) /\ NoFault
       \/ /\ ~serviceSeen[LookedUp(k)].live
          /\ Proceed(k, "createService") /\ UNCHANGED accessPoint /\ NoFault
       \/ ReturnDone(k) /\ UNCHANGED accessPoint /\ Fault
    /\ UNCHANGED <<server, cache, dirty, edits, foreign, shuffles, restarts,
                   service, serviceSeen>>

(* Mutant: the access point is set only where the Service is created.      *)
GetServiceOnly(k) ==
    /\ job[k].call = "getService"
    /\ UNCHANGED accessPoint
    /\ \/ serviceSeen[LookedUp(k)].live /\ ReturnLater(k) /\ NoFault
       \/ ~serviceSeen[LookedUp(k)].live /\ Proceed(k, "createService") /\ NoFault
       \/ ReturnError(k) /\ Fault
    /\ UNCHANGED <<server, cache, dirty, edits, foreign, shuffles, restarts,
                   service, serviceSeen>>

GetService(k) ==
    /\ job[k].call = "getService"
    /\ \/ serviceSeen[LookedUp(k)].live /\ SetAccessPoint(k) /\ NoFault
       \/ /\ ~serviceSeen[LookedUp(k)].live
          /\ Proceed(k, "createService") /\ UNCHANGED accessPoint /\ NoFault
       \/ ReturnError(k) /\ UNCHANGED accessPoint /\ Fault
    /\ UNCHANGED <<server, cache, dirty, edits, foreign, shuffles, restarts,
                   service, serviceSeen>>

(* Mutant: a Service that exists already is taken for the end of the work. *)
CreateServiceOnce(k) ==
    LET n == NameOf(k)
    IN  /\ job[k].call = "createService"
        /\ \/ /\ ~service[n].live
              /\ service' = [service EXCEPT ![n] = ServiceFor(k, Held(k))]
              /\ \/ SetAccessPoint(k) /\ NoFault
                 \/ ReturnError(k) /\ UNCHANGED accessPoint /\ Fault
           \/ /\ UNCHANGED <<service, accessPoint>>
              /\ IF service[n].live THEN ReturnDone(k) /\ NoFault
                 ELSE ReturnError(k) /\ Fault
        /\ UNCHANGED <<server, cache, dirty, edits, foreign, shuffles, restarts,
                       serviceSeen>>

(* generateSvcForController names the Service as the CR.  Any error is     *)
(* returned.                                                               *)
CreateService(k) ==
    LET n == NameOf(k)
    IN  /\ job[k].call = "createService"
        /\ \/ /\ ~service[n].live
              /\ service' = [service EXCEPT ![n] = ServiceFor(k, Held(k))]
              /\ \/ SetAccessPoint(k) /\ NoFault
                 \/ ReturnError(k) /\ UNCHANGED accessPoint /\ Fault
           \/ /\ UNCHANGED <<service, accessPoint>>
              /\ ReturnError(k)
              /\ IF service[n].live THEN NoFault ELSE Fault
        /\ UNCHANGED <<server, cache, dirty, edits, foreign, shuffles, restarts,
                       serviceSeen>>

-----------------------------------------------------------------------------
CallOfController(k) ==
    \/ CallOfReconcile(k) /\ UNCHANGED services
    \/ GetService(k) \/ CreateService(k)

ControllerNext ==
    \/ RestartController
    \/ Environment /\ UNCHANGED services
    \/ \E k \in Keys :
          \/ GetStore(k) /\ UNCHANGED services
          \/ CallOfController(k)
    \/ \E n \in ServiceNames :
          CollectService(n) \/ ServiceByHand(n) \/ DeliverService(n)

ControllerSpec == ControllerInit /\ [][ControllerNext]_controllerVars

(* As in StatefulSetReconciler.                                            *)
ControllerFairness ==
    /\ \A n \in Names :
          /\ WF_vars(DeliverStatefulSet(n) /\ UNCHANGED services)
          /\ WF_vars(CollectGarbage(n) /\ UNCHANGED services)
          /\ WF_vars(PodStarts(n) /\ UNCHANGED services)
          /\ WF_vars(PodStops(n) /\ UNCHANGED services)
    /\ \A k \in Keys :
          /\ WF_vars(DeliverStore(k) /\ UNCHANGED services)
          /\ WF_vars(DelayEnds(k) /\ UNCHANGED services)
          /\ SF_vars(GetStore(k) /\ UNCHANGED services)
          /\ WF_controllerVars(CallOfController(k))
    /\ \A n \in ServiceNames :
          WF_controllerVars(CollectService(n)) /\ WF_controllerVars(DeliverService(n))

ControllerFairSpec == ControllerSpec /\ ControllerFairness

-----------------------------------------------------------------------------
(* Properties.                                                             *)

(* A Controller ends up with the Service named as itself, owned by the CR  *)
(* or made by hand, although every reconcile after the first one fails to  *)
(* create it again (controller_controller.go, line 168): the retries make  *)
(* good a deletion.  Only a Service under the name that is looked up, made *)
(* by hand or for another Controller, stands in its way.                   *)
ServiceKept ==
    \A k \in Controllers :
        <>[](Wanted(k) /\ ~service[LookedUp(k)].live =>
                /\ service[NameOf(k)].live
                /\ service[NameOf(k)].owner \in
                      {NoOwner, <<k, Current(crLog[k]).uid>>})

(* A Service that nobody made by hand is owned by an incarnation of the    *)
(* Controller of its name, also when another Controller looks it up        *)
(* (controller_controller.go, lines 162 to 168): the garbage collector     *)
(* takes it with its own Controller and with no other.                     *)
ServiceMade(n, owner) ==
    \E k \in Controllers :
        /\ NameOf(k) = n
        /\ \E i \in 1..Len(crLog[k]) :
              crLog[k][i].live /\ owner = <<k, crLog[k][i].uid>>

ServicesMade ==
    \A n \in ServiceNames :
        service[n].live =>
            \/ service[n].owner = NoOwner /\ foreign > 0
            \/ ServiceMade(n, service[n].owner)

(* When some Controller finds the Service it looks up, the access point    *)
(* ends up naming a Service that is there, although a restart empties it,  *)
(* and a Controller that has just created its own Service sets it to a     *)
(* name that nothing has (controller_controller.go, line 181).             *)
Found(k) == Wanted(k) /\ service[LookedUp(k)].live
AccessPointKept ==
    <>[]((\E k \in Controllers : Found(k))
            => \E k \in Controllers : Found(k) /\ accessPoint = LookedUp(k))

(* A key stays in the exponential back-off, instead of coming back every   *)
(* six seconds, for one reason only: it is a Controller that does not find *)
(* the Service it looks up, whose Create then fails for ever               *)
(* (controller_controller.go, line 171).  The errors of the workload and   *)
(* of the status, which are only logged, slow no key down.                 *)
BackOffMeansNoService ==
    \A k \in Keys :
        <>[](Wanted(k) =>
                (k \in failing <=> k \in Controllers /\ ~service[LookedUp(k)].live))

(* The access point names a Service there is: constants.go, line 81, "svc  *)
(* of controller for brokers".                                             *)
AccessPointServed ==
    accessPoint # NoAccessPoint => service[accessPoint].live
=============================================================================
