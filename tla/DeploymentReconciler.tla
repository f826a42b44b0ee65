------------------------ MODULE DeploymentReconciler ------------------------
(***************************************************************************)
(* The reconcilers of Gateway, Timer and Trigger custom resources.  They   *)
(* have the same text up to the names of the kind; the definitions take    *)
(* their names from Gateway.  Each keeps one Deployment per custom         *)
(* resource (CR), which has the name of the CR: it creates it, and it      *)
(* copies spec.replicas to it.  CRs of two kinds may have one name, and    *)
(* then one Deployment.                                                    *)
(*                                                                         *)
(* They run in one process of the operator, or in several: all at once     *)
(* without leader election, and one after the other, with some overlap,    *)
(* with it.  Each process has its own caches, queues and workers.          *)
(*                                                                         *)
(* One action is one call the Reconcile function makes with what the       *)
(* function does up to the next call; between two calls anything else may  *)
(* happen: users edit, delete and recreate CRs, other clients write the    *)
(* Deployment, the informers deliver, a process dies and starts again.     *)
(***************************************************************************)
EXTENDS DeploymentObjects, ApiServer

CONSTANTS
    LeaderElect,         \* the flag --leader-elect
    ForegroundDeletion,  \* whether users delete CRs in the foreground too
    MaxEdits,            \* bound: writes to CRs by users
    MaxForeign,          \* bound: writes to Deployments by other clients
    MaxFaults,           \* bound: API calls that fail for no fault of the caller
    MaxRestarts,         \* bound: restarts of processes
    MaxLost              \* bound: leases lost by a process that lives

ASSUME FlagsAssumption == {LeaderElect, ForegroundDeletion} \subseteq BOOLEAN
ASSUME BoundsAssumption ==
    {MaxEdits, MaxForeign, MaxFaults, MaxRestarts, MaxLost} \subseteq Nat

VARIABLES
    crLog,       \* API server: the versions of each CR
    depLog,      \* API server: the versions of each Deployment
    leader,      \* API server: the process that holds the lease
    active,      \* the processes whose workers run
    crSeen,      \* informer caches: the version of each CR they hold
    depSeen,     \* informer caches: the version of each Deployment they hold
    dirty,       \* work queues: the jobs to do
    delayed,     \* work queues: the jobs waiting for their back-off to end
    pc,          \* the next call of the reconcile of a job
    crRead,      \* the version of the CR the last reconcile of a job works on
    depRead,     \* the version of the Deployment it last held
    edits, foreign, faults, restarts, lost,   \* what is used of the bounds
    \* History, read by the properties only.
    applied,     \* the CR version behind the job's last write
    dropped      \* jobs whose last scaling failed for an outside reason

server == <<crLog, depLog>>
election == <<leader, active>>
cache == <<crSeen, depSeen>>
queue == <<dirty, delayed>>
job == <<pc, crRead, depRead>>
outside == <<edits, foreign, restarts, lost>>
budget == <<outside, faults>>
history == <<applied, dropped>>
vars == <<server, election, cache, queue, job, budget, history>>

-----------------------------------------------------------------------------
(* The versions of the CR and of the Deployment of a job, and what the     *)
(* caches of its process hold of them.                                     *)
Cr(j) == crLog[KeyOf(j)]
Dep(j) == depLog[NameOf(KeyOf(j))]
DepSeen(j) == depSeen[<<ManagerOf(j), NameOf(KeyOf(j))>>]
CachedGateway(j) == Cr(j)[crSeen[j]]
CachedDeployment(j) == Dep(j)[DepSeen(j)]

LogsOK ==
    /\ crLog \in [Keys -> Seq(Gateway)]
    /\ depLog \in [Names -> Seq(Deployment)]

(* Caches and reconciles hold versions that the API server has.            *)
HeldOK ==
    /\ crSeen \in [Jobs -> Nat] /\ depSeen \in [Managers \X Names -> Nat]
    /\ crRead \in [Jobs -> Nat] /\ depRead \in [Jobs -> Nat]
    /\ \A j \in Jobs : /\ crSeen[j] \in 1..Len(Cr(j))
                       /\ crRead[j] \in 1..Len(Cr(j))
                       /\ depRead[j] \in 1..Len(Dep(j))
    /\ \A m \in Managers, n \in Names : depSeen[<<m, n>>] \in 1..Len(depLog[n])

WorkOK ==
    /\ leader \in Managers /\ active \subseteq Managers
    /\ dirty \subseteq Jobs /\ delayed \subseteq Jobs
    /\ pc \in [Jobs -> {"idle", "getDeployment", "create", "scale"}]
    /\ edits \in Nat /\ foreign \in Nat /\ faults \in Nat /\ restarts \in Nat
    /\ lost \in Nat
    /\ applied \in [Jobs -> Nat] /\ dropped \subseteq Jobs

TypeOK == LogsOK /\ HeldOK /\ WorkOK

(* The processes start on an empty cluster.  Without leader election they  *)
(* all work; with it one of them does.                                     *)
Init ==
    /\ crLog = [k \in Keys |-> <<NoGateway>>]
    /\ depLog = [n \in Names |-> <<NoDeployment>>]
    /\ leader \in Managers
    /\ active = IF LeaderElect THEN {leader} ELSE Managers
    /\ crSeen = [j \in Jobs |-> 1] /\ depSeen = [s \in Managers \X Names |-> 1]
    /\ dirty = {} /\ delayed = {}
    /\ pc = [j \in Jobs |-> "idle"]
    /\ crRead = [j \in Jobs |-> 1] /\ depRead = [j \in Jobs |-> 1]
    /\ edits = 0 /\ foreign = 0 /\ faults = 0 /\ restarts = 0 /\ lost = 0
    /\ applied = [j \in Jobs |-> 0] /\ dropped = {}

-----------------------------------------------------------------------------
(* Users.                                                                  *)

CrWritten(k, gateway) ==
    /\ crLog' = [crLog EXCEPT ![k] = Commit(@, gateway)]
    /\ UNCHANGED <<depLog, election, cache, queue, job, foreign, faults, restarts,
                   lost, history>>

UserWrites(k, gateway) ==
    /\ edits < MaxEdits
    /\ edits' = edits + 1
    /\ CrWritten(k, gateway)

CreateGateway(k, n, i) ==
    /\ ~Current(crLog[k]).live
    /\ UserWrites(k, [live |-> TRUE, deleting |-> FALSE, uid |-> Rv(crLog[k]) + 1,
                      replicas |-> n, image |-> i])

EditGateway(k, n, i) ==
    LET edited == [Current(crLog[k]) EXCEPT !.replicas = n, !.image = i]
    IN  /\ Current(crLog[k]).live
        /\ edited # Current(crLog[k])
        /\ UserWrites(k, edited)

DeleteGateway(k) ==
    /\ Current(crLog[k]).live
    /\ UserWrites(k, NoGateway)

(* kubectl delete --cascade=foreground: the CR gets a DeletionTimestamp,   *)
(* and goes when the garbage collector finds no object that it owns.       *)
DeleteInForeground(k) ==
    /\ ForegroundDeletion
    /\ Current(crLog[k]).live /\ ~Current(crLog[k]).deleting
    /\ UserWrites(k, [Current(crLog[k]) EXCEPT !.deleting = TRUE])

FinishDeletion(k) ==
    /\ Current(crLog[k]).deleting
    /\ Current(depLog[NameOf(k)]).owner # <<k, Current(crLog[k]).uid>>
    /\ CrWritten(k, NoGateway)
    /\ UNCHANGED edits

-----------------------------------------------------------------------------
(* Other writers of a Deployment.                                          *)

DeploymentWritten(n, deployment) ==
    /\ Current(depLog[n]).live
    /\ depLog' = [depLog EXCEPT ![n] = Commit(@, deployment)]
    /\ UNCHANGED <<crLog, election, cache, queue, job, edits, faults, restarts,
                   lost, history>>

ForeignWrites(n, deployment) ==
    /\ foreign < MaxForeign
    /\ foreign' = foreign + 1
    /\ DeploymentWritten(n, deployment)

(* The status, which Kubernetes' own controller writes, is not modelled:   *)
(* what matters is that the write makes a new version.                     *)
DeploymentStatusWritten(n) == ForeignWrites(n, Current(depLog[n]))
DeploymentScaledByHand(n, r) ==
    ForeignWrites(n, [Current(depLog[n]) EXCEPT !.replicas = r])
DeploymentDeletedByHand(n) == ForeignWrites(n, NoDeployment)

(* Kubernetes' garbage collector deletes an object whose owner is gone, or *)
(* going in the foreground.  A CR with the same name and another uid is    *)
(* another owner.                                                          *)
OwnerStays(owner) ==
    \E k \in Keys : /\ Current(crLog[k]).live /\ ~Current(crLog[k]).deleting
                    /\ owner = <<k, Current(crLog[k]).uid>>

CollectGarbage(n) ==
    /\ Current(depLog[n]).owner # NoOwner
    /\ ~OwnerStays(Current(depLog[n]).owner)
    /\ DeploymentWritten(n, NoDeployment)
    /\ UNCHANGED foreign

-----------------------------------------------------------------------------
(* Informers and work queues.                                              *)

(* Mutant: a predicate on the watch lets only creations through.           *)
DeliverCreationsOnly(j) ==
    /\ ManagerOf(j) \in active
    /\ crSeen[j] < Rv(Cr(j))
    /\ crSeen' = [crSeen EXCEPT ![j] = @ + 1]
    /\ dirty' = IF CachedGateway(j).live THEN dirty ELSE dirty \cup {j}
    /\ UNCHANGED <<server, election, depSeen, delayed, job, budget, history>>

(* The controller watches the CRs of its kind, For(&Gateway{}): every      *)
(* event, creation, change or deletion, queues the key.                    *)
DeliverGateway(j) ==
    /\ ManagerOf(j) \in active
    /\ crSeen[j] < Rv(Cr(j))
    /\ crSeen' = [crSeen EXCEPT ![j] = @ + 1]
    /\ dirty' = dirty \cup {j}
    /\ UNCHANGED <<server, election, depSeen, delayed, job, budget, history>>

(* It does not watch Deployments (no Owns): the cache that Get reads is    *)
(* kept up to date, but nothing is queued.                                 *)
DeliverDeployment(m, n) ==
    /\ m \in active
    /\ depSeen[<<m, n>>] < Rv(depLog[n])
    /\ depSeen' = [depSeen EXCEPT ![<<m, n>>] = @ + 1]
    /\ UNCHANGED <<server, election, crSeen, queue, job, budget, history>>

(* The periodic resync queues every CR of the cache again.  Its period is  *)
(* ten hours, and what else is under way is taken to end within it: the    *)
(* watch catches up, and a reconcile, its back-off and a deletion in the   *)
(* foreground are over.                                                    *)
Resync(j) ==
    /\ ManagerOf(j) \in active
    /\ crSeen[j] = Rv(Cr(j))
    /\ Current(Cr(j)).live /\ ~Current(Cr(j)).deleting
    /\ j \notin dirty \cup delayed
    /\ pc[j] = "idle"
    /\ dirty' = dirty \cup {j}
    /\ UNCHANGED <<server, election, cache, delayed, job, budget, history>>

BackoffEnds(j) ==
    /\ j \in delayed
    /\ delayed' = delayed \ {j}
    /\ dirty' = dirty \cup {j}
    /\ UNCHANGED <<server, election, cache, job, budget, history>>

-----------------------------------------------------------------------------
(* The life of a process.                                                  *)

(* The controllers of a process start: its caches list the cluster, and    *)
(* every CR listed is queued.                                              *)
CachesList(m) ==
    /\ crSeen' = [j \in Jobs |-> IF ManagerOf(j) = m THEN Rv(Cr(j)) ELSE crSeen[j]]
    /\ depSeen' = [s \in Managers \X Names |->
                      IF s[1] = m THEN Rv(depLog[s[2]]) ELSE depSeen[s]]

ControllersStart(m) ==
    /\ CachesList(m)
    /\ dirty' = (dirty \ JobsOf(m)) \cup {j \in JobsOf(m) : Current(Cr(j)).live}

(* A process ends: its queues and its jobs are gone.                       *)
ProcessEnds(m) ==
    /\ pc' = [j \in Jobs |-> IF ManagerOf(j) = m THEN "idle" ELSE pc[j]]
    /\ delayed' = delayed \ JobsOf(m)

(* It is started again, and waits for the lease: no controller is started, *)
(* so there are no caches, and nothing is queued.                          *)
WaitsForLease(m) ==
    /\ active' = active \ {m}
    /\ dirty' = dirty \ JobsOf(m)
    /\ UNCHANGED cache

(* Mutant: reconciles start before the caches have listed the cluster.     *)
RestartUnsynced(m) ==
    /\ restarts < MaxRestarts
    /\ restarts' = restarts + 1
    /\ pc' = [j \in Jobs |-> "idle"]
    /\ crSeen' = [j \in Jobs |-> 0]
    /\ depSeen' = [s \in Managers \X Names |-> 0]
    /\ dirty' = {} /\ delayed' = {}
    /\ UNCHANGED <<server, election, crRead, depRead, edits, foreign, faults,
                   lost, history>>

(* Mutant: the caches start from the first event instead of a list.        *)
RestartFromFirstEvent(m) ==
    /\ restarts < MaxRestarts
    /\ restarts' = restarts + 1
    /\ pc' = [j \in Jobs |-> "idle"]
    /\ crSeen' = [j \in Jobs |-> 1]
    /\ depSeen' = [s \in Managers \X Names |-> 1]
    /\ dirty' = {} /\ delayed' = {}
    /\ UNCHANGED <<server, election, crRead, depRead, edits, foreign, faults,
                   lost, history>>

(* A process dies at any point, and is started again.  Without leader      *)
(* election the controllers start at once.                                 *)
Restart(m) ==
    /\ restarts < MaxRestarts
    /\ restarts' = restarts + 1
    /\ ProcessEnds(m)
    /\ IF LeaderElect THEN WaitsForLease(m)
       ELSE ControllersStart(m) /\ UNCHANGED active
    /\ UNCHANGED <<server, leader, crRead, depRead, edits, foreign, faults,
                   lost, history>>

(* Mutant: the new leader waits for events, nothing is queued.             *)
LeadsFromEvents(m) ==
    /\ leader' = m
    /\ active' = active \cup {m}
    /\ CachesList(m)
    /\ UNCHANGED <<server, queue, job, edits, foreign, faults, restarts, history>>

(* Mutant: the process holds the lease, but its controllers do not start.  *)
LeadsWithoutWorkers(m) ==
    /\ leader' = m
    /\ UNCHANGED <<server, active, cache, queue, job, edits, foreign, faults,
                   restarts, history>>

(* A process gets the lease, and its controllers start.                    *)
Leads(m) ==
    /\ leader' = m
    /\ active' = active \cup {m}
    /\ ControllersStart(m)
    /\ UNCHANGED <<server, delayed, job, edits, foreign, faults, restarts, history>>

(* The leader is gone, and its lease runs out.                             *)
AcquireLease(m) ==
    /\ LeaderElect
    /\ leader \notin active /\ m \notin active
    /\ Leads(m)
    /\ UNCHANGED lost

LeaseIsLost ==
    /\ LeaderElect
    /\ leader \in active
    /\ lost < MaxLost
    /\ lost' = lost + 1

(* The leader fails to renew the lease, and another process has it before  *)
(* the leader notices: both work.                                          *)
Takeover(m) ==
    /\ LeaseIsLost
    /\ m \notin active
    /\ Leads(m)

(* mgr.Start returns an error, main exits, and the process is started      *)
(* again.                                                                  *)
Exits(m) ==
    /\ ProcessEnds(m)
    /\ WaitsForLease(m)
    /\ UNCHANGED <<server, leader, crRead, depRead, edits, foreign, faults,
                   restarts, history>>

(* The leader fails to renew the lease, and notices first.                 *)
FailToRenew(m) == LeaseIsLost /\ m = leader /\ Exits(m)

(* A process that is leader no more notices.                               *)
StepDown(m) ==
    /\ LeaderElect
    /\ m \in active /\ m # leader
    /\ Exits(m)
    /\ UNCHANGED lost

-----------------------------------------------------------------------------
(* Reconcile.                                                              *)

NoFault == UNCHANGED faults
Fault == faults < MaxFaults /\ faults' = faults + 1

(* return reconcile.Result{}, nil: the key is not queued again.            *)
ReturnDone(j) ==
    /\ pc' = [pc EXCEPT ![j] = "idle"]
    /\ UNCHANGED delayed

(* Mutant: the error is logged and nil is returned.                        *)
ReturnErrorLogged(j) ==
    /\ pc' = [pc EXCEPT ![j] = "idle"]
    /\ UNCHANGED delayed

(* return ..., err: the key is queued again after a back-off.              *)
ReturnError(j) ==
    /\ pc' = [pc EXCEPT ![j] = "idle"]
    /\ delayed' = delayed \cup {j}

Proceed(j, call) ==
    /\ pc' = [pc EXCEPT ![j] = call]
    /\ UNCHANGED delayed

(* One worker per process and kind (MaxConcurrentReconciles is 1) takes a  *)
(* key and gets the CR from the cache.                                     *)
WorkerIsFree(j) ==
    \A i \in JobsOf(ManagerOf(j)) :
        Kind(KeyOf(i)) = Kind(KeyOf(j)) => pc[i] = "idle"

GetGateway(j) ==
    /\ j \in dirty
    /\ WorkerIsFree(j)
    /\ dirty' = dirty \ {j}
    /\ dropped' = dropped \ {j}
    /\ \/ /\ crRead' = [crRead EXCEPT ![j] = crSeen[j]]
          /\ IF CachedGateway(j).live
             THEN Proceed(j, "getDeployment")
             ELSE ReturnDone(j)
          /\ NoFault
       \/ UNCHANGED crRead /\ ReturnError(j) /\ Fault
    /\ UNCHANGED <<server, election, cache, depRead, outside, applied>>

(* Mutant: an existing Deployment is left alone.                           *)
GetDeploymentOnly(j) ==
    LET found == CachedDeployment(j)
    IN  /\ pc[j] = "getDeployment"
        /\ \/ /\ depRead' = [depRead EXCEPT ![j] = DepSeen(j)]
              /\ \/ ~found.live /\ Proceed(j, "create")
                 \/ found.live /\ ReturnDone(j)
              /\ NoFault
           \/ UNCHANGED depRead /\ ReturnError(j) /\ Fault
        /\ UNCHANGED <<server, election, cache, dirty, crRead, outside, history>>

(* Mutant: a CR gets its Deployment once, and not again when it is gone.   *)
GetDeploymentOnce(j) ==
    LET found == CachedDeployment(j)
        gateway == Cr(j)[crRead[j]]
    IN  /\ pc[j] = "getDeployment"
        /\ \/ /\ depRead' = [depRead EXCEPT ![j] = DepSeen(j)]
              /\ \/ ~found.live /\ applied[j] = 0 /\ Proceed(j, "create")
                 \/ ~found.live /\ applied[j] # 0 /\ ReturnDone(j)
                 \/ /\ found.live /\ found.replicas # gateway.replicas
                    /\ Proceed(j, "scale")
                 \/ /\ found.live /\ found.replicas = gateway.replicas
                    /\ ReturnDone(j)
              /\ NoFault
           \/ UNCHANGED depRead /\ ReturnError(j) /\ Fault
        /\ UNCHANGED <<server, election, cache, dirty, crRead, outside, history>>

(* Get the Deployment from the cache; create it if it is not there, scale  *)
(* it if its replicas are not those of the CR.                             *)
GetDeployment(j) ==
    LET found == CachedDeployment(j)
        gateway == Cr(j)[crRead[j]]
    IN  /\ pc[j] = "getDeployment"
        /\ \/ /\ depRead' = [depRead EXCEPT ![j] = DepSeen(j)]
              /\ \/ ~found.live /\ Proceed(j, "create")
                 \/ /\ found.live /\ found.replicas # gateway.replicas
                    /\ Proceed(j, "scale")
                 \/ /\ found.live /\ found.replicas = gateway.replicas
                    /\ ReturnDone(j)
              /\ NoFault
           \/ UNCHANGED depRead /\ ReturnError(j) /\ Fault
        /\ UNCHANGED <<server, election, cache, dirty, crRead, outside, history>>

(* The server accepted a write of job j.                                   *)
OperatorWrites(j, deployment) ==
    /\ depLog' = [depLog EXCEPT ![NameOf(KeyOf(j))] = Commit(@, deployment)]
    /\ applied' = [applied EXCEPT ![j] = crRead[j]]

(* Create: when it is accepted the reconcile is over.  When it is refused  *)
(* (the cache was behind and the Deployment exists, or the CR names no     *)
(* image and the Deployment is invalid), or the call fails before or after *)
(* the server did it, the error is returned.                               *)
CreateDeployment(j) ==
    LET gateway == Cr(j)[crRead[j]]
        accepted == CreateAccepted(Dep(j)) /\ gateway.image # NoImage
    IN  /\ pc[j] = "create"
        /\ \/ /\ accepted
              /\ OperatorWrites(j, DeploymentFor(KeyOf(j), gateway))
              /\ \/ /\ depRead' = [depRead EXCEPT ![j] = Rv(Dep(j)) + 1]
                    /\ ReturnDone(j) /\ NoFault
                 \/ UNCHANGED depRead /\ ReturnError(j) /\ Fault
           \/ /\ \/ ~accepted /\ NoFault
                 \/ Fault
              /\ ReturnError(j)
              /\ UNCHANGED <<depLog, depRead, applied>>
        /\ UNCHANGED <<crLog, election, cache, dirty, crRead, outside, dropped>>

(* Mutant: the Update sends the object that was built from the CR, which   *)
(* carries no resourceVersion.                                             *)
ScaleByReplacing(j) ==
    LET gateway == Cr(j)[crRead[j]]
    IN  /\ pc[j] = "scale"
        /\ ReturnDone(j)
        /\ \/ /\ Current(Dep(j)).live
              /\ OperatorWrites(j, DeploymentFor(KeyOf(j), gateway))
              /\ depRead' = [depRead EXCEPT ![j] = Rv(Dep(j)) + 1]
           \/ /\ ~Current(Dep(j)).live
              /\ UNCHANGED <<depLog, depRead, applied>>
        /\ NoFault
        /\ UNCHANGED <<crLog, election, cache, dirty, crRead, outside, dropped>>

(* Update of found.Spec.Replicas: whatever the answer, the error is only   *)
(* logged and the reconcile is over.                                       *)
ScaleDeployment(j) ==
    LET found == Dep(j)[depRead[j]]
        gateway == Cr(j)[crRead[j]]
    IN  /\ pc[j] = "scale"
        /\ ReturnDone(j)
        /\ \/ /\ UpdateAccepted(Dep(j), depRead[j])
              /\ OperatorWrites(j, [found EXCEPT !.replicas = gateway.replicas])
              /\ \/ /\ depRead' = [depRead EXCEPT ![j] = Rv(Dep(j)) + 1]
                    /\ UNCHANGED dropped /\ NoFault
                 \/ UNCHANGED depRead /\ dropped' = dropped \cup {j} /\ Fault
           \/ /\ \/ /\ ~UpdateAccepted(Dep(j), depRead[j])
                    /\ UNCHANGED dropped /\ NoFault
                 \/ dropped' = dropped \cup {j} /\ Fault
              /\ UNCHANGED <<depLog, depRead, applied>>
        /\ UNCHANGED <<crLog, election, cache, dirty, crRead, outside>>

-----------------------------------------------------------------------------
Reconcile(j) ==
    GetGateway(j) \/ GetDeployment(j) \/ CreateDeployment(j) \/ ScaleDeployment(j)

(* The three reconcilers.                                                  *)
GatewayReconciler(j) == Kind(KeyOf(j)) = "Gateway" /\ Reconcile(j)
TimerReconciler(j) == Kind(KeyOf(j)) = "Timer" /\ Reconcile(j)
TriggerReconciler(j) == Kind(KeyOf(j)) = "Trigger" /\ Reconcile(j)

Users(k) ==
    \/ \E r \in Replicas, i \in Images :
          CreateGateway(k, r, i) \/ EditGateway(k, r, i)
    \/ DeleteGateway(k) \/ DeleteInForeground(k)

Others(n) ==
    \/ DeploymentStatusWritten(n)
    \/ \E r \in Count : DeploymentScaledByHand(n, r)
    \/ DeploymentDeletedByHand(n)
    \/ CollectGarbage(n)

Queues(j) == DeliverGateway(j) \/ Resync(j) \/ BackoffEnds(j)

Manager(m) ==
    \/ Restart(m)
    \/ AcquireLease(m) \/ Takeover(m) \/ FailToRenew(m) \/ StepDown(m)

Next ==
    \/ \E j \in Jobs :
          \/ GatewayReconciler(j) \/ TimerReconciler(j) \/ TriggerReconciler(j)
          \/ Queues(j)
    \/ \E m \in Managers : Manager(m) \/ \E n \in Names : DeliverDeployment(m, n)
    \/ \E k \in Keys : Users(k) \/ FinishDeletion(k)
    \/ \E n \in Names : Others(n)

Spec == Init /\ [][Next]_vars

(* Watches deliver, the garbage collector collects, back-offs and resync   *)
(* periods end, a started reconcile makes its next call, and the election  *)
(* has a result.  A queue is first in first out, so a queued key is taken  *)
(* although the worker is busy in between.  Users, other clients, faults   *)
(* and restarts owe nothing.                                               *)
Fairness ==
    /\ \A n \in Names : WF_vars(CollectGarbage(n))
    /\ \A k \in Keys : WF_vars(FinishDeletion(k))
    /\ \A m \in Managers :
          /\ WF_vars(AcquireLease(m)) /\ WF_vars(StepDown(m))
          /\ \A n \in Names : WF_vars(DeliverDeployment(m, n))
    /\ \A j \in Jobs :
          /\ WF_vars(DeliverGateway(j))
          /\ WF_vars(BackoffEnds(j)) /\ WF_vars(Resync(j))
          /\ SF_vars(GetGateway(j))
          /\ WF_vars(GetDeployment(j) \/ CreateDeployment(j) \/ ScaleDeployment(j))

FairSpec == Spec /\ Fairness

-----------------------------------------------------------------------------
(* Properties.                                                             *)

(* Nothing is left to do for j: its process works, it is not queued,       *)
(* waiting or in work, and the cache has the newest CR.                    *)
Quiet(j) ==
    /\ ManagerOf(j) \in active
    /\ j \notin dirty \cup delayed
    /\ pc[j] = "idle"
    /\ crSeen[j] = Rv(Cr(j))

(* A CR that is deleting is not wanted any more.                           *)
Wanted(k) == Current(crLog[k]).live /\ ~Current(crLog[k]).deleting

Converged(j) ==
    /\ Current(Dep(j)).live
    /\ Current(Dep(j)).replicas = Current(Cr(j)).replicas

(* The bookkeeping behind the properties below: a CR in the cache of a     *)
(* working process that is neither queued nor waiting is the one the last  *)
(* reconcile read; what a reconcile works on is never newer than the cache *)
(* nor older than what was written before; and a reconcile that ended with *)
(* nothing to retry held a Deployment that suits that CR, unless a newer   *)
(* one exists.                                                             *)
CacheIsRead(j) ==
    /\ ManagerOf(j) \in active
    /\ CachedGateway(j).live
    /\ j \notin dirty \cup delayed
    => crRead[j] = crSeen[j]

ReadsInOrder(j) == applied[j] <= crRead[j] /\ crRead[j] <= crSeen[j]

JobHasObjects(j) ==
    /\ pc[j] # "idle" => Cr(j)[crRead[j]].live
    /\ pc[j] = "scale" =>
          /\ Dep(j)[depRead[j]].live
          /\ Dep(j)[depRead[j]].replicas # Cr(j)[crRead[j]].replicas

LastReadSuits(j) ==
    /\ ManagerOf(j) \in active
    /\ pc[j] = "idle"
    /\ j \notin dirty \cup delayed \cup dropped
    /\ crRead[j] = crSeen[j]
    /\ Cr(j)[crRead[j]].live
    => \/ depRead[j] # Rv(Dep(j))
       \/ /\ Current(Dep(j)).live
          /\ Current(Dep(j)).replicas = Cr(j)[crRead[j]].replicas

JobInv(j) ==
    CacheIsRead(j) /\ ReadsInOrder(j) /\ JobHasObjects(j) /\ LastReadSuits(j)

WorkInv == \A j \in Jobs : JobInv(j)

(* A CR the operator has stopped working on has the Deployment it asks     *)
(* for, unless the last reconcile did not hold the Deployment's newest     *)
(* version or its scaling was lost to a fault.  These are the only ways in *)
(* which Reconcile, which returns without requeue (gateway_controller.go,  *)
(* lines 100 and 120), may leave a CR unserved; a wake-up lost by the      *)
(* error paths, or by a change of leader, would be another.                *)
QuietMeansSettled ==
    \A j \in Jobs :
        Quiet(j) /\ Wanted(KeyOf(j)) =>
            \/ Converged(j)
            \/ depRead[j] # Rv(Dep(j))
            \/ j \in dropped

(* The same with no exception, as README.md line 51 has it: the reconcile  *)
(* synchronizes "until the desired state is reached on the cluster".       *)
QuietMeansConverged ==
    \A j \in Jobs : Quiet(j) /\ Wanted(KeyOf(j)) => Converged(j)

(* A Deployment is of one piece: it is owned by an incarnation of a CR of  *)
(* its name, and runs the container of that CR's kind with the image that  *)
(* this incarnation named in the very version it was made from, whoever    *)
(* has made it, scaled it or lost a race for it (gateway_controller.go,    *)
(* lines 94, 108 and 131 to 174).  So the garbage collector finds it when  *)
(* that incarnation is gone.                                               *)
MadeFrom(k, gateway, deployment) ==
    /\ gateway.live /\ gateway.image # NoImage
    /\ deployment.owner = <<k, gateway.uid>>
    /\ deployment.image = gateway.image
    /\ deployment.container = Kind(k)

Made(n, deployment) ==
    \E k \in Keys :
        /\ NameOf(k) = n
        /\ \E i \in 1..Len(crLog[k]) : MadeFrom(k, crLog[k][i], deployment)

DeploymentsMade ==
    \A n \in Names :
        Current(depLog[n]).live => Made(n, Current(depLog[n]))

(* A process never goes back: what it writes to a Deployment stems from a  *)
(* version of the CR at least as new as its previous write did, over       *)
(* back-offs, races with other writers, restarts and changes of leader.    *)
ScaleMonotone ==
    [][\A j \in Jobs : applied'[j] >= applied[j]]_vars

(* The reconcilers implement a follower that reads the Deployment and      *)
(* writes it in one step: their caches and the time between Get and Update *)
(* lose no write of anybody, whatever the processes do to each other.      *)
Follower ==
    INSTANCE DeploymentFollower
    WITH asked <- crLog, deployment <- [n \in Names |-> Current(depLog[n])]
ImplementsFollower == Follower!Spec

(* The Deployment has the replicas of a CR of its name: if two kinds have  *)
(* CRs of one name that differ, each overwrites what the other one asks.   *)
Served(k) ==
    /\ Current(depLog[NameOf(k)]).live
    /\ \E k2 \in Keys :
          /\ NameOf(k2) = NameOf(k) /\ Wanted(k2)
          /\ Current(depLog[NameOf(k)]).replicas = Current(crLog[k2]).replicas

(* When users, other writers, faults and restarts come to an end, every CR *)
(* that names an image gets and keeps its Deployment with its replicas:    *)
(* the resync repairs what a quiet reconcile left behind, what the garbage *)
(* collector took because another CR of the name, which owned the          *)
(* Deployment, is gone, and what a deposed leader did on its way out.      *)
EventualConvergence ==
    \A k \in Keys :
        <>[](Wanted(k) /\ Current(crLog[k]).image # NoImage => Served(k))

(* The pods of a CR end up with the image it names: gateway_types.go, line *)
(* 37, "Image is the name of the controller docker image to use for the    *)
(* Pods".                                                                  *)
ImageRolledOut ==
    \A k \in Keys :
        <>[](Wanted(k) => Current(depLog[NameOf(k)]).image = Current(crLog[k]).image)

(* A Deployment does not outlive the CRs of its name, although a reconcile *)
(* with an old copy may create it after the deletion, or once more while   *)
(* the CR is deleting: the owner reference that SetControllerReference     *)
(* sets lets the garbage collector find it.                                *)
OrphansCollected ==
    \A n \in Names :
        <>[]((\A k \in Keys : NameOf(k) = n => ~Wanted(k))
                => ~Current(depLog[n]).live)
=============================================================================
