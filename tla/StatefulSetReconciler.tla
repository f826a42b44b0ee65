----------------------- MODULE StatefulSetReconciler -----------------------
(***************************************************************************)
(* The reconciler of Store custom resources, and the part of the one of    *)
(* Controller custom resources that has the same text.  It keeps one       *)
(* StatefulSet per custom resource (CR), reports its pods in the status of *)
(* the CR, and comes back every RequeueIntervalInSecond.                   *)
(*                                                                         *)
(* The StatefulSet has the name of the CR, and the pods are counted by a   *)
(* label that is this name: a Store and a Controller of one name share     *)
(* both.  Definitions take their names from Store.                         *)
(*                                                                         *)
(* As in DeploymentReconciler, one action is one call that Reconcile makes *)
(* with what it does up to the next call.  The operator writes the CR too, *)
(* so a CR is the log of its versions; of a StatefulSet, which the         *)
(* operator only creates, the current state and the cached one are enough. *)
(***************************************************************************)
EXTENDS ApiServer, StatefulSetObjects

CONSTANTS
    Resyncs,       \* whether the ten-hour resync of the caches comes about
    MaxEdits,      \* bound: writes to CRs by users
    MaxForeign,    \* bound: writes to StatefulSets and pods by others
    MaxShuffles,   \* bound: lists of pods that are not in ordinal order
    MaxFaults,     \* bound: API calls that fail for no fault of the caller
    MaxRestarts,   \* bound: restarts of the operator
    MaxTrouble     \* bound: these four together

ASSUME ResyncsAssumption == Resyncs \in BOOLEAN
ASSUME BoundsAssumption ==
    {MaxEdits, MaxForeign, MaxShuffles, MaxFaults, MaxRestarts, MaxTrouble}
        \subseteq Nat

VARIABLES
    crLog,      \* API server: the versions of each CR
    sts,        \* API server: the StatefulSets
    crSeen,     \* informer cache: the version of the CR it holds
    stsSeen,    \* informer cache: the StatefulSet it holds
    pods,       \* informer cache: the ordinals of the pods of each name
    dirty,      \* work queues: the keys to reconcile
    delayed,    \* work queues: the keys waiting for an interval or a back-off
    failing,    \* work queues: the keys that failed last, and back off
    job,        \* the local variables of the reconcile of a key
    edits, foreign, shuffles, faults, restarts   \* what is used of the bounds

server == <<crLog, sts>>
cache == <<crSeen, stsSeen, pods>>
queue == <<dirty, delayed, failing>>
budget == <<edits, foreign, shuffles, faults, restarts>>
vars == <<server, cache, queue, job, budget>>

-----------------------------------------------------------------------------
(* The reconcile holds the version rv of the CR with a status it changes   *)
(* in memory, and the names of the pods it listed.                         *)
Calls == {"idle", "getStatefulSet", "create", "listPods", "updateSize",
          "updateNodes", "getService", "createService"}
Job == [call: Calls, rv: Nat, size: Nat, nodes: Seq(Nat), podNames: Seq(Nat)]
NoJob == [call |-> "idle", rv |-> 1, size |-> 0, nodes |-> <<>>, podNames |-> <<>>]

(* The copy of the CR that a reconcile holds, but for the status.          *)
Held(k) == crLog[k][job[k].rv]

(* The StatefulSet and the pods of the name of a CR.                       *)
Sts(k) == sts[NameOf(k)]
StsSeen(k) == stsSeen[NameOf(k)]
Pods(k) == pods[NameOf(k)]

TypeOK ==
    /\ crLog \in [Keys -> Seq(Store)]
    /\ sts \in [Names -> StatefulSet] /\ stsSeen \in [Names -> StatefulSet]
    /\ crSeen \in [Keys -> Nat] /\ job \in [Keys -> Job]
    /\ \A k \in Keys : /\ crSeen[k] \in 1..Len(crLog[k])
                       /\ job[k].rv \in 1..Len(crLog[k])
    /\ pods \in [Names -> SUBSET Nat]
    /\ \A n \in Names : IsFiniteSet(pods[n])
    /\ dirty \subseteq Keys /\ delayed \subseteq Keys /\ failing \subseteq Keys
    /\ edits \in Nat /\ foreign \in Nat /\ shuffles \in Nat
    /\ faults \in Nat /\ restarts \in Nat

Init ==
    /\ crLog = [k \in Keys |-> <<NoStore>>]
    /\ sts = [n \in Names |-> NoStatefulSet]
    /\ crSeen = [k \in Keys |-> 1]
    /\ stsSeen = [n \in Names |-> NoStatefulSet]
    /\ pods = [n \in Names |-> {}]
    /\ dirty = {} /\ delayed = {} /\ failing = {}
    /\ job = [k \in Keys |-> NoJob]
    /\ edits = 0 /\ foreign = 0 /\ shuffles = 0 /\ faults = 0 /\ restarts = 0

-----------------------------------------------------------------------------
(* The bounds on what goes wrong.                                          *)

MayTrouble == foreign + shuffles + faults + restarts < MaxTrouble
MayForeign == MayTrouble /\ foreign < MaxForeign
MayShuffle == MayTrouble /\ shuffles < MaxShuffles
MayFault == MayTrouble /\ faults < MaxFaults
MayRestart == MayTrouble /\ restarts < MaxRestarts

-----------------------------------------------------------------------------
(* Users.  They do not write the status, which is a subresource.           *)

UserWrites(k, store) ==
    /\ edits < MaxEdits
    /\ edits' = edits + 1
    /\ crLog' = [crLog EXCEPT ![k] = Commit(@, store)]
    /\ UNCHANGED <<sts, cache, queue, job, foreign, shuffles, faults, restarts>>

CreateStore(k, n, i) ==
    /\ ~Current(crLog[k]).live
    /\ UserWrites(k, [live |-> TRUE, uid |-> Rv(crLog[k]) + 1, replicas |-> n,
                      image |-> i, size |-> 0, nodes |-> <<>>])

EditStore(k, n, i) ==
    LET edited == [Current(crLog[k]) EXCEPT !.replicas = n, !.image = i]
    IN  /\ Current(crLog[k]).live
        /\ edited # Current(crLog[k])
        /\ UserWrites(k, edited)

DeleteStore(k) ==
    /\ Current(crLog[k]).live
    /\ UserWrites(k, NoStore)

-----------------------------------------------------------------------------
(* Other writers of a StatefulSet, and Kubernetes' own controllers.        *)

ForeignWrites(n, statefulSet) ==
    /\ sts[n].live
    /\ statefulSet # sts[n]
    /\ MayForeign
    /\ foreign' = foreign + 1
    /\ sts' = [sts EXCEPT ![n] = statefulSet]
    /\ UNCHANGED <<crLog, cache, queue, job, edits, shuffles, faults, restarts>>

ScaledByHand(n, r) == ForeignWrites(n, [sts[n] EXCEPT !.replicas = r])
DeletedByHand(n) == ForeignWrites(n, NoStatefulSet)

(* Kubernetes' garbage collector deletes an object whose owner is gone.    *)
OwnerLives(owner) ==
    \E k \in Keys : Current(crLog[k]).live /\ owner = <<k, Current(crLog[k]).uid>>

CollectGarbage(n) ==
    /\ sts[n].live
    /\ sts[n].owner # NoOwner
    /\ ~OwnerLives(sts[n].owner)
    /\ sts' = [sts EXCEPT ![n] = NoStatefulSet]
    /\ UNCHANGED <<crLog, cache, queue, job, budget>>

PodsBecome(n, ordinals) ==
    /\ pods' = [pods EXCEPT ![n] = ordinals]
    /\ UNCHANGED <<server, crSeen, stsSeen, queue, job, edits, shuffles,
                   faults, restarts>>

(* The StatefulSet controller starts the pods from the lowest ordinal up   *)
(* and stops them from the highest down.  When the StatefulSet is gone the *)
(* garbage collector takes them in any order.                              *)
PodStarts(n) ==
    \E p \in 0..(sts[n].replicas - 1) :
        /\ sts[n].live
        /\ p \notin pods[n] /\ 0..(p - 1) \subseteq pods[n]
        /\ PodsBecome(n, pods[n] \cup {p})
        /\ UNCHANGED foreign

PodStops(n) ==
    \E p \in pods[n] \ Strangers :
        /\ sts[n].live => /\ p >= sts[n].replicas
                          /\ \A q \in pods[n] \ Strangers : q <= p
        /\ PodsBecome(n, pods[n] \ {p})
        /\ UNCHANGED foreign

(* A Gateway, Timer or Trigger of the name gets a pod.                     *)
StrangerStarts(n) ==
    \E p \in Strangers \ pods[n] :
        /\ MayForeign
        /\ foreign' = foreign + 1
        /\ PodsBecome(n, pods[n] \cup {p})

(* A pod is evicted or deleted, by hand or with its Deployment.            *)
PodLost(n) ==
    \E p \in pods[n] :
        /\ MayForeign
        /\ foreign' = foreign + 1
        /\ PodsBecome(n, pods[n] \ {p})

-----------------------------------------------------------------------------
(* Informers and work queues.                                              *)

(* For(&Store{}): every event of a CR, the operator's own status writes    *)
(* included, queues the key.                                               *)
DeliverStore(k) ==
    /\ crSeen[k] < Rv(crLog[k])
    /\ crSeen' = [crSeen EXCEPT ![k] = @ + 1]
    /\ dirty' = dirty \cup {k}
    /\ UNCHANGED <<server, stsSeen, pods, delayed, failing, job, budget>>

(* No Owns: a StatefulSet event moves the cache and queues nothing.        *)
DeliverStatefulSet(n) ==
    /\ stsSeen[n] # sts[n]
    /\ stsSeen' = [stsSeen EXCEPT ![n] = sts[n]]
    /\ UNCHANGED <<server, crSeen, pods, queue, job, budget>>

(* The loop of six seconds queues a key long before the resync would.      *)
Resync(k) ==
    /\ Resyncs
    /\ crLog[k][crSeen[k]].live
    /\ k \notin dirty
    /\ dirty' = dirty \cup {k}
    /\ UNCHANGED <<server, cache, delayed, failing, job, budget>>

(* The interval of a RequeueAfter or the back-off of an error ends.        *)
DelayEnds(k) ==
    /\ k \in delayed
    /\ delayed' = delayed \ {k}
    /\ dirty' = dirty \cup {k}
    /\ UNCHANGED <<server, cache, failing, job, budget>>

(* Mutant: reconciles start before the caches have listed the cluster.     *)
RestartUnsynced ==
    /\ MayRestart
    /\ restarts' = restarts + 1
    /\ crSeen' = [k \in Keys |-> 0]
    /\ stsSeen' = [n \in Names |-> NoStatefulSet]
    /\ dirty' = {} /\ delayed' = {} /\ failing' = {}
    /\ job' = [k \in Keys |-> NoJob]
    /\ UNCHANGED <<server, pods, edits, foreign, shuffles, faults>>

(* The process dies at any point and starts again: the queue and the jobs  *)
(* are gone, and the caches list the cluster, which queues every CR.       *)
Restart ==
    /\ MayRestart
    /\ restarts' = restarts + 1
    /\ crSeen' = [k \in Keys |-> Rv(crLog[k])]
    /\ stsSeen' = sts
    /\ dirty' = {k \in Keys : Current(crLog[k]).live}
    /\ delayed' = {} /\ failing' = {}
    /\ job' = [k \in Keys |-> NoJob]
    /\ UNCHANGED <<server, pods, edits, foreign, shuffles, faults>>

-----------------------------------------------------------------------------
(* Reconcile.                                                              *)

NoFault == UNCHANGED faults
Fault == MayFault /\ faults' = faults + 1

Return(k) == job' = [job EXCEPT ![k] = NoJob]

(* return reconcile.Result{}, nil: the failures are forgotten.             *)
ReturnDone(k) ==
    Return(k) /\ failing' = failing \ {k} /\ UNCHANGED delayed

(* Mutant: the result asks for no requeue.                                 *)
ReturnNoRequeue(k) ==
    Return(k) /\ failing' = failing \ {k} /\ UNCHANGED delayed

(* Mutant: the result has Requeue but no RequeueAfter.                     *)
ReturnRateLimited(k) ==
    Return(k) /\ delayed' = delayed \cup {k} /\ failing' = failing \cup {k}

(* A result with RequeueAfter queues the key again after the interval, and *)
(* the failures are forgotten.                                             *)
ReturnLater(k) ==
    Return(k) /\ delayed' = delayed \cup {k} /\ failing' = failing \ {k}

(* An error, whatever the result: the key is queued again after a back-off *)
(* that doubles with each failure in a row.                                *)
ReturnError(k) ==
    Return(k) /\ delayed' = delayed \cup {k} /\ failing' = failing \cup {k}

Becomes(k, updated) ==
    /\ job' = [job EXCEPT ![k] = updated]
    /\ UNCHANGED <<delayed, failing>>

Proceed(k, call) == Becomes(k, [job[k] EXCEPT !.call = call])

(* What follows the status: Store returns with RequeueAfter, Controller    *)
(* goes on to its Service.                                                 *)
Finish(k, done) ==
    IF Kind(k) = "Store" THEN ReturnLater(k)
    ELSE Becomes(k, [done EXCEPT !.call = "getService"])

(* One worker per kind takes a key and gets the CR from the cache.         *)
GetStore(k) ==
    LET store == crLog[k][crSeen[k]]
    IN  /\ k \in dirty
        /\ \A j \in Keys : Kind(j) = Kind(k) => job[j].call = "idle"
        /\ dirty' = dirty \ {k}
        /\ \/ /\ store.live
              /\ Becomes(k, [call |-> "getStatefulSet", rv |-> crSeen[k],
                             size |-> store.size, nodes |-> store.nodes,
                             podNames |-> <<>>])
              /\ NoFault
           \/ ~store.live /\ ReturnDone(k) /\ NoFault
           \/ ReturnError(k) /\ Fault
        /\ UNCHANGED <<server, cache, edits, foreign, shuffles, restarts>>

(* An error other than NotFound is only logged.                            *)
GetStatefulSet(k) ==
    /\ job[k].call = "getStatefulSet"
    /\ \/ ~StsSeen(k).live /\ Proceed(k, "create") /\ NoFault
       \/ StsSeen(k).live /\ Proceed(k, "listPods") /\ NoFault
       \/ Proceed(k, "listPods") /\ Fault
    /\ UNCHANGED <<server, cache, dirty, edits, foreign, shuffles, restarts>>

(* Mutant: a StatefulSet that is refused is not worth another try.         *)
CreateStatefulSetOrGiveUp(k) ==
    LET accepted == ~Sts(k).live /\ Held(k).image
    IN  /\ job[k].call = "create"
        /\ \/ /\ accepted
              /\ sts' = [sts EXCEPT ![NameOf(k)] = StatefulSetFor(k, Held(k))]
              /\ Proceed(k, "listPods")
              /\ NoFault
           \/ /\ UNCHANGED sts
              /\ ReturnDone(k)
              /\ IF accepted THEN Fault ELSE NoFault
        /\ UNCHANGED <<crLog, cache, dirty, edits, foreign, shuffles, restarts>>

(* Mutant: a StatefulSet the cache does not have yet is overwritten.       *)
ApplyStatefulSet(k) ==
    /\ job[k].call = "create"
    /\ Proceed(k, "listPods")
    /\ \/ /\ Held(k).image
          /\ sts' = [sts EXCEPT ![NameOf(k)] = StatefulSetFor(k, Held(k))]
          /\ NoFault
       \/ UNCHANGED sts /\ IF Held(k).image THEN Fault ELSE NoFault
    /\ UNCHANGED <<crLog, cache, dirty, edits, foreign, shuffles, restarts>>

(* A StatefulSet without an image is invalid.  Whatever the answer, the    *)
(* error is only logged.                                                   *)
CreateStatefulSet(k) ==
    LET accepted == ~Sts(k).live /\ Held(k).image
    IN  /\ job[k].call = "create"
        /\ Proceed(k, "listPods")
        /\ \/ /\ accepted
              /\ sts' = [sts EXCEPT ![NameOf(k)] = StatefulSetFor(k, Held(k))]
              /\ NoFault
           \/ UNCHANGED sts /\ IF accepted THEN Fault ELSE NoFault
        /\ UNCHANGED <<crLog, cache, dirty, edits, foreign, shuffles, restarts>>

(* Mutant: the nodes are written whether or not they were right.           *)
AfterSizeUnchecked(k, copy) ==
    Becomes(k, [copy EXCEPT !.call = "updateNodes", !.nodes = copy.podNames])

(* Which of the two updates of the status the copy needs.                  *)
AfterSize(k, copy) ==
    IF copy.podNames # copy.nodes
    THEN Becomes(k, [copy EXCEPT !.call = "updateNodes", !.nodes = copy.podNames])
    ELSE Finish(k, copy)

(* Mutant: the size is written whether or not it was right.                *)
AfterListUnchecked(k, copy) ==
    Becomes(k, [copy EXCEPT !.call = "updateSize", !.size = Held(k).replicas])

AfterList(k, copy) ==
    IF Held(k).replicas # copy.size
    THEN Becomes(k, [copy EXCEPT !.call = "updateSize", !.size = Held(k).replicas])
    ELSE AfterSize(k, copy)

InOrdinalOrder(order) ==
    \A i, j \in DOMAIN order : i < j => order[i] < order[j]

(* The pods with the label app of the CR, from the cache, in an order the  *)
(* cache does not promise.                                                 *)
ListPods(k) ==
    /\ job[k].call = "listPods"
    /\ \/ /\ \E order \in Orders(Pods(k)) :
                /\ AfterList(k, [job[k] EXCEPT !.podNames = order])
                /\ IF InOrdinalOrder(order)
                   THEN UNCHANGED shuffles
                   ELSE MayShuffle /\ shuffles' = shuffles + 1
          /\ NoFault
       \/ ReturnError(k) /\ UNCHANGED shuffles /\ Fault
    /\ UNCHANGED <<server, cache, dirty, edits, foreign, restarts>>

(* Mutant: the status is patched, which carries no resourceVersion.        *)
StatusPatched(k) == Current(crLog[k]).live /\ job[k].nodes # <<>>

(* The server takes a status of the newest version, with nodes: the CRD    *)
(* requires the field, and a nil slice is sent as null, which is pruned.   *)
StatusAccepted(k) == UpdateAccepted(crLog[k], job[k].rv) /\ job[k].nodes # <<>>

WithStatus(k) ==
    [Current(crLog[k]) EXCEPT !.size = job[k].size, !.nodes = job[k].nodes]

(* Status().Update: an accepted one gives the copy its new version; any    *)
(* error is logged, and the copy keeps the status it could not write.      *)
Updated(k) == [job[k] EXCEPT !.rv = Rv(crLog[k]) + 1]

UpdateStatus(k, copy) ==
    \/ /\ StatusAccepted(k)
       /\ crLog' = [crLog EXCEPT ![k] = Commit(@, WithStatus(k))]
       /\ \/ copy = Updated(k) /\ NoFault
          \/ copy = job[k] /\ Fault
    \/ /\ UNCHANGED crLog
       /\ copy = job[k]
       /\ IF StatusAccepted(k) THEN Fault ELSE NoFault

(* Mutant: the nodes are looked at only if the size was right.             *)
UpdateSizeAndReturn(k) ==
    /\ job[k].call = "updateSize"
    /\ \E copy \in {job[k], Updated(k)} : UpdateStatus(k, copy) /\ Finish(k, copy)
    /\ UNCHANGED <<sts, cache, dirty, edits, foreign, shuffles, restarts>>

UpdateSize(k) ==
    /\ job[k].call = "updateSize"
    /\ \E copy \in {job[k], Updated(k)} : UpdateStatus(k, copy) /\ AfterSize(k, copy)
    /\ UNCHANGED <<sts, cache, dirty, edits, foreign, shuffles, restarts>>

UpdateNodes(k) ==
    /\ job[k].call = "updateNodes"
    /\ \E copy \in {job[k], Updated(k)} : UpdateStatus(k, copy) /\ Finish(k, copy)
    /\ UNCHANGED <<sts, cache, dirty, edits, foreign, shuffles, restarts>>

-----------------------------------------------------------------------------
CallOfReconcile(k) ==
    \/ GetStatefulSet(k) \/ CreateStatefulSet(k) \/ ListPods(k)
    \/ UpdateSize(k) \/ UpdateNodes(k)

Users(k) ==
    \/ \E n \in Replicas, i \in Images : CreateStore(k, n, i) \/ EditStore(k, n, i)
    \/ DeleteStore(k)

Others(n) ==
    \/ \E r \in Replicas \cup {0} : ScaledByHand(n, r)
    \/ DeletedByHand(n) \/ CollectGarbage(n)
    \/ PodStarts(n) \/ PodStops(n) \/ PodLost(n) \/ StrangerStarts(n)

Queues(k) == DeliverStore(k) \/ Resync(k) \/ DelayEnds(k)

Environment ==
    \/ \E k \in Keys : Users(k) \/ Queues(k)
    \/ \E n \in Names : Others(n) \/ DeliverStatefulSet(n)

Next ==
    \/ Restart
    \/ \E k \in Keys : GetStore(k) \/ CallOfReconcile(k)
    \/ Environment

Spec == Init /\ [][Next]_vars

(* Watches deliver, Kubernetes' controllers work, intervals end, a queued  *)
(* key is taken, and a started reconcile makes its next call.              *)
Fairness ==
    /\ \A n \in Names :
          /\ WF_vars(DeliverStatefulSet(n)) /\ WF_vars(CollectGarbage(n))
          /\ WF_vars(PodStarts(n)) /\ WF_vars(PodStops(n))
    /\ \A k \in Keys :
          /\ WF_vars(DeliverStore(k)) /\ WF_vars(DelayEnds(k))
          /\ SF_vars(GetStore(k)) /\ WF_vars(CallOfReconcile(k))

FairSpec == Spec /\ Fairness

-----------------------------------------------------------------------------
(* Properties.                                                             *)

(* A CR that the cache holds is always queued, waiting or in work: no      *)
(* error path, lost answer or restart ends the loop that Reconcile keeps   *)
(* up by asking for a requeue (store_controller.go, line 141).             *)
NeverForgotten ==
    \A k \in Keys :
        crLog[k][crSeen[k]].live
            => k \in dirty \cup delayed \/ job[k].call # "idle"

(* A status is written only over the spec and the incarnation that the     *)
(* reconcile read: the size that lands in a CR is the number of replicas   *)
(* of that very version, and the nodes never land in a CR that was deleted *)
(* and created again in between (store_controller.go, lines 121 to 139).   *)
StatusOfWhatWasRead ==
    [][\A k \in Keys :
          (UpdateSize(k) \/ UpdateNodes(k)) /\ crLog'[k] # crLog[k] =>
              LET written == Current(crLog'[k])
              IN  /\ written.size = written.replicas
                  /\ written.uid = Held(k).uid]_vars

(* The status is changed in memory, over two calls, and sent with a copy   *)
(* that each answer may renew (store_controller.go, lines 120 to 140).     *)
(* It always is the copy of a version that existed, and only a Controller  *)
(* goes on to its Service.  Before the status, it is the version that was  *)
(* read, which is not newer than the cache; then its size is what its own  *)
(* version asks for; and it is sent only if it differs from that version.  *)
CopyLives(k) ==
    job[k].call # "idle" =>
        /\ Held(k).live
        /\ Kind(k) = "Store" => job[k].call \notin {"getService", "createService"}

CopyIsRead(k) ==
    job[k].call \in {"getStatefulSet", "create", "listPods"} =>
        /\ job[k].rv <= crSeen[k]
        /\ job[k].size = Held(k).size /\ job[k].nodes = Held(k).nodes

SizeOfCopy(k) ==
    job[k].call \in {"updateSize", "updateNodes"}
        => job[k].size = Held(k).replicas

CopyDiffers(k) ==
    /\ job[k].call = "updateSize" =>
          job[k].size # Held(k).size /\ job[k].nodes = Held(k).nodes
    /\ job[k].call = "updateNodes" =>
          job[k].nodes # Held(k).nodes /\ job[k].nodes = job[k].podNames

CopyInv ==
    \A k \in Keys :
        CopyLives(k) /\ CopyIsRead(k) /\ SizeOfCopy(k) /\ CopyDiffers(k)

(* An update of the status has news, another size or other pods.  The one  *)
(* exception is a list whose order is not that of the list before:         *)
(* reflect.DeepEqual compares slices, and the cache promises no order      *)
(* (store_controller.go, line 133).  The event of such a write queues the  *)
(* key at once, for another list, so nothing else may lead to one: the     *)
(* second update must not undo the first, nor repeat what the status of    *)
(* its version has already.                                                *)
PodsNamed(store) == {store.nodes[i] : i \in DOMAIN store.nodes}

RewrittenForOrderOnly ==
    [][\A k \in Keys :
          (UpdateSize(k) \/ UpdateNodes(k)) /\ crLog'[k] # crLog[k] =>
              LET before == Current(crLog[k])
                  written == Current(crLog'[k])
              IN  \/ written.size # before.size
                  \/ PodsNamed(written) # PodsNamed(before)
                  \/ ~InOrdinalOrder(written.nodes)
                  \/ ~InOrdinalOrder(before.nodes)]_vars

(* A StatefulSet is of one piece: it is owned by an incarnation of a CR of *)
(* its name that named an image, and runs the container of the kind of     *)
(* that CR, although a Store and a Controller of one name find each        *)
(* other's (store_controller.go, lines 88 to 97, controller_controller.go, *)
(* lines 107 to 116).                                                      *)
MadeFrom(k, store, statefulSet) ==
    /\ store.live /\ store.image
    /\ statefulSet.owner = <<k, store.uid>>
    /\ statefulSet.container = IF Kind(k) = "Store" THEN "store" ELSE "controller"

Made(n, statefulSet) ==
    \E k \in Keys :
        /\ NameOf(k) = n
        /\ \E i \in 1..Len(crLog[k]) : MadeFrom(k, crLog[k][i], statefulSet)

StatefulSetsMade == \A n \in Names : sts[n].live => Made(n, sts[n])

(* The reconcilers implement the keeper, which has no caches and no copies *)
(* of objects.  The version it goes by is that of the reconcile until the  *)
(* pods are listed, and then that of the cache; what it has listed are the *)
(* podNames still to be written, for the version that the reconcile holds. *)
Read(k) ==
    IF job[k].call \in {"getStatefulSet", "create", "listPods"}
    THEN job[k].rv ELSE crSeen[k]

Listed(k) ==
    IF job[k].call \in {"updateSize", "updateNodes"}
    THEN [version |-> job[k].rv, order |-> job[k].podNames]
    ELSE [version |-> 0, order |-> <<>>]

Keeper ==
    INSTANCE StatefulSetKeeper
    WITH asked <- crLog, read <- [k \in Keys |-> Read(k)],
         listed <- [k \in Keys |-> Listed(k)]

ImplementsKeeper == Keeper!Spec

Wanted(k) == Current(crLog[k]).live

(* Every CR that names an image, from the start or not, ends up with a     *)
(* StatefulSet, its own or that of the other CR of its name, although the  *)
(* error of Create is only logged, nothing watches StatefulSets, and the   *)
(* other CR may take its StatefulSet with it.                              *)
StatefulSetKept ==
    \A k \in Keys :
        <>[](Wanted(k) /\ Current(crLog[k]).image =>
                /\ Sts(k).live
                /\ \E j \in Keys :
                      /\ NameOf(j) = NameOf(k) /\ Wanted(j)
                      /\ Sts(k).owner = <<j, Current(crLog[j]).uid>>)

(* A StatefulSet does not outlive the CRs of its name.                     *)
OrphansCollected ==
    \A n \in Names :
        <>[]((\A k \in Keys : NameOf(k) = n => ~Wanted(k)) => ~sts[n].live)

(* The status ends up with the size asked for and with the pods there are, *)
(* as long as there are any, over conflicts, rejected writes and lost      *)
(* answers.                                                                *)
StatusFollowsPods ==
    \A k \in Keys :
        <>[](Wanted(k) /\ Pods(k) # {} =>
                LET store == Current(crLog[k])
                IN  /\ store.size = store.replicas
                    /\ Pods(k) = PodsNamed(store))

(* The StatefulSet ends up with the replicas of the CR: store_types.go,    *)
(* line 30, "Each node is deployed as a Replica in a StatefulSet".         *)
ReplicasFollow ==
    \A k \in Keys :
        <>[](Wanted(k) => Sts(k).replicas = Current(crLog[k]).replicas)

(* The nodes of the status end up being the pods, none included:           *)
(* store_controller.go, line 132, "Update status.Nodes if needed".         *)
NodesFollowPods ==
    \A k \in Keys :
        <>[](Wanted(k) => Pods(k) = PodsNamed(Current(crLog[k])))
=============================================================================
