# vanus-operator: TLA+ models

The operator of this repository keeps a Vanus cluster on Kubernetes: for every
custom resource (CR) of five kinds it creates one workload and keeps part of it
in line with the CR. This directory holds TLA+ models of its reconcilers, the
TLC runs that check them, and proofs of what matters most for any number of CRs.
`PROJECT.json` lists the runs, the source lines each definition stands for, and
the hazards of the code.

## 1. Inventory

### Components

| Component | State it keeps | Operations |
|---|---|---|
| **Gateway, Timer, Trigger reconcilers** (`controllers/{gateway,timer,trigger}_controller.go`) | none between two calls of `Reconcile`, only the copies of CR and Deployment inside one | `Reconcile`: Get CR, Get Deployment, Create it, or Update its replicas |
| **Store reconciler** (`controllers/store_controller.go`) | copies of CR, StatefulSet and pod list within one call | `Reconcile`: Get CR, Get StatefulSet, Create it, List pods, two `Status().Update`, return with `RequeueAfter` 6 s |
| **Controller reconciler** (`controllers/controller_controller.go`) | the same, and `ControllerAccessPoint`, a variable of the process | the same, then Get Service, Create it, set the access point |
| **Manager** (`main.go`) | informer caches, one work queue and one worker per kind, back-offs | deliver watch events, resync, take a key, queue it again; start, die and start again; optional leader election |
| **API types and CRDs** (`api/v1`, `config/crd/bases`) | the schema | defaulting and validation in the API server; `status.nodes` is required |
| **Constants and helpers** (`internal`) | `ControllerAccessPoint` | `BuildSvcResourceName`; the rest is not called by a reconciler |
| Generated deep copies, manifests, test suite | none | none that decides anything |

The five reconcilers share a process and an API server and call nothing of one
another. They interact through objects only: CRs that users write, workloads that
the operator, users and Kubernetes' controllers write, the status of the Store and
Controller CRs, and the label `app: <name>`, by which Store and Controller count
their pods and which the pods of all five kinds have. A workload is named after its
CR alone, so CRs of two kinds that have one name have one Deployment, or one
StatefulSet.

`Get` and `List` of the manager's client read the *cache* of an informer, not
the API server; writes go to the server, and an Update is refused when the
resourceVersion it carries is not the newest. Most of the hard behaviours come from
this gap:

- *Stale reads.* A reconcile may work on a CR, a Deployment or a pod list that
  are old, and old by different amounts.
- *Interleaving.* Between two calls, users edit, delete and recreate the CR,
  others write the workload, and the garbage collector removes it.
- *Wake-ups.* No reconciler calls `Owns`: only events of the CR, an error, a
  `RequeueAfter` or the resync (ten hours, the default) wake it up. A path that
  returns nil too early leaves the CR unserved.
- *Errors only logged.* The Update of the replicas, the Create of the
  StatefulSet and both status updates log their error and go on.
- *Lost answers.* A write may be done although the call fails.
- *Crashes.* A restart loses the queue, the running reconcile and the access point.
- *Several processes.* Each has its own caches and queues. The leader election of
  `main.go` (a flag) lets one work at a time, but for the while in which a
  deposed leader has not noticed.
- *Shared names.* Two kinds share a Deployment, a Store and a Controller a
  StatefulSet, and all Controllers of a process one access point.

### What makes a component correct

- Deployment reconcilers: a CR nobody works on has its Deployment; a process
  never replaces what came from a newer CR by what an older one asks for; no
  write of anybody is lost; no Deployment outlives its CR; in the end every CR
  has its Deployment.
- Store and Controller: the requeue loop never ends while there is a CR; the
  status is never computed from one version of the CR and written to another, and is
  not rewritten without need; the StatefulSet is there in the end, is the CR's own,
  and the status names the pods with its label.
- Controller: its Service is there in the end, and the access point names it; it
  comes back every six seconds.

## 2. Modules

| Module | Models |
|---|---|
| `ApiServer` | optimistic concurrency over an object's sequence of versions |
| `ApiServerProofs` | what a write does to the versions, for the proofs |
| `DeploymentObjects` | CRs, Deployments, processes and jobs: what the next two modules share |
| `DeploymentFollower` | the abstract specification: what Gateway, Timer and Trigger promise |
| `DeploymentReconciler` | Gateway, Timer and Trigger, which are the same text up to the kind's name, in one process or several |
| `DeploymentReconcilerProofs` | theorems about it, the refinement among them |
| `StatefulSetObjects` | CRs, StatefulSets and the orders of pods: what the next two modules share |
| `StatefulSetKeeper` | the abstract specification: what Store and Controller promise to do to the objects |
| `StatefulSetReconciler` | Store, and the text Controller shares with it, side by side |
| `StatefulSetReconcilerProofs` | theorems about it |
| `StatefulSetKeeperProofs` | the proof that it implements the keeper |
| `ControllerReconciler` | Controller: the former, extended by Services and the access point |
| `ControllerReconcilerProofs` | theorems about it |
| `MCDeploymentReconciler`, `MCStatefulSetReconciler`, `MCControllerReconciler` | the constants for TLC |

**One action is one call.** A reconcile that has made its call goes straight to
the next one or to the return, so an action is a call with all that follows it
up to the next call: the comparison of the replicas, for instance, is part of
`GetDeployment`. The variable `pc` (`job.call` in `StatefulSetReconciler`) names
the call to come. `Fault` is a call that fails for an outside reason; for a write
there are two cases, before and after the server did it.

**Kinds and names.** A CR is a key, a pair of its kind and its name; a workload
has a name only. Each key has a cache, a place in a queue and a reconcile of its
own, each kind has a worker, and keys of different kinds that share a name read
and write the same Deployment, or the same StatefulSet and pods.
`GatewayReconciler`, `TimerReconciler` and `TriggerReconciler` take the steps of
`Reconcile` for the keys of their kind, and names in that module are those of
Gateway. `StatefulSetReconciler` takes its names from Store; `Finish` is where a
Controller goes on to its Service. A Service name is looked up through
`BuildSvcResourceName`, a constant function: with a Controller `x` and one named
`vanus-x`, the first finds the Service that the second creates.

**Processes.** In `DeploymentReconciler` a *job* is a process and a key.
`Restart` is a process that dies and is started again. Without leader election
its controllers start at once; with it, it waits for the lease, with no caches
and nothing queued, and `AcquireLease` starts them when the leader is gone. A
leader that lives fails to renew its lease in one of two orders: it notices
first and exits (`FailToRenew`), or another process has the lease before it
notices (`Takeover`), and both work until it does (`StepDown`).

**Objects and caches.** In `DeploymentReconciler` a CR and a Deployment are the
sequence of all their versions; the resourceVersion is the position in it, a
deletion appends a version that is not `live`, and a cache or a copy in a
reconcile is a position. So a cache may be behind by any number of versions and
never goes back. In `StatefulSetReconciler` only the CR is a sequence: the operator never
updates a StatefulSet, so its current state and the state in the cache say all
that the code can tell apart, at the price that a lagging cache jumps to the
newest state instead of passing through the ones in between. The same goes for
Services. `pods` is what the cache lists; the pods themselves are not modelled.
The uid of a CR is the resourceVersion that created it; an owner reference is a
key and a uid.

**Queues.** `dirty` is what a worker may take, `delayed` what waits for an
interval or a back-off. There is no clock, but the queue of `StatefulSetReconciler`
also keeps, in `failing`, what controller-runtime counts: an error makes a key
back off ever longer, and a return without one, with `RequeueAfter` or not,
forgets the failures. The six-second loop keeps the key of a CR queued, waiting or
in work at any time (`NeverForgotten`), so the ten-hour resync brings nothing
there that does not come anyway; `Resyncs` leaves it out of the larger runs.

**Deletion.** Background deletion is one step, and the garbage collector follows.
With `ForegroundDeletion` a user may also give a CR of the Deployment kinds a
DeletionTimestamp (`deleting`): the CR stays in the cache and is reconciled as
before, while the collector deletes the Deployment it owns, and goes when it owns
none (`FinishDeletion`).

**Abstractions.** `image` stands for all that the CR puts into the pod template of a
Deployment: the reconcilers treat its fields alike (copied at creation, never looked
at again). `container` stands for what is fixed for a kind, the name of the
container and the config map it mounts. A CR may lack an image (`NoImage`), and then
every Create is refused. In a StatefulSet all this goes for `replicas`, and `image`
only tells whether there is one. A pod is its ordinal, and `Strangers` are pods of a
Gateway, Timer or Trigger Deployment that has the name of the StatefulSet, and so
its label: they come and go at any time (`StrangerStarts`, `PodLost`), and the
StatefulSet controller leaves them alone. That controller stops pods from the
highest down as long as there is a StatefulSet; later the garbage collector takes
them in any order (`PodStops`). An empty sequence of nodes is a nil slice: a nil
slice is sent as `null`, which the CRD's required field `nodes` refuses
(`StatusAccepted`). `spec.replicas` is a pointer in Gateway, Timer and Trigger, but
the CRDs default it to 1, so it is never nil in the cache. An access point is the
name of a Service, without the port.

### The abstract specifications

`DeploymentFollower` has no caches, queues, calls or resourceVersions. A follower
looks at one version of the CR, never an older one than before, and in *one step*
makes the Deployment, if there is none and the CR names an image (`Make`), or
changes the replicas of the one that is there, if they are not the ones asked for,
and nothing else of it (`Scale`). Users and other writers change what they like.
`DeploymentReconciler` implements it, the versions of the CR being the asked
ones and the newest version of each Deployment the abstract one. What this says
is that the time between Get and Update, the caches and a second process cost
nobody a write, and that the operator makes no write that changes nothing: an
Update that sent the object built from the CR, instead of the one it found, would
break it (the mutant `ScaleByReplacing`).

`StatefulSetKeeper` says the same kind of thing of Store and Controller. A keeper
goes by one version of its CR, never an older one than before; makes the StatefulSet
only where there is none, and never touches one that is there; lists the pods at one
moment (`ListPods`); and reports, on the version it went by at that moment, the size
that version asks for and the pods that it listed (`Report`). A report always
changes the CR, because the code compares before each of its two updates. This
matters, since each accepted update is an event of the CR and queues its key at
once, without waiting for the interval. What it changes may be the order of the pods
only: the code compares slices, and lists have no order. `RewrittenForOrderOnly`
says that this is the one thing that has it rewrite a status with nothing new in it;
`MaxShuffles` bounds the lists out of order in the runs. In the mapping the version
a keeper goes by (`Read`) is that of the reconcile until the pods are listed and
that of the cache otherwise, and its list (`Listed`) is `podNames` while there is a
status to write. The two updates of one reconcile are two reports from one list: an
accepted one hands the list on to the version it makes. Losing track (a return, an
error, a restart) is `Forget`.

### Runs

The bounds let each hazard happen: three edits are enough for users to create,
delete and create again, or to create, change and delete; two replica counts for an
edit to differ; one foreign write for a conflict; one fault for a lost answer; one
restart; one lost lease. Keys of one kind share nothing but the worker and, for
Controllers, the Services and the access point, which is why one CR of a kind is
enough in most runs; two of them meet where they share a name or a Service. The
theorems of section 3 hold for any keys and bounds. The operator has no final
state, but a quiet cluster is a legal one, and runs stop when the
bounds are used up: deadlock is not checked.

| Run | Checks | Bounds |
|---|---|---|
| `DeploymentSafety` | `TypeOK`, `WorkInv`, `QuietMeansSettled`, `ScaleMonotone`, `ImplementsFollower` | 1 Timer, 3 edits, 2 replica counts, 1 foreign write, 1 fault, 1 restart |
| `DeploymentLiveness` | `EventualConvergence`, `OrphansCollected` under `FairSpec` | 1 Trigger, with an image or without one, 2 edits, foreground deletion, else the same |
| `SharedName` | the same, `ImplementsFollower` and `DeploymentsMade` | 1 Gateway and 1 Trigger of one name, 3 edits (so that one of them may be deleted, or created again), 1 foreign write |
| `TwoManagers` | `QuietMeansSettled`, `EventualConvergence`, `OrphansCollected` | 1 Trigger, 2 processes with leader election, 2 edits, 2 replica counts, the lease lost once |
| `Store` | `TypeOK`, `NeverForgotten`, `CopyInv`, `StatusOfWhatWasRead`, `RewrittenForOrderOnly`, `ImplementsKeeper`, `StatusFollowsPods`, `StatefulSetKept` | 1 Store, with an image or without one, 2 edits, up to 2 pods and a stranger, with resyncs, one of: a write by others (StatefulSet, pod or stranger), a list of pods out of order, a fault, a restart |
| `Controller` | `ControllerTypeOK`, `NeverForgotten`, `ServicesMade`, `StatusOfWhatWasRead`, `ImplementsKeeper`, `ServiceKept`, `BackOffMeansNoService` | 1 Controller, 3 edits (so that it may be created again), 1 pod, one of: a write by others (StatefulSet, pod or Service), a fault, a restart |
| `SharedWorkload` | `StatefulSetsMade`, `ServicesMade`, `StatefulSetKept`, `OrphansCollected`, `AccessPointKept` | a Store `x`, a Controller `x` and a Controller `vanus-x` without pods, 3 edits, 1 restart |

`StatusFollowsPods` is checked for a Store, whose text Controller shares. In
`StatusOfWhatWasRead`, `Store` reaches the edit of the replicas between Get and
status update, `Controller` the later incarnation. `MaxTrouble` bounds what goes
wrong together: one thing in these runs, on top of the edits; the safety properties
have proofs without that bound.

What the passing runs show:

- `QuietMeansSettled`: a CR that is neither queued nor in work has its
  Deployment and replicas, except when the last reconcile did not hold the
  newest Deployment or a fault made its Update fail. There is no third way to be
  left behind: no error path and no change of leader loses the wake-up.
- `ScaleMonotone`: `applied`, the CR version behind the last write of a job, never
  decreases, over stale caches, retries and a restart. It speaks of one process:
  two of them may well apply versions in the opposite order, which
  `EventualConvergence` in `TwoManagers` shows to be temporary.
- `ImplementsFollower`, `ImplementsKeeper`: see above.
- `DeploymentsMade`, `StatefulSetsMade`: a workload is of one piece. It is owned by
  an incarnation of a CR of its name, and runs the image that incarnation named (a
  StatefulSet: one that named an image) and the container of its kind, also where
  two kinds share the name, others scale it, and the CR is deleted and created again
  between Get and Create. This is the safety half of `OrphansCollected`: every
  workload has an owner by which the garbage collector finds it. `ServicesMade` says
  the same of Services, which a Controller looks up under another name than it makes
  them under; one made by hand has no owner.
- `CopyInv`: the inductive invariant of the copy of the CR that a Store or
  Controller reconcile changes in memory: whatever was read, accepted, refused or
  lost before, it is a copy of a version that existed and was live; its size is
  what that version asks for; and it is sent only if it differs from that version.
- `EventualConvergence`: with the resync, the two exceptions are temporary. When
  two kinds share a name, it promises the replicas of one of them: two CRs that ask
  for different replicas overwrite one another at each resync, for ever. That fight
  makes ever new versions, so that TLC cannot enumerate it; in `SharedName` both ask
  for the same. There the run shows that the second CR gets its Deployment back
  after the first one, its owner, is deleted. A CR without an image is promised
  nothing; one that gets its image later is served.
- `OrphansCollected`: no Deployment outlives the CRs of its name, although a
  reconcile with an old copy may create it after a deletion, or once more while
  the CR is deleting in the foreground.
- `NeverForgotten`: every path through the Store and Controller reconcilers ends
  in a requeue.
- `StatusOfWhatWasRead`: the resourceVersion makes sure that a size computed from an
  old spec is never written over a new one, nor nodes into a later incarnation,
  even though the second status update is sent with the copy the first one has
  changed, whether it was accepted or not.
- `RewrittenForOrderOnly`: an accepted update of the status has another size or other
  pods than the newest version, or one of the two lists is out of order. So the second
  update never undoes the first, nor repeats what is there, although it is sent with
  a copy that was compared before.
- `StatusFollowsPods`, `ServiceKept`: the loop makes good every logged error, a
  conflict with the user, a list in another order, a lost answer and a crash. The
  status names the pods with the label `app`, a stranger's among them, which is what
  the code selects. `ServiceKept` makes an exception for a Service under the name
  that is looked up, made by hand or for another Controller: the reconciler finds
  that one and never creates its own.
- `BackOffMeansNoService`: a key stays in the exponential back-off, instead of
  coming back every six seconds, if and only if it is a Controller that does not
  find the Service it looks up. This is the normal state of a Controller (see
  `AccessPoint` below), and nothing else leads to it.
- `StatefulSetKept`: when the CR that owns a shared StatefulSet is deleted and
  takes it along, the CR of the other kind gets one of its own; and a CR that
  lacked its image gets its StatefulSet once it names one.
- `AccessPointKept`: if Controllers find Services, the access point ends up naming
  one of these, although a restart empties it and another Controller may set it,
  on creating its own Service, to a name that no Service has. It says nothing of a
  Controller that is alone: this one never finds a Service under the name it looks up
  (see `AccessPoint` below), and after a restart, when Create fails with AlreadyExists
  on every reconcile, the access point stays empty.

### Disagreements with the documentation

Five runs check a sentence of the documentation and find it violated.

| Run | Sentence | What happens |
|---|---|---|
| `DeploymentStaleRead` | `README.md:51`, reconcile synchronizes "untile the desired state is reached" | CR deleted and created again; the cached Get still returns the old Deployment, which the garbage collector then removes; nothing wakes the reconciler until the resync (an Update refused with a conflict, which is logged and given up, has the same result) |
| `DeploymentImage` | `gateway_types.go:37`, the image used for the Pods | a changed image never reaches the Deployment |
| `StoreReplicas` | `store_types.go:30`, "Each node is deployed as a Replica" | changed replicas never reach the StatefulSet, while `status.size` reports them |
| `StoreNodes` | `store_controller.go:132`, "Update status.Nodes if needed" | when the last pod is gone, `nodes` is null, the schema refuses it, and the status keeps naming a pod that is gone |
| `AccessPoint` | `constants.go:81`, "svc of controller for brokers" | the Service is looked up as `vanus-<name>` and created as `<name>`: the access point names one that does not exist |

The last one has a companion in `example/vanus_v1_vanus_cluster.yaml`: it makes
a Service `vanus-controller` by hand, next to the Controller of that name. The
lookup asks for `vanus-vanus-controller`, Create fails with AlreadyExists on
every reconcile, and the access point is never set. `ServiceByHand` covers this
case in `ControllerReconciler`, which is why `ServiceKept` accepts a
Service nobody owns.

### Fairness

`Fairness` in each module says: watches deliver; the garbage collector does its
work, on workloads, Services and CRs that are deleting; the StatefulSet controller
starts and stops pods; back-offs and intervals end; a reconcile
that has started makes its next call; a free lease is acquired and a deposed
leader notices (all weak). The queue of controller-runtime is first in
first out and a kind has one worker, so a queued key is taken although the
worker is busy again and again: strong fairness of `GetGateway` and `GetStore`.
The resync of the Deployment reconcilers is fair too; `Resync` is enabled only
when the cache of the CR has caught up and nothing is queued, waiting or in work
for it, which says that these take less than ten hours.
`StatefulSetReconciler` owes nothing to the resync: its loop lives on
`RequeueAfter`. Users, other clients, faults, lost leases and restarts are never
fair.

One assumption is behind every cache: the list and the watch of an informer come
from one API server, so that a restart does not list an older state than the
process saw before.

## 3. Proofs

No theorem bounds anything: they hold for any kinds and names, shared or not, any
number of processes, edits, faults and restarts.

### Deployments

`DeploymentReconcilerProofs` proves, for any processes, with leader election or
without, any set of CRs of the three kinds, whatever names they share, any replica
counts, images and bounds:

- `TypeCorrect`: `Spec => []TypeOK`. No cache and no reconcile holds a version
  that the API server does not have.
- `WorkInvariant`: `Spec => []WorkInv`, the inductive invariant (with `TypeOK`).
- `QuietIsSettled`: `Spec => []QuietMeansSettled`.
- `NeverGoesBack`: `Spec => ScaleMonotone`.
- `OfOnePiece`: `Spec => []DeploymentsMade`.
- `Implementation`: `Spec => ImplementsFollower`, the refinement.

`QuietMeansSettled` alone is not inductive: it speaks of a quiet CR, and whether
the step that makes it quiet is right depends on what the reconcile read before.
`WorkInv` says for each job: a CR in the cache of a working process that is
neither queued nor waiting is the one the last reconcile read (`CacheIsRead`);
what is applied is not newer than what is read, and this not newer than the cache
(`ReadsInOrder`); a reconcile in work holds the objects its next call uses, and is
about to scale only what differs (`JobHasObjects`); and one that ended left a
Deployment that suits the CR it read, unless a newer one exists or a fault dropped
the scaling (`LastReadSuits`). There is one lemma per group of actions and one per
call of `Reconcile`. The jobs a step is not about are dealt with once: nothing
of theirs changes (`SameJobInv`) but the Deployment of their name, and a write of
that makes the version they hold an old one (`GrownJobInv`).

`DeploymentsMade` needs `WorkInv` for one thing: the version a reconcile makes a
Deployment from is live (`JobHasObjects`). Otherwise it is about who writes what: a
version that something was made from never goes away (`MadeStays`), and whoever
writes a Deployment that exists changes only its replicas (`MadeScaled`).

The refinement has a lemma for each way a step maps: a user's write to `UserAsks`
(`CrWritesMap`), a write by others to `OthersWrite` (`OthersMap`), an accepted
write of a reconcile to `Make` or `Scale` (`ReconcileMaps`), and all else to a
stutter (`UntouchedStutters`). An accepted Update is one whose copy is the newest
version, which is why the two-step read and write of the code is one step of the
follower; `WorkInv` gives the rest: the copy was live and had other replicas, and
the version applied is not older than the one before.

### Store and Controller

`StatefulSetReconcilerProofs` proves for any Stores and Controllers and any bounds:

- `StoreTypeCorrect`: `Spec => []TypeOK`.
- `LoopNeverEnds`: `Spec => []NeverForgotten`. With `TypeOK` it is inductive: the
  cache moves only with the key being queued (`OutsideSteps`), and every call is
  followed by another one or by the key coming back later (`CallGoesOn`).
- `CopyInvariant`: `Spec => []CopyInv`, inductive with `TypeOK`.
- `StatusLandsRight`: `Spec => StatusOfWhatWasRead`.
- `OnlyNewsOrOrder`: `Spec => RewrittenForOrderOnly`.
- `StatefulSetsOfOnePiece`: `Spec => []StatefulSetsMade`.

`StatusOfWhatWasRead` speaks of one step, the accepted write; that the right thing
is sent was decided up to two calls before, and the copy has changed since: by
the assignments in memory, and by the answer to the first update, which replaces
the resourceVersion if it arrives and does not if it is lost. `CopyInv` is what is
true in between. Its proof has a lemma for what happens elsewhere (`CopyKept`:
versions are never rewritten, `VersionsKept`, and the cache never turns back), one
for the comparisons between the calls (`CopyAfterList`), and one for what an
accepted update writes (`StatusOfCopy`: the copy's own version, which is the newest
one, with another status). `CallKeepsCopy` puts them together, call by call.
`OnlyNewsOrOrder` adds to the last of these that the pods in ordinal order make one
list: there are `i` pods up to the one at place `i` (`PodsUpTo`, by a bijection), so
two lists of the same pods name the same one at each place (`SamePlaces`) and are equal
(`OneOrdinalOrder`). If the pods named are those of the newest version, and both lists
are in order, `CopyDiffers` leaves only a size that differs (`UpdateIsNews`).
`StatefulSetsMade` follows from `CopyInv` as `DeploymentsMade` does from `WorkInv`.

`StatefulSetKeeperProofs` proves `KeeperImplementation`, `Spec => ImplementsKeeper`,
from `TypeOK` and `CopyInv`. Each call of a reconcile has a lemma that names the
step of the keeper: `CreateMaps`, `ListMaps`, `UpdatesMap`. A step after which one
key's keeper holds the same, or a newer version, or no list any more, is `Quiet` for
that key, and one that is quiet for all keys is a `Forget` of the keeper
(`QuietMaps`); restarts, deliveries and returns are such steps. That the update of the
status is one report, and one that changes the CR, is what the last two parts of
`CopyInv` are for (`SizeOfCopy`, `CopyDiffers`).

`ControllerReconcilerProofs` carries all of this over to `ControllerSpec`, for any
Service names (`ControllerTypeCorrect`, `ControllerLoopNeverEnds`,
`ControllerCopyInvariant`, `ControllerStatusLandsRight`,
`ControllerKeeperImplementation`, `ControllerStatefulSetsOfOnePiece`,
`ControllerOnlyNewsOrOrder`): it cites the lemmas of the shared steps and adds one
about the calls that deal with the Service (`ServiceCalls`), which come when the
status has been dealt with. `ServicesOwned`, `ControllerSpec => []ServicesMade`,
uses `CopyLives`: the copy that a Service is made from is that of a live Controller,
and a Store never gets that far.

From which assumptions: those on the constants, which TLC evaluates on every run:
`KeysAssumption` (a CR is a kind and a name), `ReplicasAssumption`,
`ImagesAssumption`, `FlagsAssumption` (the flags of the operator and what users may
do are Booleans), `ResyncsAssumption`, `BoundsAssumption` (the bounds are natural
numbers), `StrangersAssumption` (no ordinal is the number of a stranger) and
`ServiceNamesAssumption` (no CR's Service is looked up under the CR's own name).

### What is left to TLC

Only model-checked: every liveness property (fairness is out of the prover's
reach), that is `EventualConvergence`, `OrphansCollected`, `StatefulSetKept`,
`StatusFollowsPods`, `ServiceKept`, `AccessPointKept` and `BackOffMeansNoService`.
Every invariant and every action property of a passing run, and both refinements,
have a theorem.

## 4. Not modelled

- Generated deep copies, manifests, scheme registration, health probes and metrics:
  no decisions. `NewK8sClient` and most constants are used by no reconciler.
- The contents of the pod template: copied once, see *Abstractions*.
- The length of intervals: no clock. That a failing key backs off ever longer is
  visible only as its being in `failing`.
- Stores and Controllers deleted in the foreground (the Deployment kinds are). While
  such a CR is deleting, its StatefulSet is collected and made again at each
  interval, the pods come and go, and each time the status makes new versions,
  without bound: TLC cannot enumerate this. And for a Controller the collector
  has to find the StatefulSet and the Service gone at the same moment: whether
  it ever does is a matter of speed, not of fairness.
- Several processes for Store and Controller. What could go wrong between two of
  them, a status computed from an old version, is refused by the resourceVersion
  just as with a user's write in between (`StatusOfWhatWasRead`).
- Two processes without leader election are not a run, but the theorems cover
  them.

## 5. Plan

Done: `ApiServer`, `DeploymentReconciler`, `StatefulSetReconciler` and
`ControllerReconciler` with proofs; the abstract follower and the proof that it is
implemented; the abstract keeper of Store and Controller, with its proof, and where
workloads and Services come from; several processes and leader election; kinds that share names; two
Controllers and the access point, over a restart; missing images; foreground
deletion for the Deployment kinds.

Left, in this order:

1. Foreground deletion for Store and Controller, with the pods and the speed of the
   garbage collector abstracted so far that it can be checked.
2. A second process for Store and Controller, each with an access point of its own.
