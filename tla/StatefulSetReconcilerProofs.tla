--------------------- MODULE StatefulSetReconcilerProofs ---------------------
(***************************************************************************)
(* What StatefulSetReconciler guarantees for every set of CRs and every    *)
(* bound: the types, that the requeue loop of a CR never ends, that a      *)
(* status only lands on what it was computed from and is rewritten for     *)
(* news or for the order of the pods only, and what StatefulSets are made  *)
(* from.                                                                   *)
(***************************************************************************)
EXTENDS StatefulSetReconciler, ApiServerProofs, FiniteSetTheorems, SequenceTheorems

(* The records of the model have their types.                              *)
LEMMA RecordTypes ==
    /\ NoStore \in Store /\ NoStatefulSet \in StatefulSet /\ NoJob \in Job
    /\ \A k \in Keys, s \in Store : StatefulSetFor(k, s) \in StatefulSet
    /\ \A s \in Store : s.live \in BOOLEAN /\ s.replicas \in Nat /\ s.uid \in Nat
                        /\ s.size \in Nat /\ s.nodes \in Seq(Nat)
  <1>1. <<>> \in Seq(Nat)
    OBVIOUS
  <1>2. NoStore \in Store /\ NoJob \in Job
    BY <1>1 DEF NoStore, NoJob, Store, Job, Calls
  <1>3. NoStatefulSet \in StatefulSet
    BY DEF NoStatefulSet, StatefulSet, Owner, Container
  <1>4. \A s \in Store : s.live \in BOOLEAN /\ s.replicas \in Nat /\ s.uid \in Nat
                        /\ s.size \in Nat /\ s.nodes \in Seq(Nat)
    BY DEF Store
  <1>5. \A k \in Keys, s \in Store : StatefulSetFor(k, s) \in StatefulSet
    BY <1>4 DEF StatefulSet, StatefulSetFor, StatefulSetForStore,
                StatefulSetForController, Owner, Container
  <1> QED
    BY <1>2, <1>3, <1>4, <1>5

(* The name of a CR is one of the names.                                   *)
LEMMA NameOfKey == \A k \in Keys : NameOf(k) \in Names
  BY KeysAssumption DEF NameOf

-----------------------------------------------------------------------------
(* Types.                                                                  *)

(* The empty cluster, empty caches and an empty queue have their types.    *)
LEMMA InitType == Init => TypeOK
  <1> SUFFICES ASSUME Init PROVE TypeOK
    OBVIOUS
  <1> DEFINE One(v) == <<v>>
  <1>1. ASSUME NEW S, NEW v \in S PROVE One(v) \in Seq(S) /\ Len(One(v)) = 1
    OBVIOUS
  <1>2. One(NoStore) \in Seq(Store) /\ Len(One(NoStore)) = 1
    BY <1>1, RecordTypes
  <1>3. IsFiniteSet({})
    BY FS_EmptySet
  <1>4. NoJob.rv = 1
    BY DEF NoJob
  <1> QED
    BY <1>2, <1>3, <1>4, RecordTypes DEF Init, TypeOK

(* Every log has a newest version, and a cache or a copy is one of its     *)
(* versions.                                                               *)
LEMMA CurrentTypes ==
    ASSUME TypeOK, NEW k \in Keys
    PROVE  /\ Len(crLog[k]) \in Nat \ {0}
           /\ Current(crLog[k]) \in Store
           /\ \A i \in 1..Len(crLog[k]) : crLog[k][i] \in Store
           /\ crLog[k][crSeen[k]] \in Store
           /\ Held(k) \in Store
  <1>1. crLog[k] \in Seq(Store)
    BY DEF TypeOK
  <1>2. crSeen[k] \in 1..Len(crLog[k]) /\ job[k].rv \in 1..Len(crLog[k])
    BY DEF TypeOK
  <1> QED
    BY <1>1, <1>2 DEF Current, Held

(* A write of a CR extends its versions and leaves the other CRs alone.    *)
LEMMA CrExtends ==
    ASSUME TypeOK, NEW k \in Keys, NEW store \in Store,
           crLog' = [crLog EXCEPT ![k] = Commit(@, store)]
    PROVE  Extends(Keys, crLog, crLog', k, store, Store)
  <1>1. crLog \in [Keys -> Seq(Store)]
    BY DEF TypeOK
  <1> QED
    BY <1>1, CommitExtends

(* What users do keeps the types.                                          *)
LEMMA UsersType ==
    ASSUME TypeOK, NEW k \in Keys, NEW store \in Store, UserWrites(k, store)
    PROVE  TypeOK'
  <1>1. Extends(Keys, crLog, crLog', k, store, Store)
    BY CrExtends DEF UserWrites
  <1> QED
    BY <1>1 DEF TypeOK, Extends, UserWrites, cache, queue

(* Whatever a user does is the write of a version of a CR.                 *)
LEMMA UsersWrite ==
    ASSUME TypeOK, NEW k \in Keys, Users(k)
    PROVE  \E store \in Store : UserWrites(k, store)
  <1>0. Current(crLog[k]) \in Store /\ Len(crLog[k]) \in Nat
    BY CurrentTypes
  <1>1. ASSUME NEW n \in Replicas, NEW i \in Images, CreateStore(k, n, i)
        PROVE  \E store \in Store : UserWrites(k, store)
    <2>0. /\ n \in Nat /\ i \in BOOLEAN /\ <<>> \in Seq(Nat)
          /\ Rv(crLog[k]) + 1 \in Nat
      BY <1>0, ReplicasAssumption, ImagesAssumption DEF Rv
    <2>1. [live |-> TRUE, uid |-> Rv(crLog[k]) + 1, replicas |-> n,
           image |-> i, size |-> 0, nodes |-> <<>>] \in Store
      BY <2>0 DEF Store
    <2> QED
      BY <1>1, <2>1 DEF CreateStore
  <1>2. ASSUME NEW n \in Replicas, NEW i \in Images, EditStore(k, n, i)
        PROVE  \E store \in Store : UserWrites(k, store)
    <2>1. [Current(crLog[k]) EXCEPT !.replicas = n, !.image = i] \in Store
      BY <1>0, ReplicasAssumption, ImagesAssumption DEF Store
    <2> QED
      BY <1>2, <2>1 DEF EditStore
  <1>3. CASE DeleteStore(k)
    BY <1>3, RecordTypes DEF DeleteStore
  <1> QED
    BY <1>1, <1>2, <1>3 DEF Users

(* What other clients and Kubernetes' controllers do leaves the CRs, their *)
(* keys and their jobs alone and keeps the types; pods come and go one at  *)
(* a time.                                                                 *)
LEMMA OthersType ==
    ASSUME TypeOK, NEW n \in Names, Others(n)
    PROVE  TypeOK' /\ UNCHANGED <<crLog, crSeen, dirty, delayed, job>>
  <1> DEFINE Fine == TypeOK' /\ UNCHANGED <<crLog, crSeen, dirty, delayed, job>>
  <1> SUFFICES Fine
    OBVIOUS
  <1> HIDE DEF Fine
  <1>1. ASSUME NEW s \in StatefulSet, ForeignWrites(n, s) PROVE Fine
    BY <1>1 DEF Fine, ForeignWrites, TypeOK, cache, queue
  <1>2. ASSUME NEW r \in Replicas \cup {0}, ScaledByHand(n, r) PROVE Fine
    <2>1. sts[n] \in StatefulSet /\ r \in Nat
      BY ReplicasAssumption DEF TypeOK
    <2>2. [sts[n] EXCEPT !.replicas = r] \in StatefulSet
      BY <2>1 DEF StatefulSet
    <2> QED
      BY <1>1, <1>2, <2>2 DEF ScaledByHand
  <1>3. CASE DeletedByHand(n)
    BY <1>1, <1>3, RecordTypes DEF DeletedByHand
  <1>4. CASE CollectGarbage(n)
    BY <1>4, RecordTypes DEF Fine, CollectGarbage, TypeOK, cache, queue, budget
  <1>5. ASSUME NEW S \in SUBSET Nat, IsFiniteSet(S), PodsBecome(n, S),
               foreign' \in Nat
        PROVE  Fine
    BY <1>5 DEF Fine, PodsBecome, TypeOK, server, queue
  <1>6. pods[n] \in SUBSET Nat /\ IsFiniteSet(pods[n]) /\ foreign \in Nat
    BY DEF TypeOK
  <1>7. ASSUME NEW p \in Nat, PodsBecome(n, pods[n] \cup {p}), foreign' \in Nat
        PROVE  Fine
    BY <1>5, <1>6, <1>7, FS_AddElement
  <1>8. ASSUME NEW p \in pods[n], PodsBecome(n, pods[n] \ {p}), foreign' \in Nat
        PROVE  Fine
    BY <1>5, <1>6, <1>8, FS_RemoveElement
  <1>9. CASE PodStarts(n)
    <2>1. PICK p \in 0..(sts[n].replicas - 1) :
             PodsBecome(n, pods[n] \cup {p}) /\ UNCHANGED foreign
      BY <1>9 DEF PodStarts
    <2>2. p \in Nat /\ foreign' \in Nat
      BY <1>6, <2>1 DEF TypeOK, StatefulSet
    <2> QED
      BY <1>7, <2>1, <2>2
  <1>10. CASE PodStops(n)
    BY <1>6, <1>8, <1>10 DEF PodStops
  <1>11. CASE PodLost(n)
    <2>1. PICK p \in pods[n] : PodsBecome(n, pods[n] \ {p}) /\ foreign' = foreign + 1
      BY <1>11 DEF PodLost
    <2>2. foreign' \in Nat
      BY <1>6, <2>1
    <2> QED
      BY <1>8, <2>1, <2>2
  <1>12. CASE StrangerStarts(n)
    <2>1. PICK p \in Strangers : PodsBecome(n, pods[n] \cup {p}) /\ foreign' = foreign + 1
      BY <1>12 DEF StrangerStarts
    <2>2. p \in Nat /\ foreign' \in Nat
      BY <1>6, <2>1, StrangersAssumption
    <2> QED
      BY <1>7, <2>1, <2>2
  <1> QED
    BY <1>2, <1>3, <1>4, <1>9, <1>10, <1>11, <1>12 DEF Others

(* So do users, deliveries, the resync and the ends of delays.             *)
LEMMA EnvironmentType == ASSUME TypeOK, Environment PROVE TypeOK'
  <1>1. ASSUME NEW k \in Keys, Users(k) PROVE TypeOK'
    BY <1>1, UsersWrite, UsersType
  <1>2. ASSUME NEW k \in Keys, DeliverStore(k) PROVE TypeOK'
    BY <1>2, CurrentTypes DEF DeliverStore, TypeOK, Rv, server, budget
  <1>3. ASSUME NEW k \in Keys, Resync(k) PROVE TypeOK'
    BY <1>3 DEF Resync, TypeOK, server, cache, budget
  <1>4. ASSUME NEW k \in Keys, DelayEnds(k) PROVE TypeOK'
    BY <1>4 DEF DelayEnds, TypeOK, server, cache, budget
  <1>5. ASSUME NEW n \in Names, DeliverStatefulSet(n) PROVE TypeOK'
    BY <1>5 DEF DeliverStatefulSet, TypeOK, server, queue, budget
  <1> QED
    BY <1>1, <1>2, <1>3, <1>4, <1>5, OthersType DEF Environment, Queues

(* So does a restart: the caches list what the API server has.             *)
LEMMA RestartType == ASSUME TypeOK, Restart PROVE TypeOK'
  <1>1. \A k \in Keys : Rv(crLog[k]) \in 1..Len(crLog[k]) /\ 1 \in 1..Len(crLog[k])
    BY CurrentTypes DEF Rv
  <1>2. NoJob.rv = 1 /\ NoJob \in Job
    BY RecordTypes DEF NoJob
  <1> QED
    BY <1>1, <1>2 DEF Restart, TypeOK, server

-----------------------------------------------------------------------------
(* One step of the reconcile of k leaves the copy in a type-correct state. *)

(* A copy of a version the API server has, after the log of k has grown or *)
(* stayed as it is.                                                        *)
GoodCopy(k, copy) == copy \in Job /\ copy.rv \in 1..Len(crLog'[k])

(* What a call of a reconcile does to its job and to the delays.           *)
JobStep(k) ==
    /\ \E copy : GoodCopy(k, copy) /\ job' = [job EXCEPT ![k] = copy]
    /\ UNCHANGED delayed \/ delayed' = delayed \cup {k}
    /\ failing' \subseteq failing \cup {k}

(* The types after a call that leaves the server alone.                    *)
LEMMA JobStepType ==
    ASSUME TypeOK, NEW k \in Keys, JobStep(k),
           \A j \in Keys : /\ Len(crLog'[j]) \in Nat
                            /\ Len(crLog[j]) <= Len(crLog'[j]),
           crLog' \in [Keys -> Seq(Store)], sts' \in [Names -> StatefulSet],
           UNCHANGED <<crSeen, stsSeen, pods>>, dirty' \subseteq dirty,
           edits' \in Nat, foreign' \in Nat, shuffles' \in Nat,
           faults' \in Nat, restarts' \in Nat
    PROVE  TypeOK'
  <1>1. PICK copy : GoodCopy(k, copy) /\ job' = [job EXCEPT ![k] = copy]
    BY DEF JobStep
  <1>2. job' \in [Keys -> Job] /\ dirty' \subseteq Keys /\ delayed' \subseteq Keys
        /\ failing' \subseteq Keys
    BY <1>1 DEF TypeOK, GoodCopy, JobStep
  <1>3. ASSUME NEW j \in Keys
        PROVE  crSeen'[j] \in 1..Len(crLog'[j]) /\ job'[j].rv \in 1..Len(crLog'[j])
    <2>1. Len(crLog[j]) \in Nat
      BY CurrentTypes
    <2>2. crSeen[j] \in 1..Len(crLog[j]) /\ job[j].rv \in 1..Len(crLog[j])
      BY DEF TypeOK
    <2>3. job'[j] = IF j = k THEN copy ELSE job[j]
      BY <1>1 DEF TypeOK
    <2> QED
      BY <1>1, <2>1, <2>2, <2>3 DEF GoodCopy
  <1> QED
    BY <1>2, <1>3 DEF TypeOK

(* The results a reconcile may have.                                       *)
Returns(k) == ReturnLater(k) \/ ReturnError(k) \/ ReturnDone(k)

(* The ends of a call, with the copy it goes on with.                      *)
LEMMA EndsOfCall ==
    ASSUME TypeOK, NEW k \in Keys, Len(crLog'[k]) \in Nat \ {0}
    PROVE  /\ Returns(k) => JobStep(k)
           /\ \A copy : GoodCopy(k, copy) =>
                 /\ Becomes(k, copy) => JobStep(k)
                 /\ Finish(k, copy) => JobStep(k)
                 /\ \A call \in Calls : GoodCopy(k, [copy EXCEPT !.call = call])
  <1>1. GoodCopy(k, NoJob)
    BY RecordTypes DEF GoodCopy, NoJob
  <1>2. Returns(k) => JobStep(k)
    BY <1>1 DEF Returns, ReturnLater, ReturnError, ReturnDone, Return, JobStep
  <1>3. ASSUME NEW copy, GoodCopy(k, copy)
        PROVE  /\ Becomes(k, copy) => JobStep(k)
               /\ \A call \in Calls : GoodCopy(k, [copy EXCEPT !.call = call])
    <2>1. Becomes(k, copy) => JobStep(k)
      BY <1>3 DEF Becomes, JobStep
    <2>2. \A call \in Calls : GoodCopy(k, [copy EXCEPT !.call = call])
      BY <1>3 DEF GoodCopy, Job
    <2> QED
      BY <2>1, <2>2
  <1>4. ASSUME NEW copy, GoodCopy(k, copy), Finish(k, copy) PROVE JobStep(k)
    <2>1. "getService" \in Calls
      BY DEF Calls
    <2>2. CASE Kind(k) = "Store"
      BY <1>2, <1>4, <2>2 DEF Finish, Returns
    <2>3. CASE Kind(k) # "Store"
      <3> DEFINE next == [copy EXCEPT !.call = "getService"]
      <3>1. GoodCopy(k, next) /\ Becomes(k, next)
        BY <1>3, <1>4, <2>1, <2>3 DEF Finish
      <3> HIDE DEF next
      <3> QED
        BY <1>3, <3>1
    <2> QED
      BY <2>2, <2>3
  <1> QED
    BY <1>2, <1>3, <1>4

(* The comparisons between the calls hand on a copy that is one.           *)
LEMMA AfterListEnds ==
    ASSUME TypeOK, NEW k \in Keys, Len(crLog'[k]) \in Nat \ {0},
           NEW copy, GoodCopy(k, copy)
    PROVE  AfterSize(k, copy) \/ AfterList(k, copy) => JobStep(k)
  <1>1. ASSUME NEW c, GoodCopy(k, c), AfterSize(k, c) PROVE JobStep(k)
    <2>1. CASE c.podNames # c.nodes
      <3>1. GoodCopy(k, [c EXCEPT !.call = "updateNodes", !.nodes = c.podNames])
        BY <1>1 DEF GoodCopy, Job, Calls
      <3> QED
        BY <1>1, <2>1, <3>1, EndsOfCall DEF AfterSize
    <2>2. CASE c.podNames = c.nodes
      BY <1>1, <2>2, EndsOfCall DEF AfterSize
    <2> QED
      BY <2>1, <2>2
  <1>2. ASSUME AfterList(k, copy) PROVE JobStep(k)
    <2>1. CASE Held(k).replicas # copy.size
      <3>1. Held(k).replicas \in Nat
        BY CurrentTypes, RecordTypes
      <3>2. GoodCopy(k, [copy EXCEPT !.call = "updateSize", !.size = Held(k).replicas])
        BY <3>1 DEF GoodCopy, Job, Calls
      <3> QED
        BY <1>2, <2>1, <3>2, EndsOfCall DEF AfterList
    <2>2. CASE Held(k).replicas = copy.size
      BY <1>1, <1>2, <2>2 DEF AfterList
    <2> QED
      BY <2>1, <2>2
  <1> QED
    BY <1>1, <1>2

(* The order in which the pods are listed is a sequence of ordinals.       *)
LEMMA OrdersType ==
    ASSUME TypeOK, NEW k \in Keys, NEW order \in Orders(Pods(k))
    PROVE  order \in Seq(Nat)
  <1>1. Pods(k) \in SUBSET Nat /\ IsFiniteSet(Pods(k))
    BY NameOfKey DEF TypeOK, Pods
  <1>2. Cardinality(Pods(k)) \in Nat
    BY <1>1, FS_CardinalityType
  <1>3. order \in [1..Cardinality(Pods(k)) -> Nat]
    BY <1>1 DEF Orders
  <1> QED
    BY <1>2, <1>3, SeqDef

(* An update of the status commits a version whose status is the copy's    *)
(* and whose spec is untouched, or leaves the CR alone.                    *)
LEMMA StatusWrite ==
    ASSUME TypeOK, NEW k \in Keys, NEW copy \in {job[k], Updated(k)},
           UpdateStatus(k, copy)
    PROVE  /\ \/ UNCHANGED crLog /\ copy = job[k]
              \/ /\ Extends(Keys, crLog, crLog', k, WithStatus(k), Store)
                 /\ StatusAccepted(k)
           /\ GoodCopy(k, copy)
           /\ Len(crLog'[k]) \in Nat \ {0}
           /\ faults' \in Nat
  <1>1. job[k] \in Job /\ job[k].rv \in 1..Len(crLog[k]) /\ faults \in Nat
    BY DEF TypeOK
  <1>2. Len(crLog[k]) \in Nat \ {0} /\ Current(crLog[k]) \in Store
    BY CurrentTypes
  <1>3. faults' \in Nat
    BY <1>1 DEF UpdateStatus, Fault, NoFault
  <1>4. CASE UNCHANGED crLog /\ copy = job[k]
    BY <1>1, <1>2, <1>3, <1>4 DEF GoodCopy
  <1>5. CASE /\ StatusAccepted(k)
             /\ crLog' = [crLog EXCEPT ![k] = Commit(@, WithStatus(k))]
    <2>1. WithStatus(k) \in Store
      BY <1>1, <1>2 DEF WithStatus, Store, Job
    <2>2. Extends(Keys, crLog, crLog', k, WithStatus(k), Store)
      BY <1>5, <2>1, CrExtends
    <2>3. Len(crLog'[k]) = Len(crLog[k]) + 1
      BY <2>2 DEF Extends
    <2>4. GoodCopy(k, job[k]) /\ GoodCopy(k, Updated(k))
      <3>1. Len(crLog[k]) + 1 \in Nat /\ Updated(k) = [job[k] EXCEPT !.rv = Len(crLog[k]) + 1]
        BY <1>2 DEF Updated, Rv
      <3>2. Updated(k) \in Job /\ Updated(k).rv = Len(crLog[k]) + 1
        BY <1>1, <3>1 DEF Job
      <3> QED
        BY <1>1, <1>2, <2>3, <3>2 DEF GoodCopy
    <2> QED
      BY <1>2, <1>3, <1>5, <2>2, <2>3, <2>4
  <1> QED
    BY <1>4, <1>5 DEF UpdateStatus

(* The calls of a reconcile keep the types: it works on a version it got   *)
(* from the cache or from the answer to its own write.                     *)
LEMMA GetStoreType ==
    ASSUME TypeOK, NEW k \in Keys, GetStore(k)
    PROVE  TypeOK' /\ JobStep(k)
  <1> DEFINE store == crLog[k][crSeen[k]]
             copy == [call |-> "getStatefulSet", rv |-> crSeen[k],
                      size |-> store.size, nodes |-> store.nodes,
                      podNames |-> <<>>]
  <1>1. /\ UNCHANGED <<crLog, sts, crSeen, stsSeen, pods>>
        /\ UNCHANGED <<edits, foreign, shuffles, restarts>>
        /\ dirty' \subseteq dirty
        /\ UNCHANGED faults \/ faults' = faults + 1
        /\ Becomes(k, copy) \/ Returns(k)
    BY DEF GetStore, server, cache, Fault, NoFault, Returns
  <1>2. \A j \in Keys : Len(crLog[j]) \in Nat \ {0}
    BY CurrentTypes
  <1>3. store \in Store /\ crSeen[k] \in 1..Len(crLog[k])
    BY CurrentTypes DEF TypeOK
  <1>4. copy \in Job /\ copy.rv = crSeen[k]
    <2>1. <<>> \in Seq(Nat) /\ store.size \in Nat /\ store.nodes \in Seq(Nat)
      BY <1>3, RecordTypes
    <2>2. crSeen[k] \in Nat
      BY DEF TypeOK
    <2> HIDE DEF store
    <2> QED
      BY <2>1, <2>2 DEF Job, Calls
  <1> HIDE DEF copy
  <1>5. GoodCopy(k, copy)
    BY <1>1, <1>3, <1>4 DEF GoodCopy
  <1>6. JobStep(k)
    BY <1>1, <1>2, <1>5, EndsOfCall
  <1>7. /\ crLog' \in [Keys -> Seq(Store)] /\ sts' \in [Names -> StatefulSet]
        /\ edits' \in Nat /\ foreign' \in Nat /\ shuffles' \in Nat
        /\ faults' \in Nat /\ restarts' \in Nat
        /\ \A j \in Keys : Len(crLog'[j]) \in Nat /\ Len(crLog[j]) <= Len(crLog'[j])
    BY <1>1, <1>2 DEF TypeOK
  <1> QED
    BY <1>1, <1>6, <1>7, JobStepType

(* The calls after it do, too.                                             *)
LEMMA CallOfReconcileType ==
    ASSUME TypeOK, NEW k \in Keys, CallOfReconcile(k)
    PROVE  TypeOK' /\ JobStep(k)
  <1>1. /\ \A j \in Keys : Len(crLog[j]) \in Nat \ {0}
        /\ Held(k) \in Store
    BY CurrentTypes
  <1>2. job[k] \in Job /\ job[k].rv \in 1..Len(crLog[k])
    BY DEF TypeOK
  <1>3. \A call \in Calls : UNCHANGED crLog /\ Proceed(k, call) => JobStep(k)
    BY <1>1, <1>2, EndsOfCall DEF Proceed, GoodCopy
  <1>4. ASSUME UNCHANGED <<crLog, crSeen, stsSeen, pods>>, JobStep(k),
               sts' \in [Names -> StatefulSet], dirty' \subseteq dirty,
               UNCHANGED <<edits, foreign, restarts>>,
               shuffles' \in Nat, faults' \in Nat
        PROVE  TypeOK' /\ JobStep(k)
    <2>1. /\ crLog' \in [Keys -> Seq(Store)]
          /\ edits' \in Nat /\ foreign' \in Nat /\ restarts' \in Nat
          /\ \A j \in Keys : /\ Len(crLog'[j]) \in Nat
                              /\ Len(crLog[j]) <= Len(crLog'[j])
      BY <1>1, <1>4 DEF TypeOK
    <2> QED
      BY <1>4, <2>1, JobStepType
  <1>5. shuffles \in Nat /\ faults \in Nat /\ sts \in [Names -> StatefulSet]
    BY DEF TypeOK
  <1>6. CASE GetStatefulSet(k)
    <2>1. /\ Proceed(k, "create") \/ Proceed(k, "listPods")
          /\ UNCHANGED faults \/ faults' = faults + 1
          /\ UNCHANGED <<crLog, sts, crSeen, stsSeen, pods, dirty>>
          /\ UNCHANGED <<edits, foreign, shuffles, restarts>>
      BY <1>6 DEF GetStatefulSet, Fault, NoFault, server, cache
    <2> QED
      BY <1>3, <1>4, <1>5, <2>1 DEF Calls
  <1>7. CASE CreateStatefulSet(k)
    <2>1. /\ Proceed(k, "listPods")
          /\ UNCHANGED faults \/ faults' = faults + 1
          /\ UNCHANGED <<crLog, crSeen, stsSeen, pods, dirty>>
          /\ UNCHANGED <<edits, foreign, shuffles, restarts>>
          /\ \/ UNCHANGED sts
             \/ sts' = [sts EXCEPT ![NameOf(k)] = StatefulSetFor(k, Held(k))]
      BY <1>7 DEF CreateStatefulSet, Fault, NoFault, cache
    <2>2. StatefulSetFor(k, Held(k)) \in StatefulSet /\ NameOf(k) \in Names
      BY <1>1, RecordTypes, NameOfKey
    <2>3. sts' \in [Names -> StatefulSet]
      BY <1>5, <2>1, <2>2
    <2> QED
      BY <1>3, <1>4, <1>5, <2>1, <2>3 DEF Calls
  <1>8. CASE ListPods(k)
    <2>1. /\ UNCHANGED faults \/ faults' = faults + 1
          /\ UNCHANGED shuffles \/ shuffles' = shuffles + 1
          /\ UNCHANGED <<crLog, sts, crSeen, stsSeen, pods, dirty>>
          /\ UNCHANGED <<edits, foreign, restarts>>
          /\ \/ Returns(k)
             \/ \E order \in Orders(Pods(k)) :
                   AfterList(k, [job[k] EXCEPT !.podNames = order])
      BY <1>8 DEF ListPods, Fault, NoFault, server, cache, Returns
    <2>2. ASSUME NEW order \in Orders(Pods(k))
          PROVE  GoodCopy(k, [job[k] EXCEPT !.podNames = order])
      <3>1. order \in Seq(Nat)
        BY OrdersType
      <3> QED
        BY <1>2, <2>1, <3>1 DEF GoodCopy, Job
    <2>3. JobStep(k)
      BY <1>1, <2>1, <2>2, EndsOfCall, AfterListEnds
    <2> QED
      BY <1>4, <1>5, <2>1, <2>3
  <1>9. ASSUME NEW copy \in {job[k], Updated(k)}, UpdateStatus(k, copy),
               Finish(k, copy) \/ AfterSize(k, copy),
               UNCHANGED <<sts, cache, dirty, edits, foreign, shuffles, restarts>>
        PROVE  TypeOK' /\ JobStep(k)
    <2>1. /\ \/ UNCHANGED crLog /\ copy = job[k]
             \/ Extends(Keys, crLog, crLog', k, WithStatus(k), Store)
          /\ GoodCopy(k, copy)
          /\ Len(crLog'[k]) \in Nat \ {0}
          /\ faults' \in Nat
      BY <1>9, StatusWrite
    <2>2. /\ crLog' \in [Keys -> Seq(Store)]
          /\ \A j \in Keys : /\ Len(crLog'[j]) \in Nat
                              /\ Len(crLog[j]) <= Len(crLog'[j])
      BY <1>1, <2>1 DEF Extends, TypeOK
    <2>3. JobStep(k)
      BY <1>9, <2>1, EndsOfCall, AfterListEnds
    <2>4. /\ edits' \in Nat /\ foreign' \in Nat /\ restarts' \in Nat
          /\ shuffles' \in Nat /\ sts' \in [Names -> StatefulSet]
          /\ UNCHANGED <<crSeen, stsSeen, pods>> /\ dirty' \subseteq dirty
      BY <1>9 DEF TypeOK, cache
    <2> QED
      BY <2>1, <2>2, <2>3, <2>4, JobStepType
  <1>10. CASE UpdateSize(k)
    BY <1>9, <1>10 DEF UpdateSize
  <1>11. CASE UpdateNodes(k)
    BY <1>9, <1>11 DEF UpdateNodes
  <1> QED
    BY <1>6, <1>7, <1>8, <1>10, <1>11 DEF CallOfReconcile

(* Every variable keeps its type: in particular no cache and no reconcile  *)
(* ever holds a version of a CR the API server does not have.              *)
THEOREM StoreTypeCorrect == Spec => []TypeOK
  <1>1. TypeOK /\ [Next]_vars => TypeOK'
    <2> SUFFICES ASSUME TypeOK, [Next]_vars PROVE TypeOK'
      OBVIOUS
    <2>1. CASE Restart
      BY <2>1, RestartType
    <2>2. ASSUME NEW k \in Keys, GetStore(k) \/ CallOfReconcile(k) PROVE TypeOK'
      BY <2>2, GetStoreType, CallOfReconcileType
    <2>3. CASE Environment
      BY <2>3, EnvironmentType
    <2>4. CASE UNCHANGED vars
      BY <2>4 DEF vars, server, cache, queue, budget, TypeOK
    <2> QED
      BY <2>1, <2>2, <2>3, <2>4 DEF Next
  <1> QED
    BY <1>1, InitType, PTL DEF Spec

-----------------------------------------------------------------------------
(* What a step leaves alone.                                               *)

(* No version of k is ever rewritten or lost.                              *)
VersionsKept(k) ==
    \A i \in 1..Len(crLog[k]) :
        i \in 1..Len(crLog'[k]) /\ crLog'[k][i] = crLog[k][i]

(* What happens outside of a reconcile leaves the jobs alone, rewrites no  *)
(* version and forgets no key.                                             *)
LEMMA OutsideSteps ==
    ASSUME TypeOK, Environment
    PROVE  /\ UNCHANGED job
           /\ \A j \in Keys : VersionsKept(j)
           /\ dirty \cup delayed \subseteq dirty' \cup delayed'
           /\ \A j \in Keys : crSeen'[j] = crSeen[j] \/ j \in dirty'
           /\ \A j \in Keys : crSeen[j] <= crSeen'[j]
  <1> DEFINE Kept == /\ UNCHANGED job
                     /\ \A j \in Keys : VersionsKept(j)
                     /\ dirty \cup delayed \subseteq dirty' \cup delayed'
                     /\ \A j \in Keys : crSeen'[j] = crSeen[j] \/ j \in dirty'
                     /\ \A j \in Keys : crSeen[j] <= crSeen'[j]
  <1>0. \A j \in Keys : crSeen[j] \in Nat /\ crSeen \in [Keys -> Nat]
    BY DEF TypeOK
  <1>1. ASSUME NEW k \in Keys, Users(k) PROVE Kept
    <2>1. PICK store \in Store : UserWrites(k, store)
      BY <1>1, UsersWrite
    <2>2. Extends(Keys, crLog, crLog', k, store, Store)
      BY <2>1, CrExtends DEF UserWrites
    <2>3. \A j \in Keys : VersionsKept(j)
      BY <2>2 DEF Extends, VersionsKept
    <2> QED
      BY <1>0, <2>1, <2>3 DEF UserWrites, cache, queue
  <1>2. ASSUME NEW n \in Names, Others(n) PROVE Kept
    BY <1>0, <1>2, OthersType DEF VersionsKept
  <1>3. ASSUME NEW n \in Names, DeliverStatefulSet(n) PROVE Kept
    BY <1>0, <1>3 DEF DeliverStatefulSet, VersionsKept, server, queue
  <1>4. ASSUME NEW k \in Keys, Queues(k) PROVE Kept
    BY <1>0, <1>4 DEF Queues, DeliverStore, Resync, DelayEnds, server, cache,
                      VersionsKept
  <1> HIDE DEF Kept
  <1>5. Kept
    BY <1>1, <1>2, <1>3, <1>4 DEF Environment
  <1> QED
    BY <1>5 DEF Kept

(* A call of the reconcile of k rewrites no version, leaves the caches and *)
(* the other jobs alone, and forgets no other key.                         *)
LEMMA ReconcileSteps ==
    ASSUME TypeOK, NEW k \in Keys, GetStore(k) \/ CallOfReconcile(k)
    PROVE  /\ UNCHANGED crSeen
           /\ \A j \in Keys : VersionsKept(j)
           /\ \A j \in Keys \ {k} :
                 /\ job'[j] = job[j]
                 /\ j \in dirty \cup delayed => j \in dirty' \cup delayed'
  <1>1. JobStep(k)
    BY GetStoreType, CallOfReconcileType
  <1>2. \A j \in Keys \ {k} : job'[j] = job[j]
    BY <1>1 DEF JobStep, TypeOK
  <1>3. UNCHANGED crSeen /\ dirty' \in {dirty, dirty \ {k}}
    BY DEF GetStore, CallOfReconcile, GetStatefulSet, CreateStatefulSet,
       ListPods, UpdateSize, UpdateNodes, cache
  <1>4. ASSUME NEW copy \in {job[k], Updated(k)}, UpdateStatus(k, copy)
        PROVE  \A j \in Keys : VersionsKept(j)
    BY <1>4, StatusWrite DEF Extends, VersionsKept
  <1>5. \A j \in Keys : VersionsKept(j)
    <2>1. CASE UpdateSize(k) \/ UpdateNodes(k)
      BY <1>4, <2>1 DEF UpdateSize, UpdateNodes
    <2>2. CASE UNCHANGED crLog
      BY <2>2 DEF VersionsKept
    <2> QED
      BY <2>1, <2>2 DEF GetStore, CallOfReconcile, GetStatefulSet,
         CreateStatefulSet, ListPods, server
  <1> QED
    BY <1>1, <1>2, <1>3, <1>5 DEF JobStep

-----------------------------------------------------------------------------
(* The requeue loop.                                                       *)

(* Every call is followed by another one, or the key comes back later.     *)
LEMMA CallGoesOn ==
    ASSUME TypeOK, NEW k \in Keys, CallOfReconcile(k)
    PROVE  job'[k].call # "idle" \/ k \in delayed'
  <1> DEFINE GoesOn == job'[k].call # "idle" \/ k \in delayed'
  <1>1. job[k] \in Job /\ job \in [Keys -> Job]
    BY DEF TypeOK
  <1>2. ReturnLater(k) \/ ReturnError(k) => GoesOn
    BY DEF ReturnLater, ReturnError
  <1>3. ASSUME NEW c \in Job, NEW call \in Calls \ {"idle"}, NEW n, NEW p,
               \/ Becomes(k, [c EXCEPT !.call = call])
               \/ Becomes(k, [c EXCEPT !.call = call, !.nodes = n])
               \/ Becomes(k, [c EXCEPT !.call = call, !.size = p])
        PROVE  GoesOn
    BY <1>1, <1>3 DEF Becomes, Job
  <1>4. ASSUME NEW c \in Job, Finish(k, c) PROVE GoesOn
    <2>1. "getService" \in Calls \ {"idle"}
      BY DEF Calls
    <2> QED
      BY <1>2, <1>3, <1>4, <2>1 DEF Finish
  <1>5. ASSUME NEW c \in Job, AfterSize(k, c) PROVE GoesOn
    BY <1>3, <1>4, <1>5 DEF AfterSize, Calls
  <1>6. ASSUME NEW c \in Job, AfterList(k, c) PROVE GoesOn
    BY <1>3, <1>5, <1>6 DEF AfterList, Calls
  <1>7. CASE GetStatefulSet(k) \/ CreateStatefulSet(k)
    BY <1>1, <1>3, <1>7 DEF GetStatefulSet, CreateStatefulSet, Proceed, Calls
  <1>8. CASE ListPods(k)
    <2>1. \A order \in Orders(Pods(k)) : [job[k] EXCEPT !.podNames = order] \in Job
      BY <1>1, OrdersType DEF Job
    <2> QED
      BY <1>2, <1>6, <1>8, <2>1 DEF ListPods
  <1>9. CASE UpdateSize(k) \/ UpdateNodes(k)
    <2>1. PICK copy \in {job[k], Updated(k)} :
             UpdateStatus(k, copy) /\ (AfterSize(k, copy) \/ Finish(k, copy))
      BY <1>9 DEF UpdateSize, UpdateNodes
    <2>2. copy \in Job
      BY <2>1, StatusWrite DEF GoodCopy
    <2> QED
      BY <1>4, <1>5, <2>1, <2>2
  <1> QED
    BY <1>7, <1>8, <1>9 DEF CallOfReconcile

(* A step of the environment or of one reconcile keeps every key in the    *)
(* loop.                                                                   *)
LEMMA LoopStep ==
    ASSUME TypeOK, NeverForgotten,
           Environment \/ \E k \in Keys : GetStore(k) \/ CallOfReconcile(k)
    PROVE  NeverForgotten'
  <1> SUFFICES ASSUME NEW j \in Keys, crLog'[j][crSeen'[j]].live
               PROVE  j \in dirty' \cup delayed' \/ job'[j].call # "idle"
    BY DEF NeverForgotten
  <1>1. crSeen[j] \in 1..Len(crLog[j])
    BY DEF TypeOK
  <1>2. CASE Environment
    BY <1>1, <1>2, OutsideSteps DEF NeverForgotten, VersionsKept
  <1>3. ASSUME NEW k \in Keys \ {j}, GetStore(k) \/ CallOfReconcile(k)
        PROVE  j \in dirty' \cup delayed' \/ job'[j].call # "idle"
    BY <1>1, <1>3, ReconcileSteps DEF NeverForgotten, VersionsKept
  <1>4. CASE GetStore(j)
    <2>1. crLog[j][crSeen[j]].live
      BY <1>4 DEF GetStore, server, cache
    <2> QED
      BY <1>4, <2>1 DEF GetStore, ReturnError, Becomes, TypeOK
  <1>5. CASE CallOfReconcile(j)
    BY <1>5, CallGoesOn
  <1> QED
    BY <1>2, <1>3, <1>4, <1>5

(* A CR that the cache holds is always queued, waiting or in work, however *)
(* many faults and restarts there are: the loop never ends.                *)
THEOREM LoopNeverEnds == Spec => []NeverForgotten
  <1>1. Init => NeverForgotten
    BY DEF Init, NeverForgotten, NoStore
  <1>2. TypeOK /\ NeverForgotten /\ [Next]_vars => NeverForgotten'
    <2> SUFFICES ASSUME TypeOK, NeverForgotten, [Next]_vars PROVE NeverForgotten'
      OBVIOUS
    <2>1. CASE Restart
      BY <2>1 DEF Restart, NeverForgotten, Rv, Current, server
    <2>2. CASE UNCHANGED vars
      BY <2>2 DEF vars, server, cache, queue, NeverForgotten
    <2> QED
      BY <2>1, <2>2, LoopStep DEF Next
  <1> QED
    BY <1>1, <1>2, StoreTypeCorrect, PTL DEF Spec

-----------------------------------------------------------------------------
(* The status.                                                             *)

(* What CopyInv says of one CR.                                            *)
CopyOK(k) == CopyLives(k) /\ CopyIsRead(k) /\ SizeOfCopy(k) /\ CopyDiffers(k)

(* It survives what leaves the job alone, rewrites no version and does not *)
(* turn the cache back.                                                    *)
LEMMA CopyKept ==
    ASSUME TypeOK, NEW k \in Keys, CopyOK(k), job'[k] = job[k], VersionsKept(k),
           crSeen'[k] \in Nat, crSeen[k] <= crSeen'[k]
    PROVE  CopyOK(k)'
  <1>1. job[k] \in Job /\ job[k].rv \in 1..Len(crLog[k]) /\ crSeen[k] \in Nat
    BY DEF TypeOK
  <1>2. Held(k)' = Held(k)
    BY <1>1 DEF Held, VersionsKept
  <1>3. job[k].rv \in Nat
    BY <1>1 DEF Job
  <1> QED
    BY <1>1, <1>2, <1>3 DEF CopyOK, CopyLives, CopyIsRead, SizeOfCopy, CopyDiffers

(* The comparisons hand on a copy that has something new to say, or end    *)
(* the work on the status.                                                 *)
LEMMA CopyAfterList ==
    ASSUME TypeOK, NEW k \in Keys, NEW copy \in Job, crLog'[k][copy.rv].live
    PROVE  /\ Finish(k, copy) => CopyOK(k)'
           /\ /\ copy.size = crLog'[k][copy.rv].replicas
              /\ copy.nodes = crLog'[k][copy.rv].nodes
              /\ AfterSize(k, copy)
              => CopyOK(k)'
           /\ /\ UNCHANGED crLog
              /\ copy.rv = job[k].rv
              /\ copy.size = Held(k).size /\ copy.nodes = Held(k).nodes
              /\ AfterList(k, copy)
              => CopyOK(k)'
  <1>1. job \in [Keys -> Job]
    BY DEF TypeOK
  <1>2. \A call \in Calls : [copy EXCEPT !.call = call].call = call
                            /\ [copy EXCEPT !.call = call].rv = copy.rv
    BY DEF Job
  <1>4. ASSUME Finish(k, copy) PROVE CopyOK(k)'
    <2>1. CASE Kind(k) = "Store"
      <3>1. job'[k].call = "idle"
        BY <1>1, <1>4, <2>1 DEF Finish, ReturnLater, Return, NoJob
      <3> QED
        BY <3>1 DEF CopyOK, CopyLives, CopyIsRead, SizeOfCopy, CopyDiffers
    <2>2. CASE Kind(k) # "Store"
      <3>1. job'[k].call = "getService" /\ job'[k].rv = copy.rv
        BY <1>1, <1>2, <1>4, <2>2 DEF Finish, Becomes, Calls
      <3>2. Held(k)' = crLog'[k][copy.rv]
        BY <3>1 DEF Held
      <3> QED
        BY <2>2, <3>1, <3>2
        DEF CopyOK, CopyLives, CopyIsRead, SizeOfCopy, CopyDiffers
    <2> QED
      BY <2>1, <2>2
  <1>5. ASSUME copy.size = crLog'[k][copy.rv].replicas,
               copy.nodes = crLog'[k][copy.rv].nodes, AfterSize(k, copy)
        PROVE  CopyOK(k)'
    <2>1. CASE copy.podNames # copy.nodes
      <3>1. job'[k] = [copy EXCEPT !.call = "updateNodes", !.nodes = copy.podNames]
        BY <1>1, <1>5, <2>1 DEF AfterSize, Becomes
      <3>2. /\ job'[k].size = copy.size /\ job'[k].rv = copy.rv
            /\ job'[k].nodes = copy.podNames /\ job'[k].podNames = copy.podNames
            /\ job'[k].call = "updateNodes"
        BY <3>1 DEF Job
      <3>3. Held(k)' = crLog'[k][copy.rv]
        BY <3>2 DEF Held
      <3> QED
        BY <1>5, <2>1, <3>2, <3>3 DEF CopyOK, CopyLives, CopyIsRead, SizeOfCopy, CopyDiffers
    <2>2. CASE copy.podNames = copy.nodes
      BY <1>4, <1>5, <2>2 DEF AfterSize
    <2> QED
      BY <2>1, <2>2
  <1>6. ASSUME UNCHANGED crLog, copy.rv = job[k].rv,
               copy.size = Held(k).size, copy.nodes = Held(k).nodes,
               AfterList(k, copy)
        PROVE  CopyOK(k)'
    <2>1. Held(k) = crLog'[k][copy.rv]
      BY <1>6 DEF Held
    <2>2. CASE Held(k).replicas # copy.size
      <3>1. job'[k] = [copy EXCEPT !.call = "updateSize", !.size = Held(k).replicas]
        BY <1>1, <1>6, <2>2 DEF AfterList, Becomes
      <3>2. /\ job'[k].size = Held(k).replicas /\ job'[k].rv = copy.rv
            /\ job'[k].nodes = copy.nodes /\ job'[k].call = "updateSize"
        BY <3>1 DEF Job
      <3>3. Held(k)' = Held(k)
        BY <2>1, <3>2 DEF Held
      <3> QED
        BY <1>6, <2>1, <2>2, <3>2, <3>3
        DEF CopyOK, CopyLives, CopyIsRead, SizeOfCopy, CopyDiffers
    <2>3. CASE Held(k).replicas = copy.size
      BY <1>5, <1>6, <2>1, <2>3 DEF AfterList
    <2> QED
      BY <2>2, <2>3
  <1> QED
    BY <1>4, <1>5, <1>6

(* What an accepted update of the status writes: the copy's own version    *)
(* with another status.                                                    *)
LEMMA StatusOfCopy ==
    ASSUME TypeOK, NEW k \in Keys, NEW copy \in {job[k], Updated(k)},
           UpdateStatus(k, copy), crLog'[k] # crLog[k]
    PROVE  /\ Held(k) = Current(crLog[k])
           /\ Current(crLog'[k]) = [Held(k) EXCEPT !.size = job[k].size,
                                                  !.nodes = job[k].nodes]
           /\ Current(crLog'[k]) = crLog'[k][Rv(crLog[k]) + 1]
           /\ Current(crLog'[k]).size = job[k].size
           /\ Current(crLog'[k]).nodes = job[k].nodes
           /\ Current(crLog'[k]).replicas = Held(k).replicas
           /\ Current(crLog'[k]).uid = Held(k).uid
           /\ Current(crLog'[k]).live = Held(k).live
  <1>1. Extends(Keys, crLog, crLog', k, WithStatus(k), Store) /\ StatusAccepted(k)
    BY StatusWrite
  <1>2. Current(crLog'[k]) = WithStatus(k) /\ Len(crLog'[k]) = Rv(crLog[k]) + 1
    BY <1>1 DEF Extends, Current, Rv
  <1>3. Held(k) = Current(crLog[k]) /\ Current(crLog[k]) \in Store
    BY <1>1, CurrentTypes DEF StatusAccepted, UpdateAccepted, Held, Current, Rv
  <1>4. /\ WithStatus(k).size = job[k].size
        /\ WithStatus(k).nodes = job[k].nodes
        /\ WithStatus(k).replicas = Current(crLog[k]).replicas
        /\ WithStatus(k).uid = Current(crLog[k]).uid
        /\ WithStatus(k).live = Current(crLog[k]).live
    BY <1>3 DEF WithStatus, Store
  <1> QED
    BY <1>2, <1>3, <1>4 DEF Current, WithStatus

(* A call of the reconcile of k keeps its copy right.                      *)
LEMMA CallKeepsCopy ==
    ASSUME TypeOK, NEW k \in Keys, CopyOK(k), GetStore(k) \/ CallOfReconcile(k)
    PROVE  CopyOK(k)'
  <1>1. /\ job[k] \in Job /\ job \in [Keys -> Job]
        /\ job[k].rv \in 1..Len(crLog[k])
    BY DEF TypeOK
  <1>2. Returns(k) => CopyOK(k)'
    <2>1. ASSUME Returns(k) PROVE job'[k].call = "idle"
      BY <1>1, <2>1 DEF Returns, ReturnLater, ReturnError, ReturnDone, Return, NoJob
    <2> QED
      BY <2>1 DEF CopyOK, CopyLives, CopyIsRead, SizeOfCopy, CopyDiffers
  <1>3. CASE GetStore(k)
    <2>1. ASSUME job'[k].call = "getStatefulSet", job'[k].rv = crSeen[k],
                 job'[k].size = crLog[k][crSeen[k]].size,
                 job'[k].nodes = crLog[k][crSeen[k]].nodes,
                 crLog[k][crSeen[k]].live, UNCHANGED <<crLog, crSeen>>
          PROVE  CopyOK(k)'
      <3>1. Held(k)' = crLog[k][crSeen[k]] /\ crSeen[k] \in Nat
        BY <2>1 DEF Held, TypeOK
      <3> QED
        BY <2>1, <3>1 DEF CopyOK, CopyLives, CopyIsRead, SizeOfCopy, CopyDiffers
    <2> QED
      BY <1>1, <1>2, <1>3, <2>1 DEF GetStore, Becomes, Returns, server, cache
  <1>4. CASE GetStatefulSet(k) \/ CreateStatefulSet(k)
    <2>1. PICK call \in {"create", "listPods"} : Proceed(k, call)
      BY <1>4 DEF GetStatefulSet, CreateStatefulSet
    <2>2. job'[k] = [job[k] EXCEPT !.call = call]
      BY <1>1, <2>1 DEF Proceed, Becomes
    <2>3. /\ job'[k].call = call /\ job'[k].rv = job[k].rv
          /\ job'[k].size = job[k].size /\ job'[k].nodes = job[k].nodes
      BY <1>1, <2>2 DEF Job
    <2>4. UNCHANGED <<crLog, crSeen>> /\ job[k].call \in {"getStatefulSet", "create"}
      BY <1>4 DEF GetStatefulSet, CreateStatefulSet, server, cache
    <2>5. Held(k)' = Held(k)
      BY <2>3, <2>4 DEF Held
    <2> QED
      BY <2>3, <2>4, <2>5 DEF CopyOK, CopyLives, CopyIsRead, SizeOfCopy, CopyDiffers
  <1>5. CASE ListPods(k)
    <2>1. ASSUME NEW order \in Orders(Pods(k)),
                 AfterList(k, [job[k] EXCEPT !.podNames = order])
          PROVE  CopyOK(k)'
      <3> DEFINE copy == [job[k] EXCEPT !.podNames = order]
      <3>1. /\ copy \in Job /\ copy.rv = job[k].rv
            /\ copy.size = job[k].size /\ copy.nodes = job[k].nodes
        BY <1>1, OrdersType DEF Job
      <3>2. UNCHANGED crLog
        BY <1>5 DEF ListPods, server
      <3>3. job[k].size = Held(k).size /\ job[k].nodes = Held(k).nodes /\ Held(k).live
        BY <1>5 DEF ListPods, CopyOK, CopyLives, CopyIsRead
      <3> QED
        BY <2>1, <3>1, <3>2, <3>3, CopyAfterList DEF Held
    <2> QED
      BY <1>2, <1>5, <2>1 DEF ListPods, Returns
  <1>6. ASSUME NEW copy \in {job[k], Updated(k)}, UpdateStatus(k, copy),
               job[k].call \in {"updateSize", "updateNodes"}
        PROVE  /\ copy \in Job /\ crLog'[k][copy.rv].live
               /\ copy.size = job[k].size /\ copy.nodes = job[k].nodes
               /\ copy.size = crLog'[k][copy.rv].replicas
               /\ job[k].call = "updateSize"
                     => copy.nodes = crLog'[k][copy.rv].nodes
    <2>1. /\ copy \in Job /\ Held(k).live /\ job[k].size = Held(k).replicas
          /\ job[k].call = "updateSize" => job[k].nodes = Held(k).nodes
      BY <1>6, StatusWrite
      DEF GoodCopy, CopyOK, CopyLives, SizeOfCopy, CopyDiffers
    <2>2. CASE copy = job[k]
      <3>1. VersionsKept(k)
        BY ReconcileSteps
      <3> QED
        BY <1>1, <2>1, <2>2, <3>1 DEF VersionsKept, Held
    <2>3. CASE copy = Updated(k) /\ copy # job[k]
      <3>1. Extends(Keys, crLog, crLog', k, WithStatus(k), Store)
        BY <1>6, <2>3, StatusWrite
      <3>2. crLog'[k] # crLog[k]
        BY <3>1, CurrentTypes DEF Extends
      <3>3. /\ copy.size = job[k].size /\ copy.nodes = job[k].nodes
            /\ copy.rv = Rv(crLog[k]) + 1
        BY <1>1, <2>3 DEF Updated, Job
      <3>4. /\ crLog'[k][Rv(crLog[k]) + 1].replicas = Held(k).replicas
            /\ crLog'[k][Rv(crLog[k]) + 1].nodes = job[k].nodes
            /\ crLog'[k][Rv(crLog[k]) + 1].live = Held(k).live
        BY <1>6, <3>2, StatusOfCopy
      <3> QED
        BY <2>1, <3>3, <3>4
    <2> QED
      BY <2>2, <2>3
  <1>7. CASE UpdateSize(k)
    BY <1>6, <1>7, CopyAfterList DEF UpdateSize
  <1>8. CASE UpdateNodes(k)
    BY <1>6, <1>8, CopyAfterList DEF UpdateNodes
  <1> QED
    BY <1>3, <1>4, <1>5, <1>7, <1>8 DEF CallOfReconcile

(* A step of the environment or of one reconcile keeps all copies right.   *)
LEMMA CopyStep ==
    ASSUME TypeOK, CopyInv, TypeOK',
           Environment \/ \E k \in Keys : GetStore(k) \/ CallOfReconcile(k)
    PROVE  CopyInv'
  <1> SUFFICES ASSUME NEW j \in Keys PROVE CopyOK(j)'
    BY DEF CopyInv, CopyOK
  <1>1. CopyOK(j) /\ crSeen[j] \in Nat /\ crSeen'[j] \in Nat
    BY DEF CopyInv, CopyOK, TypeOK
  <1>2. CASE Environment
    BY <1>1, <1>2, OutsideSteps, CopyKept
  <1>3. ASSUME NEW k \in Keys \ {j}, GetStore(k) \/ CallOfReconcile(k)
        PROVE  CopyOK(j)'
    BY <1>1, <1>3, ReconcileSteps, CopyKept
  <1>4. CASE GetStore(j) \/ CallOfReconcile(j)
    BY <1>1, <1>4, CallKeepsCopy
  <1> QED
    BY <1>2, <1>3, <1>4

(* The copy is what CopyInv says at every moment of every behaviour.       *)
THEOREM CopyInvariant == Spec => []CopyInv
  <1>1. Init => CopyInv
    BY DEF Init, CopyInv, CopyLives, CopyIsRead, SizeOfCopy, CopyDiffers, NoJob
  <1>2. TypeOK /\ TypeOK' /\ CopyInv /\ [Next]_vars => CopyInv'
    <2> SUFFICES ASSUME TypeOK, TypeOK', CopyInv, [Next]_vars PROVE CopyInv'
      OBVIOUS
    <2>1. CASE Restart
      BY <2>1 DEF Restart, CopyInv, CopyLives, CopyIsRead, SizeOfCopy, CopyDiffers, NoJob
    <2>2. CASE UNCHANGED vars
      BY <2>2 DEF vars, server, cache, CopyInv, CopyLives, CopyIsRead, SizeOfCopy, CopyDiffers, Held
    <2> QED
      BY <2>1, <2>2, CopyStep DEF Next
  <1> QED
    BY <1>1, <1>2, StoreTypeCorrect, PTL DEF Spec

(* An accepted update writes the size that its own version asks for, into  *)
(* the incarnation that was read.                                          *)
LEMMA StatusLands ==
    TypeOK /\ CopyInv =>
        [\A k \in Keys :
            (UpdateSize(k) \/ UpdateNodes(k)) /\ crLog'[k] # crLog[k] =>
                LET written == Current(crLog'[k])
                IN  /\ written.size = written.replicas
                    /\ written.uid = Held(k).uid]_vars
  <1> SUFFICES ASSUME TypeOK, CopyInv, NEW k \in Keys,
                      UpdateSize(k) \/ UpdateNodes(k), crLog'[k] # crLog[k]
               PROVE  /\ Current(crLog'[k]).size = Current(crLog'[k]).replicas
                      /\ Current(crLog'[k]).uid = Held(k).uid
    OBVIOUS
  <1>1. PICK copy \in {job[k], Updated(k)} : UpdateStatus(k, copy)
    BY DEF UpdateSize, UpdateNodes
  <1>2. job[k].size = Held(k).replicas
    BY DEF CopyInv, SizeOfCopy, UpdateSize, UpdateNodes
  <1> QED
    BY <1>1, <1>2, StatusOfCopy

(* A status only lands on the spec and the incarnation it was computed     *)
(* from, although the second update is sent with the copy the first one    *)
(* has changed, and whatever users write in between.                       *)
THEOREM StatusLandsRight == Spec => StatusOfWhatWasRead
  BY StatusLands, StoreTypeCorrect, CopyInvariant, PTL DEF Spec, StatusOfWhatWasRead

-----------------------------------------------------------------------------
(* News.                                                                   *)

(* In a list in ordinal order, the pods up to the one at place i are i.    *)
LEMMA PodsUpTo ==
    ASSUME NEW order \in Seq(Nat), InOrdinalOrder(order), NEW i \in DOMAIN order
    PROVE  LET upTo == {q \in {order[j] : j \in DOMAIN order} : q <= order[i]}
           IN  IsFiniteSet(upTo) /\ Cardinality(upTo) = i
  <1> DEFINE upTo == {q \in {order[j] : j \in DOMAIN order} : q <= order[i]}
             f == [j \in 1..i |-> order[j]]
  <1>1. /\ i \in Nat /\ 1..i \subseteq DOMAIN order
        /\ \A j \in DOMAIN order : j \in Int /\ order[j] \in Int
        /\ \A j \in DOMAIN order : j <= i => j \in 1..i
    OBVIOUS
  <1>2. \A j, k \in DOMAIN order : j < k => order[j] < order[k]
    BY DEF InOrdinalOrder
  <1>3. \A j \in DOMAIN order : order[j] <= order[i] <=> j <= i
    <2> SUFFICES ASSUME NEW j \in DOMAIN order
                 PROVE  order[j] <= order[i] <=> j <= i
      OBVIOUS
    <2>1. j < i \/ j = i \/ i < j
      BY <1>1
    <2> QED
      BY <1>1, <1>2, <2>1
  <1>4. \A j \in 1..i : order[j] \in upTo
    BY <1>1, <1>3
  <1>5. \A q \in upTo : \E j \in 1..i : order[j] = q
    BY <1>1, <1>3
  <1>6. ASSUME NEW j \in 1..i, NEW k \in 1..i, order[j] = order[k] PROVE j = k
    <2>1. j < k \/ j = k \/ k < j
      BY <1>1
    <2> QED
      BY <1>1, <1>2, <1>6, <2>1
  <1> HIDE DEF upTo
  <1>7. f \in Bijection(1..i, upTo)
    BY <1>4, <1>5, <1>6 DEF Bijection, Injection, Surjection, IsInjective
  <1>8. IsFiniteSet(1..i) /\ Cardinality(1..i) = i
    BY <1>1, FS_Interval
  <1>9. ExistsBijection(1..i, upTo)
    BY <1>7 DEF ExistsBijection
  <1>10. IsFiniteSet(upTo) /\ Cardinality(upTo) = i
    BY <1>8, <1>9, FS_Bijection
  <1> QED
    BY <1>10 DEF upTo

(* Two lists of the same pods in ordinal order name the same pod at every  *)
(* place.                                                                  *)
LEMMA SamePlaces ==
    ASSUME NEW a \in Seq(Nat), NEW b \in Seq(Nat),
           InOrdinalOrder(a), InOrdinalOrder(b),
           {a[j] : j \in DOMAIN a} = {b[j] : j \in DOMAIN b},
           NEW i \in DOMAIN a, i \in DOMAIN b
    PROVE  ~(a[i] < b[i])
  <1> DEFINE S == {a[j] : j \in DOMAIN a}
             upToA == {q \in S : q <= a[i]}
             upToB == {q \in {b[j] : j \in DOMAIN b} : q <= b[i]}
  <1> SUFFICES ASSUME a[i] < b[i] PROVE FALSE
    OBVIOUS
  <1>1. Cardinality(upToA) = i /\ IsFiniteSet(upToB) /\ Cardinality(upToB) = i
    BY PodsUpTo
  <1>2. a[i] \in Nat /\ b[i] \in Nat /\ \A q \in S : q \in Nat
    OBVIOUS
  <1>3. ASSUME NEW q \in upToA PROVE q \in upToB
    <2>1. q \in S /\ q <= a[i] /\ q \in Nat
      BY <1>2
    <2>2. q <= b[i]
      BY <1>2, <2>1
    <2>3. q \in {b[j] : j \in DOMAIN b}
      BY <2>1
    <2> QED
      BY <2>2, <2>3
  <1>4. b[i] \in upToB /\ b[i] \notin upToA
    BY <1>2
  <1> HIDE DEF upToA, upToB
  <1>5. upToA = upToB
    BY <1>1, <1>3, FS_Subset
  <1> QED
    BY <1>4, <1>5

(* So the pods, in ordinal order, make one list.                           *)
LEMMA OneOrdinalOrder ==
    ASSUME NEW a \in Seq(Nat), NEW b \in Seq(Nat),
           InOrdinalOrder(a), InOrdinalOrder(b),
           {a[j] : j \in DOMAIN a} = {b[j] : j \in DOMAIN b}
    PROVE  a = b
  <1>1. ASSUME NEW s \in Seq(Nat), NEW t \in Seq(Nat),
               InOrdinalOrder(s), InOrdinalOrder(t),
               {s[j] : j \in DOMAIN s} = {t[j] : j \in DOMAIN t}
        PROVE  ~(Len(s) < Len(t))
    <2> SUFFICES ASSUME Len(s) < Len(t) PROVE FALSE
      OBVIOUS
    <2> DEFINE n == Len(s) + 1
    <2>1. Len(s) \in Nat /\ Len(t) \in Nat /\ DOMAIN t = 1..Len(t)
      OBVIOUS
    <2>2. n \in DOMAIN t
      BY <2>1
    <2>3. n \in DOMAIN t /\ t[n] \in {s[j] : j \in DOMAIN s}
      <3>1. t[n] \in {t[j] : j \in DOMAIN t}
        BY <2>2
      <3> QED
        BY <1>1, <2>2, <3>1
    <2>4. PICK i \in DOMAIN s : s[i] = t[n]
      BY <2>3
    <2>5. i \in DOMAIN t /\ i < n
      BY <1>1
    <2>6. t[i] < s[i]
      BY <1>1, <2>3, <2>4, <2>5 DEF InOrdinalOrder
    <2> QED
      BY <1>1, <2>5, <2>6, SamePlaces
  <1>2. Len(a) = Len(b)
    <2>1. ~(Len(a) < Len(b)) /\ ~(Len(b) < Len(a))
      BY <1>1
    <2>2. Len(a) \in Nat /\ Len(b) \in Nat
      OBVIOUS
    <2> QED
      BY <2>1, <2>2
  <1>3. ASSUME NEW i \in DOMAIN a PROVE a[i] = b[i]
    <2>1. i \in DOMAIN b /\ a[i] \in Nat /\ b[i] \in Nat
      BY <1>2
    <2>2. ~(a[i] < b[i])
      BY <2>1, SamePlaces
    <2>3. ~(b[i] < a[i])
      BY <2>1, SamePlaces
    <2> QED
      BY <2>1, <2>2, <2>3
  <1> QED
    BY <1>2, <1>3

(* An accepted update sends another size or other nodes than those of the  *)
(* newest version.                                                         *)
LEMMA UpdateIsNews ==
    TypeOK /\ CopyInv =>
        [\A k \in Keys :
            (UpdateSize(k) \/ UpdateNodes(k)) /\ crLog'[k] # crLog[k] =>
                LET before == Current(crLog[k])
                    written == Current(crLog'[k])
                IN  \/ written.size # before.size
                    \/ PodsNamed(written) # PodsNamed(before)
                    \/ ~InOrdinalOrder(written.nodes)
                    \/ ~InOrdinalOrder(before.nodes)]_vars
  <1> SUFFICES ASSUME TypeOK, CopyInv, NEW k \in Keys,
                      UpdateSize(k) \/ UpdateNodes(k), crLog'[k] # crLog[k],
                      InOrdinalOrder(Current(crLog'[k]).nodes),
                      InOrdinalOrder(Current(crLog[k]).nodes),
                      PodsNamed(Current(crLog'[k])) = PodsNamed(Current(crLog[k]))
               PROVE  Current(crLog'[k]).size # Current(crLog[k]).size
    OBVIOUS
  <1>1. PICK copy \in {job[k], Updated(k)} : UpdateStatus(k, copy)
    BY DEF UpdateSize, UpdateNodes
  <1>2. /\ Held(k) = Current(crLog[k])
        /\ Current(crLog'[k]).size = job[k].size
        /\ Current(crLog'[k]).nodes = job[k].nodes
    BY <1>1, StatusOfCopy
  <1>3. job[k].nodes \in Seq(Nat) /\ Held(k).nodes \in Seq(Nat)
    BY CurrentTypes, RecordTypes DEF TypeOK, Job
  <1>4. job[k].nodes = Held(k).nodes
    BY <1>2, <1>3, OneOrdinalOrder DEF PodsNamed
  <1>5. job[k].call = "updateSize" /\ job[k].size # Held(k).size
    BY <1>4 DEF CopyInv, CopyDiffers, UpdateSize, UpdateNodes
  <1> QED
    BY <1>2, <1>5

(* A status is rewritten with nothing new in it only where a list came in  *)
(* another order than the ordinal one.                                     *)
THEOREM OnlyNewsOrOrder == Spec => RewrittenForOrderOnly
  BY UpdateIsNews, StoreTypeCorrect, CopyInvariant, PTL DEF Spec, RewrittenForOrderOnly

-----------------------------------------------------------------------------
(* What StatefulSets are made from.                                        *)

(* A StatefulSet that is there after a step was there before, but for its  *)
(* replicas, or is made from the version a reconcile works on.             *)
LEMMA StatefulSetsBefore ==
    ASSUME TypeOK, NEW n \in Names, sts'[n].live,
           Environment \/ \E k \in Keys : GetStore(k) \/ CallOfReconcile(k)
    PROVE  \/ /\ sts[n].live
              /\ sts'[n].owner = sts[n].owner
              /\ sts'[n].container = sts[n].container
           \/ \E k \in Keys :
                 /\ NameOf(k) = n
                 /\ job[k].call = "create" /\ Held(k).image
                 /\ sts'[n] = StatefulSetFor(k, Held(k))
  <1> DEFINE Stays == /\ sts[n].live
                      /\ sts'[n].owner = sts[n].owner
                      /\ sts'[n].container = sts[n].container
  <1>1. sts \in [Names -> StatefulSet]
    BY DEF TypeOK
  <1>2. UNCHANGED sts => Stays
    OBVIOUS
  <1>3. ASSUME NEW m \in Names, Others(m) PROVE Stays
    <2>1. ASSUME NEW r, sts' = [sts EXCEPT ![m] = [sts[m] EXCEPT !.replicas = r]]
          PROVE  Stays
      <3>1. sts'[n] \in {sts[n], [sts[n] EXCEPT !.replicas = r]}
        BY <1>1, <2>1
      <3> QED
        BY <1>1, <3>1 DEF StatefulSet
    <2>2. ASSUME sts' = [sts EXCEPT ![m] = NoStatefulSet] PROVE Stays
      <3>1. sts'[n] \in {sts[n], NoStatefulSet}
        BY <1>1, <2>2
      <3> QED
        BY <3>1 DEF NoStatefulSet
    <2> QED
      BY <1>2, <1>3, <2>1, <2>2 DEF Others, ScaledByHand, DeletedByHand,
         ForeignWrites, CollectGarbage, PodStarts, PodStops, PodLost,
         StrangerStarts, PodsBecome, server
  <1>4. ASSUME NEW k \in Keys, Users(k) \/ Queues(k) PROVE Stays
    BY <1>2, <1>4 DEF Users, CreateStore, EditStore, DeleteStore, UserWrites,
       Queues, DeliverStore, Resync, DelayEnds, server
  <1>5. ASSUME NEW m \in Names, DeliverStatefulSet(m) PROVE Stays
    BY <1>2, <1>5 DEF DeliverStatefulSet, server
  <1>6. ASSUME NEW k \in Keys, GetStore(k) \/ CallOfReconcile(k),
               ~CreateStatefulSet(k)
        PROVE  Stays
    BY <1>2, <1>6 DEF GetStore, CallOfReconcile, GetStatefulSet, ListPods,
       UpdateSize, UpdateNodes, server
  <1>7. ASSUME NEW k \in Keys, CreateStatefulSet(k)
        PROVE  \/ Stays
               \/ /\ NameOf(k) = n /\ job[k].call = "create" /\ Held(k).image
                  /\ sts'[n] = StatefulSetFor(k, Held(k))
    BY <1>1, <1>2, <1>7 DEF CreateStatefulSet
  <1> HIDE DEF Stays
  <1>8. Stays \/ \E k \in Keys :
                    /\ NameOf(k) = n
                    /\ job[k].call = "create" /\ Held(k).image
                    /\ sts'[n] = StatefulSetFor(k, Held(k))
    BY <1>3, <1>4, <1>5, <1>6, <1>7 DEF Environment
  <1> QED
    BY <1>8 DEF Stays

(* What Made says of a StatefulSet after a step.                           *)
MadeAfter(n, statefulSet) ==
    \E k \in Keys :
        /\ NameOf(k) = n
        /\ \E i \in 1..Len(crLog'[k]) : MadeFrom(k, crLog'[k][i], statefulSet)

(* A version that a StatefulSet was made from stays there, and neither     *)
(* replicas nor later versions matter.                                     *)
LEMMA MadeStays ==
    ASSUME NEW n, NEW s, NEW t, Made(n, s),
           t.owner = s.owner, t.container = s.container,
           \A k \in Keys : VersionsKept(k)
    PROVE  MadeAfter(n, t)
  <1>1. PICK k \in Keys :
           NameOf(k) = n /\ \E i \in 1..Len(crLog[k]) : MadeFrom(k, crLog[k][i], s)
    BY DEF Made
  <1>2. PICK i \in 1..Len(crLog[k]) : MadeFrom(k, crLog[k][i], s)
    BY <1>1
  <1>3. i \in 1..Len(crLog'[k]) /\ MadeFrom(k, crLog'[k][i], t)
    BY <1>2 DEF VersionsKept, MadeFrom
  <1> QED
    BY <1>1, <1>3 DEF MadeAfter

(* What a reconcile makes is made from a live version with an image.       *)
LEMMA MadeByReconcile ==
    ASSUME TypeOK, CopyInv, NEW k \in Keys, job[k].call = "create", Held(k).image
    PROVE  Made(NameOf(k), StatefulSetFor(k, Held(k)))
  <1>1. Held(k).live /\ job[k].rv \in 1..Len(crLog[k])
    BY DEF CopyInv, CopyLives, TypeOK
  <1>2. MadeFrom(k, Held(k), StatefulSetFor(k, Held(k)))
    BY <1>1 DEF MadeFrom, StatefulSetFor, StatefulSetForStore,
                StatefulSetForController
  <1> QED
    BY <1>1, <1>2 DEF Made, Held

(* A step of the environment or of one reconcile keeps StatefulSets of one *)
(* piece.                                                                  *)
LEMMA MadeStep ==
    ASSUME TypeOK, CopyInv, StatefulSetsMade,
           Environment \/ \E k \in Keys : GetStore(k) \/ CallOfReconcile(k)
    PROVE  StatefulSetsMade'
  <1> SUFFICES ASSUME NEW n \in Names, sts'[n].live PROVE MadeAfter(n, sts'[n])
    BY DEF StatefulSetsMade, Made, MadeAfter
  <1>1. \A k \in Keys : VersionsKept(k)
    BY OutsideSteps, ReconcileSteps
  <1>2. CASE /\ sts[n].live
             /\ sts'[n].owner = sts[n].owner
             /\ sts'[n].container = sts[n].container
    BY <1>1, <1>2, MadeStays DEF StatefulSetsMade
  <1>3. ASSUME NEW k \in Keys, NameOf(k) = n,
               job[k].call = "create", Held(k).image,
               sts'[n] = StatefulSetFor(k, Held(k))
        PROVE  MadeAfter(n, sts'[n])
    BY <1>1, <1>3, MadeByReconcile, MadeStays
  <1> QED
    BY <1>2, <1>3, StatefulSetsBefore

(* What touches neither CRs nor StatefulSets keeps them, too.              *)
LEMMA MadeUnchanged ==
    StatefulSetsMade /\ UNCHANGED <<crLog, sts>> => StatefulSetsMade'
  BY DEF StatefulSetsMade, Made

(* Every StatefulSet is owned by an incarnation of a CR of its name that   *)
(* named an image, with the container of that CR's kind: a Store and a     *)
(* Controller of one name share it, but never mix it.                      *)
THEOREM StatefulSetsOfOnePiece == Spec => []StatefulSetsMade
  <1>1. Init => StatefulSetsMade
    BY DEF Init, StatefulSetsMade, NoStatefulSet
  <1>2. TypeOK /\ CopyInv /\ StatefulSetsMade /\ [Next]_vars => StatefulSetsMade'
    BY MadeStep, MadeUnchanged DEF Next, Restart, vars, server
  <1> QED
    BY <1>1, <1>2, StoreTypeCorrect, CopyInvariant, PTL DEF Spec
=============================================================================
