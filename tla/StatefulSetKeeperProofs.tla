------------------------ MODULE StatefulSetKeeperProofs ------------------------
(***************************************************************************)
(* StatefulSetReconciler implements StatefulSetKeeper, for every set of CRs*)
(* and every bound: every step is one of the keeper, or one that it may    *)
(* take for forgetting a list or going on to a newer version of the CR.    *)
(***************************************************************************)
EXTENDS StatefulSetReconcilerProofs

(* The constants and records there are those here.                         *)
LEMMA SameObjects ==
    /\ Keeper!NoStore = NoStore /\ Keeper!NoStatefulSet = NoStatefulSet
    /\ \A k : Keeper!NameOf(k) = NameOf(k)
    /\ \A k : Keeper!Newest(k) = Current(crLog[k])
    /\ \A k, s : Keeper!StatefulSetFor(k, s) = StatefulSetFor(k, s)
    /\ \A S : Keeper!Orders(S) = Orders(S)
  <1>1. Keeper!NoStore = NoStore /\ Keeper!NoStatefulSet = NoStatefulSet
    BY DEF Keeper!NoStore, NoStore, Keeper!NoStatefulSet, NoStatefulSet,
           Keeper!NoOwner, NoOwner, Keeper!NoContainer, NoContainer
  <1>2. /\ \A k : Keeper!NameOf(k) = NameOf(k)
        /\ \A k : Keeper!Newest(k) = Current(crLog[k])
    BY DEF Keeper!NameOf, NameOf, Keeper!Newest, Current
  <1>3. \A k, s : Keeper!StatefulSetFor(k, s) = StatefulSetFor(k, s)
    BY DEF Keeper!StatefulSetFor, StatefulSetFor, Keeper!Kind, Kind,
           Keeper!StatefulSetForStore, StatefulSetForStore,
           Keeper!StatefulSetForController, StatefulSetForController
  <1>4. \A S : Keeper!Orders(S) = Orders(S)
    <2> SUFFICES ASSUME NEW S PROVE Keeper!Orders(S) = Orders(S)
      OBVIOUS
    <2> QED
      BY DEF Keeper!Orders, Orders, Keeper!Cardinality, Cardinality
  <1> QED
    BY <1>1, <1>2, <1>3, <1>4

(* The version a keeper goes by is one there is, and its list is a list.   *)
LEMMA MappedTypes ==
    ASSUME TypeOK, NEW k \in Keys
    PROVE  /\ Read(k) \in 1..Len(crLog[k]) /\ Read(k) \in Nat
           /\ Listed(k) \in Keeper!List /\ Keeper!NothingListed \in Keeper!List
           /\ Len(crLog[k]) \in Nat
  <1>1. /\ crSeen[k] \in 1..Len(crLog[k]) /\ crSeen[k] \in Nat
        /\ job[k].rv \in 1..Len(crLog[k]) /\ job[k] \in Job
    BY DEF TypeOK
  <1>2. job[k].rv \in Nat /\ job[k].podNames \in Seq(Nat) /\ <<>> \in Seq(Nat)
    BY <1>1 DEF Job
  <1>3. Len(crLog[k]) \in Nat
    BY CurrentTypes
  <1> QED
    BY <1>1, <1>2, <1>3 DEF Read, Listed, Keeper!List, Keeper!NothingListed

(* What the keeper sees of k when it does nothing for it: the same, a newer*)
(* version to go by, or a list it has forgotten.                           *)
Quiet(k) ==
    /\ Read(k)' \in Nat /\ Read(k) <= Read(k)' /\ Read(k)' <= Len(crLog[k])
    /\ Listed(k)' \in {Listed(k), Keeper!NothingListed}

(* A CR whose job and cache do not move is quiet.                          *)
LEMMA SameIsQuiet ==
    ASSUME TypeOK, NEW k \in Keys, job'[k] = job[k], crSeen'[k] = crSeen[k]
    PROVE  Quiet(k) /\ Read(k)' = Read(k) /\ Listed(k)' = Listed(k)
  <1>1. Read(k)' = Read(k) /\ Listed(k)' = Listed(k)
    BY DEF Read, Listed
  <1> QED
    BY <1>1, MappedTypes DEF Quiet

(* A step that leaves the objects alone, and all CRs quiet, is one that    *)
(* the keeper takes for forgetting.                                        *)
LEMMA QuietMaps ==
    ASSUME TypeOK, UNCHANGED <<crLog, sts, pods>>, \A k \in Keys : Quiet(k)
    PROVE  Keeper!Forget
  <1> DEFINE Reads == [k \in Keys |-> Read(k)]
             Lists == [k \in Keys |-> Listed(k)]
  <1>1. Reads' \in [Keys -> Nat]
    BY DEF Quiet
  <1>2. \A k \in Keys : Reads'[k] \in Reads[k]..Len(crLog[k])
    BY MappedTypes DEF Quiet
  <1>3. Lists' \in [Keys -> Keeper!List]
    BY MappedTypes DEF Quiet
  <1>4. \A k \in Keys : Lists'[k] \in {Lists[k], Keeper!NothingListed}
    BY DEF Quiet
  <1> QED
    BY <1>1, <1>2, <1>3, <1>4 DEF Keeper!Forget, Keeper!GoOn

-----------------------------------------------------------------------------
(* The steps outside of a reconcile.                                       *)

(* The keeper starts on an empty cluster, too.                             *)
LEMMA InitMaps == Init => Keeper!Init
  <1> SUFFICES ASSUME Init PROVE Keeper!Init
    OBVIOUS
  <1>1. \A k \in Keys : Read(k) = 1 /\ Listed(k) = Keeper!NothingListed
    BY DEF Init, NoJob, Read, Listed, Keeper!NothingListed
  <1> QED
    BY <1>1, SameObjects DEF Init, Keeper!Init

(* A user asks.                                                            *)
LEMMA UsersMap ==
    ASSUME TypeOK, NEW k \in Keys, Users(k)
    PROVE  Keeper!UserAsks(k)
  <1>1. ASSUME NEW store, UserWrites(k, store) PROVE Keeper!Ask(k, store)
    <2>1. UNCHANGED <<sts, pods, crSeen, job>>
      BY <1>1 DEF UserWrites, cache
    <2>2. /\ \A j \in Keys : Read(j)' = Read(j)
          /\ \A j \in Keys : Listed(j)' = Listed(j)
      BY <2>1 DEF Read, Listed
    <2> QED
      BY <1>1, <2>1, <2>2 DEF UserWrites, Commit, Keeper!Ask
  <1>2. ASSUME NEW n \in Replicas, NEW i \in Images, CreateStore(k, n, i)
        PROVE  Keeper!UserAsks(k)
    BY <1>1, <1>2, SameObjects DEF CreateStore, Rv, Keeper!UserAsks
  <1>3. ASSUME NEW n \in Replicas, NEW i \in Images, EditStore(k, n, i)
        PROVE  Keeper!UserAsks(k)
    BY <1>1, <1>3, SameObjects DEF EditStore, Keeper!UserAsks
  <1>4. CASE DeleteStore(k)
    BY <1>1, <1>4, SameObjects DEF DeleteStore, Keeper!UserAsks
  <1> QED
    BY <1>2, <1>3, <1>4 DEF Users

(* Others write the StatefulSet, and pods come and go.                     *)
LEMMA OthersMap ==
    ASSUME TypeOK, NEW n \in Names, Others(n)
    PROVE  Keeper!OthersWrite(n) \/ Keeper!PodsChange(n)
  <1>1. UNCHANGED <<crLog, crSeen, job>>
    BY OthersType
  <1>2. /\ \A j \in Keys : Read(j)' = Read(j)
        /\ \A j \in Keys : Listed(j)' = Listed(j)
    BY <1>1 DEF Read, Listed
  <1>3. ASSUME NEW s, UNCHANGED pods, sts[n].live, sts' = [sts EXCEPT ![n] = s],
               \/ s = NoStatefulSet
               \/ \E r \in Replicas \cup {0} : s = [sts[n] EXCEPT !.replicas = r]
        PROVE  Keeper!OthersWrite(n)
    BY <1>1, <1>2, <1>3, SameObjects DEF Keeper!OthersWrite
  <1>4. CASE \/ \E r \in Replicas \cup {0} : ScaledByHand(n, r)
             \/ DeletedByHand(n) \/ CollectGarbage(n)
    BY <1>3, <1>4 DEF ScaledByHand, DeletedByHand, ForeignWrites, CollectGarbage, cache
  <1>5. CASE PodStarts(n) \/ PodStops(n) \/ PodLost(n) \/ StrangerStarts(n)
    <2>1. /\ UNCHANGED sts
          /\ \/ \E p \in 0..(sts[n].replicas - 1) \cup Strangers :
                   pods' = [pods EXCEPT ![n] = pods[n] \cup {p}]
             \/ \E p \in pods[n] : pods' = [pods EXCEPT ![n] = pods[n] \ {p}]
      BY <1>5 DEF PodStarts, PodStops, PodLost, StrangerStarts, PodsBecome, server
    <2> QED
      BY <1>1, <1>2, <2>1 DEF Keeper!PodsChange
  <1> QED
    BY <1>4, <1>5 DEF Others

(* Deliveries, the resync and the ends of delays are quiet.                *)
LEMMA QueuesMap ==
    ASSUME TypeOK,
           \/ \E k \in Keys : Queues(k)
           \/ \E n \in Names : DeliverStatefulSet(n)
    PROVE  Keeper!Forget
  <1>1. UNCHANGED <<crLog, sts, pods, job>>
    BY DEF Queues, DeliverStore, Resync, DelayEnds, DeliverStatefulSet, server, cache
  <1>2. ASSUME NEW j \in Keys PROVE Quiet(j)
    <2>1. CASE crSeen'[j] = crSeen[j]
      BY <1>1, <2>1, SameIsQuiet
    <2>2. CASE DeliverStore(j)
      <3>1. /\ crSeen[j] \in Nat /\ crSeen'[j] = crSeen[j] + 1
            /\ crSeen[j] < Len(crLog[j])
        BY <2>2 DEF DeliverStore, TypeOK, Rv
      <3>2. Listed(j)' = Listed(j) /\ Read(j)' \in {Read(j), crSeen[j] + 1}
            /\ (Read(j) = crSeen[j] \/ Read(j)' = Read(j))
        BY <1>1, <3>1 DEF Listed, Read
      <3>3. crSeen[j] + 1 <= Len(crLog[j]) /\ crSeen[j] + 1 \in Nat
        BY <3>1, MappedTypes
      <3> QED
        BY <3>1, <3>2, <3>3, MappedTypes DEF Quiet
    <2> QED
      BY <2>1, <2>2
      DEF Queues, DeliverStore, Resync, DelayEnds, DeliverStatefulSet, cache, TypeOK
  <1> QED
    BY <1>1, <1>2, QuietMaps

(* A restart goes on to the newest versions and forgets all lists.         *)
LEMMA RestartMaps == ASSUME TypeOK, Restart PROVE Keeper!Forget
  <1>1. UNCHANGED <<crLog, sts, pods>>
    BY DEF Restart, server
  <1>2. ASSUME NEW j \in Keys PROVE Quiet(j)
    <2>1. Read(j)' = Len(crLog[j]) /\ Listed(j)' = Keeper!NothingListed
      BY DEF Restart, Rv, NoJob, Read, Listed, Keeper!NothingListed
    <2> QED
      BY <2>1, MappedTypes DEF Quiet
  <1> QED
    BY <1>1, <1>2, QuietMaps

-----------------------------------------------------------------------------
(* The calls of a reconcile.                                               *)

(* A reconcile of k is quiet for all other CRs.                            *)
LEMMA OtherKeys ==
    ASSUME TypeOK, NEW k \in Keys, GetStore(k) \/ CallOfReconcile(k)
    PROVE  /\ UNCHANGED crSeen /\ job \in [Keys -> Job] /\ job[k] \in Job
           /\ \A j \in Keys \ {k} :
                 Quiet(j) /\ Read(j)' = Read(j) /\ Listed(j)' = Listed(j)
  <1>1. UNCHANGED crSeen /\ \A j \in Keys \ {k} : job'[j] = job[j]
    BY ReconcileSteps
  <1> QED
    BY <1>1, SameIsQuiet DEF TypeOK

(* When a reconcile is over, or has nothing to do with the status any more,*)
(* its keeper goes by the cache and has no list.                           *)
LEMMA OverIsQuiet ==
    ASSUME TypeOK, CopyInv, NEW k \in Keys, UNCHANGED crSeen,
           job'[k].call \in {"idle", "getService", "createService"}
    PROVE  Quiet(k)
  <1>1. Read(k)' = crSeen[k] /\ Listed(k)' = Keeper!NothingListed
    BY DEF Read, Listed, Keeper!NothingListed
  <1>2. Read(k) <= crSeen[k] /\ crSeen[k] \in 1..Len(crLog[k]) /\ crSeen[k] \in Nat
    BY DEF CopyInv, CopyIsRead, Read, TypeOK
  <1> QED
    BY <1>1, <1>2, MappedTypes DEF Quiet

(* The returns, and the end of the work on the status, are such ends.      *)
LEMMA Overs ==
    ASSUME TypeOK, NEW k \in Keys, NEW copy \in Job,
           Returns(k) \/ Finish(k, copy)
    PROVE  job'[k].call \in {"idle", "getService", "createService"}
  <1>1. job \in [Keys -> Job]
    BY DEF TypeOK
  <1>2. CASE Returns(k)
    BY <1>1, <1>2 DEF Returns, ReturnLater, ReturnError, ReturnDone, Return, NoJob
  <1>3. CASE Finish(k, copy) /\ Kind(k) # "Store"
    <2>1. job'[k] = [copy EXCEPT !.call = "getService"]
      BY <1>1, <1>3 DEF Finish, Becomes
    <2> QED
      BY <2>1 DEF Job
  <1> QED
    BY <1>2, <1>3 DEF Finish, Returns

(* Until the pods are listed, the keeper goes by the version of the        *)
(* reconcile, and has listed nothing.                                      *)
LEMMA GetsMap ==
    ASSUME TypeOK, CopyInv, NEW k \in Keys, GetStore(k) \/ GetStatefulSet(k)
    PROVE  Keeper!Forget
  <1>1. UNCHANGED <<crLog, sts, pods, crSeen>>
    BY DEF GetStore, GetStatefulSet, server, cache
  <1>2. job \in [Keys -> Job] /\ job[k] \in Job
    BY DEF TypeOK
  <1>3. CASE GetStore(k)
    <2>1. job[k].call = "idle"
      BY <1>3 DEF GetStore
    <2>2. CASE job'[k].call = "getStatefulSet" /\ job'[k].rv = crSeen[k]
      <3>1. Read(k)' = Read(k) /\ Listed(k)' = Listed(k)
        BY <1>1, <2>1, <2>2 DEF Read, Listed
      <3> QED
        BY <1>1, <1>3, <3>1, MappedTypes, OtherKeys, QuietMaps DEF Quiet
    <2>3. CASE Returns(k)
      BY <1>1, <1>2, <1>3, <2>3, Overs, OverIsQuiet, OtherKeys, QuietMaps
    <2> QED
      BY <1>2, <1>3, <2>2, <2>3 DEF GetStore, Becomes, Returns
  <1>4. CASE GetStatefulSet(k)
    <2>1. PICK call \in {"create", "listPods"} : Proceed(k, call)
      BY <1>4 DEF GetStatefulSet
    <2>2. job'[k] = [job[k] EXCEPT !.call = call]
      BY <1>2, <2>1 DEF Proceed, Becomes
    <2>3. job'[k].call = call /\ job'[k].rv = job[k].rv
      BY <1>2, <2>2 DEF Job
    <2>4. Read(k)' = Read(k) /\ Listed(k)' = Listed(k)
      BY <1>4, <2>3 DEF GetStatefulSet, Read, Listed
    <2>5. Quiet(k)
      BY <2>4, MappedTypes DEF Quiet
    <2> QED
      BY <1>1, <1>4, <2>5, OtherKeys, QuietMaps DEF CallOfReconcile
  <1> QED
    BY <1>3, <1>4

(* An accepted Create makes the StatefulSet of the version that was read.  *)
LEMMA CreateMaps ==
    ASSUME TypeOK, CopyInv, NEW k \in Keys, CreateStatefulSet(k)
    PROVE  Keeper!MakeStatefulSet(k) \/ Keeper!Forget
  <1>1. /\ UNCHANGED <<crLog, pods, crSeen>>
        /\ job[k].call = "create"
        /\ \/ UNCHANGED sts
           \/ /\ ~Sts(k).live /\ Held(k).image
              /\ sts' = [sts EXCEPT ![NameOf(k)] = StatefulSetFor(k, Held(k))]
    BY DEF CreateStatefulSet, cache
  <1>2. job \in [Keys -> Job] /\ job[k] \in Job
    BY DEF TypeOK
  <1>3. job'[k] = [job[k] EXCEPT !.call = "listPods"]
    BY <1>2 DEF CreateStatefulSet, Proceed, Becomes
  <1>4. job'[k].call = "listPods" /\ job'[k].rv = job[k].rv
    BY <1>2, <1>3 DEF Job
  <1>5. /\ Read(k) = job[k].rv /\ Read(k)' = Read(k) /\ Listed(k)' = Listed(k)
        /\ Held(k).live
    BY <1>1, <1>4 DEF Read, Listed, CopyInv, CopyLives
  <1>6. \A j \in Keys : Quiet(j) /\ Read(j)' = Read(j) /\ Listed(j)' = Listed(j)
    BY <1>5, MappedTypes, OtherKeys DEF Quiet, CallOfReconcile
  <1>7. CASE UNCHANGED sts
    BY <1>1, <1>6, <1>7, QuietMaps
  <1>8. CASE /\ ~Sts(k).live /\ Held(k).image
             /\ sts' = [sts EXCEPT ![NameOf(k)] = StatefulSetFor(k, Held(k))]
    <2>1. Held(k) = crLog[k][Read(k)]
      BY <1>5 DEF Held
    <2> QED
      BY <1>1, <1>5, <1>6, <1>8, <2>1, SameObjects DEF Keeper!MakeStatefulSet, Sts
  <1> QED
    BY <1>1, <1>7, <1>8

(* The List of the pods is the list of the keeper, for the version that    *)
(* was read, unless there is nothing to report.                            *)
LEMMA ListMaps ==
    ASSUME TypeOK, CopyInv, NEW k \in Keys, ListPods(k)
    PROVE  Keeper!ListPods(k) \/ Keeper!Forget
  <1>1. UNCHANGED <<crLog, sts, pods, crSeen>> /\ job[k].call = "listPods"
    BY DEF ListPods, server, cache
  <1>2. job \in [Keys -> Job] /\ job[k] \in Job
    BY DEF TypeOK
  <1>3. \A j \in Keys \ {k} : Quiet(j) /\ Read(j)' = Read(j) /\ Listed(j)' = Listed(j)
    BY OtherKeys DEF CallOfReconcile
  <1>4. ASSUME job'[k].call \in {"idle", "getService", "createService"}
        PROVE  Keeper!Forget
    BY <1>1, <1>3, <1>4, OverIsQuiet, QuietMaps
  <1>5. ASSUME NEW order \in Orders(Pods(k)),
               job'[k].call \in {"updateSize", "updateNodes"},
               job'[k].rv = job[k].rv, job'[k].podNames = order
        PROVE  Keeper!ListPods(k)
    <2>1. /\ Read(k) = job[k].rv /\ Read(k)' = crSeen[k]
          /\ Listed(k)' = [version |-> Read(k), order |-> order]
          /\ Read(k) <= Read(k)'
          /\ crSeen[k] \in 1..Len(crLog[k]) /\ crSeen[k] \in Nat
      BY <1>1, <1>5 DEF Read, Listed, CopyInv, CopyIsRead, TypeOK
    <2> DEFINE Reads == [j \in Keys |-> Read(j)]
               Lists == [j \in Keys |-> Listed(j)]
    <2>2. Lists' = [Lists EXCEPT ![k] = [version |-> Reads[k], order |-> order]]
      BY <1>3, <2>1
    <2>3. Reads' \in [Keys -> Nat]
      BY <1>3, <2>1 DEF Quiet
    <2>4. \A j \in Keys : Reads'[j] \in Reads[j]..Len(crLog[j])
      BY <1>3, <2>1, MappedTypes DEF Quiet
    <2>5. order \in Keeper!Orders(pods[Keeper!NameOf(k)])
      BY SameObjects DEF Pods
    <2> QED
      BY <1>1, <2>2, <2>3, <2>4, <2>5 DEF Keeper!ListPods, Keeper!GoOn
  <1>6. ASSUME NEW order \in Orders(Pods(k)),
               AfterList(k, [job[k] EXCEPT !.podNames = order])
        PROVE  Keeper!ListPods(k) \/ Keeper!Forget
    <2> DEFINE copy == [job[k] EXCEPT !.podNames = order]
    <2>1. copy \in Job /\ copy.rv = job[k].rv /\ copy.podNames = order
      BY <1>2, OrdersType DEF Job
    <2> HIDE DEF copy
    <2>2. ASSUME job'[k] = [copy EXCEPT !.call = "updateSize", !.size = Held(k).replicas]
          PROVE  Keeper!ListPods(k)
      <3>1. job'[k].call = "updateSize" /\ job'[k].rv = copy.rv
            /\ job'[k].podNames = copy.podNames
        BY <2>1, <2>2 DEF Job
      <3> QED
        BY <1>5, <2>1, <3>1
    <2>3. ASSUME job'[k] = [copy EXCEPT !.call = "updateNodes", !.nodes = copy.podNames]
          PROVE  Keeper!ListPods(k)
      <3>1. job'[k].call = "updateNodes" /\ job'[k].rv = copy.rv
            /\ job'[k].podNames = copy.podNames
        BY <2>1, <2>3 DEF Job
      <3> QED
        BY <1>5, <2>1, <3>1
    <2>4. Finish(k, copy) => Keeper!Forget
      BY <1>4, <2>1, Overs
    <2>5. AfterList(k, copy)
      BY <1>6 DEF copy
    <2> QED
      BY <1>2, <2>2, <2>3, <2>4, <2>5 DEF AfterList, AfterSize, Becomes
  <1> QED
    BY <1>2, <1>4, <1>6, Overs DEF ListPods, Returns

(* What an update of the status leaves of the list: nothing, or the list   *)
(* for the version that the copy has then.                                 *)
LEMMA ListAfterUpdate ==
    ASSUME TypeOK, NEW k \in Keys, NEW copy \in {job[k], Updated(k)}, copy \in Job,
           AfterSize(k, copy) \/ Finish(k, copy)
    PROVE  /\ Listed(k)' \in {Keeper!NothingListed,
                              [version |-> copy.rv, order |-> job[k].podNames]}
           /\ Read(k)' = crSeen'[k]
  <1>1. job \in [Keys -> Job] /\ copy.podNames = job[k].podNames
    BY DEF TypeOK, Updated, Job
  <1>2. ASSUME Finish(k, copy)
        PROVE  Listed(k)' = Keeper!NothingListed /\ Read(k)' = crSeen'[k]
    BY <1>2, Overs DEF Listed, Read, Keeper!NothingListed
  <1>3. ASSUME job'[k] = [copy EXCEPT !.call = "updateNodes", !.nodes = copy.podNames]
        PROVE  /\ Listed(k)' = [version |-> copy.rv, order |-> job[k].podNames]
               /\ Read(k)' = crSeen'[k]
    <2>1. job'[k].call = "updateNodes" /\ job'[k].rv = copy.rv
          /\ job'[k].podNames = copy.podNames
      BY <1>3 DEF Job
    <2> QED
      BY <1>1, <2>1 DEF Listed, Read
  <1> QED
    BY <1>1, <1>2, <1>3 DEF AfterSize, Becomes

(* An accepted update is a report: on the version the pods were listed for,*)
(* of the size it asks for, and of something new.                          *)
LEMMA UpdatesMap ==
    ASSUME TypeOK, CopyInv, NEW k \in Keys, UpdateSize(k) \/ UpdateNodes(k)
    PROVE  Keeper!Report(k) \/ Keeper!Forget
  <1>1. PICK copy \in {job[k], Updated(k)} :
           UpdateStatus(k, copy) /\ (AfterSize(k, copy) \/ Finish(k, copy))
    BY DEF UpdateSize, UpdateNodes
  <1>2. /\ UNCHANGED <<sts, pods, crSeen>>
        /\ job[k].call \in {"updateSize", "updateNodes"}
    BY DEF UpdateSize, UpdateNodes, cache
  <1>3. copy \in Job /\ job[k] \in Job
    BY <1>1, StatusWrite DEF GoodCopy, TypeOK
  <1>4. \A j \in Keys \ {k} : Quiet(j) /\ Read(j)' = Read(j) /\ Listed(j)' = Listed(j)
    BY OtherKeys DEF CallOfReconcile
  <1>5. /\ Read(k) = crSeen[k] /\ Read(k)' = Read(k)
        /\ Listed(k) = [version |-> job[k].rv, order |-> job[k].podNames]
        /\ Listed(k)' \in {Keeper!NothingListed,
                           [version |-> copy.rv, order |-> job[k].podNames]}
    BY <1>1, <1>2, <1>3, ListAfterUpdate DEF Read, Listed
  <1>6. CASE UNCHANGED crLog /\ copy = job[k]
    <2>1. Quiet(k)
      BY <1>5, <1>6, MappedTypes DEF Quiet
    <2> QED
      BY <1>2, <1>4, <1>6, <2>1, QuietMaps
  <1>7. CASE /\ StatusAccepted(k)
             /\ crLog' = [crLog EXCEPT ![k] = Commit(@, WithStatus(k))]
    <2> DEFINE Lists == [j \in Keys |-> Listed(j)]
               Reads == [j \in Keys |-> Read(j)]
               newest == Current(crLog[k])
    <2>1. /\ job[k].rv = Len(crLog[k]) /\ Held(k) = newest
          /\ newest.live /\ newest \in Store /\ job[k].nodes # <<>>
      BY <1>7, CurrentTypes DEF StatusAccepted, UpdateAccepted, Held, Current, Rv
    <2>2. /\ job[k].size = newest.replicas
          /\ job[k].nodes \in {newest.nodes, job[k].podNames}
          /\ job[k].size # newest.size \/ job[k].nodes # newest.nodes
      BY <1>2, <2>1 DEF CopyInv, SizeOfCopy, CopyDiffers
    <2>3. WithStatus(k) = [newest EXCEPT !.size = newest.replicas, !.nodes = job[k].nodes]
      BY <2>2 DEF WithStatus
    <2>4. WithStatus(k) # newest
      <3>1. WithStatus(k).size = job[k].size /\ WithStatus(k).nodes = job[k].nodes
        BY <2>1 DEF WithStatus, Store
      <3> QED
        BY <2>2, <3>1
    <2>5. /\ Lists[k].version = Len(crLog[k])
          /\ job[k].nodes \in {newest.nodes, Lists[k].order} \ {<<>>}
      BY <1>5, <2>1, <2>2
    <2>6. copy.rv \in {job[k].rv, Len(crLog[k]) + 1}
      BY <1>3 DEF Updated, Rv, Job
    <2>7. Listed(k)' \in {Keeper!NothingListed, Lists[k],
                          [Lists[k] EXCEPT !.version = Len(crLog[k]) + 1]}
      BY <1>5, <2>6
    <2>8. /\ Lists' = [Lists EXCEPT ![k] = Listed(k)']
          /\ UNCHANGED Reads
      BY <1>4, <1>5
    <2>9. \E list \in {Keeper!NothingListed, Lists[k],
                       [Lists[k] EXCEPT !.version = Len(crLog[k]) + 1]} :
             Lists' = [Lists EXCEPT ![k] = list]
      BY <2>7, <2>8
    <2>10. \E nodes \in {newest.nodes, Lists[k].order} \ {<<>>} :
              LET reported == [newest EXCEPT !.size = newest.replicas, !.nodes = nodes]
              IN  /\ reported # newest
                  /\ crLog' = [crLog EXCEPT ![k] = Append(@, reported)]
      BY <1>7, <2>3, <2>4, <2>5 DEF Commit
    <2>11. Keeper!Newest(k) = newest
      BY SameObjects
    <2> HIDE DEF Lists, Reads, newest
    <2>12. Keeper!Report(k)
      BY <1>2, <2>1, <2>5, <2>8, <2>9, <2>10, <2>11 DEF Keeper!Report, Lists, Reads
    <2> QED
      BY <2>12
  <1> QED
    BY <1>1, <1>6, <1>7 DEF UpdateStatus

-----------------------------------------------------------------------------
(* All steps but the restart, which ControllerReconciler extends.          *)
LEMMA StepsMap ==
    ASSUME TypeOK, CopyInv,
           Environment \/ \E k \in Keys : GetStore(k) \/ CallOfReconcile(k)
    PROVE  Keeper!Next
  <1>1. ASSUME NEW k \in Keys, Users(k) PROVE Keeper!Next
    BY <1>1, UsersMap DEF Keeper!Next
  <1>2. ASSUME NEW n \in Names, Others(n) PROVE Keeper!Next
    BY <1>2, OthersMap DEF Keeper!Next
  <1>3. CASE \/ \E k \in Keys : Queues(k)
             \/ \E n \in Names : DeliverStatefulSet(n)
    BY <1>3, QueuesMap DEF Keeper!Next
  <1>4. ASSUME NEW k \in Keys, GetStore(k) \/ CallOfReconcile(k) PROVE Keeper!Next
    BY <1>4, GetsMap, CreateMaps, ListMaps, UpdatesMap DEF CallOfReconcile, Keeper!Next
  <1> QED
    BY <1>1, <1>2, <1>3, <1>4 DEF Environment

(* The reconcilers implement the keeper: over caches of any age, crashes   *)
(* between any two calls, refused and lost writes, the objects change as   *)
(* if each StatefulSet were made, and each status reported, by one who     *)
(* looks at them directly.                                                 *)
THEOREM KeeperImplementation == Spec => ImplementsKeeper
  <1>1. TypeOK /\ CopyInv /\ [Next]_vars => [Keeper!Next]_(Keeper!vars)
    <2> SUFFICES ASSUME TypeOK, CopyInv, [Next]_vars
                 PROVE  [Keeper!Next]_(Keeper!vars)
      OBVIOUS
    <2>1. CASE Restart
      BY <2>1, RestartMaps DEF Keeper!Next
    <2>2. CASE UNCHANGED vars
      BY <2>2 DEF vars, server, cache, Keeper!vars, Read, Listed
    <2> QED
      BY <2>1, <2>2, StepsMap DEF Next
  <1> QED
    BY <1>1, InitMaps, StoreTypeCorrect, CopyInvariant, PTL
    DEF Spec, ImplementsKeeper, Keeper!Spec
=============================================================================
