-------------------- MODULE DeploymentReconcilerProofs --------------------
(***************************************************************************)
(* What DeploymentReconciler guarantees for every set of processes and of  *)
(* CRs, whatever names these share, with leader election or without, and   *)
(* for every bound: the types, that a process never goes back, that a CR   *)
(* it has stopped working on is settled, what Deployments are made from,   *)
(* and that the reconcilers implement DeploymentFollower.  The inductive   *)
(* invariant is WorkInv with the types.                                    *)
(***************************************************************************)
EXTENDS DeploymentReconciler, ApiServerProofs

(* A CR has a name.                                                        *)
LEMMA KeyNames == \A k \in Keys : NameOf(k) \in Names
  BY KeysAssumption DEF NameOf

(* A job has a CR and a process, and so a place in its cache of Deployments.*)
LEMMA JobNames ==
    ASSUME NEW j \in Jobs
    PROVE  /\ KeyOf(j) \in Keys /\ NameOf(KeyOf(j)) \in Names
           /\ ManagerOf(j) \in Managers
           /\ <<ManagerOf(j), NameOf(KeyOf(j))>> \in Managers \X Names
  BY KeyNames DEF Jobs, KeyOf, ManagerOf

(* The jobs of a process are jobs.                                         *)
LEMMA ManagersJobs == \A m \in Managers : JobsOf(m) \subseteq Jobs
  BY DEF JobsOf, Jobs

(* A process has the jobs that name it.                                    *)
LEMMA JobsOfManager == \A m \in Managers, j \in Jobs : j \in JobsOf(m) <=> ManagerOf(j) = m
  BY DEF JobsOf, Jobs, ManagerOf

(* The records of the model have their types.                              *)
LEMMA RecordTypes ==
    /\ NoGateway \in Gateway
    /\ NoDeployment \in Deployment
    /\ \A k \in Keys, g \in Gateway : DeploymentFor(k, g) \in Deployment
    /\ \A d \in Deployment, n \in Count : [d EXCEPT !.replicas = n] \in Deployment
    /\ \A g \in Gateway, n \in Replicas, i \in Images :
          [g EXCEPT !.replicas = n, !.image = i] \in Gateway
    /\ \A g \in Gateway : [g EXCEPT !.deleting = TRUE] \in Gateway
  BY KeysAssumption
  DEF NoGateway, NoDeployment, Gateway, Deployment, Image, Count,
      DeploymentFor, Owner, NoOwner, Container, NoContainer, Kind

-----------------------------------------------------------------------------
(* Types.                                                                  *)

(* The empty cluster, empty caches and empty queues have their types.      *)
LEMMA InitType == Init => TypeOK
  <1> SUFFICES ASSUME Init PROVE TypeOK
    OBVIOUS
  <1> DEFINE One(v) == <<v>>
  <1>1. ASSUME NEW S, NEW v \in S PROVE One(v) \in Seq(S) /\ Len(One(v)) = 1
    OBVIOUS
  <1>2. /\ One(NoGateway) \in Seq(Gateway) /\ Len(One(NoGateway)) = 1
        /\ One(NoDeployment) \in Seq(Deployment) /\ Len(One(NoDeployment)) = 1
    BY <1>1, RecordTypes
  <1>3. /\ crLog = [k \in Keys |-> One(NoGateway)]
        /\ depLog = [n \in Names |-> One(NoDeployment)]
    BY DEF Init
  <1> HIDE DEF One
  <1>4. /\ crLog \in [Keys -> Seq(Gateway)] /\ depLog \in [Names -> Seq(Deployment)]
        /\ \A k \in Keys : Len(crLog[k]) = 1
        /\ \A n \in Names : Len(depLog[n]) = 1
    BY <1>2, <1>3
  <1>5. LogsOK
    BY <1>4 DEF LogsOK
  <1>6. HeldOK
    <2>1. /\ crSeen = [j \in Jobs |-> 1] /\ crRead = [j \in Jobs |-> 1]
          /\ depRead = [j \in Jobs |-> 1]
          /\ depSeen = [s \in Managers \X Names |-> 1]
      BY DEF Init
    <2>2. \A j \in Jobs : Len(Cr(j)) = 1 /\ Len(Dep(j)) = 1
      BY <1>4, JobNames DEF Cr, Dep
    <2>3. ASSUME NEW j \in Jobs
          PROVE  /\ crSeen[j] \in 1..Len(Cr(j)) /\ crRead[j] \in 1..Len(Cr(j))
                 /\ depRead[j] \in 1..Len(Dep(j))
      <3>1. crSeen[j] = 1 /\ crRead[j] = 1 /\ depRead[j] = 1
        BY <2>1
      <3> QED
        BY <2>2, <3>1
    <2>4. ASSUME NEW m \in Managers, NEW n \in Names
          PROVE  depSeen[<<m, n>>] \in 1..Len(depLog[n])
      <3>1. depSeen[<<m, n>>] = 1 /\ Len(depLog[n]) = 1
        BY <1>4, <2>1
      <3> QED
        BY <3>1
    <2> QED
      BY <2>1, <2>3, <2>4 DEF HeldOK
  <1>7. WorkOK
    BY DEF Init, WorkOK
  <1> QED
    BY <1>5, <1>6, <1>7 DEF TypeOK

(* A write of a CR extends its versions and leaves the other CRs alone.    *)
LEMMA CrExtends ==
    ASSUME TypeOK, NEW k \in Keys, NEW gateway \in Gateway,
           crLog' = [crLog EXCEPT ![k] = Commit(@, gateway)]
    PROVE  Extends(Keys, crLog, crLog', k, gateway, Gateway)
  <1>1. crLog \in [Keys -> Seq(Gateway)]
    BY DEF TypeOK, LogsOK
  <1> QED
    BY <1>1, CommitExtends

(* A write of a Deployment extends its versions and leaves the others      *)
(* alone.                                                                  *)
LEMMA DepExtends ==
    ASSUME TypeOK, NEW n \in Names, NEW deployment \in Deployment,
           depLog' = [depLog EXCEPT ![n] = Commit(@, deployment)]
    PROVE  Extends(Names, depLog, depLog', n, deployment, Deployment)
  <1>1. depLog \in [Names -> Seq(Deployment)]
    BY DEF TypeOK, LogsOK
  <1> QED
    BY <1>1, CommitExtends

(* The versions of an object are a sequence.                               *)
LEMMA LogLengths ==
    ASSUME LogsOK
    PROVE  /\ \A k \in Keys : crLog[k] \in Seq(Gateway) /\ Len(crLog[k]) \in Nat
           /\ \A n \in Names : depLog[n] \in Seq(Deployment) /\ Len(depLog[n]) \in Nat
  BY DEF LogsOK

(* Every CR has a newest version, and all its versions are records of CRs. *)
LEMMA CurrentCr ==
    ASSUME TypeOK, NEW k \in Keys
    PROVE  /\ Len(crLog[k]) \in Nat \ {0}
           /\ Current(crLog[k]) \in Gateway
           /\ \A i \in 1..Len(crLog[k]) : crLog[k][i] \in Gateway
  <1>1. crLog[k] \in Seq(Gateway) /\ Len(crLog[k]) \in Nat
    BY LogLengths DEF TypeOK
  <1>2. <<leader, k>> \in Jobs /\ Cr(<<leader, k>>) = crLog[k]
    BY DEF TypeOK, WorkOK, Jobs, Cr, KeyOf
  <1>3. crSeen[<<leader, k>>] \in 1..Len(crLog[k])
    BY <1>2 DEF TypeOK, HeldOK
  <1> QED
    BY <1>1, <1>3 DEF Current

(* The same of Deployments.                                                *)
LEMMA CurrentDeployment ==
    ASSUME TypeOK, NEW n \in Names
    PROVE  /\ Len(depLog[n]) \in Nat \ {0}
           /\ Current(depLog[n]) \in Deployment
           /\ \A i \in 1..Len(depLog[n]) : depLog[n][i] \in Deployment
  <1>1. depLog[n] \in Seq(Deployment) /\ Len(depLog[n]) \in Nat
    BY LogLengths DEF TypeOK
  <1>2. depSeen[<<leader, n>>] \in 1..Len(depLog[n])
    BY DEF TypeOK, HeldOK, WorkOK
  <1> QED
    BY <1>1, <1>2 DEF Current

(* The versions of a job's objects that caches and reconciles hold.        *)
LEMMA Held ==
    ASSUME TypeOK, NEW j \in Jobs
    PROVE  /\ crSeen[j] \in 1..Len(Cr(j)) /\ crRead[j] \in 1..Len(Cr(j))
           /\ depRead[j] \in 1..Len(Dep(j)) /\ DepSeen(j) \in 1..Len(Dep(j))
           /\ Len(Cr(j)) \in Nat \ {0} /\ Len(Dep(j)) \in Nat \ {0}
           /\ \A i \in 1..Len(Cr(j)) : Cr(j)[i] \in Gateway
           /\ \A i \in 1..Len(Dep(j)) : Dep(j)[i] \in Deployment
           /\ Current(Cr(j)) \in Gateway /\ Current(Dep(j)) \in Deployment
           /\ applied[j] \in Nat
  <1>1. /\ crSeen[j] \in 1..Len(Cr(j)) /\ crRead[j] \in 1..Len(Cr(j))
        /\ depRead[j] \in 1..Len(Dep(j)) /\ DepSeen(j) \in 1..Len(Dep(j))
        /\ applied[j] \in Nat
    BY JobNames DEF TypeOK, HeldOK, WorkOK, DepSeen, Dep
  <1> QED
    BY <1>1, JobNames, CurrentCr, CurrentDeployment DEF Cr, Dep

(* What caches and reconciles hold stays there while the API server only   *)
(* adds versions.                                                          *)
LEMMA GrownHeld ==
    ASSUME TypeOK,
           \A k \in Keys : Len(crLog'[k]) \in Nat /\ Len(crLog'[k]) >= Len(crLog[k]),
           \A n \in Names : Len(depLog'[n]) \in Nat /\ Len(depLog'[n]) >= Len(depLog[n]),
           crSeen' \in [Jobs -> Nat], crRead' \in [Jobs -> Nat],
           depRead' \in [Jobs -> Nat], depSeen' \in [Managers \X Names -> Nat],
           \A j \in Jobs :
              /\ crSeen'[j] = crSeen[j] \/ crSeen'[j] \in 1..Len(Cr(j)')
              /\ crRead'[j] = crRead[j] \/ crRead'[j] \in 1..Len(Cr(j)')
              /\ depRead'[j] = depRead[j] \/ depRead'[j] \in 1..Len(Dep(j)'),
           \A m \in Managers, n \in Names :
              \/ depSeen'[<<m, n>>] = depSeen[<<m, n>>]
              \/ depSeen'[<<m, n>>] \in 1..Len(depLog'[n])
    PROVE  HeldOK'
  <1>1. ASSUME NEW j \in Jobs
        PROVE  /\ crSeen'[j] \in 1..Len(Cr(j)') /\ crRead'[j] \in 1..Len(Cr(j)')
               /\ depRead'[j] \in 1..Len(Dep(j)')
    <2>1. /\ crSeen[j] \in 1..Len(Cr(j)) /\ crRead[j] \in 1..Len(Cr(j))
          /\ depRead[j] \in 1..Len(Dep(j))
          /\ Len(Cr(j)) \in Nat /\ Len(Dep(j)) \in Nat
      BY Held
    <2>2. /\ Len(Cr(j)') \in Nat /\ Len(Cr(j)') >= Len(Cr(j))
          /\ Len(Dep(j)') \in Nat /\ Len(Dep(j)') >= Len(Dep(j))
      BY JobNames DEF Cr, Dep
    <2> QED
      BY <2>1, <2>2
  <1>2. ASSUME NEW m \in Managers, NEW n \in Names
        PROVE  depSeen'[<<m, n>>] \in 1..Len(depLog'[n])
    <2>1. depSeen[<<m, n>>] \in 1..Len(depLog[n]) /\ Len(depLog[n]) \in Nat
      BY LogLengths DEF TypeOK, HeldOK
    <2> QED
      BY <2>1
  <1> QED
    BY <1>1, <1>2 DEF HeldOK

(* A write of a CR keeps the types.                                        *)
LEMMA CrWrittenType ==
    ASSUME TypeOK, NEW k \in Keys, NEW gateway \in Gateway,
           CrWritten(k, gateway), edits' \in Nat
    PROVE  TypeOK'
  <1>1. Extends(Keys, crLog, crLog', k, gateway, Gateway)
    BY CrExtends DEF CrWritten
  <1>2. UNCHANGED <<depLog, crSeen, depSeen, crRead, depRead>>
    BY DEF CrWritten, cache, job
  <1>3. LogsOK'
    BY <1>1, <1>2 DEF Extends, TypeOK, LogsOK
  <1>4. HeldOK'
    <2>1. /\ crSeen \in [Jobs -> Nat] /\ crRead \in [Jobs -> Nat]
          /\ depRead \in [Jobs -> Nat] /\ depSeen \in [Managers \X Names -> Nat]
      BY DEF TypeOK, HeldOK
    <2>2. \A j \in Keys : Len(crLog'[j]) \in Nat /\ Len(crLog'[j]) >= Len(crLog[j])
      BY <1>1 DEF Extends
    <2>3. \A n \in Names : Len(depLog'[n]) \in Nat /\ Len(depLog'[n]) >= Len(depLog[n])
      BY <1>2, LogLengths DEF TypeOK
    <2> QED
      BY <1>2, <2>1, <2>2, <2>3, GrownHeld
  <1>5. WorkOK'
    BY DEF CrWritten, TypeOK, WorkOK, election, queue, job, history
  <1> QED
    BY <1>3, <1>4, <1>5 DEF TypeOK

(* The uid of the next version of a CR: a new one if it does not exist.    *)
NextUid(k) ==
    IF Current(crLog[k]).live THEN Current(crLog[k]).uid ELSE Len(crLog[k]) + 1

(* What users write, and the end of a deletion, are versions of CRs: a CR  *)
(* that is gone, a new one, or the current one changed.                    *)
LEMMA CrWrites ==
    ASSUME TypeOK, NEW k \in Keys, Users(k) \/ FinishDeletion(k)
    PROVE  /\ edits' \in Nat
           /\ \E gateway \in Gateway :
                 /\ CrWritten(k, gateway)
                 /\ \/ gateway = NoGateway
                    \/ gateway.live /\ gateway.uid = NextUid(k)
  <1> DEFINE Fine(g) == g = NoGateway \/ (g.live /\ g.uid = NextUid(k))
             Goal == \E g \in Gateway : CrWritten(k, g) /\ Fine(g)
  <1>0. edits \in Nat /\ Len(crLog[k]) \in Nat /\ Current(crLog[k]) \in Gateway
    BY CurrentCr DEF TypeOK, WorkOK
  <1>1. ASSUME NEW g \in Gateway, Fine(g), UserWrites(k, g)
        PROVE  edits' \in Nat /\ Goal
    BY <1>0, <1>1 DEF UserWrites
  <1> HIDE DEF Goal
  <1>2. ASSUME NEW r \in Replicas, NEW i \in Images, CreateGateway(k, r, i)
        PROVE  edits' \in Nat /\ Goal
    <2> DEFINE g == [live |-> TRUE, deleting |-> FALSE, uid |-> Rv(crLog[k]) + 1,
                     replicas |-> r, image |-> i]
    <2>1. g \in Gateway /\ Fine(g)
      BY <1>0, <1>2 DEF Gateway, Image, Count, Rv, CreateGateway, NextUid
    <2>2. UserWrites(k, g)
      BY <1>2 DEF CreateGateway
    <2> HIDE DEF g
    <2> QED
      BY <1>1, <2>1, <2>2
  <1>3. ASSUME NEW r \in Replicas, NEW i \in Images, EditGateway(k, r, i)
        PROVE  edits' \in Nat /\ Goal
    <2> DEFINE g == [Current(crLog[k]) EXCEPT !.replicas = r, !.image = i]
    <2>1. g \in Gateway
      BY <1>0, RecordTypes
    <2>2. Fine(g) /\ UserWrites(k, g)
      BY <1>0, <1>3 DEF EditGateway, Gateway, NextUid
    <2> HIDE DEF g
    <2> QED
      BY <1>1, <2>1, <2>2
  <1>4. ASSUME DeleteGateway(k) PROVE edits' \in Nat /\ Goal
    BY <1>1, <1>4, RecordTypes DEF DeleteGateway
  <1>5. ASSUME DeleteInForeground(k) PROVE edits' \in Nat /\ Goal
    <2> DEFINE g == [Current(crLog[k]) EXCEPT !.deleting = TRUE]
    <2>1. g \in Gateway
      BY <1>0, RecordTypes
    <2>2. Fine(g) /\ UserWrites(k, g)
      BY <1>0, <1>5 DEF DeleteInForeground, Gateway, NextUid
    <2> HIDE DEF g
    <2> QED
      BY <1>1, <2>1, <2>2
  <1>6. ASSUME FinishDeletion(k) PROVE edits' \in Nat /\ Goal
    BY <1>0, <1>6, RecordTypes DEF FinishDeletion, Goal
  <1>7. edits' \in Nat /\ Goal
    BY <1>2, <1>3, <1>4, <1>5, <1>6 DEF Users
  <1> QED
    BY <1>7 DEF Goal

(* Writes of a Deployment by anyone keep the types of what they touch.     *)
LEMMA DepWriteType ==
    ASSUME TypeOK, NEW n \in Names, NEW deployment \in Deployment,
           depLog' = [depLog EXCEPT ![n] = Commit(@, deployment)],
           UNCHANGED <<crLog, crSeen, depSeen, crRead>>, WorkOK',
           \/ UNCHANGED depRead
           \/ \E j \in Jobs : /\ NameOf(KeyOf(j)) = n
                              /\ depRead' = [depRead EXCEPT ![j] = Rv(Dep(j)) + 1]
    PROVE  TypeOK'
  <1>1. Extends(Names, depLog, depLog', n, deployment, Deployment)
    BY DepExtends
  <1>2. LogsOK'
    BY <1>1 DEF Extends, TypeOK, LogsOK
  <1>3. /\ \A i \in Names : Len(depLog'[i]) \in Nat /\ Len(depLog'[i]) >= Len(depLog[i])
        /\ Len(depLog'[n]) = Len(depLog[n]) + 1
        /\ Len(depLog[n]) \in Nat
    BY <1>1 DEF Extends
  <1>4. /\ depRead' \in [Jobs -> Nat]
        /\ \A j \in Jobs : depRead'[j] = depRead[j] \/ depRead'[j] \in 1..Len(Dep(j)')
    <2>1. depRead \in [Jobs -> Nat]
      BY DEF TypeOK, HeldOK
    <2>2. CASE UNCHANGED depRead
      BY <2>1, <2>2
    <2>3. ASSUME NEW j \in Jobs, NameOf(KeyOf(j)) = n,
                 depRead' = [depRead EXCEPT ![j] = Rv(Dep(j)) + 1]
          PROVE  <1>4
      <3>1. Rv(Dep(j)) + 1 = Len(depLog[n]) + 1 /\ Len(Dep(j)') = Len(depLog[n]) + 1
        BY <1>3, <2>3 DEF Rv, Dep
      <3>2. Rv(Dep(j)) + 1 \in 1..Len(Dep(j)')
        BY <1>3, <3>1
      <3>3. depRead' \in [Jobs -> Nat]
        BY <2>1, <2>3, <3>1, <1>3
      <3>4. \A i \in Jobs \ {j} : depRead'[i] = depRead[i]
        BY <2>1, <2>3
      <3>5. depRead'[j] \in 1..Len(Dep(j)')
        BY <2>1, <2>3, <3>2
      <3> QED
        BY <3>3, <3>4, <3>5
    <2> QED
      BY <2>2, <2>3
  <1>5. HeldOK'
    <2>1. /\ crSeen \in [Jobs -> Nat] /\ crRead \in [Jobs -> Nat]
          /\ depSeen \in [Managers \X Names -> Nat]
      BY DEF TypeOK, HeldOK
    <2>2. \A k \in Keys : Len(crLog'[k]) \in Nat /\ Len(crLog'[k]) >= Len(crLog[k])
      BY LogLengths DEF TypeOK
    <2> QED
      BY <1>3, <1>4, <2>1, <2>2, GrownHeld
  <1> QED
    BY <1>2, <1>5 DEF TypeOK

(* What other clients and the garbage collector may write are Deployments: *)
(* none, or the current one with other replicas.                           *)
LEMMA OthersWrite ==
    ASSUME TypeOK, NEW n \in Names, Others(n)
    PROVE  /\ foreign' \in Nat
           /\ \E deployment \in Deployment :
                 /\ DeploymentWritten(n, deployment)
                 /\ \/ deployment = NoDeployment
                    \/ \E r \in Count :
                          deployment = [Current(depLog[n]) EXCEPT !.replicas = r]
  <1> DEFINE Fine(d) == \/ d = NoDeployment
                        \/ \E r \in Count :
                              d = [Current(depLog[n]) EXCEPT !.replicas = r]
             Goal == \E d \in Deployment : DeploymentWritten(n, d) /\ Fine(d)
  <1>0. Current(depLog[n]) \in Deployment /\ foreign \in Nat
    BY CurrentDeployment DEF TypeOK, WorkOK
  <1>1. ASSUME NEW d \in Deployment, Fine(d), ForeignWrites(n, d)
        PROVE  foreign' \in Nat /\ Goal
    BY <1>0, <1>1 DEF ForeignWrites
  <1>2. ASSUME DeploymentStatusWritten(n) PROVE foreign' \in Nat /\ Goal
    <2>1. Current(depLog[n]) =
             [Current(depLog[n]) EXCEPT !.replicas = Current(depLog[n]).replicas]
      BY <1>0 DEF Deployment
    <2>2. Fine(Current(depLog[n]))
      BY <1>0, <2>1 DEF Deployment
    <2> QED
      BY <1>0, <1>1, <1>2, <2>2 DEF DeploymentStatusWritten
  <1>3. ASSUME NEW r \in Count, DeploymentScaledByHand(n, r)
        PROVE  foreign' \in Nat /\ Goal
    BY <1>0, <1>1, <1>3, RecordTypes DEF DeploymentScaledByHand
  <1>4. ASSUME DeploymentDeletedByHand(n) PROVE foreign' \in Nat /\ Goal
    BY <1>1, <1>4, RecordTypes DEF DeploymentDeletedByHand
  <1>5. ASSUME CollectGarbage(n) PROVE foreign' \in Nat /\ Goal
    BY <1>0, <1>5, RecordTypes DEF CollectGarbage
  <1> HIDE DEF Goal
  <1>6. foreign' \in Nat /\ Goal
    BY <1>2, <1>3, <1>4, <1>5 DEF Others
  <1> QED
    BY <1>6 DEF Goal

(* So what they do keeps the types.                                        *)
LEMMA OthersType ==
    ASSUME TypeOK, NEW n \in Names, Others(n)
    PROVE  TypeOK'
  <1>1. foreign' \in Nat
    BY OthersWrite
  <1>2. PICK d \in Deployment : DeploymentWritten(n, d)
    BY OthersWrite
  <1>3. /\ depLog' = [depLog EXCEPT ![n] = Commit(@, d)]
        /\ UNCHANGED <<crLog, crSeen, depSeen, crRead, depRead>>
    BY <1>2 DEF DeploymentWritten, cache, job
  <1>4. WorkOK'
    BY <1>1, <1>2 DEF DeploymentWritten, TypeOK, WorkOK, election, queue, job, history
  <1> QED
    BY <1>3, <1>4, DepWriteType

(* A step that writes nothing to the API server, and whose reads are of    *)
(* versions it has, keeps the types.                                       *)
LEMMA NoWriteType ==
    ASSUME TypeOK, UNCHANGED server, WorkOK',
           crSeen' \in [Jobs -> Nat], crRead' \in [Jobs -> Nat],
           depRead' \in [Jobs -> Nat], depSeen' \in [Managers \X Names -> Nat],
           \A j \in Jobs :
              /\ crSeen'[j] = crSeen[j] \/ crSeen'[j] \in 1..Len(Cr(j))
              /\ crRead'[j] = crRead[j] \/ crRead'[j] = crSeen[j]
              /\ depRead'[j] = depRead[j] \/ depRead'[j] = DepSeen(j),
           \A m \in Managers, n \in Names :
              \/ depSeen'[<<m, n>>] = depSeen[<<m, n>>]
              \/ depSeen'[<<m, n>>] \in 1..Len(depLog[n])
    PROVE  TypeOK'
  <1>1. UNCHANGED <<crLog, depLog>>
    BY DEF server
  <1>2. \A j \in Jobs : Cr(j)' = Cr(j) /\ Dep(j)' = Dep(j)
    BY <1>1 DEF Cr, Dep
  <1>3. \A j \in Jobs : crSeen[j] \in 1..Len(Cr(j)) /\ DepSeen(j) \in 1..Len(Dep(j))
    BY Held
  <1>4. /\ \A k \in Keys : Len(crLog'[k]) \in Nat /\ Len(crLog'[k]) >= Len(crLog[k])
        /\ \A n \in Names : Len(depLog'[n]) \in Nat /\ Len(depLog'[n]) >= Len(depLog[n])
    BY <1>1, LogLengths DEF TypeOK
  <1>5. HeldOK'
    BY <1>1, <1>2, <1>3, <1>4, GrownHeld
  <1>6. LogsOK'
    BY <1>1 DEF TypeOK, LogsOK
  <1> QED
    BY <1>5, <1>6 DEF TypeOK

(* Deliveries, the resync and ends of back-offs keep the types: a cache    *)
(* never runs ahead of the API server.                                     *)
LEMMA QueuesType ==
    ASSUME TypeOK, NEW j \in Jobs, Queues(j)
    PROVE  TypeOK'
  <1>1. WorkOK'
    BY DEF Queues, DeliverGateway, Resync, BackoffEnds, TypeOK, WorkOK,
           election, job, budget, outside, history
  <1>2. /\ UNCHANGED <<server, crRead, depRead, depSeen>>
        /\ UNCHANGED crSeen \/ (/\ crSeen[j] < Len(Cr(j))
                                /\ crSeen' = [crSeen EXCEPT ![j] = @ + 1])
    BY DEF Queues, DeliverGateway, Resync, BackoffEnds, cache, job, Rv
  <1>3. crSeen[j] \in 1..Len(Cr(j)) /\ Len(Cr(j)) \in Nat
    BY Held
  <1>4. /\ crSeen' \in [Jobs -> Nat]
        /\ \A i \in Jobs : crSeen'[i] = crSeen[i] \/ crSeen'[i] \in 1..Len(Cr(i))
    BY <1>2, <1>3 DEF TypeOK, HeldOK
  <1> QED
    BY <1>1, <1>2, <1>4, NoWriteType DEF TypeOK, HeldOK

(* The same of the cache of Deployments.                                   *)
LEMMA DeliverDeploymentType ==
    ASSUME TypeOK, NEW m \in Managers, NEW n \in Names, DeliverDeployment(m, n)
    PROVE  TypeOK'
  <1>1. WorkOK'
    BY DEF DeliverDeployment, TypeOK, WorkOK, election, queue, job, budget, outside,
           history
  <1>2. /\ UNCHANGED <<server, crRead, depRead, crSeen>>
        /\ depSeen[<<m, n>>] < Len(depLog[n])
        /\ depSeen' = [depSeen EXCEPT ![<<m, n>>] = @ + 1]
    BY DEF DeliverDeployment, job, Rv
  <1>3. depSeen[<<m, n>>] \in 1..Len(depLog[n]) /\ Len(depLog[n]) \in Nat
    BY CurrentDeployment DEF TypeOK, HeldOK
  <1>4. depSeen \in [Managers \X Names -> Nat]
    BY DEF TypeOK, HeldOK
  <1>5. depSeen' \in [Managers \X Names -> Nat]
    BY <1>2, <1>3, <1>4
  <1>6. ASSUME NEW l \in Managers, NEW o \in Names
        PROVE  \/ depSeen'[<<l, o>>] = depSeen[<<l, o>>]
               \/ depSeen'[<<l, o>>] \in 1..Len(depLog[o])
    <2>1. CASE <<l, o>> = <<m, n>>
      BY <1>2, <1>3, <1>4, <2>1
    <2>2. CASE <<l, o>> # <<m, n>>
      BY <1>2, <1>4, <2>2
    <2> QED
      BY <2>1, <2>2
  <1> QED
    BY <1>1, <1>2, <1>5, <1>6, NoWriteType DEF TypeOK, HeldOK

(* What happens to a process.                                              *)
LEMMA ManagerSteps ==
    ASSUME NEW m \in Managers, Manager(m)
    PROVE  /\ UNCHANGED <<server, crRead, depRead, edits, foreign, faults, history>>
           /\ \/ UNCHANGED <<pc, delayed>>
              \/ ProcessEnds(m)
           /\ \/ /\ UNCHANGED active \/ active' = active \cup {m}
                 /\ ControllersStart(m)
              \/ ProcessEnds(m) /\ WaitsForLease(m)
           /\ leader' \in {leader, m}
           /\ restarts' \in {restarts, restarts + 1} /\ lost' \in {lost, lost + 1}
  BY DEF Manager, Restart, AcquireLease, Takeover, FailToRenew, StepDown,
         LeaseIsLost, Exits, Leads, job

(* Whatever becomes of a process keeps the types: the caches list what the *)
(* API server has.                                                         *)
LEMMA ManagerType ==
    ASSUME TypeOK, NEW m \in Managers, Manager(m)
    PROVE  TypeOK'
  <1>1. WorkOK'
    <2>1. pc' \in [Jobs -> {"idle", "getDeployment", "create", "scale"}]
      BY ManagerSteps DEF ProcessEnds, TypeOK, WorkOK
    <2>2. dirty' \subseteq Jobs /\ delayed' \subseteq Jobs
      BY ManagerSteps, ManagersJobs
      DEF ProcessEnds, ControllersStart, WaitsForLease, TypeOK, WorkOK
    <2>3. leader' \in Managers /\ active' \subseteq Managers
      BY ManagerSteps DEF WaitsForLease, TypeOK, WorkOK
    <2>4. restarts' \in Nat /\ lost' \in Nat
      BY ManagerSteps DEF TypeOK, WorkOK
    <2> QED
      BY <2>1, <2>2, <2>3, <2>4, ManagerSteps DEF TypeOK, WorkOK, history
  <1>2. /\ \A j \in Jobs : Rv(Cr(j)) \in Nat /\ Rv(Cr(j)) \in 1..Len(Cr(j))
        /\ \A n \in Names : Rv(depLog[n]) \in Nat /\ Rv(depLog[n]) \in 1..Len(depLog[n])
    BY Held, CurrentDeployment DEF Rv
  <1>3. CASE ControllersStart(m)
    <2>1. /\ crSeen' \in [Jobs -> Nat]
          /\ \A j \in Jobs : crSeen'[j] = crSeen[j] \/ crSeen'[j] \in 1..Len(Cr(j))
      BY <1>2, <1>3 DEF ControllersStart, CachesList, TypeOK, HeldOK
    <2>2. depSeen' \in [Managers \X Names -> Nat]
      BY <1>2, <1>3 DEF ControllersStart, CachesList, TypeOK, HeldOK
    <2>3. \A l \in Managers, n \in Names :
             \/ depSeen'[<<l, n>>] = depSeen[<<l, n>>]
             \/ depSeen'[<<l, n>>] \in 1..Len(depLog[n])
      BY <1>2, <1>3 DEF ControllersStart, CachesList
    <2> QED
      BY <1>1, <2>1, <2>2, <2>3, ManagerSteps, NoWriteType DEF TypeOK, HeldOK
  <1>4. CASE WaitsForLease(m)
    BY <1>1, <1>4, ManagerSteps, NoWriteType DEF WaitsForLease, cache, TypeOK, HeldOK
  <1> QED
    BY <1>3, <1>4, ManagerSteps

(* What a call of a reconcile may change, write or not.                    *)
LEMMA ReconcileSteps ==
    ASSUME NEW j \in Jobs, Reconcile(j)
    PROVE  /\ UNCHANGED <<crLog, election, cache, outside>>
           /\ \E call \in {"idle", "getDeployment", "create", "scale"} :
                 pc' = [pc EXCEPT ![j] = call]
           /\ delayed' \in {delayed, delayed \cup {j}}
           /\ dirty' \in {dirty, dirty \ {j}}
           /\ dropped' \in {dropped, dropped \ {j}, dropped \cup {j}}
           /\ faults' \in {faults, faults + 1}
           /\ UNCHANGED crRead \/ crRead' = [crRead EXCEPT ![j] = crSeen[j]]
  <1> USE DEF ReturnDone, ReturnError, Proceed, Fault, NoFault, server, history
  <1>1. CASE GetGateway(j)
    BY <1>1 DEF GetGateway
  <1>2. CASE GetDeployment(j)
    BY <1>2 DEF GetDeployment
  <1>3. CASE CreateDeployment(j)
    BY <1>3 DEF CreateDeployment
  <1>4. CASE ScaleDeployment(j)
    BY <1>4 DEF ScaleDeployment
  <1> QED
    BY <1>1, <1>2, <1>3, <1>4 DEF Reconcile

(* What a call does to the Deployment: nothing, or it creates it, or it    *)
(* changes the replicas of what is there.                                  *)
Wrote(j, deployment) ==
    /\ OperatorWrites(j, deployment)
    /\ \/ UNCHANGED depRead
       \/ depRead' = [depRead EXCEPT ![j] = Rv(Dep(j)) + 1]

(* The Deployment a Create of the job sends, and the one its Update sends. *)
Built(j) == DeploymentFor(KeyOf(j), Cr(j)[crRead[j]])
Scaled(j) == [Dep(j)[depRead[j]] EXCEPT !.replicas = Cr(j)[crRead[j]].replicas]

(* A call writes what its guard allows: a Create when there is none, an    *)
(* Update of the version it holds.                                         *)
LEMMA ReconcileWrites ==
    ASSUME NEW j \in Jobs, Reconcile(j)
    PROVE  \/ /\ UNCHANGED <<depLog, applied>>
              /\ UNCHANGED depRead \/ depRead' = [depRead EXCEPT ![j] = DepSeen(j)]
           \/ /\ pc[j] = "create" /\ CreateAccepted(Dep(j)) /\ UNCHANGED crRead
              /\ Cr(j)[crRead[j]].image # NoImage
              /\ Wrote(j, Built(j))
           \/ /\ pc[j] = "scale" /\ UpdateAccepted(Dep(j), depRead[j])
              /\ UNCHANGED crRead
              /\ Wrote(j, Scaled(j))
  <1>1. CASE GetGateway(j)
    BY <1>1 DEF GetGateway, server
  <1>2. CASE GetDeployment(j)
    BY <1>2 DEF GetDeployment, server, history
  <1>3. CASE CreateDeployment(j)
    BY <1>3 DEF CreateDeployment, Wrote, Built
  <1>4. CASE ScaleDeployment(j)
    BY <1>4 DEF ScaleDeployment, Wrote, Scaled
  <1> QED
    BY <1>1, <1>2, <1>3, <1>4 DEF Reconcile

(* What a call sends is a Deployment.                                      *)
LEMMA WrittenTypes ==
    ASSUME TypeOK, NEW j \in Jobs
    PROVE  Built(j) \in Deployment /\ Scaled(j) \in Deployment
  <1>1. Cr(j)[crRead[j]] \in Gateway /\ Dep(j)[depRead[j]] \in Deployment
    BY Held
  <1> QED
    BY <1>1, JobNames, RecordTypes DEF Built, Scaled, Gateway

(* The calls of a reconcile keep the types: it works on versions it got    *)
(* from a cache or from the answer to its own write.                       *)
LEMMA ReconcileType ==
    ASSUME TypeOK, NEW j \in Jobs, Reconcile(j)
    PROVE  TypeOK'
  <1>1. UNCHANGED applied \/ applied' = [applied EXCEPT ![j] = crRead[j]]
    BY ReconcileWrites DEF Wrote, OperatorWrites
  <1>2. applied' \in [Jobs -> Nat]
    BY <1>1 DEF TypeOK, WorkOK, HeldOK
  <1>3. /\ pc' \in [Jobs -> {"idle", "getDeployment", "create", "scale"}]
        /\ dirty' \subseteq Jobs /\ delayed' \subseteq Jobs /\ dropped' \subseteq Jobs
        /\ faults' \in Nat
    BY ReconcileSteps DEF TypeOK, WorkOK
  <1>4. WorkOK'
    BY <1>2, <1>3, ReconcileSteps DEF TypeOK, WorkOK, election, outside
  <1>5. ASSUME NEW d \in Deployment, Wrote(j, d), UNCHANGED crRead PROVE TypeOK'
    <2>1. depLog' = [depLog EXCEPT ![NameOf(KeyOf(j))] = Commit(@, d)]
      BY <1>5 DEF Wrote, OperatorWrites
    <2> QED
      BY <1>4, <1>5, <2>1, ReconcileSteps, JobNames, DepWriteType DEF Wrote, cache
  <1>6. CASE /\ UNCHANGED <<depLog, applied>>
             /\ UNCHANGED depRead \/ depRead' = [depRead EXCEPT ![j] = DepSeen(j)]
    <2>1. DepSeen(j) \in Nat /\ crSeen[j] \in Nat
      BY Held
    <2>2. /\ crRead' \in [Jobs -> Nat]
          /\ \A i \in Jobs : crRead'[i] = crRead[i] \/ crRead'[i] = crSeen[i]
      <3>1. UNCHANGED crRead \/ crRead' = [crRead EXCEPT ![j] = crSeen[j]]
        BY ReconcileSteps
      <3>2. crRead \in [Jobs -> Nat]
        BY DEF TypeOK, HeldOK
      <3> QED
        BY <2>1, <3>1, <3>2
    <2>3. /\ depRead' \in [Jobs -> Nat]
          /\ \A i \in Jobs : depRead'[i] = depRead[i] \/ depRead'[i] = DepSeen(i)
      BY <1>6, <2>1 DEF TypeOK, HeldOK
    <2>4. UNCHANGED server /\ UNCHANGED <<crSeen, depSeen>>
      BY <1>6, ReconcileSteps DEF server, cache
    <2> QED
      BY <1>4, <2>2, <2>3, <2>4, NoWriteType DEF TypeOK, HeldOK
  <1> QED
    BY <1>5, <1>6, ReconcileWrites, WrittenTypes

(* The three reconcilers take the same steps.                              *)
LEMMA NextSteps ==
    ASSUME [Next]_vars
    PROVE  \/ \E j \in Jobs : Reconcile(j) \/ Queues(j)
           \/ \E m \in Managers :
                 Manager(m) \/ \E n \in Names : DeliverDeployment(m, n)
           \/ \E k \in Keys : Users(k) \/ FinishDeletion(k)
           \/ \E n \in Names : Others(n)
           \/ UNCHANGED vars
  BY DEF Next, GatewayReconciler, TimerReconciler, TriggerReconciler

(* Every variable keeps its type: in particular no cache and no reconcile  *)
(* ever holds a version the API server does not have.                      *)
THEOREM TypeCorrect == Spec => []TypeOK
  <1>1. TypeOK /\ [Next]_vars => TypeOK'
    <2> SUFFICES ASSUME TypeOK, [Next]_vars PROVE TypeOK'
      OBVIOUS
    <2>1. ASSUME NEW j \in Jobs, Reconcile(j) \/ Queues(j) PROVE TypeOK'
      BY <2>1, ReconcileType, QueuesType
    <2>2. ASSUME NEW m \in Managers,
                 Manager(m) \/ \E n \in Names : DeliverDeployment(m, n)
          PROVE  TypeOK'
      BY <2>2, ManagerType, DeliverDeploymentType
    <2>3. ASSUME NEW k \in Keys, Users(k) \/ FinishDeletion(k) PROVE TypeOK'
      BY <2>3, CrWrites, CrWrittenType
    <2>4. ASSUME NEW n \in Names, Others(n) PROVE TypeOK'
      BY <2>4, OthersType
    <2>5. CASE UNCHANGED vars
      <3>1. WorkOK' /\ UNCHANGED <<server, crSeen, crRead, depRead, depSeen>>
        BY <2>5 DEF vars, server, election, cache, queue, job, budget, outside,
                    history, TypeOK, WorkOK
      <3> QED
        BY <3>1, NoWriteType DEF TypeOK, HeldOK
    <2> QED
      BY <2>1, <2>2, <2>3, <2>4, <2>5, NextSteps
  <1> QED
    BY <1>1, InitType, PTL DEF Spec

-----------------------------------------------------------------------------
(* WorkInv.  A step disturbs one job and the Deployments of one name, but  *)
(* for what happens to a process, which disturbs all its jobs.             *)

(* Nothing changes that JobInv reads of the job j, but for its Deployment. *)
SameJob(j) ==
    /\ Cr(j)' = Cr(j)
    /\ crSeen'[j] = crSeen[j] /\ crRead'[j] = crRead[j]
    /\ depRead'[j] = depRead[j] /\ pc'[j] = pc[j] /\ applied'[j] = applied[j]
    /\ ManagerOf(j) \in active' <=> ManagerOf(j) \in active
    /\ j \in dirty' \cup delayed' <=> j \in dirty \cup delayed
    /\ j \in dropped' <=> j \in dropped

(* JobInv(j) speaks only of what SameJob(j) says is untouched, and of the  *)
(* Deployment.                                                             *)
LEMMA SameJobInv ==
    ASSUME NEW j \in Jobs, JobInv(j), SameJob(j), Dep(j)' = Dep(j)
    PROVE  JobInv(j)'
  BY DEF JobInv, CacheIsRead, ReadsInOrder, JobHasObjects, LastReadSuits,
         CachedGateway, SameJob, Rv, Current

(* A write of a Deployment by another client, or for another job that has  *)
(* the same name, makes the version last held an old one.                  *)
LEMMA GrownJobInv ==
    ASSUME TypeOK, NEW j \in Jobs, JobInv(j), SameJob(j),
           NEW n \in Names, NEW deployment \in Deployment,
           depLog' = [depLog EXCEPT ![n] = Commit(@, deployment)]
    PROVE  JobInv(j)'
  <1> DEFINE name == NameOf(KeyOf(j))
  <1>0. name \in Names /\ depRead[j] \in 1..Len(depLog[name])
    BY JobNames, Held DEF Dep
  <1>1. Extends(Names, depLog, depLog', n, deployment, Deployment)
    BY DepExtends
  <1>2. CASE name = n
    <2>1. /\ Dep(j)'[depRead[j]] = Dep(j)[depRead[j]]
          /\ depRead[j] # Len(Dep(j)')
      BY <1>0, <1>1, <1>2 DEF Extends, Dep
    <2> QED
      BY <2>1 DEF JobInv, CacheIsRead, ReadsInOrder, JobHasObjects, LastReadSuits,
                  CachedGateway, SameJob, Rv
  <1>3. CASE name # n
    <2>1. Dep(j)' = Dep(j)
      BY <1>0, <1>1, <1>3 DEF Extends, Dep
    <2> QED
      BY <2>1, SameJobInv
  <1> QED
    BY <1>2, <1>3

(* Nothing has been read, written or left behind at the start.             *)
LEMMA InitWork == Init => WorkInv
  <1> SUFFICES ASSUME Init, NEW j \in Jobs PROVE JobInv(j)
    BY DEF WorkInv
  <1>1. /\ crSeen[j] = 1 /\ crRead[j] = 1 /\ pc[j] = "idle" /\ applied[j] = 0
        /\ Cr(j) = <<NoGateway>>
    BY JobNames DEF Init, Cr
  <1>2. ~Cr(j)[1].live
    BY <1>1 DEF NoGateway
  <1> QED
    BY <1>1, <1>2 DEF JobInv, CacheIsRead, ReadsInOrder, JobHasObjects,
                      LastReadSuits, CachedGateway

(* Writes of a CR leave every version in use as it was.                    *)
LEMMA CrWrittenWork ==
    ASSUME TypeOK, WorkInv, NEW k \in Keys, Users(k) \/ FinishDeletion(k)
    PROVE  WorkInv'
  <1>0. PICK gateway \in Gateway : CrWritten(k, gateway)
    BY CrWrites
  <1>1. Extends(Keys, crLog, crLog', k, gateway, Gateway)
    BY <1>0, CrExtends DEF CrWritten
  <1>2. UNCHANGED <<depLog, active, crSeen, dirty, delayed, pc, crRead, depRead,
                    applied, dropped>>
    BY <1>0 DEF CrWritten, election, cache, queue, job, history
  <1>3. ASSUME NEW j \in Jobs PROVE JobInv(j)'
    <2>1. JobInv(j)
      BY DEF WorkInv
    <2>2. /\ Cr(j)'[crSeen[j]] = Cr(j)[crSeen[j]]
          /\ Cr(j)'[crRead[j]] = Cr(j)[crRead[j]]
      BY <1>1, Held, JobNames DEF Extends, Cr
    <2> QED
      BY <1>2, <2>1, <2>2 DEF JobInv, CacheIsRead, ReadsInOrder, JobHasObjects,
                              LastReadSuits, CachedGateway, Dep, Rv, Current
  <1> QED
    BY <1>3 DEF WorkInv

(* Nor do other clients and the garbage collector break the bookkeeping.   *)
LEMMA OthersWork ==
    ASSUME TypeOK, WorkInv, NEW n \in Names, Others(n)
    PROVE  WorkInv'
  <1>1. PICK d \in Deployment : DeploymentWritten(n, d)
    BY OthersWrite
  <1>2. /\ depLog' = [depLog EXCEPT ![n] = Commit(@, d)]
        /\ \A j \in Jobs : JobInv(j) /\ SameJob(j)
    BY <1>1 DEF DeploymentWritten, election, cache, queue, job, history, WorkInv,
                SameJob, Cr
  <1> QED
    BY <1>2, GrownJobInv DEF WorkInv

(* The job is queued whenever the cache of its CR moves.                   *)
LEMMA QueuesWork ==
    ASSUME TypeOK, WorkInv, NEW j \in Jobs, Queues(j)
    PROVE  WorkInv'
  <1>1. UNCHANGED <<crLog, depLog, active, pc, crRead, depRead, applied, dropped>>
    BY DEF Queues, DeliverGateway, Resync, BackoffEnds, server, election, job, history
  <1>2. JobInv(j)'
    <2>1. JobInv(j) /\ j \in dirty'
      BY DEF WorkInv, Queues, DeliverGateway, Resync, BackoffEnds
    <2>2. crSeen'[j] = crSeen[j] \/ crSeen'[j] = crSeen[j] + 1
      BY DEF TypeOK, HeldOK, Queues, DeliverGateway, Resync, BackoffEnds, cache
    <2>3. crSeen'[j] >= crSeen[j] /\ crSeen[j] \in Nat /\ crSeen'[j] \in Nat
          /\ crRead[j] \in Nat
      BY <2>2, Held
    <2> QED
      BY <1>1, <2>1, <2>3 DEF JobInv, CacheIsRead, ReadsInOrder,
                              JobHasObjects, LastReadSuits, Cr, Dep
  <1>3. ASSUME NEW i \in Jobs \ {j} PROVE JobInv(i)'
    <2>1. crSeen'[i] = crSeen[i]
      BY DEF TypeOK, HeldOK, Queues, DeliverGateway, Resync, BackoffEnds, cache
    <2>2. (i \in dirty' <=> i \in dirty) /\ (i \in delayed' <=> i \in delayed)
      BY DEF Queues, DeliverGateway, Resync, BackoffEnds
    <2>3. JobInv(i) /\ SameJob(i) /\ Dep(i)' = Dep(i)
      BY <1>1, <2>1, <2>2 DEF WorkInv, SameJob, Cr, Dep
    <2> QED
      BY <2>3, SameJobInv
  <1> QED
    BY <1>2, <1>3 DEF WorkInv

(* The cache of Deployments is read by the next reconcile, not by what the *)
(* last one left.                                                          *)
LEMMA DeliverDeploymentWork ==
    ASSUME TypeOK, WorkInv, NEW m \in Managers, NEW n \in Names,
           DeliverDeployment(m, n)
    PROVE  WorkInv'
  <1>1. \A j \in Jobs : JobInv(j) /\ SameJob(j) /\ Dep(j)' = Dep(j)
    BY DEF DeliverDeployment, server, election, queue, job, history, WorkInv,
           SameJob, Cr, Dep
  <1> QED
    BY <1>1, SameJobInv DEF WorkInv

(* The controllers of a process, when they start, queue every CR that the  *)
(* caches list; a process that waits has no work.                          *)
LEMMA ManagerWork ==
    ASSUME TypeOK, WorkInv, NEW m \in Managers, Manager(m)
    PROVE  WorkInv'
  <1>1. UNCHANGED <<crLog, depLog, crRead, depRead, applied, dropped>>
    BY ManagerSteps DEF server, history
  <1>2. ASSUME NEW j \in Jobs, ManagerOf(j) = m PROVE JobInv(j)'
    <2>1. /\ Cr(j)' = Cr(j) /\ Dep(j)' = Dep(j)
          /\ pc'[j] = pc[j] \/ pc'[j] = "idle"
          /\ JobInv(j)
      BY <1>1, ManagerSteps DEF Cr, Dep, ProcessEnds, WorkInv
    <2>2. CASE ControllersStart(m)
      <3>1. /\ crSeen'[j] = Len(Cr(j))
            /\ Cr(j)[Len(Cr(j))].live => j \in dirty'
        BY <1>2, <2>2, JobsOfManager DEF ControllersStart, CachesList, Rv, Current
      <3>2. crRead[j] <= Len(Cr(j)) /\ applied[j] <= crRead[j]
        BY <2>1, Held DEF JobInv, ReadsInOrder
      <3> QED
        BY <1>1, <2>1, <3>1, <3>2 DEF JobInv, CacheIsRead, ReadsInOrder,
                                      JobHasObjects, LastReadSuits, CachedGateway
    <2>3. CASE ProcessEnds(m) /\ WaitsForLease(m)
      BY <1>1, <1>2, <2>1, <2>3
      DEF WaitsForLease, cache, JobInv, CacheIsRead, ReadsInOrder, JobHasObjects,
          LastReadSuits
    <2> QED
      BY <2>2, <2>3, ManagerSteps
  <1>3. ASSUME NEW j \in Jobs, ManagerOf(j) # m PROVE JobInv(j)'
    <2>1. j \notin JobsOf(m)
      BY <1>3, JobsOfManager
    <2>2. /\ pc'[j] = pc[j] /\ (j \in delayed' <=> j \in delayed)
          /\ ManagerOf(j) \in active' <=> ManagerOf(j) \in active
      BY <1>3, <2>1, ManagerSteps DEF ProcessEnds, WaitsForLease
    <2>3. crSeen'[j] = crSeen[j] /\ (j \in dirty' <=> j \in dirty)
      BY <1>3, <2>1, ManagerSteps
      DEF ControllersStart, CachesList, WaitsForLease, cache
    <2>4. JobInv(j) /\ SameJob(j) /\ Dep(j)' = Dep(j)
      BY <1>1, <2>2, <2>3 DEF WorkInv, SameJob, Cr, Dep
    <2> QED
      BY <2>4, SameJobInv
  <1> QED
    BY <1>2, <1>3 DEF WorkInv

(* A call of the reconcile of j touches nothing of another job but the     *)
(* Deployment they may share.                                              *)
LEMMA ReconcileOthers ==
    ASSUME TypeOK, WorkInv, NEW j \in Jobs, Reconcile(j), NEW i \in Jobs \ {j}
    PROVE  JobInv(i)'
  <1>1. UNCHANGED <<crLog, active, crSeen>>
    BY ReconcileSteps DEF election, cache
  <1>2. crRead'[i] = crRead[i] /\ pc'[i] = pc[i]
    <2>1. crRead \in [Jobs -> Nat] /\ pc \in [Jobs -> {"idle", "getDeployment", "create", "scale"}]
      BY DEF TypeOK, HeldOK, WorkOK
    <2>2. UNCHANGED crRead \/ crRead' = [crRead EXCEPT ![j] = crSeen[j]]
      BY ReconcileSteps
    <2>3. PICK call : pc' = [pc EXCEPT ![j] = call]
      BY ReconcileSteps
    <2> QED
      BY <2>1, <2>2, <2>3
  <1>3. depRead'[i] = depRead[i] /\ applied'[i] = applied[i]
    BY ReconcileWrites DEF Wrote, OperatorWrites, TypeOK, HeldOK, WorkOK
  <1>4. /\ i \in delayed' <=> i \in delayed
        /\ i \in dirty' <=> i \in dirty
        /\ i \in dropped' <=> i \in dropped
    BY ReconcileSteps
  <1>5. JobInv(i) /\ SameJob(i)
    BY <1>1, <1>2, <1>3, <1>4 DEF WorkInv, SameJob, Cr
  <1>6. ASSUME NEW d \in Deployment, Wrote(j, d) PROVE JobInv(i)'
    BY <1>5, <1>6, GrownJobInv, JobNames DEF Wrote, OperatorWrites
  <1>7. CASE UNCHANGED depLog
    BY <1>5, <1>7, SameJobInv DEF Dep
  <1> QED
    BY <1>6, <1>7, ReconcileWrites, WrittenTypes

(* The reconcile takes the CR from the cache, or is queued again.          *)
LEMMA GetGatewayWork ==
    ASSUME TypeOK, WorkInv, NEW j \in Jobs, GetGateway(j)
    PROVE  JobInv(j)'
  <1> USE DEF JobInv, CacheIsRead, ReadsInOrder, JobHasObjects, LastReadSuits
  <1> DEFINE Reads == crRead' = [crRead EXCEPT ![j] = crSeen[j]]
             Alive == CachedGateway(j).live
  <1>1. /\ JobInv(j)
        /\ crSeen[j] \in Nat /\ crRead[j] \in Nat /\ applied[j] \in Nat
    BY Held DEF WorkInv
  <1>2. /\ UNCHANGED <<crSeen, depRead, applied, active>>
        /\ Cr(j)' = Cr(j) /\ Dep(j)' = Dep(j) /\ CachedGateway(j)' = CachedGateway(j)
    BY DEF GetGateway, server, election, cache, Cr, Dep, CachedGateway
  <1>3. CASE Reads /\ Alive /\ Proceed(j, "getDeployment")
    <2>1. pc'[j] = "getDeployment" /\ crRead'[j] = crSeen[j]
      BY <1>3 DEF TypeOK, HeldOK, WorkOK, Proceed
    <2> QED
      BY <1>1, <1>2, <1>3, <2>1 DEF CachedGateway
  <1>4. CASE Reads /\ ~Alive /\ ReturnDone(j)
    <2>1. pc'[j] = "idle" /\ crRead'[j] = crSeen[j]
      BY <1>4 DEF TypeOK, HeldOK, WorkOK, ReturnDone
    <2> QED
      BY <1>1, <1>2, <1>4, <2>1 DEF CachedGateway
  <1>5. CASE UNCHANGED crRead /\ ReturnError(j)
    <2>1. pc'[j] = "idle" /\ j \in delayed'
      BY <1>5 DEF ReturnError, TypeOK, WorkOK
    <2> QED
      BY <1>1, <1>2, <1>5, <2>1
  <1> QED
    BY <1>3, <1>4, <1>5 DEF GetGateway

(* A reconcile that ends here held a Deployment with the replicas of the   *)
(* CR it read; one that goes on holds what its next call needs.            *)
LEMMA GetDeploymentWork ==
    ASSUME TypeOK, WorkInv, NEW j \in Jobs, GetDeployment(j)
    PROVE  JobInv(j)'
  <1> USE DEF JobInv, CacheIsRead, ReadsInOrder, JobHasObjects, LastReadSuits
  <1> DEFINE found == CachedDeployment(j)
             wanted == Cr(j)[crRead[j]].replicas
             Reads == depRead' = [depRead EXCEPT ![j] = DepSeen(j)]
  <1>1. /\ JobInv(j) /\ pc[j] = "getDeployment"
        /\ UNCHANGED <<crSeen, crRead, applied, dirty, dropped, active>>
        /\ Cr(j)' = Cr(j) /\ Dep(j)' = Dep(j) /\ CachedGateway(j)' = CachedGateway(j)
    BY DEF WorkInv, GetDeployment, server, election, cache, history, Cr, Dep,
           CachedGateway
  <1>2. CASE Proceed(j, "create")
    <2>1. pc'[j] = "create" /\ UNCHANGED delayed
      BY <1>2 DEF Proceed, TypeOK, WorkOK
    <2> QED
      BY <1>1, <2>1
  <1>3. CASE Reads /\ found.live /\ found.replicas # wanted /\ Proceed(j, "scale")
    <2>1. pc'[j] = "scale" /\ depRead'[j] = DepSeen(j) /\ UNCHANGED delayed
      BY <1>3 DEF Proceed, TypeOK, HeldOK, WorkOK
    <2> QED
      BY <1>1, <1>3, <2>1 DEF CachedDeployment
  <1>4. CASE Reads /\ found.live /\ found.replicas = wanted /\ ReturnDone(j)
    <2>1. pc'[j] = "idle" /\ depRead'[j] = DepSeen(j) /\ UNCHANGED delayed
      BY <1>4 DEF ReturnDone, TypeOK, HeldOK, WorkOK
    <2> QED
      BY <1>1, <1>4, <2>1 DEF CachedDeployment, Rv, Current
  <1>5. CASE ReturnError(j)
    <2>1. pc'[j] = "idle" /\ j \in delayed'
      BY <1>5 DEF ReturnError, TypeOK, WorkOK
    <2> QED
      BY <1>1, <2>1
  <1> QED
    BY <1>2, <1>3, <1>4, <1>5 DEF GetDeployment

(* After an accepted write the API server has what was written.            *)
LEMMA WrittenIsCurrent ==
    ASSUME TypeOK, NEW j \in Jobs, NEW d \in Deployment, OperatorWrites(j, d)
    PROVE  /\ Current(Dep(j))' = d
           /\ applied'[j] = crRead[j]
  <1>1. Extends(Names, depLog, depLog', NameOf(KeyOf(j)), d, Deployment)
    BY JobNames, DepExtends DEF OperatorWrites
  <1> QED
    BY <1>1, JobNames DEF Extends, Current, Dep, OperatorWrites, TypeOK, WorkOK

(* A write the server accepted is based on the CR version the reconcile    *)
(* works on, which is what applied records.                                *)
LEMMA CreateDeploymentWork ==
    ASSUME TypeOK, WorkInv, NEW j \in Jobs, CreateDeployment(j)
    PROVE  JobInv(j)'
  <1> USE DEF JobInv, CacheIsRead, ReadsInOrder, JobHasObjects, LastReadSuits
  <1>1. /\ JobInv(j) /\ pc[j] = "create" /\ pc'[j] = "idle"
        /\ crRead[j] \in Nat
        /\ UNCHANGED <<crSeen, crRead, dirty, dropped, active>>
        /\ Cr(j)' = Cr(j) /\ CachedGateway(j)' = CachedGateway(j)
    BY DEF WorkInv, CreateDeployment, ReturnDone, ReturnError, TypeOK, HeldOK, WorkOK,
           election, cache, Cr, CachedGateway
  <1>2. CASE OperatorWrites(j, Built(j)) /\ UNCHANGED delayed
    <2>1. Current(Dep(j))' = Built(j) /\ applied'[j] = crRead[j]
      BY <1>2, WrittenTypes, WrittenIsCurrent
    <2>2. Built(j).live /\ Built(j).replicas = Cr(j)[crRead[j]].replicas
      BY DEF Built, DeploymentFor
    <2> QED
      BY <1>1, <1>2, <2>1, <2>2
  <1>3. CASE ReturnError(j)
    <2>1. j \in delayed'
      BY <1>3 DEF ReturnError
    <2>2. applied'[j] = applied[j] \/ applied'[j] = crRead[j]
      BY DEF CreateDeployment, OperatorWrites, TypeOK, WorkOK
    <2> QED
      BY <1>1, <2>1, <2>2
  <1> QED
    BY <1>2, <1>3 DEF CreateDeployment, ReturnDone, Built

(* A scaling ends the reconcile whatever the answer: it was accepted, and  *)
(* what is held suits the CR; or refused, and what is held is not the      *)
(* newest version; or a fault has put the job among the dropped ones.      *)
LEMMA ScaleDeploymentWork ==
    ASSUME TypeOK, WorkInv, NEW j \in Jobs, ScaleDeployment(j)
    PROVE  JobInv(j)'
  <1> USE DEF JobInv, CacheIsRead, ReadsInOrder, JobHasObjects, LastReadSuits
  <1>1. /\ JobInv(j) /\ pc[j] = "scale" /\ pc'[j] = "idle"
        /\ crRead[j] \in Nat
        /\ UNCHANGED <<crSeen, crRead, dirty, delayed, active>>
        /\ Cr(j)' = Cr(j) /\ CachedGateway(j)' = CachedGateway(j)
    BY DEF WorkInv, ScaleDeployment, ReturnDone, TypeOK, HeldOK, WorkOK, election,
           cache, Cr, CachedGateway
  <1>2. applied'[j] = applied[j] \/ applied'[j] = crRead[j]
    BY DEF ScaleDeployment, OperatorWrites, TypeOK, WorkOK
  <1>3. CASE OperatorWrites(j, Scaled(j)) /\ UNCHANGED dropped
    <2>1. Dep(j)[depRead[j]] \in Deployment
      BY Held
    <2>2. Scaled(j).live = Dep(j)[depRead[j]].live
          /\ Scaled(j).replicas = Cr(j)[crRead[j]].replicas
      BY <2>1 DEF Scaled, Deployment
    <2>3. Current(Dep(j))' = Scaled(j)
      BY <1>3, WrittenTypes, WrittenIsCurrent
    <2> QED
      BY <1>1, <1>2, <2>2, <2>3
  <1>4. CASE dropped' = dropped \cup {j}
    BY <1>1, <1>2, <1>4
  <1>5. CASE ~UpdateAccepted(Dep(j), depRead[j]) /\ UNCHANGED <<depLog, depRead, dropped>>
    BY <1>1, <1>2, <1>5 DEF UpdateAccepted, Dep, Rv, Current
  <1> QED
    BY <1>3, <1>4, <1>5 DEF ScaleDeployment, Scaled

-----------------------------------------------------------------------------
(* Theorems.                                                               *)

(* A step of any kind keeps the bookkeeping.                               *)
LEMMA NextWork == ASSUME TypeOK, WorkInv, [Next]_vars PROVE WorkInv'
  <1>1. ASSUME NEW j \in Jobs, Reconcile(j) PROVE WorkInv'
    <2>1. JobInv(j)'
      BY <1>1, GetGatewayWork, GetDeploymentWork, CreateDeploymentWork,
         ScaleDeploymentWork DEF Reconcile
    <2>2. \A i \in Jobs \ {j} : JobInv(i)'
      BY <1>1, ReconcileOthers
    <2> QED
      BY <2>1, <2>2 DEF WorkInv
  <1>2. ASSUME NEW j \in Jobs, Queues(j) PROVE WorkInv'
    BY <1>2, QueuesWork
  <1>3. ASSUME NEW m \in Managers,
               Manager(m) \/ \E n \in Names : DeliverDeployment(m, n)
        PROVE  WorkInv'
    BY <1>3, ManagerWork, DeliverDeploymentWork
  <1>4. ASSUME NEW k \in Keys, Users(k) \/ FinishDeletion(k) PROVE WorkInv'
    BY <1>4, CrWrittenWork
  <1>5. ASSUME NEW n \in Names, Others(n) PROVE WorkInv'
    BY <1>5, OthersWork
  <1>6. CASE UNCHANGED vars
    <2>1. \A j \in Jobs : JobInv(j) /\ SameJob(j) /\ Dep(j)' = Dep(j)
      BY <1>6 DEF vars, server, election, cache, queue, job, budget, history,
                  SameJob, WorkInv, Cr, Dep
    <2> QED
      BY <2>1, SameJobInv DEF WorkInv
  <1> QED
    BY <1>1, <1>2, <1>3, <1>4, <1>5, <1>6, NextSteps

(* The bookkeeping invariant: what a reconcile works on and leaves behind, *)
(* whatever users, other clients, faults and processes do meanwhile.       *)
THEOREM WorkInvariant == Spec => []WorkInv
  BY InitWork, NextWork, TypeCorrect, PTL DEF Spec

(* A CR a process has stopped working on has the Deployment it asks for    *)
(* unless the reconcile held an old version of the Deployment or a fault   *)
(* dropped its scaling.                                                    *)
THEOREM QuietIsSettled == Spec => []QuietMeansSettled
  <1>1. TypeOK /\ WorkInv => QuietMeansSettled
    <2> SUFFICES ASSUME TypeOK, WorkInv, NEW j \in Jobs, Quiet(j), Wanted(KeyOf(j))
                 PROVE  \/ Converged(j)
                        \/ depRead[j] # Rv(Dep(j))
                        \/ j \in dropped
      BY DEF QuietMeansSettled
    <2>1. Cr(j)[crSeen[j]] = Current(Cr(j)) /\ Current(Cr(j)).live
      BY DEF Quiet, Wanted, Rv, Current, Cr
    <2>2. CacheIsRead(j) /\ LastReadSuits(j)
      BY DEF WorkInv, JobInv
    <2> QED
      BY <2>1, <2>2 DEF Quiet, CacheIsRead, LastReadSuits, CachedGateway, Converged
  <1> QED
    BY <1>1, TypeCorrect, WorkInvariant, PTL

(* Only a reconcile moves what a job has applied, to the version it read.  *)
LEMMA AppliedMoves ==
    ASSUME TypeOK, [Next]_vars
    PROVE  \/ UNCHANGED applied
           \/ \E j \in Jobs : applied' = [applied EXCEPT ![j] = crRead[j]]
  <1>1. ASSUME NEW j \in Jobs, Reconcile(j) \/ Queues(j)
        PROVE  UNCHANGED applied \/ applied' = [applied EXCEPT ![j] = crRead[j]]
    BY <1>1, ReconcileWrites
    DEF Wrote, OperatorWrites, Queues, DeliverGateway, Resync, BackoffEnds, history
  <1>2. ASSUME NEW m \in Managers,
               Manager(m) \/ \E n \in Names : DeliverDeployment(m, n)
        PROVE  UNCHANGED applied
    BY <1>2, ManagerSteps DEF DeliverDeployment, history
  <1>3. ASSUME NEW k \in Keys, Users(k) \/ FinishDeletion(k) PROVE UNCHANGED applied
    BY <1>3, CrWrites DEF CrWritten, history
  <1>4. ASSUME NEW n \in Names, Others(n) PROVE UNCHANGED applied
    BY <1>4, OthersWrite DEF DeploymentWritten, history
  <1>5. UNCHANGED vars => UNCHANGED applied
    BY DEF vars, history
  <1> QED
    BY <1>1, <1>2, <1>3, <1>4, <1>5, NextSteps

(* A process never goes back to an older version of the CR, over every     *)
(* retry, race, restart and change of leader.                              *)
THEOREM NeverGoesBack == Spec => ScaleMonotone
  <1>1. TypeOK /\ WorkInv /\ [Next]_vars
           => [\A j \in Jobs : applied'[j] >= applied[j]]_vars
    <2> SUFFICES ASSUME TypeOK, WorkInv, [Next]_vars, NEW j \in Jobs
                 PROVE  applied'[j] >= applied[j]
      OBVIOUS
    <2>1. applied[j] \in Nat /\ crRead[j] \in Nat /\ applied[j] <= crRead[j]
      BY Held DEF WorkInv, JobInv, ReadsInOrder
    <2>2. applied'[j] \in {applied[j], crRead[j]}
      BY AppliedMoves DEF TypeOK, WorkOK
    <2> QED
      BY <2>1, <2>2
  <1> QED
    BY <1>1, TypeCorrect, WorkInvariant, PTL DEF Spec, ScaleMonotone

-----------------------------------------------------------------------------
(* What Deployments are made from.                                         *)

(* A version that a Deployment was made from stays there, and the replicas *)
(* do not matter.                                                          *)
LEMMA MadeStays ==
    ASSUME TypeOK, NEW n \in Names, NEW d, NEW e, Made(n, d),
           e.owner = d.owner, e.image = d.image, e.container = d.container,
           \A k \in Keys : /\ Len(crLog'[k]) \in Nat
                            /\ Len(crLog[k]) <= Len(crLog'[k])
                            /\ \A i \in 1..Len(crLog[k]) : crLog'[k][i] = crLog[k][i]
    PROVE  Made(n, e)'
  <1>0. PICK k \in Keys :
           NameOf(k) = n /\ \E i \in 1..Len(crLog[k]) : MadeFrom(k, crLog[k][i], d)
    BY DEF Made
  <1>1. PICK i \in 1..Len(crLog[k]) : MadeFrom(k, crLog[k][i], d)
    BY <1>0
  <1>2. i \in 1..Len(crLog'[k]) /\ crLog'[k][i] = crLog[k][i]
    BY <1>1, LogLengths
  <1>3. MadeFrom(k, crLog'[k][i], e)
    BY <1>1, <1>2 DEF MadeFrom
  <1> QED
    BY <1>0, <1>2, <1>3 DEF Made

(* A write of one Deployment is all there is to look at.                   *)
LEMMA MadeWrite ==
    ASSUME TypeOK, DeploymentsMade, NEW n \in Names, NEW d \in Deployment,
           depLog' = [depLog EXCEPT ![n] = Commit(@, d)], UNCHANGED crLog,
           d.live => Made(n, d)
    PROVE  DeploymentsMade'
  <1>1. Extends(Names, depLog, depLog', n, d, Deployment)
    BY DepExtends
  <1>2. \A i \in Names : Current(depLog'[i]) = IF i = n THEN d ELSE Current(depLog[i])
    BY <1>1 DEF Extends, Current
  <1>3. ASSUME NEW i \in Names, Current(depLog'[i]).live
        PROVE  Made(i, Current(depLog'[i]))
    BY <1>2, <1>3 DEF DeploymentsMade
  <1>4. \A i, e : Made(i, e)' = Made(i, e)
    BY DEF Made
  <1> QED
    BY <1>3, <1>4 DEF DeploymentsMade

(* What is scaled keeps what it was made from.                             *)
LEMMA MadeScaled ==
    ASSUME TypeOK, DeploymentsMade, NEW n \in Names, NEW r,
           Current(depLog[n]).live
    PROVE  Made(n, [Current(depLog[n]) EXCEPT !.replicas = r])
  <1> DEFINE d == Current(depLog[n])
             e == [d EXCEPT !.replicas = r]
  <1>1. d \in Deployment /\ Made(n, d)
    BY CurrentDeployment DEF DeploymentsMade
  <1>2. e.owner = d.owner /\ e.image = d.image /\ e.container = d.container
    BY <1>1 DEF Deployment
  <1> HIDE DEF d, e
  <1>3. Made(n, e)
    BY <1>1, <1>2 DEF Made, MadeFrom
  <1> QED
    BY <1>3 DEF d, e

(* A reconcile makes a Deployment from the version it works on, which is   *)
(* live, and scales the newest one or none.                                *)
LEMMA ReconcileMakes ==
    ASSUME TypeOK, WorkInv, DeploymentsMade, NEW j \in Jobs, Reconcile(j)
    PROVE  DeploymentsMade'
  <1> DEFINE n == NameOf(KeyOf(j))
             g == Cr(j)[crRead[j]]
  <1>1. /\ n \in Names /\ KeyOf(j) \in Keys /\ UNCHANGED crLog
        /\ crRead[j] \in 1..Len(Cr(j))
    BY JobNames, Held, ReconcileSteps
  <1>2. CASE UNCHANGED depLog
    BY <1>1, <1>2 DEF DeploymentsMade, Made
  <1>3. CASE pc[j] = "create" /\ g.image # NoImage /\ OperatorWrites(j, Built(j))
    <2>1. g.live
      BY <1>3 DEF WorkInv, JobInv, JobHasObjects
    <2>2. MadeFrom(KeyOf(j), g, Built(j))
      BY <1>3, <2>1 DEF MadeFrom, Built, DeploymentFor
    <2>3. Made(n, Built(j))
      BY <1>1, <2>2 DEF Made, Cr
    <2> QED
      BY <1>1, <1>3, <2>3, MadeWrite, WrittenTypes DEF OperatorWrites
  <1>4. CASE /\ pc[j] = "scale" /\ UpdateAccepted(Dep(j), depRead[j])
             /\ OperatorWrites(j, Scaled(j))
    <2>1. Dep(j)[depRead[j]] = Current(depLog[n]) /\ Dep(j)[depRead[j]].live
      BY <1>4 DEF UpdateAccepted, Rv, Current, Dep, WorkInv, JobInv, JobHasObjects
    <2>2. Made(n, Scaled(j))
      BY <1>1, <2>1, MadeScaled DEF Scaled
    <2> QED
      BY <1>1, <1>4, <2>2, MadeWrite, WrittenTypes DEF OperatorWrites
  <1> QED
    BY <1>2, <1>3, <1>4, ReconcileWrites DEF Wrote

(* Other clients change the replicas or delete the Deployment.             *)
LEMMA OthersMake ==
    ASSUME TypeOK, DeploymentsMade, NEW n \in Names, Others(n)
    PROVE  DeploymentsMade'
  <1>1. PICK d \in Deployment :
           /\ DeploymentWritten(n, d)
           /\ \/ d = NoDeployment
              \/ \E r \in Count : d = [Current(depLog[n]) EXCEPT !.replicas = r]
    BY OthersWrite
  <1>2. d.live => Made(n, d)
    BY <1>1, MadeScaled DEF DeploymentWritten, NoDeployment
  <1> QED
    BY <1>1, <1>2, MadeWrite DEF DeploymentWritten

(* Users make new versions, which take none away.                          *)
LEMMA UsersMake ==
    ASSUME TypeOK, DeploymentsMade, NEW k \in Keys, Users(k) \/ FinishDeletion(k)
    PROVE  DeploymentsMade'
  <1>1. PICK gateway \in Gateway : CrWritten(k, gateway)
    BY CrWrites
  <1>2. Extends(Keys, crLog, crLog', k, gateway, Gateway) /\ UNCHANGED depLog
    BY <1>1, CrExtends DEF CrWritten
  <1>3. \A i \in Keys : /\ Len(crLog'[i]) \in Nat
                         /\ Len(crLog[i]) <= Len(crLog'[i])
                         /\ \A v \in 1..Len(crLog[i]) : crLog'[i][v] = crLog[i][v]
    BY <1>2 DEF Extends
  <1> QED
    BY <1>2, <1>3, MadeStays DEF DeploymentsMade

(* Every Deployment is owned by an incarnation of a CR of its name, and    *)
(* runs the container of its kind with the image of a version of that      *)
(* incarnation, whatever kinds share the name, whoever scales it and       *)
(* however many processes race to make it.                                 *)
THEOREM OfOnePiece == Spec => []DeploymentsMade
  <1>1. Init => DeploymentsMade
    <2> SUFFICES ASSUME Init, NEW n \in Names PROVE ~Current(depLog[n]).live
      BY DEF DeploymentsMade
    <2>1. depLog[n] = <<NoDeployment>>
      BY DEF Init
    <2> QED
      BY <2>1 DEF Current, NoDeployment
  <1>2. ASSUME TypeOK, WorkInv, DeploymentsMade, [Next]_vars
        PROVE  DeploymentsMade'
    <2>1. ASSUME UNCHANGED server PROVE DeploymentsMade'
      BY <1>2, <2>1 DEF server, DeploymentsMade, Made
    <2>2. ASSUME NEW j \in Jobs, Queues(j) PROVE UNCHANGED server
      BY <2>2 DEF Queues, DeliverGateway, Resync, BackoffEnds
    <2>3. ASSUME NEW m \in Managers,
                 Manager(m) \/ \E n \in Names : DeliverDeployment(m, n)
          PROVE  UNCHANGED server
      BY <2>3, ManagerSteps DEF DeliverDeployment, server
    <2>4. UNCHANGED vars => UNCHANGED server
      BY DEF vars
    <2> QED
      BY <1>2, <2>1, <2>2, <2>3, <2>4, NextSteps, ReconcileMakes, OthersMake,
         UsersMake
  <1> QED
    BY <1>1, <1>2, TypeCorrect, WorkInvariant, PTL DEF Spec

-----------------------------------------------------------------------------
(* The refinement.                                                         *)

(* The Deployments of the abstract specification.                          *)
Deployments == [n \in Names |-> Current(depLog[n])]

(* The constants and records there are those here.                         *)
LEMMA SameObjects ==
    /\ Follower!Jobs = Jobs /\ Follower!Count = Count /\ Follower!Image = Image
    /\ Follower!NoGateway = NoGateway /\ Follower!NoDeployment = NoDeployment
    /\ \A j : Follower!KeyOf(j) = KeyOf(j)
    /\ \A k : Follower!NameOf(k) = NameOf(k)
    /\ \A k, g : Follower!DeploymentFor(k, g) = DeploymentFor(k, g)
  BY DEF Follower!Jobs, Jobs, Follower!Count, Count, Follower!Image, Image,
         Follower!NoGateway, NoGateway, Follower!NoDeployment, NoDeployment,
         Follower!NoOwner, NoOwner, Follower!NoContainer, NoContainer,
         Follower!KeyOf, KeyOf, Follower!NameOf, NameOf, Follower!Kind, Kind,
         Follower!DeploymentFor, DeploymentFor

(* A write the API server accepts is a write there.                        *)
LEMMA WriteMaps ==
    ASSUME TypeOK, NEW n \in Names, NEW d \in Deployment,
           depLog' = [depLog EXCEPT ![n] = Commit(@, d)]
    PROVE  Deployments' = [Deployments EXCEPT ![n] = d]
  <1>1. Extends(Names, depLog, depLog', n, d, Deployment)
    BY DepExtends
  <1>2. \A i \in Names : Current(depLog'[i]) = IF i = n THEN d ELSE Current(depLog[i])
    BY <1>1 DEF Extends, Current
  <1> QED
    BY <1>2 DEF Deployments

(* What the mapping reads.                                                 *)
Untouched == UNCHANGED <<crLog, depLog, applied>>

(* A step that touches none of it is not seen by the follower.             *)
LEMMA UntouchedStutters == ASSUME Untouched PROVE UNCHANGED Follower!vars
  BY DEF Untouched, Follower!vars

(* The follower starts on an empty cluster, too.                           *)
LEMMA InitMaps == Init => Follower!Init
  <1> SUFFICES ASSUME Init PROVE Follower!Init
    OBVIOUS
  <1>1. \A n \in Names : depLog[n] = <<NoDeployment>>
    BY DEF Init
  <1>2. \A n \in Names : Current(depLog[n]) = NoDeployment
    BY <1>1 DEF Current
  <1> QED
    BY <1>2, SameObjects DEF Init, Follower!Init

(* A write of a CR, and the end of a deletion, is a user who asks.         *)
LEMMA CrWritesMap ==
    ASSUME TypeOK, NEW k \in Keys, Users(k) \/ FinishDeletion(k)
    PROVE  Follower!UserAsks(k)
  <1>1. PICK g \in Gateway :
           /\ CrWritten(k, g)
           /\ g = NoGateway \/ (g.live /\ g.uid = NextUid(k))
    BY CrWrites
  <1>2. Follower!Ask(k, g)
    BY <1>1 DEF CrWritten, history, Commit, Follower!Ask
  <1>3. CASE g = NoGateway
    BY <1>2, <1>3, SameObjects DEF Follower!UserAsks
  <1>4. CASE g.live /\ g.uid = NextUid(k)
    <2>1. g \in [live: {TRUE}, deleting: BOOLEAN,
                 uid: {IF crLog[k][Len(crLog[k])].live
                       THEN crLog[k][Len(crLog[k])].uid ELSE Len(crLog[k]) + 1},
                 replicas: Count, image: Image]
      BY <1>4 DEF Gateway, Current, NextUid
    <2> QED
      BY <1>2, <2>1, SameObjects DEF Follower!UserAsks
  <1> QED
    BY <1>1, <1>3, <1>4

(* Other clients and the garbage collector write there what they write here.*)
LEMMA OthersMap ==
    ASSUME TypeOK, NEW n \in Names, Others(n)
    PROVE  Follower!OthersWrite(n)
  <1>1. PICK d \in Deployment :
           /\ DeploymentWritten(n, d)
           /\ \/ d = NoDeployment
              \/ \E r \in Count : d = [Current(depLog[n]) EXCEPT !.replicas = r]
    BY OthersWrite
  <1>2. Deployments' = [Deployments EXCEPT ![n] = d]
    BY <1>1, WriteMaps DEF DeploymentWritten
  <1>3. Deployments[n].live /\ Deployments[n] = Current(depLog[n])
    BY <1>1 DEF DeploymentWritten, Deployments
  <1>4. UNCHANGED <<crLog, applied>>
    BY <1>1 DEF DeploymentWritten, history
  <1> QED
    BY <1>1, <1>2, <1>3, <1>4, SameObjects DEF Follower!OthersWrite, Deployments

(* An accepted Create or Update is a step of the follower: the reconcile   *)
(* worked on a version of the CR no older than its last write, and on the  *)
(* Deployment as it was.                                                   *)
LEMMA ReconcileMaps ==
    ASSUME TypeOK, WorkInv, NEW j \in Jobs, Reconcile(j)
    PROVE  Follower!Make(j) \/ Follower!Scale(j) \/ Untouched
  <1> DEFINE n == NameOf(KeyOf(j))
             g == Cr(j)[crRead[j]]
  <1>1. /\ n \in Names /\ Deployments[n] = Current(Dep(j)) /\ KeyOf(j) \in Keys
        /\ crRead[j] \in 1..Len(Cr(j)) /\ applied[j] \in Nat
    BY JobNames, Held DEF Deployments, Dep
  <1>2. ASSUME NEW d \in Deployment, OperatorWrites(j, d), pc[j] # "idle",
               UNCHANGED crLog
        PROVE  Follower!Follow(j, crRead[j], d)
    <2>1. Deployments' = [Deployments EXCEPT ![n] = d]
      BY <1>1, <1>2, WriteMaps DEF OperatorWrites
    <2>2. /\ crRead[j] >= applied[j] /\ g.live
          /\ applied' = [applied EXCEPT ![j] = crRead[j]]
      BY <1>1, <1>2 DEF WorkInv, JobInv, ReadsInOrder, JobHasObjects, OperatorWrites
    <2> QED
      BY <1>1, <1>2, <2>1, <2>2, SameObjects DEF Follower!Follow, Deployments, Cr
  <1>3. CASE UNCHANGED <<depLog, applied>>
    BY <1>3, ReconcileSteps DEF Untouched
  <1>4. CASE /\ pc[j] = "create" /\ CreateAccepted(Dep(j)) /\ g.image # NoImage
             /\ Wrote(j, Built(j))
    <2>1. Follower!Follow(j, crRead[j], Built(j))
      BY <1>2, <1>4, WrittenTypes, ReconcileSteps DEF Wrote
    <2>2. ~Deployments[n].live
      BY <1>1, <1>4 DEF CreateAccepted
    <2> QED
      BY <1>1, <1>4, <2>1, <2>2, SameObjects
      DEF Follower!Make, Deployments, Cr, Built
  <1>5. CASE pc[j] = "scale" /\ UpdateAccepted(Dep(j), depRead[j]) /\ Wrote(j, Scaled(j))
    <2>1. Follower!Follow(j, crRead[j], Scaled(j))
      BY <1>2, <1>5, WrittenTypes, ReconcileSteps DEF Wrote
    <2>2. Dep(j)[depRead[j]] = Deployments[n]
      BY <1>1, <1>5 DEF UpdateAccepted, Rv, Current
    <2>3. Deployments[n].live /\ Deployments[n].replicas # g.replicas
      BY <1>5, <2>2 DEF WorkInv, JobInv, JobHasObjects
    <2> QED
      BY <1>1, <2>1, <2>2, <2>3, SameObjects
      DEF Follower!Scale, Deployments, Cr, Scaled
  <1> QED
    BY <1>3, <1>4, <1>5, ReconcileWrites

(* Every step is one of the follower, or is not seen by it.                *)
LEMMA StepsMap ==
    ASSUME TypeOK, WorkInv, [Next]_vars
    PROVE  [Follower!Next]_(Follower!vars)
  <1>1. ASSUME NEW j \in Jobs, Reconcile(j) PROVE Follower!Next \/ Untouched
    BY <1>1, ReconcileMaps, SameObjects DEF Follower!Next
  <1>2. ASSUME NEW k \in Keys, Users(k) \/ FinishDeletion(k) PROVE Follower!Next
    BY <1>2, CrWritesMap DEF Follower!Next
  <1>3. ASSUME NEW n \in Names, Others(n) PROVE Follower!Next
    BY <1>3, OthersMap DEF Follower!Next
  <1>4. ASSUME NEW j \in Jobs, Queues(j) PROVE Untouched
    BY <1>4 DEF Queues, DeliverGateway, Resync, BackoffEnds, server, history, Untouched
  <1>5. ASSUME NEW m \in Managers,
               Manager(m) \/ \E n \in Names : DeliverDeployment(m, n)
        PROVE  Untouched
    BY <1>5, ManagerSteps DEF DeliverDeployment, server, history, Untouched
  <1>6. UNCHANGED vars => Untouched
    BY DEF vars, server, history, Untouched
  <1> QED
    BY <1>1, <1>2, <1>3, <1>4, <1>5, <1>6, NextSteps, UntouchedStutters

(* The reconcilers implement the follower: however many processes work,    *)
(* with whatever caches, and die or lose the lease between any two calls,  *)
(* the Deployments change as if each reconcile read and wrote at once.     *)
THEOREM Implementation == Spec => ImplementsFollower
  BY InitMaps, StepsMap, TypeCorrect, WorkInvariant, PTL
  DEF Spec, ImplementsFollower, Follower!Spec
=============================================================================
