------------------------- MODULE DeploymentFollower -------------------------
(***************************************************************************)
(* What the reconcilers of Gateway, Timer and Trigger promise: the         *)
(* Deployment follows the custom resource.  There are no caches, queues,   *)
(* calls or resourceVersions here: a follower looks at one version of the  *)
(* CR, never an older one than before, and writes in one step.  It makes   *)
(* the whole Deployment when there is none, and otherwise changes the      *)
(* replicas of what is there and nothing else, so that no write of anybody *)
(* is lost.  It writes nothing that is there already.                      *)
(***************************************************************************)
EXTENDS DeploymentObjects, Sequences

VARIABLES
    asked,         \* the versions of each CR, oldest first
    deployment,    \* the Deployment of each name
    applied        \* the version each follower wrote last, 0 for none

vars == <<asked, deployment, applied>>

Init ==
    /\ asked = [k \in Keys |-> <<NoGateway>>]
    /\ deployment = [n \in Names |-> NoDeployment]
    /\ applied = [j \in Jobs |-> 0]

(* A user asks for something else: a new CR, or another version of it.     *)
Ask(k, gateway) ==
    /\ asked' = [asked EXCEPT ![k] = Append(@, gateway)]
    /\ UNCHANGED <<deployment, applied>>

UserAsks(k) ==
    LET newest == asked[k][Len(asked[k])]
        uid == IF newest.live THEN newest.uid ELSE Len(asked[k]) + 1
    IN  \/ \E gateway \in [live: {TRUE}, deleting: BOOLEAN, uid: {uid},
                           replicas: Count, image: Image] : Ask(k, gateway)
        \/ Ask(k, NoGateway)

(* Others scale the Deployment or delete it.                               *)
OthersWrite(n) ==
    /\ deployment[n].live
    /\ \E d \in {NoDeployment} \cup
                {[deployment[n] EXCEPT !.replicas = r] : r \in Count} :
          deployment' = [deployment EXCEPT ![n] = d]
    /\ UNCHANGED <<asked, applied>>

(* The follower goes by version v of its CR and leaves the Deployment d.   *)
Follow(j, v, d) ==
    /\ v >= applied[j]
    /\ asked[KeyOf(j)][v].live
    /\ applied' = [applied EXCEPT ![j] = v]
    /\ deployment' = [deployment EXCEPT ![NameOf(KeyOf(j))] = d]
    /\ UNCHANGED asked

(* There is no Deployment, and the CR says what it is to run.              *)
Make(j) ==
    \E v \in 1..Len(asked[KeyOf(j)]) :
        LET gateway == asked[KeyOf(j)][v]
        IN  /\ ~deployment[NameOf(KeyOf(j))].live
            /\ gateway.image # NoImage
            /\ Follow(j, v, DeploymentFor(KeyOf(j), gateway))

(* There is one, and its replicas are others than the CR asks for.         *)
Scale(j) ==
    \E v \in 1..Len(asked[KeyOf(j)]) :
        LET found == deployment[NameOf(KeyOf(j))]
            gateway == asked[KeyOf(j)][v]
        IN  /\ found.live
            /\ found.replicas # gateway.replicas
            /\ Follow(j, v, [found EXCEPT !.replicas = gateway.replicas])

Next ==
    \/ \E k \in Keys : UserAsks(k)
    \/ \E n \in Names : OthersWrite(n)
    \/ \E j \in Jobs : Make(j) \/ Scale(j)

Spec == Init /\ [][Next]_vars
=============================================================================
