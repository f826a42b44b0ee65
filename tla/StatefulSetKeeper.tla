-------------------------- MODULE StatefulSetKeeper --------------------------
(***************************************************************************)
(* What the reconcilers of Store and Controller promise to do to the       *)
(* objects.  There are no informer caches, queues, calls, errors or        *)
(* resourceVersions here.  A keeper goes by one version of its CR, never   *)
(* an older one than before; makes the StatefulSet when there is none, and *)
(* never touches one that is there; lists the pods at one moment; and      *)
(* reports on the version of the CR it went by then, if nobody has asked   *)
(* for anything since, and only when it has something new to say.          *)
(***************************************************************************)
EXTENDS StatefulSetObjects

VARIABLES
    asked,     \* the versions of each CR, oldest first
    sts,       \* the StatefulSet of each name
    pods,      \* the pods of each name
    read,      \* the version of the CR that its keeper goes by
    listed     \* the pods a keeper has listed to report them on a version

vars == <<asked, sts, pods, read, listed>>

NothingListed == [version |-> 0, order |-> <<>>]
List == [version: Nat, order: Seq(Nat)]

Newest(k) == asked[k][Len(asked[k])]

Init ==
    /\ asked = [k \in Keys |-> <<NoStore>>]
    /\ sts = [n \in Names |-> NoStatefulSet]
    /\ pods = [n \in Names |-> {}]
    /\ read = [k \in Keys |-> 1]
    /\ listed = [k \in Keys |-> NothingListed]

(* A user creates, edits or deletes a CR, and does not write its status.   *)
Ask(k, store) ==
    /\ asked' = [asked EXCEPT ![k] = Append(@, store)]
    /\ UNCHANGED <<sts, pods, read, listed>>

UserAsks(k) ==
    \/ /\ ~Newest(k).live
       /\ \E n \in Replicas, i \in Images :
             Ask(k, [live |-> TRUE, uid |-> Len(asked[k]) + 1, replicas |-> n,
                     image |-> i, size |-> 0, nodes |-> <<>>])
    \/ /\ Newest(k).live
       /\ \/ \E n \in Replicas, i \in Images :
                Ask(k, [Newest(k) EXCEPT !.replicas = n, !.image = i])
          \/ Ask(k, NoStore)

(* Others scale the StatefulSet or delete it.                              *)
OthersWrite(n) ==
    /\ sts[n].live
    /\ \E s \in {NoStatefulSet} \cup
                {[sts[n] EXCEPT !.replicas = r] : r \in Replicas \cup {0}} :
          sts' = [sts EXCEPT ![n] = s]
    /\ UNCHANGED <<asked, pods, read, listed>>

PodsChange(n) ==
    /\ \/ \E p \in 0..(sts[n].replicas - 1) \cup Strangers :
             pods' = [pods EXCEPT ![n] = @ \cup {p}]
       \/ \E p \in pods[n] : pods' = [pods EXCEPT ![n] = @ \ {p}]
    /\ UNCHANGED <<asked, sts, read, listed>>

(* A keeper makes a StatefulSet that is missing.                           *)
MakeStatefulSet(k) ==
    LET store == asked[k][read[k]]
    IN  /\ ~sts[NameOf(k)].live
        /\ store.live /\ store.image
        /\ sts' = [sts EXCEPT ![NameOf(k)] = StatefulSetFor(k, store)]
        /\ UNCHANGED <<asked, pods, read, listed>>

(* Keepers go on to newer versions at any time.                            *)
GoOn ==
    /\ read' \in [Keys -> Nat]
    /\ \A k \in Keys : read'[k] \in read[k]..Len(asked[k])

ListPods(k) ==
    /\ \E order \in Orders(pods[NameOf(k)]) :
          listed' = [listed EXCEPT ![k] = [version |-> read[k], order |-> order]]
    /\ GoOn
    /\ UNCHANGED <<asked, sts, pods>>

(* The size that is reported is the one asked for; the nodes are the pods  *)
(* that were listed, or stay as they are.  Nodes are never none.  The list *)
(* may serve for another report, on the version that this one makes.       *)
Report(k) ==
    /\ Newest(k).live
    /\ listed[k].version = Len(asked[k])
    /\ \E nodes \in {Newest(k).nodes, listed[k].order} \ {<<>>} :
          LET reported == [Newest(k) EXCEPT !.size = Newest(k).replicas,
                                            !.nodes = nodes]
          IN  /\ reported # Newest(k)
              /\ asked' = [asked EXCEPT ![k] = Append(@, reported)]
    /\ \E list \in {NothingListed, listed[k],
                    [listed[k] EXCEPT !.version = Len(asked[k]) + 1]} :
          listed' = [listed EXCEPT ![k] = list]
    /\ UNCHANGED <<sts, pods, read>>

(* Keepers may forget what they have listed.                               *)
Forget ==
    /\ listed' \in [Keys -> List]
    /\ \A k \in Keys : listed'[k] \in {listed[k], NothingListed}
    /\ GoOn
    /\ UNCHANGED <<asked, sts, pods>>

Next ==
    \/ \E k \in Keys :
          UserAsks(k) \/ MakeStatefulSet(k) \/ ListPods(k) \/ Report(k)
    \/ \E n \in Names : OthersWrite(n) \/ PodsChange(n)
    \/ Forget

Spec == Init /\ [][Next]_vars
=============================================================================
