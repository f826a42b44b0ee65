-------------------------- MODULE StatefulSetObjects --------------------------
(***************************************************************************)
(* What the reconcilers of Store and Controller work with: custom resources*)
(* (CRs), StatefulSets and pods.  Names are those of Store.                *)
(***************************************************************************)
EXTENDS Naturals, Sequences, FiniteSets

CONSTANTS
    Names,         \* the names of CRs and StatefulSets
    Keys,          \* the CRs: kind and name
    Replicas,      \* the replica counts a user may ask for
    Images,        \* TRUE: a user may name an image, FALSE: may leave it out
    Strangers      \* pods of a Deployment that has the name of a StatefulSet

Kinds == {"Store", "Controller"}

ASSUME KeysAssumption == Keys \subseteq Kinds \X Names
ASSUME ReplicasAssumption == Replicas \subseteq Nat
ASSUME ImagesAssumption == Images \subseteq BOOLEAN
ASSUME StrangersAssumption ==
    Strangers \subseteq Nat /\ \A p \in Strangers, r \in Replicas : p >= r

Kind(k) == k[1]
NameOf(k) == k[2]

(* replicas stands for the whole of the spec that is copied to the         *)
(* StatefulSet, image tells whether the CR names one, and container stands *)
(* for what is fixed for a kind.  A pod is its ordinal, and a pod of a     *)
(* Gateway, Timer or Trigger, which has the same label app, is a number no *)
(* ordinal reaches; nodes that are empty stand for a nil slice.            *)
NoOwner == <<>>
Owner == (Keys \X Nat) \cup {NoOwner}
NoContainer == ""
Container == {"store", "controller", NoContainer}

Store == [live: BOOLEAN, uid: Nat, replicas: Nat, image: BOOLEAN,
          size: Nat, nodes: Seq(Nat)]
StatefulSet == [live: BOOLEAN, owner: Owner, replicas: Nat, container: Container]
NoStore == [live |-> FALSE, uid |-> 0, replicas |-> 0, image |-> FALSE,
            size |-> 0, nodes |-> <<>>]
NoStatefulSet ==
    [live |-> FALSE, owner |-> NoOwner, replicas |-> 0, container |-> NoContainer]

(* Mutant: without the owner reference.                                    *)
StatefulSetWithoutOwner(k, store) ==
    [live |-> TRUE, owner |-> NoOwner, replicas |-> store.replicas,
     container |-> "store"]

(* getStatefulSetForStore and getStatefulSetForController: replicas of the *)
(* CR and an owner reference to it.                                        *)
StatefulSetForStore(k, store) ==
    [live |-> TRUE, owner |-> <<k, store.uid>>, replicas |-> store.replicas,
     container |-> "store"]

StatefulSetForController(k, controller) ==
    [live |-> TRUE, owner |-> <<k, controller.uid>>,
     replicas |-> controller.replicas, container |-> "controller"]

StatefulSetFor(k, cr) ==
    IF Kind(k) = "Store" THEN StatefulSetForStore(k, cr)
    ELSE StatefulSetForController(k, cr)

(* The orders in which a set of pods may be listed.                        *)
Orders(S) ==
    {order \in [1..Cardinality(S) -> S] :
        \A p \in S : \E i \in DOMAIN order : order[i] = p}
=============================================================================
