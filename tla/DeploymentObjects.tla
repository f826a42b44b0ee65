-------------------------- MODULE DeploymentObjects --------------------------
(***************************************************************************)
(* What the reconcilers of Gateway, Timer and Trigger work with: custom    *)
(* resources (CRs), Deployments, and the processes of the operator.  Names *)
(* are those of Gateway.                                                   *)
(***************************************************************************)
EXTENDS Naturals

CONSTANTS
    Managers,        \* the processes of the operator
    Names,           \* the names of CRs and Deployments
    Keys,            \* the CRs: kind and name
    Replicas,        \* the replica counts anybody may ask for
    Images,          \* what a user may write into the image of a CR
    NoImage          \* no image: the field is left out

Kinds == {"Gateway", "Timer", "Trigger"}

ASSUME KeysAssumption == Keys \subseteq Kinds \X Names
ASSUME ReplicasAssumption == Replicas \subseteq Nat

Kind(k) == k[1]
NameOf(k) == k[2]

(* Each process reconciles each CR: a job is a process and a CR.           *)
Jobs == Managers \X Keys
ManagerOf(j) == j[1]
KeyOf(j) == j[2]
JobsOf(m) == {m} \X Keys

(* The uid of a CR is the resourceVersion that created it; no two CRs have *)
(* the same, so an owner reference is a key and a uid.  A CR that is       *)
(* deleting has a DeletionTimestamp.                                       *)
Count == Replicas \cup {0}
Image == Images \cup {NoImage}
Gateway ==
    [live: BOOLEAN, deleting: BOOLEAN, uid: Nat, replicas: Count, image: Image]
NoGateway == [live |-> FALSE, deleting |-> FALSE, uid |-> 0, replicas |-> 0,
              image |-> NoImage]

NoOwner == <<>>
Owner == (Keys \X Nat) \cup {NoOwner}
NoContainer == ""
Container == Kinds \cup {NoContainer}
Deployment == [live: BOOLEAN, owner: Owner, replicas: Count, image: Image,
               container: Container]
NoDeployment ==
    [live |-> FALSE, owner |-> NoOwner, replicas |-> 0, image |-> NoImage,
     container |-> NoContainer]

(* Mutant: without the owner reference.                                    *)
DeploymentWithoutOwner(k, gateway) ==
    [live |-> TRUE, owner |-> NoOwner, replicas |-> gateway.replicas,
     image |-> gateway.image, container |-> Kind(k)]

(* Mutant: a Timer's or Trigger's text is still that of Gateway in one     *)
(* place, the name of the container.                                       *)
DeploymentOfGateway(k, gateway) ==
    [live |-> TRUE, owner |-> <<k, gateway.uid>>, replicas |-> gateway.replicas,
     image |-> gateway.image, container |-> "Gateway"]

(* getDeploymentForGateway: replicas and image of the CR, and an owner     *)
(* reference to the CR.  The image stands for every field of the pod       *)
(* template that comes from the CR, and the container for all that is      *)
(* fixed for a kind: its name and its config map.                          *)
DeploymentFor(k, gateway) ==
    [live |-> TRUE, owner |-> <<k, gateway.uid>>, replicas |-> gateway.replicas,
     image |-> gateway.image, container |-> Kind(k)]
=============================================================================
