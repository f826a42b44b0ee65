------------------------------ MODULE ApiServer ------------------------------
(***************************************************************************)
(* The Kubernetes API server as the reconcilers see it.  It is not code of *)
(* this repository; it is modelled from the calls the reconcilers make     *)
(* (Get, List, Create, Update, Status().Update) and from the watches that  *)
(* the manager's cache keeps.                                              *)
(*                                                                         *)
(* One object is the sequence of all the versions it ever had.  The        *)
(* resourceVersion of a version is its position in the sequence, and       *)
(* deleting the object appends a version that is not live.  The watch of   *)
(* an informer delivers the sequence in order, so a cache is a position in *)
(* it, and a copy of the object held by a reconcile is one too.            *)
(***************************************************************************)
EXTENDS Naturals, Sequences

(* The newest resourceVersion of the object.                               *)
Rv(log) == Len(log)

(* What the API server stores now.                                         *)
Current(log) == log[Len(log)]

(* The sequence after the server accepted a write.                         *)
Commit(log, version) == Append(log, version)

(* Optimistic concurrency: an Update that carries the resourceVersion rv   *)
(* is accepted only if rv is still the newest one and the object exists.   *)
UpdateAccepted(log, rv) == rv = Rv(log) /\ Current(log).live

(* A Create is accepted only if no object has the name.                    *)
CreateAccepted(log) == ~Current(log).live
=============================================================================
