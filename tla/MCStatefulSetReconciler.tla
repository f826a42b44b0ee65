------------------------ MODULE MCStatefulSetReconciler ------------------------
(* StatefulSetReconciler for TLC: one Store.                               *)
EXTENDS StatefulSetReconciler

CONSTANTS s1

OneName == {s1}
OneStore == {<<"Store", s1>>}
=============================================================================
