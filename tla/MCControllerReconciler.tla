------------------------ MODULE MCControllerReconciler ------------------------
(* ControllerReconciler for TLC: CRs named x, and one named "vanus-x", the *)
(* name that the Controller x looks up.                                    *)
EXTENDS ControllerReconciler, TLC

CONSTANTS x, vanusX, vanusVanusX

OneName == {x}
TwoNames == {x, vanusX}
OneController == {<<"Controller", x>>}
TwoControllers == {<<"Controller", x>>, <<"Controller", vanusX>>}
OneStore == {<<"Store", x>>}
StoreAndControllers == TwoControllers \cup OneStore

ServicesOfOne == {x, vanusX}
ServicesOfTwo == {x, vanusX, vanusVanusX}
LookupOfOne == (x :> vanusX)
LookupOfTwo == (x :> vanusX) @@ (vanusX :> vanusVanusX)
=============================================================================
