----------------------- MODULE MCDeploymentReconciler -----------------------
(* DeploymentReconciler for TLC: one CR, or two of different kinds that    *)
(* have the same name; one process of the operator, or two.                *)
EXTENDS DeploymentReconciler

CONSTANTS n1, m1, m2

MCNames == {n1}
OneGateway == {<<"Gateway", n1>>}
OneTimer == {<<"Timer", n1>>}
OneTrigger == {<<"Trigger", n1>>}
GatewayAndTrigger == {<<"Gateway", n1>>, <<"Trigger", n1>>}
OneManager == {m1}
TwoManagers == {m1, m2}
=============================================================================
