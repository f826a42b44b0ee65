\* A Controller with a pod, created, deleted and created again, and one thing that
\* goes wrong: a write by others, a fault or a restart.  Under the fairness of the
\* manager.
SPECIFICATION ControllerFairSpec
CONSTANTS
    x = x
    vanusX = vanusX
    vanusVanusX = vanusVanusX
    Names <- OneName
    Keys <- OneController
    ServiceNames <- ServicesOfOne
    BuildSvcResourceName <- LookupOfOne
    NoAccessPoint = ""
    Replicas = {1}
    Images = {TRUE}
    Strangers = {}
    Resyncs = FALSE
    MaxEdits = 3
    MaxForeign = 1
    MaxShuffles = 0
    MaxFaults = 1
    MaxRestarts = 1
    MaxTrouble = 1
INVARIANTS ControllerTypeOK NeverForgotten ServicesMade
PROPERTIES ImplementsKeeper StatusOfWhatWasRead ServiceKept BackOffMeansNoService
CHECK_DEADLOCK FALSE
