\* A Controller is created; nothing else happens.
SPECIFICATION ControllerSpec
CONSTANTS
    x = x
    vanusX = vanusX
    vanusVanusX = vanusVanusX
    Names <- OneName
    Keys <- OneController
    ServiceNames <- ServicesOfOne
    BuildSvcResourceName <- LookupOfOne
    NoAccessPoint = ""
    Replicas = {0}
    Images = {TRUE}
    Strangers = {}
    Resyncs = FALSE
    MaxEdits = 1
    MaxForeign = 0
    MaxShuffles = 0
    MaxFaults = 0
    MaxRestarts = 0
    MaxTrouble = 0
INVARIANTS AccessPointServed
CHECK_DEADLOCK FALSE
