\* A Store and a Controller that share a name, and a second Controller, which has
\* the name of the Service that the first one looks up: created, deleted and
\* created again, with a restart.  They start no pods.
SPECIFICATION ControllerFairSpec
CONSTANTS
    x = x
    vanusX = vanusX
    vanusVanusX = vanusVanusX
    Names <- TwoNames
    Keys <- StoreAndControllers
    ServiceNames <- ServicesOfTwo
    BuildSvcResourceName <- LookupOfTwo
    NoAccessPoint = ""
    Replicas = {0}
    Images = {TRUE}
    Strangers = {}
    Resyncs = FALSE
    MaxEdits = 3
    MaxForeign = 0
    MaxShuffles = 0
    MaxFaults = 0
    MaxRestarts = 1
    MaxTrouble = 1
INVARIANTS StatefulSetsMade ServicesMade
PROPERTIES StatefulSetKept OrphansCollected AccessPointKept
CHECK_DEADLOCK FALSE
