\* The StatefulSet is scaled by hand; no fault, no restart.
SPECIFICATION FairSpec
CONSTANTS
    s1 = s1
    Names <- OneName
    Keys <- OneStore
    Replicas = {1}
    Images = {TRUE}
    Strangers = {}
    Resyncs = FALSE
    MaxEdits = 1
    MaxForeign = 1
    MaxShuffles = 0
    MaxFaults = 0
    MaxRestarts = 0
    MaxTrouble = 2
PROPERTIES NodesFollowPods
CHECK_DEADLOCK FALSE
