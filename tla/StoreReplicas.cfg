\* A user changes the replicas; nothing else goes wrong.
SPECIFICATION FairSpec
CONSTANTS
    s1 = s1
    Names <- OneName
    Keys <- OneStore
    Replicas = {1, 2}
    Images = {TRUE}
    Strangers = {}
    Resyncs = FALSE
    MaxEdits = 2
    MaxForeign = 0
    MaxShuffles = 0
    MaxFaults = 0
    MaxRestarts = 0
    MaxTrouble = 2
PROPERTIES ReplicasFollow
CHECK_DEADLOCK FALSE
