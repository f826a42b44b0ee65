\* One CR, which may lack an image and may be deleted in the foreground; a
\* write by others, a fault and a restart.  Under the fairness of the manager.
SPECIFICATION FairSpec
CONSTANTS
    n1 = n1
    m1 = m1
    m2 = m2
    Managers <- OneManager
    Names <- MCNames
    Keys <- OneTrigger
    Replicas = {1, 2}
    Images = {i1, none}
    NoImage = none
    LeaderElect = FALSE
    ForegroundDeletion = TRUE
    MaxEdits = 2
    MaxForeign = 1
    MaxFaults = 1
    MaxRestarts = 1
    MaxLost = 0
PROPERTIES EventualConvergence OrphansCollected
CHECK_DEADLOCK FALSE
