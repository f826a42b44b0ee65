\* One CR and two processes that elect a leader: it fails to renew its lease
\* once, and notices before another process has the lease or works on for a while.
SPECIFICATION FairSpec
CONSTANTS
    n1 = n1
    m1 = m1
    m2 = m2
    Managers <- TwoManagers
    Names <- MCNames
    Keys <- OneTrigger
    Replicas = {1, 2}
    Images = {i1}
    NoImage = none
    LeaderElect = TRUE
    ForegroundDeletion = FALSE
    MaxEdits = 2
    MaxForeign = 0
    MaxFaults = 0
    MaxRestarts = 0
    MaxLost = 1
INVARIANTS QuietMeansSettled
PROPERTIES EventualConvergence OrphansCollected
CHECK_DEADLOCK FALSE
