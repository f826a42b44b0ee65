\* One CR, every hazard: edits, deletion and recreation, foreign writes,
\* faults and a restart.  It ends when the bounds are used up.
SPECIFICATION Spec
CONSTANTS
    n1 = n1
    m1 = m1
    m2 = m2
    Managers <- OneManager
    Names <- MCNames
    Keys <- OneTimer
    Replicas = {1, 2}
    Images = {i1}
    NoImage = none
    LeaderElect = FALSE
    ForegroundDeletion = FALSE
    MaxEdits = 3
    MaxForeign = 1
    MaxFaults = 1
    MaxRestarts = 1
    MaxLost = 0
INVARIANTS TypeOK WorkInv QuietMeansSettled
PROPERTIES ScaleMonotone ImplementsFollower
CHECK_DEADLOCK FALSE
