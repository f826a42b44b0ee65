\* No other writer, no fault, no restart: only users and the operator.
SPECIFICATION Spec
CONSTANTS
    n1 = n1
    m1 = m1
    m2 = m2
    Managers <- OneManager
    Names <- MCNames
    Keys <- OneGateway
    Replicas = {1, 2}
    Images = {i1}
    NoImage = none
    LeaderElect = FALSE
    ForegroundDeletion = FALSE
    MaxEdits = 3
    MaxForeign = 0
    MaxFaults = 0
    MaxRestarts = 0
    MaxLost = 0
INVARIANTS QuietMeansConverged
CHECK_DEADLOCK FALSE
