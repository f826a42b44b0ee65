\* A Gateway and a Trigger of one name, which ask for the same replicas.
SPECIFICATION FairSpec
CONSTANTS
    n1 = n1
    m1 = m1
    m2 = m2
    Managers <- OneManager
    Names <- MCNames
    Keys <- GatewayAndTrigger
    Replicas = {1}
    Images = {i1}
    NoImage = none
    LeaderElect = FALSE
    ForegroundDeletion = FALSE
    MaxEdits = 3
    MaxForeign = 1
    MaxFaults = 0
    MaxRestarts = 0
    MaxLost = 0
INVARIANTS DeploymentsMade
PROPERTIES EventualConvergence OrphansCollected ImplementsFollower
CHECK_DEADLOCK FALSE
