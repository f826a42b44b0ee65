\* A user changes the image; nothing else goes wrong.
SPECIFICATION FairSpec
CONSTANTS
    n1 = n1
    m1 = m1
    m2 = m2
    Managers <- OneManager
    Names <- MCNames
    Keys <- OneGateway
    Replicas = {1}
    Images = {i1, i2}
    NoImage = none
    LeaderElect = FALSE
    ForegroundDeletion = FALSE
    MaxEdits = 2
    MaxForeign = 0
    MaxFaults = 0
    MaxRestarts = 0
    MaxLost = 0
PROPERTIES ImageRolledOut
CHECK_DEADLOCK FALSE
