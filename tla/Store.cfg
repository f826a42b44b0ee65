\* One Store with an image or without one, pods that are listed in any order, an
\* edit or a deletion, resyncs, and one thing that goes wrong: a write by others
\* (a pod of another Deployment with the same label among them), a list out of
\* order, a fault or a restart.  Under the fairness of the manager.
SPECIFICATION FairSpec
CONSTANTS
    s1 = s1
    Names <- OneName
    Keys <- OneStore
    Replicas = {1, 2}
    Images = {TRUE, FALSE}
    Strangers = {7}
    Resyncs = TRUE
    MaxEdits = 2
    MaxForeign = 1
    MaxShuffles = 1
    MaxFaults = 1
    MaxRestarts = 1
    MaxTrouble = 1
INVARIANTS TypeOK NeverForgotten CopyInv
PROPERTIES StatusOfWhatWasRead RewrittenForOrderOnly ImplementsKeeper StatusFollowsPods StatefulSetKept
CHECK_DEADLOCK FALSE
