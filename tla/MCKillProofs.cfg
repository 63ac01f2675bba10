SPECIFICATION FairSpec
CONSTANTS
    Boss = {"oryx"}
    Pre = 0
    Post = 1
    Age = 2
    Limit = 1
    MaxTime = 3
    MaxBags = 2
    MaxFights = 2
    MaxMishaps = 1
CHECK_DEADLOCK FALSE
INVARIANTS
    TypeOK
    OneKillPerBag
    NoProofLost
PROPERTIES
    ProofsApplied
