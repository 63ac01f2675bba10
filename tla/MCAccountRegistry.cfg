SPECIFICATION Spec
CONSTANTS
    k1 = k1
    k2 = k2
    k3 = k3
    a1 = a1
    a2 = a2
    Key <- Keys
    Id <- Ids
    NoKey = NoKey
    NoId = NoId
    NoDir = NoDir
    Bare = Bare
    MaxDamage = 2
SYMMETRY Renaming
INVARIANTS
    TypeOK
    OneEntryPerAccount
    EveryProfileRegistered
    RunningIsSelected
    DiscoveryRoundTrip
