SPECIFICATION FairSpec
CONSTANTS
    Jobs <- MCJobs
    Correlation = 7
    Final = 8
    Batch = 1
    LootSchema = 6
    CombatSchema = 4
    LootVersions = {2, 6}
    CombatVersions = {1}
    OldBags = 2
    OldFights = 2
    Recognised = {1}
    Proof <- MCProof
    Proves <- MCProves
    Fits <- MCFits
    Ivory <- MCIvory
    Retired = {2}
    MaxNew = 1
    MaxKills = 1
    MaxErrors = 1
CHECK_DEADLOCK FALSE
INVARIANTS
    TypeOK
    EachRowOnce
    OldBagsGetOldKills
PROPERTIES
    RepairsFinish
