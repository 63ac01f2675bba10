SPECIFICATION Spec
CONSTANTS
    Bags = {b1, b2}
    Mobs = {"soul", "mob"}
    KindOf <- MCKindOf
    IceBosses <- MCIceBosses
    Bosses = {"King", "Sentinel"}
    Lines <- MCLines
    Endings <- MCEndings
    Settings = {TRUE, FALSE}
    Contents <- MCContents
    Maps <- MCMaps
    MaxLag = 1
    MaxMaps = 2
    MaxTicks = 3
    MaxLines = 1
    MaxFights = 1
SYMMETRY BagSymmetry
CHECK_DEADLOCK FALSE
INVARIANTS
    TypeOK
    BagsKept
    IceTombSpread
PROPERTIES
    CreditEarned
