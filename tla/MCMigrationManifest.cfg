SPECIFICATION FairSpec
CONSTANTS
    owned = owned
    built = built
    consumed = consumed
    obsolete = obsolete
    roaming = roaming
    k1 = k1
    k2 = k2
    Item <- Items
    Class <- Classed
    Key <- Keys
    NoKey = NoKey
    NoJournal = NoJournal
    MaxInterrupts = 0
    MaxManifestKills = 1
    MaxDamage = 0
PROPERTIES
    ResumesAtAnyPoint
