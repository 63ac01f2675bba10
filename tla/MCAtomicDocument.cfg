SPECIFICATION DocumentSpec
CONSTANTS
    d1 = d1
    d2 = d2
    d3 = d3
    Value <- Documents
    Missing = Missing
    Malformed = Malformed
    MaxMishaps = 3
    MaxCorruptions = 2
INVARIANTS
    DocumentTypeOK
    NoStaleLoad
PROPERTIES
    ImplementsRegister
