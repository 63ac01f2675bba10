SPECIFICATION Spec
CONSTANTS
    Total = 13
    Start <- Starts
    Size <- Sizes
    Tick <- Ticks
    Key <- Keys
    Segment <- Segments
    Isn = 27
    Half = 16
    HeaderSize = 1
    MaxPacket = 4
    Mtu = 3
    MaxBuffer = 6
    MaxPending = 1
    MaxInvalid = 2
    MaxSearch = 5
INVARIANTS
    TypeOK
    InSync
    NothingHeldBack
