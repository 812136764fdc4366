SPECIFICATION MCSpec
CONSTANTS
    LastRequest = 2
    MaxFragments = 3
    PreparedFrames = 1
    Masks = 2
    EchoesId = TRUE
INVARIANTS
    PutFindsRoom
    CameraOnlyWhileShown
    SignedForItsRequest
PROPERTIES
    ExchangeEnds
CHECK_DEADLOCK FALSE
