SPECIFICATION MCSpec
CONSTANTS
    Chains = {"eth", "tron"}
    SentOnly = {"tron"}
    Nonceless = {"tron"}
    Ledgers <- MCLedgers
    Disks <- MCDisks
    PageSize = 2
    Batch = 2
    Window = 2
    MaxBlocks = 6
    MaxFails = 1
    MaxMoves = 2
PROPERTIES
    TableStaysHead
    PagingEndsAtFirst
    SendsAreNoticed
CHECK_DEADLOCK FALSE
