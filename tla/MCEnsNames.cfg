SPECIFICATION MCSpec
CONSTANTS
    Accounts = {"alice", "bob"}
    Names = {crv}
    FirstBlocks <- MCFirstBlocks
    Disks <- MCDisks
    Pins = {}
    MorePins = TRUE
    Addressed = {crv}
    KeyIsStandard = TRUE
    Faults = {"gap", "partial", "lagging proof"}
    Budgets <- MCBudgets
    Me = "me"
    You = "you"
    Beginnings <- MCBeginnings
    CustomKey = "avatar"
    MaxBlocks = 3
    MaxOpens = 1
    MaxReads = 1
    Hashes = {"swap"}
    Coins = {"DAI", "odd"}
    Native = "eth"
    Moves <- MCMoves
    Predictions <- MCPredictions
    Calls = {"swap"}
    Callee <- MCCallee
    Named = {"router"}
    Recent = {"swap"}
    Tickers = {"DAI"}
    Families = {"evm", "tron"}
    MaxShows = 3
    MaxScans = 1
    MaxStarts = 1
INVARIANTS
    ShownIsAsRead
    RolesAuthorise
    ShownWasTrue
    ActivityIsKept
PROPERTIES
    RememberedStays
VIEW MCView
CHECK_DEADLOCK FALSE
