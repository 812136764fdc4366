SPECIFICATION MCSpec
CONSTANTS
    shared_ws = shared_ws
    own_ws = own_ws
    dapp1 = dapp1
    dapp2 = dapp2
    s1 = s1
    s2 = s2
    s3 = s3
    Sockets = {shared_ws, own_ws}
    Subs <- MCSubs
    SocketOf <- MCSocketOf
    OriginOf <- MCOriginOf
    Switchers = {dapp1, dapp2, no_origin}
    NoOrigin = no_origin
    Adders = {a1, a2}
    Chains = {mainnet}
    New = palm
    Home = mainnet
    Tasks <- MCTasks
    Hosts <- MCHosts
    Reads = {"r1", "r2"}
    Signed = {"tx"}
    FailFast = 2
    Timeout = 4
    Beats = 5
INVARIANTS
    PassedOverIsFailing
    PinnedHearsItsOwn
SYMMETRY MCSymmetry
CHECK_DEADLOCK FALSE
