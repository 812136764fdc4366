SPECIFICATION MCSpec
CONSTANTS
    a = a
    b = b
    Txs <- MCTxs
    NonceOf <- MCNonceOf
    LastNonce = 1
    Poll = poll
    WsProbes = {ws}
    Readings = 3
    Spacing = 1
    Lag = 1
    Delay = 1
    WsErrors = FALSE
    MaxRestarts = 1
INVARIANTS
    DroppedIsReplaced
PROPERTIES
    HistoryMovesOn
    PendingSettles
