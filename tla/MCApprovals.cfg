\* Scans, reconciles, switches and a revoke batch over the approvals cache.
SPECIFICATION MCSpec
CONSTANTS
    Accounts = {"alice", "bob"}
    Pairs <- MCPairs
    Starts <- MCStarts
    Page = 1
    MaxEvents = 1
    MaxEpochs = 2
    MaxReconciles = 1
    FaultSets <- MCFaultSets
CONSTRAINT MCFewBatches
INVARIANTS OwnAccountOnly CalmCursorPassesNothing
CHECK_DEADLOCK FALSE
