SPECIFICATION MCSpec
CONSTANTS
    Callers = {c1, c2}
    Procs = {p1, p2, p3}
    Rpcs = {own, bundled}
    Bundled = bundled
    SendOnly = {own}
    None = none
    Grace = 1
    StuckLimit = 1
    Lag = 1
    LastBlock = 2
    MaxSwaps = 1
    MaxFaults = 1
SYMMETRY Symmetry
VIEW MCView
CONSTRAINT MCBudgets
INVARIANTS NoOrphan PreviewSeesFloor
CHECK_DEADLOCK FALSE
