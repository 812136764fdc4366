\* Defaults, keystores and the saved file, over removals, crashes, two savers; or scans
\* and signatures with devices that are replugged.
SPECIFICATION MCSpec
CONSTANTS
    Candidates <- MCCandidates
    Families <- MCFamilies
    NewChains <- MCNewChains
    Failing <- MCFailing
    MaxAccounts = 3
    MaxSaves = 3
    MaxCrashes = 1
    Seeds = {"A", "B"}
    Phrases = {"p", "q"}
    Direct = {"bip44"}
    Stepwise = {"live"}
    Dialogs = {1}
    BatchSize = 1
    HardCap = 2
    StopAfter = 2
    Enabled = {1}
    MaxPlugs = 2
    MaxLate = 1
INVARIANTS DefaultIsHeld QuietMeansSaved SignedByOwner NodeTreesAreOneWallet
CHECK_DEADLOCK FALSE
