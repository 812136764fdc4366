SPECIFICATION MCSpec
CONSTANTS
    Addrs = {"shop", "vault"}
    Own = {"vault"}
    Names = {"shop.eth", "vault.eth"}
    Registry <- MCRegistry
    Amounts = {1}
    Families = {"evm", "tron"}
    MaxEdits = 3
INVARIANTS
    ConfirmShowsWhatItSends
    PreviewIsCurrent
CHECK_DEADLOCK FALSE
PROPERTIES
    FeeBecomesKnown
    AddressIsPreviewed
