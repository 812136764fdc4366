SPECIFICATION Spec
CONSTANTS
    Chains = {eth}
    Accounts = {alice}
    Tokens = {usdc}
    MaxBlock = 2
INVARIANTS
    SettledRowsAreExact
    FloorsHold
PROPERTIES
    NeverRegresses
    NoDoubleCredit
    ImplementsOrderedBalances
