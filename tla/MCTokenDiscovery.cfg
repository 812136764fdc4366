SPECIFICATION MCSpec
CONSTANTS
    Chains = {eth}
    Accounts = {alice}
    Tokens = {usdc}
    MaxBlock = 2
    p1 = p1
    p2 = p2
    Pipelines = {p1, p2}
PROPERTIES
    ShownNeverRegresses
    GuardIsReleased
