\* Valid proportions: successful distributions are exact and Coins.Sub never panics.
CONSTANTS
    Denominator = 10
    Proportions <- MC_Proportions
    MintAmounts = {0, 5, 7, 10}
    MaxSupply = 24
    EpochNums = {0, 1}
    h1 = h1
    h2 = h2
    Hooks = {h1, h2}
    NoHooks = NoHooks
    Submodules <- MC_Submodules
INIT Init
NEXT Next
INVARIANTS
    TypeOK
    DistributionExact
    SharesWithinAmount
