\* The helpers of utils.go against their reference definitions: Insert and linear vesting.
CONSTANTS
    Keys = {1, 2, 3}
    v1 = v1
    v2 = v2
    Values = {v1, v2}
    Nil = Nil
    Amounts = {0, 1, 3, 7}
    Times <- MC_Times
    Lengths <- MC_Lengths
    Prec = 100
    IntWidth = 8
    admin1 = admin1
    admin2 = admin2
    other = other
    Admins = {admin1, admin2}
    Addresses = {admin1, admin2, other}
    stride = stride
    cosmos = cosmos
    Hrps = {stride, cosmos}
    ByteLengths = {0, 20, 32}
    MaxSliceLen = 3
INIT Init
NEXT Next
INVARIANTS
    InsertMatchesReference
    VestingLinear
