CONSTANTS
    p1 = p1
    p2 = p2
    None = None
    Ids = {1, 2}
    Payloads <- MCPayloads
    ParamValues <- MCParamValues
    Counts <- MCCounts
    MaxList = 2
    GenesisState <- MCGenesisState
SPECIFICATION Spec
INVARIANTS TypeOK ValidGenesisRoundTrips
