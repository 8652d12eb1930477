\* The Cosmos SDK's semantics: a message that fails is reverted.
CONSTANTS
    c1 = c1  c2 = c2
    conn0 = conn0  conn1 = conn1  conn2 = conn2  connX = connX
    ChainIds = {c1, c2}
    Connections = {conn0, conn1, conn2, connX}
    ConnChain <- MC_ConnChain
    Unknown = Unknown  NoZone = NoZone  NoRecord = NoRecord  NoEntry = NoEntry
    EpochIds = {0, 1}
    Amounts = {0, 1}
    Statuses = {"BONDED", "UNBONDING"}
    DiscardOnError = TRUE
SPECIFICATION Spec
INVARIANTS OwnerRequestedOnce RegistrationAllOrNothing
