\* Marshal, Size and Unmarshal of the four generated messages, and the proposals' Equal against Marshal.
CONSTANTS
    WireWidth = 16
    Int32Width = 10
    d0 = d0
    d1 = d1
    Delegations = {d0, d1}
    NilPtr = NilPtr
    DelegationEncoding <- MC_DelegationEncoding
    Strings <- MC_Strings
    Int32s <- MC_Int32s
    WireBytes <- MC_WireBytes
    MaxWireLen = 3
    LongInputs <- MC_LongInputs
INIT Init
NEXT Next
INVARIANTS
    MarshalCanonical
    RoundTrip
    UnmarshalNeverPanics
    
