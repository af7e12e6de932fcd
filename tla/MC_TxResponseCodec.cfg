CONSTANTS
    W = 15
    FieldWidth = 8
    Msgs <- MCMsgs
    UnknownFields <- MCUnknownFields
    Inputs <- MCInputs
    NoMsg = NoMsg

SPECIFICATION Spec

INVARIANTS
    TypeOK
    NeverPanics
    MarshalRoundTrip

CHECK_DEADLOCK FALSE
