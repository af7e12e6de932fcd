CONSTANTS
    W = 15
    FieldWidth = 8
    Msgs <- MCMsgsShort
    UnknownFields <- MCUnknownFields
    Inputs <- MCInputsShort
    NoMsg = NoMsg

SPECIFICATION Spec

PROPERTIES
    UnmarshalTerminates

CHECK_DEADLOCK FALSE
