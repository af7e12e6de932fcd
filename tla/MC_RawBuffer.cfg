\* Non-hex makerFeeAssetData is classified from the raw string bytes.
CONSTANTS
    Msgs <- RawBufferMsgs
    Markets <- MainMarkets
    MaxTime = 3
    MaxPasses = 2
    HashLength = 32
    Uint64Modulus = 16
    Unparseable = Unparseable
    OutOfCapacity = OutOfCapacity
    NoOrder = NoOrder
    NoRequirement = NoRequirement
    NoCall = NoCall
INIT Init
NEXT Next
INVARIANT AcceptedOrderTypeIsZeroOrFive
CHECK_DEADLOCK FALSE
