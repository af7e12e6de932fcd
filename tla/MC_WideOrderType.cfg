\* A 256-bit order type of 2^64 + 5 is read as 5 by Uint64().
CONSTANTS
    Msgs <- WideTypeMsgs
    Markets <- MainMarkets
    MaxTime = 3
    MaxPasses = 2
    HashLength = 32
    Uint64Modulus = 16
    Unparseable = Unparseable
    OutOfCapacity = OutOfCapacity
    NoOrder = NoOrder
    NoRequirement = NoRequirement
    NoCall = NoCall
INIT Init
NEXT Next
INVARIANT AcceptedOrderTypeIsZeroOrFive
CHECK_DEADLOCK FALSE
