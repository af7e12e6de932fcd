\* An empty signature passes the hash and reaches signature[len-1].
CONSTANTS
    Msgs <- EmptySignatureMsgs
    Markets <- MainMarkets
    MaxTime = 3
    MaxPasses = 2
    HashLength = 32
    Uint64Modulus = 16
    Unparseable = Unparseable
    OutOfCapacity = OutOfCapacity
    NoOrder = NoOrder
    NoRequirement = NoRequirement
    NoCall = NoCall
INIT Init
NEXT Next
INVARIANT NeverPanics
CHECK_DEADLOCK FALSE
