\* An amount that does not parse makes ToSignedOrder panic inside ValidateBasic.
CONSTANTS
    Msgs <- UnparseableMsgs
    Markets <- MainMarkets
    MaxTime = 3
    MaxPasses = 2
    HashLength = 32
    Uint64Modulus = 16
    Unparseable = Unparseable
    OutOfCapacity = OutOfCapacity
    NoOrder = NoOrder
    NoRequirement = NoRequirement
    NoCall = NoCall
INIT Init
NEXT Next
INVARIANT NeverPanics
CHECK_DEADLOCK FALSE
