\* The worked long example: the code memoizes 95 where the specification says 94.
CONSTANTS
    Msgs <- ExampleMsgs
    Markets <- ExampleMarkets
    MaxTime = 3
    MaxPasses = 2
    HashLength = 32
    Uint64Modulus = 16
    Unparseable = Unparseable
    OutOfCapacity = OutOfCapacity
    NoOrder = NoOrder
    NoRequirement = NoRequirement
    NoCall = NoCall
INIT Init
NEXT Next
INVARIANT IndexPriceRequirementIsTruncated
CHECK_DEADLOCK FALSE
