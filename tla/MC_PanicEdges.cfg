\* Which messages and markets make the handler panic: the main messages and
\* markets plus ratios around the long order's zero denominator.  A
\* transaction's processing ends in a terminal stage, so deadlock is not
\* checked.
CONSTANTS
    Msgs <- MainMsgs
    Markets <- EdgeMarkets
    MaxTime = 3
    MaxPasses = 2
    HashLength = 32
    Uint64Modulus = 16
    Unparseable = Unparseable
    OutOfCapacity = OutOfCapacity
    NoOrder = NoOrder
    NoRequirement = NoRequirement
    NoCall = NoCall
INIT Init
NEXT Next
INVARIANT
    PanicOnlyAtKnownEdges
CHECK_DEADLOCK FALSE
