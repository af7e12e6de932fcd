\* The pipeline: ValidateBasic, then up to two passes of DoesValidationPass
\* on the same Order over three blocks.  A transaction's processing ends in
\* a terminal stage, so deadlock is not checked.
CONSTANTS
    Msgs <- MainMsgs
    Markets <- MainMarkets
    MaxTime = 3
    MaxPasses = 2
    HashLength = 32
    Uint64Modulus = 16
    Unparseable = Unparseable
    OutOfCapacity = OutOfCapacity
    NoOrder = NoOrder
    NoRequirement = NoRequirement
    NoCall = NoCall
INIT Init
NEXT Next
INVARIANTS
    TypeOK
    MemoMatchesAcceptedPass
    AcceptedWithinSpecLeverage
    RejectedPassRecord
CHECK_DEADLOCK FALSE
