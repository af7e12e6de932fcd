---------------------------- MODULE OrderPipeline ----------------------------
(***************************************************************************)
(* One MsgCreateDerivativeOrder on its way through the engine               *)
(* (src/unnamed/part_000): the stateless MsgCreateDerivativeOrder.          *)
(* ValidateBasic (signature format, ToSignedOrder), then Order.             *)
(* DoesValidationPass, which classifies the order type, checks expiry and  *)
(* the two leverage limits, and memoizes OrderType and                      *)
(* IndexPriceRequirement on the Order record.  An accepted order rests and *)
(* may be validated again, against a later block and a newer market         *)
(* snapshot, on the same Order record.  Block time advances independently. *)
(*                                                                         *)
(* Data abstraction.  An amount is the integer its decimal string parses   *)
(* to, or Unparseable when math.ParseBig256 rejects it.  A signature is its *)
(* decoded byte length and its last byte (the 0x signature type).          *)
(* makerFeeAssetData is its decoded length and the big-endian value of the *)
(* HashLength bytes that the slice [:HashLength] yields: when the decoded  *)
(* data is shorter, that slice reads the rest of hex.DecodeString's buffer *)
(* (whatever the input string held there) or, past the buffer's capacity, *)
(* panics (OutOfCapacity).  IndexPriceRequirement is kept as the integer   *)
(* whose decimal String() the code stores; the conversion is lossless.     *)
(***************************************************************************)
EXTENDS Integers, Margin

CONSTANTS
    Msgs,           \* the messages a sender may submit
    Markets,        \* market snapshots [initialMarginRatio, indexPrice]
    MaxTime,        \* the last block time explored
    MaxPasses,      \* bound on DoesValidationPass calls on one Order
    HashLength,     \* common.HashLength
    Uint64Modulus,  \* 2^64: big.Int.Uint64 keeps the low 64 bits
    Unparseable,    \* an amount string math.ParseBig256 rejects
    OutOfCapacity,  \* a [:HashLength] slice beyond the buffer's capacity
    NoOrder,        \* msg.Order == nil
    NoRequirement,  \* IndexPriceRequirement before it is first computed
    NoCall          \* no DoesValidationPass call made yet

VARIABLES
    msg,                    \* the submitted message
    stage,                  \* where the message is in the pipeline
    orderType,              \* Order.OrderType (memoized)
    indexPriceRequirement,  \* Order.IndexPriceRequirement (memoized)
    verdict,                \* the outcome of the last check
    now,                    \* current block time, in seconds
    passes,                 \* DoesValidationPass calls made on the Order
    lastCall                \* arguments of the last DoesValidationPass call

vars == <<msg, stage, orderType, indexPriceRequirement, verdict, now,
          passes, lastCall>>

Amount == Int \cup {Unparseable}

AmountFields == {"makerAssetAmount", "takerAssetAmount", "makerFee",
                 "takerFee", "expirationTimeSeconds", "salt"}

Signature == [len : Nat, tag : 0..255]

FeeAssetData == [len : Nat, prefix : Nat \cup {OutOfCapacity}]

Order == [makerAssetAmount : Amount, takerAssetAmount : Amount,
          makerFee : Amount, takerFee : Amount,
          expirationTimeSeconds : Amount, salt : Amount,
          makerFeeAssetData : FeeAssetData, signature : Signature]

Msg == [sender : STRING, order : Order \cup {NoOrder}]

Market == [initialMarginRatio : Int, indexPrice : Int]

Call == [isLong : BOOLEAN, market : Market]

ASSUME ConstantsAssumption ==
    /\ HashLength \in Nat \ {0}
    /\ Uint64Modulus \in Nat \ {0}
    /\ MaxTime \in Nat
    /\ MaxPasses \in Nat
    /\ Markets \subseteq Market
    /\ Msgs \subseteq Msg
    \* the sentinels are not values of the sets they stand beside
    /\ Unparseable \notin Int
    /\ OutOfCapacity \notin Nat
    /\ NoOrder \notin Order
    /\ NoRequirement \notin Int
    /\ NoCall \notin Call
    \* a slice within the decoded data never fails
    /\ \A m \in Msgs : m.order # NoOrder =>
          (m.order.makerFeeAssetData.len >= HashLength =>
              m.order.makerFeeAssetData.prefix # OutOfCapacity)

Verdicts == {"None", "Ok", "Accepted", "InvalidAddress", "UnknownRequest",
             "UnrecognizedOrderType", "OrderExpired",
             "OverLeveragedContractPrice", "OverLeveragedIndexPriceLong",
             "OverLeveragedIndexPriceShort", "Panic"}

Stages == {"Submitted", "Checked", "Resting", "Rejected", "Panicked"}

(***************************************************************************)
(* Signature types of 0x v3 (zeroex.SignatureType), by their byte value.   *)
(***************************************************************************)
IllegalSignature == 0
InvalidSignature == 1
EIP712Signature == 2
EthSignSignature == 3
WalletSignature == 4
ValidatorSignature == 5
PreSignedSignature == 6
EIP1271WalletSignature == 7

\* isValidSignature, for a non-empty signature: a closed set of accepted
\* shapes; Illegal, Invalid and every unknown type fall to "false".
IsValidSignature(sig) ==
    \/ sig.tag \in {EIP712Signature, EthSignSignature} /\ sig.len = 66
    \/ sig.tag = ValidatorSignature /\ sig.len >= 21
    \/ sig.tag \in {PreSignedSignature, WalletSignature, EIP1271WalletSignature}

\* signature[len(signature)-1] on an empty signature is out of range.
SignaturePanics(sig) == sig.len = 0

\* so2zo fails when one of the six amounts does not parse (which one comes
\* first only changes the error text).
So2zoFails(o) == \E f \in AmountFields : o[f] = Unparseable

\* ToSignedOrder turns so2zo's error into a panic.
ToSignedOrderPanics(o) == So2zoFails(o)

\* ComputeOrderHash (package zeroex, outside src/): the EIP-712 hash of the
\* order encodes each of the six amounts as a uint256, and the encoder
\* rejects a negative value ("hash check failed").  Amounts of more than
\* 256 bits fail the same way; the instances use none.
HashFails(o) == \E f \in AmountFields : o[f] < 0

\* MsgCreateDerivativeOrder.ValidateBasic, as the verdict it returns.
BasicVerdict(m) ==
    IF m.sender = "" THEN "InvalidAddress"
    ELSE IF m.order = NoOrder THEN "UnknownRequest"
    ELSE IF ToSignedOrderPanics(m.order) THEN "Panic"
    ELSE IF HashFails(m.order) THEN "UnknownRequest"
    ELSE IF SignaturePanics(m.order.signature) THEN "Panic"
    ELSE IF ~IsValidSignature(m.order.signature) THEN "UnknownRequest"
    ELSE "Ok"

(***************************************************************************)
(* ComputeAndSetOrderType: the leading HashLength bytes of                 *)
(* makerFeeAssetData as a big.Int, then .Uint64(), which keeps the low 64  *)
(* bits of a larger value.  OrderType is written only for 0 or 5.          *)
(***************************************************************************)
ClassifyPanics(o) == o.makerFeeAssetData.prefix = OutOfCapacity

\* Fault: OrderType stored before the type is checked.
OrderTypeAfterUnchecked(o, old) ==
    IF ~ClassifyPanics(o) THEN o.makerFeeAssetData.prefix % Uint64Modulus ELSE old

OrderTypeNumber(o) == o.makerFeeAssetData.prefix % Uint64Modulus

TypeRecognized(o) == ~ClassifyPanics(o) /\ OrderTypeNumber(o) \in {0, 5}

OrderTypeAfter(o, old) == IF TypeRecognized(o) THEN OrderTypeNumber(o) ELSE old

(***************************************************************************)
(* The checks of DoesValidationPass after classification, in code order.   *)
(***************************************************************************)
\* orderExpirationTime.Cmp(blockTime) <= 0: expiry at the block time counts.
Expired(o, t) == o.expirationTimeSeconds <= t

\* Fault: margin compared with alpha * quantity, the price factor dropped.
ContractOverLeveragedNoPrice(o, mkt) ==
    o.makerFee < ScalePermyriad(o.takerAssetAmount, mkt.initialMarginRatio)

ContractOverLeveraged(o, mkt) ==
    o.makerFee < ContractPriceMarginRequirement(o.makerAssetAmount,
                     o.takerAssetAmount, mkt.initialMarginRatio)

\* big.Int.Div by a zero denominator panics.
DenominatorZero(o, isLong, mkt) ==
    IndexPriceDenominator(isLong, o.takerAssetAmount, mkt.initialMarginRatio) = 0

IndexReq(o, isLong, mkt) ==
    IndexPriceMarginRequirement(isLong, o.makerAssetAmount, o.takerAssetAmount,
                                o.makerFee, mkt.initialMarginRatio)

IndexOverLeveraged(o, isLong, mkt) ==
    IF isLong THEN mkt.indexPrice < IndexReq(o, isLong, mkt)
              ELSE mkt.indexPrice > IndexReq(o, isLong, mkt)

\* Whether the pass reaches ComputeIndexPriceMarginRequirement's division.
ReachesIndexCheck(o, isLong, mkt, t) ==
    /\ TypeRecognized(o)
    /\ ~Expired(o, t)
    /\ ~ContractOverLeveraged(o, mkt)
    /\ ~DenominatorZero(o, isLong, mkt)

\* Fault: IndexPriceRequirement computed once and then served from the cache.
IndexPriceRequirementComputedOnce(o, isLong, mkt, t, old) ==
    IF ReachesIndexCheck(o, isLong, mkt, t) /\ old = NoRequirement
    THEN IndexReq(o, isLong, mkt) ELSE old

\* Fault: IndexPriceRequirement written only when the pass accepts.
IndexPriceRequirementOnAccept(o, isLong, mkt, t, old) ==
    IF ReachesIndexCheck(o, isLong, mkt, t) /\ ~IndexOverLeveraged(o, isLong, mkt)
    THEN IndexReq(o, isLong, mkt) ELSE old

\* The write of ComputeIndexPriceMarginRequirement (line 488).
IndexPriceRequirementAfter(o, isLong, mkt, t, old) ==
    IF ReachesIndexCheck(o, isLong, mkt, t) THEN IndexReq(o, isLong, mkt) ELSE old

PassVerdict(o, isLong, mkt, t) ==
    IF ClassifyPanics(o) THEN "Panic"
    ELSE IF ~TypeRecognized(o) THEN "UnrecognizedOrderType"
    ELSE IF Expired(o, t) THEN "OrderExpired"
    ELSE IF ContractOverLeveraged(o, mkt) THEN "OverLeveragedContractPrice"
    ELSE IF DenominatorZero(o, isLong, mkt) THEN "Panic"
    ELSE IF IndexOverLeveraged(o, isLong, mkt)
         THEN IF isLong THEN "OverLeveragedIndexPriceLong"
                        ELSE "OverLeveragedIndexPriceShort"
    ELSE "Accepted"

\* The stage a verdict leads to.
StageOf(v) == CASE v \in {"Ok"}       -> "Checked"
                [] v \in {"Accepted"} -> "Resting"
                [] v \in {"Panic"}    -> "Panicked"
                [] OTHER              -> "Rejected"

-----------------------------------------------------------------------------
Init ==
    /\ msg \in Msgs
    /\ stage = "Submitted"
    /\ orderType = 0
    /\ indexPriceRequirement = NoRequirement
    /\ verdict = "None"
    /\ now = 0
    /\ passes = 0
    /\ lastCall = NoCall

\* MsgCreateDerivativeOrder.ValidateBasic, run by the ante handler.
ValidateBasic ==
    /\ stage = "Submitted"
    /\ verdict' = BasicVerdict(msg)
    /\ stage' = StageOf(verdict')
    /\ UNCHANGED <<msg, orderType, indexPriceRequirement, now, passes, lastCall>>

\* Order.DoesValidationPass(isLong, market, blockTime) on the message's
\* Order, first after ValidateBasic, then again on a resting order.
DoesValidationPass(isLong, mkt) ==
    LET o == msg.order IN
    /\ stage \in {"Checked", "Resting"}
    /\ passes < MaxPasses
    /\ verdict' = PassVerdict(o, isLong, mkt, now)
    /\ stage' = StageOf(verdict')
    /\ orderType' = OrderTypeAfter(o, orderType)
    /\ indexPriceRequirement' =
          IndexPriceRequirementAfter(o, isLong, mkt, now, indexPriceRequirement)
    /\ passes' = passes + 1
    /\ lastCall' = [isLong |-> isLong, market |-> mkt]
    /\ UNCHANGED <<msg, now>>

\* The chain produces the next block.
NextBlock ==
    /\ now < MaxTime
    /\ now' = now + 1
    /\ UNCHANGED <<msg, stage, orderType, indexPriceRequirement, verdict,
                   passes, lastCall>>

Next ==
    \/ ValidateBasic
    \/ \E isLong \in BOOLEAN, mkt \in Markets : DoesValidationPass(isLong, mkt)
    \/ NextBlock

Spec == Init /\ [][Next]_vars

-----------------------------------------------------------------------------
(***************************************************************************)
(* Properties.                                                             *)
(***************************************************************************)

\* Type invariant.  OrderType only ever holds a recognized type (0 or 5):
\* ComputeAndSetOrderType writes it after the check, never before.
TypeOK ==
    /\ msg \in Msgs
    /\ stage \in Stages
    /\ orderType \in {0, 5}
    /\ indexPriceRequirement \in Int \cup {NoRequirement}
    /\ verdict \in Verdicts
    /\ now \in 0..MaxTime
    /\ passes \in 0..MaxPasses
    /\ lastCall \in Call \cup {NoCall}

\* A resting (accepted) order's memoized fields are those of the pass that
\* accepted it: OrderType is the order's type and IndexPriceRequirement
\* the requirement for that pass's direction and market, not a value left
\* over from an earlier pass against another snapshot (DoesValidationPass,
\* ComputeAndSetOrderType, ComputeIndexPriceMarginRequirement).
MemoMatchesAcceptedPass ==
    stage = "Resting" =>
        /\ lastCall # NoCall
        /\ orderType = OrderTypeNumber(msg.order)
        /\ indexPriceRequirement =
              IndexReq(msg.order, lastCall.isLong, lastCall.market)

\* The record a rejected pass leaves on the Order: ComputeAndSetOrderType
\* writes OrderType at step 1 and ComputeIndexPriceMarginRequirement writes
\* IndexPriceRequirement at step 4, before the comparison, so a pass
\* rejected in between leaves the two fields from different passes.  Once
\* classification passed, OrderType is this order's type; a pass rejected
\* at the index-price check leaves that call's requirement; one rejected at
\* expiry or the contract-price check leaves the requirement unset on a
\* first pass, and the earlier accepting pass's value on a re-validation.
RejectedPassRecord ==
    (stage = "Rejected" /\ lastCall # NoCall) =>
        /\ verdict # "UnrecognizedOrderType" =>
              orderType = OrderTypeNumber(msg.order)
        /\ verdict \in {"OverLeveragedIndexPriceLong", "OverLeveragedIndexPriceShort"} =>
              indexPriceRequirement =
                  IndexReq(msg.order, lastCall.isLong, lastCall.market)
        /\ verdict \in {"OrderExpired", "OverLeveragedContractPrice"} =>
              (indexPriceRequirement = NoRequirement <=> passes = 1)

\* An order the code accepts with a positive quantity, against a market
\* whose ratio and index price are not negative, also meets the
\* specification's leverage limits: there Euclidean division (big.Int.Div)
\* only ever makes the code's index-price check stricter than truncation,
\* so the divergence of the two never lets an over-leveraged order through
\* (DoesValidationPass, ComputeIndexPriceMarginRequirement).
AcceptedWithinSpecLeverage ==
    (/\ stage = "Resting" /\ msg.order.takerAssetAmount > 0
     /\ NonNegativeMarket(lastCall.market)) =>
        SpecLeverageOk(msg.order, lastCall.isLong, lastCall.market)

\* The handler panics only at these edges: an amount that does not parse
\* (ToSignedOrder), an empty signature (signature[len-1]), fee asset data
\* sliced past its capacity (ComputeAndSetOrderType), a zero quantity (a
\* negative one fails the order hash in ValidateBasic), a negative initial
\* margin ratio, or a long order whose ratio
\* r makes alpha = quantity, i.e. 10000 <= r and q * r < 10000 * (q + 1)
\* (big.Int.Div by the zero denominator of ComputeIndexPriceMarginRequirement).
\* A short order, or a long one at any other non-negative ratio, never
\* divides by zero.
PanicOnlyAtKnownEdges ==
    stage = "Panicked" =>
        LET o == msg.order
            q == o.takerAssetAmount
            r == lastCall.market.initialMarginRatio
        IN  \/ ToSignedOrderPanics(o)
            \/ SignaturePanics(o.signature)
            \/ ClassifyPanics(o)
            \/ q = 0
            \/ r < 0
            \/ lastCall.isLong /\ PermyriadBase <= r /\ q * r < PermyriadBase * (q + 1)

(***************************************************************************)
(* What the specification and the code's comments say, checked in the     *)
(* violation runs.                                                         *)
(***************************************************************************)

\* Specification 4.5 and 8: the memoized index-price requirement is
\* trunc(numerator / denominator) (94 for the worked long example), while
\* ComputeIndexPriceMarginRequirement divides with big.Int.Div.
IndexPriceRequirementIsTruncated ==
    stage = "Resting" =>
        indexPriceRequirement =
            SpecIndexPriceMarginRequirement(lastCall.isLong,
                msg.order.makerAssetAmount, msg.order.takerAssetAmount,
                msg.order.makerFee, lastCall.market.initialMarginRatio)

\* Specification 4.5 and 7: a zero denominator is a DivisionByZero error and
\* a field that does not parse is a ParseFailure, both returned to the
\* caller; no step of ValidateBasic or DoesValidationPass panics.
NeverPanics == stage # "Panicked"

\* Specification 4.4: only an order whose leading 32 bytes of
\* makerFeeAssetData hold the value 0 or 5 is classified (and so accepted);
\* ComputeAndSetOrderType reads them through .Uint64() and a slice that may
\* reach past the decoded data.
AcceptedOrderTypeIsZeroOrFive ==
    stage = "Resting" =>
        /\ msg.order.makerFeeAssetData.len >= HashLength
        /\ msg.order.makerFeeAssetData.prefix \in {0, 5}

=============================================================================
