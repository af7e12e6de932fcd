------------------------- MODULE OrderPipelineProofs -------------------------
(***************************************************************************)
(* Proofs about OrderPipeline for every value of its constants.            *)
(*                                                                         *)
(* TypeOK is not inductive on its own: DoesValidationPass computes the     *)
(* index-price requirement from the order's amounts, and those are         *)
(* integers only because ValidateBasic let the message through (so2zo     *)
(* parsed all six of them).  Parsed records that fact; IInv adds it, the   *)
(* memo invariant of an accepted order, and AcceptedPassChecks: a resting  *)
(* order passed the leverage checks of its last call, whatever block time  *)
(* has passed since.                                                       *)
(***************************************************************************)
EXTENDS OrderPipeline, MarginProofs, TLAPS

\* Once past ValidateBasic the message carries an order whose six amounts
\* all parsed (so2zo) and are not negative (ComputeOrderHash).
Parsed ==
    stage \in {"Checked", "Resting"} =>
        /\ msg.order \in Order
        /\ \A f \in AmountFields : msg.order[f] \in Nat

\* The last DoesValidationPass call of a resting order passed the
\* contract-price check, found a non-zero denominator, and passed the
\* index-price check; none of these depends on the block time.
AcceptedPassChecks ==
    stage = "Resting" =>
        /\ lastCall \in Call
        /\ ~ContractOverLeveraged(msg.order, lastCall.market)
        /\ ~DenominatorZero(msg.order, lastCall.isLong, lastCall.market)
        /\ ~IndexOverLeveraged(msg.order, lastCall.isLong, lastCall.market)

IInv == TypeOK /\ Parsed /\ MemoMatchesAcceptedPass /\ AcceptedPassChecks

\* A panicked handler panicked at one of the code's panic sites, read off
\* the message and the last DoesValidationPass call: so2zo or the
\* signature in ValidateBasic, or, in a pass on a parsed order, the
\* classification or ComputeIndexPriceMarginRequirement's division.
PanicSource ==
    stage = "Panicked" =>
        /\ msg.order \in Order
        /\ \/ ToSignedOrderPanics(msg.order)
           \/ SignaturePanics(msg.order.signature)
           \/ /\ lastCall \in Call
              /\ \A f \in AmountFields : msg.order[f] \in Nat
              /\ \/ ClassifyPanics(msg.order)
                 \/ DenominatorZero(msg.order, lastCall.isLong, lastCall.market)

-----------------------------------------------------------------------------
(***************************************************************************)
(* Facts about the pipeline's operators.                                   *)
(***************************************************************************)

\* ValidateBasic lets through only a message whose order parsed and
\* hashed.
LEMMA BasicOkParsed ==
    ASSUME NEW m \in Msg, BasicVerdict(m) = "Ok"
    PROVE  /\ m.order \in Order
           /\ \A f \in AmountFields : m.order[f] \in Nat
<1>1. m.order # NoOrder /\ ~ToSignedOrderPanics(m.order) /\ ~HashFails(m.order)
  BY DEF BasicVerdict
<1>2. m.order \in Order
  BY <1>1 DEF Msg
<1>3. \A f \in AmountFields : m.order[f] \in Amount /\ m.order[f] # Unparseable
  BY <1>1, <1>2 DEF ToSignedOrderPanics, So2zoFails, Order, AmountFields
<1>4. QED
  BY <1>1, <1>2, <1>3 DEF Amount, HashFails

\* ValidateBasic never yields an accepted (resting) order.
LEMMA BasicStage ==
    ASSUME NEW m
    PROVE  /\ StageOf(BasicVerdict(m)) # "Resting"
           /\ StageOf(BasicVerdict(m)) \in Stages
           /\ BasicVerdict(m) \in Verdicts
           /\ StageOf(BasicVerdict(m)) \in {"Checked", "Resting"} =>
                 BasicVerdict(m) = "Ok"
  BY DEF BasicVerdict, StageOf, Stages, Verdicts

\* The verdict of a pass, and the stage it leads to.
LEMMA PassStage ==
    ASSUME NEW o, NEW isLong, NEW mkt, NEW t
    PROVE  /\ PassVerdict(o, isLong, mkt, t) \in Verdicts
           /\ StageOf(PassVerdict(o, isLong, mkt, t)) \in Stages
           /\ StageOf(PassVerdict(o, isLong, mkt, t)) = "Resting" =>
                 /\ PassVerdict(o, isLong, mkt, t) = "Accepted"
                 /\ ReachesIndexCheck(o, isLong, mkt, t)
                 /\ ~IndexOverLeveraged(o, isLong, mkt)
           /\ StageOf(PassVerdict(o, isLong, mkt, t)) # "Checked"
  BY DEF PassVerdict, StageOf, Stages, Verdicts, ReachesIndexCheck

\* The index-price requirement of a parsed order is an integer whenever the
\* pass reaches its division.
LEMMA IndexReqInt ==
    ASSUME NEW o \in Order, \A f \in AmountFields : o[f] \in Int,
           NEW isLong \in BOOLEAN, NEW mkt \in Market, NEW t,
           ReachesIndexCheck(o, isLong, mkt, t)
    PROVE  IndexReq(o, isLong, mkt) \in Int
<1> DEFINE p == o.makerAssetAmount
           q == o.takerAssetAmount
           mg == o.makerFee
           r == mkt.initialMarginRatio
<1>1. p \in Int /\ q \in Int /\ mg \in Int /\ r \in Int
  BY DEF AmountFields, Market
<1>2. ScalePermyriad(q, r) \in Int
  BY <1>1, GoDivInt DEF ScalePermyriad, PermyriadBase
<1>3. IndexPriceNumerator(isLong, p, q, mg) \in Int
  BY <1>1 DEF IndexPriceNumerator
<1>4. IndexPriceDenominator(isLong, q, r) \in Int
  BY <1>1, <1>2 DEF IndexPriceDenominator
<1>5. IndexPriceDenominator(isLong, q, r) # 0
  BY DEF ReachesIndexCheck, DenominatorZero
<1>6. QED
  BY <1>3, <1>4, <1>5, GoDivInt DEF IndexReq, IndexPriceMarginRequirement

\* An order that passed the three leverage checks of a pass, with a positive
\* quantity and against a market of non-negative ratio and index price,
\* meets the specification's limits: the contract check and the
\* denominator are the same, and the index-price check is at least as
\* strict as the truncated one (LongIndexWithinTrunc, ShortIndexWithinTrunc).
LEMMA PassedChecksWithinSpec ==
    ASSUME NEW o \in Order, \A f \in AmountFields : o[f] \in Int,
           o.takerAssetAmount > 0,
           NEW isLong \in BOOLEAN, NEW mkt \in Market, NonNegativeMarket(mkt),
           ~ContractOverLeveraged(o, mkt),
           ~DenominatorZero(o, isLong, mkt),
           ~IndexOverLeveraged(o, isLong, mkt)
    PROVE  SpecLeverageOk(o, isLong, mkt)
<1> DEFINE p == o.makerAssetAmount
           q == o.takerAssetAmount
           mg == o.makerFee
           r == mkt.initialMarginRatio
           ip == mkt.indexPrice
           alpha == ScalePermyriad(q, r)
           N == IndexPriceNumerator(isLong, p, q, mg)
           D == IndexPriceDenominator(isLong, q, r)
<1>1. /\ p \in Int /\ q \in Int /\ mg \in Int /\ r \in Int /\ ip \in Int
      /\ r >= 0 /\ ip >= 0
  BY DEF AmountFields, Market, NonNegativeMarket
<1>2. alpha \in Int /\ alpha >= 0
  <2>1. q * r >= 0
    BY <1>1
  <2>2. QED
    BY <1>1, <2>1, DivFacts DEF ScalePermyriad, GoDiv, PermyriadBase
<1>3. N \in Int /\ D \in Int /\ D # 0
  BY <1>1, <1>2 DEF IndexPriceNumerator, IndexPriceDenominator, DenominatorZero
<1>4. IndexReq(o, isLong, mkt) = GoDiv(N, D)
  BY DEF IndexReq, IndexPriceMarginRequirement
<1>5. mg >= ContractPriceMarginRequirement(p, q, r)
  <2>1. ContractPriceMarginRequirement(p, q, r) \in Int
    BY <1>1, <1>2 DEF ContractPriceMarginRequirement
  <2>2. ~(mg < ContractPriceMarginRequirement(p, q, r))
    BY DEF ContractOverLeveraged
  <2>3. QED
    BY <1>1, <2>1, <2>2
<1>6. isLong => ip >= GoQuo(N, D)
  <2> SUFFICES ASSUME isLong PROVE ip >= GoQuo(N, D)
    OBVIOUS
  <2>1. ~(ip < GoDiv(N, D))
    BY <1>4 DEF IndexOverLeveraged
  <2> HIDE DEF N, D, ip
  <2>2. QED
    BY <1>1, <1>3, <2>1, LongIndexWithinTrunc
<1>7. ~isLong => ip <= GoQuo(N, D)
  <2> SUFFICES ASSUME ~isLong PROVE ip <= GoQuo(N, D)
    OBVIOUS
  <2>1. ~(ip > GoDiv(N, D))
    BY <1>4 DEF IndexOverLeveraged
  <2>2. D > 0
    BY <1>1, <1>2 DEF IndexPriceDenominator
  <2> HIDE DEF N, D, ip
  <2>3. QED
    BY <1>1, <1>3, <2>1, <2>2, ShortIndexWithinTrunc
<1>8. SpecScale(q, r) = alpha /\ SpecDenominator(isLong, q, r) = D
  <2>1. q * r >= 0
    BY <1>1
  <2>2. QED
    BY <1>1, <2>1, SpecScaleAgrees
<1>9. QED
  BY <1>3, <1>5, <1>6, <1>7, <1>8
  DEF SpecLeverageOk, SpecIndexPriceMarginRequirement, ContractPriceMarginRequirement

-----------------------------------------------------------------------------
(***************************************************************************)
(* IInv is inductive.                                                      *)
(***************************************************************************)

LEMMA InitIInv == Init => IInv
  BY ConstantsAssumption
  DEF Init, IInv, TypeOK, Parsed, MemoMatchesAcceptedPass, AcceptedPassChecks,
      Stages, Verdicts

LEMMA NextIInv == IInv /\ [Next]_vars => IInv'
<1> SUFFICES ASSUME IInv, [Next]_vars PROVE IInv'
  OBVIOUS
<1>0. /\ msg \in Msgs /\ msg \in Msg
      /\ now \in 0..MaxTime /\ passes \in 0..MaxPasses
  BY ConstantsAssumption DEF IInv, TypeOK
<1>1. CASE ValidateBasic
  <2>1. TypeOK'
    BY <1>0, <1>1, BasicStage DEF IInv, TypeOK, ValidateBasic
  <2>2. Parsed'
    BY <1>0, <1>1, BasicStage, BasicOkParsed DEF ValidateBasic, Parsed
  <2>3. MemoMatchesAcceptedPass'
    BY <1>1, BasicStage DEF ValidateBasic, MemoMatchesAcceptedPass
  <2>4. AcceptedPassChecks'
    BY <1>1, BasicStage DEF ValidateBasic, AcceptedPassChecks
  <2>5. QED
    BY <2>1, <2>2, <2>3, <2>4 DEF IInv
<1>2. ASSUME NEW isLong \in BOOLEAN, NEW mkt \in Markets,
             DoesValidationPass(isLong, mkt)
      PROVE  IInv'
  <2> DEFINE o == msg.order
  <2>0. /\ stage \in {"Checked", "Resting"}
        /\ o \in Order
        /\ \A f \in AmountFields : o[f] \in Nat
        /\ \A f \in AmountFields : o[f] \in Int
        /\ mkt \in Market
    BY <1>2, ConstantsAssumption DEF DoesValidationPass, IInv, Parsed
  <2>1. orderType' \in {0, 5}
    BY <1>2 DEF IInv, TypeOK, DoesValidationPass, OrderTypeAfter, TypeRecognized
  <2>2. indexPriceRequirement' \in Int \cup {NoRequirement}
    BY <1>2, <2>0, IndexReqInt
    DEF IInv, TypeOK, DoesValidationPass, IndexPriceRequirementAfter
  <2>3. /\ verdict' \in Verdicts /\ stage' \in Stages
    BY <1>2, PassStage DEF DoesValidationPass
  <2>4. /\ lastCall' \in Call /\ passes' \in 0..MaxPasses
        /\ msg' \in Msgs /\ now' \in 0..MaxTime
    BY <1>0, <1>2, <2>0, ConstantsAssumption DEF DoesValidationPass, Call
  <2>5. TypeOK'
    BY <2>1, <2>2, <2>3, <2>4 DEF TypeOK
  <2>6. Parsed'
    BY <1>2, <2>0 DEF DoesValidationPass, Parsed
  <2>7. MemoMatchesAcceptedPass'
    <3> SUFFICES ASSUME stage' = "Resting"
                 PROVE  MemoMatchesAcceptedPass'
      BY DEF MemoMatchesAcceptedPass
    <3>1. ReachesIndexCheck(o, isLong, mkt, now)
      BY <1>2, PassStage DEF DoesValidationPass
    <3>2. orderType' = OrderTypeNumber(o)
      BY <1>2, <3>1 DEF DoesValidationPass, OrderTypeAfter, ReachesIndexCheck
    <3>3. indexPriceRequirement' = IndexReq(o, isLong, mkt)
      BY <1>2, <3>1 DEF DoesValidationPass, IndexPriceRequirementAfter
    <3>4. lastCall' = [isLong |-> isLong, market |-> mkt] /\ msg' = msg
      BY <1>2 DEF DoesValidationPass
    <3>5. lastCall' # NoCall
      BY <2>0, <3>4, ConstantsAssumption DEF Call
    <3>6. QED
      BY <3>2, <3>3, <3>4, <3>5 DEF MemoMatchesAcceptedPass
  <2>8. AcceptedPassChecks'
    <3> SUFFICES ASSUME stage' = "Resting"
                 PROVE  AcceptedPassChecks'
      BY DEF AcceptedPassChecks
    <3>1. /\ ReachesIndexCheck(o, isLong, mkt, now)
          /\ ~IndexOverLeveraged(o, isLong, mkt)
      BY <1>2, PassStage DEF DoesValidationPass
    <3>2. lastCall' = [isLong |-> isLong, market |-> mkt] /\ msg' = msg
      BY <1>2 DEF DoesValidationPass
    <3>3. QED
      BY <2>4, <3>1, <3>2 DEF AcceptedPassChecks, ReachesIndexCheck
  <2>9. QED
    BY <2>5, <2>6, <2>7, <2>8 DEF IInv
<1>3. CASE NextBlock
  <2>1. now' \in 0..MaxTime
    BY <1>0, <1>3, ConstantsAssumption DEF NextBlock
  <2>2. QED
    BY <1>3, <2>1
    DEF NextBlock, IInv, TypeOK, Parsed, MemoMatchesAcceptedPass, AcceptedPassChecks
<1>4. CASE UNCHANGED vars
  BY <1>4
  DEF vars, IInv, TypeOK, Parsed, MemoMatchesAcceptedPass, AcceptedPassChecks
<1>5. QED
  BY <1>1, <1>2, <1>3, <1>4 DEF Next

\* Before the first pass the Order record is untouched and no call is
\* recorded; a resting order has been through a pass that computed its
\* requirement.  With RejectedPassRecord this is inductive given IInv.
RecordStages ==
    /\ stage \in {"Submitted", "Checked"} =>
          /\ passes = 0
          /\ indexPriceRequirement = NoRequirement
          /\ lastCall = NoCall
    /\ stage = "Resting" => passes >= 1 /\ indexPriceRequirement \in Int

RInv == RecordStages /\ RejectedPassRecord

-----------------------------------------------------------------------------
(***************************************************************************)
(* Where the handler panics.  PanicSource is inductive given IInv.         *)
(***************************************************************************)

\* ValidateBasic panics only in so2zo or on an empty signature.
LEMMA BasicPanic ==
    ASSUME NEW m \in Msg, StageOf(BasicVerdict(m)) = "Panicked"
    PROVE  /\ m.order \in Order
           /\ ToSignedOrderPanics(m.order) \/ SignaturePanics(m.order.signature)
  BY DEF BasicVerdict, StageOf, Msg

\* DoesValidationPass panics only in the classification or the division.
LEMMA PassPanic ==
    ASSUME NEW o, NEW isLong, NEW mkt, NEW t,
           StageOf(PassVerdict(o, isLong, mkt, t)) = "Panicked"
    PROVE  ClassifyPanics(o) \/ DenominatorZero(o, isLong, mkt)
  BY DEF PassVerdict, StageOf

LEMMA InitPanicSource == Init => PanicSource
  BY DEF Init, PanicSource

LEMMA NextPanicSource == IInv /\ PanicSource /\ [Next]_vars => PanicSource'
<1> SUFFICES ASSUME IInv, PanicSource, [Next]_vars PROVE PanicSource'
  OBVIOUS
<1>1. CASE ValidateBasic
  <2> SUFFICES ASSUME stage' = "Panicked" PROVE PanicSource'
    BY DEF PanicSource
  <2>1. msg \in Msg
    BY ConstantsAssumption DEF IInv, TypeOK
  <2>2. StageOf(BasicVerdict(msg)) = "Panicked" /\ msg' = msg
    BY <1>1 DEF ValidateBasic
  <2>3. QED
    BY <2>1, <2>2, BasicPanic DEF PanicSource
<1>2. ASSUME NEW isLong \in BOOLEAN, NEW mkt \in Markets,
             DoesValidationPass(isLong, mkt)
      PROVE  PanicSource'
  <2> SUFFICES ASSUME stage' = "Panicked" PROVE PanicSource'
    BY DEF PanicSource
  <2>1. /\ msg.order \in Order
        /\ \A f \in AmountFields : msg.order[f] \in Nat
        /\ mkt \in Market
    BY <1>2, ConstantsAssumption DEF DoesValidationPass, IInv, Parsed
  <2>2. /\ StageOf(PassVerdict(msg.order, isLong, mkt, now)) = "Panicked"
        /\ lastCall' = [isLong |-> isLong, market |-> mkt] /\ msg' = msg
    BY <1>2 DEF DoesValidationPass
  <2>3. lastCall' \in Call
    BY <2>1, <2>2 DEF Call
  <2>4. QED
    BY <2>1, <2>2, <2>3, PassPanic DEF PanicSource
<1>3. CASE NextBlock
  BY <1>3 DEF NextBlock, PanicSource
<1>4. CASE UNCHANGED vars
  BY <1>4 DEF vars, PanicSource
<1>5. QED
  BY <1>1, <1>2, <1>3, <1>4 DEF Next

-----------------------------------------------------------------------------
(***************************************************************************)
(* The record a rejected pass leaves.  RInv is inductive given IInv.       *)
(***************************************************************************)

\* What a pass's verdict says about how far the pass got.
LEMMA PassProgress ==
    ASSUME NEW o, NEW isLong, NEW mkt, NEW t
    PROVE  LET v == PassVerdict(o, isLong, mkt, t) IN
           /\ v \notin {"Panic", "UnrecognizedOrderType"} => TypeRecognized(o)
           /\ v \in {"OverLeveragedIndexPriceLong", "OverLeveragedIndexPriceShort"} =>
                 ReachesIndexCheck(o, isLong, mkt, t)
           /\ v \in {"OrderExpired", "OverLeveragedContractPrice"} =>
                 ~ReachesIndexCheck(o, isLong, mkt, t)
           /\ StageOf(v) = "Rejected" => v \notin {"Panic", "Accepted"}
  BY DEF PassVerdict, ReachesIndexCheck, StageOf

LEMMA InitRInv == Init => RInv
  BY DEF Init, RInv, RecordStages, RejectedPassRecord

LEMMA NextRInv == IInv /\ RInv /\ [Next]_vars => RInv'
<1> SUFFICES ASSUME IInv, RInv, [Next]_vars PROVE RInv'
  OBVIOUS
<1>1. CASE ValidateBasic
  <2>1. /\ passes' = 0 /\ indexPriceRequirement' = NoRequirement
        /\ lastCall' = NoCall
    BY <1>1 DEF ValidateBasic, RInv, RecordStages
  <2>2. stage' # "Resting"
    BY <1>1, BasicStage DEF ValidateBasic
  <2>3. QED
    BY <2>1, <2>2 DEF RInv, RecordStages, RejectedPassRecord
<1>2. ASSUME NEW isLong \in BOOLEAN, NEW mkt \in Markets,
             DoesValidationPass(isLong, mkt)
      PROVE  RInv'
  <2> DEFINE o == msg.order
             v == PassVerdict(o, isLong, mkt, now)
  <2>0. /\ stage \in {"Checked", "Resting"}
        /\ o \in Order
        /\ \A f \in AmountFields : o[f] \in Int
        /\ mkt \in Market
        /\ passes \in Nat
    BY <1>2, ConstantsAssumption DEF DoesValidationPass, IInv, Parsed, TypeOK
  <2>1. /\ verdict' = v /\ stage' = StageOf(v) /\ msg' = msg
        /\ passes' = passes + 1
        /\ lastCall' = [isLong |-> isLong, market |-> mkt]
        /\ orderType' = OrderTypeAfter(o, orderType)
        /\ indexPriceRequirement' =
              IndexPriceRequirementAfter(o, isLong, mkt, now, indexPriceRequirement)
    BY <1>2 DEF DoesValidationPass
  <2>2. lastCall' # NoCall
    BY <2>0, <2>1, ConstantsAssumption DEF Call
  <2>3. RecordStages'
    <3>1. stage' \notin {"Submitted", "Checked"}
      BY <2>1, PassStage DEF StageOf
    <3>2. stage' = "Resting" => indexPriceRequirement' \in Int
      BY <2>0, <2>1, PassStage, IndexReqInt DEF IndexPriceRequirementAfter
    <3>3. QED
      BY <2>0, <2>1, <3>1, <3>2 DEF RecordStages
  <2>4. RejectedPassRecord'
    <3> SUFFICES ASSUME stage' = "Rejected" PROVE RejectedPassRecord'
      BY DEF RejectedPassRecord
    <3>1. v \notin {"Panic", "Accepted"}
      BY <2>1, PassProgress
    <3>2. v # "UnrecognizedOrderType" => orderType' = OrderTypeNumber(o)
      BY <2>1, <3>1, PassProgress DEF OrderTypeAfter
    <3>3. v \in {"OverLeveragedIndexPriceLong", "OverLeveragedIndexPriceShort"} =>
             indexPriceRequirement' = IndexReq(o, isLong, mkt)
      BY <2>1, PassProgress DEF IndexPriceRequirementAfter
    <3>4. v \in {"OrderExpired", "OverLeveragedContractPrice"} =>
             (indexPriceRequirement' = NoRequirement <=> passes' = 1)
      <4> SUFFICES ASSUME v \in {"OrderExpired", "OverLeveragedContractPrice"}
                   PROVE  indexPriceRequirement' = NoRequirement <=> passes' = 1
        OBVIOUS
      <4>1. indexPriceRequirement' = indexPriceRequirement
        BY <2>1, PassProgress DEF IndexPriceRequirementAfter
      <4>2. CASE stage = "Checked"
        BY <2>1, <4>1, <4>2 DEF RInv, RecordStages
      <4>3. CASE stage = "Resting"
        BY <2>0, <2>1, <4>1, <4>3, ConstantsAssumption DEF RInv, RecordStages
      <4>4. QED
        BY <2>0, <4>2, <4>3
    <3>5. QED
      BY <2>1, <2>2, <3>2, <3>3, <3>4 DEF RejectedPassRecord
  <2>5. QED
    BY <2>3, <2>4 DEF RInv
<1>3. CASE NextBlock
  BY <1>3 DEF NextBlock, RInv, RecordStages, RejectedPassRecord
<1>4. CASE UNCHANGED vars
  BY <1>4 DEF vars, RInv, RecordStages, RejectedPassRecord
<1>5. QED
  BY <1>1, <1>2, <1>3, <1>4 DEF Next

-----------------------------------------------------------------------------
(***************************************************************************)
(* The theorems.                                                           *)
(***************************************************************************)

\* The pipeline never leaves its types: in particular OrderType only ever
\* holds 0 or 5 and IndexPriceRequirement is an integer or unset, whatever
\* the messages, markets and bounds.
THEOREM TypeCorrect == Spec => []TypeOK
<1>1. Spec => []IInv
  BY InitIInv, NextIInv, PTL DEF Spec
<1>2. QED
  BY <1>1, PTL DEF IInv

\* A resting order's memoized OrderType and IndexPriceRequirement are those
\* of the DoesValidationPass call that accepted it, for every market, every
\* message and any number of re-validations.
THEOREM MemoCorrect == Spec => []MemoMatchesAcceptedPass
<1>1. Spec => []IInv
  BY InitIInv, NextIInv, PTL DEF Spec
<1>2. QED
  BY <1>1, PTL DEF IInv

\* An accepted order of positive quantity, against a market whose ratio and
\* index price are not negative, is within the specification's leverage
\* limits, for every message, every market and any number of
\* re-validations: the Euclidean division of ComputeIndexPriceMarginRequirement
\* never lets DoesValidationPass accept what truncation would reject.
THEOREM SpecLeverageCorrect == Spec => []AcceptedWithinSpecLeverage
<1>1. IInv => AcceptedWithinSpecLeverage
  <2> SUFFICES ASSUME IInv, stage = "Resting", msg.order.takerAssetAmount > 0,
                      NonNegativeMarket(lastCall.market)
               PROVE  SpecLeverageOk(msg.order, lastCall.isLong, lastCall.market)
    BY DEF AcceptedWithinSpecLeverage
  <2>1. /\ msg.order \in Order
        /\ \A f \in AmountFields : msg.order[f] \in Int
    BY DEF IInv, Parsed
  <2>2. /\ lastCall \in Call
        /\ ~ContractOverLeveraged(msg.order, lastCall.market)
        /\ ~DenominatorZero(msg.order, lastCall.isLong, lastCall.market)
        /\ ~IndexOverLeveraged(msg.order, lastCall.isLong, lastCall.market)
    BY DEF IInv, AcceptedPassChecks
  <2>3. lastCall.isLong \in BOOLEAN /\ lastCall.market \in Market
    BY <2>2 DEF Call
  <2>4. QED
    BY <2>1, <2>2, <2>3, PassedChecksWithinSpec
<1>2. Spec => []IInv
  BY InitIInv, NextIInv, PTL DEF Spec
<1>3. QED
  BY <1>1, <1>2, PTL

\* The handler panics only at the edges PanicOnlyAtKnownEdges lists, for
\* every message, market and bound: in particular ComputeIndexPriceMarginRequirement
\* divides by zero only for a zero quantity, a negative ratio, or
\* a long order whose ratio r has alpha = (q * r) / 10000 equal to the
\* quantity q, and never for a short order of positive quantity against a
\* non-negative ratio (ZeroDenominatorEdge).
THEOREM PanicEdgesCorrect == Spec => []PanicOnlyAtKnownEdges
<1>1. IInv /\ PanicSource => PanicOnlyAtKnownEdges
  <2> SUFFICES ASSUME IInv, PanicSource, stage = "Panicked"
               PROVE  PanicOnlyAtKnownEdges
    BY DEF PanicOnlyAtKnownEdges
  <2> DEFINE o == msg.order
             q == o.takerAssetAmount
             r == lastCall.market.initialMarginRatio
  <2>1. CASE ToSignedOrderPanics(o) \/ SignaturePanics(o.signature)
    BY <2>1 DEF PanicOnlyAtKnownEdges
  <2>2. CASE /\ lastCall \in Call
             /\ \A f \in AmountFields : o[f] \in Nat
             /\ ClassifyPanics(o) \/ DenominatorZero(o, lastCall.isLong, lastCall.market)
    <3>1. q \in Nat /\ r \in Int /\ lastCall.isLong \in BOOLEAN
      BY <2>2 DEF AmountFields, Call, Market
    <3>2. CASE ClassifyPanics(o) \/ q = 0 \/ r < 0
      BY <3>2 DEF PanicOnlyAtKnownEdges
    <3>3. CASE ~ClassifyPanics(o) /\ q > 0 /\ r >= 0
      <4>1. IndexPriceDenominator(lastCall.isLong, q, r) = 0
        BY <2>2, <3>3 DEF DenominatorZero
      <4>2. lastCall.isLong /\ PermyriadBase <= r /\ q * r < PermyriadBase * (q + 1)
        BY <3>1, <3>3, <4>1, ZeroDenominatorEdge
      <4>3. QED
        BY <4>2 DEF PanicOnlyAtKnownEdges
    <3>4. QED
      BY <3>1, <3>2, <3>3
  <2>3. QED
    BY <2>1, <2>2 DEF PanicSource
<1>2. Spec => [](IInv /\ PanicSource)
  BY InitIInv, NextIInv, InitPanicSource, NextPanicSource, PTL DEF Spec
<1>3. QED
  BY <1>1, <1>2, PTL

\* A pass rejected part-way leaves the Order record as RejectedPassRecord
\* says, for every message, market and number of passes: OrderType from
\* this order once classification passed, this call's requirement after an
\* index-price rejection, and, after a rejection at expiry or the
\* contract-price check, no requirement on a first pass and the earlier
\* accepting pass's one on a re-validation.
THEOREM RejectedRecordCorrect == Spec => []RejectedPassRecord
<1>1. Spec => [](IInv /\ RInv)
  BY InitIInv, NextIInv, InitRInv, NextRInv, PTL DEF Spec
<1>2. QED
  BY <1>1, PTL DEF RInv
=============================================================================
