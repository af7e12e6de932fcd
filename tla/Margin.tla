------------------------------- MODULE Margin -------------------------------
(***************************************************************************)
(* The permyriad scaler and the margin calculator of the derivative order *)
(* (src/unnamed/part_000, lines 470-522).  Every quantity is a math/big    *)
(* integer in the code, so the operators below work over Int without a     *)
(* width.                                                                  *)
(*                                                                         *)
(* The code divides with big.Int.Div, which is EUCLIDEAN division: the     *)
(* remainder is never negative, so for a negative divisor the quotient is  *)
(* rounded up, not toward zero.  GoDiv models that operation; GoQuo is the *)
(* truncating division (big.Int.Quo) that the specification of the engine *)
(* prescribes, kept here as the reference the code is compared with.       *)
(* Both are partial: the code panics on a zero divisor, and callers test   *)
(* the divisor before they divide.                                         *)
(***************************************************************************)
EXTENDS Integers

\* The fixed base of permyriad fixed-point numbers (PERMYRIAD_BASE).
PermyriadBase == 10000

AbsVal(n) == IF n < 0 THEN -n ELSE n

\* big.Int.Div: Euclidean quotient, n = q * d + r with 0 <= r < |d|.
GoDiv(n, d) == IF d > 0 THEN n \div d ELSE -(n \div (-d))

\* big.Int.Quo: quotient truncated toward zero (the specification's "trunc").
GoQuo(n, d) == IF (n < 0) = (d < 0) THEN AbsVal(n) \div AbsVal(d)
                                    ELSE -(AbsVal(n) \div AbsVal(d))

\* ScalePermyriad: (amount * permyriad) / 10000.
ScalePermyriad(amount, permyriad) == GoDiv(amount * permyriad, PermyriadBase)

\* IncrementByScaledPermyriad: amount + amount * permyriad / 10000.
IncrementByScaledPermyriad(amount, permyriad) ==
    amount + ScalePermyriad(amount, permyriad)

\* ComputeContractPriceMarginRequirement: alpha * quantity * price.
ContractPriceMarginRequirement(price, quantity, imr) ==
    ScalePermyriad(quantity, imr) * price

\* The numerator and the denominator of ComputeIndexPriceMarginRequirement.
IndexPriceNumerator(isLong, price, quantity, margin) ==
    IF isLong THEN margin - price * quantity ELSE margin + price * quantity

\* Fault: the long and short denominators swapped.
IndexPriceDenominatorSwapped(isLong, quantity, imr) ==
    IF isLong THEN ScalePermyriad(quantity, imr) + quantity
              ELSE ScalePermyriad(quantity, imr) - quantity

IndexPriceDenominator(isLong, quantity, imr) ==
    IF isLong THEN ScalePermyriad(quantity, imr) - quantity
              ELSE ScalePermyriad(quantity, imr) + quantity

\* ComputeIndexPriceMarginRequirement; defined only for a non-zero denominator.
IndexPriceMarginRequirement(isLong, price, quantity, margin, imr) ==
    GoDiv(IndexPriceNumerator(isLong, price, quantity, margin),
          IndexPriceDenominator(isLong, quantity, imr))

(***************************************************************************)
(* The specification's calculator (sections 4.1 and 4.5), every division  *)
(* truncating toward zero.  These are the reference the code is compared  *)
(* with, not translations of it.                                           *)
(***************************************************************************)
SpecScale(amount, permyriad) == GoQuo(amount * permyriad, PermyriadBase)

SpecDenominator(isLong, quantity, imr) ==
    IF isLong THEN SpecScale(quantity, imr) - quantity
              ELSE SpecScale(quantity, imr) + quantity

SpecIndexPriceMarginRequirement(isLong, price, quantity, margin, imr) ==
    GoQuo(IndexPriceNumerator(isLong, price, quantity, margin),
          SpecDenominator(isLong, quantity, imr))

\* The leverage limits of the specification (4.6 steps 3 and 4).
SpecLeverageOk(o, isLong, mkt) ==
    LET q   == o.takerAssetAmount
        r   == mkt.initialMarginRatio
        req == SpecIndexPriceMarginRequirement(isLong, o.makerAssetAmount,
                   q, o.makerFee, r)
    IN  /\ o.makerFee >= SpecScale(q, r) * o.makerAssetAmount
        /\ SpecDenominator(isLong, q, r) # 0
        /\ IF isLong THEN mkt.indexPrice >= req ELSE mkt.indexPrice <= req

\* A market snapshot whose initial margin ratio and index price are not
\* negative, as for every market an exchange lists.
NonNegativeMarket(mkt) == mkt.initialMarginRatio >= 0 /\ mkt.indexPrice >= 0

\* ComputeOrderMarginHold; defined only for a non-zero original quantity.
OrderMarginHold(margin, quantity, remaining, makerTxFee) ==
    GoDiv(IncrementByScaledPermyriad(margin, makerTxFee) * remaining, quantity)
=============================================================================
