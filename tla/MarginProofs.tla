----------------------------- MODULE MarginProofs -----------------------------
(***************************************************************************)
(* Facts about Go's two divisions and about the margin calculator, for all *)
(* integers.  They compare big.Int.Div (Euclidean), which the code uses,   *)
(* with big.Int.Quo (truncating), which the specification prescribes, and  *)
(* establish the specification's identities of the permyriad scaler and    *)
(* the bounds of ComputeOrderMarginHold.                                   *)
(***************************************************************************)
EXTENDS Margin, TLAPS

\* Euclidean division by a non-zero integer yields an integer.
LEMMA GoDivInt ==
    ASSUME NEW n \in Int, NEW d \in Int, d # 0
    PROVE  GoDiv(n, d) \in Int
  BY DEF GoDiv

\* Truncating division by a non-zero integer yields an integer.
LEMMA GoQuoInt ==
    ASSUME NEW n \in Int, NEW d \in Int, d # 0
    PROVE  GoQuo(n, d) \in Int
  BY DEF GoQuo, AbsVal

\* The quotient and remainder of division by a positive integer.
LEMMA DivFacts ==
    ASSUME NEW n \in Int, NEW d \in Int, d > 0
    PROVE  /\ n \div d \in Int
           /\ n = (n \div d) * d + (n % d)
           /\ n % d \in 0..(d - 1)
  BY SMT

\* For a positive divisor, big.Int.Div rounds down, so it never exceeds
\* the truncated quotient.
LEMMA EuclidBelowTrunc ==
    ASSUME NEW n \in Int, NEW d \in Int, d > 0
    PROVE  GoDiv(n, d) <= GoQuo(n, d)
<1>1. CASE n >= 0
  BY <1>1 DEF GoDiv, GoQuo, AbsVal
<1>2. CASE n < 0
  <2>1. GoDiv(n, d) = n \div d /\ GoQuo(n, d) = -((-n) \div d)
    BY <1>2 DEF GoDiv, GoQuo, AbsVal
  <2>2. (n \div d) + ((-n) \div d) <= 0
    <3>1. n = (n \div d) * d + (n % d) /\ n % d >= 0
      BY DivFacts
    <3>2. -n = ((-n) \div d) * d + ((-n) % d) /\ (-n) % d >= 0
      BY DivFacts
    <3>3. ((n \div d) + ((-n) \div d)) * d <= 0
      BY <3>1, <3>2, DivFacts
    <3>4. QED
      BY <3>3, DivFacts
  <2>3. QED
    BY <2>1, <2>2, DivFacts
<1>3. QED
  BY <1>1, <1>2

\* For a negative divisor, big.Int.Div rounds up, so it is never below the
\* truncated quotient.
LEMMA EuclidAboveTrunc ==
    ASSUME NEW n \in Int, NEW d \in Int, d < 0
    PROVE  GoQuo(n, d) <= GoDiv(n, d)
<1>1. CASE n >= 0
  BY <1>1 DEF GoDiv, GoQuo, AbsVal
<1>2. CASE n < 0
  <2>1. GoDiv(n, d) = -(n \div (-d)) /\ GoQuo(n, d) = (-n) \div (-d)
    BY <1>2 DEF GoDiv, GoQuo, AbsVal
  <2>2. (n \div (-d)) + ((-n) \div (-d)) <= 0
    <3>1. n = (n \div (-d)) * (-d) + (n % (-d)) /\ n % (-d) >= 0
      BY DivFacts
    <3>2. -n = ((-n) \div (-d)) * (-d) + ((-n) % (-d)) /\ (-n) % (-d) >= 0
      BY DivFacts
    <3>3. ((n \div (-d)) + ((-n) \div (-d))) * (-d) <= 0
      BY <3>1, <3>2, DivFacts
    <3>4. QED
      BY <3>3, DivFacts
  <2>3. QED
    BY <2>1, <2>2, DivFacts
<1>3. QED
  BY <1>1, <1>2

\* A negative numerator over a positive denominator truncates to at most 0.
LEMMA TruncNegNotPositive ==
    ASSUME NEW n \in Int, NEW d \in Int, d > 0, n < 0
    PROVE  GoQuo(n, d) <= 0
  BY DEF GoQuo, AbsVal

\* A long order's index price that is not below big.Int.Div's requirement
\* is not below the truncated one either, when the price is non-negative:
\* a negative denominator rounds the requirement up, a non-negative
\* numerator over a positive one rounds the same way, and a negative one
\* over a positive one truncates to at most 0.
LEMMA LongIndexWithinTrunc ==
    ASSUME NEW ip \in Int, ip >= 0, NEW n \in Int, NEW d \in Int, d # 0,
           ~(ip < GoDiv(n, d))
    PROVE  ip >= GoQuo(n, d)
<1>1. GoDiv(n, d) \in Int /\ GoQuo(n, d) \in Int
  BY GoDivInt, GoQuoInt
<1>2. ip >= GoDiv(n, d)
  BY <1>1
<1>3. CASE d < 0
  <2>1. GoQuo(n, d) <= GoDiv(n, d)
    BY <1>3, EuclidAboveTrunc
  <2>2. QED
    BY <1>1, <1>2, <2>1
<1>4. CASE d > 0 /\ n >= 0
  <2>1. GoDiv(n, d) = GoQuo(n, d)
    BY <1>4 DEF GoDiv, GoQuo, AbsVal
  <2>2. QED
    BY <1>2, <2>1
<1>5. CASE d > 0 /\ n < 0
  <2>1. GoQuo(n, d) <= 0
    BY <1>5, TruncNegNotPositive
  <2>2. QED
    BY <1>1, <2>1
<1>6. QED
  BY <1>3, <1>4, <1>5

\* A short order's denominator is positive, so an index price not above
\* big.Int.Div's requirement is not above the truncated one.
LEMMA ShortIndexWithinTrunc ==
    ASSUME NEW ip \in Int, NEW n \in Int, NEW d \in Int, d > 0,
           ~(ip > GoDiv(n, d))
    PROVE  ip <= GoQuo(n, d)
<1>1. GoDiv(n, d) \in Int /\ GoQuo(n, d) \in Int
  BY GoDivInt, GoQuoInt
<1>2. GoDiv(n, d) <= GoQuo(n, d)
  BY EuclidBelowTrunc
<1>3. QED
  BY <1>1, <1>2
-----------------------------------------------------------------------------
(***************************************************************************)
(* The permyriad scaler and the order margin hold.                         *)
(***************************************************************************)

\* Scaling by a non-negative ratio keeps a non-negative amount
\* non-negative.
LEMMA ScaleNonNegative ==
    ASSUME NEW a \in Int, NEW r \in Int, a >= 0, r >= 0
    PROVE  ScalePermyriad(a, r) \in Nat
<1>1. a * r \in Nat
  OBVIOUS
<1>2. QED
  BY <1>1, DivFacts DEF ScalePermyriad, GoDiv, PermyriadBase

\* Specification 8: scale(amount, 10000) = amount.  ScalePermyriad's
\* big.Int.Div is exact on a multiple of PERMYRIAD_BASE, so this holds for
\* every integer amount, negative ones included.
THEOREM ScaleByBaseIsIdentity ==
    ASSUME NEW a \in Int
    PROVE  ScalePermyriad(a, PermyriadBase) = a
<1>1. a * 10000 = a * 10000 + 0
  OBVIOUS
<1>2. (a * 10000) \div 10000 = a
  BY DivFacts
<1>3. QED
  BY <1>2 DEF ScalePermyriad, GoDiv, PermyriadBase

\* Specification 8: incrementByScaledPermyriad(amount, 0) = amount, for
\* every integer amount.
THEOREM IncrementByZeroIsIdentity ==
    ASSUME NEW a \in Int
    PROVE  IncrementByScaledPermyriad(a, 0) = a
<1>1. ScalePermyriad(a, 0) = 0
  BY DivFacts DEF ScalePermyriad, GoDiv, PermyriadBase
<1>2. QED
  BY <1>1 DEF IncrementByScaledPermyriad

\* A number between 0 and s * q, divided by the positive q, lies between
\* 0 and s.
LEMMA QuotientBound ==
    ASSUME NEW x \in Int, NEW s \in Nat, NEW q \in Nat, q > 0, x \in 0..(s * q)
    PROVE  x \div q \in 0..s
<1>1. x = (x \div q) * q + (x % q) /\ x % q \in 0..(q - 1) /\ x \div q \in Int
  BY DivFacts
<1>2. (x \div q) * q <= s * q
  BY <1>1
<1>3. x \div q <= s
  BY <1>2, <1>1
<1>4. (x \div q) * q > -q
  BY <1>1
<1>5. x \div q >= 0
  BY <1>4, <1>1
<1>6. QED
  BY <1>1, <1>3, <1>5

\* ComputeOrderMarginHold for a non-negative margin and maker fee, a
\* positive original quantity and a remaining quantity between 0 and it:
\* the hold is never negative, never more than the fee-scaled margin, and
\* is exactly the fee-scaled margin while nothing has been filled.
THEOREM OrderMarginHoldBounds ==
    ASSUME NEW margin \in Nat, NEW fee \in Nat, NEW q \in Nat, q > 0,
           NEW rem \in 0..q
    PROVE  /\ OrderMarginHold(margin, q, rem, fee)
                 \in 0..IncrementByScaledPermyriad(margin, fee)
           /\ rem = q =>
                 OrderMarginHold(margin, q, rem, fee)
                     = IncrementByScaledPermyriad(margin, fee)
<1> DEFINE S == IncrementByScaledPermyriad(margin, fee)
<1>1. S \in Nat
  BY ScaleNonNegative DEF IncrementByScaledPermyriad
<1>2. OrderMarginHold(margin, q, rem, fee) = (S * rem) \div q
  BY DEF OrderMarginHold, GoDiv
<1>3. S * rem \in 0..(S * q)
  BY <1>1
<1>4. (S * rem) \div q \in 0..S
  BY <1>1, <1>3, QuotientBound
<1>5. rem = q => (S * rem) \div q = S
  <2> SUFFICES ASSUME rem = q PROVE (S * q) \div q = S
    OBVIOUS
  <2>1. QED
    BY <1>1, DivFacts
<1>6. QED
  BY <1>2, <1>4, <1>5

\* The hold never grows as the order fills: a smaller remaining quantity
\* holds no more margin than a larger one.
THEOREM OrderMarginHoldMonotone ==
    ASSUME NEW margin \in Nat, NEW fee \in Nat, NEW q \in Nat, q > 0,
           NEW r1 \in 0..q, NEW r2 \in 0..q, r1 <= r2
    PROVE  OrderMarginHold(margin, q, r1, fee) <= OrderMarginHold(margin, q, r2, fee)
<1> DEFINE S == IncrementByScaledPermyriad(margin, fee)
<1>1. S \in Nat
  BY ScaleNonNegative DEF IncrementByScaledPermyriad
<1>2. /\ OrderMarginHold(margin, q, r1, fee) = (S * r1) \div q
      /\ OrderMarginHold(margin, q, r2, fee) = (S * r2) \div q
  BY DEF OrderMarginHold, GoDiv
<1>3. S * r1 <= S * r2 /\ S * r1 \in Int /\ S * r2 \in Int
  BY <1>1
<1>4. (S * r1) \div q <= (S * r2) \div q
  BY <1>3, DivFacts
<1>5. QED
  BY <1>2, <1>4

\* A floor quotient a of m by 10000 equals q exactly when m lies in
\* [10000 * q, 10000 * (q + 1)).
LEMMA PermyriadQuotientIs ==
    ASSUME NEW a \in Int, NEW n \in Int, NEW k \in Int, NEW e \in Int,
           0 <= e, e < 10000, n = a * 10000 + e
    PROVE  /\ a = k => (k * 10000 <= n /\ n < 10000 * (k + 1))
           /\ (k * 10000 <= n /\ n < 10000 * (k + 1)) => a = k
  OBVIOUS

\* For a positive quantity and a non-negative initial margin ratio,
\* ComputeIndexPriceMarginRequirement's denominator is zero exactly for a
\* long order whose ratio r lies in [10000, 10000 * (q + 1) / q): there
\* alpha = (q * r) / 10000 equals q.  A short order's denominator
\* alpha + q is always positive.
THEOREM ZeroDenominatorEdge ==
    ASSUME NEW q \in Int, NEW r \in Int, NEW isLong \in BOOLEAN, q > 0, r >= 0
    PROVE  IndexPriceDenominator(isLong, q, r) = 0 <=>
               isLong /\ PermyriadBase <= r /\ q * r < PermyriadBase * (q + 1)
<1> DEFINE alpha == ScalePermyriad(q, r)
<1>1. alpha \in Nat /\ alpha = (q * r) \div 10000
  BY ScaleNonNegative DEF ScalePermyriad, GoDiv, PermyriadBase
<1>2. /\ q * r = alpha * 10000 + ((q * r) % 10000)
      /\ (q * r) % 10000 \in 0..9999
  <2>1. q * r \in Int /\ 10000 \in Int /\ 10000 > 0
    OBVIOUS
  <2>2. QED
    BY <1>1, <2>1, DivFacts
<1>3. alpha = q <=> (q * 10000 <= q * r /\ q * r < 10000 * (q + 1))
  <2> DEFINE m == q * r
  <2> DEFINE rem == m % 10000
  <2>1. /\ m \in Int /\ alpha \in Int /\ rem \in Int
        /\ 0 <= rem /\ rem < 10000 /\ m = alpha * 10000 + rem
    BY <1>1, <1>2
  <2> HIDE DEF m, rem, alpha
  <2>2. alpha = q <=> (q * 10000 <= m /\ m < 10000 * (q + 1))
    BY <2>1, PermyriadQuotientIs, SMT
  <2>3. QED
    BY <2>2 DEF m
<1>4. q * 10000 <= q * r <=> 10000 <= r
  <2>1. ASSUME r < 10000 PROVE q * r < q * 10000
    BY <2>1
  <2>2. ASSUME r >= 10000 PROVE q * r >= q * 10000
    BY <2>2
  <2>3. QED
    BY <2>1, <2>2
<1>5. CASE isLong
  BY <1>1, <1>3, <1>4, <1>5 DEF IndexPriceDenominator, PermyriadBase
<1>6. CASE ~isLong
  BY <1>1, <1>6 DEF IndexPriceDenominator
<1>7. QED
  BY <1>5, <1>6

\* On a non-negative dividend and a positive divisor, big.Int.Div and the
\* specification's truncation agree.
LEMMA DivQuoAgreeNonNeg ==
    ASSUME NEW n \in Int, NEW d \in Int, n >= 0, d > 0
    PROVE  GoQuo(n, d) = GoDiv(n, d)
  BY DEF GoQuo, GoDiv, AbsVal

\* For a non-negative product the specification's truncating scaler is the
\* code's ScalePermyriad, and so are the denominators built on it.
LEMMA SpecScaleAgrees ==
    ASSUME NEW a \in Int, NEW r \in Int, a * r >= 0, NEW isLong \in BOOLEAN
    PROVE  /\ SpecScale(a, r) = ScalePermyriad(a, r)
           /\ SpecDenominator(isLong, a, r) = IndexPriceDenominator(isLong, a, r)
<1> DEFINE n == a * r
<1>1. n \in Int /\ n >= 0
  OBVIOUS
<1> HIDE DEF n
<1>2. GoQuo(n, PermyriadBase) = GoDiv(n, PermyriadBase)
  BY <1>1, DivQuoAgreeNonNeg DEF PermyriadBase
<1>3. SpecScale(a, r) = ScalePermyriad(a, r)
  BY <1>2 DEF SpecScale, ScalePermyriad, n
<1>4. QED
  BY <1>3 DEF SpecDenominator, IndexPriceDenominator
=============================================================================
