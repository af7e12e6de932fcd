-------------------------- MODULE MC_OrderPipeline --------------------------
(***************************************************************************)
(* Instances of OrderPipeline for TLC.  Amounts are the numbers of the     *)
(* specification's worked example (price 100, quantity 10, initial margin  *)
(* ratio 1000 permyriad, margin 150) and the edges around them: a zero     *)
(* quantity, a margin that only just meets the contract-price              *)
(* requirement, index prices on both sides of the requirement.  2^64 is    *)
(* scaled to 16, so that prefix 21 plays the role of 2^64 + 5.             *)
(***************************************************************************)
EXTENDS OrderPipeline

\* A well-formed EIP712-shaped signature and makerFeeAssetData of type 0.
GoodSig == [len |-> 66, tag |-> EIP712Signature]
FeeData(p) == [len |-> HashLength, prefix |-> p]

MkOrder(price, qty, margin, exp, salt, fee, sig) ==
    [makerAssetAmount |-> price, takerAssetAmount |-> qty, makerFee |-> margin,
     takerFee |-> 0, expirationTimeSeconds |-> exp, salt |-> salt,
     makerFeeAssetData |-> fee, signature |-> sig]

\* The main instance: the orders that pass ValidateBasic vary in quantity,
\* margin, expiry and order type; a few messages fail ValidateBasic.
MainOrders ==
    { MkOrder(pr, q, m, e, 0, FeeData(p), GoodSig) : pr \in {100, 0},
        q \in {10, 0}, m \in {100, 150, 2000}, e \in {1, 3}, p \in {0, 5, 7} }

MainMsgs ==
    { [sender |-> "inj1", order |-> o] : o \in MainOrders }
    \cup { [sender |-> "", order |-> NoOrder],
           [sender |-> "inj1", order |-> NoOrder],
           [sender |-> "inj1",
            order |-> MkOrder(100, 10, 150, 3, Unparseable, FeeData(0), GoodSig)],
           [sender |-> "inj1",
            order |-> MkOrder(100, -10, 150, 3, 0, FeeData(0), GoodSig)],
           [sender |-> "inj1",
            order |-> MkOrder(100, 10, 150, 3, 0, FeeData(0), [len |-> 0, tag |-> 0])],
           [sender |-> "inj1",
            order |-> MkOrder(100, 10, 150, 3, 0, FeeData(0),
                              [len |-> 65, tag |-> EIP712Signature])],
           [sender |-> "inj1",
            order |-> MkOrder(100, 10, 150, 3, 0, FeeData(0),
                              [len |-> 30, tag |-> ValidatorSignature])],
           [sender |-> "inj1",
            order |-> MkOrder(100, 10, 150, 3, 0, [len |-> 10, prefix |-> OutOfCapacity],
                              [len |-> 66, tag |-> WalletSignature])] }

MainMarkets ==
    { [initialMarginRatio |-> r, indexPrice |-> ip] :
        r \in {1000, 20000}, ip \in {90, 94, 95, 120} }

\* The main markets and ratios around the long order's zero denominator
\* for quantity 10: 9999 (alpha 9), 10000 and 10999 (alpha 10), 11000
\* (alpha 11).
EdgeMarkets ==
    MainMarkets \cup
        { [initialMarginRatio |-> r, indexPrice |-> 95] :
            r \in {9999, 10000, 10999, 11000} }

\* The worked long example of the specification: price 100, quantity 10,
\* ratio 1000, margin 150, index price 95.
ExampleMsgs ==
    { [sender |-> "inj1", order |-> MkOrder(100, 10, 150, 3, 0, FeeData(0), GoodSig)] }

ExampleMarkets == { [initialMarginRatio |-> 1000, indexPrice |-> 95] }

\* Well-formed messages whose quantity is zero (an omitted takerAssetAmount
\* parses as 0) next to ones whose quantity is not.
ZeroQuantityMsgs ==
    { [sender |-> "inj1", order |-> MkOrder(100, q, 150, 3, 0, FeeData(0), GoodSig)] :
        q \in {0, 10} }

\* A well-formed message and one whose salt does not parse.
UnparseableMsgs ==
    { [sender |-> "inj1", order |-> MkOrder(100, 10, 150, 3, s, FeeData(0), GoodSig)] :
        s \in {0, Unparseable} }

\* makerFeeAssetData of full length whose 256-bit value is 2^64 + 5 (21 once
\* 2^64 is scaled to 16) next to the legal types.
WideTypeMsgs ==
    { [sender |-> "inj1", order |-> MkOrder(100, 10, 150, 3, 0, FeeData(p), GoodSig)] :
        p \in {0, 7, 21} }

\* makerFeeAssetData that is not hex: it decodes to no bytes, and the slice
\* [:32] reads the raw string, here 31 NUL bytes and a 0x05.
RawBufferMsgs ==
    { [sender |-> "inj1",
       order |-> MkOrder(100, 10, 150, 3, 0, [len |-> d, prefix |-> p], GoodSig)] :
        <<d, p>> \in {<<32, 0>>, <<0, 5>>, <<0, OutOfCapacity>>} }

\* A well-formed message and one whose signature is empty (so its last
\* byte does not exist).
EmptySignatureMsgs ==
    { [sender |-> "inj1", order |-> MkOrder(100, 10, 150, 3, 0, FeeData(0), sig)] :
        sig \in {GoodSig, [len |-> 0, tag |-> 0]} }

\* makerFeeAssetData of full length next to 10 decoded bytes whose buffer
\* has no room for the slice [:32].
ShortFeeDataMsgs ==
    { [sender |-> "inj1",
       order |-> MkOrder(100, 10, 150, 3, 0, [len |-> d, prefix |-> p], GoodSig)] :
        <<d, p>> \in {<<32, 0>>, <<10, OutOfCapacity>>} }

\* The margin theorems of MarginProofs, evaluated on small inputs: the
\* permyriad scaler's identities, and the bounds and monotonicity of
\* ComputeOrderMarginHold in the remaining quantity.
ASSUME MarginTheoremsOnSmallInputs ==
    /\ \A a \in -30..30 :
          /\ ScalePermyriad(a, PermyriadBase) = a
          /\ IncrementByScaledPermyriad(a, 0) = a
    /\ \A m \in 0..12, fee \in {0, 15, 10000, 25000}, q \in 1..5 :
          LET S == IncrementByScaledPermyriad(m, fee)
              H(rem) == OrderMarginHold(m, q, rem, fee)
          IN  /\ H(q) = S
              /\ \A r1, r2 \in 0..q :
                    /\ H(r1) \in 0..S
                    /\ r1 <= r2 => H(r1) <= H(r2)
====
