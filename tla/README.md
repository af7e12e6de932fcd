# TLA+ verification of the derivative order engine (paralmehmet/sdk-go)

This directory holds TLA+ models of the order-validation and margin code in
`src/unnamed/part_000` (Go package `types`) and of the generated protobuf
codec in `src/chain/types/tx_response.pb.go`. It has TLC configurations that
model-check the models on small instances, and TLAPS proofs of their main
invariants for every value of the constants.

## 1. Inventory

### Components, their state and operations

| Component | Code | State | Operations |
|---|---|---|---|
| Signature format validator | `isValidSignature` (60-95) | none | tag dispatch on the last byte; length checks |
| Message validation | `ValidateBasic` of the 7 messages (41-355) | none (reads the message) | sender / order / hash / signature / quantity / name checks |
| Order conversion | `so2zo`, `zo2so`, `ToSignedOrder` (419-431, 557-636) | none | six `math.ParseBig256` calls; `ToSignedOrder` **panics** on error |
| Order type classifier | `ComputeAndSetOrderType` (461-468) | writes `Order.OrderType` | `FromHex(...)[:32]`, `big.Int.SetBytes(...).Uint64()`, accept 0 or 5 |
| Margin calculator | `ScalePermyriad`, `IncrementByScaledPermyriad`, `Compute*MarginRequirement`, `ComputeOrderMarginHold` (470-522) | writes `Order.IndexPriceRequirement` | big-integer arithmetic with `big.Int.Div` |
| Validation pipeline | `DoesValidationPass` (433-459) | the two memo fields of `Order` | classify → expiry → contract-price → index-price |
| Identifier deriver | `GetDirectionMarketAndSubaccountID`, `ComputeSubaccountID` (524-555) | none | 32-byte truncation, zero test, keccak of address ++ padded fee |
| TxResponse codec | `Marshal*`, `Size`, `Unmarshal`, `skipTxResponse`, varint (tx_response.pb.go 154-559) | a byte buffer and an index | varint encode/decode, length-delimited fields, skipping unknown fields and groups |
| Glue | `Route`, `Type`, `GetSignBytes`, `GetSigners`, proto registration | none | constants, JSON, bech32 |

### How they interact

A transaction carrying `MsgCreateDerivativeOrder` first goes through
`ValidateBasic` in the SDK's ante handler. That calls `ToSignedOrder`
(which parses the amounts) and `isValidSignature`. The module's keeper is
not in this repository. It then derives the direction with
`GetDirectionMarketAndSubaccountID` and calls `DoesValidationPass(isLong,
market, blockTime)`. That pass calls the classifier and the margin
calculator, and writes the two memo fields `OrderType` and
`IndexPriceRequirement` on the `Order` record in place. The matching engine
later reads those fields and `ComputeOrderMarginHold`. Everything runs in
one goroutine per transaction. What changes between calls is the block
time, the market snapshot, and the memo fields of an `Order` that is
validated again.

### What is hard here

The code has no concurrency. What makes it hard is numeric and byte-level
edges that a unit test seldom reaches:

- `big.Int.Div` is **Euclidean**, not the truncation the specification
  prescribes. They differ exactly when a quotient is negative or the
  divisor is negative.
- Division by a zero denominator **panics**. Derivative orders are not
  checked for quantity > 0, and an empty amount parses as 0.
- `Uint64()` keeps only the low 64 bits of a 256-bit value.
- `FromHex(s)[:32]` re-slices within the capacity of `hex.DecodeString`'s
  buffer. On short or non-hex data it reads the raw string, or it panics.
- The memo fields are written at different steps. A re-validated order can
  carry values from different passes.
- The protobuf decoder uses 64-bit shift and signed-overflow checks.

### Correctness properties per component

- Pipeline: an accepted order's memo fields belong to the accepting pass.
  An accepted order meets the specification's leverage limits. After a
  rejected pass, the memo fields are the ones that pass wrote, and no
  older value survives next to them. No input makes it panic.
- Classifier: only a 32-byte prefix of value 0 or 5 is accepted.
- Margin: the requirements agree with the specification's truncating
  formulas (they do not; see the findings).
- Deriver: the direction and market rule of the specification. The
  subaccount preimage is injective.
- Codec: `Unmarshal(Marshal(m)) = m`, `Size(m) = len(Marshal(m))`, and no
  read out of bounds on any input.

## 2. Plan

Modules, in order of importance (done ones marked ✓):

1. ✓ `Margin`: pure operators for the arithmetic, with `GoDiv`
   (big.Int.Div) and the specification's truncating `GoQuo` as the
   reference.
2. ✓ `OrderPipeline` (EXTENDS `Margin`): one derivative message through
   `ValidateBasic` and repeated `DoesValidationPass`, with block time
   advancing. `MC_OrderPipeline` holds the instances.
3. ✓ `OrderPipelineProofs`: type correctness, the memo invariant, the
   leverage theorem, the panic edges and the record a rejected pass
   leaves; `MarginProofs`:
   Go's divisions compared, the scaler's identities, and the margin hold.
4. `OrderIds`: the identifier deriver over byte sequences, with a scaled
   `HashLength`. It is checked against the specification's direction rule
   and for injectivity of the subaccount preimage. The pipeline will then
   take `isLong` from it instead of from its caller.
5. `MsgValidation`: the other six `ValidateBasic`s (spot order with its
   quantity check, market messages' ticker format over abstract names).
6. `MarginHold` (its bounds and monotonicity are proved as lemmas about
   the operator in `MarginProofs`): `ComputeOrderMarginHold` under a sequence of partial fills
   (an external collaborator, modelled from the specification). Properties:
   the hold never increases as the remaining quantity falls, and it equals
   the scaled margin at full quantity.
7. ✓ `TxResponseCodec`:
   Marshal and the Unmarshal/skip loops at a scaled width W (W = 15 keeps
   the "last group has one bit" shape of 64 = 9·7 + 1). Properties: round
   trip (which includes size agreement), no panic, iNdEx in range, and
   termination.

Theorems still to prove: the pure lemmas of `OrderIds`, once that module
exists.

## 3. What is modelled

### `Margin`

`Margin` contains one operator per Go function. `GoDiv(n, d)` is
`n \div d` for `d > 0` and `-(n \div -d)` for `d < 0`, which is Euclidean
division. `IndexPriceMarginRequirement` is written for a non-zero
denominator; its callers test the denominator first, as a panic.
`Margin` also holds the specification's limits, `SpecLeverageOk` and
`NonNegativeMarket`. `SpecLeverageOk` is written with the specification's
own arithmetic: `SpecScale` computes alpha with the truncating `GoQuo`
(spec 4.1), and `SpecDenominator` and `SpecIndexPriceMarginRequirement`
are built on it. For a non-negative product, `SpecScale` agrees with the
code's `ScalePermyriad` (`SpecScaleAgrees` in `MarginProofs`).

### `OrderPipeline`

The state is the message, its stage (`Submitted`, `Checked`, `Resting` =
accepted, `Rejected`, `Panicked`), `orderType` and `indexPriceRequirement`
(the memo fields, initially the proto zero values 0 and unset), the last
verdict, the block time `now`, the number of passes, and the arguments of
the last pass. There are three actions:

- `ValidateBasic` is the whole handler: the `Sender == ""` check, the nil
  order check, `ToSignedOrder` (a panic if an amount does not parse), the
  `ComputeOrderHash` error branch, `signature[len-1]` (a panic if empty),
  and `isValidSignature`. `ComputeOrderHash` lives outside this
  repository (package zeroex); `HashFails` models it from the
  specification: the EIP-712 encoding types the six amounts as uint256,
  so a negative amount makes the hash fail and the message is rejected
  with `UnknownRequest`.
- `DoesValidationPass(isLong, mkt)` is the whole pass, including the writes
  of `ComputeAndSetOrderType` (only for a recognized type) and of
  `ComputeIndexPriceMarginRequirement` (only when the pass reaches it). It
  is enabled after `ValidateBasic` and again on a resting order, up to
  `MaxPasses`.
- `NextBlock` advances the block time.

Data is abstracted as follows:

- An amount is its parsed integer, or `Unparseable`.
- A signature is its length and last byte.
- `makerFeeAssetData` is its decoded length and the value of the 32 bytes
  that `[:32]` yields: the data itself, the leftover bytes of the decode
  buffer, or `OutOfCapacity` (a panic).
- `IndexPriceRequirement` is stored as its integer; the decimal `String()`
  is lossless.
- 2^64 is a constant (`Uint64Modulus`), scaled to 16 in the instances.

### `TxResponseCodec`

A behaviour of `TxResponseCodec` is one call of `TxResponseData.Unmarshal`.
The call gets one of two inputs:

- the output of `TxResponseData.Marshal` for a value `sent` in `Msgs`,
  possibly followed by a field the schema does not know (`UnknownFields`,
  the way a newer sender writes one);
- an arbitrary byte string from `Inputs` (then `sent = NoMsg`).

Marshal has no loop that can fail or block, so it is a pure operator,
evaluated in `Init` through the constant table `Encoded`. It is
`DataSize` (`Size`), `DataMarshalToSizedBuffer` and
`GenericMarshalToSizedBuffer`, which write from the end of the buffer,
messages last to first, with `EncodeVarintTxResponse` and `SovTxResponse`.
A write is a record `[b, lim, i, ok]` over the buffer. An index outside
the slice sets `ok` to FALSE, which stands for Go's panic. `Init` records
such a panic as the result.

Unmarshal is a call stack of three frames, named by `pc`:

- `outer` is the loop of `TxResponseData.Unmarshal` (`iNdEx`,
  `postIndex`, `m.Messages`);
- `inner` is `TxResponseGenericMessage.Unmarshal` on the sub-slice
  `dAtA[iNdEx:postIndex]`, given as its base in `buf` and its length;
- `skip` is `skipTxResponse`, called from either loop on `dAtA[preIndex:]`.
  It keeps `iNdEx`, `depth` and the caller.

Each action is one iteration of the loop on top of the stack:
`OuterField`, `InnerField` and `SkipStep`. Each also has its exits:
`OuterDone`, `InnerDone` and `SkipRunsOut`. An iteration's whole body is
`FieldOutcome`:

- the tag varint (`ReadVarint`);
- the end-group and illegal-tag checks (`TagError`);
- the known-field switch and the wire-type check;
- the length varint, with its negative-length, wrap-around and end checks
  (`LengthDelimited`);
- the slice, which panics unless `SliceOk`.

`AfterSkip` is the caller's check of what `skipTxResponse` returned.
`InnerField` writes the field into the message that `OuterField`
appended last. `Return(e)` ends the call with `e`.

The integers keep the code's widths, scaled down:

- Go's `int` and `uint64` are `W` bits wide and wrap (`AddInt`, `Signed`).
- `ReadVarint` keeps the order of the code's checks: the shift check
  comes before the end-of-data check. The bits of groups shifted past
  `W` are lost, as in Go.
- `int32(wire >> 3)` keeps `FieldWidth` bits (`FieldNum`).

The final `if iNdEx > l` checks (lines 388 and 472) are modelled, in
`OuterDone` and `InnerDone`. `TypeOK` shows that they never fire.

## 4. Runs

### Order pipeline

These runs use `MC_OrderPipeline` with `MaxTime = 3`, `MaxPasses = 2`, and
`HashLength = 32`. Deadlock is not checked, because a transaction's
processing really does end in a terminal stage.

| Run | Cfg | Expect | Shows |
|---|---|---|---|
| pipeline | MC_OrderPipeline.cfg | pass (10k states) | `TypeOK`, `MemoMatchesAcceptedPass`, `AcceptedWithinSpecLeverage`, `RejectedPassRecord` over prices {100, 0}, quantities {10, 0}, margins {100, 150, 2000}, expiries {1, 3}, types {0, 5, 7}, ratios {1000, 20000}, index prices {90, 94, 95, 120}, plus messages failing each ValidateBasic check (a negative quantity fails the hash) |
| panic_edges | MC_PanicEdges.cfg | pass (17k states) | `PanicOnlyAtKnownEdges`: the markets of `pipeline` plus ratios {9999, 10000, 10999, 11000} at index price 95. For quantity 10, alpha is 9, 10, 10 and 11, so the long denominator is zero exactly at 10000 and 10999 |
| index_req_truncation | MC_IndexTruncation.cfg | violation | the specification's example stores 95, not 94 |
| div_by_zero | MC_DivByZero.cfg | violation | quantity 0 panics in `big.Int.Div` |
| parse_failure_panics | MC_ParsePanic.cfg | violation | an unparseable salt panics in `ValidateBasic` |
| wide_order_type | MC_WideOrderType.cfg | violation | prefix 2^64 + 5 is accepted as type 5 |
| raw_buffer_order_type | MC_RawBuffer.cfg | violation | non-hex fee asset data is classified from raw bytes |
| empty_signature_panics | MC_EmptySignature.cfg | violation | `NeverPanics`: an order whose signature decodes to no bytes panics at `signature[len-1]` in `ValidateBasic` |
| short_fee_data_panics | MC_ShortFeeData.cfg | violation | `NeverPanics`: 10 bytes of `makerFeeAssetData` in a buffer too small for `[:32]` panic in `DoesValidationPass` |

The bounds are large enough for the interesting cases:

- Two passes are enough for a memo to go stale.
- Three blocks make expiry hit its boundary (expiration equal to block
  time).
- A ratio of 20000 (200 %) makes alpha exceed the quantity, so the long
  denominator changes sign.
- The index prices sit on both sides of 94 and 95.

Each passing property has a mutant that breaks it:

- storing `OrderType` before the check breaks `TypeOK`;
- caching the requirement after its first computation breaks
  `MemoMatchesAcceptedPass`;
- dropping the price factor of the contract-price requirement breaks
  `AcceptedWithinSpecLeverage`;
- writing the index-price requirement only on a pass that accepts
  (`IndexPriceRequirementOnAccept`) breaks `RejectedPassRecord`: a pass
  rejected by the index-price check leaves the previous pass's
  requirement next to its own order type;
- swapping the long and short denominators
  (`IndexPriceDenominatorSwapped`) breaks `PanicOnlyAtKnownEdges`, because
  a short order then divides by zero at ratio 10000.

`MC_OrderPipeline` also assumes `MarginTheoremsOnSmallInputs`. This
assumption evaluates the theorems of `MarginProofs` on amounts -30..30,
margins 0..12, fees {0, 15, 10000, 25000} and quantities 1..5. Every run
of that module evaluates it.

### Codec

Both codec runs use `MC_TxResponseCodec` with `W = 15` and
`FieldWidth = 8`. Deadlock is not checked, because a call of `Unmarshal`
ends in `pc = "done"`.

| Run | Cfg | Expect | Shows |
|---|---|---|---|
| codec | MC_TxResponseCodec.cfg | pass (253k states) | `TypeOK`, `NeverPanics`, `MarshalRoundTrip` for every `TxResponseData` of up to two messages (empty, header only, data only, both) and for a 128-byte header, each followed by every kind of unknown field. It also covers every byte string of up to 4 bytes over a 17-byte alphabet, and 8 longer crafted strings. |
| codec_termination | MC_TxResponseTermination.cfg | pass (1k states) | `UnmarshalTerminates` on fewer values and on strings of up to 2 bytes plus the crafted ones |

Why these bounds are enough:

- `W = 15` gives a varint three 7-bit groups. The third group brings a
  single bit, the sign bit of `int`, just as the tenth group does at 64
  bits.
- So `<<255, 255, 126>>` decodes to a length near 2^14 that is positive
  but makes `iNdEx + length` wrap. `<<255, 255, 127>>` decodes to a
  negative length, and `<<255, 255, 255, ...>>` overflows the shift.
- `FieldWidth = 8` lets a two-byte key truncate: the key for field 256
  becomes the illegal tag 0, and the key for field 257 becomes field 1.
- The alphabet holds the keys of fields 1 and 2, the keys of field 3 in
  wire types 0 to 6 (6 is illegal), field number 0, continuation bytes,
  and the last group of a long varint with its sign bit set (127) and
  clear (126). With 4 bytes it reaches every exit of every
  loop.
- A header of 128 bytes needs two-byte lengths, at the boundary of
  `sovTxResponse`.
- Liveness costs TLC much more per state, so the termination run uses the
  smaller sets. Its crafted strings still contain an unclosed group, a
  nested skip and an overflowing length.

Fairness: `Spec` has `WF_vars(Next)`. `Unmarshal` runs in its caller's
goroutine. It takes no lock and waits on nothing, so while it has not
returned its next iteration is always enabled and it is taken.
`UnmarshalTerminates` holds only under this assumption. Without it,
`Spec` allows stopping forever.

Each codec property has a mutant that breaks it:

- `AfterSkipNoEndCheck` drops the `iNdEx + skippy > l` check. This breaks
  `TypeOK`: iNdEx leaves its slice.
- `LengthDelimitedNoWrapCheck` drops the `postIndex < 0` check. This
  breaks `NeverPanics`: a slice with `from > to`.
- `DataMarshalFirstToLast` writes the messages first to last. This breaks
  `MarshalRoundTrip`.
- `AfterSkipNoAdvance` leaves iNdEx where the skip started. This breaks
  `UnmarshalTerminates`.

## 5. Findings

The violation runs establish these findings; details are in `PROJECT.json`:

1. Euclidean versus truncating division in the index-price requirement
   (line 487).
2. A panic, instead of a DivisionByZero error, for a zero quantity
   (line 487).
3. A panic, instead of a ParseFailure error, in `ToSignedOrder` (line 428).
4. `Uint64()` aliasing of the order type (line 462).
5. Order-type classification from the raw decode buffer (line 462).
6. A panic, instead of an InvalidSignature error, for an order whose
   signature decodes to no bytes (line 63).
7. A panic, instead of UnrecognizedOrderType, for `makerFeeAssetData`
   shorter than 32 bytes (line 462).

A derivative order of negative quantity is not accepted: `ValidateBasic`
does not check quantity > 0, but the EIP-712 hash encodes the amounts as
uint256 and fails on a negative one (`HashFails`).

`PanicOnlyAtKnownEdges` bounds finding 2. A zero quantity is not the only
case: a long order whose ratio r satisfies 10000 <= r and
q * r < 10000 * (q + 1) also panics. A short order of positive quantity,
against a non-negative ratio, never does. The run `panic_edges` checks
this, and `PanicEdgesCorrect` proves it.

`AcceptedWithinSpecLeverage` restricts finding 1 to markets whose ratio
and index price are non-negative. There, the division divergence never
lets an order of positive quantity exceed the specification's limits; the
code is at least as strict. The run `pipeline` checks this, and
`SpecLeverageCorrect` proves it.

## 6. Proofs

`OrderPipelineProofs` proves `TypeCorrect` (`Spec => []TypeOK`) and
`MemoCorrect` (`Spec => []MemoMatchesAcceptedPass`) for every value of the
constants. Both use the inductive invariant `IInv == TypeOK /\ Parsed /\
MemoMatchesAcceptedPass /\ AcceptedPassChecks`. `TypeOK` alone is not inductive. The
requirement `DoesValidationPass` stores is an integer only because the
order's amounts parsed, and `Parsed` records that ValidateBasic let
through only orders whose amounts are naturals: so2zo parsed them, and
`ComputeOrderHash` did not fail on a negative one.

`SpecLeverageCorrect` (`Spec => []AcceptedWithinSpecLeverage`) strengthens
the invariant with `AcceptedPassChecks`. A resting order's last call is
recorded, and that call passed the contract check, the denominator check
and the index-price check. The proof derives the specification's limits
from those three checks (`PassedChecksWithinSpec`). Since the order's
quantity and the market's ratio are non-negative, the specification's
truncated alpha equals the code's (`SpecScaleAgrees`, from
`DivQuoAgreeNonNeg`: `Div` and `Quo` agree on a non-negative numerator),
so the two denominators are the same. The rest rests on lemmas about Go's
divisions:

- `EuclidBelowTrunc`: for a positive divisor, `big.Int.Div` is at most
  `big.Int.Quo`. This covers the short order, whose denominator alpha + q
  is positive.
- `EuclidAboveTrunc`: for a negative divisor, `Div` is at least `Quo`.
- `TruncNegNotPositive`: a negative numerator over a positive divisor
  truncates to at most 0. This is where a non-negative index price is
  needed.
- `LongIndexWithinTrunc` and `ShortIndexWithinTrunc` combine these by
  cases.

`PanicEdgesCorrect` (`Spec => []PanicOnlyAtKnownEdges`) needs the
strengthening `PanicSource`. In a panicked state, `PanicSource` names the
panic site: so2zo or the signature in ValidateBasic, or, in a pass on a
parsed order against a recorded call, the classification or the division.
The invariant alone is not inductive. It speaks of `lastCall`'s market
and of integer amounts, and a state that is not panicked says nothing
about these. `PanicSource` is inductive given `IInv`:

- `BasicPanic` and `PassPanic` read the panic sites off the verdicts.
- `Parsed` supplies the integer amounts for a pass.

TLC checked `IInv /\ PanicSource` on the `panic_edges` instance before it
was proved. The arithmetic step is `ZeroDenominatorEdge` in
`MarginProofs`. For q > 0 and r >= 0, it shows that the denominator is
zero exactly when the order is long and 10000 <= r < 10000 * (q + 1) / q.
The reason is that alpha = (q * r) div 10000 equals q exactly when q * r
lies in [10000 q, 10000 (q + 1)) (`PermyriadQuotientIs`), while the short
denominator alpha + q is positive.

`RejectedRecordCorrect` (`Spec => []RejectedPassRecord`) says what the
record of a rejected pass holds. `OrderType` is the rejecting pass's own
classification unless that pass failed to classify. After a rejection by
the index-price check, `IndexPriceRequirement` is the requirement of that
pass's order, direction and market. After a rejection before step 4
(expired, or over-leveraged at the contract price), the requirement is
still unset exactly when this was the first pass. The property is not
inductive: its third conjunct speaks of `passes`, and only the stages say
what the requirement is before any pass. The strengthening is
`RInv == RecordStages /\ RejectedPassRecord`. `RecordStages` says that
before any pass nothing is recorded (no passes, no requirement, no call),
and that a resting order has passed at least once and holds an integer
requirement. `PassProgress` reads off a pass's verdict how far the pass
got: whether it classified the order, reached the index-price check, or
stopped before it. TLC checked `RInv` on the `pipeline` instance before it
was proved.

The proofs rest on these lemmas:

- `BasicOkParsed`;
- `BasicStage` and `PassStage` (which verdicts lead to which stage);
- `GoDivInt`;
- `IndexReqInt`;
- `PassProgress`.

`MarginProofs` holds the facts about the arithmetic, for all integers:

- the division lemmas above;
- `ScaleByBaseIsIdentity`: `ScalePermyriad(a, 10000) = a`. Specification
  8 states this for non-negative amounts; it holds for every integer,
  because `big.Int.Div` is exact on a multiple of the base.
- `IncrementByZeroIsIdentity`: `IncrementByScaledPermyriad(a, 0) = a`.
- `OrderMarginHoldBounds`: for a non-negative margin and fee and
  0 <= remaining <= quantity with quantity > 0, the hold lies in
  0..(fee-scaled margin), and equals the fee-scaled margin at full
  quantity.
- `OrderMarginHoldMonotone`: the hold never grows as the order fills.

These rest on `DivFacts` (the quotient and remainder of division by a
positive integer, proved by SMT) and `QuotientBound`.

The assumptions are those of `ConstantsAssumption`:

- the bounds are naturals;
- the messages and markets are well typed;
- the sentinel values lie outside the sets they stand beside.

TLC evaluates these assumptions on every run.

Three things are checked only by TLC:

- Liveness: `UnmarshalTerminates`. TLAPS cannot reason about ENABLED.
- Anything about what a recursive function computes for every input.
  This covers `MarshalRoundTrip`, which rests on
  what `DataMarshalToSizedBuffer` and `ReadVarint` compute.
- The codec's `TypeOK` and `NeverPanics`. Their proof would need:
  - the value of a varint (the recursive accumulator of `ReadVarint`) to
    be an integer, which requires induction over its definition;
  - facts about `2^W` for a symbolic `W`, which the provers lack.

## 7. Not modelled

- `Route`, `Type`, `GetSignBytes`, `GetSigners`: constant strings and
  JSON/bech32 glue.
- `zo2so`: a field copy.
- Proto registration and the gzipped file descriptor of the codec.
- The codec's `Reset`, `String`, getters and `XXX_*` wrappers. They
  delegate or return a field. `MarshalTo` and
  `TxResponseGenericMessage.Marshal` are the same size-then-fill pattern
  as the modelled `TxResponseData.Marshal`. `sozTxResponse` is never
  called.
- Code outside this repository, which the models cover only through the
  specification: the keeper that calls `DoesValidationPass`, and
  `BigNum.Int`, which is assumed to parse what `ParseBig256` parses.
  `ComputeOrderHash` (package zeroex) is modelled from the specification
  by `HashFails`: it fails exactly on a negative amount, which the
  uint256 encoding of EIP-712 cannot represent.
