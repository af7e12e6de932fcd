--------------------------- MODULE TxResponseCodec ---------------------------
(***************************************************************************)
(* The generated protobuf codec of src/chain/types/tx_response.pb.go:      *)
(* TxResponseData (a repeated field 1 of TxResponseGenericMessage) and     *)
(* TxResponseGenericMessage (header = field 1, data = field 2).            *)
(*                                                                         *)
(* A behaviour is one call of TxResponseData.Unmarshal, on the output of   *)
(* TxResponseData.Marshal (possibly followed by a field this schema does   *)
(* not know, as a newer sender writes it) or on an arbitrary byte string.  *)
(* Unmarshal and the calls it makes run as one sequential call stack: the *)
(* loop of TxResponseData.Unmarshal (frame "outer"), the nested           *)
(* TxResponseGenericMessage.Unmarshal on a sub-slice ("inner"), and        *)
(* skipTxResponse ("skip"), called from either.  One step is one iteration *)
(* of the loop of the frame on top.                                        *)
(*                                                                         *)
(* Go's int and uint64 are W bits wide and wrap; int32 is FieldWidth bits. *)
(* Bytes keep their 8 bits and the 7-bit varint groups.  With W = 15 a     *)
(* varint has three groups and the last one contributes a single bit, the *)
(* sign bit, as the tenth group does for W = 64.                          *)
(***************************************************************************)
EXTENDS Integers, Sequences

CONSTANTS
    W,           \* bits of Go's int and uint64 (64)
    FieldWidth,  \* bits of int32 (32)
    Msgs,        \* TxResponseData values a sender marshals
    UnknownFields, \* encodings of a field unknown to this schema
    Inputs,      \* arbitrary byte strings handed to Unmarshal
    NoMsg        \* the input did not come from Marshal

VARIABLES
    sent,    \* the TxResponseData that was marshalled, or NoMsg
    buf,     \* the bytes handed to TxResponseData.Unmarshal
    pc,      \* the frame on top of the call stack
    outer,   \* TxResponseData.Unmarshal: iNdEx, postIndex, m.Messages
    inner,   \* TxResponseGenericMessage.Unmarshal: its slice and iNdEx
    skip,    \* skipTxResponse: its slice, iNdEx, depth and caller
    result   \* "running", "ok", an error, or "Panic"

vars == <<sent, buf, pc, outer, inner, skip, result>>

Bytes == 0..255

GenericMessage == [header : Seq(Bytes), data : Seq(Bytes)]

EmptyMessage == [header |-> <<>>, data |-> <<>>]

Errors == {"ErrIntOverflow", "ErrUnexpectedEOF", "ErrInvalidLength",
           "ErrUnexpectedEndOfGroup", "ErrEndGroupForNonGroup",
           "ErrIllegalTag", "ErrWrongWireType", "ErrIllegalWireType"}

Results == {"running", "ok", "Panic"} \cup Errors

ASSUME CodecAssumption ==
    /\ W \in Nat /\ W > 8
    /\ FieldWidth \in 1..(W - 3)
    /\ Msgs \subseteq Seq(GenericMessage)
    /\ UnknownFields \subseteq Seq(Bytes)
    /\ Inputs \subseteq Seq(Bytes)
    /\ NoMsg \notin Seq(GenericMessage)

-----------------------------------------------------------------------------
(***************************************************************************)
(* Fixed-width integers.                                                   *)
(***************************************************************************)
Modulus == 2^W

\* The two's-complement value of the w-bit pattern v.
Signed(v, w) == IF v >= 2^(w - 1) THEN v - 2^w ELSE v

\* Go int addition, which wraps.
AddInt(a, b) == Signed((a + b) % Modulus, W)

\* math_bits.Len64: the number of bits needed to write x.
BitLen(x) == CHOOSE n \in 0..W : x < 2^n /\ (n = 0 \/ 2^(n - 1) <= x)

\* sovTxResponse: the length of the varint of x (1 for x = 0).
SovTxResponse(x) == (BitLen(IF x % 2 = 0 THEN x + 1 ELSE x) + 6) \div 7

-----------------------------------------------------------------------------
(***************************************************************************)
(* Marshal.  The code sizes the buffer with Size() and fills it from the   *)
(* end: MarshalToSizedBuffer writes the last field first, a field's bytes  *)
(* before its length and its key, and returns len(dAtA) - i.  A writer is *)
(* the buffer, the length of the slice being written (lim), the index i    *)
(* and whether every index was in range (a write out of range panics).     *)
(***************************************************************************)
FieldSize(l) == IF l > 0 THEN 1 + l + SovTxResponse(l) ELSE 0

\* TxResponseGenericMessage.Size.
GenericMessageSize(g) == FieldSize(Len(g.header)) + FieldSize(Len(g.data))

\* TxResponseData.Size.
DataSize(d) ==
    LET acc[k \in 0..Len(d)] ==
            IF k = 0 THEN 0
            ELSE acc[k - 1] + 1 + GenericMessageSize(d[k])
                     + SovTxResponse(GenericMessageSize(d[k]))
    IN  acc[Len(d)]

\* The bytes the loop of encodeVarintTxResponse writes for v.
VarintBytes(v) ==
    LET n == CHOOSE n \in 1..W : v < 128^n /\ (n = 1 \/ 128^(n - 1) <= v)
    IN  [j \in 1..n |-> IF j < n THEN ((v \div 128^(j - 1)) % 128) + 128
                                 ELSE v \div 128^(j - 1)]

PutBytes(b, p, s) ==
    [k \in DOMAIN b |-> IF p < k /\ k <= p + Len(s) THEN s[k - p] ELSE b[k]]

WriteFails(w) == [w EXCEPT !.ok = FALSE]

\* encodeVarintTxResponse: back up sov(v) bytes, then write forward.
EncodeVarintTxResponse(w, v) ==
    LET base == w.i - SovTxResponse(v)
        bs == VarintBytes(v)
    IN  IF w.ok /\ 0 <= base /\ base + Len(bs) <= w.lim
        THEN [w EXCEPT !.b = PutBytes(@, base, bs), !.i = base]
        ELSE WriteFails(w)

\* i -= len(s); copy(dAtA[i:], s)
CopyBytes(w, s) ==
    IF w.ok /\ w.i - Len(s) >= 0
    THEN [w EXCEPT !.b = PutBytes(@, w.i - Len(s), s), !.i = w.i - Len(s)]
    ELSE WriteFails(w)

\* i--; dAtA[i] = key
PutKey(w, key) ==
    IF w.ok /\ 0 <= w.i - 1 /\ w.i - 1 < w.lim
    THEN [w EXCEPT !.b[w.i] = key, !.i = w.i - 1]
    ELSE WriteFails(w)

\* One length-delimited field, written when it is not empty.
MarshalField(w, key, s) ==
    IF Len(s) > 0 THEN PutKey(EncodeVarintTxResponse(CopyBytes(w, s), Len(s)), key)
    ELSE w

\* TxResponseGenericMessage.MarshalToSizedBuffer: data (0x12), then header (0xa).
GenericMarshalToSizedBuffer(w, g) ==
    MarshalField(MarshalField(w, 18, g.data), 10, g.header)

\* Fault: the messages written from first to last, which reverses them.
DataMarshalFirstToLast(w0, d) ==
    LET step[k \in 0..Len(d)] ==
          IF k = 0 THEN w0
          ELSE LET w == step[k - 1]
                   m == GenericMarshalToSizedBuffer([w EXCEPT !.lim = w.i], d[k])
               IN  PutKey(EncodeVarintTxResponse([m EXCEPT !.lim = w.lim],
                                                 w.i - m.i), 10)
    IN  step[Len(d)]

\* TxResponseData.MarshalToSizedBuffer: the messages from last to first,
\* each written into dAtA[:i], then its size and the key 0xa.
DataMarshalToSizedBuffer(w0, d) ==
    LET step[k \in 0..Len(d)] ==
          IF k = 0 THEN w0
          ELSE LET w == step[k - 1]
                   m == GenericMarshalToSizedBuffer([w EXCEPT !.lim = w.i],
                                                    d[Len(d) - k + 1])
               IN  PutKey(EncodeVarintTxResponse([m EXCEPT !.lim = w.lim],
                                                 w.i - m.i), 10)
    IN  step[Len(d)]

\* TxResponseData.Marshal: make([]byte, Size()), fill, return dAtA[:n];
\* ok is FALSE when a write fell outside the buffer (a panic).
Marshal(d) ==
    LET size == DataSize(d)
        w == DataMarshalToSizedBuffer(
                 [b |-> [k \in 1..size |-> 0], lim |-> size, i |-> size,
                  ok |-> TRUE], d)
    IN  [ok |-> w.ok, bytes |-> SubSeq(w.b, 1, size - w.i)]

\* What Marshal returns for each value a sender may marshal.
Encoded == [d \in Msgs |-> Marshal(d)]

-----------------------------------------------------------------------------
(***************************************************************************)
(* Unmarshal.  A frame reads the slice buf[base : base + l]; its capacity *)
(* runs to the end of buf, as Go's sub-slices do.                           *)
(***************************************************************************)
ByteAt(base, p) == buf[base + p + 1]

\* The loop that reads a varint at index p of a slice of length l: the
\* shift check comes before the end-of-data check, and the bits of groups
\* shifted past W are lost.  next is the index after the varint.
VarintSteps == (W + 6) \div 7

ReadVarint(base, l, p) ==
    LET Stops(k) == k = VarintSteps \/ p + k >= l \/ ByteAt(base, p + k) < 128
        k == CHOOSE k \in 0..VarintSteps : Stops(k) /\ \A j \in 0..(k - 1) : ~Stops(j)
        acc[j \in 0..k] == (IF j = 0 THEN 0 ELSE acc[j - 1])
                             + ((ByteAt(base, p + j) % 128) * 2^(7 * j))
    IN  IF k = VarintSteps THEN [err |-> "ErrIntOverflow", val |-> 0, next |-> p]
        ELSE IF p + k >= l THEN [err |-> "ErrUnexpectedEOF", val |-> 0, next |-> p]
        ELSE [err |-> "none", val |-> acc[k] % Modulus, next |-> p + k + 1]

WireType(wire) == wire % 8

\* fieldNum := int32(wire >> 3)
FieldNum(wire) == Signed((wire \div 8) % 2^FieldWidth, FieldWidth)

\* The checks every Unmarshal loop makes on a tag.
TagError(t) ==
    IF t.err # "none" THEN t.err
    ELSE IF WireType(t.val) = 4 THEN "ErrEndGroupForNonGroup"
    ELSE IF FieldNum(t.val) <= 0 THEN "ErrIllegalTag"
    ELSE "none"

\* Fault: the wrap-around check on postIndex dropped.
LengthDelimitedNoWrapCheck(base, l, p) ==
    LET v == ReadVarint(base, l, p)
        n == Signed(v.val, W)
        post == AddInt(v.next, n)
    IN  [err |-> IF v.err # "none" THEN v.err
                 ELSE IF n < 0 THEN "ErrInvalidLength"
                 ELSE IF post > l THEN "ErrUnexpectedEOF"
                 ELSE "none",
         from |-> v.next, to |-> post]

\* A length-delimited field after its tag: the length varint read into an
\* int, the negative-length and wrap-around checks, and the end check.
LengthDelimited(base, l, p) ==
    LET v == ReadVarint(base, l, p)
        n == Signed(v.val, W)
        post == AddInt(v.next, n)
    IN  [err |-> IF v.err # "none" THEN v.err
                 ELSE IF n < 0 THEN "ErrInvalidLength"
                 ELSE IF post < 0 THEN "ErrInvalidLength"
                 ELSE IF post > l THEN "ErrUnexpectedEOF"
                 ELSE "none",
         from |-> v.next, to |-> post]

\* dAtA[from:to] of a slice starting at base is legal in Go.
SliceOk(base, from, to) == 0 <= from /\ from <= to /\ to <= Len(buf) - base

SliceBytes(base, from, to) == SubSeq(buf, base + from + 1, base + to)
\* One iteration of the loop of TxResponseData.Unmarshal (known = {1}) or
\* of TxResponseGenericMessage.Unmarshal (known = {1, 2}), up to the point
\* where it goes on: an error, a known field (every known field is
\* length-delimited) with the bounds of its bytes, or an unknown field to
\* hand to skipTxResponse from preIndex.
FieldOutcome(base, l, p, known) ==
    LET t == ReadVarint(base, l, p)
        f == LengthDelimited(base, l, t.next)
        Error(e) == [kind |-> "error", err |-> e, field |-> 0, from |-> p, to |-> p]
    IN  IF TagError(t) # "none" THEN Error(TagError(t))
        ELSE IF FieldNum(t.val) \notin known
             THEN [kind |-> "skip", err |-> "none", field |-> 0, from |-> p, to |-> p]
        ELSE IF WireType(t.val) # 2 THEN Error("ErrWrongWireType")
        ELSE IF f.err # "none" THEN Error(f.err)
        ELSE IF ~SliceOk(base, f.from, f.to) THEN Error("Panic")
        ELSE [kind |-> "field", err |-> "none", field |-> FieldNum(t.val),
              from |-> f.from, to |-> f.to]

\* One iteration of the loop of skipTxResponse: the new iNdEx and depth,
\* or an error.
SkipField(s) ==
    LET t == ReadVarint(s.base, s.l, s.idx)
        v == ReadVarint(s.base, s.l, t.next)
        n == Signed(v.val, W)
        Go(i, d) == [err |-> "none", idx |-> i, depth |-> d]
        Error(e) == [err |-> e, idx |-> s.idx, depth |-> s.depth]
        r == CASE t.err # "none"                 -> Error(t.err)
               [] WireType(t.val) = 0 /\ v.err # "none" -> Error(v.err)
               [] WireType(t.val) = 0            -> Go(v.next, s.depth)
               [] WireType(t.val) = 1            -> Go(AddInt(t.next, 8), s.depth)
               [] WireType(t.val) = 2 /\ v.err # "none" -> Error(v.err)
               [] WireType(t.val) = 2 /\ n < 0   -> Error("ErrInvalidLength")
               [] WireType(t.val) = 2            -> Go(AddInt(v.next, n), s.depth)
               [] WireType(t.val) = 3            -> Go(t.next, s.depth + 1)
               [] WireType(t.val) = 4 /\ s.depth = 0 -> Error("ErrUnexpectedEndOfGroup")
               [] WireType(t.val) = 4            -> Go(t.next, s.depth - 1)
               [] WireType(t.val) = 5            -> Go(AddInt(t.next, 4), s.depth)
               [] OTHER                          -> Error("ErrIllegalWireType")
    IN  IF r.err = "none" /\ r.idx < 0 THEN Error("ErrInvalidLength") ELSE r

\* Fault: the caller does not check that the skipped bytes end in its slice.
AfterSkipNoEndCheck(f, skippy) ==
    [err |-> IF skippy < 0 \/ AddInt(f.idx, skippy) < 0 THEN "ErrInvalidLength"
             ELSE "none",
     idx |-> AddInt(f.idx, skippy)]

\* Fault: the caller does not move past what skipTxResponse skipped.
AfterSkipNoAdvance(f, skippy) ==
    [err |-> IF skippy < 0 \/ AddInt(f.idx, skippy) < 0 THEN "ErrInvalidLength"
             ELSE IF AddInt(f.idx, skippy) > f.l THEN "ErrUnexpectedEOF"
             ELSE "none",
     idx |-> f.idx]

\* The caller's checks on skippy, and iNdEx += skippy.
AfterSkip(f, skippy) ==
    [err |-> IF skippy < 0 \/ AddInt(f.idx, skippy) < 0 THEN "ErrInvalidLength"
             ELSE IF AddInt(f.idx, skippy) > f.l THEN "ErrUnexpectedEOF"
             ELSE "none",
     idx |-> AddInt(f.idx, skippy)]

-----------------------------------------------------------------------------
(***************************************************************************)
(* The state machine.                                                      *)
(***************************************************************************)
OuterAt(b) == [l |-> Len(b), idx |-> 0, post |-> 0, msgs |-> <<>>]

NoInner == [base |-> 0, l |-> 0, idx |-> 0]

NoSkip == [base |-> 0, l |-> 0, idx |-> 0, depth |-> 0, caller |-> "outer"]

\* A behaviour starts from what TxResponseData.Marshal returned for sent,
\* followed by an unknown field a newer sender appended (a panic in Marshal
\* ends it at once), or from an arbitrary input.
Init ==
    /\ \/ /\ sent \in Msgs
          /\ \E u \in UnknownFields :
                buf = Encoded[sent].bytes \o u
          /\ pc = IF Encoded[sent].ok THEN "outer" ELSE "done"
          /\ result = IF Encoded[sent].ok THEN "running" ELSE "Panic"
       \/ /\ sent = NoMsg /\ buf \in Inputs
          /\ pc = "outer" /\ result = "running"
    /\ outer = OuterAt(buf)
    /\ inner = NoInner
    /\ skip = NoSkip

\* The call returns e.
Return(e) == pc' = "done" /\ result' = e

\* An iteration of TxResponseData.Unmarshal's loop.
OuterField ==
    /\ pc = "outer"
    /\ outer.idx < outer.l
    /\ LET o == FieldOutcome(0, outer.l, outer.idx, {1}) IN
       \/ /\ o.kind = "error"
          /\ Return(o.err)
          /\ UNCHANGED <<sent, buf, outer, inner, skip>>
       \/ /\ o.kind = "field"
          /\ outer' = [outer EXCEPT !.post = o.to,
                                    !.msgs = Append(@, EmptyMessage)]
          /\ inner' = [base |-> o.from, l |-> o.to - o.from, idx |-> 0]
          /\ pc' = "inner"
          /\ UNCHANGED <<sent, buf, skip, result>>
       \/ /\ o.kind = "skip"
          /\ skip' = [base |-> outer.idx, l |-> outer.l - outer.idx, idx |-> 0,
                      depth |-> 0, caller |-> "outer"]
          /\ pc' = "skip"
          /\ UNCHANGED <<sent, buf, outer, inner, result>>

\* TxResponseData.Unmarshal's loop ends.
OuterDone ==
    /\ pc = "outer"
    /\ outer.idx >= outer.l
    /\ Return(IF outer.idx > outer.l THEN "ErrUnexpectedEOF" ELSE "ok")
    /\ UNCHANGED <<sent, buf, outer, inner, skip>>

\* An iteration of TxResponseGenericMessage.Unmarshal's loop, on the
\* message the outer loop appended last.
InnerField ==
    /\ pc = "inner"
    /\ inner.idx < inner.l
    /\ LET o == FieldOutcome(inner.base, inner.l, inner.idx, {1, 2})
           name == IF o.field = 1 THEN "header" ELSE "data"
       IN
       \/ /\ o.kind = "error"
          /\ Return(o.err)
          /\ UNCHANGED <<sent, buf, outer, inner, skip>>
       \/ /\ o.kind = "field"
          /\ outer' = [outer EXCEPT !.msgs[Len(outer.msgs)][name] =
                                      SliceBytes(inner.base, o.from, o.to)]
          /\ inner' = [inner EXCEPT !.idx = o.to]
          /\ UNCHANGED <<sent, buf, pc, skip, result>>
       \/ /\ o.kind = "skip"
          /\ skip' = [base |-> inner.base + inner.idx, l |-> inner.l - inner.idx,
                      idx |-> 0, depth |-> 0, caller |-> "inner"]
          /\ pc' = "skip"
          /\ UNCHANGED <<sent, buf, outer, inner, result>>

\* TxResponseGenericMessage.Unmarshal's loop ends: its final check, then
\* the return to the outer loop, which moves to postIndex.
InnerDone ==
    /\ pc = "inner"
    /\ inner.idx >= inner.l
    /\ IF inner.idx > inner.l
       THEN /\ Return("ErrUnexpectedEOF")
            /\ UNCHANGED <<sent, buf, outer, inner, skip>>
       ELSE /\ outer' = [outer EXCEPT !.idx = outer.post]
            /\ pc' = "outer"
            /\ UNCHANGED <<sent, buf, inner, skip, result>>

\* An iteration of skipTxResponse's loop; at depth 0 it returns iNdEx to
\* its caller, which checks it and moves past the skipped bytes.
SkipStep ==
    /\ pc = "skip"
    /\ skip.idx < skip.l
    /\ LET r == SkipField(skip)
           a == AfterSkip(IF skip.caller = "outer" THEN outer ELSE inner, r.idx)
       IN
       \/ /\ r.err # "none"
          /\ Return(r.err)
          /\ UNCHANGED <<sent, buf, outer, inner, skip>>
       \/ /\ r.err = "none" /\ r.depth # 0
          /\ skip' = [skip EXCEPT !.idx = r.idx, !.depth = r.depth]
          /\ UNCHANGED <<sent, buf, pc, outer, inner, result>>
       \/ /\ r.err = "none" /\ r.depth = 0 /\ a.err # "none"
          /\ Return(a.err)
          /\ UNCHANGED <<sent, buf, outer, inner, skip>>
       \/ /\ r.err = "none" /\ r.depth = 0 /\ a.err = "none"
          /\ skip.caller = "outer"
          /\ outer' = [outer EXCEPT !.idx = a.idx]
          /\ pc' = "outer"
          /\ UNCHANGED <<sent, buf, inner, skip, result>>
       \/ /\ r.err = "none" /\ r.depth = 0 /\ a.err = "none"
          /\ skip.caller = "inner"
          /\ inner' = [inner EXCEPT !.idx = a.idx]
          /\ pc' = "inner"
          /\ UNCHANGED <<sent, buf, outer, skip, result>>

\* skipTxResponse runs off the end of its slice inside a group.
SkipRunsOut ==
    /\ pc = "skip"
    /\ skip.idx >= skip.l
    /\ Return("ErrUnexpectedEOF")
    /\ UNCHANGED <<sent, buf, outer, inner, skip>>

Next ==
    \/ OuterField \/ OuterDone
    \/ InnerField \/ InnerDone
    \/ SkipStep \/ SkipRunsOut

\* Unmarshal runs in its caller's goroutine and never waits: while it has
\* not returned, its next iteration is always enabled and is taken.
Spec == Init /\ [][Next]_vars /\ WF_vars(Next)

-----------------------------------------------------------------------------
(***************************************************************************)
(* Properties.                                                             *)
(***************************************************************************)
\* The types, and the range of each loop's iNdEx: it never passes the end
\* of its frame's slice (so the final "iNdEx > l" checks never fire).
TypeOK ==
    /\ sent \in Msgs \cup {NoMsg}
    /\ buf \in Seq(Bytes)
    /\ pc \in {"outer", "inner", "skip", "done"}
    /\ outer.msgs \in Seq(GenericMessage)
    /\ outer.l = Len(buf) /\ outer.idx \in 0..outer.l
    /\ outer.post \in 0..outer.l
    /\ inner.base \in Nat /\ inner.l \in Nat /\ inner.idx \in 0..inner.l
    /\ {skip.base, skip.l, skip.idx, skip.depth} \subseteq Int
    /\ skip.caller \in {"outer", "inner"}
    /\ result \in Results
    /\ (pc = "done") = (result # "running")

\* Neither Marshal nor Unmarshal ever indexes or slices out of range, for
\* any input: the length varints read into an int can be negative and
\* iNdEx + length can wrap, and skipTxResponse moves iNdEx by 8, 4 or a
\* decoded length with no bound check; every such value must be caught
\* before a slice uses it.
NeverPanics == result # "Panic"

\* Unmarshal(Marshal(d)) = d, also when a newer sender appended a field
\* this schema does not know: Size() and the back-to-front writes of
\* MarshalToSizedBuffer agree, and skipTxResponse skips exactly the
\* unknown field.
MarshalRoundTrip ==
    (sent # NoMsg /\ pc = "done") => (result = "ok" /\ outer.msgs = sent)

\* Every call of Unmarshal returns, whatever the input: each iteration of
\* every loop moves iNdEx forward or ends the call.
UnmarshalTerminates == <>(pc = "done")
====
