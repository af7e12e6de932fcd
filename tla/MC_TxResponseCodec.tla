------------------------- MODULE MC_TxResponseCodec -------------------------
(***************************************************************************)
(* Instances of TxResponseCodec for TLC, with W = 15 and int32 scaled to 8 *)
(* bits (see the README for why the scaled widths keep the code's cases).  *)
(***************************************************************************)
EXTENDS TxResponseCodec, SequencesExt

\* Generic messages: empty, header only, data only, both, and a header of
\* 128 bytes, whose length and whose message's size need two varint bytes.
MsgEmpty == [header |-> <<>>, data |-> <<>>]
MsgHeader == [header |-> <<97>>, data |-> <<>>]
MsgData == [header |-> <<>>, data |-> <<1, 0>>]
MsgBoth == [header |-> <<97, 98>>, data |-> <<255>>]
MsgLong == [header |-> [k \in 1..128 |-> 97], data |-> <<>>]

MCMsgs ==
    BoundedSeq({MsgEmpty, MsgHeader, MsgData, MsgBoth}, 2)
        \cup {<<MsgLong>>, <<MsgLong, MsgEmpty>>}

\* Field 3 (unknown here) in every wire type a newer sender could use:
\* varint, fixed64, length-delimited, a group holding a varint, fixed32.
MCUnknownFields ==
    {<<>>, <<24, 150, 1>>, <<25, 0, 0, 0, 0, 0, 0, 0, 0>>, <<26, 1, 0>>,
     <<27, 24, 0, 28>>, <<29, 0, 0, 0, 0>>}

\* Bytes that matter to the decoder: keys of fields 1 and 2, of field 3 in
\* each wire type (3 and 4 are group start and end, 6 is illegal), field
\* number 0, continuation bytes, and the last group of a long varint with
\* its sign bit set (127) and clear (126).
Alphabet == {0, 1, 2, 10, 11, 18, 24, 25, 26, 27, 28, 29, 30, 126, 127, 128, 255}

\* Longer strings that nest a message holding an unknown field, a group,
\* or an overflowing length, and 2-byte keys whose field number (256, 257)
\* int32 truncates to 0 and to 1.
LongInputs ==
    {<<10, 4, 26, 255, 255, 126>>, <<10, 3, 27, 28, 10>>,
     <<10, 5, 27, 25, 0, 0, 28>>, <<26, 255, 255, 126, 10, 0>>,
     <<10, 2, 18, 0, 10, 1>>, <<255, 255, 255, 10>>,
     <<128, 16, 2, 0, 0>>, <<138, 16, 2, 10, 0>>}

MCInputs == BoundedSeq(Alphabet, 4) \cup LongInputs

\* The termination run checks fewer inputs: checking a liveness property
\* costs TLC far more per state.
MCInputsShort == BoundedSeq(Alphabet, 2) \cup LongInputs

MCMsgsShort == {<<MsgEmpty>>, <<MsgBoth, MsgData>>, <<MsgLong>>}
====
