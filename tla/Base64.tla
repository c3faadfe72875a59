-------------------------------- MODULE Base64 --------------------------------
(***************************************************************************)
(* CryptoProvider::base64_encode and base64_decode.  A character of the    *)
(* alphabet is its value.                                                  *)
(***************************************************************************)
EXTENDS Integers, SequencesExt

\* The padding, and any character that is not of the alphabet.
Pad == 64
Other == 65

\* Whole groups of three bytes, and the one or two that remain.
EncodeGroup(g) ==
    CASE Len(g) = 3 -> <<g[1] \div 4, 16 * (g[1] % 4) + g[2] \div 16,
                         4 * (g[2] % 16) + g[3] \div 64, g[3] % 64>>
      [] Len(g) = 2 -> <<g[1] \div 4, 16 * (g[1] % 4) + g[2] \div 16, 4 * (g[2] % 16), Pad>>
      [] Len(g) = 1 -> <<g[1] \div 4, 16 * (g[1] % 4), Pad, Pad>>

Groups(data) ==
    [k \in 1 .. (Len(data) + 2) \div 3 |->
        SubSeq(data, 3 * k - 2, IF 3 * k <= Len(data) THEN 3 * k ELSE Len(data))]

Encode(data) ==
    LET groups == Groups(data) IN FlattenSeq([k \in DOMAIN groups |-> EncodeGroup(groups[k])])

\* `buffer` is an unsigned int that drops its upper bits; no more than its lower 14 are ever
\* looked at.
ShiftIn(buffer, value) == (64 * buffer + value) % 2 ^ 14

ByteAt(buffer, bits) == (buffer \div 2 ^ bits) % 256

\* Variant for mutation: the padding counts as bits.
DecodeCharacterPadded(state, c) ==
    LET buffer == ShiftIn(state.buffer, c)
        bits == state.bits + 6 IN
    IF c = Other THEN state
    ELSE IF bits < 8 THEN [buffer |-> buffer, bits |-> bits, out |-> state.out]
    ELSE [buffer |-> buffer, bits |-> bits - 8,
          out |-> Append(state.out, ByteAt(buffer, bits - 8))]

\* One round of the loop.
DecodeCharacter(state, c) ==
    LET buffer == ShiftIn(state.buffer, c)
        bits == state.bits + 6 IN
    IF c \in {Pad, Other} THEN state
    ELSE IF bits < 8 THEN [buffer |-> buffer, bits |-> bits, out |-> state.out]
    ELSE [buffer |-> buffer, bits |-> bits - 8,
          out |-> Append(state.out, ByteAt(buffer, bits - 8))]

Decode(text) == FoldLeft(DecodeCharacter, [buffer |-> 0, bits |-> 0, out |-> <<>>], text).out
===============================================================================
