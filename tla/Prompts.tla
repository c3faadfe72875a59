-------------------------------- MODULE Prompts --------------------------------
(***************************************************************************)
(* ConsoleIO::prompt_masked: a line typed key by key.                      *)
(***************************************************************************)
EXTENDS Integers, SequencesExt

\* Variant for mutation: a backspace takes the character of the next key.
MaskedKeyLate(answer, key) ==
    IF key # "backspace" THEN Append(answer, key)
    ELSE IF answer = <<>> THEN answer ELSE Tail(answer)

\* One round of the loop, until the key is Enter.  _getch gives every other key as one
\* character, or an arrow key as two, and all of them are taken.
MaskedKey(answer, key) ==
    IF key # "backspace" THEN Append(answer, key)
    ELSE IF answer = <<>> THEN answer ELSE Front(answer)

PromptMasked(keys) ==
    LET enter == SelectInSeq(keys, LAMBDA key : key = "enter") IN
    FoldLeft(MaskedKey, <<>>, SubSeq(keys, 1, (IF enter = 0 THEN Len(keys) + 1 ELSE enter) - 1))
===============================================================================
