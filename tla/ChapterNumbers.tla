---------------------------- MODULE ChapterNumbers ----------------------------
(***************************************************************************)
(* Chapter numbers as text: the list that the writer types                 *)
(* (ReaderAccessController), and the names of the chapters' files, which   *)
(* the writer's program makes and the reader's program takes apart.        *)
(***************************************************************************)
EXTENDS Integers, SequencesExt

CONSTANTS
    IntMax,     \* the largest int; std::stoi throws beyond it
    None        \* no number

ASSUME IntMaxAssumption == IntMax \in Nat

ASSUME NoneAssumption == None \notin Nat

Digits == [zero |-> 0, one |-> 1, two |-> 2, nine |-> 9]

\* The parts between the separators; a text without one is a single part.
SplitCharacter(state, c) ==
    [state EXCEPT !.tokens =
        IF c = state.separator THEN Append(@, <<>>) ELSE Append(Front(@), Append(Last(@), c))]

Tokens(text, separator) ==
    FoldLeft(SplitCharacter, [separator |-> separator, tokens |-> << <<>> >>], text).tokens

IsAllDigits(text) == text # <<>> /\ \A i \in DOMAIN text : text[i] \in DOMAIN Digits

AddDigit(n, digit) == 10 * n + Digits[digit]

ValueOf(text) == FoldLeft(AddDigit, 0, text)

\* parse_chapter_number of a token.
ParseChapterNumber(token) ==
    IF IsAllDigits(token) /\ ValueOf(token) <= IntMax THEN ValueOf(token) ELSE None

\* Variant for mutation: a number that is there already is dropped.
InsertNumberAgain(result, token) ==
    LET n == ParseChapterNumber(token) IN
    CASE result.error # "none" -> result
      [] result.error = "none" /\ n = None -> [result EXCEPT !.error = "non_numeric"]
      [] OTHER -> [result EXCEPT !.chapters = @ \cup {n}]

\* One round of the loop of parse_chapter_list; the first error ends it.
InsertNumber(result, token) ==
    LET n == ParseChapterNumber(token) IN
    CASE result.error # "none" -> result
      [] result.error = "none" /\ n = None -> [result EXCEPT !.error = "non_numeric"]
      [] result.error = "none" /\ n \in result.chapters \ {None} ->
            [result EXCEPT !.error = "duplicate"]
      [] OTHER -> [result EXCEPT !.chapters = @ \cup {n}]

ParseChapterList(text) ==
    IF text = <<>> THEN [chapters |-> {}, error |-> "empty"]
    ELSE FoldLeft(InsertNumber, [chapters |-> {}, error |-> "none"], Tokens(text, "comma"))

\* What prompt_for_chapters takes for an answer; it asks again for any other.
Accepts(text, exactly_one) ==
    LET parsed == ParseChapterList(text) IN
    parsed.error = "none" /\ (exactly_one => Cardinality(parsed.chapters) = 1)

-------------------------------------------------------------------------------
(* File names: the prefix "chapter-", the middle, and the suffix ".enc". *)

\* Decimal digits of a number below a hundred, with `setw(2)`.
Padded(n) ==
    LET Digit(d) == CHOOSE name \in DOMAIN Digits : Digits[name] = d IN
    <<Digit(n \div 10), Digit(n % 10)>>

\* chapter_path, chapter_relative_path and file_path_for_chapter.
FileName(n) == <<"prefix">> \o Padded(n) \o <<"suffix">>

\* parse_chapter_number of a name in the listing.
ParseFileName(name) ==
    IF Len(name) > 2 /\ Head(name) = "prefix" /\ Last(name) = "suffix"
    THEN ParseChapterNumber(SubSeq(name, 2, Len(name) - 1)) ELSE None
===============================================================================
