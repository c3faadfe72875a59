------------------------------ MODULE CommandLine -----------------------------
(***************************************************************************)
(* How SystemGitProcess puts the arguments of a command into one line, and *)
(* how the C runtime of git takes the line apart again.                    *)
(***************************************************************************)
EXTENDS Characters

Space == "space"    \* or a tab

Repeat(c, n) == [i \in 1..n |-> c]

\* Variant for mutation: the backslashes before a quote are left as they are.
QuoteCharacterOnce(state, c) ==
    IF c = Backslash THEN [state EXCEPT !.backslashes = @ + 1]
    ELSE [out |-> state.out \o
              (IF c = Quote THEN Repeat(Backslash, state.backslashes + 1)
                            ELSE Repeat(Backslash, state.backslashes)) \o <<c>>,
          backslashes |-> 0]

\* One round of quote_argument's loop: backslashes are held back until it is known what
\* they stand before.
QuoteCharacter(state, c) ==
    IF c = Backslash THEN [state EXCEPT !.backslashes = @ + 1]
    ELSE [out |-> state.out \o
              (IF c = Quote THEN Repeat(Backslash, 2 * state.backslashes + 1)
                            ELSE Repeat(Backslash, state.backslashes)) \o <<c>>,
          backslashes |-> 0]

QuoteArgument(arg) ==
    IF arg # <<>> /\ ~Contains(arg, Space) /\ ~Contains(arg, Quote) THEN arg
    ELSE LET end == FoldLeft(QuoteCharacter, [out |-> <<Quote>>, backslashes |-> 0], arg) IN
         end.out \o Repeat(Backslash, 2 * end.backslashes) \o <<Quote>>

\* to_wide extends the sign of each byte: what is not ASCII becomes some other character.
ToWide(text) == [i \in DOMAIN text |-> IF text[i] = "umlaut" THEN "garbage" ELSE text[i]]

BuildCommandLine(executable_name, args) ==
    QuoteArgument(executable_name) \o
    FlattenSeq([i \in DOMAIN args |-> <<Space>> \o QuoteArgument(ToWide(args[i]))])

-------------------------------------------------------------------------------
(* The program that is started. *)

\* `where` is "between" two arguments, "bare" in an argument or "quoted" in the quotes of one.
Reading(argv, arg, backslashes, where) ==
    [argv |-> argv, arg |-> arg, backslashes |-> backslashes, where |-> where]

Between(argv) == Reading(argv, <<>>, 0, "between")

\* CommandLineToArgvW: 2n backslashes and a quote are n backslashes and the begin or end of
\* quoting, 2n + 1 and a quote are n and a quote, and others are themselves; a space that is
\* not quoted ends an argument.
ArgvCharacter(state, c) ==
    LET half == Repeat(Backslash, state.backslashes \div 2)
        all == Repeat(Backslash, state.backslashes)
        inside == IF state.where = "quoted" THEN "quoted" ELSE "bare" IN
    CASE c = Backslash ->
            Reading(state.argv, state.arg, state.backslashes + 1, inside)
      [] c = Quote /\ state.backslashes % 2 = 0 ->
            Reading(state.argv, state.arg \o half, 0,
                    IF inside = "quoted" THEN "bare" ELSE "quoted")
      [] c = Quote /\ state.backslashes % 2 = 1 ->
            Reading(state.argv, (state.arg \o half) \o <<Quote>>, 0, inside)
      [] c = Space /\ state.where = "between" -> state
      [] c = Space /\ state.where = "bare" -> Between(Append(state.argv, state.arg \o all))
      [] OTHER ->
            Reading(state.argv, (state.arg \o all) \o <<c>>, 0, inside)

Argv(line) == FoldLeft(ArgvCharacter, Between(<<>>), Append(line, Space)).argv
===============================================================================
