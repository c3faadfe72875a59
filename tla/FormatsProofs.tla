----------------------------- MODULE FormatsProofs -----------------------------
(***************************************************************************)
(* Theorems about Formats: what the conversions do with texts of every     *)
(* length, of all characters that their formats may have.  The loops are   *)
(* folds, and Folding has what is true of every fold.  What concerns the   *)
(* chapter file is in ChapterFileProofs.                                   *)
(***************************************************************************)
EXTENDS Formats, SequenceTheorems, FiniteSetTheorems, TLAPS

Concat(s, t) == s \o t

Masking == INSTANCE Folding WITH Step <- MaskedKey
Quoting == INSTANCE Folding WITH Step <- QuoteCharacter
Runtime == INSTANCE Folding WITH Step <- ArgvCharacter
Splitting == INSTANCE Folding WITH Step <- SplitCharacter
Joining == INSTANCE Folding WITH Step <- Concat
Adding == INSTANCE Folding WITH Step <- AddDigit
Inserting == INSTANCE Folding WITH Step <- InsertNumber
Decoding == INSTANCE Folding WITH Step <- DecodeCharacter

-------------------------------------------------------------------------------
(* The texts. *)

Typing == format \in DOMAIN Alphabets /\ text \in Seq(Alphabets[format])

\* A text of a format has the characters of the format.
LEMMA TextIsOfFormat == Spec => []Typing
  <1>1. Init => Typing
    BY EmptySeq DEF Init, Typing
  <1>2. Typing /\ [Next]_vars => Typing'
    <2> SUFFICES ASSUME Typing, [Next]_vars PROVE Typing'
      OBVIOUS
    <2>1. CASE Next
      <3>1. PICK c \in Alphabets[format] : text' = Append(text, c)
        BY <2>1 DEF Next
      <3> QED
        BY <2>1, <3>1, AppendProperties DEF Next, Typing
    <2>2. CASE UNCHANGED vars
      BY <2>2 DEF vars, Typing
    <2> QED
      BY <2>1, <2>2
  <1> QED
    BY <1>1, <1>2, PTL DEF Spec

-------------------------------------------------------------------------------
(* Induction, as a fact about sets of numbers. *)

\* Every set of naturals that is not empty has a least element.
LEMMA LeastNatural ==
    ASSUME NEW T \in SUBSET Nat, T # {}
    PROVE  \E x \in T : \A y \in T : x <= y
  <1>1. IsWellFoundedOn(OpToRel(<, Nat), Nat)
    BY NatLessThanWellFounded
  <1>2. PICK x \in T : \A y \in T : <<y, x>> \notin OpToRel(<, Nat)
    BY <1>1, WFMin
  <1>3. x \in Nat /\ \A y \in T : y \in Nat
    OBVIOUS
  <1>4. \A y \in T : ~(y < x)
    BY <1>2, <1>3, Zenon DEF OpToRel
  <1> QED
    BY <1>4

\* A set of numbers that has 0, and with a number the next one, has all of them.
LEMMA SetInduction ==
    ASSUME NEW T \in SUBSET Nat, 0 \in T, \A n \in T : n + 1 \in T
    PROVE  T = Nat
  <1> SUFFICES ASSUME T # Nat PROVE FALSE
    OBVIOUS
  <1>1. PICK x \in Nat \ T : \A y \in Nat \ T : x <= y
    BY LeastNatural
  <1>2. x - 1 \in T
    BY <1>1
  <1> QED
    BY <1>1, <1>2

\* The community modules' Max of some of the positions.
LEMMA GreatestOfSome ==
    ASSUME NEW m \in Nat, NEW T \in SUBSET (0..m), T # {}
    PROVE  Max(T) \in T /\ \A y \in T : y <= Max(T)
  <1> DEFINE U == {n \in Nat : \E y \in T : y = m - n}
  <1>1. PICK z \in T : TRUE
    OBVIOUS
  <1>2. m - z \in U
    BY <1>1
  <1>3. PICK x \in U : \A y \in U : x <= y
    BY <1>2, LeastNatural
  <1>4. m - x \in T
    BY <1>3
  <1>5. \A y \in T : m - y \in U
    OBVIOUS
  <1>6. \A y \in T : x <= m - y
    BY <1>3, <1>5
  <1>7. \A y \in T : m - x >= y
    BY <1>3, <1>6
  <1> QED
    BY <1>4, <1>7 DEF Max

\* A set of sequences that has the empty one, and with a sequence all that are longer by one.
LEMMA SeqInduction ==
    ASSUME NEW V, NEW T \in SUBSET Seq(V), <<>> \in T,
           \A s \in T : \A c \in V : Append(s, c) \in T
    PROVE  T = Seq(V)
  <1> DEFINE N == {n \in Nat : \A s \in Seq(V) : Len(s) = n => s \in T}
  <1>1. 0 \in N
    BY EmptySeq
  <1>2. ASSUME NEW n \in N PROVE n + 1 \in N
    <2> SUFFICES ASSUME NEW s \in Seq(V), Len(s) = n + 1 PROVE s \in T
      OBVIOUS
    <2>1. s # <<>>
      BY EmptySeq
    <2>2. PICK r \in Seq(V), c \in V : s = Append(r, c)
      BY <2>1, SequenceEmptyOrAppend
    <2>3. Len(r) = n
      BY <2>2, AppendProperties, LenProperties
    <2> QED
      BY <2>2, <2>3
  <1>3. N = Nat
    <2>1. N \in SUBSET Nat
      OBVIOUS
    <2> HIDE DEF N
    <2> QED
      BY <1>1, <1>2, <2>1, SetInduction
  <1> QED
    BY <1>3, LenProperties

\* The same from the other end, for what is built back to front.
LEMMA SeqInductionFirst ==
    ASSUME NEW V, NEW T \in SUBSET Seq(V), <<>> \in T,
           \A s \in T : \A c \in V : <<c>> \o s \in T
    PROVE  T = Seq(V)
  <1> DEFINE N == {n \in Nat : \A s \in Seq(V) : Len(s) = n => s \in T}
  <1>1. 0 \in N
    BY EmptySeq
  <1>2. ASSUME NEW n \in N PROVE n + 1 \in N
    <2> SUFFICES ASSUME NEW s \in Seq(V), Len(s) = n + 1 PROVE s \in T
      OBVIOUS
    <2>1. s # <<>>
      BY EmptySeq
    <2>2. Head(s) \in V /\ Tail(s) \in Seq(V) /\ Len(Tail(s)) = n
      BY <2>1, HeadTailProperties
    <2>3. s = <<Head(s)>> \o Tail(s)
      BY <2>1
    <2> QED
      BY <2>2, <2>3
  <1>3. N = Nat
    <2>1. N \in SUBSET Nat
      OBVIOUS
    <2> HIDE DEF N
    <2> QED
      BY <1>1, <1>2, <2>1, SetInduction
  <1> QED
    BY <1>3, LenProperties

\* Folding's hypothesis, for each of the loops.
LEMMA NaturalInduction ==
    /\ Masking!Induction /\ Quoting!Induction /\ Runtime!Induction /\ Splitting!Induction
    /\ Joining!Induction /\ Adding!Induction /\ Inserting!Induction
    /\ Decoding!Induction
  <1>1. \A T \in SUBSET Nat : 0 \in T /\ (\A n \in T : n + 1 \in T) => T = Nat
    BY SetInduction
  <1> QED
    BY <1>1, Zenon
        DEF Masking!Induction, Quoting!Induction, Runtime!Induction, Splitting!Induction,
            Joining!Induction, Adding!Induction, Inserting!Induction,
            Decoding!Induction

-------------------------------------------------------------------------------
(* FlattenSeq, and the parts between separators. *)

\* FlattenSeq is a loop like the others.
LEMMA FlattenIsFold ==
    ASSUME NEW V, NEW ss \in Seq(Seq(V))
    PROVE  FlattenSeq(ss) = Joining!Fold(<<>>, ss)
  <1>1. Len(ss) \in Nat
    BY LenProperties
  <1>2. CASE Len(ss) = 0
    <2>1. ss = <<>>
      BY <1>2, EmptySeq
    <2> QED
      BY <1>2, <2>1, NaturalInduction, Joining!FoldEmpty DEF FlattenSeq
  <1>3. CASE Len(ss) # 0
    <2> DEFINE IsFlatten(f) == f = [i \in 1..Len(ss) |->
                                       IF i = 1 THEN ss[i] ELSE f[i - 1] \o ss[i]]
    <2>1. FlattenSeq(ss) = (CHOOSE f : IsFlatten(f))[Len(ss)]
      BY <1>3 DEF FlattenSeq
    <2>2. PICK h : Joining!IsRun(h, <<>>, ss)
      BY NaturalInduction, Joining!FoldHasRun
    <2>3. h[0] = <<>> /\ \A i \in 1..Len(ss) : h[i] = h[i - 1] \o ss[i]
      BY <2>2 DEF Joining!IsRun, Concat
    <2>4. IsFlatten([i \in 1..Len(ss) |-> h[i]])
      <3>1. ASSUME NEW i \in 1..Len(ss)
            PROVE  h[i] = IF i = 1 THEN ss[i] ELSE h[i - 1] \o ss[i]
        <4>1. ss[i] \in Seq(V)
          BY ElementOfSeq
        <4>2. <<>> \o ss[i] = ss[i]
          BY <4>1, ConcatEmptySeq
        <4>3. CASE i = 1
          <5>1. h[i] = h[i - 1] \o ss[i]
            BY <2>3, Zenon
          <5>2. i - 1 = 0
            BY <4>3
          <5>3. h[i] = <<>> \o ss[i]
            BY <2>3, <5>1, <5>2, Zenon
          <5> QED
            BY <4>2, <4>3, <5>3, Zenon
        <4>4. CASE i # 1
          BY <2>3, <4>4
        <4> QED
          BY <4>3, <4>4
      <3>2. \A i \in 1..Len(ss) : i # 1 => i - 1 \in 1..Len(ss)
        OBVIOUS
      <3> QED
        BY <3>1, <3>2
    <2>5. PICK f : IsFlatten(f) /\ FlattenSeq(ss) = f[Len(ss)]
      BY <2>1, <2>4
    <2> DEFINE k == [i \in 0..Len(ss) |-> IF i = 0 THEN <<>> ELSE f[i]]
    <2>6. \A i \in 1..Len(ss) : f[i] = IF i = 1 THEN ss[i] ELSE f[i - 1] \o ss[i]
      BY <2>5
    <2>7. ASSUME NEW i \in 1..Len(ss) PROVE k[i] = k[i - 1] \o ss[i]
      <3>1. ss[i] \in Seq(V)
        BY ElementOfSeq
      <3>2. <<>> \o ss[i] = ss[i]
        BY <3>1, ConcatEmptySeq
      <3>3. CASE i = 1
        <4>1. k[i] = ss[i] /\ k[i - 1] = <<>>
          BY <2>6, <3>3
        <4> QED
          BY <3>2, <4>1, Zenon
      <3>4. CASE i # 1
        <4>1. k[i] = f[i] /\ k[i - 1] = f[i - 1]
          BY <3>4
        <4> HIDE DEF k
        <4> QED
          BY <2>6, <3>4, <4>1
      <3> QED
        BY <3>3, <3>4
    <2>8. Joining!IsRun(k, <<>>, ss)
      <3>1. k[0] = <<>>
        BY <1>1
      <3> HIDE DEF k
      <3> QED
        BY <2>7, <3>1, Zenon DEF Joining!IsRun, Concat
    <2>9. k[Len(ss)] = f[Len(ss)]
      BY <1>1, <1>3
    <2> HIDE DEF k
    <2> QED
      BY <2>5, <2>8, <2>9, NaturalInduction, Joining!RunIsFold
  <1> QED
    BY <1>2, <1>3

\* What a loop that builds a text by appending parts has after each part.
LEMMA FlattenProperties ==
    ASSUME NEW V, NEW ss \in Seq(Seq(V)), NEW s \in Seq(V)
    PROVE  /\ FlattenSeq(ss) \in Seq(V)
           /\ FlattenSeq(<<>>) = <<>>
           /\ FlattenSeq(Append(ss, s)) = FlattenSeq(ss) \o s
           /\ FlattenSeq(<<s>>) = s
  <1>1. <<>> \in Seq(Seq(V)) /\ Append(ss, s) \in Seq(Seq(V)) /\ <<s>> \in Seq(Seq(V))
    BY EmptySeq, AppendProperties
  <1>2. \A a \in Seq(V), b \in Seq(V) : Concat(a, b) \in Seq(V)
    BY ConcatProperties DEF Concat
  <1>3. FlattenSeq(ss) \in Seq(V)
    <2>1. <<>> \in Seq(V)
      BY EmptySeq
    <2>2. Joining!Fold(<<>>, ss) \in Seq(V)
      BY <1>2, <2>1, NaturalInduction, Joining!FoldType
    <2> QED
      BY <2>2, FlattenIsFold
  <1>4. FlattenSeq(<<>>) = <<>>
    BY <1>1, FlattenIsFold, NaturalInduction, Joining!FoldEmpty
  <1>5. FlattenSeq(Append(ss, s)) = FlattenSeq(ss) \o s
    <2>1. Joining!Fold(<<>>, Append(ss, s)) = Concat(Joining!Fold(<<>>, ss), s)
      BY NaturalInduction, Joining!FoldAppend
    <2>2. /\ FlattenSeq(Append(ss, s)) = Joining!Fold(<<>>, Append(ss, s))
          /\ FlattenSeq(ss) = Joining!Fold(<<>>, ss)
      BY <1>1, FlattenIsFold
    <2> QED
      BY <2>1, <2>2 DEF Concat
  <1>6. FlattenSeq(<<s>>) = s
    BY <1>1, FlattenIsFold, NaturalInduction, Joining!FoldOne, ConcatEmptySeq DEF Concat
  <1> QED
    BY <1>3, <1>4, <1>5, <1>6

\* FlattenSeq of two sequences put together.
LEMMA FlattenConcat ==
    ASSUME NEW V, NEW ss \in Seq(Seq(V)), NEW tt \in Seq(Seq(V))
    PROVE  FlattenSeq(ss \o tt) = FlattenSeq(ss) \o FlattenSeq(tt)
  <1> DEFINE T == {t \in Seq(Seq(V)) :
                      FlattenSeq(ss \o t) = FlattenSeq(ss) \o FlattenSeq(t)}
  <1>1. <<>> \in T
    <2>1. <<>> \in Seq(V) /\ <<>> \in Seq(Seq(V))
      BY EmptySeq
    <2> QED
      BY <2>1, ConcatEmptySeq, FlattenProperties
  <1>2. ASSUME NEW t \in T, NEW s \in Seq(V) PROVE Append(t, s) \in T
    <2>1. /\ ss \o Append(t, s) = Append(ss \o t, s)
          /\ ss \o t \in Seq(Seq(V)) /\ Append(t, s) \in Seq(Seq(V))
      BY ConcatProperties, AppendProperties
    <2>2. /\ FlattenSeq(Append(ss \o t, s)) = FlattenSeq(ss \o t) \o s
          /\ FlattenSeq(Append(t, s)) = FlattenSeq(t) \o s
      BY <2>1, FlattenProperties
    <2>3. FlattenSeq(ss) \in Seq(V) /\ FlattenSeq(t) \in Seq(V)
      BY FlattenProperties
    <2> HIDE DEF T
    <2>4. (FlattenSeq(ss) \o FlattenSeq(t)) \o s = FlattenSeq(ss) \o (FlattenSeq(t) \o s)
      BY <2>3, ConcatAssociative
    <2> USE DEF T
    <2> QED
      BY <2>1, <2>2, <2>4
  <1>3. T = Seq(Seq(V))
    <2>1. T \in SUBSET Seq(Seq(V))
      OBVIOUS
    <2> HIDE DEF T
    <2> QED
      BY <1>1, <1>2, <2>1, SeqInduction
  <1> QED
    BY <1>3

SplitState(separator, tokens) == [separator |-> separator, tokens |-> tokens]

SplitTokens(separator, tokens, c) ==
    IF c = separator THEN Append(tokens, <<>>)
    ELSE Append(Front(tokens), Append(Last(tokens), c))

\* One round of the loop of split.
LEMMA SplitStep ==
    ASSUME NEW separator, NEW tokens, NEW c
    PROVE  SplitCharacter(SplitState(separator, tokens), c) =
               SplitState(separator, SplitTokens(separator, tokens, c))
  <1> DEFINE state == SplitState(separator, tokens)
  <1>1. state.separator = separator /\ state.tokens = tokens
    BY DEF SplitState
  <1>2. SplitCharacter(state, c) =
            [state EXCEPT !.tokens = SplitTokens(separator, tokens, c)]
    BY <1>1, Zenon DEF SplitCharacter, SplitTokens
  <1>3. [state EXCEPT !.tokens = SplitTokens(separator, tokens, c)] =
            SplitState(separator, SplitTokens(separator, tokens, c))
    BY DEF SplitState
  <1> QED
    BY <1>2, <1>3, Zenon

\* Tokens is what the loop of split ends with, and there is always a part.
LEMMA TokensAreFold ==
    ASSUME NEW separator, NEW V, NEW s \in Seq(V)
    PROVE  \E tokens \in Seq(Seq(V)) :
               /\ tokens # <<>>
               /\ Splitting!Fold(SplitState(separator, << <<>> >>), s) =
                      SplitState(separator, tokens)
               /\ Tokens(s, separator) = tokens
  <1> DEFINE base == SplitState(separator, << <<>> >>)
             S == {SplitState(separator, tokens) : tokens \in Seq(Seq(V)) \ {<<>>}}
  <1>1. base \in S
    <2>1. << <<>> >> \in Seq(Seq(V)) \ {<<>>}
      BY EmptySeq
    <2> QED
      BY <2>1
  <1>2. ASSUME NEW state \in S, NEW c \in V PROVE SplitCharacter(state, c) \in S
    <2>1. PICK tokens \in Seq(Seq(V)) \ {<<>>} : state = SplitState(separator, tokens)
      OBVIOUS
    <2> DEFINE next == SplitTokens(separator, tokens, c)
    <2>2. SplitCharacter(state, c) = SplitState(separator, next)
      BY <2>1, SplitStep
    <2>3. next \in Seq(Seq(V)) \ {<<>>}
      <3> HIDE DEF S, base
      <3>1. Len(tokens) \in Nat \ {0} /\ tokens[Len(tokens)] \in Seq(V)
        BY EmptySeq, ElementOfSeq, LenProperties
      <3>2. \A i \in 1 .. Len(tokens) - 1 : tokens[i] \in Seq(V)
        BY <3>1, ElementOfSeq
      <3>3. Front(tokens) \in Seq(Seq(V)) /\ Last(tokens) \in Seq(V)
        BY <3>1, <3>2, SubSeqProperties DEF Front, Last
      <3>4. <<>> \in Seq(V) /\ Append(Last(tokens), c) \in Seq(V)
        BY <3>3, AppendProperties, EmptySeq
      <3>5. \A ss \in Seq(Seq(V)), r \in Seq(V) :
                Append(ss, r) \in Seq(Seq(V)) \ {<<>>}
        BY AppendProperties
      <3>6. /\ Append(tokens, <<>>) \in Seq(Seq(V)) \ {<<>>}
            /\ Append(Front(tokens), Append(Last(tokens), c)) \in Seq(Seq(V)) \ {<<>>}
        BY <3>3, <3>4, <3>5, Zenon
      <3> QED
        BY <3>6, Zenon DEF SplitTokens
    <2> QED
      BY <2>2, <2>3
  <1>3. Splitting!Fold(base, s) \in S
    <2> HIDE DEF S, base
    <2> QED
      BY <1>1, <1>2, NaturalInduction, Splitting!FoldType
  <1>4. Tokens(s, separator) = Splitting!Fold(base, s).tokens
    BY DEF Tokens, SplitState, Splitting!Fold, FoldLeft, MapThenFoldSet, Max, Splitting!Greatest
  <1>5. PICK tokens \in Seq(Seq(V)) \ {<<>>} :
            Splitting!Fold(base, s) = SplitState(separator, tokens)
    BY <1>3
  <1>6. Tokens(s, separator) = tokens
    BY <1>4, <1>5 DEF SplitState
  <1> QED
    BY <1>5, <1>6

\* There is one part at least, and each character goes to the last one or begins a new one.
LEMMA TokensProperties ==
    ASSUME NEW separator, NEW V, NEW s \in Seq(V), NEW c \in V
    PROVE  /\ Tokens(s, separator) \in Seq(Seq(V)) \ {<<>>}
           /\ Tokens(<<>>, separator) = << <<>> >>
           /\ Tokens(Append(s, c), separator) =
                  SplitTokens(separator, Tokens(s, separator), c)
  <1> DEFINE base == SplitState(separator, << <<>> >>)
  <1>1. Tokens(s, separator) \in Seq(Seq(V)) \ {<<>>}
    BY TokensAreFold
  <1>2. Tokens(<<>>, separator) = << <<>> >>
    <2>1. <<>> \in Seq(V)
      BY EmptySeq
    <2>2. Splitting!Fold(base, <<>>) = SplitState(separator, Tokens(<<>>, separator))
      BY <2>1, TokensAreFold
    <2>3. Splitting!Fold(base, <<>>) = base
      BY NaturalInduction, Splitting!FoldEmpty
    <2> QED
      BY <2>2, <2>3 DEF SplitState
  <1>3. Splitting!Fold(base, s) = SplitState(separator, Tokens(s, separator))
    BY TokensAreFold
  <1>4. Splitting!Fold(base, Append(s, c)) =
            SplitState(separator, Tokens(Append(s, c), separator))
    <2>1. Append(s, c) \in Seq(V)
      BY AppendProperties
    <2> QED
      BY <2>1, TokensAreFold
  <1>5. Splitting!Fold(base, Append(s, c)) = SplitCharacter(Splitting!Fold(base, s), c)
    BY NaturalInduction, Splitting!FoldAppend
  <1>6. SplitState(separator, Tokens(Append(s, c), separator)) =
            SplitState(separator, SplitTokens(separator, Tokens(s, separator), c))
    BY <1>3, <1>4, <1>5, SplitStep
  <1>7. Tokens(Append(s, c), separator) = SplitTokens(separator, Tokens(s, separator), c)
    BY <1>6 DEF SplitState
  <1> QED
    BY <1>1, <1>2, <1>7, Zenon

-------------------------------------------------------------------------------
(* ArgumentsArrive: the runtime undoes what quote_argument does. *)

Held(n) == Repeat(Backslash, n)

\* The characters of a command line with these in its arguments.
OnLine(V) == V \cup {Quote, Backslash, Space}

\* Backslashes that are held back.
LEMMA HeldProperties ==
    ASSUME NEW V, NEW n \in Nat
    PROVE  /\ Held(n) \in Seq(OnLine(V)) /\ Len(Held(n)) = n
           /\ Held(0) = <<>>
           /\ Held(n + 1) = Append(Held(n), Backslash)
  <1>1. Held(n) \in [1..n -> OnLine(V)] /\ Held(n + 1) \in [1 .. n + 1 -> OnLine(V)]
    BY DEF Held, Repeat, OnLine
  <1>2. Held(n) \in Seq(OnLine(V)) /\ Len(Held(n)) = n
    BY <1>1
  <1>3. Held(n + 1) \in Seq(OnLine(V)) /\ Len(Held(n + 1)) = n + 1
    BY <1>1
  <1>4. Held(0) = <<>>
    BY DEF Held, Repeat
  <1>5. Backslash \in OnLine(V)
    BY DEF OnLine
  <1>6. /\ Append(Held(n), Backslash) \in Seq(OnLine(V))
        /\ Len(Append(Held(n), Backslash)) = n + 1
        /\ \A i \in 1..n : Append(Held(n), Backslash)[i] = Held(n)[i]
        /\ Append(Held(n), Backslash)[n + 1] = Backslash
    BY <1>2, <1>5, AppendProperties
  <1>7. \A i \in 1 .. n + 1 : Held(n + 1)[i] = Backslash
    BY DEF Held, Repeat
  <1>8. \A i \in 1..n : Held(n)[i] = Backslash
    BY DEF Held, Repeat
  <1>9. \A i \in 1 .. n + 1 : Held(n + 1)[i] = Append(Held(n), Backslash)[i]
    BY <1>6, <1>7, <1>8
  <1>10. Held(n + 1) = Append(Held(n), Backslash)
    BY <1>3, <1>6, <1>9, SeqEqual
  <1> QED
    BY <1>2, <1>4, <1>10

\* The fields of the runtime's state.
LEMMA ReadingFields ==
    ASSUME NEW argv, NEW arg, NEW n, NEW where
    PROVE  /\ Reading(argv, arg, n, where).argv = argv
           /\ Reading(argv, arg, n, where).arg = arg
           /\ Reading(argv, arg, n, where).backslashes = n
           /\ Reading(argv, arg, n, where).where = where
  BY DEF Reading

\* The three signs of a command line are different ones.
LEMMA Signs ==
    /\ Backslash # Quote /\ Quote # Backslash /\ Backslash # Space
    /\ Space # Backslash /\ Quote # Space /\ Space # Quote
  BY DEF Backslash, Quote, Space

\* What the runtime does with a character of an argument.
LEMMA ReadBackslash ==
    ASSUME NEW argv, NEW arg, NEW n \in Nat, NEW where \in {"bare", "quoted"}
    PROVE  ArgvCharacter(Reading(argv, arg, n, where), Backslash) =
               Reading(argv, arg, n + 1, where)
  <1> DEFINE state == Reading(argv, arg, n, where)
  <1>1. state.argv = argv /\ state.arg = arg /\ state.backslashes = n /\ state.where = where
    BY ReadingFields
  <1>2. (IF where = "quoted" THEN "quoted" ELSE "bare") = where
    OBVIOUS
  <1> HIDE DEF state
  <1>3. ArgvCharacter(state, Backslash) = Reading(argv, arg, n + 1, where)
    BY <1>1, <1>2, Signs, Zenon DEF ArgvCharacter
  <1> QED
    BY <1>3 DEF state

\* The runtime at a quote behind an even and behind an odd number of backslashes.
LEMMA ReadQuote ==
    ASSUME NEW argv, NEW arg, NEW n \in Nat, NEW where \in {"bare", "quoted"}
    PROVE  /\ ArgvCharacter(Reading(argv, arg, 2 * n, where), Quote) =
                  Reading(argv, arg \o Held(n), 0,
                            IF where = "quoted" THEN "bare" ELSE "quoted")
           /\ ArgvCharacter(Reading(argv, arg, 2 * n + 1, where), Quote) =
                  Reading(argv, (arg \o Held(n)) \o <<Quote>>, 0, where)
  <1>1. (2 * n) % 2 = 0 /\ (2 * n) \div 2 = n /\ (2 * n + 1) % 2 = 1 /\ (2 * n + 1) \div 2 = n
    OBVIOUS
  <1>2. 0 # 1 /\ (IF where = "quoted" THEN "quoted" ELSE "bare") = where
    OBVIOUS
  <1>3. ASSUME NEW m, m % 2 = 0, m \div 2 = n
        PROVE  ArgvCharacter(Reading(argv, arg, m, where), Quote) =
                   Reading(argv, arg \o Held(n), 0,
                             IF where = "quoted" THEN "bare" ELSE "quoted")
    <2> DEFINE state == Reading(argv, arg, m, where)
    <2>1. /\ state.argv = argv /\ state.arg = arg /\ state.backslashes = m
          /\ state.where = where
      BY ReadingFields
    <2> HIDE DEF state
    <2>2. ArgvCharacter(state, Quote) =
              Reading(argv, arg \o Held(n), 0,
                        IF where = "quoted" THEN "bare" ELSE "quoted")
      BY <1>2, <1>3, <2>1, Signs, Zenon DEF ArgvCharacter, Held
    <2> QED
      BY <2>2 DEF state
  <1>4. ASSUME NEW m, m % 2 = 1, m \div 2 = n
        PROVE  ArgvCharacter(Reading(argv, arg, m, where), Quote) =
                   Reading(argv, (arg \o Held(n)) \o <<Quote>>, 0, where)
    <2> DEFINE state == Reading(argv, arg, m, where)
    <2>1. /\ state.argv = argv /\ state.arg = arg /\ state.backslashes = m
          /\ state.where = where
      BY ReadingFields
    <2> HIDE DEF state
    <2>2. ArgvCharacter(state, Quote) =
              Reading(argv, (arg \o Held(n)) \o <<Quote>>, 0, where)
      BY <1>2, <1>4, <2>1, Signs, Zenon DEF ArgvCharacter, Held
    <2> QED
      BY <2>2 DEF state
  <1> QED
    BY <1>1, <1>3, <1>4

\* The runtime at a character that ends a row of backslashes and nothing else.
LEMMA ReadOther ==
    ASSUME NEW argv, NEW arg, NEW n \in Nat, NEW where \in {"bare", "quoted"}, NEW c,
           c # Backslash, c # Quote, c = Space => where = "quoted"
    PROVE  ArgvCharacter(Reading(argv, arg, n, where), c) =
               Reading(argv, (arg \o Held(n)) \o <<c>>, 0, where)
  <1> DEFINE state == Reading(argv, arg, n, where)
  <1>1. state.argv = argv /\ state.arg = arg /\ state.backslashes = n /\ state.where = where
    BY ReadingFields
  <1>2. /\ (IF where = "quoted" THEN "quoted" ELSE "bare") = where
        /\ where # "between"
        /\ c = Space => where # "bare"
    OBVIOUS
  <1> HIDE DEF state
  <1>3. ArgvCharacter(state, c) = Reading(argv, (arg \o Held(n)) \o <<c>>, 0, where)
    BY <1>1, <1>2, Zenon DEF ArgvCharacter, Held
  <1> QED
    BY <1>3 DEF state

\* The runtime at a space outside of quotes.
LEMMA ReadSpace ==
    ASSUME NEW argv, NEW arg, NEW n \in Nat
    PROVE  ArgvCharacter(Reading(argv, arg, n, "bare"), Space) =
               Between(Append(argv, arg \o Held(n)))
  <1> DEFINE state == Reading(argv, arg, n, "bare")
  <1>1. /\ state.argv = argv /\ state.arg = arg /\ state.backslashes = n
        /\ state.where = "bare"
    BY ReadingFields
  <1>2. "bare" # "between"
    OBVIOUS
  <1> HIDE DEF state
  <1>3. ArgvCharacter(state, Space) = Between(Append(argv, arg \o Held(n)))
    BY <1>1, <1>2, Signs, Zenon DEF ArgvCharacter, Held
  <1> QED
    BY <1>3 DEF state

\* Behind an argument the next one begins as if it were there already.
LEMMA ReadFirst ==
    ASSUME NEW argv, NEW c, c # Space
    PROVE  ArgvCharacter(Between(argv), c) =
               ArgvCharacter(Reading(argv, <<>>, 0, "bare"), c)
  <1> DEFINE state == Reading(argv, <<>>, 0, "bare")
             between == Between(argv)
  <1>1. /\ state.argv = between.argv /\ state.arg = between.arg
        /\ state.backslashes = between.backslashes
        /\ state.where # "quoted" /\ between.where # "quoted"
    BY DEF Reading, Between
  <1>2. state.backslashes % 2 = 0 /\ 0 # 1
    BY DEF Reading
  <1> HIDE DEF state, between
  <1>3. CASE c = Backslash
    BY <1>1, <1>3, Signs, Zenon DEF ArgvCharacter, state, between
  <1>4. CASE c = Quote
    BY <1>1, <1>2, <1>4, Signs, Zenon DEF ArgvCharacter, state, between
  <1>5. CASE c # Backslash /\ c # Quote
    BY <1>1, <1>5, Zenon DEF ArgvCharacter, state, between
  <1> QED
    BY <1>3, <1>4, <1>5

\* A sequence and one more element, in both forms.
LEMMA OneMore ==
    ASSUME NEW V, NEW s \in Seq(V), NEW c \in V
    PROVE  s \o <<c>> = Append(s, c)
  BY AppendProperties, ConcatProperties

\* ConcatAssociative, in the form that the proofs below need.
LEMMA Reassociated ==
    ASSUME NEW S
    PROVE  \A x, y, z \in Seq(S) : (x \o y) \o z = x \o (y \o z)
  BY ConcatAssociative

\* Backslashes behind a text.
LEMMA HeldConcat ==
    ASSUME NEW V, NEW n \in Nat, NEW a \in Seq(OnLine(V)), NEW c \in OnLine(V)
    PROVE  /\ a \o Held(n) \in Seq(OnLine(V)) /\ a \o Held(0) = a
           /\ a \o Held(n + 1) = Append(a \o Held(n), Backslash)
           /\ (a \o Held(n)) \o <<c>> = Append(a \o Held(n), c)
           /\ Append(a \o Held(n), c) \in Seq(OnLine(V))
  <1>1. /\ Held(n) \in Seq(OnLine(V)) /\ Held(0) = <<>>
        /\ Held(n + 1) = Append(Held(n), Backslash)
    BY HeldProperties
  <1>2. Backslash \in OnLine(V)
    BY DEF OnLine
  <1>3. \A t \in Seq(OnLine(V)), d \in OnLine(V) :
            /\ a \o t \in Seq(OnLine(V)) /\ Append(t, d) \in Seq(OnLine(V))
            /\ a \o Append(t, d) = Append(a \o t, d)
            /\ t \o <<d>> = Append(t, d)
    BY ConcatProperties, AppendProperties
  <1>4. a \o <<>> = a
    BY ConcatEmptySeq
  <1> QED
    BY <1>1, <1>2, <1>3, <1>4, Zenon

\* Backslashes wait for what they stand before.
LEMMA ReadHeld ==
    ASSUME NEW argv, NEW arg, NEW m \in Nat, NEW where \in {"bare", "quoted"}
    PROVE  Runtime!Fold(Reading(argv, arg, 0, where), Held(m)) =
               Reading(argv, arg, m, where)
  <1> DEFINE base == Reading(argv, arg, 0, where)
             T == {n \in Nat : Runtime!Fold(base, Held(n)) = Reading(argv, arg, n, where)}
  <1>1. 0 \in T
    BY HeldProperties, NaturalInduction, Runtime!FoldEmpty
  <1>2. ASSUME NEW n \in T PROVE n + 1 \in T
    <2>1. /\ Held(n) \in Seq(OnLine({})) /\ Backslash \in OnLine({})
          /\ Held(n + 1) = Append(Held(n), Backslash)
      BY HeldProperties DEF OnLine
    <2>2. Runtime!Fold(base, Held(n + 1)) =
              ArgvCharacter(Runtime!Fold(base, Held(n)), Backslash)
      <3> HIDE DEF base
      <3> QED
        BY <2>1, NaturalInduction, Runtime!FoldAppend
    <2>3. Runtime!Fold(base, Held(n)) = Reading(argv, arg, n, where)
      OBVIOUS
    <2>4. Runtime!Fold(base, Held(n + 1)) = Reading(argv, arg, n + 1, where)
      BY <2>2, <2>3, ReadBackslash
    <2> QED
      BY <2>4
  <1>3. T = Nat
    <2>1. T \in SUBSET Nat
      OBVIOUS
    <2> HIDE DEF T
    <2> QED
      BY <1>1, <1>2, <2>1, SetInduction
  <1> QED
    BY <1>3

\* The runtime in an argument of which it has all of s.
IsRead(V, state, argv, s, where) ==
    \E a \in Seq(OnLine(V)), n \in Nat :
        state = Reading(argv, a, n, where) /\ a \o Held(n) = s

\* Without a space and a quote every character is itself.
LEMMA ReadPlain ==
    ASSUME NEW V, NEW argv, NEW arg \in Seq(V \ {Space, Quote})
    PROVE  IsRead(V, Runtime!Fold(Reading(argv, <<>>, 0, "bare"), arg), argv, arg, "bare")
  <1> DEFINE U == V \ {Space, Quote}
             base == Reading(argv, <<>>, 0, "bare")
             T == {s \in Seq(U) : IsRead(V, Runtime!Fold(base, s), argv, s, "bare")}
  <1>1. <<>> \in T
    <2>1. <<>> \in Seq(OnLine(V)) /\ <<>> \in Seq(U)
      BY EmptySeq
    <2>2. <<>> \o Held(0) = <<>>
      BY <2>1, HeldProperties, ConcatEmptySeq
    <2>3. Runtime!Fold(base, <<>>) = base
      BY NaturalInduction, Runtime!FoldEmpty
    <2> QED
      BY <2>1, <2>2, <2>3 DEF IsRead
  <1>2. ASSUME NEW s \in T, NEW c \in U PROVE Append(s, c) \in T
    <2>1. PICK a \in Seq(OnLine(V)), n \in Nat :
              Runtime!Fold(base, s) = Reading(argv, a, n, "bare") /\ a \o Held(n) = s
      BY DEF IsRead
    <2>2. Runtime!Fold(base, Append(s, c)) = ArgvCharacter(Runtime!Fold(base, s), c)
      <3> HIDE DEF base
      <3> QED
        BY NaturalInduction, Runtime!FoldAppend
    <2>3. Append(s, c) \in Seq(U)
      <3> HIDE DEF U
      <3> QED
        BY AppendProperties
    <2>4. c \in OnLine(V) /\ c # Quote /\ c # Space
      BY DEF OnLine
    <2> HIDE DEF T, U, base
    <2>5. /\ a \o Held(n + 1) = Append(a \o Held(n), Backslash)
          /\ (a \o Held(n)) \o <<c>> = Append(a \o Held(n), c)
          /\ Append(a \o Held(n), c) \in Seq(OnLine(V))
      <3>1. a \o Held(n + 1) = Append(a \o Held(n), Backslash)
        BY <2>4, HeldConcat
      <3>4. a \o Held(n) \in Seq(OnLine(V))
        BY <2>4, HeldConcat
      <3>2. (a \o Held(n)) \o <<c>> = Append(a \o Held(n), c)
        BY <2>4, <3>4, OneMore, Zenon
      <3>3. Append(a \o Held(n), c) \in Seq(OnLine(V))
        BY <2>4, HeldConcat
      <3> QED
        BY <3>1, <3>2, <3>3, Zenon
    <2>6. CASE c = Backslash
      <3>1. Runtime!Fold(base, Append(s, c)) = Reading(argv, a, n + 1, "bare")
        BY <2>1, <2>2, <2>6, ReadBackslash
      <3>2. n + 1 \in Nat
        OBVIOUS
      <3>3. a \o Held(n + 1) = Append(s, c)
        BY <2>1, <2>5, <2>6, Zenon
      <3> QED
        BY <2>3, <3>1, <3>2, <3>3, Zenon DEF IsRead, T
    <2>7. CASE c # Backslash
      <3>4. 0 \in Nat
        OBVIOUS
      <3>1. ArgvCharacter(Reading(argv, a, n, "bare"), c) =
                Reading(argv, (a \o Held(n)) \o <<c>>, 0, "bare")
        BY <2>4, <2>7, ReadOther
      <3>2. Runtime!Fold(base, Append(s, c)) = Reading(argv, Append(s, c), 0, "bare")
        BY <2>1, <2>2, <2>5, <3>1, Zenon
      <3>3. Append(s, c) \in Seq(OnLine(V))
        BY <2>1, <2>5, Zenon
      <3>5. Append(s, c) \o Held(0) = Append(s, c)
        BY <2>4, <3>3, <3>4, HeldConcat, Zenon
      <3> QED
        BY <2>3, <3>2, <3>3, <3>4, <3>5, Zenon DEF IsRead, T
    <2> QED
      BY <2>6, <2>7
  <1>3. T = Seq(U)
    <2>1. T \in SUBSET Seq(U)
      OBVIOUS
    <2> HIDE DEF T, U
    <2> QED
      BY <1>1, <1>2, <2>1, SeqInduction
  <1> QED
    BY <1>3

QuoteState(out, backslashes) == [out |-> out, backslashes |-> backslashes]

\* One round of the loop of quote_argument.
LEMMA QuoteStep ==
    ASSUME NEW out, NEW n \in Nat, NEW c
    PROVE  QuoteCharacter(QuoteState(out, n), c) =
               IF c = Backslash THEN QuoteState(out, n + 1)
               ELSE IF c = Quote THEN QuoteState((out \o Held(2 * n + 1)) \o <<c>>, 0)
               ELSE QuoteState((out \o Held(n)) \o <<c>>, 0)
  <1> DEFINE state == QuoteState(out, n)
  <1>1. state.out = out /\ state.backslashes = n
    BY DEF QuoteState
  <1>2. \A m : [state EXCEPT !.backslashes = m] = QuoteState(out, m)
    BY DEF QuoteState
  <1> HIDE DEF state
  <1>3. CASE c = Backslash
    BY <1>1, <1>2, <1>3, Zenon DEF QuoteCharacter, state
  <1>4. CASE c = Quote
    BY <1>1, <1>4, Signs, Zenon DEF QuoteCharacter, state, QuoteState, Held
  <1>5. CASE c # Backslash /\ c # Quote
    BY <1>1, <1>5, Zenon DEF QuoteCharacter, state, QuoteState, Held
  <1> QED
    BY <1>3, <1>4, <1>5, Signs, Zenon

\* The runtime reads on: backslashes, and what they stand before.
LEMMA ReadOn ==
    ASSUME NEW V, NEW base, NEW out \in Seq(OnLine(V)), NEW m \in Nat, NEW c \in OnLine(V),
           NEW argv, NEW a, NEW where \in {"bare", "quoted"},
           Runtime!Fold(base, out) = Reading(argv, a, 0, where)
    PROVE  /\ (out \o Held(m)) \o <<c>> \in Seq(OnLine(V))
           /\ Runtime!Fold(base, (out \o Held(m)) \o <<c>>) =
                  ArgvCharacter(Reading(argv, a, m, where), c)
  <1>1. Held(m) \in Seq(OnLine(V))
    BY HeldProperties
  <1>2. out \o Held(m) \in Seq(OnLine(V)) /\ <<c>> \in Seq(OnLine(V))
    BY <1>1, ConcatProperties
  <1>3. (out \o Held(m)) \o <<c>> \in Seq(OnLine(V))
    BY <1>2, ConcatProperties
  <1>4. Runtime!Fold(base, out \o Held(m)) = Runtime!Fold(Runtime!Fold(base, out), Held(m))
    BY <1>1, NaturalInduction, Runtime!FoldConcat
  <1>5. Runtime!Fold(base, (out \o Held(m)) \o <<c>>) =
            Runtime!Fold(Runtime!Fold(base, out \o Held(m)), <<c>>)
    BY <1>2, NaturalInduction, Runtime!FoldConcat
  <1>6. Runtime!Fold(base, out \o Held(m)) = Reading(argv, a, m, where)
    BY <1>4, ReadHeld
  <1>7. Runtime!Fold(base, (out \o Held(m)) \o <<c>>) =
            ArgvCharacter(Reading(argv, a, m, where), c)
    BY <1>5, <1>6, NaturalInduction, Runtime!FoldOne, Zenon
  <1> QED
    BY <1>3, <1>7, Zenon

\* What quote_argument has written of an argument is read back, but for the backslashes that
\* it holds back.
IsQuoted(V, state, argv, s) ==
    \E out \in Seq(OnLine(V)), n \in Nat, a \in Seq(OnLine(V)) :
        /\ state = QuoteState(out, n)
        /\ Runtime!Fold(Between(argv), out) = Reading(argv, a, 0, "quoted")
        /\ a \o Held(n) = s

\* Behind every prefix of an argument, what was written is read as that prefix.
LEMMA ReadQuoted ==
    ASSUME NEW V, NEW argv, NEW arg \in Seq(V)
    PROVE  IsQuoted(V, Quoting!Fold(QuoteState(<<Quote>>, 0), arg), argv, arg)
  <1> DEFINE base == QuoteState(<<Quote>>, 0)
             T == {s \in Seq(V) : IsQuoted(V, Quoting!Fold(base, s), argv, s)}
  <1>1. <<>> \in T
    <2>1. <<>> \in Seq(OnLine(V)) /\ <<>> \in Seq(V)
      BY EmptySeq
    <2>2. <<>> \o Held(0) = <<>>
      BY <2>1, HeldProperties, ConcatEmptySeq
    <2>3. Quoting!Fold(base, <<>>) = base
      BY NaturalInduction, Quoting!FoldEmpty
    <2>4. <<Quote>> \in Seq(OnLine(V))
      BY DEF OnLine
    <2>5. Runtime!Fold(Between(argv), <<Quote>>) =
              ArgvCharacter(Reading(argv, <<>>, 2 * 0, "bare"), Quote)
      <3>1. 2 * 0 = 0
        OBVIOUS
      <3> QED
        BY <3>1, ReadFirst, Signs, NaturalInduction, Runtime!FoldOne
    <2>6. ArgvCharacter(Reading(argv, <<>>, 2 * 0, "bare"), Quote) =
              Reading(argv, <<>> \o Held(0), 0, "quoted")
      <3>1. 0 \in Nat /\ "bare" # "quoted"
        OBVIOUS
      <3> QED
        BY <3>1, ReadQuote
    <2>7. Runtime!Fold(Between(argv), <<Quote>>) = Reading(argv, <<>>, 0, "quoted")
      BY <2>2, <2>5, <2>6, Zenon
    <2>8. 0 \in Nat
      OBVIOUS
    <2> QED
      BY <2>1, <2>2, <2>3, <2>4, <2>7, <2>8, Zenon DEF IsQuoted
  <1>2. ASSUME NEW s \in T, NEW c \in V PROVE Append(s, c) \in T
    <2>1. PICK out \in Seq(OnLine(V)), n \in Nat, a \in Seq(OnLine(V)) :
              /\ Quoting!Fold(base, s) = QuoteState(out, n)
              /\ Runtime!Fold(Between(argv), out) = Reading(argv, a, 0, "quoted")
              /\ a \o Held(n) = s
      BY DEF IsQuoted
    <2>2. Quoting!Fold(base, Append(s, c)) = QuoteCharacter(QuoteState(out, n), c)
      <3>1. Quoting!Fold(base, Append(s, c)) = QuoteCharacter(Quoting!Fold(base, s), c)
        <4> HIDE DEF base
        <4> QED
          BY NaturalInduction, Quoting!FoldAppend
      <3> QED
        BY <2>1, <3>1, Zenon
    <2>3. Append(s, c) \in Seq(V)
      BY AppendProperties
    <2>4. c \in OnLine(V)
      BY DEF OnLine
    <2> HIDE DEF T, base
    <2>5. 0 \in Nat /\ n + 1 \in Nat /\ 2 * n + 1 \in Nat
      OBVIOUS
    <2>6. a \o Held(n) \in Seq(OnLine(V))
      BY <2>4, HeldConcat
    <2>7. (a \o Held(n)) \o <<c>> = Append(s, c)
      BY <2>1, <2>4, <2>6, OneMore, Zenon
    <2>8. Append(s, c) \in Seq(OnLine(V))
      <3>1. Append(a \o Held(n), c) \in Seq(OnLine(V))
        BY <2>4, HeldConcat
      <3> QED
        BY <2>1, <3>1, Zenon
    <2>9. Append(s, c) \o Held(0) = Append(s, c)
      BY <2>4, <2>5, <2>8, HeldConcat, Zenon
    <2>10. CASE c = Backslash
      <3>1. Quoting!Fold(base, Append(s, c)) = QuoteState(out, n + 1)
        BY <2>2, <2>10, QuoteStep, Zenon
      <3>2. a \o Held(n + 1) = Append(a \o Held(n), Backslash)
        BY <2>4, HeldConcat
      <3>3. a \o Held(n + 1) = Append(s, c)
        BY <2>1, <2>10, <3>2, Zenon
      <3> QED
        BY <2>1, <2>3, <2>5, <3>1, <3>3, Zenon DEF IsQuoted, T
    <2>11. CASE c = Quote
      <3> DEFINE next == (out \o Held(2 * n + 1)) \o <<c>>
      <3>1. Quoting!Fold(base, Append(s, c)) = QuoteState(next, 0)
        BY <2>2, <2>11, QuoteStep, Signs, Zenon
      <3>2. /\ next \in Seq(OnLine(V))
            /\ Runtime!Fold(Between(argv), next) =
                   ArgvCharacter(Reading(argv, a, 2 * n + 1, "quoted"), c)
        BY <2>1, <2>4, <2>5, ReadOn
      <3>3. ArgvCharacter(Reading(argv, a, 2 * n + 1, "quoted"), c) =
                Reading(argv, (a \o Held(n)) \o <<c>>, 0, "quoted")
        BY <2>11, ReadQuote
      <3>4. Runtime!Fold(Between(argv), next) =
                Reading(argv, Append(s, c), 0, "quoted")
        BY <2>7, <3>2, <3>3, Zenon
      <3> HIDE DEF next
      <3> QED
        BY <2>3, <2>5, <2>8, <2>9, <3>1, <3>2, <3>4, Zenon DEF IsQuoted, T
    <2>12. CASE c # Backslash /\ c # Quote
      <3> DEFINE next == (out \o Held(n)) \o <<c>>
      <3>1. Quoting!Fold(base, Append(s, c)) = QuoteState(next, 0)
        BY <2>2, <2>12, QuoteStep, Zenon
      <3>2. /\ next \in Seq(OnLine(V))
            /\ Runtime!Fold(Between(argv), next) =
                   ArgvCharacter(Reading(argv, a, n, "quoted"), c)
        BY <2>1, <2>4, ReadOn
      <3>3. ArgvCharacter(Reading(argv, a, n, "quoted"), c) =
                Reading(argv, (a \o Held(n)) \o <<c>>, 0, "quoted")
        BY <2>12, ReadOther
      <3>4. Runtime!Fold(Between(argv), next) =
                Reading(argv, Append(s, c), 0, "quoted")
        BY <2>7, <3>2, <3>3, Zenon
      <3> HIDE DEF next
      <3> QED
        BY <2>3, <2>5, <2>8, <2>9, <3>1, <3>2, <3>4, Zenon DEF IsQuoted, T
    <2> QED
      BY <2>10, <2>11, <2>12
  <1>3. T = Seq(V)
    <2>1. T \in SUBSET Seq(V)
      OBVIOUS
    <2> HIDE DEF T
    <2> QED
      BY <1>1, <1>2, <2>1, SeqInduction
  <1> QED
    BY <1>3

\* An argument on the line and a space behind it are the next argument.
LEMMA ReadArgument ==
    ASSUME NEW V, NEW argv, NEW arg \in Seq(V)
    PROVE  /\ QuoteArgument(arg) \in Seq(OnLine(V))
           /\ Runtime!Fold(Between(argv), QuoteArgument(arg) \o <<Space>>) =
                  Between(Append(argv, arg))
  <1>1. ASSUME NEW line \in Seq(OnLine(V)), NEW a, NEW n \in Nat,
               Runtime!Fold(Between(argv), line) = Reading(argv, a, n, "bare"),
               a \o Held(n) = arg
        PROVE  Runtime!Fold(Between(argv), line \o <<Space>>) = Between(Append(argv, arg))
    <2>1. <<Space>> \in Seq(OnLine(V))
      BY DEF OnLine
    <2>2. Runtime!Fold(Between(argv), line \o <<Space>>) =
              Runtime!Fold(Runtime!Fold(Between(argv), line), <<Space>>)
      BY <2>1, NaturalInduction, Runtime!FoldConcat
    <2>3. Runtime!Fold(Reading(argv, a, n, "bare"), <<Space>>) =
              ArgvCharacter(Reading(argv, a, n, "bare"), Space)
      BY NaturalInduction, Runtime!FoldOne
    <2>4. ArgvCharacter(Reading(argv, a, n, "bare"), Space) =
              Between(Append(argv, a \o Held(n)))
      BY ReadSpace
    <2> QED
      BY <1>1, <2>2, <2>3, <2>4, Zenon
  <1> DEFINE plain == arg # <<>> /\ ~Contains(arg, Space) /\ ~Contains(arg, Quote)
  <1>2. CASE plain
    <2>1. QuoteArgument(arg) = arg
      BY <1>2 DEF QuoteArgument
    <2>2. arg \in Seq(V \ {Space, Quote})
      <3>1. \A i \in 1..Len(arg) : arg[i] \in V \ {Space, Quote}
        BY <1>2, ElementOfSeq DEF Contains
      <3>2. Len(arg) \in Nat /\ arg = [i \in 1..Len(arg) |-> arg[i]]
        BY LenProperties
      <3> QED
        BY <3>1, <3>2
    <2>3. arg \in Seq(OnLine(V))
      <3>1. \A i \in 1..Len(arg) : arg[i] \in OnLine(V)
        BY ElementOfSeq DEF OnLine
      <3>2. Len(arg) \in Nat /\ arg = [i \in 1..Len(arg) |-> arg[i]]
        BY LenProperties
      <3> QED
        BY <3>1, <3>2
    <2>4. Runtime!Fold(Between(argv), arg) =
              Runtime!Fold(Reading(argv, <<>>, 0, "bare"), arg)
      <3> DEFINE U == V \ {Space, Quote}
      <3>1. /\ Head(arg) \in U /\ Tail(arg) \in Seq(U)
            /\ arg = <<Head(arg)>> \o Tail(arg)
            /\ <<Head(arg)>> \in Seq(U)
        <4> HIDE DEF U
        <4>1. arg \in Seq(U) /\ arg # <<>>
          BY <1>2, <2>2 DEF U
        <4>2. Head(arg) \in U /\ Tail(arg) \in Seq(U)
          BY <4>1, HeadTailProperties
        <4>3. arg = <<Head(arg)>> \o Tail(arg)
          BY <4>1
        <4> QED
          BY <4>2, <4>3
      <3>2. Head(arg) # Space
        BY <3>1
      <3> HIDE DEF U
      <3>3. \A base : Runtime!Fold(base, <<Head(arg)>> \o Tail(arg)) =
                          Runtime!Fold(ArgvCharacter(base, Head(arg)), Tail(arg))
        <4> TAKE base
        <4>1. Runtime!Fold(base, <<Head(arg)>> \o Tail(arg)) =
                  Runtime!Fold(Runtime!Fold(base, <<Head(arg)>>), Tail(arg))
          BY <3>1, NaturalInduction, Runtime!FoldConcat
        <4> QED
          BY <4>1, NaturalInduction, Runtime!FoldOne, Zenon
      <3>4. ArgvCharacter(Between(argv), Head(arg)) =
                ArgvCharacter(Reading(argv, <<>>, 0, "bare"), Head(arg))
        BY <3>2, ReadFirst
      <3> QED
        BY <3>1, <3>3, <3>4, Zenon
    <2>5. IsRead(V, Runtime!Fold(Between(argv), arg), argv, arg, "bare")
      BY <2>2, <2>4, ReadPlain
    <2>6. PICK a \in Seq(OnLine(V)), n \in Nat :
              /\ Runtime!Fold(Between(argv), arg) = Reading(argv, a, n, "bare")
              /\ a \o Held(n) = arg
      BY <2>5 DEF IsRead
    <2>7. Runtime!Fold(Between(argv), arg \o <<Space>>) = Between(Append(argv, arg))
      BY <1>1, <2>3, <2>6
    <2> QED
      BY <2>1, <2>3, <2>7, Zenon
  <1>3. CASE ~plain
    <2> DEFINE end == Quoting!Fold(QuoteState(<<Quote>>, 0), arg)
    <2>1. FoldLeft(QuoteCharacter, QuoteState(<<Quote>>, 0), arg) = end
      BY DEF Quoting!Fold, FoldLeft, MapThenFoldSet, Max, Quoting!Greatest
    <2>2. QuoteArgument(arg) = (end.out \o Held(2 * end.backslashes)) \o <<Quote>>
      <3> HIDE DEF end
      <3> QED
        BY <1>3, <2>1, Zenon DEF QuoteArgument, QuoteState, Held
    <2>3. PICK out \in Seq(OnLine(V)), n \in Nat, a \in Seq(OnLine(V)) :
              /\ end = QuoteState(out, n)
              /\ Runtime!Fold(Between(argv), out) = Reading(argv, a, 0, "quoted")
              /\ a \o Held(n) = arg
      <3>1. IsQuoted(V, end, argv, arg)
        BY ReadQuoted
      <3> HIDE DEF end
      <3> QED
        BY <3>1, Zenon DEF IsQuoted
    <2> HIDE DEF end
    <2>4. end.out = out /\ end.backslashes = n
      BY <2>3 DEF QuoteState
    <2>5. QuoteArgument(arg) = (out \o Held(2 * n)) \o <<Quote>>
      BY <2>2, <2>4, Zenon
    <2>6. 2 * n \in Nat /\ Quote \in OnLine(V) /\ 0 \in Nat
      BY DEF OnLine
    <2>7. /\ (out \o Held(2 * n)) \o <<Quote>> \in Seq(OnLine(V))
          /\ Runtime!Fold(Between(argv), (out \o Held(2 * n)) \o <<Quote>>) =
                 ArgvCharacter(Reading(argv, a, 2 * n, "quoted"), Quote)
      BY <2>3, <2>6, ReadOn
    <2>8. ArgvCharacter(Reading(argv, a, 2 * n, "quoted"), Quote) =
              Reading(argv, a \o Held(n), 0, "bare")
      BY ReadQuote
    <2>9. Runtime!Fold(Between(argv), QuoteArgument(arg)) =
              Reading(argv, arg, 0, "bare")
      BY <2>3, <2>5, <2>7, <2>8, Zenon
    <2>10. arg \o Held(0) = arg
      BY HeldProperties, ConcatEmptySeq
    <2>11. QuoteArgument(arg) \in Seq(OnLine(V))
      BY <2>5, <2>7, Zenon
    <2>12. Runtime!Fold(Between(argv), QuoteArgument(arg) \o <<Space>>) =
               Between(Append(argv, arg))
      BY <1>1, <2>6, <2>9, <2>10, <2>11, Zenon
    <2> QED
      BY <2>11, <2>12, Zenon
  <1> QED
    BY <1>2, <1>3

\* The line of a command, as the runtime sees it with a space behind it.
Line(executable_name, ws) ==
    QuoteArgument(executable_name) \o
    FlattenSeq([i \in DOMAIN ws |-> <<Space>> \o QuoteArgument(ws[i])])

\* The runtime takes a whole command line apart into the words it was built of.
LEMMA ReadLine ==
    ASSUME NEW V, NEW name \in Seq(V), NEW words \in Seq(Seq(V))
    PROVE  /\ Line(name, words) \in Seq(OnLine(V))
           /\ Runtime!Fold(Between(<<>>), Line(name, words) \o <<Space>>) =
                  Between(<<name>> \o words)
  <1> DEFINE Word(w) == <<Space>> \o QuoteArgument(w)
             Words(ws) == [i \in DOMAIN ws |-> Word(ws[i])]
             T == {ws \in Seq(Seq(V)) :
                      /\ Line(name, ws) \in Seq(OnLine(V))
                      /\ Runtime!Fold(Between(<<>>), Line(name, ws) \o <<Space>>) =
                             Between(<<name>> \o ws)}
  <1>1. \A w \in Seq(V) : QuoteArgument(w) \in Seq(OnLine(V))
    BY ReadArgument
  <1>2. <<Space>> \in Seq(OnLine(V))
    BY DEF OnLine
  <1>3. \A w \in Seq(V) : Word(w) \in Seq(OnLine(V))
    BY <1>1, <1>2, ConcatProperties
  <1>4. \A ws \in Seq(Seq(V)) : Words(ws) \in Seq(Seq(OnLine(V)))
    <2> SUFFICES ASSUME NEW ws \in Seq(Seq(V))
                 PROVE  Words(ws) \in Seq(Seq(OnLine(V)))
      OBVIOUS
    <2>1. Len(ws) \in Nat /\ DOMAIN ws = 1..Len(ws)
      BY LenProperties
    <2>2. \A i \in 1..Len(ws) : Word(ws[i]) \in Seq(OnLine(V))
      BY <1>3, ElementOfSeq
    <2> HIDE DEF Word
    <2> QED
      BY <2>1, <2>2
  <1>5. \A ws : Line(name, ws) = QuoteArgument(name) \o FlattenSeq(Words(ws))
    BY DEF Line
  <1>6. <<>> \in T
    <2>1. <<>> \in Seq(Seq(V)) /\ <<>> \in Seq(Seq(OnLine(V))) /\ <<>> \in Seq(OnLine(V))
      BY EmptySeq
    <2>2. Words(<<>>) = <<>>
      OBVIOUS
    <2>3. FlattenSeq(<<>>) = <<>>
      BY <2>1, FlattenProperties
    <2>4. QuoteArgument(name) \in Seq(OnLine(V))
      BY <1>1
    <2>5. Line(name, <<>>) = QuoteArgument(name)
      <3>1. QuoteArgument(name) \o <<>> = QuoteArgument(name)
        BY <2>4, ConcatEmptySeq
      <3> HIDE DEF Words
      <3> QED
        BY <1>5, <2>2, <2>3, <3>1, Zenon
    <2>6. Runtime!Fold(Between(<<>>), QuoteArgument(name) \o <<Space>>) =
              Between(Append(<<>>, name))
      BY ReadArgument
    <2>7. Append(<<>>, name) = <<name>>
      OBVIOUS
    <2>8. <<name>> \o <<>> = <<name>>
      <3>1. <<name>> \in Seq(Seq(V))
        OBVIOUS
      <3> QED
        BY <3>1, ConcatEmptySeq
    <2>9. Runtime!Fold(Between(<<>>), Line(name, <<>>) \o <<Space>>) =
              Between(<<name>> \o <<>>)
      BY <2>5, <2>6, <2>7, <2>8, Zenon
    <2>10. Line(name, <<>>) \in Seq(OnLine(V))
      BY <2>4, <2>5, Zenon
    <2> QED
      BY <2>1, <2>9, <2>10, Zenon
  <1>7. ASSUME NEW ws \in T, NEW w \in Seq(V) PROVE Append(ws, w) \in T
    <2>1. /\ ws \in Seq(Seq(V)) /\ Line(name, ws) \in Seq(OnLine(V))
          /\ Runtime!Fold(Between(<<>>), Line(name, ws) \o <<Space>>) =
                 Between(<<name>> \o ws)
      OBVIOUS
    <2>2. Append(ws, w) \in Seq(Seq(V))
      BY <2>1, AppendProperties
    <2>3. Words(Append(ws, w)) = Append(Words(ws), Word(w))
      <3>1. /\ Len(ws) \in Nat /\ DOMAIN ws = 1..Len(ws)
            /\ DOMAIN Append(ws, w) = 1 .. Len(ws) + 1
            /\ \A i \in 1..Len(ws) : Append(ws, w)[i] = ws[i]
            /\ Append(ws, w)[Len(ws) + 1] = w
        BY <2>1, AppendProperties, LenProperties
      <3>2. Words(ws) \in Seq(Seq(OnLine(V))) /\ Word(w) \in Seq(OnLine(V))
        BY <1>3, <1>4, <2>1
      <3>3. Len(Words(ws)) = Len(ws) /\ Len(Words(Append(ws, w))) = Len(ws) + 1
        BY <3>1
      <3>4. /\ Append(Words(ws), Word(w)) \in Seq(Seq(OnLine(V)))
            /\ Len(Append(Words(ws), Word(w))) = Len(ws) + 1
            /\ \A i \in 1..Len(ws) : Append(Words(ws), Word(w))[i] = Words(ws)[i]
            /\ Append(Words(ws), Word(w))[Len(ws) + 1] = Word(w)
        <4> HIDE DEF Words, Word
        <4> QED
          BY <3>2, <3>3, AppendProperties
      <3>5. /\ \A i \in 1..Len(ws) : Words(Append(ws, w))[i] = Words(ws)[i]
            /\ Words(Append(ws, w))[Len(ws) + 1] = Word(w)
        <4> HIDE DEF Word
        <4> QED
          BY <3>1
      <3>6. Words(Append(ws, w)) \in Seq(Seq(OnLine(V)))
        BY <1>4, <2>2
      <3> HIDE DEF Words, Word
      <3>7. \A i \in 1 .. Len(ws) + 1 :
                Words(Append(ws, w))[i] = Append(Words(ws), Word(w))[i]
        BY <3>1, <3>4, <3>5
      <3> QED
        BY <3>3, <3>4, <3>6, <3>7, SeqEqual
    <2>4. /\ QuoteArgument(name) \in Seq(OnLine(V)) /\ Word(w) \in Seq(OnLine(V))
          /\ Words(ws) \in Seq(Seq(OnLine(V))) /\ QuoteArgument(w) \in Seq(OnLine(V))
      BY <1>1, <1>3, <1>4, <2>1
    <2>5. FlattenSeq(Words(ws)) \in Seq(OnLine(V))
      <3> HIDE DEF Words
      <3> QED
        BY <2>4, FlattenProperties
    <2>6. FlattenSeq(Append(Words(ws), Word(w))) = FlattenSeq(Words(ws)) \o Word(w)
      <3> HIDE DEF Words, Word
      <3> QED
        BY <2>4, FlattenProperties
    <2>7. Line(name, Append(ws, w)) = Line(name, ws) \o Word(w)
      <3> HIDE DEF Words, Word, T
      <3>1. QuoteArgument(name) \o (FlattenSeq(Words(ws)) \o Word(w)) =
                (QuoteArgument(name) \o FlattenSeq(Words(ws))) \o Word(w)
        <4>1. \A x, y, z \in Seq(OnLine(V)) : (x \o y) \o z = x \o (y \o z)
          BY Reassociated, SMTT(30)
        <4> QED
          BY <2>4, <2>5, <4>1, Zenon
      <3> QED
        BY <1>5, <2>3, <2>6, <3>1, Zenon
    <2>8. Line(name, Append(ws, w)) \in Seq(OnLine(V))
      <3> HIDE DEF Word
      <3>1. Line(name, ws) \o Word(w) \in Seq(OnLine(V))
        BY <2>1, <2>4, ConcatProperties
      <3> QED
        BY <2>7, <3>1, Zenon
    <2> DEFINE rest == QuoteArgument(w) \o <<Space>>
    <2>9. rest \in Seq(OnLine(V)) /\ Line(name, ws) \o <<Space>> \in Seq(OnLine(V))
      BY <1>2, <2>1, <2>4, ConcatProperties
    <2>10. Line(name, Append(ws, w)) \o <<Space>> = (Line(name, ws) \o <<Space>>) \o rest
      <3>1. Word(w) \o <<Space>> = <<Space>> \o rest
        BY <1>2, <2>4, ConcatAssociative
      <3>2. (Line(name, ws) \o Word(w)) \o <<Space>> =
                Line(name, ws) \o (Word(w) \o <<Space>>)
        <4> HIDE DEF Word
        <4> QED
          BY <1>2, <2>1, <2>4, ConcatAssociative, SMTT(20)
      <3> HIDE DEF Word, rest
      <3>3. (Line(name, ws) \o <<Space>>) \o rest =
                Line(name, ws) \o (<<Space>> \o rest)
        BY <1>2, <2>1, <2>9, ConcatAssociative
      <3> QED
        BY <2>7, <3>1, <3>2, <3>3, Zenon
    <2>11. Runtime!Fold(Between(<<>>), (Line(name, ws) \o <<Space>>) \o rest) =
               Runtime!Fold(Runtime!Fold(Between(<<>>), Line(name, ws) \o <<Space>>),
                            rest)
      <3> HIDE DEF rest
      <3> QED
        BY <2>9, NaturalInduction, Runtime!FoldConcat
    <2>12. Runtime!Fold(Between(<<name>> \o ws), rest) =
               Between(Append(<<name>> \o ws, w))
      BY ReadArgument
    <2>13. Append(<<name>> \o ws, w) = <<name>> \o Append(ws, w)
      BY <2>1, AppendProperties, ConcatProperties
    <2> HIDE DEF rest, Word, Words, T
    <2>14. Runtime!Fold(Between(<<>>), Line(name, Append(ws, w)) \o <<Space>>) =
               Between(<<name>> \o Append(ws, w))
      BY <2>1, <2>10, <2>11, <2>12, <2>13, Zenon
    <2> QED
      BY <2>2, <2>8, <2>14, Zenon DEF T
  <1>8. T = Seq(Seq(V))
    <2>1. T \in SUBSET Seq(Seq(V))
      OBVIOUS
    <2> HIDE DEF T
    <2> QED
      BY <1>6, <1>7, <2>1, SeqInduction
  <1> QED
    BY <1>8

\* Git gets the arguments that it was given, of every length and with every character.
THEOREM ArgumentsArriveCorrect == Spec => []ArgumentsArrive
  <1>1. Typing => ArgumentsArrive
    <2> SUFFICES ASSUME Typing, format = "arguments" PROVE ArgumentsArrive
      BY DEF ArgumentsArrive
    <2> DEFINE V == Alphabets[format] \cup {"garbage", "git"}
               args == Tokens(text, "separator")
               words == [i \in DOMAIN args |-> ToWide(args[i])]
               line == BuildCommandLine(<<"git">>, args)
    <2>1. args \in Seq(Seq(Alphabets[format]))
      <3>1. text \in Seq(Alphabets[format])
        BY DEF Typing
      <3> QED
        BY <3>1, TokensAreFold
    <2>2. \A s \in Seq(Alphabets[format]) : ToWide(s) \in Seq(V)
      <3> SUFFICES ASSUME NEW s \in Seq(Alphabets[format]) PROVE ToWide(s) \in Seq(V)
        OBVIOUS
      <3>1. Len(s) \in Nat /\ DOMAIN s = 1..Len(s)
        BY LenProperties
      <3>2. \A i \in 1..Len(s) : s[i] \in Alphabets[format]
        BY ElementOfSeq
      <3>3. \A i \in 1..Len(s) :
                (IF s[i] = "umlaut" THEN "garbage" ELSE s[i]) \in V
        BY <3>2
      <3> HIDE DEF V
      <3> QED
        BY <3>1, <3>3 DEF ToWide
    <2>3. words \in Seq(Seq(V))
      <3> HIDE DEF args
      <3>1. Len(args) \in Nat /\ DOMAIN args = 1..Len(args)
        BY <2>1, LenProperties
      <3>2. \A i \in 1..Len(args) : ToWide(args[i]) \in Seq(V)
        BY <2>1, <2>2, ElementOfSeq
      <3> HIDE DEF V
      <3> QED
        BY <3>1, <3>2
    <2>4. <<"git">> \in Seq(V)
      OBVIOUS
    <2> HIDE DEF V
    <2>5. line = Line(<<"git">>, words)
      <3>1. /\ DOMAIN words = DOMAIN args
            /\ \A i \in DOMAIN args : words[i] = ToWide(args[i])
        OBVIOUS
      <3> HIDE DEF args, words
      <3>2. [i \in DOMAIN args |-> <<Space>> \o QuoteArgument(ToWide(args[i]))] =
                [i \in DOMAIN words |-> <<Space>> \o QuoteArgument(words[i])]
        BY <3>1, Zenon
      <3>3. \A ss : FlattenSeq(ss) = FlattenSeq(ss)
        BY DEF FlattenSeq, FlattenSeq
      <3> QED
        BY <3>2, <3>3, Zenon DEF BuildCommandLine, Line
    <2> HIDE DEF words, line
    <2>6. /\ Line(<<"git">>, words) \in Seq(OnLine(V))
          /\ Runtime!Fold(Between(<<>>), Line(<<"git">>, words) \o <<Space>>) =
                 Between(<< <<"git">> >> \o words)
      BY <2>3, <2>4, ReadLine
    <2>7. line \o <<Space>> = Append(line, Space)
      <3>1. Space \in OnLine(V)
        BY DEF OnLine
      <3> QED
        BY <2>5, <2>6, <3>1, OneMore, Zenon
    <2>8. \A s : FoldLeft(ArgvCharacter, Between(<<>>), s) =
                     Runtime!Fold(Between(<<>>), s)
      BY DEF Runtime!Fold, FoldLeft, MapThenFoldSet, Max, Runtime!Greatest
    <2>9. Argv(line) = Between(<< <<"git">> >> \o words).argv
      BY <2>5, <2>6, <2>7, <2>8, Zenon DEF Argv
    <2>10. \A argv : Between(argv).argv = argv
      BY DEF Between, Reading
    <2>11. Argv(line) = << <<"git">> >> \o words
      BY <2>9, <2>10, Zenon
    <2> USE DEF words, line
    <2> QED
      BY <2>11, Zenon DEF ArgumentsArrive
  <1> QED
    BY <1>1, TextIsOfFormat, PTL

-------------------------------------------------------------------------------
(* PasswordIsWhatWasMeant: what is kept of a line is a stack. *)

Balance(line, i, j) ==
    Cardinality({k \in i..j : line[k] # "backspace"}) -
    Cardinality({k \in i..j : line[k] = "backspace"})

Kept(line) ==
    {i \in DOMAIN line : /\ line[i] # "backspace"
                         /\ \A j \in i .. Len(line) : Balance(line, i, j) > 0}

\* Positions are finitely many.
LEMMA PartsOfInterval ==
    ASSUME NEW i \in Int, NEW j \in Int, NEW T \in SUBSET (i..j)
    PROVE  IsFiniteSet(T) /\ Cardinality(T) \in Nat
  <1>1. IsFiniteSet(i..j)
    BY FS_Interval
  <1>2. IsFiniteSet(T)
    BY <1>1, FS_Subset
  <1> QED
    BY <1>2, FS_CardinalityType

\* A balance is a number.
LEMMA BalanceType ==
    ASSUME NEW line, NEW i \in Int, NEW j \in Int
    PROVE  Balance(line, i, j) \in Int
  <1> DEFINE up == {k \in i..j : line[k] # "backspace"}
             down == {k \in i..j : line[k] = "backspace"}
  <1>1. up \in SUBSET (i..j) /\ down \in SUBSET (i..j)
    OBVIOUS
  <1> HIDE DEF up, down
  <1>2. Cardinality(up) \in Nat /\ Cardinality(down) \in Nat
    BY <1>1, PartsOfInterval
  <1>3. Cardinality(up) - Cardinality(down) \in Int
    BY <1>2
  <1> QED
    BY <1>3 DEF Balance, up, down

\* A key counts in every balance that ends with it.
LEMMA BalanceNext ==
    ASSUME NEW line, NEW i \in Int, NEW j \in Int, i <= j + 1
    PROVE  Balance(line, i, j + 1) =
               Balance(line, i, j) + (IF line[j + 1] = "backspace" THEN -1 ELSE 1)
  <1> DEFINE Up(m) == {k \in i..m : line[k] # "backspace"}
             Down(m) == {k \in i..m : line[k] = "backspace"}
  <1>1. Up(j) \in SUBSET (i..j) /\ Down(j) \in SUBSET (i..j)
    OBVIOUS
  <1>2. /\ j + 1 \notin Up(j) /\ j + 1 \notin Down(j)
    BY <1>1
  <1>3. i .. j + 1 = (i..j) \cup {j + 1}
    OBVIOUS
  <1>4. CASE line[j + 1] = "backspace"
    <2>1. Up(j + 1) = Up(j) /\ Down(j + 1) = Down(j) \cup {j + 1}
      BY <1>3, <1>4
    <2> HIDE DEF Up, Down
    <2>2. /\ IsFiniteSet(Down(j)) /\ Cardinality(Down(j)) \in Nat
          /\ Cardinality(Up(j)) \in Nat
      BY <1>1, PartsOfInterval
    <2>3. Cardinality(Down(j + 1)) = Cardinality(Down(j)) + 1
      BY <1>2, <2>1, <2>2, FS_AddElement
    <2>4. Cardinality(Up(j + 1)) - Cardinality(Down(j + 1)) =
              (Cardinality(Up(j)) - Cardinality(Down(j))) + (-1)
      BY <2>1, <2>2, <2>3
    <2> QED
      BY <1>4, <2>4 DEF Balance, Up, Down
  <1>5. CASE line[j + 1] # "backspace"
    <2>1. Down(j + 1) = Down(j) /\ Up(j + 1) = Up(j) \cup {j + 1}
      BY <1>3, <1>5
    <2> HIDE DEF Up, Down
    <2>2. /\ IsFiniteSet(Up(j)) /\ Cardinality(Down(j)) \in Nat
          /\ Cardinality(Up(j)) \in Nat
      BY <1>1, PartsOfInterval
    <2>3. Cardinality(Up(j + 1)) = Cardinality(Up(j)) + 1
      BY <1>2, <2>1, <2>2, FS_AddElement
    <2>4. Cardinality(Up(j + 1)) - Cardinality(Down(j + 1)) =
              (Cardinality(Up(j)) - Cardinality(Down(j))) + 1
      BY <2>1, <2>2, <2>3
    <2> QED
      BY <1>5, <2>4 DEF Balance, Up, Down
  <1> QED
    BY <1>4, <1>5

\* The balances of what has been typed stay as they are.
LEMMA BalanceSame ==
    ASSUME NEW V, NEW line \in Seq(V), NEW c \in V, NEW i \in 1..Len(line) + 1,
           NEW j \in 0..Len(line)
    PROVE  Balance(Append(line, c), i, j) = Balance(line, i, j)
  <1>1. \A k \in 1..Len(line) : Append(line, c)[k] = line[k]
    BY AppendProperties
  <1>2. \A k \in i..j : k \in 1..Len(line)
    BY LenProperties
  <1>3. /\ {k \in i..j : Append(line, c)[k] # "backspace"} =
               {k \in i..j : line[k] # "backspace"}
        /\ {k \in i..j : Append(line, c)[k] = "backspace"} =
               {k \in i..j : line[k] = "backspace"}
    BY <1>1, <1>2
  <1> QED
    BY <1>3, Zenon DEF Balance

\* What is kept are positions of the line.
LEMMA KeptType ==
    ASSUME NEW V, NEW line \in Seq(V)
    PROVE  /\ Kept(line) \in SUBSET (1..Len(line)) /\ IsFiniteSet(Kept(line))
           /\ Cardinality(Kept(line)) \in Nat
  <1>1. Len(line) \in Nat /\ DOMAIN line = 1..Len(line)
    BY LenProperties
  <1>2. Kept(line) \in SUBSET (1..Len(line))
    BY <1>1 DEF Kept
  <1>3. 1 \in Int /\ Len(line) \in Int
    BY <1>1
  <1> QED
    BY <1>2, <1>3, PartsOfInterval, Zenon

\* One more key adds its position, or takes out those whose balance it uses up.
LEMMA KeptNext ==
    ASSUME NEW V, NEW line \in Seq(V), NEW c \in V
    PROVE  Kept(Append(line, c)) =
               IF c = "backspace" THEN {i \in Kept(line) : Balance(line, i, Len(line)) > 1}
               ELSE Kept(line) \cup {Len(line) + 1}
  <1> DEFINE n == Len(line)
             next == Append(line, c)
  <1>1. /\ n \in Nat /\ DOMAIN line = 1..n /\ DOMAIN next = 1 .. n + 1 /\ Len(next) = n + 1
        /\ \A i \in 1..n : next[i] = line[i]
        /\ next[n + 1] = c
    BY AppendProperties, LenProperties
  <1>2. ASSUME NEW i \in 1 .. n + 1
        PROVE  /\ \A j \in i..n : Balance(next, i, j) = Balance(line, i, j)
               /\ Balance(next, i, n + 1) =
                      Balance(line, i, n) + (IF c = "backspace" THEN -1 ELSE 1)
               /\ Balance(line, i, n) \in Int
    <2>1. i \in Int /\ n \in Int /\ i <= n + 1
      BY <1>1
    <2>2. \A j \in i..n : j \in 0..n
      BY <1>1
    <2>3. \A j \in 0..n : Balance(next, i, j) = Balance(line, i, j)
      BY BalanceSame
    <2> HIDE DEF next, n
    <2>4. Balance(next, i, n + 1) =
              Balance(next, i, n) + (IF next[n + 1] = "backspace" THEN -1 ELSE 1)
      BY <2>1, BalanceNext
    <2>5. Balance(line, i, n) \in Int
      BY <2>1, BalanceType
    <2>6. n \in 0..n
      BY <1>1
    <2> QED
      BY <1>1, <2>2, <2>3, <2>4, <2>5, <2>6
  <1>3. Balance(line, n + 1, n) = 0
    <2>1. (n + 1)..n = {}
      BY <1>1
    <2>2. /\ {k \in (n + 1)..n : line[k] # "backspace"} = {}
          /\ {k \in (n + 1)..n : line[k] = "backspace"} = {}
      BY <2>1
    <2>3. Balance(line, n + 1, n) = Cardinality({}) - Cardinality({})
      BY <2>2, Zenon DEF Balance
    <2> QED
      BY <2>3, FS_EmptySet
  <1> HIDE DEF n, next
  <1>4. \A i : i \in Kept(next) <=>
            /\ i \in 1 .. n + 1 /\ next[i] # "backspace"
            /\ \A j \in i .. n + 1 : Balance(next, i, j) > 0
    BY <1>1 DEF Kept
  <1>5. \A i : i \in Kept(line) <=>
            /\ i \in 1..n /\ line[i] # "backspace"
            /\ \A j \in i..n : Balance(line, i, j) > 0
    BY <1>1 DEF Kept, n
  <1>6. CASE c = "backspace"
    <2>1. ASSUME NEW i \in Kept(next)
          PROVE  i \in Kept(line) /\ Balance(line, i, n) > 1
      <3>1. i \in 1..n
        BY <1>1, <1>4, <1>6
      <3>2. \A j \in i..n : Balance(line, i, j) > 0
        BY <1>1, <1>2, <1>4, <3>1
      <3>3. n + 1 \in i .. n + 1
        BY <1>1, <3>1
      <3>4. Balance(next, i, n + 1) > 0
        BY <1>4, <3>3
      <3>5. i \in 1 .. n + 1
        BY <1>4
      <3>6. Balance(line, i, n) > 1
        BY <1>2, <1>6, <3>4, <3>5
      <3> QED
        BY <1>1, <1>4, <1>5, <3>1, <3>2, <3>6
    <2>2. ASSUME NEW i \in Kept(line), Balance(line, i, n) > 1
          PROVE  i \in Kept(next)
      <3>1. i \in 1..n /\ i \in 1 .. n + 1 /\ next[i] # "backspace"
        BY <1>1, <1>5
      <3>2. Balance(next, i, n + 1) > 0
        BY <1>2, <1>6, <2>2, <3>1
      <3>3. \A j \in i .. n + 1 : j \in i..n \/ j = n + 1
        BY <1>1, <3>1
      <3>4. \A j \in i..n : Balance(next, i, j) > 0
        BY <1>2, <1>5, <3>1
      <3> QED
        BY <1>4, <3>1, <3>2, <3>3, <3>4
    <2> QED
      BY <1>6, <2>1, <2>2 DEF n, next
  <1>7. CASE c # "backspace"
    <2>1. ASSUME NEW i \in Kept(next), i # n + 1
          PROVE  i \in Kept(line)
      <3>1. i \in 1..n /\ i \in 1 .. n + 1
        BY <1>1, <1>4, <2>1
      <3>2. \A j \in i..n : Balance(line, i, j) > 0
        BY <1>1, <1>2, <1>4, <3>1
      <3> QED
        BY <1>1, <1>4, <1>5, <3>1, <3>2
    <2>2. ASSUME NEW i \in Kept(line)
          PROVE  i \in Kept(next)
      <3>1. i \in 1..n /\ i \in 1 .. n + 1 /\ next[i] # "backspace" /\ n \in i..n
        BY <1>1, <1>5
      <3>2. Balance(next, i, n + 1) > 0
        BY <1>2, <1>5, <1>7, <3>1
      <3>3. \A j \in i .. n + 1 : j \in i..n \/ j = n + 1
        BY <1>1, <3>1
      <3>4. \A j \in i..n : Balance(next, i, j) > 0
        BY <1>2, <1>5, <3>1
      <3> QED
        BY <1>4, <3>1, <3>2, <3>3, <3>4
    <2>3. n + 1 \in Kept(next)
      <3>1. n + 1 \in 1 .. n + 1 /\ next[n + 1] # "backspace"
        BY <1>1, <1>7
      <3>2. \A j \in (n + 1) .. (n + 1) : j = n + 1
        BY <1>1
      <3>3. Balance(next, n + 1, n + 1) > 0
        BY <1>2, <1>3, <1>7, <3>1
      <3> QED
        BY <1>4, <3>1, <3>2, <3>3
    <2> QED
      BY <1>7, <2>1, <2>2, <2>3 DEF n, next
  <1> QED
    BY <1>6, <1>7

\* The answer has what is kept of the line, in its order, and a character that is kept has as
\* many kept ones from it on as there are more keys than backspaces.
IsMasked(answer, line) ==
    /\ Len(answer) = Cardinality(Kept(line))
    /\ \A i \in Kept(line) :
          /\ answer[Cardinality({j \in Kept(line) : j <= i})] = line[i]
          /\ Balance(line, i, Len(line)) = Cardinality({j \in Kept(line) : j >= i})

\* A character typed.
LEMMA MaskedPush ==
    ASSUME NEW V, NEW line \in Seq(V), NEW c \in V, c # "backspace",
           NEW answer \in Seq(V), IsMasked(answer, line)
    PROVE  IsMasked(Append(answer, c), Append(line, c))
  <1> DEFINE n == Len(line)
             kept == Kept(line)
             next == Append(line, c)
  <1>1. Kept(next) = kept \cup {n + 1}
    BY KeptNext
  <1>2. kept \in SUBSET (1..n) /\ IsFiniteSet(kept) /\ Cardinality(kept) \in Nat
    BY KeptType
  <1>3. /\ n \in Nat /\ Len(next) = n + 1 /\ next[n + 1] = c
        /\ \A i \in 1..n : next[i] = line[i]
    BY AppendProperties, LenProperties
  <1>4. /\ Len(Append(answer, c)) = Len(answer) + 1
        /\ \A i \in 1..Len(answer) : Append(answer, c)[i] = answer[i]
        /\ Append(answer, c)[Len(answer) + 1] = c
    BY AppendProperties
  <1>5. /\ \A i \in 1..n : Balance(next, i, n + 1) = Balance(line, i, n) + 1
        /\ Balance(next, n + 1, n + 1) = 1
    <2>1. ASSUME NEW i \in 1 .. n + 1
          PROVE  /\ Balance(next, i, n + 1) = Balance(next, i, n) + 1
                 /\ Balance(next, i, n) = Balance(line, i, n)
      <3>1. i \in Int /\ n \in Int /\ i <= n + 1 /\ n \in 0..n
        BY <1>3
      <3>2. Balance(next, i, n) = Balance(line, i, n)
        BY <3>1, BalanceSame
      <3> HIDE DEF n, next
      <3>3. Balance(next, i, n + 1) = Balance(next, i, n) + 1
        BY <1>3, <3>1, BalanceNext
      <3> QED
        BY <3>2, <3>3
    <2>2. Balance(line, n + 1, n) = 0
      <3>1. (n + 1)..n = {}
        BY <1>3
      <3>2. /\ {k \in (n + 1)..n : line[k] # "backspace"} = {}
            /\ {k \in (n + 1)..n : line[k] = "backspace"} = {}
        BY <3>1
      <3>3. Balance(line, n + 1, n) = Cardinality({}) - Cardinality({})
        BY <3>2, Zenon DEF Balance
      <3> QED
        BY <3>3, FS_EmptySet
    <2>3. \A i \in 1..n : i \in 1 .. n + 1
      BY <1>3
    <2>4. n + 1 \in 1 .. n + 1
      BY <1>3
    <2> HIDE DEF n, next
    <2> QED
      BY <2>1, <2>2, <2>3, <2>4
  <1> HIDE DEF n, kept, next
  <1>6. n + 1 \notin kept
    BY <1>2, <1>3
  <1>7. Cardinality(Kept(next)) = Cardinality(kept) + 1
    BY <1>1, <1>2, <1>6, FS_AddElement
  <1>8. /\ Len(answer) = Cardinality(kept)
        /\ \A i \in kept :
              /\ answer[Cardinality({j \in kept : j <= i})] = line[i]
              /\ Balance(line, i, n) = Cardinality({j \in kept : j >= i})
    BY DEF IsMasked, kept, n
  <1>9. ASSUME NEW i \in Kept(next)
        PROVE  /\ Append(answer, c)[Cardinality({j \in Kept(next) : j <= i})] = next[i]
               /\ Balance(next, i, n + 1) = Cardinality({j \in Kept(next) : j >= i})
    <2>1. CASE i = n + 1
      <3>5. \A j \in Kept(next) : j <= i /\ (j >= i => j = i)
        BY <1>1, <1>2, <1>3, <2>1
      <3>1. {j \in Kept(next) : j <= i} = Kept(next)
        BY <3>5
      <3>2. {j \in Kept(next) : j >= i} = {n + 1}
        <4>1. i >= i
          BY <1>3, <2>1
        <4> QED
          BY <2>1, <3>5, <4>1
      <3>3. Cardinality({n + 1}) = 1
        BY FS_Singleton
      <3>4. Append(answer, c)[Cardinality(Kept(next))] = next[i]
        BY <1>3, <1>4, <1>7, <1>8, <2>1
      <3> QED
        BY <1>5, <2>1, <3>1, <3>2, <3>3, <3>4
    <2>2. CASE i # n + 1
      <3>1. i \in kept /\ i \in 1..n
        BY <1>1, <1>2, <2>2
      <3> DEFINE low == {j \in kept : j <= i}
                 high == {j \in kept : j >= i}
      <3>2. {j \in Kept(next) : j <= i} = low
        BY <1>1, <1>2, <1>3, <3>1
      <3>3. {j \in Kept(next) : j >= i} = high \cup {n + 1}
        BY <1>1, <1>2, <1>3, <3>1
      <3>4. low \in SUBSET kept /\ high \in SUBSET kept /\ n + 1 \notin high /\ i \in low
        BY <1>6, <3>1
      <3>5. answer[Cardinality(low)] = line[i] /\ Balance(line, i, n) = Cardinality(high)
        BY <1>8, <3>1
      <3> HIDE DEF low, high
      <3>6. /\ IsFiniteSet(low) /\ Cardinality(low) <= Cardinality(kept)
            /\ IsFiniteSet(high)
        BY <1>2, <3>4, FS_Subset
      <3>7. Cardinality(high \cup {n + 1}) = Cardinality(high) + 1
        BY <3>4, <3>6, FS_AddElement
      <3>8. Cardinality(low) \in 1..Len(answer)
        <4>1. Cardinality(low) \in Nat /\ Cardinality(low) # 0
          BY <3>4, <3>6, FS_CardinalityType, FS_EmptySet
        <4> QED
          BY <1>2, <1>8, <3>6, <4>1
      <3>9. Append(answer, c)[Cardinality(low)] = next[i]
        BY <1>3, <1>4, <3>1, <3>5, <3>8
      <3>10. Balance(next, i, n + 1) = Cardinality(high \cup {n + 1})
        BY <1>5, <3>1, <3>5, <3>7
      <3> QED
        BY <3>2, <3>3, <3>9, <3>10
    <2> QED
      BY <2>1, <2>2
  <1>10. Len(Append(answer, c)) = Cardinality(Kept(next))
    BY <1>4, <1>7, <1>8
  <1> QED
    BY <1>3, <1>9, <1>10 DEF IsMasked, next

\* A backspace typed.
LEMMA MaskedPop ==
    ASSUME NEW V, NEW line \in Seq(V), NEW c \in V, c = "backspace",
           NEW answer \in Seq(V), IsMasked(answer, line)
    PROVE  /\ IsMasked(IF answer = <<>> THEN answer ELSE Front(answer), Append(line, c))
           /\ (IF answer = <<>> THEN answer ELSE Front(answer)) \in Seq(V)
  <1> DEFINE n == Len(line)
             kept == Kept(line)
             next == Append(line, c)
  <1>1. Kept(next) = {i \in kept : Balance(line, i, n) > 1}
    BY KeptNext
  <1>2. kept \in SUBSET (1..n) /\ IsFiniteSet(kept) /\ Cardinality(kept) \in Nat
    BY KeptType
  <1>3. n \in Nat /\ Len(next) = n + 1 /\ \A i \in 1..n : next[i] = line[i]
    BY AppendProperties, LenProperties
  <1>4. \A i \in 1..n : Balance(next, i, n + 1) = Balance(line, i, n) - 1
    <2> SUFFICES ASSUME NEW i \in 1..n
                 PROVE  Balance(next, i, n + 1) = Balance(line, i, n) - 1
      OBVIOUS
    <2>1. i \in Int /\ n \in Int /\ i <= n + 1 /\ n \in 0..n /\ i \in 1 .. n + 1
      BY <1>3
    <2>2. Balance(next, i, n) = Balance(line, i, n)
      BY <2>1, BalanceSame
    <2>3. next[n + 1] = "backspace"
      BY AppendProperties
    <2>4. Balance(line, i, n) \in Int
      BY <2>1, BalanceType
    <2> HIDE DEF n, next
    <2>5. Balance(next, i, n + 1) = Balance(next, i, n) + (-1)
      BY <2>1, <2>3, BalanceNext
    <2> QED
      BY <2>2, <2>4, <2>5
  <1>5. Len(answer) \in Nat /\ (answer = <<>> <=> Len(answer) = 0)
    BY EmptySeq, LenProperties
  <1> HIDE DEF n, kept, next
  <1>6. /\ Len(answer) = Cardinality(kept)
        /\ \A i \in kept :
              /\ answer[Cardinality({j \in kept : j <= i})] = line[i]
              /\ Balance(line, i, n) = Cardinality({j \in kept : j >= i})
    BY DEF IsMasked, kept, n
  <1>7. CASE answer = <<>>
    <2>1. kept = {}
      BY <1>2, <1>5, <1>6, <1>7, FS_EmptySet
    <2>2. Kept(next) = {}
      BY <1>1, <2>1
    <2>3. IsMasked(answer, next)
      BY <1>5, <1>7, <2>2, FS_EmptySet DEF IsMasked
    <2> QED
      BY <1>7, <2>3 DEF next
  <1>8. CASE answer # <<>>
    <2>1. kept # {}
      BY <1>2, <1>5, <1>6, <1>8, FS_EmptySet
    <2>2. PICK last \in kept : \A j \in kept : j <= last
      <3>1. kept \in SUBSET (0..n)
        BY <1>2, <1>3
      <3>2. n \in Nat
        BY LenProperties DEF n
      <3>3. Max(kept) \in kept /\ \A j \in kept : j <= Max(kept)
        BY <2>1, <3>1, <3>2, GreatestOfSome
      <3> QED
        BY <3>3, Zenon
    <2>3. Kept(next) = kept \ {last}
      <3>1. \A i \in kept : Balance(line, i, n) > 1 <=> i # last
        <4> SUFFICES ASSUME NEW i \in kept
                     PROVE  Balance(line, i, n) > 1 <=> i # last
          OBVIOUS
        <4> DEFINE high == {j \in kept : j >= i}
        <4>1. high \in SUBSET kept /\ i \in high /\ last \in high
          BY <1>2, <2>2
        <4>2. Balance(line, i, n) = Cardinality(high)
          BY <1>6
        <4>3. i = last => high = {last}
          <5>1. \A j \in kept : j >= last => j = last
            BY <1>2, <2>2
          <5> QED
            BY <4>1, <5>1
        <4> HIDE DEF high
        <4>4. IsFiniteSet(high) /\ Cardinality(high) \in Nat
          BY <1>2, <4>1, FS_Subset, FS_CardinalityType
        <4>5. Cardinality(high) # 0 /\ (Cardinality(high) = 1 <=> \E x : high = {x})
          BY <4>1, <4>4, FS_EmptySet, FS_Singleton
        <4>6. i # last => Cardinality(high) # 1
          BY <4>1, <4>5
        <4> QED
          BY <4>2, <4>3, <4>4, <4>5, <4>6
      <3> QED
        BY <1>1, <3>1
    <2>4. Cardinality(Kept(next)) = Cardinality(kept) - 1
      BY <1>2, <2>3, FS_RemoveElement
    <2>5. /\ Front(answer) \in Seq(V) /\ Len(Front(answer)) = Len(answer) - 1
          /\ \A i \in 1 .. Len(answer) - 1 : Front(answer)[i] = answer[i]
      <3>1. Len(answer) - 1 \in Int /\ 1 \in Int
        BY <1>5
      <3>2. \A i \in 1 .. Len(answer) - 1 : answer[i] \in V
        BY <1>5, ElementOfSeq
      <3>3. /\ SubSeq(answer, 1, Len(answer) - 1) \in Seq(V)
            /\ Len(SubSeq(answer, 1, Len(answer) - 1)) =
                   IF 1 <= Len(answer) - 1 THEN (Len(answer) - 1) - 1 + 1 ELSE 0
            /\ \A i \in 1 .. (Len(answer) - 1) - 1 + 1 :
                   SubSeq(answer, 1, Len(answer) - 1)[i] = answer[1 + i - 1]
        BY <3>1, <3>2, SubSeqProperties
      <3>4. \A i \in 1 .. Len(answer) - 1 :
                i \in 1 .. (Len(answer) - 1) - 1 + 1 /\ 1 + i - 1 = i
        BY <1>5
      <3>5. Front(answer) = SubSeq(answer, 1, Len(answer) - 1)
        BY DEF Front
      <3> HIDE DEF Front
      <3>6. \A i \in 1 .. Len(answer) - 1 : Front(answer)[i] = answer[i]
        BY <3>3, <3>4, <3>5
      <3>7. (IF 1 <= Len(answer) - 1 THEN (Len(answer) - 1) - 1 + 1 ELSE 0) =
                Len(answer) - 1
        <4>1. Len(answer) \in Nat /\ Len(answer) # 0
          BY <1>5, <1>8, Zenon
        <4>2. \A m \in Nat : m # 0 =>
                  (IF 1 <= m - 1 THEN (m - 1) - 1 + 1 ELSE 0) = m - 1
          OBVIOUS
        <4> QED
          BY <4>1, <4>2, Zenon
      <3> QED
        BY <3>3, <3>5, <3>6, <3>7, Zenon
    <2>6. ASSUME NEW i \in Kept(next)
          PROVE  /\ Front(answer)[Cardinality({j \in Kept(next) : j <= i})] = next[i]
                 /\ Balance(next, i, n + 1) = Cardinality({j \in Kept(next) : j >= i})
      <3>1. i \in kept /\ i \in 1..n /\ i # last /\ last \in 1..n /\ i <= last
        BY <1>2, <2>2, <2>3
      <3> DEFINE low == {j \in kept : j <= i}
                 high == {j \in kept : j >= i}
      <3>2. {j \in Kept(next) : j <= i} = low
        BY <1>2, <2>2, <2>3, <3>1
      <3>3. {j \in Kept(next) : j >= i} = high \ {last}
        BY <2>3
      <3>4. /\ low \in SUBSET (kept \ {last}) /\ high \in SUBSET kept /\ last \in high
            /\ i \in low
        BY <1>2, <2>2, <3>1
      <3>5. answer[Cardinality(low)] = line[i] /\ Balance(line, i, n) = Cardinality(high)
        BY <1>6, <3>1
      <3> HIDE DEF low, high
      <3>6. IsFiniteSet(kept \ {last}) /\ Cardinality(kept \ {last}) = Cardinality(kept) - 1
        BY <1>2, <2>2, FS_RemoveElement
      <3>7. /\ IsFiniteSet(low) /\ Cardinality(low) <= Cardinality(kept \ {last})
        BY <3>4, <3>6, FS_Subset
      <3>8. IsFiniteSet(high)
        BY <1>2, <3>4, FS_Subset
      <3>9. Cardinality(high \ {last}) = Cardinality(high) - 1
        BY <3>4, <3>8, FS_RemoveElement
      <3>10. Cardinality(low) \in 1 .. Len(answer) - 1
        <4>1. Cardinality(low) \in Nat /\ Cardinality(low) # 0
          BY <3>4, <3>7, FS_CardinalityType, FS_EmptySet
        <4> QED
          BY <1>2, <1>6, <3>6, <3>7, <4>1
      <3>11. Front(answer)[Cardinality(low)] = next[i]
        BY <1>3, <2>5, <3>1, <3>5, <3>10
      <3>12. Balance(next, i, n + 1) = Cardinality(high \ {last})
        BY <1>4, <3>1, <3>5, <3>9
      <3> QED
        BY <3>2, <3>3, <3>11, <3>12
    <2>7. Len(Front(answer)) = Cardinality(Kept(next))
      BY <1>6, <2>4, <2>5
    <2>8. IsMasked(Front(answer), next)
      BY <1>3, <2>6, <2>7 DEF IsMasked
    <2> QED
      BY <1>8, <2>5, <2>8 DEF next
  <1> QED
    BY <1>7, <1>8

\* The loop of prompt_masked, after any number of keys.
LEMMA MaskedLine ==
    ASSUME NEW V, NEW line \in Seq(V)
    PROVE  /\ Masking!Fold(<<>>, line) \in Seq(V)
           /\ IsMasked(Masking!Fold(<<>>, line), line)
  <1> DEFINE T == {s \in Seq(V) : /\ Masking!Fold(<<>>, s) \in Seq(V)
                                  /\ IsMasked(Masking!Fold(<<>>, s), s)}
  <1>1. <<>> \in T
    <2>1. <<>> \in Seq(V) /\ Len(<<>>) = 0
      BY EmptySeq
    <2>2. Masking!Fold(<<>>, <<>>) = <<>>
      BY NaturalInduction, Masking!FoldEmpty
    <2>3. Kept(<<>>) = {}
      BY DEF Kept
    <2>4. IsMasked(<<>>, <<>>)
      BY <2>1, <2>3, FS_EmptySet DEF IsMasked
    <2> QED
      BY <2>1, <2>2, <2>4, Zenon
  <1>2. ASSUME NEW s \in T, NEW c \in V PROVE Append(s, c) \in T
    <2> DEFINE answer == Masking!Fold(<<>>, s)
    <2>1. s \in Seq(V) /\ answer \in Seq(V) /\ IsMasked(answer, s)
      OBVIOUS
    <2>2. Append(s, c) \in Seq(V) /\ Append(answer, c) \in Seq(V)
      BY <2>1, AppendProperties
    <2>3. Masking!Fold(<<>>, Append(s, c)) = MaskedKey(answer, c)
      BY <2>1, NaturalInduction, Masking!FoldAppend
    <2>4. MaskedKey(answer, c) =
              IF c # "backspace" THEN Append(answer, c)
              ELSE IF answer = <<>> THEN answer ELSE Front(answer)
      BY Zenon DEF MaskedKey, Front, Front
    <2> HIDE DEF answer
    <2>5. CASE c # "backspace"
      <3>1. IsMasked(Append(answer, c), Append(s, c))
        BY <2>1, <2>5, MaskedPush
      <3> QED
        BY <2>2, <2>3, <2>4, <2>5, <3>1, Zenon
    <2>6. CASE c = "backspace"
      <3> DEFINE next == IF answer = <<>> THEN answer ELSE Front(answer)
      <3>1. IsMasked(next, Append(s, c)) /\ next \in Seq(V)
        BY <2>1, <2>6, MaskedPop
      <3>2. Masking!Fold(<<>>, Append(s, c)) = next
        BY <2>3, <2>4, <2>6, Zenon
      <3> HIDE DEF next
      <3> QED
        BY <2>2, <3>1, <3>2, Zenon
    <2> QED
      BY <2>5, <2>6
  <1>3. T = Seq(V)
    <2>1. T \in SUBSET Seq(V)
      OBVIOUS
    <2> HIDE DEF T
    <2> QED
      BY <1>1, <1>2, <2>1, SeqInduction
  <1> QED
    BY <1>3

\* The password is what is left of the keys when every backspace has taken the last one.
THEOREM PasswordCorrect == Spec => []PasswordIsWhatWasMeant
  <1>1. Typing => PasswordIsWhatWasMeant
    <2> SUFFICES ASSUME Typing, format = "keys" PROVE PasswordIsWhatWasMeant
      BY DEF PasswordIsWhatWasMeant
    <2> DEFINE V == Alphabets[format]
               enters == {i \in 1..Len(text) : text[i] = "enter"}
               line == IF "enter" \in Range(text)
                       THEN SubSeq(text, 1, SelectInSeq(text, LAMBDA k : k = "enter") - 1)
                       ELSE text
    <2>1. text \in Seq(V)
      BY DEF Typing
    <2> HIDE DEF V
    <2>2. Len(text) \in Nat /\ DOMAIN text = 1..Len(text)
      BY <2>1, LenProperties
    <2>3. "enter" \in Range(text) <=> enters # {}
      BY <2>2 DEF Range
    <2>4. /\ SelectInSeq(text, LAMBDA k : k = "enter") =
                 IF enters # {} THEN Min(enters) ELSE 0
          /\ SelectInSeq(text, LAMBDA key : key = "enter") =
                 IF enters # {} THEN Min(enters) ELSE 0
      BY DEF SelectInSeq, SelectInSeq, Min, Min
    <2>5. enters # {} => Min(enters) \in 1..Len(text)
      <3> SUFFICES ASSUME enters # {} PROVE Min(enters) \in 1..Len(text)
        OBVIOUS
      <3>1. enters \in SUBSET Nat /\ enters \in SUBSET (1..Len(text))
        BY <2>2
      <3> HIDE DEF enters
      <3>2. \E x \in enters : \A y \in enters : x <= y
        BY <3>1, LeastNatural
      <3>3. Min(enters) \in enters
        BY <3>2, Zenon DEF Min
      <3> QED
        BY <3>1, <3>3
    <2>6. line \in Seq(V) /\
          line = SubSeq(text, 1, (IF enters = {} THEN Len(text) + 1 ELSE Min(enters)) - 1)
      <3> HIDE DEF enters
      <3>1. CASE enters = {}
        <4>1. SubSeq(text, 1, (Len(text) + 1) - 1) = text
          <5>1. (Len(text) + 1) - 1 = Len(text)
            BY <2>2
          <5> QED
            BY <2>1, <5>1, SubSeqFull
        <4> QED
          BY <2>1, <2>3, <3>1, <4>1, Zenon
      <3>2. CASE enters # {}
        <4> DEFINE m == Min(enters) - 1
        <4>1. line = SubSeq(text, 1, m)
          BY <2>3, <2>4, <3>2, Zenon
        <4>2. m \in Int /\ 1 \in Int /\ \A i \in 1..m : i \in 1..Len(text)
          BY <2>2, <2>5, <3>2
        <4> HIDE DEF line, m
        <4>3. \A i \in 1..m : text[i] \in V
          BY <2>1, <4>2, ElementOfSeq
        <4>4. SubSeq(text, 1, m) \in Seq(V)
          BY <4>2, <4>3, SubSeqProperties
        <4> QED
          BY <3>2, <4>1, <4>4, Zenon DEF m
      <3> QED
        BY <3>1, <3>2
    <2>7. PromptMasked(text) = Masking!Fold(<<>>, line)
      <3>1. PromptMasked(text) = FoldLeft(MaskedKey, <<>>, line)
        <4> DEFINE select == SelectInSeq(text, LAMBDA key : key = "enter")
        <4>1. PromptMasked(text) = FoldLeft(MaskedKey, <<>>,
                  SubSeq(text, 1, (IF select = 0 THEN Len(text) + 1 ELSE select) - 1))
          BY DEF PromptMasked
        <4>2. (IF select = 0 THEN Len(text) + 1 ELSE select) =
                  IF enters = {} THEN Len(text) + 1 ELSE Min(enters)
          <5>1. enters # {} => Min(enters) # 0
            BY <2>5
          <5> HIDE DEF enters
          <5> QED
            BY <2>4, <5>1, Zenon
        <4> HIDE DEF enters, line, select
        <4> QED
          BY <2>6, <4>1, <4>2, Zenon
      <3>2. FoldLeft(MaskedKey, <<>>, line) = Masking!Fold(<<>>, line)
        <4> HIDE DEF line
        <4> QED
          BY DEF Masking!Fold, FoldLeft, MapThenFoldSet, Max, Masking!Greatest
      <3> QED
        BY <3>1, <3>2
    <2> HIDE DEF line
    <2>8. IsMasked(PromptMasked(text), line)
      BY <2>6, <2>7, MaskedLine, Zenon
    <2>9. /\ Len(PromptMasked(text)) = Cardinality(Kept(line))
          /\ \A i \in Kept(line) :
                PromptMasked(text)[Cardinality({j \in Kept(line) : j <= i})] = line[i]
      BY <2>8, Zenon DEF IsMasked
    <2> USE DEF line
    <2> QED
      BY <2>9, Zenon DEF PasswordIsWhatWasMeant, Kept, Balance
  <1> QED
    BY <1>1, TextIsOfFormat, PTL

-------------------------------------------------------------------------------
(* NumbersAreExact: the parts between the commas. *)

Separators(s, separator) == {i \in DOMAIN s : s[i] = separator}

NoneBetween(s, separator, a, b) == \A i \in a + 1 .. b - 1 : s[i] # separator

\* The parts are what stands between two separators that follow each other, or before the
\* first one, and then what stands behind the last one.
AreParts(s, separator, parts) ==
    /\ parts # <<>> /\ Len(parts) = Cardinality(Separators(s, separator)) + 1
    /\ \A k \in 1 .. Len(parts) - 1 :
          \E a \in Separators(s, separator) \cup {0}, b \in Separators(s, separator) :
             a < b /\ NoneBetween(s, separator, a, b) /\ parts[k] = SubSeq(s, a + 1, b - 1)
    /\ \A a \in Separators(s, separator) \cup {0}, b \in Separators(s, separator) :
          a < b /\ NoneBetween(s, separator, a, b) =>
             \E k \in 1 .. Len(parts) - 1 : parts[k] = SubSeq(s, a + 1, b - 1)
    /\ \E a \in Separators(s, separator) \cup {0} :
          /\ NoneBetween(s, separator, a, Len(s) + 1)
          /\ parts[Len(parts)] = SubSeq(s, a + 1, Len(s))
    /\ \A i \in 1..Len(s) :
          s[i] # separator =>
             \E k \in 1..Len(parts) : \E m \in 1..Len(parts[k]) : parts[k][m] = s[i]

\* Parts of a text with one more character.
LEMMA SubSeqOfAppend ==
    ASSUME NEW V, NEW s \in Seq(V), NEW c \in V, NEW a \in 0..Len(s)
    PROVE  /\ \A b \in 0..Len(s) : SubSeq(Append(s, c), a + 1, b) = SubSeq(s, a + 1, b)
           /\ SubSeq(Append(s, c), a + 1, Len(s) + 1) = Append(SubSeq(s, a + 1, Len(s)), c)
           /\ \A b \in 0..Len(s) : SubSeq(s, a + 1, b) \in Seq(V)
  <1> DEFINE n == Len(s)
             next == Append(s, c)
  <1>1. /\ n \in Nat /\ next \in Seq(V) /\ Len(next) = n + 1
        /\ \A i \in 1..n : next[i] = s[i] /\ s[i] \in V
        /\ next[n + 1] = c
    BY AppendProperties, LenProperties, ElementOfSeq
  <1> HIDE DEF n, next
  <1>2. a \in 0..n
    BY DEF n
  <1>3. ASSUME NEW b \in 0..n
        PROVE  /\ SubSeq(s, a + 1, b) \in Seq(V)
               /\ Len(SubSeq(s, a + 1, b)) = IF a + 1 <= b THEN b - a ELSE 0
               /\ \A i \in 1 .. b - a : SubSeq(s, a + 1, b)[i] = s[a + i]
    <2>1. a + 1 \in Int /\ b \in Int /\ \A i \in a + 1 .. b : i \in 1..n
      BY <1>1, <1>2
    <2>2. \A i \in a + 1 .. b : s[i] \in V
      BY <1>1, <2>1
    <2>3. /\ SubSeq(s, a + 1, b) \in Seq(V)
          /\ Len(SubSeq(s, a + 1, b)) = IF a + 1 <= b THEN b - (a + 1) + 1 ELSE 0
          /\ \A i \in 1 .. b - (a + 1) + 1 : SubSeq(s, a + 1, b)[i] = s[(a + 1) + i - 1]
      BY <2>1, <2>2, SubSeqProperties
    <2>4. /\ b - (a + 1) + 1 = b - a
          /\ \A i \in 1 .. b - a : (a + 1) + i - 1 = a + i
      BY <1>2
    <2>5. \A i \in 1 .. b - a : SubSeq(s, a + 1, b)[i] = s[a + i]
      BY <2>3, <2>4, Zenon
    <2> QED
      BY <2>3, <2>4, <2>5, Zenon
  <1>4. ASSUME NEW b \in 0..n
        PROVE  SubSeq(next, a + 1, b) = SubSeq(s, a + 1, b)
    <2>1. a + 1 \in Int /\ b \in Int /\ \A i \in a + 1 .. b : i \in 1..n
      BY <1>1, <1>2
    <2>2. \A i \in a + 1 .. b : next[i] \in V /\ next[i] = s[i]
      BY <1>1, <2>1
    <2>3. /\ SubSeq(next, a + 1, b) \in Seq(V)
          /\ Len(SubSeq(next, a + 1, b)) = IF a + 1 <= b THEN b - (a + 1) + 1 ELSE 0
          /\ \A i \in 1 .. b - (a + 1) + 1 :
                 SubSeq(next, a + 1, b)[i] = next[(a + 1) + i - 1]
      BY <2>1, <2>2, SubSeqProperties
    <2>4. b - (a + 1) + 1 = b - a /\ \A i \in Int : (a + 1) + i - 1 = a + i
      BY <1>2
    <2>5. \A i \in 1 .. b - a : a + i \in a + 1 .. b
      BY <1>2
    <2>6. Len(SubSeq(next, a + 1, b)) = Len(SubSeq(s, a + 1, b))
      BY <1>3, <2>3, <2>4
    <2>7. \A i \in 1..Len(SubSeq(s, a + 1, b)) : i \in 1 .. b - a
      BY <1>2, <1>3
    <2>8. \A i \in 1..Len(SubSeq(s, a + 1, b)) :
              SubSeq(next, a + 1, b)[i] = SubSeq(s, a + 1, b)[i]
      BY <1>3, <2>2, <2>3, <2>4, <2>5, <2>7
    <2> QED
      BY <1>3, <2>3, <2>6, <2>8, SeqEqual
  <1>5. SubSeq(next, a + 1, n + 1) = Append(SubSeq(s, a + 1, n), c)
    <2>1. a + 1 \in 1 .. n + 1 /\ n + 1 \in a + 1 .. n + 1 /\ (n + 1) - 1 = n /\ n \in 0..n
      BY <1>1, <1>2
    <2>2. a + 1 \in 1..Len(next) /\ n + 1 \in a + 1 .. Len(next)
      BY <1>1, <2>1
    <2>3. SubSeq(next, a + 1, n + 1) = SubSeq(next, a + 1, n) \o <<next[n + 1]>>
      BY <1>1, <2>1, <2>2, SubSeqRecursiveSecond
    <2>4. SubSeq(next, a + 1, n) = SubSeq(s, a + 1, n) /\ SubSeq(s, a + 1, n) \in Seq(V)
      BY <1>3, <1>4, <2>1
    <2>5. SubSeq(s, a + 1, n) \o <<c>> = Append(SubSeq(s, a + 1, n), c)
      BY <2>4, OneMore
    <2> QED
      BY <1>1, <2>3, <2>4, <2>5, Zenon
  <1> QED
    BY <1>3, <1>4, <1>5 DEF n, next

\* One more part.
LEMMA PartAppended ==
    ASSUME NEW V, NEW ss \in Seq(Seq(V)), NEW r \in Seq(V)
    PROVE  /\ Append(ss, r) \in Seq(Seq(V)) \ {<<>>} /\ Len(Append(ss, r)) = Len(ss) + 1
           /\ \A k \in 1..Len(ss) : Append(ss, r)[k] = ss[k]
           /\ Append(ss, r)[Len(ss) + 1] = r
  BY AppendProperties

\* The parts of a text, and what its next character makes of them.
NextParts(V, separator, ts, c, parts) ==
    /\ Len(ts) \in Nat \ {0}
    /\ parts \in Seq(Seq(V)) \ {<<>>}
    /\ c = separator => /\ Len(parts) = Len(ts) + 1
                        /\ \A k \in 1..Len(ts) : parts[k] = ts[k]
                        /\ parts[Len(ts) + 1] = <<>>
    /\ c # separator => /\ Len(parts) = Len(ts)
                        /\ \A k \in 1 .. Len(ts) - 1 : parts[k] = ts[k]
                        /\ parts[Len(ts)] = Append(ts[Len(ts)], c)

\* What a round of split does with the parts there are.
LEMMA SplitTokensProperties ==
    ASSUME NEW V, NEW separator, NEW c \in V, NEW ts \in Seq(Seq(V)), ts # <<>>
    PROVE  NextParts(V, separator, ts, c, SplitTokens(separator, ts, c))
  <1> DEFINE n == Len(ts)
  <1>1. n \in Nat \ {0} /\ \A k \in 1..n : ts[k] \in Seq(V)
    BY EmptySeq, ElementOfSeq
  <1>2. /\ n - 1 \in Nat /\ 1 \in Int /\ n \in 1..n /\ \A k \in 1 .. n - 1 : k \in 1..n
        /\ (n - 1) - 1 + 1 = n - 1 /\ (n - 1) + 1 = n
        /\ \A k \in 1 .. n - 1 : 1 + k - 1 = k
    BY <1>1
  <1>3. <<>> \in Seq(V) /\ Append(ts[n], c) \in Seq(V)
    BY <1>1, <1>2, AppendProperties, EmptySeq
  <1>4. Front(ts) = SubSeq(ts, 1, n - 1) /\ Last(ts) = ts[n]
    BY DEF Front, Last
  <1> HIDE DEF n
  <1>5. /\ Front(ts) \in Seq(Seq(V)) /\ Len(Front(ts)) = n - 1
        /\ \A k \in 1 .. n - 1 : Front(ts)[k] = ts[k]
    <2>1. \A k \in 1 .. n - 1 : ts[k] \in Seq(V)
      BY <1>1, <1>2
    <2>2. /\ SubSeq(ts, 1, n - 1) \in Seq(Seq(V))
          /\ Len(SubSeq(ts, 1, n - 1)) = IF 1 <= n - 1 THEN (n - 1) - 1 + 1 ELSE 0
          /\ \A k \in 1 .. (n - 1) - 1 + 1 : SubSeq(ts, 1, n - 1)[k] = ts[1 + k - 1]
      BY <1>2, <2>1, SubSeqProperties
    <2>3. (IF 1 <= n - 1 THEN (n - 1) - 1 + 1 ELSE 0) = n - 1
      BY <1>1
    <2>4. \A k \in 1 .. n - 1 : SubSeq(ts, 1, n - 1)[k] = ts[k]
      BY <1>2, <2>2, Zenon
    <2> QED
      BY <1>4, <2>2, <2>3, <2>4, Zenon
  <1>6. \A ss \in Seq(Seq(V)), r \in Seq(V) :
            /\ Append(ss, r) \in Seq(Seq(V)) \ {<<>>} /\ Len(Append(ss, r)) = Len(ss) + 1
            /\ \A k \in 1..Len(ss) : Append(ss, r)[k] = ss[k]
            /\ Append(ss, r)[Len(ss) + 1] = r
    BY PartAppended, Zenon
  <1>7. CASE c = separator
    <2>1. SplitTokens(separator, ts, c) = Append(ts, <<>>)
      BY <1>7 DEF SplitTokens
    <2>2. /\ Append(ts, <<>>) \in Seq(Seq(V)) \ {<<>>} /\ Len(Append(ts, <<>>)) = n + 1
          /\ \A k \in 1..n : Append(ts, <<>>)[k] = ts[k]
          /\ Append(ts, <<>>)[n + 1] = <<>>
      BY <1>3, <1>6, Zenon DEF n
    <2> QED
      BY <1>1, <1>7, <2>1, <2>2, Zenon DEF n, NextParts
  <1>8. CASE c # separator
    <2> DEFINE r == Append(ts[n], c)
    <2>1. SplitTokens(separator, ts, c) = Append(Front(ts), r)
      BY <1>4, <1>8, Zenon DEF SplitTokens
    <2> HIDE DEF r
    <2>2. /\ Append(Front(ts), r) \in Seq(Seq(V)) \ {<<>>}
          /\ Len(Append(Front(ts), r)) = (n - 1) + 1
          /\ \A k \in 1 .. n - 1 : Append(Front(ts), r)[k] = Front(ts)[k]
          /\ Append(Front(ts), r)[(n - 1) + 1] = r
      <3>1. r \in Seq(V)
        BY <1>3, Zenon DEF r
      <3>2. /\ Append(Front(ts), r) \in Seq(Seq(V)) \ {<<>>}
            /\ Len(Append(Front(ts), r)) = Len(Front(ts)) + 1
            /\ \A k \in 1..Len(Front(ts)) : Append(Front(ts), r)[k] = Front(ts)[k]
            /\ Append(Front(ts), r)[Len(Front(ts)) + 1] = r
        BY <1>5, <1>6, <3>1, Zenon
      <3> QED
        BY <1>5, <3>2, Zenon
    <2>3. \A k \in 1 .. n - 1 : Append(Front(ts), r)[k] = ts[k]
      BY <1>5, <2>2, Zenon
    <2> QED
      BY <1>1, <1>2, <1>8, <2>1, <2>2, <2>3, Zenon DEF n, r, NextParts
  <1> QED
    BY <1>7, <1>8

\* AreParts holds after one more character.
LEMMA PartsNext ==
    ASSUME NEW V, NEW separator, NEW s \in Seq(V), NEW c \in V, NEW ts \in Seq(Seq(V)),
           AreParts(s, separator, ts)
    PROVE  AreParts(Append(s, c), separator, SplitTokens(separator, ts, c))
  <1> DEFINE n == Len(s)
             next == Append(s, c)
             seps == Separators(s, separator)
             parts == SplitTokens(separator, ts, c)
             m == Len(ts)
             Beyond(a, b) == NoneBetween(s, separator, a, b)
  <1>1. /\ n \in Nat /\ DOMAIN s = 1..n /\ DOMAIN next = 1 .. n + 1 /\ Len(next) = n + 1
        /\ \A i \in 1..n : next[i] = s[i]
        /\ next[n + 1] = c
    BY AppendProperties, LenProperties
  <1>2. seps \in SUBSET (1..n) /\ IsFiniteSet(seps) /\ Cardinality(seps) \in Nat
    <2>1. seps \in SUBSET (1..n) /\ 1 \in Int /\ n \in Int
      BY <1>1 DEF Separators
    <2> HIDE DEF seps, n
    <2> QED
      BY <2>1, PartsOfInterval
  <1>3. /\ ts # <<>> /\ m = Cardinality(seps) + 1
        /\ \A k \in 1 .. m - 1 : \E a \in seps \cup {0}, b \in seps :
               a < b /\ Beyond(a, b) /\ ts[k] = SubSeq(s, a + 1, b - 1)
        /\ \A a \in seps \cup {0}, b \in seps :
               a < b /\ Beyond(a, b) => \E k \in 1 .. m - 1 : ts[k] = SubSeq(s, a + 1, b - 1)
        /\ \A i \in 1..n : s[i] # separator =>
               \E k \in 1..m : \E j \in 1..Len(ts[k]) : ts[k][j] = s[i]
    BY DEF AreParts
  <1>4. PICK last \in seps \cup {0} : Beyond(last, n + 1) /\ ts[m] = SubSeq(s, last + 1, n)
    BY DEF AreParts
  <1>5. /\ m \in Nat \ {0}
        /\ parts \in Seq(Seq(V)) \ {<<>>}
        /\ c = separator => /\ Len(parts) = m + 1
                            /\ \A k \in 1..m : parts[k] = ts[k]
                            /\ parts[m + 1] = <<>>
        /\ c # separator => /\ Len(parts) = m
                            /\ \A k \in 1 .. m - 1 : parts[k] = ts[k]
                            /\ parts[m] = Append(ts[m], c)
    <2>1. ts # <<>>
      BY <1>3
    <2> HIDE DEF n, next, seps, parts, m, Beyond
    <2>2. NextParts(V, separator, ts, c, SplitTokens(separator, ts, c))
      BY <2>1, SplitTokensProperties
    <2> QED
      BY <2>2, Zenon DEF NextParts, m, parts
  <1>6. /\ \A a \in 0..n, b \in 0..n : SubSeq(next, a + 1, b) = SubSeq(s, a + 1, b)
        /\ \A a \in 0..n : SubSeq(next, a + 1, n + 1) = Append(SubSeq(s, a + 1, n), c)
    BY SubSeqOfAppend, ZenonT(30)
  <1>7. \A a \in 0..n, b \in 0 .. n + 1 : NoneBetween(next, separator, a, b) <=> Beyond(a, b)
    <2>1. \A a \in 0..n, b \in 0 .. n + 1 : \A i \in a + 1 .. b - 1 : i \in 1..n
      BY <1>1
    <2> QED
      BY <1>1, <2>1 DEF NoneBetween
  <1>8. \A k \in 1..m : ts[k] \in Seq(V)
    BY ElementOfSeq
  <1>9. Separators(next, separator) = IF c = separator THEN seps \cup {n + 1} ELSE seps
    BY <1>1 DEF Separators
  <1> HIDE DEF n, next, seps, parts, m, Beyond
  \* The separators that were there already.
  <1>10. ASSUME NEW a \in seps \cup {0}, NEW b \in seps, a < b
         PROVE  /\ NoneBetween(next, separator, a, b) <=> Beyond(a, b)
                /\ SubSeq(next, a + 1, b - 1) = SubSeq(s, a + 1, b - 1)
    <2>1. a \in 0..n /\ b \in 0 .. n + 1 /\ b - 1 \in 0..n
      BY <1>1, <1>2
    <2> QED
      BY <1>6, <1>7, <2>1
  <1>11. last \in 0..n
    BY <1>1, <1>2
  <1>12. CASE c = separator
    <2>1. Len(parts) = Cardinality(Separators(next, separator)) + 1
      <3>1. n + 1 \notin seps
        BY <1>1, <1>2
      <3>2. Cardinality(seps \cup {n + 1}) = Cardinality(seps) + 1
        BY <1>2, <3>1, FS_AddElement
      <3> QED
        BY <1>3, <1>5, <1>9, <1>12, <3>2
    <2>2. /\ n + 1 \in Nat /\ (n + 1) - 1 = n /\ last < n + 1 /\ n + 1 \in 0 .. n + 1
          /\ n \in 0..n
      BY <1>1, <1>11
    <2>3. /\ NoneBetween(next, separator, last, n + 1)
          /\ parts[m] = SubSeq(next, last + 1, (n + 1) - 1)
      <3>1. m \in 1..m
        BY <1>5
      <3>2. NoneBetween(next, separator, last, n + 1)
        BY <1>4, <1>7, <1>11, <2>2 DEF n
      <3>3. parts[m] = ts[m]
        BY <1>5, <1>12, <3>1
      <3>4. SubSeq(next, last + 1, n) = SubSeq(s, last + 1, n)
        BY <1>6, <1>11, <2>2
      <3> QED
        BY <1>4, <2>2, <3>2, <3>3, <3>4, Zenon DEF n
    <2>4. \A k \in 1 .. Len(parts) - 1 :
            \E a \in Separators(next, separator) \cup {0}, b \in Separators(next, separator) :
                /\ a < b /\ NoneBetween(next, separator, a, b)
                /\ parts[k] = SubSeq(next, a + 1, b - 1)
      <3> SUFFICES ASSUME NEW k \in 1 .. Len(parts) - 1
                   PROVE  \E a \in seps \cup {0}, b \in seps \cup {n + 1} :
                              /\ a < b /\ NoneBetween(next, separator, a, b)
                              /\ parts[k] = SubSeq(next, a + 1, b - 1)
        BY <1>9, <1>12
      <3>1. k \in 1..m /\ parts[k] = ts[k]
        BY <1>5, <1>12
      <3>2. CASE k = m
        BY <2>2, <2>3, <3>2
      <3>3. CASE k # m
        <4>1. k \in 1 .. m - 1
          BY <1>5, <3>1, <3>3
        <4>2. PICK a \in seps \cup {0}, b \in seps :
                  a < b /\ Beyond(a, b) /\ ts[k] = SubSeq(s, a + 1, b - 1)
          BY <1>3, <4>1
        <4>3. /\ NoneBetween(next, separator, a, b)
              /\ parts[k] = SubSeq(next, a + 1, b - 1)
          BY <1>10, <3>1, <4>2
        <4> QED
          BY <4>2, <4>3, Zenon
      <3> QED
        BY <3>2, <3>3
    <2>5. \A a \in Separators(next, separator) \cup {0}, b \in Separators(next, separator) :
              a < b /\ NoneBetween(next, separator, a, b) =>
                  \E k \in 1 .. Len(parts) - 1 : parts[k] = SubSeq(next, a + 1, b - 1)
      <3>4. Separators(next, separator) = seps \cup {n + 1}
        BY <1>9, <1>12
      <3>5. (seps \cup {n + 1}) \cup {0} = seps \cup {0, n + 1}
        OBVIOUS
      <3>6. Len(parts) - 1 = m
        BY <1>5, <1>12
      <3> SUFFICES ASSUME NEW a \in seps \cup {0, n + 1}, NEW b \in seps \cup {n + 1},
                          a < b, NoneBetween(next, separator, a, b)
                   PROVE  \E k \in 1 .. m : parts[k] = SubSeq(next, a + 1, b - 1)
        BY <3>4, <3>5, <3>6, Zenon
      <3>1. a \in seps \cup {0} /\ a \in 0..n
        BY <1>1, <1>2
      <3>2. CASE b = n + 1
        <4>1. a = last
          <5>1. \A i \in a + 1 .. n : s[i] # separator
            BY <1>1, <3>1, <3>2 DEF NoneBetween
          <5>2. \A i \in last + 1 .. n : s[i] # separator
            BY <1>1, <1>4 DEF NoneBetween, Beyond, n
          <5>3. \A i \in seps : s[i] = separator /\ i \in 1..n
            BY <1>2 DEF seps, Separators
          <5>4. ~(last < a) /\ ~(a < last)
            BY <1>1, <1>11, <3>1, <5>1, <5>2, <5>3
          <5> QED
            BY <1>11, <3>1, <5>4
        <4>2. m \in 1..m
          BY <1>5
        <4> QED
          BY <2>3, <3>2, <4>1, <4>2, Zenon
      <3>3. CASE b \in seps
        <4>1. Beyond(a, b) /\ SubSeq(next, a + 1, b - 1) = SubSeq(s, a + 1, b - 1)
          BY <1>10, <3>1, <3>3
        <4>2. PICK k \in 1 .. m - 1 : ts[k] = SubSeq(s, a + 1, b - 1)
          BY <1>3, <3>1, <3>3, <4>1
        <4>3. k \in 1..m /\ parts[k] = ts[k]
          BY <1>5, <1>12
        <4> QED
          BY <4>1, <4>2, <4>3, Zenon
      <3> QED
        BY <3>2, <3>3
    <2>6. \E a \in Separators(next, separator) \cup {0} :
              /\ NoneBetween(next, separator, a, Len(next) + 1)
              /\ parts[Len(parts)] = SubSeq(next, a + 1, Len(next))
      <3>1. n + 1 \in Separators(next, separator) \cup {0}
        BY <1>9, <1>12
      <3>2. NoneBetween(next, separator, n + 1, Len(next) + 1)
        BY <1>1 DEF NoneBetween
      <3>3. SubSeq(next, (n + 1) + 1, Len(next)) = <<>>
        BY <1>1, SubSeqEmpty
      <3>4. parts[Len(parts)] = <<>>
        BY <1>5, <1>12
      <3> QED
        BY <3>1, <3>2, <3>3, <3>4, Zenon
    <2>7. \A i \in 1..Len(next) : next[i] # separator =>
              \E k \in 1..Len(parts) : \E j \in 1..Len(parts[k]) : parts[k][j] = next[i]
      <3> SUFFICES ASSUME NEW i \in 1..Len(next), next[i] # separator
                   PROVE  \E k \in 1..Len(parts) : \E j \in 1..Len(parts[k]) :
                              parts[k][j] = next[i]
        OBVIOUS
      <3>1. i \in 1..n /\ next[i] = s[i]
        BY <1>1, <1>12
      <3>2. PICK k \in 1..m : \E j \in 1..Len(ts[k]) : ts[k][j] = s[i]
        BY <1>3, <3>1
      <3>3. k \in 1..Len(parts) /\ parts[k] = ts[k]
        BY <1>5, <1>12
      <3> QED
        BY <3>1, <3>2, <3>3, Zenon
    <2> QED
      BY <1>5, <2>1, <2>4, <2>5, <2>6, <2>7, Zenon DEF AreParts, next, parts
  <1>13. CASE c # separator
    <2>1. Separators(next, separator) = seps /\ Len(parts) = m
      BY <1>5, <1>9, <1>13
    <2>2. \A k \in 1 .. m - 1 : \E a \in seps \cup {0}, b \in seps :
              /\ a < b /\ NoneBetween(next, separator, a, b)
              /\ parts[k] = SubSeq(next, a + 1, b - 1)
      <3> SUFFICES ASSUME NEW k \in 1 .. m - 1
                   PROVE  \E a \in seps \cup {0}, b \in seps :
                              /\ a < b /\ NoneBetween(next, separator, a, b)
                              /\ parts[k] = SubSeq(next, a + 1, b - 1)
        OBVIOUS
      <3>1. PICK a \in seps \cup {0}, b \in seps :
                a < b /\ Beyond(a, b) /\ ts[k] = SubSeq(s, a + 1, b - 1)
        BY <1>3
      <3>2. /\ NoneBetween(next, separator, a, b)
            /\ SubSeq(next, a + 1, b - 1) = SubSeq(s, a + 1, b - 1)
        BY <1>10, <3>1
      <3>3. parts[k] = ts[k]
        BY <1>5, <1>13
      <3> QED
        BY <3>1, <3>2, <3>3, Zenon
    <2>3. \A a \in seps \cup {0}, b \in seps :
              a < b /\ NoneBetween(next, separator, a, b) =>
                  \E k \in 1 .. m - 1 : parts[k] = SubSeq(next, a + 1, b - 1)
      <3> SUFFICES ASSUME NEW a \in seps \cup {0}, NEW b \in seps,
                          a < b, NoneBetween(next, separator, a, b)
                   PROVE  \E k \in 1 .. m - 1 : parts[k] = SubSeq(next, a + 1, b - 1)
        OBVIOUS
      <3>1. Beyond(a, b) /\ SubSeq(next, a + 1, b - 1) = SubSeq(s, a + 1, b - 1)
        BY <1>10
      <3>2. PICK k \in 1 .. m - 1 : ts[k] = SubSeq(s, a + 1, b - 1)
        BY <1>3, <3>1
      <3>3. parts[k] = ts[k]
        BY <1>5, <1>13
      <3> QED
        BY <3>1, <3>2, <3>3, Zenon
    <2>4. /\ NoneBetween(next, separator, last, Len(next) + 1)
          /\ parts[m] = SubSeq(next, last + 1, Len(next))
      <3>1. parts[m] = Append(ts[m], c)
        BY <1>5, <1>13
      <3>2. SubSeq(next, last + 1, n + 1) = Append(SubSeq(s, last + 1, n), c)
        BY <1>6, <1>11
      <3>3. \A i \in last + 1 .. n : s[i] # separator
        BY <1>1, <1>4 DEF NoneBetween, Beyond, n
      <3>4. \A i \in last + 1 .. n + 1 : next[i] # separator
        BY <1>1, <1>11, <1>13, <3>3
      <3>5. (Len(next) + 1) - 1 = n + 1
        BY <1>1
      <3>6. NoneBetween(next, separator, last, Len(next) + 1)
        BY <3>4, <3>5, Zenon DEF NoneBetween
      <3> QED
        BY <1>1, <1>4, <3>1, <3>2, <3>6, Zenon DEF n
    <2>5. \A i \in 1..Len(next) : next[i] # separator =>
              \E k \in 1..m : \E j \in 1..Len(parts[k]) : parts[k][j] = next[i]
      <3> SUFFICES ASSUME NEW i \in 1..Len(next), next[i] # separator
                   PROVE  \E k \in 1..m : \E j \in 1..Len(parts[k]) :
                              parts[k][j] = next[i]
        OBVIOUS
      <3>1. /\ m \in 1..m /\ parts[m] = Append(ts[m], c)
            /\ Len(parts[m]) = Len(ts[m]) + 1 /\ Len(ts[m]) \in Nat
            /\ \A j \in 1..Len(ts[m]) : parts[m][j] = ts[m][j]
            /\ parts[m][Len(ts[m]) + 1] = c
        <4>1. m \in 1..m
          BY <1>5
        <4>2. ts[m] \in Seq(V) /\ parts[m] = Append(ts[m], c)
          BY <1>5, <1>8, <1>13, <4>1
        <4> QED
          BY <4>1, <4>2, AppendProperties, LenProperties
      <3>2. CASE i = n + 1
        <4>1. Len(ts[m]) + 1 \in 1..Len(parts[m])
          BY <3>1
        <4> QED
          BY <1>1, <3>1, <3>2, <4>1
      <3>3. CASE i # n + 1
        <4>1. i \in 1..n /\ next[i] = s[i]
          BY <1>1, <3>3
        <4>5. PICK k \in 1..m : \E j \in 1..Len(ts[k]) : ts[k][j] = s[i]
          BY <1>3, <4>1
        <4>2. PICK j \in 1..Len(ts[k]) : ts[k][j] = s[i]
          BY <4>5
        <4>3. CASE k = m
          <5>1. j \in 1..Len(parts[m])
            BY <3>1, <4>3
          <5>2. parts[m][j] = next[i]
            BY <3>1, <4>1, <4>2, <4>3
          <5> QED
            BY <3>1, <5>1, <5>2
        <4>4. CASE k # m
          <5>1. k \in 1 .. m - 1
            BY <1>5, <4>4
          <5>2. parts[k] = ts[k]
            BY <1>5, <1>13, <5>1
          <5> QED
            BY <4>1, <4>2, <5>2, Zenon
        <4> QED
          BY <4>3, <4>4
      <3> QED
        BY <3>2, <3>3
    <2>6. parts # <<>> /\ m = Cardinality(seps) + 1
      BY <1>3, <1>5
    <2>7. Len(parts) = Cardinality(Separators(next, separator)) + 1
      BY <2>1, <2>6
    <2>8. \E a \in Separators(next, separator) \cup {0} :
              /\ NoneBetween(next, separator, a, Len(next) + 1)
              /\ parts[Len(parts)] = SubSeq(next, a + 1, Len(next))
      <3>1. last \in Separators(next, separator) \cup {0}
        BY <2>1
      <3> QED
        BY <2>1, <2>4, <3>1, Zenon
    <2>10. \A k \in 1 .. Len(parts) - 1 :
            \E a \in Separators(next, separator) \cup {0}, b \in Separators(next, separator) :
                /\ a < b /\ NoneBetween(next, separator, a, b)
                /\ parts[k] = SubSeq(next, a + 1, b - 1)
      BY <2>1, <2>2, Zenon
    <2>11. \A a \in Separators(next, separator) \cup {0}, b \in Separators(next, separator) :
              a < b /\ NoneBetween(next, separator, a, b) =>
                  \E k \in 1 .. Len(parts) - 1 : parts[k] = SubSeq(next, a + 1, b - 1)
      BY <2>1, <2>3, Zenon
    <2>12. \A i \in 1..Len(next) : next[i] # separator =>
              \E k \in 1..Len(parts) : \E j \in 1..Len(parts[k]) : parts[k][j] = next[i]
      BY <2>1, <2>5, Zenon
    <2>9. AreParts(next, separator, parts)
      BY <2>6, <2>7, <2>8, <2>10, <2>11, <2>12, Zenon DEF AreParts
    <2> QED
      BY <2>9, Zenon DEF next, parts
  <1> QED
    BY <1>12, <1>13

\* The parts are those between the separators.
LEMMA TokensAreParts ==
    ASSUME NEW V, NEW separator, NEW s \in Seq(V)
    PROVE  AreParts(s, separator, Tokens(s, separator))
  <1> DEFINE T == {t \in Seq(V) : AreParts(t, separator, Tokens(t, separator))}
  <1>1. <<>> \in T
    <2>1. <<>> \in Seq(V) /\ Len(<<>>) = 0 /\ DOMAIN <<>> = 1..0
      BY EmptySeq
    <2>2. Tokens(<<>>, separator) = << <<>> >>
      <3>1. <<>> \in Seq({separator}) /\ separator \in {separator}
        BY EmptySeq
      <3> QED
        BY <3>1, TokensProperties
    <2>3. Separators(<<>>, separator) = {}
      BY <2>1 DEF Separators
    <2>4. Cardinality({}) = 0
      BY FS_EmptySet
    <2>5. NoneBetween(<<>>, separator, 0, Len(<<>>) + 1)
      BY <2>1 DEF NoneBetween
    <2>6. SubSeq(<<>>, 0 + 1, Len(<<>>)) = <<>>
      BY <2>1, SubSeqEmpty
    <2> DEFINE parts == << <<>> >>
    <2>7. parts # <<>> /\ Len(parts) = 1 /\ parts[1] = <<>>
      OBVIOUS
    <2> HIDE DEF parts
    <2>8. Len(parts) = Cardinality({}) + 1 /\ 1 .. Len(parts) - 1 = {} /\ 1..Len(<<>>) = {}
      BY <2>1, <2>4, <2>7
    <2>9. \E a \in {} \cup {0} :
              /\ NoneBetween(<<>>, separator, a, Len(<<>>) + 1)
              /\ parts[Len(parts)] = SubSeq(<<>>, a + 1, Len(<<>>))
      BY <2>5, <2>6, <2>7
    <2>10. AreParts(<<>>, separator, parts)
      BY <2>3, <2>7, <2>8, <2>9, Zenon DEF AreParts
    <2> QED
      BY <2>1, <2>2, <2>10, Zenon DEF parts
  <1>2. ASSUME NEW t \in T, NEW c \in V PROVE Append(t, c) \in T
    <2> DEFINE ts == Tokens(t, separator)
    <2>1. t \in Seq(V) /\ AreParts(t, separator, ts)
      OBVIOUS
    <2>2. Append(t, c) \in Seq(V)
      BY AppendProperties
    <2> HIDE DEF T
    <2>3. ts \in Seq(Seq(V)) /\ Tokens(Append(t, c), separator) = SplitTokens(separator, ts, c)
      BY <2>1, TokensProperties
    <2> HIDE DEF ts
    <2>4. AreParts(Append(t, c), separator, SplitTokens(separator, ts, c))
      BY <2>1, <2>3, PartsNext
    <2> QED
      BY <2>2, <2>3, <2>4, Zenon DEF T
  <1>3. T = Seq(V)
    <2>1. T \in SUBSET Seq(V)
      OBVIOUS
    <2> HIDE DEF T
    <2> QED
      BY <1>1, <1>2, <2>1, SeqInduction
  <1> QED
    BY <1>3

-------------------------------------------------------------------------------
(* NumbersAreExact: the values of the parts. *)

\* One more digit.
LEMMA ValueOfProperties ==
    ASSUME NEW digits \in Seq(DOMAIN Digits), NEW d \in DOMAIN Digits
    PROVE  /\ ValueOf(digits) \in Nat /\ ValueOf(<<>>) = 0
           /\ ValueOf(Append(digits, d)) = 10 * ValueOf(digits) + Digits[d]
           /\ Digits[d] \in 0..9
  <1>1. \A t : ValueOf(t) = Adding!Fold(0, t)
    BY DEF ValueOf, Adding!Fold, FoldLeft, MapThenFoldSet, Max, Adding!Greatest
  <1>2. \A c \in DOMAIN Digits : Digits[c] \in 0..9
    BY DEF Digits
  <1>3. \A n \in Nat, c \in DOMAIN Digits : AddDigit(n, c) \in Nat
    BY <1>2 DEF AddDigit
  <1>4. Adding!Fold(0, digits) \in Nat
    <2>1. 0 \in Nat
      OBVIOUS
    <2> QED
      BY <1>3, <2>1, NaturalInduction, Adding!FoldType
  <1>5. Adding!Fold(0, <<>>) = 0
    BY NaturalInduction, Adding!FoldEmpty
  <1>6. Adding!Fold(0, Append(digits, d)) = AddDigit(Adding!Fold(0, digits), d)
    BY NaturalInduction, Adding!FoldAppend
  <1> QED
    BY <1>1, <1>2, <1>4, <1>5, <1>6, Zenon DEF AddDigit

IsNumber(token) == IsAllDigits(token) /\ ValueOf(token) <= IntMax

\* A number is parsed exactly if it is made of digits and in range.
LEMMA ParsedNumber ==
    ASSUME NEW V, NEW token \in Seq(V)
    PROVE  /\ (ParseChapterNumber(token) # None) <=> IsNumber(token)
           /\ IsNumber(token) => /\ ParseChapterNumber(token) = ValueOf(token)
                                 /\ ValueOf(token) \in 0..IntMax
  <1>1. ASSUME IsAllDigits(token) PROVE ValueOf(token) \in Nat
    <2>1. \A i \in 1..Len(token) : token[i] \in DOMAIN Digits
      BY <1>1 DEF IsAllDigits
    <2>2. token \in Seq(DOMAIN Digits)
      BY <2>1
    <2>3. "zero" \in DOMAIN Digits
      BY DEF Digits
    <2> QED
      BY <2>2, <2>3, ValueOfProperties
  <1>2. CASE IsNumber(token)
    <2>1. ParseChapterNumber(token) = ValueOf(token)
      BY <1>2, Zenon DEF IsNumber, ParseChapterNumber
    <2>2. ValueOf(token) \in Nat /\ ValueOf(token) <= IntMax
      BY <1>1, <1>2, Zenon DEF IsNumber
    <2> QED
      BY <1>2, <2>1, <2>2, IntMaxAssumption, NoneAssumption
  <1>3. CASE ~IsNumber(token)
    BY <1>3, Zenon DEF IsNumber, ParseChapterNumber
  <1> QED
    BY <1>2, <1>3

ListState(chapters, error) == [chapters |-> chapters, error |-> error]

\* The numbers of these parts, each of them once.
AreNumbers(ts, chapters) ==
    /\ \A k \in 1..Len(ts) : IsNumber(ts[k])
    /\ chapters = {ValueOf(ts[k]) : k \in 1..Len(ts)}
    /\ IsFiniteSet(chapters) /\ Cardinality(chapters) = Len(ts)

\* A part is taken exactly if it is a number that was not there.
Inserts(chapters, error, token) ==
    \E next, e : /\ InsertNumber(ListState(chapters, error), token) = ListState(next, e)
                 /\ e = "none" <=> /\ error = "none"
                                   /\ ParseChapterNumber(token) # None
                                   /\ ParseChapterNumber(token) \notin chapters
                 /\ e = "none" => next = chapters \cup {ParseChapterNumber(token)}

\* One round of the loop of parse_chapter_list.
LEMMA InsertStep ==
    ASSUME NEW chapters, NEW error, NEW token
    PROVE  Inserts(chapters, error, token)
  <1> DEFINE state == ListState(chapters, error)
             n == ParseChapterNumber(token)
  <1>1. /\ state.chapters = chapters /\ state.error = error
        /\ \A e : [state EXCEPT !.error = e] = ListState(chapters, e)
        /\ [state EXCEPT !.chapters = @ \cup {n}] = ListState(chapters \cup {n}, error)
    BY DEF ListState
  <1>2. "non_numeric" # "none" /\ "duplicate" # "none"
    OBVIOUS
  <1> HIDE DEF state
  <1>3. CASE error # "none"
    <2>1. state.error # "none"
      BY <1>1, <1>3
    <2>2. InsertNumber(state, token) = state
      BY <2>1 DEF InsertNumber
    <2> QED
      BY <1>3, <2>2 DEF state, Inserts
  <1>4. CASE error = "none" /\ n = None
    <2>3. state.error = "none" /\ n \notin state.chapters \ {None}
      BY <1>1, <1>4
    <2>1. InsertNumber(state, token) = [state EXCEPT !.error = "non_numeric"]
      BY <1>4, <2>3, Zenon DEF InsertNumber
    <2>2. InsertNumber(ListState(chapters, error), token) = ListState(chapters, "non_numeric")
      BY <1>1, <2>1, Zenon DEF state
    <2> QED
      BY <1>2, <1>4, <2>2, Zenon DEF Inserts
  <1>5. CASE error = "none" /\ n # None /\ n \in chapters
    <2>1. state.error = "none" /\ n # None /\ n \in state.chapters \ {None}
      BY <1>1, <1>5
    <2>2. InsertNumber(state, token) = [state EXCEPT !.error = "duplicate"]
      BY <2>1, Zenon DEF InsertNumber
    <2>3. InsertNumber(ListState(chapters, error), token) = ListState(chapters, "duplicate")
      BY <1>1, <2>2, Zenon DEF state
    <2> QED
      BY <1>2, <1>5, <2>3, Zenon DEF Inserts
  <1>6. CASE error = "none" /\ n # None /\ n \notin chapters
    <2>3. state.error = "none" /\ n # None /\ n \notin state.chapters \ {None}
      BY <1>1, <1>6
    <2>1. InsertNumber(state, token) = [state EXCEPT !.chapters = @ \cup {n}]
      BY <2>3, Zenon DEF InsertNumber
    <2>2. InsertNumber(state, token) = ListState(chapters \cup {n}, error)
      BY <1>1, <2>1, Zenon
    <2> QED
      BY <1>6, <2>2, Zenon DEF state, Inserts
  <1> QED
    BY <1>3, <1>4, <1>5, <1>6

\* AreNumbers holds after one more part.
LEMMA NumbersNext ==
    ASSUME NEW V, NEW ts \in Seq(Seq(V)), NEW token \in Seq(V), NEW chapters,
           AreNumbers(ts, chapters), IsNumber(token),
           ParseChapterNumber(token) \notin chapters
    PROVE  AreNumbers(Append(ts, token), chapters \cup {ParseChapterNumber(token)})
  <1> DEFINE next == Append(ts, token)
             m == Len(ts)
             n == ValueOf(token)
  <1>1. ParseChapterNumber(token) = n
    BY ParsedNumber
  <1>2. /\ m \in Nat /\ Len(next) = m + 1 /\ next[m + 1] = token
        /\ \A k \in 1..m : next[k] = ts[k]
    BY AppendProperties, LenProperties
  <1> HIDE DEF next, m, n
  <1>3. /\ \A k \in 1..m : IsNumber(ts[k])
        /\ chapters = {ValueOf(ts[k]) : k \in 1..m}
        /\ IsFiniteSet(chapters) /\ Cardinality(chapters) = m
    BY DEF AreNumbers, m
  <1>4. \A k \in 1 .. m + 1 : k \in 1..m \/ k = m + 1
    BY <1>2
  <1>5. \A k \in 1 .. m + 1 : IsNumber(next[k])
    BY <1>2, <1>3, <1>4, Zenon
  <1>6. {ValueOf(next[k]) : k \in 1 .. m + 1} = chapters \cup {n}
    <2>1. m + 1 \in 1 .. m + 1 /\ \A k \in 1..m : k \in 1 .. m + 1
      BY <1>2
    <2>2. ValueOf(next[m + 1]) = n
      BY <1>2, Zenon DEF n
    <2>3. \A k \in 1..m : ValueOf(next[k]) = ValueOf(ts[k])
      BY <1>2, Zenon
    <2> QED
      BY <1>3, <1>4, <2>1, <2>2, <2>3
  <1>7. IsFiniteSet(chapters \cup {n}) /\ Cardinality(chapters \cup {n}) = m + 1
    <2>1. n \notin chapters
      BY <1>1
    <2> QED
      BY <1>3, <2>1, FS_AddElement
  <1> QED
    BY <1>1, <1>2, <1>5, <1>6, <1>7, Zenon DEF AreNumbers, next

\* A part is no number, or one of the numbers is there more than once.
IsBadList(ts) ==
    \/ \E k \in 1..Len(ts) : ~IsNumber(ts[k])
    \/ LET numbers == {ValueOf(ts[k]) : k \in 1..Len(ts)} IN
       IsFiniteSet(numbers) /\ Cardinality(numbers) < Len(ts)

\* A list with one more part is bad if it was so before, or because of this part.
LEMMA BadNext ==
    ASSUME NEW V, NEW ts \in Seq(Seq(V)), NEW token \in Seq(V), NEW chapters,
           \/ IsBadList(ts)
           \/ AreNumbers(ts, chapters) /\ ~IsNumber(token)
           \/ AreNumbers(ts, chapters) /\ ValueOf(token) \in chapters
    PROVE  IsBadList(Append(ts, token))
  <1> DEFINE next == Append(ts, token)
             m == Len(ts)
             n == ValueOf(token)
             numbers == {ValueOf(ts[k]) : k \in 1..m}
  <1>1. /\ m \in Nat /\ Len(next) = m + 1 /\ next[m + 1] = token
        /\ \A k \in 1..m : next[k] = ts[k]
    BY AppendProperties, LenProperties
  <1> HIDE DEF next, m, n
  <1>2. \A k \in 1 .. m + 1 : k \in 1..m \/ k = m + 1
    BY <1>1
  <1>3. m + 1 \in 1 .. m + 1 /\ \A k \in 1..m : k \in 1 .. m + 1
    BY <1>1
  <1>4. {ValueOf(next[k]) : k \in 1 .. m + 1} = numbers \cup {n}
    <2>1. ValueOf(next[m + 1]) = n
      BY <1>1, Zenon DEF n
    <2>2. \A k \in 1..m : ValueOf(next[k]) = ValueOf(ts[k])
      BY <1>1, Zenon
    <2> QED
      BY <1>2, <1>3, <2>1, <2>2
  <1>5. CASE \E k \in 1..m : ~IsNumber(ts[k])
    BY <1>1, <1>3, <1>5, Zenon DEF IsBadList, next
  <1>6. CASE ~IsNumber(token)
    BY <1>1, <1>3, <1>6, Zenon DEF IsBadList, next
  <1>7. CASE /\ IsFiniteSet(numbers)
             /\ Cardinality(numbers) < m \/ (Cardinality(numbers) = m /\ n \in numbers)
    <2> HIDE DEF numbers
    <2>1. /\ IsFiniteSet(numbers \cup {n}) /\ Cardinality(numbers) \in Nat
          /\ Cardinality(numbers \cup {n}) =
                IF n \in numbers THEN Cardinality(numbers) ELSE Cardinality(numbers) + 1
      BY <1>7, FS_AddElement, FS_CardinalityType
    <2>2. Cardinality(numbers \cup {n}) < m + 1
      BY <1>1, <1>7, <2>1
    <2> QED
      BY <1>1, <1>4, <2>1, <2>2, Zenon DEF IsBadList, next
  <1>8. ASSUME IsBadList(ts), ~ \E k \in 1..m : ~IsNumber(ts[k])
        PROVE  IsFiniteSet(numbers) /\ Cardinality(numbers) < m
    BY <1>8, Zenon DEF IsBadList, m
  <1>9. ASSUME AreNumbers(ts, chapters), n \in chapters
        PROVE  IsFiniteSet(numbers) /\ Cardinality(numbers) = m /\ n \in numbers
    BY <1>9 DEF AreNumbers, m
  <1>10. CASE IsBadList(ts)
    BY <1>5, <1>7, <1>8, <1>10, Zenon
  <1>11. CASE AreNumbers(ts, chapters) /\ ValueOf(token) \in chapters
    <2>1. n \in chapters
      BY <1>11 DEF n
    <2> QED
      BY <1>7, <1>9, <1>11, <2>1, Zenon
  <1> QED
    BY <1>6, <1>10, <1>11, Zenon

\* The list that is taken without an error has the numbers of its parts, and a list is not
\* taken only if it is bad.
LEMMA InsertedNumbers ==
    ASSUME NEW V, NEW tokens \in Seq(Seq(V))
    PROVE  \E chapters, error :
               /\ Inserting!Fold(ListState({}, "none"), tokens) = ListState(chapters, error)
               /\ error = "none" => AreNumbers(tokens, chapters)
               /\ error # "none" => IsBadList(tokens)
  <1> DEFINE base == ListState({}, "none")
             T == {ts \in Seq(Seq(V)) : \E chapters, error :
                      /\ Inserting!Fold(base, ts) = ListState(chapters, error)
                      /\ error = "none" => AreNumbers(ts, chapters)
                      /\ error # "none" => IsBadList(ts)}
  <1>1. <<>> \in T
    <2>1. <<>> \in Seq(Seq(V)) /\ Len(<<>>) = 0
      BY EmptySeq
    <2>2. Inserting!Fold(base, <<>>) = base
      BY NaturalInduction, Inserting!FoldEmpty
    <2>3. AreNumbers(<<>>, {})
      <3>1. IsFiniteSet({}) /\ Cardinality({}) = 0
        BY FS_EmptySet
      <3>2. 1..Len(<<>>) = {}
        BY <2>1
      <3>3. {ValueOf(<<>>[k]) : k \in {}} = {}
        OBVIOUS
      <3> QED
        BY <2>1, <3>1, <3>2, <3>3, Zenon DEF AreNumbers
    <2> QED
      BY <2>1, <2>2, <2>3, Zenon
  <1>2. ASSUME NEW ts \in T, NEW token \in Seq(V) PROVE Append(ts, token) \in T
    <2>1. PICK chapters, error :
              /\ Inserting!Fold(base, ts) = ListState(chapters, error)
              /\ error = "none" => AreNumbers(ts, chapters)
              /\ error # "none" => IsBadList(ts)
      OBVIOUS
    <2>2. ts \in Seq(Seq(V)) /\ Append(ts, token) \in Seq(Seq(V))
      BY AppendProperties
    <2> HIDE DEF T, base
    <2>3. Inserting!Fold(base, Append(ts, token)) =
              InsertNumber(Inserting!Fold(base, ts), token)
      BY <2>2, NaturalInduction, Inserting!FoldAppend
    <2>4. PICK next, e :
              /\ InsertNumber(ListState(chapters, error), token) = ListState(next, e)
              /\ e = "none" <=> /\ error = "none"
                                /\ ParseChapterNumber(token) # None
                                /\ ParseChapterNumber(token) \notin chapters
              /\ e = "none" => next = chapters \cup {ParseChapterNumber(token)}
      <3>1. Inserts(chapters, error, token)
        BY InsertStep
      <3> QED
        BY <3>1, Zenon DEF Inserts
    <2>5. ASSUME e = "none" PROVE AreNumbers(Append(ts, token), next)
      <3>1. IsNumber(token)
        BY <2>4, <2>5, ParsedNumber
      <3>2. AreNumbers(Append(ts, token), chapters \cup {ParseChapterNumber(token)})
        BY <2>1, <2>2, <2>4, <2>5, <3>1, NumbersNext
      <3> QED
        BY <2>4, <2>5, <3>2, Zenon
    <2>6. Inserting!Fold(base, Append(ts, token)) = ListState(next, e)
      BY <2>1, <2>3, <2>4, Zenon
    <2>7. ASSUME e # "none" PROVE IsBadList(Append(ts, token))
      <3>1. \/ error # "none"
            \/ error = "none" /\ ~IsNumber(token)
            \/ error = "none" /\ IsNumber(token) /\ ParseChapterNumber(token) \in chapters
        BY <2>4, <2>7, ParsedNumber
      <3>2. IsNumber(token) => ParseChapterNumber(token) = ValueOf(token)
        BY ParsedNumber
      <3>3. \/ IsBadList(ts)
            \/ AreNumbers(ts, chapters) /\ ~IsNumber(token)
            \/ AreNumbers(ts, chapters) /\ ValueOf(token) \in chapters
        BY <2>1, <3>1, <3>2, Zenon
      <3> QED
        BY <2>2, <3>3, BadNext
    <2> QED
      BY <2>2, <2>5, <2>6, <2>7, Zenon DEF T
  <1>3. T = Seq(Seq(V))
    <2>1. T \in SUBSET Seq(Seq(V))
      OBVIOUS
    <2> HIDE DEF T
    <2> QED
      BY <1>1, <1>2, <2>1, SeqInduction
  <1> QED
    BY <1>3

-------------------------------------------------------------------------------
(* NumbersAreExact: the list of chapters. *)

Pairs(s, separator) ==
    {ab \in (Separators(s, separator) \cup {0}) \X (Separators(s, separator) \cup {Len(s) + 1}) :
        ab[1] < ab[2] /\ Separators(s, separator) \cap (ab[1] + 1 .. ab[2] - 1) = {}}

\* Each part stands between a pair of separators, and each pair has a part in between.
ArePaired(s, separator, parts) ==
    /\ \A k \in 1..Len(parts) : \E ab \in Pairs(s, separator) :
           parts[k] = SubSeq(s, ab[1] + 1, ab[2] - 1)
    /\ \A ab \in Pairs(s, separator) : \E k \in 1..Len(parts) :
           parts[k] = SubSeq(s, ab[1] + 1, ab[2] - 1)

\* Parts and pairs of neighbouring separators are the same in number and place.
LEMMA PartsOfPairs ==
    ASSUME NEW V, NEW separator, NEW s \in Seq(V), NEW parts, AreParts(s, separator, parts),
           Len(parts) \in Nat
    PROVE  ArePaired(s, separator, parts)
  <1> DEFINE n == Len(s)
             m == Len(parts)
             seps == Separators(s, separator)
  <1>1. n \in Nat /\ DOMAIN s = 1..n
    BY LenProperties
  <1>2. /\ seps \in SUBSET (1..n) /\ IsFiniteSet(seps) /\ Cardinality(seps) \in Nat
        /\ \A i \in 1..n : i \in seps <=> s[i] = separator
    <2>1. /\ seps \in SUBSET (1..n) /\ 1 \in Int /\ n \in Int
          /\ \A i \in 1..n : i \in seps <=> s[i] = separator
      BY <1>1 DEF Separators
    <2> HIDE DEF seps, n
    <2> QED
      BY <2>1, PartsOfInterval
  <1>3. m = Cardinality(seps) + 1 /\ m \in Nat \ {0}
    <2>1. m = Cardinality(seps) + 1
      BY Zenon DEF AreParts
    <2> HIDE DEF seps
    <2> QED
      BY <1>2, <2>1
  <1>4. /\ \A k \in 1 .. m - 1 : \E a \in seps \cup {0}, b \in seps :
               a < b /\ NoneBetween(s, separator, a, b) /\ parts[k] = SubSeq(s, a + 1, b - 1)
        /\ \A a \in seps \cup {0}, b \in seps :
               a < b /\ NoneBetween(s, separator, a, b) =>
                   \E k \in 1 .. m - 1 : parts[k] = SubSeq(s, a + 1, b - 1)
    BY Zenon DEF AreParts
  <1>5. PICK last \in seps \cup {0} :
            NoneBetween(s, separator, last, n + 1) /\ parts[m] = SubSeq(s, last + 1, n)
    BY Zenon DEF AreParts
  <1> HIDE DEF n, m, seps
  <1>6. ASSUME NEW a \in seps \cup {0}, NEW b \in seps \cup {n + 1}
        PROVE  <<a, b>> \in Pairs(s, separator) <=>
                   a < b /\ NoneBetween(s, separator, a, b)
    <2>1. a \in 0..n /\ b \in 1 .. n + 1 /\ \A i \in a + 1 .. b - 1 : i \in 1..n
      BY <1>1, <1>2
    <2>2. seps \cap (a + 1 .. b - 1) = {} <=> NoneBetween(s, separator, a, b)
      BY <1>2, <2>1 DEF NoneBetween
    <2> QED
      BY <2>2 DEF Pairs, seps, n
  <1>7. last < n + 1 /\ n + 1 \in seps \cup {n + 1} /\ (n + 1) - 1 = n /\ m \in 1..m
    BY <1>1, <1>2, <1>3
  <1>8. ASSUME NEW k \in 1..m
        PROVE  \E ab \in Pairs(s, separator) : parts[k] = SubSeq(s, ab[1] + 1, ab[2] - 1)
    <2>1. PICK a \in seps \cup {0}, b \in seps \cup {n + 1} :
              a < b /\ NoneBetween(s, separator, a, b) /\ parts[k] = SubSeq(s, a + 1, b - 1)
      <3>1. CASE k = m
        BY <1>5, <1>7, <3>1
      <3>2. CASE k # m
        <4>1. k \in 1 .. m - 1
          BY <1>3, <3>2
        <4> QED
          BY <1>4, <4>1
      <3> QED
        BY <3>1, <3>2
    <2>2. <<a, b>> \in Pairs(s, separator) /\ <<a, b>>[1] = a /\ <<a, b>>[2] = b
      BY <1>6, <2>1
    <2> QED
      BY <2>1, <2>2, Zenon
  <1>9. ASSUME NEW ab \in Pairs(s, separator)
        PROVE  \E k \in 1..m : parts[k] = SubSeq(s, ab[1] + 1, ab[2] - 1)
    <2>1. PICK a \in seps \cup {0}, b \in seps \cup {n + 1} : ab = <<a, b>>
      BY DEF Pairs, seps, n
    <2>2. a < b /\ NoneBetween(s, separator, a, b) /\ ab[1] = a /\ ab[2] = b
      BY <1>6, <2>1
    <2>3. CASE b \in seps
      <3>1. PICK k \in 1 .. m - 1 : parts[k] = SubSeq(s, a + 1, b - 1)
        BY <1>4, <2>2, <2>3
      <3>2. k \in 1..m
        BY <1>3
      <3> QED
        BY <2>2, <3>1, <3>2, Zenon
    <2>4. CASE b = n + 1
      <3>1. \A i \in last + 1 .. n : i \notin seps
        BY <1>1, <1>2, <1>5, <1>7 DEF NoneBetween
      <3>2. \A i \in a + 1 .. n : i \notin seps
        BY <1>1, <1>2, <1>7, <2>2, <2>4 DEF NoneBetween
      <3>3. last \in 0..n /\ a \in 0..n
        BY <1>1, <1>2
      <3>4. ~(last < a) /\ ~(a < last)
        BY <1>1, <3>1, <3>2, <3>3
      <3>5. last = a
        BY <3>3, <3>4
      <3> QED
        BY <1>5, <1>7, <2>2, <2>4, <3>5, Zenon
    <2> QED
      BY <2>3, <2>4
  <1> QED
    BY <1>8, <1>9, Zenon DEF m, ArePaired

\* A list that is not empty is read part by part, and each part stands between two commas.
LEMMA ListIsRead ==
    ASSUME NEW V, NEW s \in Seq(V), s # <<>>
    PROVE  \E ts \in Seq(Seq(V)) :
               /\ AreParts(s, "comma", ts) /\ ArePaired(s, "comma", ts)
               /\ {ValueOf(ts[k]) : k \in 1..Len(ts)} =
                      {ValueOf(SubSeq(s, ab[1] + 1, ab[2] - 1)) : ab \in Pairs(s, "comma")}
               /\ LET parsed == ParseChapterList(s) IN
                  /\ parsed.error = "none" => AreNumbers(ts, parsed.chapters)
                  /\ parsed.error # "none" => IsBadList(ts)
  <1> DEFINE ts == Tokens(s, "comma")
  <1>1. ts \in Seq(Seq(V)) /\ Len(ts) \in Nat
    <2>1. <<>> \in Seq(V)
      BY EmptySeq
    <2>2. ts \in Seq(Seq(V))
      BY TokensAreFold
    <2> QED
      BY <2>2, LenProperties
  <1>2. AreParts(s, "comma", ts)
    BY TokensAreParts
  <1> HIDE DEF ts
  <1>3. PICK cs, e : /\ ParseChapterList(s) = ListState(cs, e)
                     /\ e = "none" => AreNumbers(ts, cs)
                     /\ e # "none" => IsBadList(ts)
    <2>1. PICK cs, e : /\ Inserting!Fold(ListState({}, "none"), ts) = ListState(cs, e)
                       /\ e = "none" => AreNumbers(ts, cs)
                       /\ e # "none" => IsBadList(ts)
      BY <1>1, InsertedNumbers
    <2>2. FoldLeft(InsertNumber, ListState({}, "none"), ts) =
              Inserting!Fold(ListState({}, "none"), ts)
      BY DEF Inserting!Fold, FoldLeft, MapThenFoldSet, Max, Inserting!Greatest
    <2>3. ParseChapterList(s) = FoldLeft(InsertNumber, ListState({}, "none"), ts)
      BY Zenon DEF ParseChapterList, ListState, ts
    <2> QED
      BY <2>1, <2>2, <2>3, Zenon
  <1>4. ListState(cs, e).chapters = cs /\ ListState(cs, e).error = e
    BY DEF ListState
  <1>5. ArePaired(s, "comma", ts)
    BY <1>1, <1>2, PartsOfPairs
  <1>6. {ValueOf(ts[k]) : k \in 1..Len(ts)} =
            {ValueOf(SubSeq(s, ab[1] + 1, ab[2] - 1)) : ab \in Pairs(s, "comma")}
    <2>1. /\ \A k \in 1..Len(ts) : \E ab \in Pairs(s, "comma") :
                ts[k] = SubSeq(s, ab[1] + 1, ab[2] - 1)
          /\ \A ab \in Pairs(s, "comma") : \E k \in 1..Len(ts) :
                ts[k] = SubSeq(s, ab[1] + 1, ab[2] - 1)
      BY <1>5, Zenon DEF ArePaired
    <2>2. \A k \in 1..Len(ts) : \E ab \in Pairs(s, "comma") :
              ValueOf(ts[k]) = ValueOf(SubSeq(s, ab[1] + 1, ab[2] - 1))
      BY <2>1, Zenon
    <2>3. \A ab \in Pairs(s, "comma") : \E k \in 1..Len(ts) :
              ValueOf(SubSeq(s, ab[1] + 1, ab[2] - 1)) = ValueOf(ts[k])
      BY <2>1, Zenon
    <2> QED
      BY <2>2, <2>3, Zenon
  <1>7. LET parsed == ParseChapterList(s) IN
        /\ parsed.error = "none" => AreNumbers(ts, parsed.chapters)
        /\ parsed.error # "none" => IsBadList(ts)
    BY <1>3, <1>4, Zenon
  <1> QED
    BY <1>1, <1>2, <1>5, <1>6, <1>7

\* A part of a text that has an element.
LEMMA PartProperties ==
    ASSUME NEW V, NEW s \in Seq(V), NEW ab \in Pairs(s, "comma")
    PROVE  LET part == SubSeq(s, ab[1] + 1, ab[2] - 1) IN
           /\ (part # <<>>) <=> ab[1] + 1 < ab[2]
           /\ \A j \in 1..Len(part) : \E i \in 1..Len(s) : part[j] = s[i] /\ s[i] # "comma"
  <1> DEFINE a == ab[1]
             b == ab[2]
             part == SubSeq(s, a + 1, b - 1)
  <1>1. Len(s) \in Nat /\ DOMAIN s = 1..Len(s)
    BY LenProperties
  <1>2. /\ a \in 0..Len(s) /\ b \in 1 .. Len(s) + 1 /\ a < b
        /\ \A i \in a + 1 .. b - 1 : i \in 1..Len(s) => s[i] # "comma"
    BY <1>1 DEF Pairs, Separators
  <1> HIDE DEF a, b
  <1>3. /\ Len(part) = IF a + 1 <= b - 1 THEN (b - 1) - (a + 1) + 1 ELSE 0
        /\ \A j \in 1 .. (b - 1) - (a + 1) + 1 : part[j] = s[(a + 1) + j - 1]
        /\ part \in Seq(V)
    <2>1. /\ a + 1 \in 1 .. Len(s) + 1 /\ b - 1 \in 0..Len(s)
          /\ \A i \in a + 1 .. b - 1 : i \in 1..Len(s)
      BY <1>1, <1>2
    <2> QED
      BY <2>1, SubSeqProperties
  <1> HIDE DEF part
  <1>4. ASSUME NEW j \in 1..Len(part)
        PROVE  \E i \in 1..Len(s) : part[j] = s[i] /\ s[i] # "comma"
    <2>1. /\ j \in 1 .. (b - 1) - (a + 1) + 1
          /\ (a + 1) + j - 1 \in a + 1 .. b - 1 /\ (a + 1) + j - 1 \in 1..Len(s)
      BY <1>1, <1>2, <1>3
    <2> QED
      BY <1>2, <1>3, <2>1, Zenon
  <1>5. (part # <<>>) <=> Len(part) # 0
    BY <1>3, EmptySeq, LenProperties
  <1>6. (part # <<>>) <=> a + 1 < b
    BY <1>1, <1>2, <1>3, <1>5
  <1> QED
    BY <1>4, <1>6 DEF part, a, b

\* What ChapterListIsWhatWasTyped says of any text.
LEMMA ListIsTyped ==
    ASSUME NEW V, NEW s \in Seq(V)
    PROVE  LET parsed == ParseChapterList(s)
               commas == Separators(s, "comma")
               typed == {ValueOf(SubSeq(s, ab[1] + 1, ab[2] - 1)) : ab \in Pairs(s, "comma")} IN
           /\ (parsed.error = "none") <=>
               /\ Range(s) \subseteq DOMAIN Digits \cup {"comma"}
               /\ \A ab \in Pairs(s, "comma") : ab[1] + 1 < ab[2]
               /\ typed \subseteq 0..IntMax
               /\ Cardinality(typed) = Cardinality(commas) + 1
           /\ parsed.error = "none" =>
               /\ parsed.chapters = typed
               /\ Accepts(s, TRUE) <=> commas = {}
  <1> DEFINE parsed == ParseChapterList(s)
             commas == Separators(s, "comma")
             typed == {ValueOf(SubSeq(s, ab[1] + 1, ab[2] - 1)) : ab \in Pairs(s, "comma")}
  <1>1. ASSUME s = <<>>
        PROVE  parsed.error # "none" /\ \E ab \in Pairs(s, "comma") : ~(ab[1] + 1 < ab[2])
    <2>1. parsed = [chapters |-> {}, error |-> "empty"]
      BY <1>1, Zenon DEF ParseChapterList
    <2>2. Len(s) = 0 /\ DOMAIN s = {}
      BY <1>1
    <2>3. <<0, 1>> \in Pairs(s, "comma")
      BY <2>2 DEF Pairs, Separators
    <2> QED
      BY <2>1, <2>3
  <1>2. ASSUME s # <<>>
        PROVE  /\ (parsed.error = "none") <=>
                    /\ Range(s) \subseteq DOMAIN Digits \cup {"comma"}
                    /\ \A ab \in Pairs(s, "comma") : ab[1] + 1 < ab[2]
                    /\ typed \subseteq 0..IntMax
                    /\ Cardinality(typed) = Cardinality(commas) + 1
               /\ parsed.error = "none" => parsed.chapters = typed
    <2>1. PICK ts \in Seq(Seq(V)) :
              /\ AreParts(s, "comma", ts) /\ ArePaired(s, "comma", ts)
              /\ {ValueOf(ts[k]) : k \in 1..Len(ts)} = typed
              /\ parsed.error = "none" => AreNumbers(ts, parsed.chapters)
              /\ parsed.error # "none" => IsBadList(ts)
      BY <1>2, ListIsRead
    <2> HIDE DEF parsed, typed
    <2>2. /\ \A k \in 1..Len(ts) : \E ab \in Pairs(s, "comma") :
                ts[k] = SubSeq(s, ab[1] + 1, ab[2] - 1)
          /\ \A ab \in Pairs(s, "comma") : \E k \in 1..Len(ts) :
                ts[k] = SubSeq(s, ab[1] + 1, ab[2] - 1)
      BY <2>1, Zenon DEF ArePaired
    <2>3. Len(ts) = Cardinality(commas) + 1
      BY <2>1, Zenon DEF AreParts
    <2>4. \A k \in 1..Len(ts) : ts[k] \in Seq(V) /\ DOMAIN ts[k] = 1..Len(ts[k])
      BY <2>1, ElementOfSeq, LenProperties
    <2>5. ASSUME parsed.error = "none"
          PROVE  /\ Range(s) \subseteq DOMAIN Digits \cup {"comma"}
                 /\ \A ab \in Pairs(s, "comma") : ab[1] + 1 < ab[2]
                 /\ typed \subseteq 0..IntMax /\ parsed.chapters = typed
                 /\ Cardinality(typed) = Cardinality(commas) + 1
      <3>1. /\ \A k \in 1..Len(ts) : IsNumber(ts[k])
            /\ parsed.chapters = typed /\ Cardinality(typed) = Len(ts)
        BY <2>1, <2>5, Zenon DEF AreNumbers
      <3>2. typed \subseteq 0..IntMax
        <4>1. \A k \in 1..Len(ts) : ValueOf(ts[k]) \in 0..IntMax
          BY <2>4, <3>1, ParsedNumber
        <4> QED
          BY <2>1, <4>1
      <3>3. Range(s) \subseteq DOMAIN Digits \cup {"comma"}
        <4> SUFFICES ASSUME NEW i \in 1..Len(s), s[i] # "comma"
                     PROVE  s[i] \in DOMAIN Digits
          BY DEF Range
        <4>1. PICK k \in 1..Len(ts) : \E j \in 1..Len(ts[k]) : ts[k][j] = s[i]
          BY <2>1, Zenon DEF AreParts
        <4>2. PICK j \in 1..Len(ts[k]) : ts[k][j] = s[i]
          BY <4>1
        <4>3. \A l \in DOMAIN ts[k] : ts[k][l] \in DOMAIN Digits
          BY <3>1, Zenon DEF IsNumber, IsAllDigits
        <4> QED
          BY <2>4, <4>2, <4>3, Zenon
      <3>4. ASSUME NEW ab \in Pairs(s, "comma") PROVE ab[1] + 1 < ab[2]
        <4>1. SubSeq(s, ab[1] + 1, ab[2] - 1) # <<>>
          BY <2>2, <3>1, Zenon DEF IsNumber, IsAllDigits
        <4> QED
          BY <4>1, PartProperties
      <3> QED
        BY <2>3, <3>1, <3>2, <3>3, <3>4, Zenon
    <2>6. ASSUME Range(s) \subseteq DOMAIN Digits \cup {"comma"},
                 \A ab \in Pairs(s, "comma") : ab[1] + 1 < ab[2],
                 typed \subseteq 0..IntMax, Cardinality(typed) = Cardinality(commas) + 1
          PROVE  parsed.error = "none"
      <3>1. ASSUME NEW k \in 1..Len(ts) PROVE IsNumber(ts[k])
        <4>1. PICK ab \in Pairs(s, "comma") : ts[k] = SubSeq(s, ab[1] + 1, ab[2] - 1)
          BY <2>2
        <4>2. /\ ts[k] # <<>>
              /\ \A j \in 1..Len(ts[k]) : \E i \in 1..Len(s) :
                    ts[k][j] = s[i] /\ s[i] # "comma"
          <5>1. LET part == SubSeq(s, ab[1] + 1, ab[2] - 1) IN
                /\ (part # <<>>) <=> ab[1] + 1 < ab[2]
                /\ \A j \in 1..Len(part) : \E i \in 1..Len(s) :
                      part[j] = s[i] /\ s[i] # "comma"
            BY PartProperties
          <5> QED
            BY <2>6, <4>1, <5>1, Zenon
        <4>3. \A i \in 1..Len(s) : s[i] # "comma" => s[i] \in DOMAIN Digits
          BY <2>6, LenProperties DEF Range
        <4>4. IsAllDigits(ts[k])
          BY <2>4, <4>2, <4>3, Zenon DEF IsAllDigits
        <4>5. ValueOf(ts[k]) \in 0..IntMax
          BY <2>1, <2>6
        <4> QED
          BY <4>4, <4>5, IntMaxAssumption DEF IsNumber
      <3>2. Cardinality(typed) = Len(ts) /\ Len(ts) \in Nat
        BY <2>3, <2>6, LenProperties
      <3>3. ~IsBadList(ts)
        <4>1. Cardinality({ValueOf(ts[k]) : k \in 1..Len(ts)}) = Len(ts)
          BY <2>1, <3>2, Zenon
        <4>2. ~(Len(ts) < Len(ts))
          BY <3>2
        <4> QED
          BY <3>1, <4>1, <4>2, Zenon DEF IsBadList
      <3> QED
        BY <2>1, <3>3
    <2> QED
      BY <2>5, <2>6, Zenon
  <1>3. IsFiniteSet(commas) /\ Cardinality(commas) \in Nat
    <2>1. Len(s) \in Nat /\ DOMAIN s = 1..Len(s)
      BY LenProperties
    <2>2. commas \in SUBSET (1..Len(s)) /\ 1 \in Int /\ Len(s) \in Int
      BY <2>1 DEF Separators
    <2> HIDE DEF commas
    <2> QED
      BY <2>2, PartsOfInterval
  <1>4. ASSUME parsed.error = "none" PROVE Accepts(s, TRUE) <=> commas = {}
    <2>1. Accepts(s, TRUE) <=> Cardinality(parsed.chapters) = 1
      BY <1>4, Zenon DEF Accepts
    <2>2. Cardinality(parsed.chapters) = Cardinality(commas) + 1
      BY <1>1, <1>2, <1>4, Zenon
    <2> HIDE DEF commas
    <2>3. Cardinality(commas) = 0 <=> commas = {}
      BY <1>3, FS_EmptySet
    <2>4. Cardinality(commas) + 1 = 1 <=> commas = {}
      BY <1>3, <2>3
    <2> QED
      BY <2>1, <2>2, <2>4, Zenon
  <1> HIDE DEF parsed, commas, typed
  <1>5. /\ (parsed.error = "none") <=>
            /\ Range(s) \subseteq DOMAIN Digits \cup {"comma"}
            /\ \A ab \in Pairs(s, "comma") : ab[1] + 1 < ab[2]
            /\ typed \subseteq 0..IntMax
            /\ Cardinality(typed) = Cardinality(commas) + 1
        /\ parsed.error = "none" => parsed.chapters = typed
    BY <1>1, <1>2, Zenon
  <1> QED
    BY <1>4, <1>5, Zenon DEF parsed, commas, typed

-------------------------------------------------------------------------------
(* NumbersAreExact: the names of the files. *)

\* Sequences of up to two elements.
LEMMA ShortSequences ==
    ASSUME NEW V, NEW a \in V, NEW b \in V
    PROVE  /\ <<>> \in Seq(V) /\ <<a>> \in Seq(V) /\ <<a, b>> \in Seq(V)
           /\ Append(<<>>, a) = <<a>> /\ Append(<<a>>, b) = <<a, b>>
  <1>1. <<>> \in Seq(V)
    OBVIOUS
  <1>2. <<a>> \in Seq(V)
    OBVIOUS
  <1>3. <<a, b>> \in Seq(V)
    OBVIOUS
  <1>4. Append(<<>>, a) = <<a>>
    OBVIOUS
  <1>5. Append(<<a>>, b) = <<a, b>>
    <2>1. /\ Append(<<a>>, b) \in Seq(V) /\ Len(Append(<<a>>, b)) = 2
          /\ Append(<<a>>, b)[1] = a /\ Append(<<a>>, b)[2] = b
      BY <1>2, AppendProperties
    <2>2. Len(<<a, b>>) = 2 /\ <<a, b>>[1] = a /\ <<a, b>>[2] = b
      OBVIOUS
    <2>3. \A i \in 1..2 : i = 1 \/ i = 2
      OBVIOUS
    <2>4. \A i \in 1..2 : Append(<<a>>, b)[i] = <<a, b>>[i]
      BY <2>1, <2>2, <2>3, Zenon
    <2> QED
      BY <1>3, <2>1, <2>2, <2>4, SeqEqual
  <1> QED
    BY <1>1, <1>2, <1>3, <1>4, <1>5, Zenon

\* Sequences of four elements.
LEMMA FourInARow ==
    ASSUME NEW a, NEW b, NEW c, NEW d
    PROVE  (<<a>> \o <<b, c>>) \o <<d>> = <<a, b, c, d>>
  <1> DEFINE V == {a, b, c, d}
  <1>1. /\ <<a>> \in Seq(V) /\ <<b, c>> \in Seq(V) /\ <<d>> \in Seq(V)
        /\ <<a, b, c, d>> \in Seq(V)
    OBVIOUS
  <1> HIDE DEF V
  <1> DEFINE s == <<a>> \o <<b, c>>
             t == s \o <<d>>
  <1>2. s \in Seq(V) /\ Len(s) = 3 /\ s[1] = a /\ s[2] = b /\ s[3] = c
    <2>1. /\ s \in Seq(V) /\ Len(s) = Len(<<a>>) + Len(<<b, c>>)
          /\ \A i \in 1 .. Len(<<a>>) + Len(<<b, c>>) :
                 s[i] = IF i <= Len(<<a>>) THEN <<a>>[i] ELSE <<b, c>>[i - Len(<<a>>)]
      BY <1>1, ConcatProperties
    <2> HIDE DEF s
    <2>2. /\ Len(<<a>>) = 1 /\ Len(<<b, c>>) = 2
          /\ <<a>>[1] = a /\ <<b, c>>[1] = b /\ <<b, c>>[2] = c
      OBVIOUS
    <2>3. s \in Seq(V) /\ Len(s) = 3 /\ \A i \in 1..3 :
              s[i] = IF i <= 1 THEN <<a>>[i] ELSE <<b, c>>[i - 1]
      BY <2>1, <2>2
    <2> QED
      BY <2>2, <2>3
  <1> HIDE DEF s
  <1>3. t \in Seq(V) /\ Len(t) = 4 /\ t[1] = s[1] /\ t[2] = s[2] /\ t[3] = s[3] /\ t[4] = d
    <2> DEFINE u == <<d>>
    <2>6. s \in Seq(V) /\ u \in Seq(V)
      BY <1>1, <1>2
    <2> HIDE DEF u
    <2>1. /\ t \in Seq(V) /\ Len(t) = Len(s) + Len(u)
          /\ \A i \in 1 .. Len(s) + Len(u) :
                 t[i] = IF i <= Len(s) THEN s[i] ELSE u[i - Len(s)]
      BY <2>6, ConcatProperties DEF u
    <2> USE DEF u
    <2> HIDE DEF t
    <2>2. Len(<<d>>) = 1 /\ <<d>>[1] = d
      OBVIOUS
    <2>3. t \in Seq(V) /\ Len(t) = 4 /\ \A i \in 1..4 :
              t[i] = IF i <= 3 THEN s[i] ELSE <<d>>[i - 3]
      BY <1>2, <2>1, <2>2
    <2>4. t[1] = s[1] /\ t[2] = s[2] /\ t[3] = s[3] /\ t[4] = <<d>>[4 - 3]
      BY <2>3
    <2>5. 4 - 3 = 1
      OBVIOUS
    <2> QED
      BY <2>2, <2>3, <2>4, <2>5, Zenon
  <1> HIDE DEF t
  <1>4. /\ Len(<<a, b, c, d>>) = 4 /\ <<a, b, c, d>>[1] = a /\ <<a, b, c, d>>[2] = b
        /\ <<a, b, c, d>>[3] = c /\ <<a, b, c, d>>[4] = d
    OBVIOUS
  <1>5. \A i \in 1..4 : i = 1 \/ i = 2 \/ i = 3 \/ i = 4
    OBVIOUS
  <1>6. \A i \in 1..4 : t[i] = <<a, b, c, d>>[i]
    BY <1>2, <1>3, <1>4, <1>5, Zenon
  <1>7. t = <<a, b, c, d>>
    BY <1>1, <1>3, <1>4, <1>6, SeqEqual
  <1> QED
    BY <1>7, Zenon DEF s, t

\* Two digits are printed as they were read.
LEMMA TwoDigits ==
    ASSUME NEW d \in DOMAIN Digits, NEW e \in DOMAIN Digits
    PROVE  Padded(ValueOf(<<d, e>>)) = <<d, e>>
  <1>1. Digits[d] \in 0..9 /\ Digits[e] \in 0..9
    <2>1. <<>> \in Seq(DOMAIN Digits)
      BY EmptySeq
    <2> QED
      BY <2>1, ValueOfProperties
  <1>2. ValueOf(<<d, e>>) = 10 * Digits[d] + Digits[e]
    <2>1. /\ <<>> \in Seq(DOMAIN Digits) /\ <<d>> \in Seq(DOMAIN Digits)
          /\ Append(<<>>, d) = <<d>> /\ Append(<<d>>, e) = <<d, e>>
      BY ShortSequences, Zenon
    <2>2. ValueOf(<<>>) = 0 /\ ValueOf(Append(<<>>, d)) = 10 * ValueOf(<<>>) + Digits[d]
      BY <2>1, ValueOfProperties
    <2>3. ValueOf(Append(<<d>>, e)) = 10 * ValueOf(<<d>>) + Digits[e]
      BY <2>1, ValueOfProperties
    <2>4. 10 * 0 + Digits[d] = Digits[d]
      BY <1>1
    <2> QED
      BY <2>1, <2>2, <2>3, <2>4, Zenon
  <1>3. \A x \in 0..9, y \in 0..9 : (10 * x + y) \div 10 = x /\ (10 * x + y) % 10 = y
    OBVIOUS
  <1>4. ASSUME NEW c \in DOMAIN Digits, NEW x, x = Digits[c]
        PROVE  (CHOOSE name \in DOMAIN Digits : Digits[name] = x) = c
    <2>1. \A b \in DOMAIN Digits : Digits[b] = Digits[c] => b = c
      BY DEF Digits
    <2> QED
      BY <1>4, <2>1
  <1>5. /\ ValueOf(<<d, e>>) \div 10 = Digits[d]
        /\ ValueOf(<<d, e>>) % 10 = Digits[e]
    BY <1>1, <1>2, <1>3, Zenon
  <1> QED
    BY <1>4, <1>5, Zenon DEF Padded

\* What FileNamesAreChapters says of any text.
LEMMA NamesAreChapters ==
    ASSUME NEW V, NEW s \in Seq(V)
    PROVE  LET n == ParseFileName(s) IN
           /\ (n # None) <=>
                /\ Len(s) > 2 /\ s[1] = "prefix" /\ s[Len(s)] = "suffix"
                /\ \A i \in 2 .. Len(s) - 1 : s[i] \in DOMAIN Digits
                /\ ValueOf(SubSeq(s, 2, Len(s) - 1)) <= IntMax
           /\ (n # None /\ Len(s) = 4) => FileName(n) = s
  <1> DEFINE n == ParseFileName(s)
             middle == SubSeq(s, 2, Len(s) - 1)
             Framed == Len(s) > 2 /\ s[1] = "prefix" /\ s[Len(s)] = "suffix"
  <1>1. Len(s) \in Nat /\ DOMAIN s = 1..Len(s) /\ \A i \in 1..Len(s) : s[i] \in V
    BY LenProperties, ElementOfSeq
  <1>2. n = IF Framed THEN ParseChapterNumber(middle) ELSE None
    <2>1. Head(s) = s[1]
      OBVIOUS
    <2>2. Last(s) = s[Len(s)]
      BY DEF Last
    <2> QED
      BY <2>1, <2>2, Zenon DEF ParseFileName
  <1>3. CASE ~Framed
    BY <1>2, <1>3, Zenon
  <1>4. CASE Framed
    <2>1. Len(s) > 2 /\ s[1] = "prefix" /\ s[Len(s)] = "suffix"
      BY <1>4
    <2>2. /\ middle \in Seq(V) /\ Len(middle) = Len(s) - 2
          /\ \A i \in 1 .. Len(s) - 2 : middle[i] = s[i + 1]
      <3>1. 2 \in Int /\ Len(s) - 1 \in Int /\ \A i \in 2 .. Len(s) - 1 : s[i] \in V
        BY <1>1
      <3>2. /\ middle \in Seq(V)
            /\ Len(middle) = IF 2 <= Len(s) - 1 THEN (Len(s) - 1) - 2 + 1 ELSE 0
            /\ \A i \in 1 .. (Len(s) - 1) - 2 + 1 : middle[i] = s[2 + i - 1]
        BY <3>1, SubSeqProperties
      <3>3. /\ (Len(s) - 1) - 2 + 1 = Len(s) - 2 /\ 2 <= Len(s) - 1
            /\ \A i \in Int : 2 + i - 1 = i + 1
        BY <1>1, <2>1
      <3>4. \A i \in 1 .. Len(s) - 2 : i \in Int
        OBVIOUS
      <3> QED
        BY <3>2, <3>3, <3>4, Zenon
    <2> HIDE DEF middle, n
    <2>3. IsAllDigits(middle) <=> \A i \in 2 .. Len(s) - 1 : s[i] \in DOMAIN Digits
      <3>1. middle # <<>> /\ DOMAIN middle = 1 .. Len(s) - 2
        BY <1>1, <2>1, <2>2
      <3>2. /\ \A i \in 2 .. Len(s) - 1 : i - 1 \in 1 .. Len(s) - 2 /\ (i - 1) + 1 = i
            /\ \A i \in 1 .. Len(s) - 2 : i + 1 \in 2 .. Len(s) - 1
        BY <1>1
      <3> QED
        BY <2>2, <3>1, <3>2, Zenon DEF IsAllDigits
    <2>4. /\ n = ParseChapterNumber(middle)
          /\ (ParseChapterNumber(middle) # None) <=> IsNumber(middle)
          /\ IsNumber(middle) => ParseChapterNumber(middle) = ValueOf(middle)
      <3>1. n = ParseChapterNumber(middle)
        BY <1>2, <1>4, Zenon
      <3> QED
        BY <2>2, <3>1, ParsedNumber
    <2>5. (n # None) <=>
            /\ \A i \in 2 .. Len(s) - 1 : s[i] \in DOMAIN Digits
            /\ ValueOf(middle) <= IntMax
      BY <2>3, <2>4, Zenon DEF IsNumber
    <2>6. ASSUME n # None, Len(s) = 4 PROVE FileName(n) = s
      <3>1. s[2] \in DOMAIN Digits /\ s[3] \in DOMAIN Digits
        BY <2>5, <2>6
      <3>2. middle = <<s[2], s[3]>>
        BY <2>2, <2>6
      <3>3. n = ValueOf(<<s[2], s[3]>>)
        BY <2>4, <2>6, <3>2, Zenon
      <3>4. Padded(n) = <<s[2], s[3]>>
        BY <3>1, <3>3, TwoDigits
      <3>5. FileName(n) = (<<"prefix">> \o <<s[2], s[3]>>) \o <<"suffix">>
        BY <3>4, Zenon DEF FileName
      <3>6. s = <<s[1], s[2], s[3], s[4]>>
        BY <2>6
      <3>7. (<<"prefix">> \o <<s[2], s[3]>>) \o <<"suffix">> =
                <<"prefix", s[2], s[3], "suffix">>
        BY FourInARow, Zenon
      <3>8. s = <<"prefix", s[2], s[3], "suffix">>
        BY <2>1, <2>6, <3>6, Zenon
      <3> QED
        BY <3>5, <3>7, <3>8, Zenon
    <2> QED
      BY <2>1, <2>5, <2>6, Zenon DEF middle, n
  <1> QED
    BY <1>3, <1>4

\* NumbersAreExact, for every largest int and every set of characters: a list of chapters is
\* taken exactly if there is a number in range between any two of its commas and no number
\* twice, and has these numbers then; a file's name gives a number exactly if it is made of one
\* (parse_chapter_list, prompt_for_chapters, ChapterFetcher).
THEOREM NumbersCorrect == Spec => []NumbersAreExact
  <1>1. Typing => ChapterListIsWhatWasTyped
    <2> SUFFICES ASSUME Typing PROVE ChapterListIsWhatWasTyped
      OBVIOUS
    <2>1. text \in Seq(Alphabets[format])
      BY DEF Typing
    <2>2. LET parsed == ParseChapterList(text)
              commas == Separators(text, "comma")
              typed == {ValueOf(SubSeq(text, ab[1] + 1, ab[2] - 1)) :
                            ab \in Pairs(text, "comma")} IN
          /\ (parsed.error = "none") <=>
              /\ Range(text) \subseteq DOMAIN Digits \cup {"comma"}
              /\ \A ab \in Pairs(text, "comma") : ab[1] + 1 < ab[2]
              /\ typed \subseteq 0..IntMax
              /\ Cardinality(typed) = Cardinality(commas) + 1
          /\ parsed.error = "none" =>
              /\ parsed.chapters = typed
              /\ Accepts(text, TRUE) <=> commas = {}
      BY <2>1, ListIsTyped, Zenon
    <2> QED
      BY <2>2, Zenon DEF ChapterListIsWhatWasTyped, Pairs, Separators
  <1>2. Typing => FileNamesAreChapters
    <2> SUFFICES ASSUME Typing PROVE FileNamesAreChapters
      OBVIOUS
    <2>1. text \in Seq(Alphabets[format])
      BY DEF Typing
    <2>2. LET n == ParseFileName(text) IN
          /\ (n # None) <=>
                /\ Len(text) > 2 /\ text[1] = "prefix" /\ text[Len(text)] = "suffix"
                /\ \A i \in 2 .. Len(text) - 1 : text[i] \in DOMAIN Digits
                /\ ValueOf(SubSeq(text, 2, Len(text) - 1)) <= IntMax
          /\ (n # None /\ Len(text) = 4) => FileName(n) = text
      BY <2>1, NamesAreChapters, Zenon
    <2> QED
      BY <2>2, Zenon DEF FileNamesAreChapters
  <1>3. Typing => NumbersAreExact
    BY <1>1, <1>2, Zenon DEF NumbersAreExact
  <1> QED
    BY <1>3, TextIsOfFormat, PTL

-------------------------------------------------------------------------------
(* Base64RoundTrip: the decoder puts the bits together again. *)

\* The state of base64_decode's loop.
Bits(buffer, bits, out) == [buffer |-> buffer, bits |-> bits, out |-> out]

\* One character of the alphabet.
LEMMA DecodeValue ==
    ASSUME NEW buffer, NEW bits \in {0, 2, 4, 6}, NEW out, NEW c \in 0..63,
           NEW next, next = ShiftIn(buffer, c)
    PROVE  /\ bits = 0 => DecodeCharacter(Bits(buffer, bits, out), c) = Bits(next, 6, out)
           /\ bits # 0 => DecodeCharacter(Bits(buffer, bits, out), c) =
                              Bits(next, bits - 2, Append(out, ByteAt(next, bits - 2)))
  <1> DEFINE state == Bits(buffer, bits, out)
  <1>1. state.buffer = buffer /\ state.bits = bits /\ state.out = out
    BY DEF Bits
  <1>2. c \notin {Pad, Other}
    BY DEF Pad, Other
  <1> HIDE DEF state
  <1>3. ASSUME bits = 0 PROVE DecodeCharacter(state, c) = Bits(next, 6, out)
    <2>1. bits + 6 < 8 /\ bits + 6 = 6
      BY <1>3
    <2> QED
      BY <1>1, <1>2, <2>1, Zenon DEF DecodeCharacter, Bits
  <1>4. ASSUME bits # 0
        PROVE  DecodeCharacter(state, c) =
                   Bits(next, bits - 2, Append(out, ByteAt(next, bits - 2)))
    <2>1. ~(bits + 6 < 8) /\ (bits + 6) - 8 = bits - 2
      BY <1>4
    <2> QED
      BY <1>1, <1>2, <2>1, Zenon DEF DecodeCharacter, Bits
  <1> QED
    BY <1>3, <1>4, Zenon DEF state

\* Padding and line ends change nothing.
LEMMA DecodeNothing ==
    ASSUME NEW s, NEW c \in {Pad, Other}
    PROVE  DecodeCharacter(s, c) = s
  BY Zenon DEF DecodeCharacter

\* The bits of a byte.
LEMMA ByteBits ==
    ASSUME NEW g \in 0..255
    PROVE  /\ g \div 4 \in 0..63 /\ g % 4 \in 0..3 /\ 4 * (g \div 4) + (g % 4) = g
           /\ g \div 16 \in 0..15 /\ g % 16 \in 0..15 /\ 16 * (g \div 16) + (g % 16) = g
           /\ g \div 64 \in 0..3 /\ g % 64 \in 0..63 /\ 64 * (g \div 64) + (g % 64) = g
  OBVIOUS

\* A character moves into the lowest six bits, whatever overflows at the top.
LEMMA LowerBits ==
    ASSUME NEW n \in Nat, NEW c \in 0..63
    PROVE  /\ ShiftIn(n, c) \in Nat
           /\ ShiftIn(n, c) % 64 = c
           /\ ShiftIn(n, c) % 16 = c % 16
           /\ ShiftIn(n, c) % 4 = c % 4
  <1> DEFINE q == n % 256
  <1>1. ShiftIn(n, c) = 64 * q + c
    BY DEF ShiftIn
  <1>2. q \in Nat
    OBVIOUS
  <1> HIDE DEF q
  <1>3. /\ 64 * q + c \in Nat /\ (64 * q + c) % 64 = c
        /\ (64 * q + c) % 16 = c % 16 /\ (64 * q + c) % 4 = c % 4
    BY <1>2
  <1> QED
    BY <1>1, <1>3, Zenon

\* The second character of a group completes its first byte, the third one its second byte
\* and the fourth one its third byte.
LEMMA ShiftFour ==
    ASSUME NEW h \in 0..63, NEW l \in 0..3, NEW c \in 0..15, NEW n \in Nat, n % 64 = h
    PROVE  ByteAt(ShiftIn(n, 16 * l + c), 4) = 4 * h + l
  <1>1. PICK q \in Nat : n = 64 * q + h
    <2>1. n \div 64 \in Nat /\ n = 64 * (n \div 64) + (n % 64)
      OBVIOUS
    <2> QED
      BY <2>1
  <1>2. (64 * n + (16 * l + c)) % 16384 = 4096 * (q % 4) + (64 * h + (16 * l + c))
    BY <1>1
  <1>3. (4096 * (q % 4) + (64 * h + (16 * l + c))) \div 16 = 256 * (q % 4) + (4 * h + l)
    OBVIOUS
  <1>4. (256 * (q % 4) + (4 * h + l)) % 256 = 4 * h + l
    OBVIOUS
  <1> QED
    BY <1>2, <1>3, <1>4 DEF ByteAt, ShiftIn

\* The byte above two bits that stay.
LEMMA ShiftTwo ==
    ASSUME NEW h \in 0..15, NEW l \in 0..15, NEW c \in 0..3, NEW n \in Nat, n % 16 = h
    PROVE  ByteAt(ShiftIn(n, 4 * l + c), 2) = 16 * h + l
  <1>1. PICK q \in Nat : n = 16 * q + h
    <2>1. n \div 16 \in Nat /\ n = 16 * (n \div 16) + (n % 16)
      OBVIOUS
    <2> QED
      BY <2>1
  <1>2. (64 * n + (4 * l + c)) % 16384 = 1024 * (q % 16) + (64 * h + (4 * l + c))
    BY <1>1
  <1>3. (1024 * (q % 16) + (64 * h + (4 * l + c))) \div 4 = 256 * (q % 16) + (16 * h + l)
    OBVIOUS
  <1>4. (256 * (q % 16) + (16 * h + l)) % 256 = 16 * h + l
    OBVIOUS
  <1> QED
    BY <1>2, <1>3, <1>4 DEF ByteAt, ShiftIn

\* The byte of the lowest eight bits.
LEMMA ShiftNone ==
    ASSUME NEW h \in 0..3, NEW c \in 0..63, NEW n \in Nat, n % 4 = h
    PROVE  ByteAt(ShiftIn(n, c), 0) = 64 * h + c
  <1>1. PICK q \in Nat : n = 4 * q + h
    <2>1. n \div 4 \in Nat /\ n = 4 * (n \div 4) + (n % 4)
      OBVIOUS
    <2> QED
      BY <2>1
  <1>2. (64 * n + c) % 16384 = 256 * (q % 64) + (64 * h + c)
    BY <1>1
  <1>4. (256 * (q % 64) + (64 * h + c)) % 256 = 64 * h + c
    OBVIOUS
  <1> QED
    BY <1>2, <1>4 DEF ByteAt, ShiftIn

\* Two characters give the first byte of a group back.
LEMMA FirstByte ==
    ASSUME NEW g \in 0..255, NEW c \in 0..15, NEW buffer \in Nat, NEW out
    PROVE  \E n \in Nat :
               /\ n % 16 = c
               /\ DecodeCharacter(DecodeCharacter(Bits(buffer, 0, out), g \div 4),
                                    16 * (g % 4) + c) = Bits(n, 4, Append(out, g))
  <1> DEFINE first == g \div 4
             second == 16 * (g % 4) + c
             m == ShiftIn(buffer, first)
             n == ShiftIn(m, second)
  <1>1. /\ first \in 0..63 /\ second \in 0..63 /\ second % 16 = c
        /\ g % 4 \in 0..3 /\ 4 * first + (g % 4) = g
    BY ByteBits
  <1>2. m \in Nat /\ m % 64 = first
    <2> HIDE DEF first
    <2> QED
      BY <1>1, LowerBits
  <1>3. n \in Nat /\ n % 16 = c
    <2> HIDE DEF second, m
    <2> QED
      BY <1>1, <1>2, LowerBits
  <1>4. ByteAt(n, 4) = g
    <2> HIDE DEF m, first
    <2> QED
      BY <1>1, <1>2, ShiftFour, Zenon
  <1>5. DecodeCharacter(Bits(buffer, 0, out), first) = Bits(m, 6, out)
    <2> HIDE DEF m, first
    <2> QED
      BY <1>1, DecodeValue DEF m
  <1>6. DecodeCharacter(Bits(m, 6, out), second) = Bits(n, 4, Append(out, ByteAt(n, 4)))
    <2> HIDE DEF m, n, second
    <2>1. 6 \in {0, 2, 4, 6} /\ 6 # 0 /\ 6 - 2 = 4
      OBVIOUS
    <2>2. DecodeCharacter(Bits(m, 6, out), second) =
              Bits(n, 6 - 2, Append(out, ByteAt(n, 6 - 2)))
      BY <1>1, <2>1, DecodeValue DEF n
    <2> QED
      BY <2>1, <2>2, Zenon
  <1> HIDE DEF m, n, first, second
  <1>7. DecodeCharacter(DecodeCharacter(Bits(buffer, 0, out), first), second) =
            Bits(n, 4, Append(out, g))
    BY <1>4, <1>5, <1>6, Zenon
  <1> QED
    BY <1>3, <1>7, Zenon DEF first, second

\* The third character gives the second byte back.
LEMMA SecondByte ==
    ASSUME NEW g \in 0..255, NEW c \in 0..3, NEW out, NEW m \in Nat, m % 16 = g \div 16
    PROVE  \E n \in Nat :
               /\ n % 4 = c
               /\ DecodeCharacter(Bits(m, 4, out), 4 * (g % 16) + c) =
                      Bits(n, 2, Append(out, g))
  <1> DEFINE value == 4 * (g % 16) + c
             upper == g \div 16
             n == ShiftIn(m, value)
  <1>1. /\ value \in 0..63 /\ value % 4 = c /\ upper \in 0..15
        /\ g % 16 \in 0..15 /\ 16 * upper + (g % 16) = g
    BY ByteBits
  <1>2. n \in Nat /\ n % 4 = c
    <2> HIDE DEF value
    <2> QED
      BY <1>1, LowerBits
  <1>3. ByteAt(n, 2) = g
    <2> HIDE DEF upper
    <2>1. m % 16 = upper
      BY DEF upper
    <2> QED
      BY <1>1, <2>1, ShiftTwo, Zenon
  <1>4. DecodeCharacter(Bits(m, 4, out), value) = Bits(n, 2, Append(out, ByteAt(n, 2)))
    <2> HIDE DEF n, value
    <2>1. 4 \in {0, 2, 4, 6} /\ 4 # 0 /\ 4 - 2 = 2
      OBVIOUS
    <2>2. DecodeCharacter(Bits(m, 4, out), value) =
              Bits(n, 4 - 2, Append(out, ByteAt(n, 4 - 2)))
      BY <1>1, <2>1, DecodeValue DEF n
    <2> QED
      BY <2>1, <2>2, Zenon
  <1> HIDE DEF n, value
  <1> QED
    BY <1>2, <1>3, <1>4, Zenon DEF value

\* The fourth character gives the third byte back.
LEMMA ThirdByte ==
    ASSUME NEW g \in 0..255, NEW out, NEW m \in Nat, m % 4 = g \div 64
    PROVE  \E n \in Nat :
               DecodeCharacter(Bits(m, 2, out), g % 64) = Bits(n, 0, Append(out, g))
  <1> DEFINE value == g % 64
             upper == g \div 64
             n == ShiftIn(m, value)
  <1>1. /\ value \in 0..63 /\ upper \in 0..3 /\ 64 * upper + value = g
    BY ByteBits
  <1>2. n \in Nat
    <2> HIDE DEF value
    <2> QED
      BY <1>1, LowerBits
  <1>3. ByteAt(n, 0) = g
    <2> HIDE DEF upper, value
    <2>1. m % 4 = upper
      BY DEF upper
    <2> QED
      BY <1>1, <2>1, ShiftNone, Zenon
  <1>4. DecodeCharacter(Bits(m, 2, out), value) = Bits(n, 0, Append(out, ByteAt(n, 0)))
    <2> HIDE DEF n, value
    <2>1. 2 \in {0, 2, 4, 6} /\ 2 # 0 /\ 2 - 2 = 0
      OBVIOUS
    <2>2. DecodeCharacter(Bits(m, 2, out), value) =
              Bits(n, 2 - 2, Append(out, ByteAt(n, 2 - 2)))
      BY <1>1, <2>1, DecodeValue DEF n
    <2> QED
      BY <2>1, <2>2, Zenon
  <1> HIDE DEF n, value
  <1> QED
    BY <1>2, <1>3, <1>4, Zenon DEF value

\* The loop of base64_decode over one group.
LEMMA FoldFour ==
    ASSUME NEW base, NEW a, NEW b, NEW c, NEW d
    PROVE  Decoding!Fold(base, <<a, b, c, d>>) =
               DecodeCharacter(DecodeCharacter(DecodeCharacter(
                   DecodeCharacter(base, a), b), c), d)
  <1> DEFINE V == {a, b, c, d}
             one == <<a>>
             two == Append(one, b)
             three == Append(two, c)
  <1>1. one \in Seq(V) /\ a \in V /\ b \in V /\ c \in V /\ d \in V
    OBVIOUS
  <1> HIDE DEF V
  <1>2. two \in Seq(V) /\ three \in Seq(V)
    BY <1>1, AppendProperties
  <1>3. <<a, b, c, d>> = Append(three, d)
    OBVIOUS
  <1>4. Decoding!Fold(base, one) = DecodeCharacter(base, a)
    BY NaturalInduction, Decoding!FoldOne
  <1> HIDE DEF one
  <1>5. Decoding!Fold(base, two) = DecodeCharacter(Decoding!Fold(base, one), b)
    BY <1>1, NaturalInduction, Decoding!FoldAppend
  <1> HIDE DEF two
  <1>6. Decoding!Fold(base, three) = DecodeCharacter(Decoding!Fold(base, two), c)
    BY <1>1, <1>2, NaturalInduction, Decoding!FoldAppend
  <1> HIDE DEF three
  <1>7. Decoding!Fold(base, Append(three, d)) =
            DecodeCharacter(Decoding!Fold(base, three), d)
    BY <1>1, <1>2, NaturalInduction, Decoding!FoldAppend
  <1> QED
    BY <1>3, <1>4, <1>5, <1>6, <1>7, Zenon

Byte == 0..255

\* The characters of base64 with the padding.
Base64Character == 0..64

\* A sequence of one, two or three is what is appended.
LEMMA UpToThree ==
    ASSUME NEW V, NEW s \in Seq(V), NEW g \in Seq(V)
    PROVE  /\ Len(g) = 1 => s \o g = Append(s, g[1])
           /\ Len(g) = 2 => s \o g = Append(Append(s, g[1]), g[2])
           /\ Len(g) = 3 => s \o g = Append(Append(Append(s, g[1]), g[2]), g[3])
  <1>1. \A i \in 1..Len(g) : g[i] \in V
    BY ElementOfSeq
  <1>2. s \o <<>> = s /\ <<>> \in Seq(V)
    BY ConcatEmptySeq, EmptySeq
  <1>3. ASSUME NEW t \in Seq(V), NEW c \in V PROVE Append(s \o t, c) = s \o Append(t, c)
    <2>1. <<c>> \in Seq(V) /\ s \o t \in Seq(V)
      BY ConcatProperties
    <2>2. Append(s \o t, c) = (s \o t) \o <<c>> /\ Append(t, c) = t \o <<c>>
      BY <2>1, OneMore
    <2>3. (s \o t) \o <<c>> = s \o (t \o <<c>>)
      BY <2>1, ConcatAssociative
    <2> QED
      BY <2>2, <2>3, Zenon
  <1>4. ASSUME Len(g) = 1 PROVE s \o g = Append(s, g[1])
    <2>1. g = Append(<<>>, g[1]) /\ g[1] \in V
      BY <1>1, <1>4
    <2> QED
      BY <1>2, <1>3, <2>1, Zenon
  <1>5. ASSUME Len(g) = 2 PROVE s \o g = Append(Append(s, g[1]), g[2])
    <2>1. g[1] \in V /\ g[2] \in V
      BY <1>1, <1>5
    <2>2. g = Append(Append(<<>>, g[1]), g[2])
      BY <1>5, <2>1
    <2>3. Append(<<>>, g[1]) \in Seq(V)
      BY <2>1
    <2> QED
      BY <1>2, <1>3, <2>1, <2>2, <2>3, Zenon
  <1>6. ASSUME Len(g) = 3 PROVE s \o g = Append(Append(Append(s, g[1]), g[2]), g[3])
    <2>1. g[1] \in V /\ g[2] \in V /\ g[3] \in V
      BY <1>1, <1>6
    <2> DEFINE one == Append(<<>>, g[1])
               two == Append(one, g[2])
    <2>2. g = Append(two, g[3])
      BY <1>6, <2>1
    <2>3. one \in Seq(V) /\ two \in Seq(V)
      BY <2>1
    <2>4. s \o one = Append(s, g[1])
      BY <1>2, <1>3, <2>1, Zenon
    <2> HIDE DEF one
    <2>5. s \o two = Append(s \o one, g[2])
      BY <1>3, <2>1, <2>3, Zenon
    <2> HIDE DEF two
    <2>6. s \o Append(two, g[3]) = Append(s \o two, g[3])
      BY <1>3, <2>1, <2>3, Zenon
    <2> QED
      BY <2>2, <2>4, <2>5, <2>6, Zenon
  <1> QED
    BY <1>4, <1>5, <1>6

\* What EncodeGroup writes is in the alphabet.
LEMMA GroupValues ==
    /\ \A a \in 0..255 : /\ a \div 4 \in 0..64 /\ a % 64 \in 0..64 /\ a \div 16 \in 0..15
                         /\ 16 * (a % 4) \in 0..64 /\ 16 * (a % 4) = 16 * (a % 4) + 0
                         /\ 4 * (a % 16) \in 0..64 /\ 4 * (a % 16) = 4 * (a % 16) + 0
    /\ \A a, b \in 0..255 : /\ 16 * (a % 4) + b \div 16 \in 0..64
                            /\ 4 * (a % 16) + b \div 64 \in 0..64
    /\ 0 \in 0..3 /\ 0 \in 0..15
  <1>1. ASSUME NEW a \in 0..255
        PROVE  a \div 4 \in 0..64 /\ a % 64 \in 0..64 /\ a \div 16 \in 0..15
    OBVIOUS
  <1>2. ASSUME NEW a \in 0..255
        PROVE  16 * (a % 4) \in 0..64 /\ 16 * (a % 4) = 16 * (a % 4) + 0
    OBVIOUS
  <1>3. ASSUME NEW a \in 0..255
        PROVE  4 * (a % 16) \in 0..64 /\ 4 * (a % 16) = 4 * (a % 16) + 0
    OBVIOUS
  <1>4. ASSUME NEW a \in 0..255, NEW b \in 0..255
        PROVE  16 * (a % 4) + b \div 16 \in 0..64 /\ 4 * (a % 16) + b \div 64 \in 0..64
    OBVIOUS
  <1>5. 0 \in 0..3 /\ 0 \in 0..15
    OBVIOUS
  <1> QED
    BY <1>1, <1>2, <1>3, <1>4, <1>5, Zenon

\* A group of three bytes comes out as it went in, and nothing is left of it; of one or two
\* bytes, which the padding follows, some bits are.
LEMMA GroupDecoded ==
    ASSUME NEW g \in Seq(Byte), Len(g) \in 1..3, NEW out \in Seq(Byte), NEW buffer \in Nat
    PROVE  \E n \in Nat, left \in {0, 2, 4} :
               /\ Decoding!Fold(Bits(buffer, 0, out), EncodeGroup(g)) =
                      Bits(n, left, out \o g)
               /\ Len(g) = 3 => left = 0
  <1>1. \A i \in 1..Len(g) : g[i] \in Byte
    BY ElementOfSeq
  <1> DEFINE base == Bits(buffer, 0, out)
  <1>2. CASE Len(g) = 3
    <2>1. g[1] \in 0..255 /\ g[2] \in 0..255 /\ g[3] \in 0..255
      BY <1>1, <1>2 DEF Byte
    <2> DEFINE c1 == g[1] \div 4
               c2 == 16 * (g[1] % 4) + g[2] \div 16
               c3 == 4 * (g[2] % 16) + g[3] \div 64
               c4 == g[3] % 64
    <2>2. EncodeGroup(g) = <<c1, c2, c3, c4>>
      BY <1>2 DEF EncodeGroup
    <2>3. g[2] \div 16 \in 0..15 /\ g[3] \div 64 \in 0..3
      BY <2>1, ByteBits
    <2>4. PICK n \in Nat :
             /\ n % 16 = g[2] \div 16
             /\ DecodeCharacter(DecodeCharacter(base, c1), c2) =
                    Bits(n, 4, Append(out, g[1]))
      BY <2>1, <2>3, FirstByte, Zenon
    <2>5. PICK m \in Nat :
             /\ m % 4 = g[3] \div 64
             /\ DecodeCharacter(Bits(n, 4, Append(out, g[1])), c3) =
                    Bits(m, 2, Append(Append(out, g[1]), g[2]))
      <3> DEFINE next == Append(out, g[1])
                 lower == g[3] \div 64
      <3>1. g[2] \in 0..255 /\ lower \in 0..3 /\ n % 16 = g[2] \div 16 /\ n \in Nat
        BY <2>1, <2>3, <2>4
      <3> HIDE DEF next, lower
      <3>2. \E m \in Nat :
               /\ m % 4 = lower
               /\ DecodeCharacter(Bits(n, 4, next), 4 * (g[2] % 16) + lower) =
                      Bits(m, 2, Append(next, g[2]))
        BY <3>1, SecondByte
      <3> QED
        BY <3>2, Zenon DEF next, lower
    <2>6. PICK k \in Nat :
             DecodeCharacter(Bits(m, 2, Append(Append(out, g[1]), g[2])), c4) =
                 Bits(k, 0, Append(Append(Append(out, g[1]), g[2]), g[3]))
      BY <2>1, <2>5, ThirdByte, Zenon
    <2> HIDE DEF c1, c2, c3, c4, base
    <2>a. Decoding!Fold(base, <<c1, c2, c3, c4>>) =
              DecodeCharacter(DecodeCharacter(DecodeCharacter(
                  DecodeCharacter(base, c1), c2), c3), c4)
      BY FoldFour
    <2>7. Decoding!Fold(base, EncodeGroup(g)) =
              Bits(k, 0, Append(Append(Append(out, g[1]), g[2]), g[3]))
      BY <2>2, <2>4, <2>5, <2>6, <2>a, Zenon
    <2>8. Append(Append(Append(out, g[1]), g[2]), g[3]) = out \o g
      BY <1>2, UpToThree
    <2>9. 0 \in {0, 2, 4}
      OBVIOUS
    <2> QED
      BY <2>7, <2>8, <2>9, Zenon DEF base
  <1>3. CASE Len(g) = 2
    <2>1. g[1] \in 0..255 /\ g[2] \in 0..255
      BY <1>1, <1>3 DEF Byte
    <2> DEFINE c1 == g[1] \div 4
               c2 == 16 * (g[1] % 4) + g[2] \div 16
               c3 == 4 * (g[2] % 16)
    <2>2. EncodeGroup(g) = <<c1, c2, c3, Pad>>
      BY <1>3 DEF EncodeGroup
    <2>3. g[2] \div 16 \in 0..15 /\ 0 \in 0..3 /\ c3 = 4 * (g[2] % 16) + 0
      BY <2>1, GroupValues, Zenon
    <2>4. PICK n \in Nat :
             /\ n % 16 = g[2] \div 16
             /\ DecodeCharacter(DecodeCharacter(base, c1), c2) =
                    Bits(n, 4, Append(out, g[1]))
      BY <2>1, <2>3, FirstByte, Zenon
    <2> HIDE DEF c3
    <2>5. PICK m \in Nat :
             DecodeCharacter(Bits(n, 4, Append(out, g[1])), c3) =
                 Bits(m, 2, Append(Append(out, g[1]), g[2]))
      BY <2>1, <2>3, <2>4, SecondByte, Zenon
    <2> HIDE DEF c1, c2, base
    <2>6. \A s : DecodeCharacter(s, Pad) = s
      BY DecodeNothing
    <2>a. Decoding!Fold(base, <<c1, c2, c3, Pad>>) =
              DecodeCharacter(DecodeCharacter(DecodeCharacter(
                  DecodeCharacter(base, c1), c2), c3), Pad)
      BY FoldFour
    <2>7. Decoding!Fold(base, EncodeGroup(g)) =
              Bits(m, 2, Append(Append(out, g[1]), g[2]))
      BY <2>2, <2>4, <2>5, <2>6, <2>a, Zenon
    <2>8. Append(Append(out, g[1]), g[2]) = out \o g
      BY <1>3, UpToThree
    <2>9. 2 \in {0, 2, 4} /\ Len(g) # 3
      BY <1>3
    <2> QED
      BY <2>7, <2>8, <2>9, Zenon DEF base
  <1>4. CASE Len(g) = 1
    <2>1. g[1] \in 0..255
      BY <1>1, <1>4 DEF Byte
    <2> DEFINE c1 == g[1] \div 4
               c2 == 16 * (g[1] % 4)
    <2>2. EncodeGroup(g) = <<c1, c2, Pad, Pad>>
      BY <1>4 DEF EncodeGroup
    <2>3. 0 \in 0..15 /\ c2 = 16 * (g[1] % 4) + 0
      BY <2>1, GroupValues, Zenon
    <2> HIDE DEF c2
    <2>4. PICK n \in Nat :
             DecodeCharacter(DecodeCharacter(base, c1), c2) =
                 Bits(n, 4, Append(out, g[1]))
      BY <2>1, <2>3, FirstByte, Zenon
    <2> HIDE DEF c1, base
    <2>6. \A s : DecodeCharacter(s, Pad) = s
      BY DecodeNothing
    <2>a. Decoding!Fold(base, <<c1, c2, Pad, Pad>>) =
              DecodeCharacter(DecodeCharacter(DecodeCharacter(
                  DecodeCharacter(base, c1), c2), Pad), Pad)
      BY FoldFour
    <2>7. Decoding!Fold(base, EncodeGroup(g)) = Bits(n, 4, Append(out, g[1]))
      BY <2>2, <2>4, <2>6, <2>a, Zenon
    <2>8. Append(out, g[1]) = out \o g
      BY <1>4, UpToThree
    <2>9. 4 \in {0, 2, 4} /\ Len(g) # 3
      BY <1>4
    <2> QED
      BY <2>7, <2>8, <2>9, Zenon DEF base
  <1> QED
    BY <1>2, <1>3, <1>4

\* The code of a group has four characters.
LEMMA GroupType ==
    ASSUME NEW g \in Seq(Byte), Len(g) \in 1..3
    PROVE  EncodeGroup(g) \in Seq(Base64Character) /\ Len(EncodeGroup(g)) = 4
  <1>1. \A i \in 1..Len(g) : g[i] \in 0..255
    BY ElementOfSeq DEF Byte
  <1>2. PICK a \in 0..64, b \in 0..64, c \in 0..64, d \in 0..64 :
           EncodeGroup(g) = <<a, b, c, d>>
    <2>1. CASE Len(g) = 3
      <3>1. g[1] \in 0..255 /\ g[2] \in 0..255 /\ g[3] \in 0..255
        BY <1>1, <2>1
      <3>2. EncodeGroup(g) = <<g[1] \div 4, 16 * (g[1] % 4) + g[2] \div 16,
                                4 * (g[2] % 16) + g[3] \div 64, g[3] % 64>>
        BY <2>1 DEF EncodeGroup
      <3>3. /\ g[1] \div 4 \in 0..64 /\ 16 * (g[1] % 4) + g[2] \div 16 \in 0..64
            /\ 4 * (g[2] % 16) + g[3] \div 64 \in 0..64 /\ g[3] % 64 \in 0..64
        BY <3>1, GroupValues, Zenon
      <3> QED
        BY <3>2, <3>3, Zenon
    <2>2. CASE Len(g) = 2
      <3>1. g[1] \in 0..255 /\ g[2] \in 0..255
        BY <1>1, <2>2
      <3>2. EncodeGroup(g) = <<g[1] \div 4, 16 * (g[1] % 4) + g[2] \div 16,
                                4 * (g[2] % 16), Pad>>
        BY <2>2 DEF EncodeGroup
      <3>4. Pad \in 0..64
        BY DEF Pad
      <3>3. /\ g[1] \div 4 \in 0..64 /\ 16 * (g[1] % 4) + g[2] \div 16 \in 0..64
            /\ 4 * (g[2] % 16) \in 0..64 /\ Pad \in 0..64
        BY <3>1, <3>4, GroupValues, Zenon
      <3> QED
        BY <3>2, <3>3, Zenon
    <2>3. CASE Len(g) = 1
      <3>1. g[1] \in 0..255
        BY <1>1, <2>3
      <3>2. EncodeGroup(g) = <<g[1] \div 4, 16 * (g[1] % 4), Pad, Pad>>
        BY <2>3 DEF EncodeGroup
      <3>4. Pad \in 0..64
        BY DEF Pad
      <3>3. g[1] \div 4 \in 0..64 /\ 16 * (g[1] % 4) \in 0..64 /\ Pad \in 0..64
        BY <3>1, <3>4, GroupValues, Zenon
      <3> QED
        BY <3>2, <3>3, Zenon
    <2>4. Len(g) = 1 \/ Len(g) = 2 \/ Len(g) = 3
      OBVIOUS
    <2> QED
      BY <2>1, <2>2, <2>3, <2>4, Zenon
  <1> QED
    BY <1>2 DEF Base64Character

GroupCount(data) == (Len(data) + 2) \div 3

\* What the first k groups are made of.
Taken(data, k) == IF k = GroupCount(data) THEN data ELSE SubSeq(data, 1, 3 * k)

\* The groups of three are the data, cut from the front.
LEMMA GroupsProperties ==
    ASSUME NEW data \in Seq(Byte)
    PROVE  /\ GroupCount(data) \in Nat
           /\ DOMAIN Groups(data) = 1..GroupCount(data)
           /\ Taken(data, 0) = <<>> /\ Taken(data, GroupCount(data)) = data
           /\ \A k \in 0 .. GroupCount(data) - 1 :
                  /\ Groups(data)[k + 1] \in Seq(Byte)
                  /\ Len(Groups(data)[k + 1]) \in 1..3
                  /\ k + 1 # GroupCount(data) => Len(Groups(data)[k + 1]) = 3
                  /\ Taken(data, k) \in Seq(Byte)
                  /\ Taken(data, k + 1) = Taken(data, k) \o Groups(data)[k + 1]
  <1> DEFINE n == Len(data)
             m == GroupCount(data)
             groups == Groups(data)
  <1>1. n \in Nat /\ m \in Nat /\ n <= 3 * m /\ 3 * m <= n + 2
    <2>1. n \in Nat
      BY LenProperties
    <2> HIDE DEF n
    <2>2. \A a \in Nat : /\ (a + 2) \div 3 \in Nat /\ a <= 3 * ((a + 2) \div 3)
                         /\ 3 * ((a + 2) \div 3) <= a + 2
      OBVIOUS
    <2> QED
      BY <2>1, <2>2 DEF GroupCount, n
  <1>2. groups = [k \in 1..m |-> SubSeq(data, 3 * k - 2, IF 3 * k <= n THEN 3 * k ELSE n)]
    BY DEF Groups, GroupCount
  <1>3. DOMAIN groups = 1..m
    BY <1>2
  <1>4. Taken(data, 0) = <<>>
    <2>1. CASE m = 0
      <3>1. n = 0
        BY <1>1, <2>1
      <3> QED
        BY <2>1, <3>1, EmptySeq DEF Taken
    <2>2. CASE m # 0
      <3>1. SubSeq(data, 1, 3 * 0) = <<>>
        OBVIOUS
      <3> QED
        BY <2>2, <3>1 DEF Taken
    <2> QED
      BY <2>1, <2>2
  <1>5. Taken(data, m) = data
    BY DEF Taken
  <1>6. ASSUME NEW k \in 0 .. m - 1
        PROVE  /\ groups[k + 1] \in Seq(Byte)
               /\ Len(groups[k + 1]) \in 1..3
               /\ k + 1 # m => Len(groups[k + 1]) = 3
               /\ Taken(data, k) \in Seq(Byte)
               /\ Taken(data, k + 1) = Taken(data, k) \o groups[k + 1]
    <2> DEFINE a == 3 * k
               b == IF 3 * (k + 1) <= n THEN 3 * (k + 1) ELSE n
    <2>1. /\ a \in Nat /\ b \in Nat /\ a < b /\ b <= n /\ b <= a + 3
          /\ k + 1 # m => b = a + 3 /\ k + 1 \in Int
          /\ k + 1 = m => b = n
      <3> HIDE DEF n, m
      <3> QED
        BY <1>1
    <2>2. groups[k + 1] = SubSeq(data, a + 1, b)
      <3>1. k + 1 \in 1..m /\ 3 * (k + 1) - 2 = a + 1
        <4> HIDE DEF n, m
        <4> QED
          BY <1>1
      <3> HIDE DEF n, m, groups, a
      <3> QED
        BY <1>2, <3>1
    <2>3. Taken(data, k) = SubSeq(data, 1, a)
      <3>1. k # m
        <4> HIDE DEF n, m
        <4> QED
          BY <1>1
      <3> QED
        BY <3>1, Zenon DEF Taken
    <2>4. Taken(data, k + 1) = SubSeq(data, 1, b)
      <3>1. CASE k + 1 = m
        <4>1. SubSeq(data, 1, n) = data
          BY SubSeqFull
        <4>2. b = n
          BY <2>1, <3>1
        <4> HIDE DEF b
        <4> QED
          BY <3>1, <4>1, <4>2, Zenon DEF Taken
      <3>2. CASE k + 1 # m
        <4>1. b = 3 * (k + 1)
          BY <2>1, <3>2
        <4> HIDE DEF b
        <4> QED
          BY <3>2, <4>1, Zenon DEF Taken
      <3> QED
        BY <3>1, <3>2, Zenon
    <2> HIDE DEF n, m, groups, a, b
    <2>5. /\ SubSeq(data, a + 1, b) \in Seq(Byte) /\ Len(SubSeq(data, a + 1, b)) = b - a
          /\ SubSeq(data, 1, a) \in Seq(Byte)
          /\ SubSeq(data, 1, b) = SubSeq(data, 1, a) \o SubSeq(data, a + 1, b)
      <3>1. a + 1 \in 1 .. n + 1 /\ b \in 0..n /\ a \in 0..n
        BY <1>1, <2>1
      <3> QED
        BY <2>1, <3>1, SubSeqProperties, ConcatProperties DEF n
    <2>6. b - a \in 1..3 /\ (k + 1 # m => b - a = 3)
      BY <2>1
    <2> QED
      BY <2>2, <2>3, <2>4, <2>5, <2>6
  <1> HIDE DEF m, groups
  <1> QED
    BY <1>1, <1>3, <1>4, <1>5, <1>6, Zenon DEF m, groups

\* The characters of the first k groups.
Codes(data, k) == [i \in 1..k |-> EncodeGroup(Groups(data)[i])]

Blank == Bits(0, 0, <<>>)

\* What is decoded after the first k groups.
DecodedUpTo(data, k) ==
    /\ Codes(data, k) \in Seq(Seq(Base64Character))
    /\ Len(FlattenSeq(Codes(data, k))) = 4 * k
    /\ \E n \in Nat, left \in {0, 2, 4} :
           /\ Decoding!Fold(Blank, FlattenSeq(Codes(data, k))) = Bits(n, left, Taken(data, k))
           /\ k # GroupCount(data) => left = 0

\* The codes of the first groups are decoded into those groups.
LEMMA CodesDecoded ==
    ASSUME NEW data \in Seq(Byte)
    PROVE  \A k \in 0..GroupCount(data) : DecodedUpTo(data, k)
  <1> DEFINE m == GroupCount(data)
             S == Base64Character
             T == {k \in Nat : k <= m => DecodedUpTo(data, k)}
  <1>1. m \in Nat
    BY GroupsProperties
  <1>2. 0 \in T
    <2>1. Codes(data, 0) = <<>> /\ Codes(data, 0) \in Seq(Seq(S))
      BY DEF Codes
    <2>2. FlattenSeq(<<>>) = <<>> /\ Len(<<>>) = 4 * 0
      <3>1. <<>> \in Seq(Seq(S)) /\ <<>> \in Seq(S) /\ Len(<<>>) = 4 * 0
        BY EmptySeq
      <3>2. FlattenSeq(<<>>) = <<>>
        BY <3>1, FlattenProperties, Zenon
      <3> QED
        BY <3>1, <3>2, Zenon
    <2>3. Decoding!Fold(Blank, <<>>) = Bits(0, 0, Taken(data, 0))
      BY NaturalInduction, Decoding!FoldEmpty, GroupsProperties DEF Blank
    <2>4. 0 \in Nat /\ 0 \in {0, 2, 4}
      OBVIOUS
    <2> HIDE DEF S, m
    <2>5. DecodedUpTo(data, 0)
      BY <2>1, <2>2, <2>3, <2>4, Zenon DEF DecodedUpTo, S
    <2> QED
      BY <2>5
  <1>3. ASSUME NEW k \in T PROVE k + 1 \in T
    <2> SUFFICES ASSUME k + 1 <= m PROVE DecodedUpTo(data, k + 1)
      OBVIOUS
    <2> DEFINE g == Groups(data)[k + 1]
               code == EncodeGroup(g)
               codes == Codes(data, k)
    <2>1. k \in 0 .. m - 1 /\ k \in Nat /\ k # m /\ DecodedUpTo(data, k)
      BY <1>1
    <2>2. /\ g \in Seq(Byte) /\ Len(g) \in 1..3 /\ (k + 1 # m => Len(g) = 3)
          /\ Taken(data, k) \in Seq(Byte) /\ Taken(data, k + 1) = Taken(data, k) \o g
      BY <2>1, GroupsProperties
    <2>3. code \in Seq(S) /\ Len(code) = 4
      <3> HIDE DEF g
      <3> QED
        BY <2>2, GroupType
    <2>4. codes \in Seq(Seq(S))
      BY <2>1 DEF DecodedUpTo
    <2>5. Codes(data, k + 1) = Append(codes, code)
      <3>1. Len(codes) = k
        BY <2>1 DEF Codes
      <3>2. \A i \in 1..k : codes[i] = EncodeGroup(Groups(data)[i])
        BY DEF Codes
      <3> DEFINE next == Codes(data, k + 1)
      <3>3. /\ \A i \in 1..k : next[i] = codes[i] /\ codes[i] \in Seq(S)
            /\ next[k + 1] = code
            /\ next = [i \in 1 .. k + 1 |-> EncodeGroup(Groups(data)[i])]
            /\ \A i \in 1 .. k + 1 : next[i] = EncodeGroup(Groups(data)[i])
        <4>1. next = [i \in 1 .. k + 1 |-> EncodeGroup(Groups(data)[i])]
          BY DEF Codes
        <4>2. \A i \in 1 .. k + 1 : next[i] = EncodeGroup(Groups(data)[i])
          BY <4>1
        <4>3. \A i \in 1..k : i \in 1 .. k + 1
          BY <2>1
        <4>4. k + 1 \in 1 .. k + 1
          BY <2>1
        <4>5. \A i \in 1..k : codes[i] \in Seq(S)
          BY <2>4, <3>1, ElementOfSeq
        <4> HIDE DEF next, codes
        <4> QED
          BY <3>2, <4>1, <4>2, <4>3, <4>4, <4>5, Zenon
      <3> HIDE DEF codes, code, next
      <3>4. \A i \in 1 .. k + 1 : i \in 1..k \/ i = k + 1
        BY <2>1
      <3>5. next \in Seq(Seq(S)) /\ Len(next) = k + 1
        <4>1. \A i \in 1 .. k + 1 : next[i] \in Seq(S)
          BY <2>3, <3>3, <3>4, Zenon
        <4>2. \A i \in 1 .. k + 1 : EncodeGroup(Groups(data)[i]) \in Seq(S)
          BY <3>3, <4>1, Zenon
        <4>3. k + 1 \in Nat
          BY <2>1
        <4> QED
          BY <3>3, <4>2, <4>3
      <3>6. /\ Append(codes, code) \in Seq(Seq(S)) /\ Len(Append(codes, code)) = k + 1
            /\ \A i \in 1..k : Append(codes, code)[i] = codes[i]
            /\ Append(codes, code)[k + 1] = code
        BY <2>3, <2>4, <3>1, AppendProperties
      <3>7. \A i \in 1 .. k + 1 : next[i] = Append(codes, code)[i]
        BY <3>3, <3>4, <3>6, Zenon
      <3>8. next = Append(codes, code)
        BY <3>5, <3>6, <3>7, SeqEqual
      <3> QED
        BY <3>8 DEF next
    <2> HIDE DEF codes, code, S
    <2>6. /\ Append(codes, code) \in Seq(Seq(S))
          /\ FlattenSeq(Append(codes, code)) = FlattenSeq(codes) \o code
          /\ FlattenSeq(codes) \in Seq(S)
      BY <2>3, <2>4, FlattenProperties, AppendProperties
    <2>7. Len(FlattenSeq(codes) \o code) = 4 * (k + 1)
      <3>1. Len(FlattenSeq(codes)) = 4 * k
        BY <2>1 DEF DecodedUpTo, codes
      <3> QED
        <4> DEFINE all == FlattenSeq(codes)
        <4>1. all \in Seq(S) /\ Len(all) = 4 * k
          BY <2>6, <3>1
        <4> HIDE DEF all
        <4>2. Len(all \o code) = Len(all) + Len(code)
          BY <2>3, <4>1, ConcatProperties
        <4>3. 4 * k + 4 = 4 * (k + 1)
          BY <2>1
        <4> QED
          BY <2>3, <4>1, <4>2, <4>3, Zenon DEF all
    <2>8. PICK n \in Nat, left \in {0, 2, 4} :
             /\ Decoding!Fold(Blank, FlattenSeq(codes)) = Bits(n, left, Taken(data, k))
             /\ k # m => left = 0
      BY <2>1, Zenon DEF DecodedUpTo, codes
    <2>9. Decoding!Fold(Blank, FlattenSeq(codes) \o code) =
              Decoding!Fold(Bits(n, 0, Taken(data, k)), code)
      <3>1. Decoding!Fold(Blank, FlattenSeq(codes) \o code) =
                Decoding!Fold(Decoding!Fold(Blank, FlattenSeq(codes)), code)
        BY <2>3, <2>6, NaturalInduction, Decoding!FoldConcat
      <3> QED
        BY <2>1, <2>8, <3>1, Zenon
    <2>10. PICK b \in Nat, rest \in {0, 2, 4} :
              /\ Decoding!Fold(Bits(n, 0, Taken(data, k)), code) =
                     Bits(b, rest, Taken(data, k) \o g)
              /\ Len(g) = 3 => rest = 0
      <3> HIDE DEF g
      <3> QED
        BY <2>2, GroupDecoded DEF code
    <2> HIDE DEF g, m
    <2> QED
      BY <2>2, <2>5, <2>6, <2>7, <2>9, <2>10, Zenon DEF DecodedUpTo, S, m
  <1>4. T = Nat
    <2>1. T \in SUBSET Nat
      OBVIOUS
    <2> HIDE DEF T
    <2> QED
      BY <1>2, <1>3, <2>1, SetInduction
  <1> HIDE DEF m
  <1> QED
    BY <1>1, <1>4 DEF m

\* The code of any data, and what the decoder makes of it.
LEMMA EncodeProperties ==
    ASSUME NEW data \in Seq(Byte)
    PROVE  /\ Encode(data) \in Seq(Base64Character)
           /\ Len(Encode(data)) % 4 = 0
           /\ Decoding!Fold(Blank, Encode(data)).out = data
  <1> DEFINE m == GroupCount(data)
             codes == Codes(data, m)
  <1>1. m \in Nat /\ DOMAIN Groups(data) = 1..m /\ Taken(data, m) = data
    BY GroupsProperties
  <1>2. DecodedUpTo(data, m)
    BY <1>1, CodesDecoded
  <1>3. Encode(data) = FlattenSeq(codes)
    <2>1. \A ss : FlattenSeq(ss) = FlattenSeq(ss)
      BY DEF FlattenSeq, FlattenSeq
    <2>2. Encode(data) = FlattenSeq([k \in 1..m |-> EncodeGroup(Groups(data)[k])])
      BY <1>1, Zenon DEF Encode
    <2> QED
      BY <2>1, <2>2, Zenon DEF Codes
  <1>4. codes \in Seq(Seq(Base64Character)) /\ Len(FlattenSeq(codes)) = 4 * m
    BY <1>2 DEF DecodedUpTo
  <1>5. PICK n \in Nat, left \in {0, 2, 4} :
           Decoding!Fold(Blank, FlattenSeq(codes)) = Bits(n, left, Taken(data, m))
    BY <1>2, Zenon DEF DecodedUpTo
  <1> HIDE DEF m, codes
  <1>6. FlattenSeq(codes) \in Seq(Base64Character)
    <2>1. <<>> \in Seq(Base64Character)
      BY EmptySeq
    <2> QED
      BY <1>4, <2>1, FlattenProperties
  <1>7. (4 * m) % 4 = 0
    BY <1>1
  <1>8. Decoding!Fold(Blank, FlattenSeq(codes)).out = data
    BY <1>1, <1>5 DEF Bits
  <1> QED
    BY <1>3, <1>4, <1>6, <1>7, <1>8, Zenon

\* How many bits are left over between two characters.
BitCounts == {0, 2, 4, 6}

\* A character never takes back what was decoded.
LEMMA StepGrows ==
    ASSUME NEW buffer \in Nat, NEW bits \in BitCounts, NEW out \in Seq(Nat),
           NEW c \in Base64Character
    PROVE  \E next \in Nat, left \in BitCounts, more \in Seq(Nat) :
               DecodeCharacter(Bits(buffer, bits, out), c) = Bits(next, left, out \o more)
  <1>1. out \o <<>> = out /\ <<>> \in Seq(Nat)
    BY ConcatEmptySeq, EmptySeq
  <1>2. CASE c = Pad
    <2>1. DecodeCharacter(Bits(buffer, bits, out), c) = Bits(buffer, bits, out)
      BY <1>2, DecodeNothing
    <2> QED
      BY <1>1, <2>1, Zenon
  <1>3. CASE c # Pad
    <2> DEFINE next == ShiftIn(buffer, c)
    <2>1. c \in 0..63
      BY <1>3 DEF Base64Character, Pad
    <2>2. next \in Nat
      BY <2>1, LowerBits
    <2>3. CASE bits = 0
      <3>1. DecodeCharacter(Bits(buffer, bits, out), c) = Bits(next, 6, out)
        BY <2>1, <2>3, DecodeValue DEF BitCounts
      <3>2. 6 \in BitCounts
        BY DEF BitCounts
      <3> HIDE DEF next
      <3> QED
        BY <1>1, <2>2, <3>1, <3>2, Zenon
    <2>4. CASE bits # 0
      <3> DEFINE byte == ByteAt(next, bits - 2)
      <3>1. DecodeCharacter(Bits(buffer, bits, out), c) =
                Bits(next, bits - 2, Append(out, byte))
        BY <2>1, <2>4, DecodeValue DEF BitCounts
      <3>2. bits - 2 \in BitCounts
        BY <2>4 DEF BitCounts
      <3> HIDE DEF next
      <3>3. byte \in Nat
        <4>1. CASE bits = 2
          BY <2>2, <4>1 DEF ByteAt
        <4>2. CASE bits = 4
          BY <2>2, <4>2 DEF ByteAt
        <4>3. CASE bits = 6
          BY <2>2, <4>3 DEF ByteAt
        <4> QED
          BY <2>4, <4>1, <4>2, <4>3 DEF BitCounts
      <3> HIDE DEF byte
      <3>4. Append(out, byte) = out \o <<byte>> /\ <<byte>> \in Seq(Nat)
        BY <3>3, OneMore
      <3> QED
        BY <2>2, <3>1, <3>2, <3>4, Zenon
    <2> QED
      BY <2>3, <2>4
  <1> QED
    BY <1>2, <1>3

\* Whatever is decoded further, what was decoded stays.
LEMMA DecodingGrows ==
    ASSUME NEW buffer \in Nat, NEW bits \in BitCounts, NEW out \in Seq(Nat),
           NEW code \in Seq(Base64Character)
    PROVE  \E next \in Nat, left \in BitCounts, more \in Seq(Nat) :
               Decoding!Fold(Bits(buffer, bits, out), code) = Bits(next, left, out \o more)
  <1> DEFINE base == Bits(buffer, bits, out)
             S == {Bits(next, left, out \o more) :
                      next \in Nat, left \in BitCounts, more \in Seq(Nat)}
  <1>1. base \in S
    <2>1. out \o <<>> = out /\ <<>> \in Seq(Nat)
      BY ConcatEmptySeq, EmptySeq
    <2> DEFINE none == <<>>
    <2> HIDE DEF none
    <2>2. base = Bits(buffer, bits, out \o none) /\ none \in Seq(Nat)
      BY <2>1, Zenon DEF none
    <2> HIDE DEF base
    <2> QED
      BY <2>2
  <1>2. ASSUME NEW s \in S, NEW c \in Base64Character PROVE DecodeCharacter(s, c) \in S
    <2>1. PICK n \in Nat, left \in BitCounts, more \in Seq(Nat) :
             s = Bits(n, left, out \o more)
      OBVIOUS
    <2>2. out \o more \in Seq(Nat)
      BY ConcatProperties
    <2> HIDE DEF S, base
    <2> DEFINE sofar == out \o more
    <2> HIDE DEF sofar
    <2>3. PICK m \in Nat, rest \in BitCounts, extra \in Seq(Nat) :
             DecodeCharacter(s, c) = Bits(m, rest, sofar \o extra)
      <3>1. \E m \in Nat, rest \in BitCounts, extra \in Seq(Nat) :
               DecodeCharacter(Bits(n, left, sofar), c) = Bits(m, rest, sofar \o extra)
        BY <2>2, StepGrows DEF sofar
      <3>2. s = Bits(n, left, sofar)
        BY <2>1 DEF sofar
      <3> QED
        BY <3>1, <3>2, Zenon
    <2>4. more \o extra \in Seq(Nat)
      BY ConcatProperties
    <2>5. sofar \o extra = out \o (more \o extra)
      <3>1. \A x, y, z \in Seq(Nat) : (x \o y) \o z = x \o (y \o z)
        BY Reassociated, SMTT(30)
      <3> QED
        BY <3>1, Zenon DEF sofar
    <2>6. DecodeCharacter(s, c) = Bits(m, rest, out \o (more \o extra))
      BY <2>3, <2>5, Zenon
    <2> DEFINE all == more \o extra
    <2> HIDE DEF all
    <2>7. all \in Seq(Nat) /\ DecodeCharacter(s, c) = Bits(m, rest, out \o all)
      BY <2>4, <2>6, Zenon DEF all
    <2> QED
      BY <2>7 DEF S
  <1> HIDE DEF base, S
  <1>3. Decoding!Fold(base, code) \in S
    BY <1>1, <1>2, NaturalInduction, Decoding!FoldType
  <1> QED
    BY <1>3 DEF base, S

\* What stands in front is a prefix.
LEMMA PrefixOfConcat ==
    ASSUME NEW V, NEW s \in Seq(V), NEW t \in Seq(V)
    PROVE  IsPrefix(s, s \o t)
  <1>1. /\ s \o t \in Seq(V) /\ Len(s \o t) = Len(s) + Len(t)
        /\ \A i \in 1..Len(s) : (s \o t)[i] = s[i]
        /\ Len(s) \in Nat /\ Len(t) \in Nat
    BY ConcatProperties, LenProperties
  <1> DEFINE all == s \o t
  <1> HIDE DEF all
  <1>2. /\ all \in Seq(V) /\ Len(s) <= Len(all)
        /\ \A i \in 1..Len(s) : all[i] = s[i]
    BY <1>1 DEF all
  <1>3. SubSeq(s, 1, Len(s)) = s
    BY SubSeqFull
  <1> DEFINE begin == SubSeq(all, 1, Len(s))
  <1>4. begin \in Seq(V) /\ Len(begin) = Len(s) /\ \A i \in 1..Len(s) : begin[i] = s[i]
    BY <1>1, <1>2
  <1> HIDE DEF begin
  <1>5. begin = s
    BY <1>4, SeqEqual
  <1> QED
    BY <1>2, <1>3, <1>5, Zenon DEF IsPrefix, all, begin

\* A character that is not of the alphabet makes no difference, and what is cut is a part.
LEMMA CodeIsRead ==
    ASSUME NEW data \in Seq(Byte),
           NEW a \in Seq(Base64Character), NEW b \in Seq(Base64Character), a \o b = Encode(data)
    PROVE  /\ Decoding!Fold(Blank, (a \o <<Other>>) \o b).out = data
           /\ IsPrefix(Decoding!Fold(Blank, a).out, data)
  <1> DEFINE W == 0..65
             other == <<Other>>
  <1>1. a \in Seq(W) /\ b \in Seq(W) /\ other \in Seq(W)
    BY DEF Base64Character, Other
  <1>2. Decoding!Fold(Decoding!Fold(Blank, a), b) = Decoding!Fold(Blank, Encode(data))
    <2>1. Decoding!Fold(Blank, a \o b) = Decoding!Fold(Decoding!Fold(Blank, a), b)
      BY NaturalInduction, Decoding!FoldConcat
    <2> QED
      BY <2>1, Zenon
  <1>3. Decoding!Fold(Blank, Encode(data)).out = data
    BY EncodeProperties
  <1>4. Decoding!Fold(Blank, (a \o other) \o b) = Decoding!Fold(Decoding!Fold(Blank, a), b)
    <2>1. \A s : Decoding!Fold(s, other) = DecodeCharacter(s, Other)
      BY NaturalInduction, Decoding!FoldOne
    <2>2. \A s : DecodeCharacter(s, Other) = s
      BY DecodeNothing
    <2> HIDE DEF W, other
    <2>3. a \o other \in Seq(W)
      BY <1>1, ConcatProperties
    <2>4. Decoding!Fold(Blank, a \o other) = Decoding!Fold(Decoding!Fold(Blank, a), other)
      BY <1>1, NaturalInduction, Decoding!FoldConcat
    <2> DEFINE left == a \o other
    <2> HIDE DEF left
    <2>5. Decoding!Fold(Blank, left \o b) = Decoding!Fold(Decoding!Fold(Blank, left), b)
      BY <1>1, <2>3, NaturalInduction, Decoding!FoldConcat DEF left
    <2> QED
      BY <2>1, <2>2, <2>4, <2>5, Zenon DEF left
  <1>5. PICK n \in Nat, k \in BitCounts, sofar \in Seq(Nat) :
           Decoding!Fold(Blank, a) = Bits(n, k, sofar)
    <2> DEFINE none == <<>>
    <2>1. Blank = Bits(0, 0, none) /\ none \in Seq(Nat) /\ 0 \in Nat /\ 0 \in BitCounts
      BY DEF Blank, BitCounts
    <2> HIDE DEF none
    <2>2. PICK n \in Nat, k \in BitCounts, more \in Seq(Nat) :
             Decoding!Fold(Blank, a) = Bits(n, k, none \o more)
      <3>1. \E n \in Nat, k \in BitCounts, more \in Seq(Nat) :
               Decoding!Fold(Bits(0, 0, none), a) = Bits(n, k, none \o more)
        BY <2>1, DecodingGrows DEF BitCounts
      <3> QED
        BY <2>1, <3>1, Zenon
    <2>3. none \o more \in Seq(Nat)
      BY <2>1, ConcatProperties
    <2> QED
      BY <2>2, <2>3, Zenon
  <1>6. PICK m \in Nat, l \in BitCounts, rest \in Seq(Nat) :
           Decoding!Fold(Bits(n, k, sofar), b) = Bits(m, l, sofar \o rest)
    BY DecodingGrows DEF BitCounts
  <1>7. data = sofar \o rest
    <2>1. Decoding!Fold(Blank, Encode(data)) = Bits(m, l, sofar \o rest)
      BY <1>2, <1>5, <1>6, Zenon
    <2>2. Bits(m, l, sofar \o rest).out = sofar \o rest
      BY DEF Bits
    <2> QED
      BY <1>3, <2>1, <2>2, Zenon
  <1>8. IsPrefix(sofar, data)
    BY <1>7, PrefixOfConcat
  <1>9. Decoding!Fold(Blank, a).out = sofar
    BY <1>5 DEF Bits
  <1> QED
    BY <1>2, <1>3, <1>4, <1>8, <1>9, Zenon DEF other

\* Base64RoundTrip, for bytes in any number: what is encoded is decoded to the same bytes,
\* characters that are not of the alphabet notwithstanding, and what is cut to the first of
\* them (base64_encode, base64_decode).
THEOREM BytesCorrect == Spec => []Base64RoundTrip
  <1>1. Typing => Base64RoundTrip
    <2> SUFFICES ASSUME Typing, format = "bytes" PROVE Base64RoundTrip
      BY DEF Base64RoundTrip
    <2> DEFINE encoded == Encode(text)
    <2>1. text \in Seq(Byte)
      BY BytesAssumption DEF Typing, Byte
    <2>2. \A t : Decode(t) = Decoding!Fold(Blank, t).out
      BY DEF Decode, Blank, Bits, Decoding!Fold, FoldLeft, MapThenFoldSet, Max,
             Decoding!Greatest
    <2>3. /\ encoded \in Seq(Base64Character) /\ Len(encoded) % 4 = 0
          /\ Decode(encoded) = text
      BY <2>1, <2>2, EncodeProperties
    <2>4. ASSUME NEW i \in 0..Len(encoded)
          PROVE  /\ Decode(SubSeq(encoded, 1, i) \o <<Other>> \o
                              SubSeq(encoded, i + 1, Len(encoded))) = text
                 /\ IsPrefix(Decode(SubSeq(encoded, 1, i)), text)
      <3> HIDE DEF encoded
      <3> DEFINE a == SubSeq(encoded, 1, i)
                 b == SubSeq(encoded, i + 1, Len(encoded))
      <3>1. a \in Seq(Base64Character) /\ b \in Seq(Base64Character) /\ a \o b = encoded
        <4>1. Len(encoded) \in Nat /\ i \in Nat /\ i <= Len(encoded)
          BY <2>3
        <4>2. \A j \in 1..Len(encoded) : encoded[j] \in Base64Character
          BY <2>3, ElementOfSeq
        <4>3. a \in Seq(Base64Character)
          BY <4>1, <4>2, SubSeqProperties
        <4>4. b \in Seq(Base64Character)
          BY <4>1, <4>2, SubSeqProperties
        <4>5. a \o b = SubSeq(encoded, 1, Len(encoded))
          <5> DEFINE n == Len(encoded)
          <5> HIDE DEF n
          <5>1. 1 \in 1 .. n + 1 /\ i \in 1 - 1 .. n /\ n \in i..n
            BY <4>1 DEF n
          <5>2. SubSeq(encoded, 1, i) \o SubSeq(encoded, i + 1, n) =
                    SubSeq(encoded, 1, n)
            BY <2>3, <5>1, ConcatAdjacentSubSeq DEF n
          <5> QED
            BY <5>2, Zenon DEF a, b, n
        <4>6. SubSeq(encoded, 1, Len(encoded)) = encoded
          BY <2>3, SubSeqFull
        <4> QED
          BY <4>3, <4>4, <4>5, <4>6, Zenon
      <3> HIDE DEF a, b
      <3>2. /\ Decoding!Fold(Blank, (a \o <<Other>>) \o b).out = text
            /\ IsPrefix(Decoding!Fold(Blank, a).out, text)
        BY <2>1, <3>1, CodeIsRead DEF encoded
      <3> QED
        BY <2>2, <3>2, Zenon DEF a, b
    <2> HIDE DEF encoded
    <2> QED
      BY <2>3, <2>4, Zenon DEF Base64RoundTrip, encoded
  <1> QED
    BY <1>1, TextIsOfFormat, PTL
-----------------------------------------------------------------------------
(* AnswersAreWholeOrNothing: the fields of an answer, found whatever they hold. *)

\* The least position, from a position that no other is before.
LEMMA LeastOf ==
    ASSUME NEW S \in SUBSET Nat, NEW m \in S, \A x \in S : m <= x
    PROVE  Min(S) = m
  <1>1. \A x \in S : (\A y \in S : x <= y) => x = m
    OBVIOUS
  <1> QED
    BY <1>1 DEF Min

\* Four characters where a field's name is.
NamedAt(body, field, i) ==
    /\ i + 3 <= Len(body)
    /\ body[i] = Quote /\ body[i + 1] = field
    /\ body[i + 2] = Quote /\ body[i + 3] = "colon"

\* A field's name is found where its four characters are.
LEMMA NamePrefix ==
    ASSUME NEW V, NEW body \in Seq(V), NEW field \in V, NEW i \in DOMAIN body,
           Quote \in V, "colon" \in V
    PROVE  IsPrefix(<<Quote, field, Quote, "colon">>, SubSeq(body, i, Len(body)))
               <=> NamedAt(body, field, i)
  <1> DEFINE name == <<Quote, field, Quote, "colon">>
             rest == SubSeq(body, i, Len(body))
             begin == SubSeq(rest, 1, 4)
  <1>1. /\ name \in Seq(V) /\ Len(name) = 4
        /\ name[1] = Quote /\ name[2] = field /\ name[3] = Quote /\ name[4] = "colon"
    OBVIOUS
  <1>2. /\ rest \in Seq(V) /\ Len(rest) = Len(body) - i + 1
        /\ \A j \in 1..Len(rest) : rest[j] = body[i + j - 1]
    OBVIOUS
  <1> HIDE DEF name, rest
  <1>3. IsPrefix(name, rest) <=> 4 <= Len(rest) /\ name = begin
    <2>1. SubSeq(name, 1, 4) = name
      BY <1>1, SubSeqFull
    <2> QED
      BY <1>1, <2>1, Zenon DEF IsPrefix
  <1>4. ASSUME 4 <= Len(rest)
        PROVE  name = begin <=> \A j \in 1..4 : name[j] = rest[j]
    <2>1. begin \in Seq(V) /\ Len(begin) = 4 /\ \A j \in 1..4 : begin[j] = rest[j]
      BY <1>2, <1>4
    <2> HIDE DEF begin
    <2> QED
      BY <1>1, <2>1, SeqEqual
  <1>5. ASSUME 4 <= Len(rest)
        PROVE  (\A j \in 1..4 : name[j] = rest[j]) <=> NamedAt(body, field, i)
    <2>1. /\ i + 3 <= Len(body)
          /\ rest[1] = body[i] /\ rest[2] = body[i + 1]
          /\ rest[3] = body[i + 2] /\ rest[4] = body[i + 3]
      <3>1. i \in Nat /\ Len(rest) \in Nat /\ Len(body) \in Nat
        BY <1>2
      <3>2. 1 \in 1..Len(rest) /\ 2 \in 1..Len(rest) /\ 3 \in 1..Len(rest) /\ 4 \in 1..Len(rest)
        BY <1>5, <3>1
      <3>3. i + 1 - 1 = i /\ i + 2 - 1 = i + 1 /\ i + 3 - 1 = i + 2 /\ i + 4 - 1 = i + 3
        BY <3>1
      <3>4. i + 3 <= Len(body)
        BY <1>2, <1>5, <3>1
      <3> QED
        BY <1>2, <3>2, <3>3, <3>4, Zenon
    <2>2. \A j \in 1..4 : j = 1 \/ j = 2 \/ j = 3 \/ j = 4
      OBVIOUS
    <2>3. 1 \in 1..4 /\ 2 \in 1..4 /\ 3 \in 1..4 /\ 4 \in 1..4
      OBVIOUS
    <2> QED
      BY <1>1, <2>1, <2>2, <2>3, Zenon DEF NamedAt
  <1>6. ASSUME ~(4 <= Len(rest)) PROVE ~NamedAt(body, field, i)
    BY <1>2, <1>6 DEF NamedAt
  <1> HIDE DEF begin
  <1> QED
    BY <1>3, <1>4, <1>5, <1>6, Zenon DEF name, rest

\* An answer with two fields, up to the first character of the second one's value.
Heading(body, first, field, value) ==
    /\ body[1] = "{" /\ body[2] = Quote /\ body[3] = first /\ body[4] = Quote
    /\ body[5] = "colon" /\ body[6] = Quote /\ body[7] = "x" /\ body[8] = Quote
    /\ body[9] = "comma" /\ body[10] = Quote /\ body[11] = field /\ body[12] = Quote
    /\ body[13] = "colon" /\ body[14] = value

\* A name that stands once is found there, or nowhere once its end is cut off.
LEMMA OnePosition ==
    ASSUME NEW V, NEW body \in Seq(V), NEW n \in 0..Len(body), NEW first, NEW field \in V,
           NEW value, Heading(body, first, field, value), 14 <= Len(body),
           first # field, field # "colon", field # "x", field # "comma",
           field # Quote,
           Quote \in V, "colon" \in V,
           \A i \in 14..Len(body) : ~NamedAt(body, field, i)
    PROVE  Positions(SubSeq(body, 1, n), field) = IF n < 13 THEN {} ELSE {10}
  <1> DEFINE part == SubSeq(body, 1, n)
  <1>1. /\ part \in Seq(V) /\ Len(part) = n /\ DOMAIN part = 1..n
        /\ \A i \in 1..n : part[i] = body[i]
    OBVIOUS
  <1> HIDE DEF part
  <1>2. Positions(part, field) = {i \in 1..n : NamedAt(part, field, i)}
    <2>1. \A i \in DOMAIN part :
             IsPrefix(<<Quote, field, Quote, "colon">>, SubSeq(part, i, Len(part)))
                 <=> NamedAt(part, field, i)
      BY <1>1, NamePrefix
    <2> QED
      BY <1>1, <2>1, Zenon DEF Positions
  <1>3. ASSUME NEW i \in 1..n
        PROVE  NamedAt(part, field, i) <=> i + 3 <= n /\ NamedAt(body, field, i)
    <2>1. CASE i + 3 <= n
      <3>1. /\ i + 1 \in 1..n /\ i + 2 \in 1..n /\ i + 3 \in 1..n /\ i + 3 <= Len(body)
        BY <2>1
      <3> QED
        BY <1>1, <2>1, <3>1, Zenon DEF NamedAt
    <2>2. CASE ~(i + 3 <= n)
      BY <1>1, <2>2, Zenon DEF NamedAt
    <2> QED
      BY <2>1, <2>2, Zenon
  <1>4. NamedAt(body, field, 10)
    <2>1. 10 + 1 = 11 /\ 10 + 2 = 12 /\ 10 + 3 = 13 /\ 13 <= Len(body)
      OBVIOUS
    <2> QED
      BY <2>1, Zenon DEF Heading, NamedAt
  <1>5. ASSUME NEW i \in 1..n, i # 10 PROVE ~NamedAt(body, field, i)
    <2>1. CASE i >= 14
      BY <2>1
    <2>2. CASE i < 14
      <3>1. i \in {1, 2, 3, 4, 5, 6, 7, 8, 9, 11, 12, 13}
        BY <1>5, <2>2
      <3>2. /\ body[1] # Quote /\ body[3] # field /\ body[4] # field
            /\ body[5] # field /\ body[5] # Quote /\ body[7] # field
            /\ body[7] # Quote /\ body[9] # field /\ body[9] # Quote
            /\ body[11] # Quote /\ body[13] # field /\ body[13] # Quote
        BY DEF Heading, Quote
      <3>3. /\ 2 + 1 = 3 /\ 3 + 1 = 4 /\ 4 + 1 = 5 /\ 6 + 1 = 7 /\ 8 + 1 = 9 /\ 12 + 1 = 13
        OBVIOUS
      <3>4. body[i] # Quote \/ body[i + 1] # field
        BY <3>1, <3>2, <3>3, Zenon
      <3> QED
        BY <3>4, Zenon DEF NamedAt
    <2> QED
      BY <2>1, <2>2
  <1> QED
    <2>1. n < 13 => \A i \in 1..n : ~NamedAt(part, field, i)
      BY <1>3, <1>5
    <2>2. ~(n < 13) => 10 \in 1..n /\ NamedAt(part, field, 10)
      BY <1>3, <1>4
    <2>3. \A i \in 1..n : NamedAt(part, field, i) => i = 10
      BY <1>3, <1>5, Zenon
    <2>4. Positions(part, field) = IF n < 13 THEN {} ELSE {10}
      BY <1>2, <2>1, <2>2, <2>3, Zenon
    <2> QED
      BY <2>4, Zenon DEF part

\* What a cut leaves.
LEMMA PartOfBody ==
    ASSUME NEW V, NEW body \in Seq(V), NEW n \in 0..Len(body)
    PROVE  /\ SubSeq(body, 1, n) \in Seq(V) /\ Len(SubSeq(body, 1, n)) = n
           /\ \A i \in 1..n : SubSeq(body, 1, n)[i] = body[i]
  OBVIOUS

\* The first position of some, or just behind the end.
LEMMA FirstFound ==
    ASSUME NEW n \in Nat, NEW T \in SUBSET Nat, \A x \in T : x <= n
    PROVE  /\ T = {} => Min(T \cup {n + 1}) = n + 1
           /\ \A m \in T : (\A x \in T : m <= x) => Min(T \cup {n + 1}) = m
  <1> DEFINE S == T \cup {n + 1}
  <1>1. S \in SUBSET Nat
    OBVIOUS
  <1>2. ASSUME NEW m \in T, \A x \in T : m <= x PROVE Min(S) = m
    <2>1. m \in S /\ \A x \in S : m <= x
      BY <1>2
    <2> HIDE DEF S
    <2> QED
      BY <1>1, <2>1, LeastOf
  <1>3. ASSUME T = {} PROVE Min(S) = n + 1
    <2>1. n + 1 \in S /\ \A x \in S : n + 1 <= x
      BY <1>3
    <2> HIDE DEF S
    <2> QED
      BY <1>1, <2>1, LeastOf
  <1> QED
    BY <1>2, <1>3

AnswerCharacter(S) ==
    S \cup {"{", Quote, "colon", "x", "comma", "blank", "}", "name", "content", "size",
            "default_branch", Backslash, "n"}

Answer(open, q, first, colon, x, comma, field, v, close) ==
    <<open>> \o (<<q, first, q, colon>> \o (<<q>> \o <<x>> \o <<q>>)) \o
    <<comma>> \o (<<q, field, q, colon>> \o v) \o <<close>>

LaidOut(V, body, open, q, first, colon, x, comma, field, v, close) ==
    /\ body \in Seq(V) /\ Len(body) = Len(v) + 14
    /\ body[1] = open /\ body[2] = q /\ body[3] = first /\ body[4] = q
    /\ body[5] = colon /\ body[6] = q /\ body[7] = x /\ body[8] = q /\ body[9] = comma
    /\ body[10] = q /\ body[11] = field /\ body[12] = q /\ body[13] = colon
    /\ \A i \in 1..Len(v) : body[i + 13] = v[i]
    /\ body[Len(v) + 14] = close

\* The answer of two fields, character by character.
LEMMA TwoFields ==
    ASSUME NEW V, NEW open \in V, NEW q \in V, NEW first \in V, NEW colon \in V, NEW x \in V,
           NEW comma \in V, NEW field \in V, NEW close \in V, NEW v \in Seq(V)
    PROVE  LaidOut(V, Answer(open, q, first, colon, x, comma, field, v, close),
                   open, q, first, colon, x, comma, field, v, close)
  <1> DEFINE body == Answer(open, q, first, colon, x, comma, field, v, close)
  <1>1. body \in Seq(V) /\ Len(body) = Len(v) + 14
    BY DEF Answer
  <1>2. body[1] = open /\ body[2] = q /\ body[3] = first /\ body[4] = q
    BY DEF Answer
  <1>3. body[5] = colon /\ body[6] = q /\ body[7] = x
    BY DEF Answer
  <1>4. body[8] = q /\ body[9] = comma
    BY DEF Answer
  <1>5. body[10] = q /\ body[11] = field
    BY DEF Answer
  <1>6. body[12] = q /\ body[13] = colon
    BY DEF Answer
  <1>7. \A i \in 1..Len(v) : body[i + 13] = v[i]
    BY DEF Answer
  <1>8. body[Len(v) + 14] = close
    BY DEF Answer
  <1> HIDE DEF body
  <1> QED
    BY <1>1, <1>2, <1>3, <1>4, <1>5, <1>6, <1>7, <1>8, Zenon DEF LaidOut, body

\* A text between two characters.
LEMMA Enclosed ==
    ASSUME NEW V, NEW a \in V, NEW b \in V, NEW s \in Seq(V)
    PROVE  /\ <<a>> \o s \in Seq(V) /\ Len(<<a>> \o s) = Len(s) + 1
           /\ (<<a>> \o s)[1] = a /\ \A i \in 1..Len(s) : (<<a>> \o s)[i + 1] = s[i]
           /\ <<a>> \o s \o <<b>> \in Seq(V) /\ Len(<<a>> \o s \o <<b>>) = Len(s) + 2
           /\ (<<a>> \o s \o <<b>>)[1] = a
           /\ \A i \in 1..Len(s) : (<<a>> \o s \o <<b>>)[i + 1] = s[i]
           /\ (<<a>> \o s \o <<b>>)[Len(s) + 2] = b
  <1>1. /\ <<a>> \o s \in Seq(V) /\ Len(<<a>> \o s) = Len(s) + 1
        /\ (<<a>> \o s)[1] = a /\ \A i \in 1..Len(s) : (<<a>> \o s)[i + 1] = s[i]
    OBVIOUS
  <1> DEFINE t == <<a>> \o s
  <1> HIDE DEF t
  <1>2. /\ t \in Seq(V) /\ Len(t) = Len(s) + 1 /\ Len(s) \in Nat
        /\ t[1] = a /\ \A i \in 1..Len(s) : t[i + 1] = s[i]
    BY <1>1 DEF t
  <1>3. /\ t \o <<b>> \in Seq(V) /\ Len(t \o <<b>>) = Len(t) + 1
        /\ \A i \in 1..Len(t) : (t \o <<b>>)[i] = t[i]
        /\ (t \o <<b>>)[Len(t) + 1] = b
    BY <1>2
  <1>4. /\ Len(t \o <<b>>) = Len(s) + 2 /\ (t \o <<b>>)[Len(s) + 2] = b
        /\ (t \o <<b>>)[1] = a
    BY <1>2, <1>3
  <1>5. \A i \in 1..Len(s) : (t \o <<b>>)[i + 1] = s[i]
    BY <1>2, <1>3
  <1> QED
    BY <1>1, <1>3, <1>4, <1>5, Zenon DEF t

\* The answer about a repository, character by character.
LEMMA RepoAnswerProperties ==
    ASSUME NEW S, NEW size \in Seq(S)
    PROVE  /\ RepoAnswer(size) \in Seq(AnswerCharacter(S))
           /\ Len(RepoAnswer(size)) = Len(size) + 15
           /\ Heading(RepoAnswer(size), "default_branch", "size", "blank")
           /\ \A i \in 1..Len(size) : RepoAnswer(size)[i + 14] = size[i]
           /\ RepoAnswer(size)[Len(size) + 15] = "}"
  <1> DEFINE V == AnswerCharacter(S)
             body == RepoAnswer(size)
             open == "{"
             first == "default_branch"
             colon == "colon"
             x == "x"
             comma == "comma"
             field == "size"
             close == "}"
             blank == "blank"
             value == <<blank>> \o size
  <1>1. /\ open \in V /\ Quote \in V /\ colon \in V /\ x \in V /\ comma \in V
        /\ blank \in V /\ close \in V /\ field \in V /\ first \in V
    BY Zenon DEF AnswerCharacter
  <1>2. size \in Seq(V)
    <2>1. S \in SUBSET V
      BY Zenon DEF AnswerCharacter
    <2> HIDE DEF V
    <2> QED
      BY <2>1
  <1> HIDE DEF V
  <1>3. body = Answer(open, Quote, first, colon, x, comma, field, value, close)
    BY Zenon DEF RepoAnswer, StringField, Field, Answer
  <1> HIDE DEF open, first, colon, x, comma, field, close, blank
  <1>4. /\ value \in Seq(V) /\ Len(value) = Len(size) + 1 /\ value[1] = blank
        /\ \A i \in 1..Len(size) : value[i + 1] = size[i]
    BY <1>1, <1>2, Enclosed
  <1> HIDE DEF body, value
  <1>5. LaidOut(V, body, open, Quote, first, colon, x, comma, field, value, close)
    BY <1>1, <1>3, <1>4, TwoFields
  <1>6. Len(size) \in Nat
    BY LenProperties
  <1>7. Len(body) = Len(size) + 15 /\ body[14] = blank /\ body[Len(size) + 15] = close
    <2>1. 1 \in 1..Len(value) /\ 1 + 13 = 14 /\ Len(value) + 14 = Len(size) + 15
      BY <1>4, <1>6
    <2> QED
      BY <1>4, <1>5, <2>1, Zenon DEF LaidOut
  <1>8. \A i \in 1..Len(size) : body[i + 14] = size[i]
    <2> TAKE i \in 1..Len(size)
    <2>1. i + 1 \in 1..Len(value) /\ (i + 1) + 13 = i + 14
      BY <1>4, <1>6
    <2> QED
      BY <1>4, <1>5, <2>1, Zenon DEF LaidOut
  <1> QED
    BY <1>5, <1>7, <1>8, Zenon
        DEF LaidOut, Heading, body, V, open, first, colon, x, comma, field, close, blank

FileBody(content) ==
    Answer("{", Quote, "name", "colon", "x", "comma", "content",
           <<Quote>> \o content \o <<Quote>>, "}")

\* The answer about a file, character by character.
LEMMA FileBodyProperties ==
    ASSUME NEW S, NEW content \in Seq(AnswerCharacter(S))
    PROVE  /\ FileBody(content) \in Seq(AnswerCharacter(S))
           /\ Len(FileBody(content)) = Len(content) + 16
           /\ Heading(FileBody(content), "name", "content", Quote)
           /\ \A i \in 1..Len(content) : FileBody(content)[i + 14] = content[i]
           /\ FileBody(content)[Len(content) + 15] = Quote
           /\ FileBody(content)[Len(content) + 16] = "}"
  <1> DEFINE V == AnswerCharacter(S)
             body == FileBody(content)
             open == "{"
             first == "name"
             colon == "colon"
             x == "x"
             comma == "comma"
             field == "content"
             close == "}"
             value == <<Quote>> \o content \o <<Quote>>
  <1>1. /\ open \in V /\ Quote \in V /\ colon \in V /\ x \in V /\ comma \in V
        /\ close \in V /\ field \in V /\ first \in V
    BY Zenon DEF AnswerCharacter
  <1> HIDE DEF V
  <1>3. body = Answer(open, Quote, first, colon, x, comma, field, value, close)
    BY Zenon DEF FileBody
  <1> HIDE DEF open, first, colon, x, comma, field, close
  <1>4. /\ value \in Seq(V) /\ Len(value) = Len(content) + 2 /\ value[1] = Quote
        /\ \A i \in 1..Len(content) : value[i + 1] = content[i]
        /\ value[Len(content) + 2] = Quote
    <2>1. content \in Seq(V)
      BY DEF V
    <2> QED
      BY <1>1, <2>1, Enclosed
  <1> HIDE DEF body, value
  <1>5. LaidOut(V, body, open, Quote, first, colon, x, comma, field, value, close)
    BY <1>1, <1>3, <1>4, TwoFields
  <1>6. Len(content) \in Nat
    BY LenProperties
  <1>7. /\ Len(body) = Len(content) + 16 /\ body[14] = Quote
        /\ body[Len(content) + 15] = Quote /\ body[Len(content) + 16] = close
    <2>1. /\ 1 \in 1..Len(value) /\ 1 + 13 = 14 /\ Len(value) + 14 = Len(content) + 16
          /\ Len(content) + 2 \in 1..Len(value)
          /\ (Len(content) + 2) + 13 = Len(content) + 15
      BY <1>4, <1>6
    <2> QED
      BY <1>4, <1>5, <2>1, Zenon DEF LaidOut
  <1>8. \A i \in 1..Len(content) : body[i + 14] = content[i]
    <2> TAKE i \in 1..Len(content)
    <2>1. i + 1 \in 1..Len(value) /\ (i + 1) + 13 = i + 14
      BY <1>4, <1>6
    <2> QED
      BY <1>4, <1>5, <2>1, Zenon DEF LaidOut
  <1> QED
    BY <1>5, <1>7, <1>8, Zenon
        DEF LaidOut, Heading, body, V, open, first, colon, x, comma, field, close

\* What is in no number.
Numeric(S) == S \cap {"quote", "comma", "}", "blank"} = {}

\* What is left of a number is the beginning of it.
LEMMA NumberCut ==
    ASSUME NEW S, NEW size \in Seq(S), NEW n \in Nat, size # <<>>, n <= Len(size) + 15,
           Numeric(S)
    PROVE  ExtractJsonField(SubSeq(RepoAnswer(size), 1, n), "size") =
               IF n < 15 THEN <<>>
               ELSE SubSeq(size, 1, IF n < Len(size) + 15 THEN n - 14 ELSE Len(size))
  <1> DEFINE V == AnswerCharacter(S)
             body == RepoAnswer(size)
             part == SubSeq(body, 1, n)
  <1>1. /\ body \in Seq(V) /\ Len(body) = Len(size) + 15
        /\ \A i \in 1..Len(size) : body[i + 14] = size[i]
    BY RepoAnswerProperties
  <1>10. Heading(body, "default_branch", "size", "blank") /\ body[Len(size) + 15] = "}"
    BY RepoAnswerProperties, Zenon
  <1>11. /\ body[14] \notin {"quote", "comma", "}"} /\ body[14] = "blank"
         /\ body[Len(size) + 15] \notin {"quote", "comma", "blank"}
    BY <1>10, Zenon DEF Heading
  <1>2. Len(size) \in Nat \ {0} /\ \A i \in 1..Len(size) : size[i] \in S
    BY EmptySeq, LenProperties, ElementOfSeq
  <1> HIDE DEF body
  <1>3. /\ part \in Seq(V) /\ Len(part) = n
        /\ \A i \in 1..n : part[i] = body[i]
    <2>1. n \in 0..Len(body)
      BY <1>1, <1>2
    <2> QED
      BY <1>1, <2>1, PartOfBody
  <1>4. \A i \in 15 .. Len(size) + 14 : body[i] = size[i - 14]
    <2> TAKE i \in 15 .. Len(size) + 14
    <2>1. i - 14 \in 1..Len(size) /\ (i - 14) + 14 = i
      BY <1>2
    <2> QED
      BY <1>1, <2>1, Zenon
  <1>5. \A i \in 15 .. Len(size) + 14 : body[i] \notin {"quote", "comma", "}", "blank"}
    <2> TAKE i \in 15 .. Len(size) + 14
    <2>1. i - 14 \in 1..Len(size)
      BY <1>2
    <2>2. body[i] \in S
      BY <1>2, <1>4, <2>1, Zenon
    <2> QED
      BY <2>2, Zenon DEF Numeric
  <1>6. Positions(part, "size") = IF n < 13 THEN {} ELSE {10}
    <2>1. \A i \in 14..Len(body) : ~NamedAt(body, "size", i)
      <3> TAKE i \in 14..Len(body)
      <3>1. CASE i \in 15 .. Len(size) + 14
        BY <1>5, <3>1, Zenon DEF NamedAt, Quote
      <3>2. CASE i = 14
        BY <1>11, <3>2, Zenon DEF NamedAt, Quote
      <3>3. CASE i = Len(size) + 15
        BY <1>11, <3>3, Zenon DEF NamedAt, Quote
      <3> QED
        BY <1>1, <1>2, <3>1, <3>2, <3>3
    <2>2. "size" \in V /\ Quote \in V /\ "colon" \in V
      BY Zenon DEF AnswerCharacter
    <2>3. 14 <= Len(body) /\ n \in 0..Len(body)
      BY <1>1, <1>2
    <2>4. /\ "default_branch" # "size" /\ "size" # "colon" /\ "size" # "x"
          /\ "size" # "comma" /\ "size" # Quote
      BY DEF Quote
    <2> DEFINE first == "default_branch"
               field == "size"
               blank == "blank"
    <2>5. /\ Heading(body, first, field, blank) /\ field \in V
          /\ \A i \in 14..Len(body) : ~NamedAt(body, field, i)
          /\ first # field /\ field # "colon" /\ field # "x"
          /\ field # "comma" /\ field # Quote
      BY <1>10, <2>1, <2>2, <2>4, Zenon
    <2> HIDE DEF first, field, blank, V
    <2>6. Positions(part, field) = IF n < 13 THEN {} ELSE {10}
      BY <1>1, <2>2, <2>3, <2>5, OnePosition DEF part
    <2> QED
      BY <2>6, Zenon DEF field
  <1> HIDE DEF part
  <1> DEFINE Filled(i) == part[i] # "blank"
             Ends(i) == part[i] \in {"comma", "}"}
  <1>12. /\ \A i \in 15..n : Filled(i)
         /\ \A i \in 15..n : Ends(i) <=> i = Len(size) + 15
         /\ n >= 14 => ~Filled(14)
         /\ \A i \in 15..n : part[i] # Quote
    <2>1. ASSUME NEW i \in 15..n
          PROVE  Filled(i) /\ (Ends(i) <=> i = Len(size) + 15) /\ part[i] # Quote
      <3>1. part[i] = body[i]
        <4>1. i \in 1..n
          OBVIOUS
        <4> QED
          BY <1>3, <4>1, Zenon
      <3>2. CASE i = Len(size) + 15
        BY <1>10, <1>11, <3>1, <3>2, Zenon DEF Quote
      <3>3. CASE i # Len(size) + 15
        <4>1. i \in 15 .. Len(size) + 14
          BY <1>2, <3>3
        <4> QED
          BY <1>5, <3>1, <3>3, <4>1, Zenon DEF Quote
      <3> QED
        BY <3>2, <3>3, Zenon
    <2>2. ASSUME n >= 14 PROVE ~Filled(14)
      <3>1. 14 \in 1..n
        BY <2>2
      <3> QED
        BY <1>3, <1>11, <3>1, Zenon
    <2> QED
      BY <2>1, <2>2, Zenon
  <1> HIDE DEF Filled, Ends
  <1>13. ASSUME ~(n < 13)
         PROVE  /\ Positions(part, "size") # {}
                /\ Min(Positions(part, "size")) + 4 = 14
    <2>1. Positions(part, "size") = {10}
      BY <1>6, <1>13, Zenon
    <2>2. 10 \in {10} /\ {10} # {} /\ {10} \in SUBSET Nat /\ \A x \in {10} : 10 <= x
      OBVIOUS
    <2>3. Min({10}) = 10
      <3> DEFINE S10 == {10}
      <3> HIDE DEF S10
      <3>1. Min(S10) = 10
        BY <2>2, LeastOf DEF S10
      <3> QED
        BY <3>1, Zenon DEF S10
    <2>4. 10 + 4 = 14
      OBVIOUS
    <2> QED
      BY <2>1, <2>2, <2>3, <2>4, Zenon
  <1>14. \A start \in Nat : SkipBlanks(part, start) = Min({i \in start..n : Filled(i)} \cup {n + 1})
    BY <1>3, Zenon DEF SkipBlanks, Filled
  <1>7. CASE n < 13
    <2>1. n < 15
      BY <1>7
    <2>2. Positions(part, "size") = {}
      BY <1>6, <1>7, Zenon
    <2> QED
      BY <2>1, <2>2, Zenon DEF ExtractJsonField, part, body
  <1>8. CASE n \in {13, 14}
    <2>1. n < 15 /\ ~(n < 13)
      BY <1>8
    <2>2. SkipBlanks(part, 14) > n
      <3>1. {i \in 14..n : Filled(i)} = {}
        BY <1>8, <1>12
      <3>2. Min({} \cup {n + 1}) = n + 1
        BY FirstFound
      <3>3. SkipBlanks(part, 14) = n + 1
        BY <1>14, <3>1, <3>2
      <3> QED
        BY <3>3
    <2>3. ExtractJsonField(part, "size") = <<>>
      BY <1>3, <1>13, <2>1, <2>2, Zenon DEF ExtractJsonField
    <2> QED
      BY <2>1, <2>3, Zenon DEF part, body
  <1>9. CASE n >= 15
    <2> DEFINE end == IF n < Len(size) + 15 THEN n + 1 ELSE Len(size) + 15
    <2>1. ~(n < 13) /\ ~(n < 15) /\ ~(15 > n) /\ 15 \in 15..n
      BY <1>9
    <2>3. SkipBlanks(part, 14) = 15
      <3> DEFINE T == {i \in 14..n : Filled(i)}
      <3>1. 15 \in T /\ \A i \in T : 15 <= i
        BY <1>9, <1>12
      <3>2. T \in SUBSET Nat /\ \A i \in T : i <= n
        OBVIOUS
      <3> HIDE DEF T
      <3>3. Min(T \cup {n + 1}) = 15
        BY <3>1, <3>2, FirstFound
      <3> QED
        BY <1>14, <3>3 DEF T
    <2>4. part[15] # Quote
      BY <1>12, <2>1, Zenon
    <2>5. Find(part, 15, {"comma", "}"}) = end
      <3> DEFINE T == {i \in 15..n : Ends(i)}
      <3>1. T \in SUBSET Nat /\ \A i \in T : i <= n
        OBVIOUS
      <3>3. ASSUME n < Len(size) + 15 PROVE T = {}
        BY <1>12, <3>3
      <3>4. ASSUME ~(n < Len(size) + 15)
            PROVE  Len(size) + 15 \in T /\ \A i \in T : Len(size) + 15 <= i
        <4>1. Len(size) + 15 \in 15..n
          BY <1>2, <3>4
        <4> QED
          BY <1>2, <1>12, <4>1
      <3>5. Find(part, 15, {"comma", "}"}) = Min(T \cup {n + 1})
        BY <1>3, Zenon DEF Find, Ends
      <3> HIDE DEF T
      <3>6. Min(T \cup {n + 1}) = end
        BY <3>1, <3>3, <3>4, FirstFound
      <3> QED
        BY <3>5, <3>6, Zenon
    <2>6. ExtractJsonField(part, "size") = SubSeq(part, 15, end - 1)
      <3> HIDE DEF end
      <3> QED
        BY <1>3, <1>13, <2>1, <2>3, <2>4, <2>5, Zenon DEF ExtractJsonField
    <2> DEFINE k == IF n < Len(size) + 15 THEN n - 14 ELSE Len(size)
    <2>7. SubSeq(part, 15, end - 1) = SubSeq(size, 1, k)
      <3>1. k \in 1..Len(size) /\ end - 1 = k + 14 /\ end - 1 <= n
        BY <1>2, <1>9
      <3> HIDE DEF k, end
      <3>2. /\ SubSeq(size, 1, k) \in Seq(V) /\ Len(SubSeq(size, 1, k)) = k
            /\ \A i \in 1..k : SubSeq(size, 1, k)[i] = size[i]
        <4>1. size \in Seq(V)
          <5>1. S \in SUBSET V
            BY Zenon DEF AnswerCharacter
          <5> HIDE DEF V
          <5> QED
            BY <5>1
        <4> QED
          BY <3>1, <4>1
      <3>3. /\ SubSeq(part, 15, end - 1) \in Seq(V) /\ Len(SubSeq(part, 15, end - 1)) = k
            /\ \A i \in 1..k : SubSeq(part, 15, end - 1)[i] = part[i + 14]
        BY <1>3, <3>1
      <3>4. \A i \in 1..k : part[i + 14] = size[i]
        <4> TAKE i \in 1..k
        <4>1. i \in 1..Len(size) /\ i + 14 \in 1..n
          BY <1>2, <3>1
        <4> QED
          BY <1>1, <1>3, <4>1, Zenon
      <3> QED
        BY <3>2, <3>3, <3>4, SeqEqual
    <2> QED
      BY <2>1, <2>6, <2>7, Zenon DEF part, body
  <1> QED
    <2>1. n < 13 \/ n \in {13, 14} \/ n >= 15
      OBVIOUS
    <2> QED
      BY <1>7, <1>8, <1>9, <2>1, Zenon

\* What EmptyRepoIsEmpty says of any text.
LEMMA EmptyRepoCorrect ==
    ASSUME Typing
    PROVE  EmptyRepoIsEmpty
  <1> SUFFICES ASSUME format = "size", text # <<>>, text[1] = "0" => Len(text) = 1
               PROVE  EmptyRepoIsEmpty
    BY Zenon DEF EmptyRepoIsEmpty
  <1> DEFINE S == Alphabets["size"]
             body == RepoAnswer(text)
  <1>1. text \in Seq(S) /\ Numeric(S)
    BY Zenon, AnswersAssumption DEF Typing, Numeric
  <1>2. Len(body) = Len(text) + 15 /\ Len(text) \in Nat \ {0}
    <2> HIDE DEF S
    <2> QED
      BY <1>1, RepoAnswerProperties, EmptySeq, LenProperties
  <1>3. ASSUME NEW n \in Nat, n <= Len(body)
        PROVE  /\ HasCommits(SubSeq(body, 1, n)) => text # <<"0">>
               /\ n = Len(body) => (HasCommits(SubSeq(body, 1, n)) <=> text # <<"0">>)
    <2> DEFINE k == IF n < Len(text) + 15 THEN n - 14 ELSE Len(text)
               field == ExtractJsonField(SubSeq(body, 1, n), "size")
    <2>1. field = IF n < 15 THEN <<>> ELSE SubSeq(text, 1, k)
      <3>1. n <= Len(text) + 15
        BY <1>2, <1>3
      <3> HIDE DEF S
      <3>2. ExtractJsonField(SubSeq(RepoAnswer(text), 1, n), "size") =
               IF n < 15 THEN <<>>
               ELSE SubSeq(text, 1, IF n < Len(text) + 15 THEN n - 14 ELSE Len(text))
        BY <1>1, <1>3, <3>1, NumberCut
      <3> QED
        BY <3>2, Zenon
    <2> HIDE DEF field
    <2>2. ASSUME ~(n < 15), text = <<"0">> PROVE field = <<"0">>
      <3>1. Len(text) = 1
        BY <2>2
      <3>2. k = 1
        BY <1>3, <2>2, <3>1
      <3>3. SubSeq(text, 1, 1) = text
        BY <1>1, <3>1, SubSeqFull
      <3> QED
        BY <2>1, <2>2, <3>2, <3>3, Zenon
    <2>3. ASSUME n = Len(body) PROVE field = text
      <3>1. ~(n < 15) /\ k = Len(text)
        BY <1>2, <2>3
      <3>2. SubSeq(text, 1, Len(text)) = text
        BY <1>1, SubSeqFull
      <3> QED
        BY <2>1, <3>1, <3>2, Zenon
    <2>4. HasCommits(SubSeq(body, 1, n)) <=> field # <<>> /\ field # <<"0">>
      BY Zenon DEF HasCommits, field
    <2> QED
      BY <2>1, <2>2, <2>3, <2>4, Zenon
  <1>4. SubSeq(body, 1, Len(body)) = body /\ Len(body) \in Nat /\ Len(body) <= Len(body)
    <2>1. body \in Seq(AnswerCharacter(S))
      BY <1>1, RepoAnswerProperties
    <2> HIDE DEF S
    <2>2. SubSeq(body, 1, Len(body)) = body
      BY <2>1, SubSeqFull
    <2> QED
      BY <1>2, <2>2
  <1>5. HasCommits(body) <=> text # <<"0">>
    BY <1>3, <1>4, Zenon
  <1>6. \A part \in Cuts(body) : HasCommits(part) => text # <<"0">>
    <2> TAKE part \in Cuts(body)
    <2>1. PICK n \in 0 .. Len(body) - 1 : part = SubSeq(body, 1, n)
      BY Zenon DEF Cuts
    <2>2. n \in Nat /\ n <= Len(body)
      BY <1>4
    <2> QED
      BY <1>3, <2>1, <2>2, Zenon
  <1> QED
    BY <1>5, <1>6, Zenon DEF EmptyRepoIsEmpty

\* A text is taken whole, or not at all.
LEMMA TextCut ==
    ASSUME NEW S, NEW content \in Seq(AnswerCharacter(S)), NEW n \in Nat,
           n <= Len(content) + 16, \A i \in 1..Len(content) : content[i] # Quote
    PROVE  ExtractJsonField(SubSeq(FileBody(content), 1, n), "content") =
               IF n < Len(content) + 15 THEN <<>> ELSE content
  <1> DEFINE V == AnswerCharacter(S)
             body == FileBody(content)
             part == SubSeq(body, 1, n)
  <1>1. /\ body \in Seq(V) /\ Len(body) = Len(content) + 16
        /\ \A i \in 1..Len(content) : body[i + 14] = content[i]
    BY FileBodyProperties
  <1>2. /\ Heading(body, "name", "content", Quote) /\ body[14] = Quote
        /\ body[Len(content) + 15] = Quote /\ body[Len(content) + 16] = "}"
    BY FileBodyProperties, Zenon DEF Heading
  <1>3. Len(content) \in Nat
    BY LenProperties
  <1> HIDE DEF body
  <1>4. /\ part \in Seq(V) /\ Len(part) = n
        /\ \A i \in 1..n : part[i] = body[i]
    <2>1. n \in 0..Len(body)
      BY <1>1, <1>3
    <2> QED
      BY <1>1, <2>1, PartOfBody
  <1>5. \A i \in 15 .. Len(content) + 14 : body[i] = content[i - 14] /\ body[i] # Quote
    <2> TAKE i \in 15 .. Len(content) + 14
    <2>1. i - 14 \in 1..Len(content) /\ (i - 14) + 14 = i
      BY <1>3
    <2> QED
      BY <1>1, <2>1, Zenon
  <1>6. Positions(part, "content") = IF n < 13 THEN {} ELSE {10}
    <2>1. \A i \in 14..Len(body) : ~NamedAt(body, "content", i)
      <3> TAKE i \in 14..Len(body)
      <3>1. CASE i \in 15 .. Len(content) + 14
        BY <1>5, <3>1, Zenon DEF NamedAt
      <3>2. CASE i = 14
        <4>1. 14 + 2 = 16 /\ 14 + 3 = 17
          OBVIOUS
        <4>2. CASE Len(content) = 1
          <5>1. Len(content) + 16 = 17
            BY <4>2
          <5> QED
            BY <1>2, <3>2, <4>1, <5>1, Zenon DEF NamedAt
        <4>3. CASE Len(content) = 0
          <5>1. Len(content) + 16 = 16
            BY <4>3
          <5> QED
            BY <1>2, <3>2, <4>1, <5>1, Zenon DEF NamedAt, Quote
        <4>4. CASE Len(content) > 1
          <5>1. 16 \in 15 .. Len(content) + 14
            BY <1>3, <4>4
          <5> QED
            BY <1>5, <3>2, <4>1, <5>1, Zenon DEF NamedAt
        <4>5. Len(content) = 0 \/ Len(content) = 1 \/ Len(content) > 1
          <5>1. \A k \in Nat : k = 0 \/ k = 1 \/ k > 1
            OBVIOUS
          <5> QED
            BY <1>3, <5>1, Zenon
        <4> QED
          BY <4>2, <4>3, <4>4, <4>5, Zenon
      <3>3. CASE i \in {Len(content) + 15, Len(content) + 16}
        <4>1. ~(i + 3 <= Len(body))
          BY <1>1, <1>3, <3>3
        <4> QED
          BY <4>1, Zenon DEF NamedAt
      <3> QED
        BY <1>1, <1>3, <3>1, <3>2, <3>3
    <2>2. "content" \in V /\ Quote \in V /\ "colon" \in V
      BY Zenon DEF AnswerCharacter
    <2>3. 14 <= Len(body) /\ n \in 0..Len(body)
      BY <1>1, <1>3
    <2>4. /\ "name" # "content" /\ "content" # "colon" /\ "content" # "x"
          /\ "content" # "comma" /\ "content" # Quote
      BY DEF Quote
    <2> DEFINE first == "name"
               field == "content"
    <2>5. /\ Heading(body, first, field, Quote) /\ field \in V
          /\ \A i \in 14..Len(body) : ~NamedAt(body, field, i)
          /\ first # field /\ field # "colon" /\ field # "x"
          /\ field # "comma" /\ field # Quote
      BY <1>2, <2>1, <2>2, <2>4, Zenon
    <2> HIDE DEF first, field, V
    <2>6. Positions(part, field) = IF n < 13 THEN {} ELSE {10}
      BY <1>1, <2>2, <2>3, <2>5, OnePosition DEF part
    <2> QED
      BY <2>6, Zenon DEF field
  <1> HIDE DEF part
  <1> DEFINE Filled(i) == part[i] # "blank"
             Ends(i) == part[i] \in {Quote}
  <1>7. /\ n >= 14 => Filled(14) /\ part[14] = Quote
        /\ \A i \in 15..n : i < Len(content) + 15 => ~Ends(i)
        /\ n >= Len(content) + 15 => Ends(Len(content) + 15)
    <2>1. ASSUME n >= 14 PROVE Filled(14) /\ part[14] = Quote
      <3>1. 14 \in 1..n
        BY <2>1
      <3> QED
        BY <1>2, <1>4, <3>1, Zenon DEF Quote
    <2>2. ASSUME NEW i \in 15..n, i < Len(content) + 15 PROVE ~Ends(i)
      <3>1. i \in 1..n /\ i \in 15 .. Len(content) + 14
        BY <1>3, <2>2
      <3> QED
        BY <1>4, <1>5, <3>1, Zenon
    <2>3. ASSUME n >= Len(content) + 15 PROVE Ends(Len(content) + 15)
      <3>1. Len(content) + 15 \in 1..n
        BY <1>3, <2>3
      <3> QED
        BY <1>2, <1>4, <3>1, Zenon
    <2> QED
      BY <2>1, <2>2, <2>3, Zenon
  <1> HIDE DEF Filled, Ends
  <1>8. ASSUME ~(n < 13)
        PROVE  /\ Positions(part, "content") # {}
               /\ Min(Positions(part, "content")) + 4 = 14
    <2>1. Positions(part, "content") = {10}
      BY <1>6, <1>8, Zenon
    <2>2. 10 \in {10} /\ {10} # {} /\ {10} \in SUBSET Nat /\ \A x \in {10} : 10 <= x
      OBVIOUS
    <2>3. Min({10}) = 10
      <3> DEFINE S10 == {10}
      <3> HIDE DEF S10
      <3>1. Min(S10) = 10
        BY <2>2, LeastOf DEF S10
      <3> QED
        BY <3>1, Zenon DEF S10
    <2>4. 10 + 4 = 14
      OBVIOUS
    <2> QED
      BY <2>1, <2>2, <2>3, <2>4, Zenon
  <1>9. SkipBlanks(part, 14) = Min({i \in 14..n : Filled(i)} \cup {n + 1})
    BY <1>4, Zenon DEF SkipBlanks, Filled
  <1>10. CASE n < 13
    <2>1. n < Len(content) + 15
      BY <1>3, <1>10
    <2>2. Positions(part, "content") = {}
      BY <1>6, <1>10, Zenon
    <2> QED
      BY <2>1, <2>2, Zenon DEF ExtractJsonField, part, body
  <1>11. CASE n = 13
    <2>1. n < Len(content) + 15 /\ ~(n < 13)
      BY <1>3, <1>11
    <2>2. SkipBlanks(part, 14) > n
      <3>1. {i \in 14..n : Filled(i)} = {}
        BY <1>11
      <3>2. Min({} \cup {n + 1}) = n + 1
        BY FirstFound
      <3>3. SkipBlanks(part, 14) = n + 1
        BY <1>9, <3>1, <3>2
      <3> QED
        BY <3>3
    <2>3. ExtractJsonField(part, "content") = <<>>
      BY <1>4, <1>8, <2>1, <2>2, Zenon DEF ExtractJsonField
    <2> QED
      BY <2>1, <2>3, Zenon DEF part, body
  <1>12. CASE n >= 14
    <2> DEFINE end == IF n < Len(content) + 15 THEN n + 1 ELSE Len(content) + 15
    <2>1. ~(n < 13) /\ ~(14 > n) /\ 14 + 1 = 15
      BY <1>12
    <2>3. SkipBlanks(part, 14) = 14
      <3> DEFINE T == {i \in 14..n : Filled(i)}
      <3>1. 14 \in T /\ \A i \in T : 14 <= i
        BY <1>7, <1>12
      <3>2. T \in SUBSET Nat /\ \A i \in T : i <= n
        OBVIOUS
      <3> HIDE DEF T
      <3>3. Min(T \cup {n + 1}) = 14
        BY <3>1, <3>2, FirstFound
      <3> QED
        BY <1>9, <3>3 DEF T
    <2>4. part[14] = Quote
      BY <1>7, <1>12
    <2>5. Find(part, 15, {Quote}) = end
      <3> DEFINE T == {i \in 15..n : Ends(i)}
      <3>1. T \in SUBSET Nat /\ \A i \in T : i <= n
        OBVIOUS
      <3>2. ASSUME n < Len(content) + 15 PROVE T = {}
        BY <1>7, <3>2
      <3>3. ASSUME ~(n < Len(content) + 15)
            PROVE  Len(content) + 15 \in T /\ \A i \in T : Len(content) + 15 <= i
        <4>1. Len(content) + 15 \in 15..n
          BY <1>3, <3>3
        <4> QED
          BY <1>3, <1>7, <4>1
      <3>4. Find(part, 15, {Quote}) = Min(T \cup {n + 1})
        BY <1>4, Zenon DEF Find, Ends
      <3> HIDE DEF T
      <3>5. Min(T \cup {n + 1}) = end
        BY <3>1, <3>2, <3>3, FirstFound
      <3> QED
        BY <3>4, <3>5, Zenon
    <2>6. ExtractJsonField(part, "content") =
             IF end > n THEN <<>> ELSE SubSeq(part, 15, end - 1)
      <3> HIDE DEF end
      <3> QED
        BY <1>4, <1>8, <2>1, <2>3, <2>4, <2>5, Zenon DEF ExtractJsonField
    <2>7. ASSUME n < Len(content) + 15 PROVE end > n
      BY <2>7
    <2>8. ASSUME ~(n < Len(content) + 15)
          PROVE  ~(end > n) /\ SubSeq(part, 15, end - 1) = content
      <3>1. end = Len(content) + 15 /\ end <= n /\ end - 1 = Len(content) + 14
        BY <1>3, <2>8
      <3> HIDE DEF end
      <3>2. \A i \in 1..Len(content) : i + 14 \in 1..n /\ part[i + 14] = content[i]
        BY <1>1, <1>3, <1>4, <2>8
      <3> DEFINE taken == SubSeq(part, 15, end - 1)
      <3>3. /\ taken \in Seq(V) /\ Len(taken) = Len(content)
            /\ \A i \in 1..Len(content) : taken[i] = part[i + 14]
        BY <1>3, <1>4, <3>1
      <3> HIDE DEF taken
      <3>4. taken = content
        BY <3>2, <3>3, SeqEqual
      <3>5. ~(end > n)
        BY <3>1, <1>3
      <3> QED
        BY <3>4, <3>5, Zenon DEF taken
    <2> HIDE DEF end
    <2> QED
      BY <2>6, <2>7, <2>8, Zenon DEF part, body
  <1> QED
    <2>1. n < 13 \/ n = 13 \/ n >= 14
      OBVIOUS
    <2> QED
      BY <1>10, <1>11, <1>12, <2>1, Zenon

-------------------------------------------------------------------------------
(* AnswersAreWholeOrNothing: the line ends in the base64. *)

LineEnd == <<Backslash, "n">>

Dropped(s, i) ==
    \/ s[i] = Backslash /\ i < Len(s) /\ s[i + 1] = "n"
    \/ s[i] = "n" /\ i > 1 /\ s[i - 1] = Backslash

Remaining(s, D) == [i \in DOMAIN s |-> IF i \in D THEN <<>> ELSE <<s[i]>>]

\* What is kept of two texts in a row.
LEMMA RemainingConcat ==
    ASSUME NEW V, NEW s \in Seq(V), NEW t \in Seq(V), NEW D, NEW E, NEW F,
           \A i \in 1..Len(s) : i \in F <=> i \in D,
           \A i \in 1..Len(t) : i + Len(s) \in F <=> i \in E
    PROVE  /\ Remaining(s \o t, F) \in Seq(Seq(V))
           /\ FlattenSeq(Remaining(s \o t, F)) =
                  FlattenSeq(Remaining(s, D)) \o FlattenSeq(Remaining(t, E))
  <1>1. ASSUME NEW u \in Seq(V), NEW A
        PROVE  /\ Remaining(u, A) \in Seq(Seq(V)) /\ Len(Remaining(u, A)) = Len(u)
               /\ \A i \in 1..Len(u) : Remaining(u, A)[i] = IF i \in A THEN <<>> ELSE <<u[i]>>
    <2>1. \A i \in 1..Len(u) : (IF i \in A THEN <<>> ELSE <<u[i]>>) \in Seq(V)
      <3>1. \A i \in 1..Len(u) : u[i] \in V
        BY ElementOfSeq
      <3>2. \A v \in V : <<v>> \in Seq(V)
        OBVIOUS
      <3>3. <<>> \in Seq(V)
        BY EmptySeq
      <3> QED
        BY <3>1, <3>2, <3>3, Zenon
    <2>2. DOMAIN u = 1..Len(u) /\ Len(u) \in Nat
      OBVIOUS
    <2> QED
      BY <2>1, <2>2 DEF Remaining
  <1> DEFINE all == Remaining(s \o t, F)
             left == Remaining(s, D)
             right == Remaining(t, E)
  <1>2. /\ s \o t \in Seq(V) /\ Len(s \o t) = Len(s) + Len(t)
        /\ \A i \in 1..Len(s) : (s \o t)[i] = s[i]
        /\ \A i \in 1..Len(t) : (s \o t)[i + Len(s)] = t[i]
        /\ Len(s) \in Nat /\ Len(t) \in Nat
    BY ConcatProperties, LenProperties
  <1>3. /\ all \in Seq(Seq(V)) /\ Len(all) = Len(s) + Len(t)
        /\ \A i \in 1 .. Len(s) + Len(t) :
              all[i] = IF i \in F THEN <<>> ELSE <<(s \o t)[i]>>
    BY <1>1, <1>2
  <1>4. /\ left \in Seq(Seq(V)) /\ Len(left) = Len(s)
        /\ \A i \in 1..Len(s) : left[i] = IF i \in D THEN <<>> ELSE <<s[i]>>
    BY <1>1
  <1>5. /\ right \in Seq(Seq(V)) /\ Len(right) = Len(t)
        /\ \A i \in 1..Len(t) : right[i] = IF i \in E THEN <<>> ELSE <<t[i]>>
    BY <1>1
  <1> HIDE DEF all, left, right
  <1>6. all = left \o right
    <2>1. /\ left \o right \in Seq(Seq(V)) /\ Len(left \o right) = Len(s) + Len(t)
          /\ \A i \in 1..Len(s) : (left \o right)[i] = left[i]
          /\ \A i \in 1..Len(t) : (left \o right)[i + Len(s)] = right[i]
      <3> DEFINE W == Seq(V)
      <3> HIDE DEF W
      <3>1. left \in Seq(W) /\ right \in Seq(W)
        BY <1>4, <1>5 DEF W
      <3>2. /\ left \o right \in Seq(W) /\ Len(left \o right) = Len(left) + Len(right)
            /\ \A i \in 1..Len(left) : (left \o right)[i] = left[i]
            /\ \A i \in 1..Len(right) : (left \o right)[i + Len(left)] = right[i]
        BY <3>1, ConcatProperties, LenProperties
      <3> QED
        BY <1>4, <1>5, <3>2, Zenon DEF W
    <2>2. \A i \in 1..Len(s) : all[i] = left[i]
      <3> TAKE i \in 1..Len(s)
      <3>1. i \in 1 .. Len(s) + Len(t)
        BY <1>2
      <3> QED
        BY <1>2, <1>3, <1>4, <3>1, Zenon
    <2>3. \A i \in 1..Len(t) : all[i + Len(s)] = right[i]
      <3> TAKE i \in 1..Len(t)
      <3>1. i + Len(s) \in 1 .. Len(s) + Len(t)
        BY <1>2
      <3> QED
        BY <1>2, <1>3, <1>5, <3>1, Zenon
    <2> DEFINE joined == left \o right
    <2> HIDE DEF joined
    <2>4. \A i \in 1 .. Len(s) + Len(t) : all[i] = joined[i]
      <3> TAKE i \in 1 .. Len(s) + Len(t)
      <3>1. i \in 1..Len(s) \/ (i - Len(s) \in 1..Len(t) /\ (i - Len(s)) + Len(s) = i)
        BY <1>2
      <3> QED
        BY <2>1, <2>2, <2>3, <3>1, Zenon DEF joined
    <2> QED
      BY <1>3, <2>1, <2>4, SeqEqual DEF joined
  <1>7. FlattenSeq(left \o right) = FlattenSeq(left) \o FlattenSeq(right)
    BY <1>4, <1>5, FlattenConcat
  <1> QED
    BY <1>3, <1>6, <1>7, Zenon DEF all, left, right

StrippedOf(s) == FlattenSeq(Remaining(s, {i \in DOMAIN s : Dropped(s, i)}))

\* What strip_base64_newline_escapes leaves, by positions.
LEMMA StrippedIsRemaining == \A s : StripNewlineEscapes(s) = StrippedOf(s)
  <1> TAKE s
  <1>1. \A i \in DOMAIN s :
           i \in {j \in DOMAIN s : Dropped(s, j)} <=>
               \/ s[i] = Backslash /\ i < Len(s) /\ s[i + 1] = "n"
               \/ s[i] = "n" /\ i > 1 /\ s[i - 1] = Backslash
    BY Zenon DEF Dropped
  <1>2. Remaining(s, {j \in DOMAIN s : Dropped(s, j)}) =
           [i \in DOMAIN s |->
               IF \/ s[i] = Backslash /\ i < Len(s) /\ s[i + 1] = "n"
                  \/ s[i] = "n" /\ i > 1 /\ s[i - 1] = Backslash
               THEN <<>> ELSE <<s[i]>>]
    BY <1>1, Zenon DEF Remaining
  <1> QED
    BY <1>2, Zenon DEF StripNewlineEscapes, StrippedOf

\* What the reference definition leaves, by positions.
LEMMA WithoutIsRemaining ==
    \A s, c : Without(s, c) = FlattenSeq(Remaining(s, {i \in DOMAIN s : s[i] = c}))
  <1> TAKE s, c
  <1>1. Remaining(s, {i \in DOMAIN s : s[i] = c}) =
           [i \in DOMAIN s |-> IF s[i] = c THEN <<>> ELSE <<s[i]>>]
    BY Zenon DEF Remaining
  <1> QED
    BY <1>1, Zenon DEF Without

\* What remains of up to two characters.
LEMMA RemainingShort ==
    ASSUME NEW V, NEW d \in V, NEW e \in V, NEW A
    PROVE  /\ FlattenSeq(Remaining(<<>>, A)) = <<>>
           /\ 1 \notin A => FlattenSeq(Remaining(<<d>>, A)) = <<d>>
           /\ 1 \in A => FlattenSeq(Remaining(<<d>>, A)) = <<>>
           /\ 1 \in A /\ 2 \in A => FlattenSeq(Remaining(<<d, e>>, A)) = <<>>
  <1> DEFINE none == <<>>
  <1>1. <<d>> \in Seq(V) /\ none \in Seq(V) /\ none \in Seq(Seq(V))
    OBVIOUS
  <1>2. Remaining(none, A) = none
    BY DEF Remaining
  <1>3. FlattenSeq(none) = none
    <2>1. none \in Seq(Seq(V)) /\ none \in Seq(V)
      BY <1>1
    <2> QED
      BY <2>1, FlattenProperties
  <1>4. ASSUME NEW r \in Seq(V) PROVE FlattenSeq(<<r>>) = r
    BY <1>1, FlattenProperties
  <1>5. ASSUME 1 \notin A PROVE Remaining(<<d>>, A) = << <<d>> >>
    BY <1>5 DEF Remaining
  <1>6. ASSUME 1 \in A PROVE Remaining(<<d>>, A) = <<none>>
    BY <1>6 DEF Remaining
  <1>7. ASSUME 1 \in A, 2 \in A PROVE Remaining(<<d, e>>, A) = <<none, none>>
    BY <1>7 DEF Remaining
  <1>8. FlattenSeq(<<none, none>>) = none
    <2>1. Append(<<none>>, none) = <<none, none>> /\ <<none>> \in Seq(Seq(V))
      BY <1>1, ShortSequences
    <2>2. FlattenSeq(Append(<<none>>, none)) = FlattenSeq(<<none>>) \o none
      BY <1>1, <2>1, FlattenProperties
    <2>3. none \o none = none
      BY <1>1, ConcatEmptySeq
    <2> QED
      BY <1>1, <1>4, <2>1, <2>2, <2>3, Zenon
  <1> HIDE DEF none
  <1> QED
    BY <1>1, <1>2, <1>3, <1>4, <1>5, <1>6, <1>7, <1>8, Zenon DEF none

\* What remains of a text with one more character.
LEMMA RemainingAppended ==
    ASSUME NEW V, NEW s \in Seq(V), NEW d \in V, NEW D, NEW F,
           \A i \in 1..Len(s) : i \in F <=> i \in D
    PROVE  /\ FlattenSeq(Remaining(s, D)) \in Seq(V)
           /\ Len(s) + 1 \notin F =>
                  FlattenSeq(Remaining(Append(s, d), F)) = Append(FlattenSeq(Remaining(s, D)), d)
           /\ Len(s) + 1 \in F =>
                  FlattenSeq(Remaining(Append(s, d), F)) = FlattenSeq(Remaining(s, D))
  <1> DEFINE E == {i \in 1..1 : i + Len(s) \in F}
             k == FlattenSeq(Remaining(s, D))
  <1>1. /\ <<d>> \in Seq(V) /\ Len(<<d>>) = 1 /\ Len(s) \in Nat
        /\ <<>> \in Seq(V) /\ Len(<<>>) = 0
    OBVIOUS
  <1>2. \A i \in 1..1 : i + Len(s) \in F <=> i \in E
    OBVIOUS
  <1>3. 1 + Len(s) = Len(s) + 1 /\ (1 \in E <=> Len(s) + 1 \in F)
    BY <1>1
  <1> HIDE DEF E
  <1>4. FlattenSeq(Remaining(s \o <<d>>, F)) = k \o FlattenSeq(Remaining(<<d>>, E))
    <2> DEFINE one == <<d>>
    <2>1. one \in Seq(V) /\ \A i \in 1..Len(one) : i + Len(s) \in F <=> i \in E
      BY <1>1, <1>2
    <2> HIDE DEF one
    <2>2. FlattenSeq(Remaining(s \o one, F)) = k \o FlattenSeq(Remaining(one, E))
      BY <2>1, RemainingConcat
    <2> QED
      BY <2>2, Zenon DEF one
  <1>5. k \in Seq(V)
    <2>1. s \o <<>> = s
      BY ConcatEmptySeq
    <2> DEFINE none == <<>>
    <2> HIDE DEF none
    <2> DEFINE empty == {}
    <2>2. none \in Seq(V) /\ \A i \in 1..Len(none) : i + Len(s) \in D <=> i \in empty
      BY <1>1 DEF none
    <2> HIDE DEF empty
    <2>3. Remaining(s \o none, D) \in Seq(Seq(V))
      BY <2>2, RemainingConcat
    <2>4. Remaining(s, D) \in Seq(Seq(V))
      BY <2>1, <2>3, Zenon DEF none
    <2> QED
      BY <1>1, <2>4, FlattenProperties
  <1> HIDE DEF k
  <1>6. s \o <<d>> = Append(s, d) /\ k \o <<d>> = Append(k, d)
    BY <1>5, OneMore
  <1>7. k \o <<>> = k
    BY <1>5, ConcatEmptySeq
  <1>8. /\ 1 \notin E => FlattenSeq(Remaining(<<d>>, E)) = <<d>>
        /\ 1 \in E => FlattenSeq(Remaining(<<d>>, E)) = <<>>
    BY RemainingShort
  <1> QED
    BY <1>3, <1>4, <1>5, <1>6, <1>7, <1>8, Zenon DEF k

\* The text without line ends, and one more character.
LEMMA WithoutNext ==
    ASSUME NEW V, NEW s \in Seq(V), NEW d \in V, NEW c
    PROVE  /\ Without(<<>>, c) = <<>>
           /\ Without(s, c) \in Seq(V)
           /\ Without(Append(s, d), c) =
                  IF d = c THEN Without(s, c) ELSE Append(Without(s, c), d)
  <1> DEFINE D == {i \in DOMAIN s : s[i] = c}
             t == Append(s, d)
             F == {i \in DOMAIN t : t[i] = c}
  <1>1. Without(<<>>, c) = <<>>
    BY WithoutIsRemaining, RemainingShort
  <1>2. /\ \A i \in 1..Len(s) : i \in F <=> i \in D
        /\ Len(s) + 1 \in F <=> d = c
    BY AppendProperties
  <1>3. Without(s, c) = FlattenSeq(Remaining(s, D)) /\ Without(t, c) = FlattenSeq(Remaining(t, F))
    BY WithoutIsRemaining, Zenon
  <1> HIDE DEF D, F
  <1>4. /\ FlattenSeq(Remaining(s, D)) \in Seq(V)
        /\ Len(s) + 1 \notin F => FlattenSeq(Remaining(t, F)) =
                                      Append(FlattenSeq(Remaining(s, D)), d)
        /\ Len(s) + 1 \in F => FlattenSeq(Remaining(t, F)) = FlattenSeq(Remaining(s, D))
    BY <1>2, RemainingAppended
  <1> QED
    BY <1>1, <1>2, <1>3, <1>4, Zenon

\* A text that no backslash ends.
Closed(s) == s # <<>> => s[Len(s)] # Backslash

\* A character that starts no escape stays.
LEMMA StrippedNext ==
    ASSUME NEW V, NEW s \in Seq(V), NEW d \in V, d # Backslash, Closed(s)
    PROVE  StrippedOf(Append(s, d)) = Append(StrippedOf(s), d)
  <1> DEFINE D == {i \in DOMAIN s : Dropped(s, i)}
             t == Append(s, d)
             F == {i \in DOMAIN t : Dropped(t, i)}
  <1>1. /\ t \in Seq(V) /\ Len(t) = Len(s) + 1 /\ Len(s) \in Nat
        /\ \A i \in 1..Len(s) : t[i] = s[i]
        /\ t[Len(s) + 1] = d
        /\ DOMAIN s = 1..Len(s) /\ DOMAIN t = 1 .. Len(s) + 1
    BY AppendProperties
  <1> HIDE DEF t
  <1>2. ASSUME NEW i \in 1..Len(s) PROVE Dropped(t, i) <=> Dropped(s, i)
    <2>1. CASE i < Len(s)
      <3>1. /\ i + 1 \in 1..Len(s) /\ i < Len(t) /\ (i > 1 => i - 1 \in 1..Len(s))
        BY <1>1, <2>1
      <3> QED
        BY <1>1, <2>1, <3>1, Zenon DEF Dropped
    <2>2. CASE i = Len(s)
      <3>1. ~(i < Len(s)) /\ (i > 1 => i - 1 \in 1..Len(s)) /\ s # <<>>
        BY <1>1, <2>2, EmptySeq
      <3> QED
        BY <1>1, <2>2, <3>1, Zenon DEF Dropped, Closed
    <2>3. i < Len(s) \/ i = Len(s)
      <3>1. Len(s) \in Nat /\ i \in 1..Len(s)
        BY <1>1
      <3> QED
        BY <3>1
    <2> QED
      BY <2>1, <2>2, <2>3, Zenon
  <1>3. ~Dropped(t, Len(s) + 1)
    <2>1. ~(Len(s) + 1 < Len(t)) /\ (Len(s) + 1) - 1 = Len(s)
      BY <1>1
    <2>2. ASSUME Len(s) + 1 > 1 PROVE Len(s) \in 1..Len(s) /\ s # <<>>
      BY <1>1, <2>2, EmptySeq
    <2> QED
      BY <1>1, <2>1, <2>2, Zenon DEF Dropped, Closed
  <1>4. /\ \A i \in 1..Len(s) : i \in F <=> i \in D
        /\ Len(s) + 1 \notin F
    BY <1>1, <1>2, <1>3
  <1> HIDE DEF D, F
  <1>5. FlattenSeq(Remaining(Append(s, d), F)) = Append(FlattenSeq(Remaining(s, D)), d)
    BY <1>4, RemainingAppended
  <1> QED
    BY <1>5, Zenon DEF StrippedOf, t, D, F

\* A text and two more characters.
LEMMA TwoMore ==
    ASSUME NEW V, NEW s \in Seq(V), NEW u \in Seq(V), Len(u) = 2
    PROVE  /\ s \o u \in Seq(V) /\ Len(s \o u) = Len(s) + 2 /\ Len(s) \in Nat
           /\ DOMAIN s = 1..Len(s) /\ DOMAIN (s \o u) = 1 .. Len(s) + 2
           /\ \A i \in 1..Len(s) : (s \o u)[i] = s[i]
           /\ (s \o u)[Len(s) + 1] = u[1] /\ (s \o u)[Len(s) + 2] = u[2]
           /\ u[1] \in V
  <1>1. /\ s \o u \in Seq(V) /\ Len(s \o u) = Len(s) + Len(u)
        /\ \A i \in 1..Len(s) : (s \o u)[i] = s[i]
        /\ \A i \in 1..Len(u) : (s \o u)[Len(s) + i] = u[i]
    <2>1. s \o u \in Seq(V) /\ Len(s \o u) = Len(s) + Len(u)
      BY ConcatProperties
    <2>2. \A i \in 1..Len(s) : (s \o u)[i] = s[i]
      BY ConcatProperties
    <2>3. \A i \in 1..Len(u) : (s \o u)[Len(s) + i] = u[i]
      BY ConcatProperties
    <2> QED
      BY <2>1, <2>2, <2>3, Zenon
  <1>2. Len(s) \in Nat /\ 1 \in 1..Len(u) /\ 2 \in 1..Len(u)
    OBVIOUS
  <1>3. u[1] \in V
    BY <1>2, ElementOfSeq
  <1>4. DOMAIN s = 1..Len(s) /\ DOMAIN (s \o u) = 1 .. Len(s) + 2
    BY <1>1
  <1> QED
    BY <1>1, <1>2, <1>3, <1>4, Zenon

\* An escaped line end goes.
LEMMA StrippedLineEnd ==
    ASSUME NEW V, NEW s \in Seq(V), Closed(s), NEW u \in Seq(V), u = LineEnd
    PROVE  StrippedOf(s \o u) = StrippedOf(s) /\ Closed(s \o u)
  <1> DEFINE D == {i \in DOMAIN s : Dropped(s, i)}
             t == s \o u
             F == {i \in DOMAIN t : Dropped(t, i)}
             E == {1, 2}
  <1>0. Len(u) = 2
    BY DEF LineEnd
  <1>11. u[1] = Backslash /\ u[2] = "n"
    BY DEF LineEnd
  <1>1. /\ t \in Seq(V) /\ Len(t) = Len(s) + 2 /\ Len(s) \in Nat
        /\ \A i \in 1..Len(s) : t[i] = s[i]
        /\ t[Len(s) + 1] = Backslash /\ t[Len(s) + 2] = "n"
        /\ DOMAIN s = 1..Len(s) /\ DOMAIN t = 1 .. Len(s) + 2
    BY <1>0, <1>11, TwoMore
  <1> HIDE DEF t
  <1>2. ASSUME NEW i \in 1..Len(s) PROVE Dropped(t, i) <=> Dropped(s, i)
    <2>1. CASE i < Len(s)
      <3>1. /\ i + 1 \in 1..Len(s) /\ i < Len(t) /\ (i > 1 => i - 1 \in 1..Len(s))
        BY <1>1, <2>1
      <3> QED
        BY <1>1, <2>1, <3>1, Zenon DEF Dropped
    <2>2. CASE i = Len(s)
      <3>1. ~(i < Len(s)) /\ (i > 1 => i - 1 \in 1..Len(s)) /\ s # <<>>
        BY <1>1, <2>2, EmptySeq
      <3> QED
        BY <1>1, <2>2, <3>1, Zenon DEF Dropped, Closed
    <2>3. i < Len(s) \/ i = Len(s)
      <3>1. Len(s) \in Nat /\ i \in 1..Len(s)
        BY <1>1
      <3> QED
        BY <3>1
    <2> QED
      BY <2>1, <2>2, <2>3, Zenon
  <1>3. Dropped(t, Len(s) + 1) /\ Dropped(t, Len(s) + 2)
    <2>1. /\ Len(s) + 1 < Len(t) /\ (Len(s) + 1) + 1 = Len(s) + 2
          /\ Len(s) + 2 > 1 /\ (Len(s) + 2) - 1 = Len(s) + 1
      BY <1>1
    <2> QED
      BY <1>1, <2>1, Zenon DEF Dropped
  <1>4. /\ \A i \in 1..Len(s) : i \in F <=> i \in D
        /\ \A i \in 1..2 : i + Len(s) \in F <=> i \in E
    <2>1. \A i \in 1..Len(s) : i \in F <=> i \in D
      BY <1>1, <1>2
    <2>2. Len(s) + 1 \in F /\ Len(s) + 2 \in F
      BY <1>1, <1>3
    <2> HIDE DEF F
    <2>3. \A i \in 1..2 : i + Len(s) \in F <=> i \in E
      BY <1>1, <2>2
    <2> QED
      BY <2>1, <2>3
  <1>5. 1 \in E /\ 2 \in E
    OBVIOUS
  <1> HIDE DEF D, F, E
  <1>6. FlattenSeq(Remaining(s \o u, F)) =
            FlattenSeq(Remaining(s, D)) \o FlattenSeq(Remaining(u, E))
    <2>1. \A i \in 1..Len(u) : i + Len(s) \in F <=> i \in E
      BY <1>0, <1>4
    <2>2. \A i \in 1..Len(s) : i \in F <=> i \in D
      BY <1>4
    <2> QED
      BY <2>1, <2>2, RemainingConcat
  <1>7. FlattenSeq(Remaining(u, E)) = <<>>
    <2> DEFINE last == "n"
               W == {Backslash, last}
    <2>1. Backslash \in W /\ last \in W
      OBVIOUS
    <2> HIDE DEF last, W
    <2>2. FlattenSeq(Remaining(<<Backslash, last>>, E)) = <<>>
      BY <1>5, <2>1, RemainingShort
    <2> QED
      BY <2>2, Zenon DEF LineEnd, last
  <1>8. FlattenSeq(Remaining(s, D)) \in Seq(V)
    <2>1. u[1] \in V
      BY <1>0, TwoMore, Zenon
    <2>2. \A i \in 1..Len(s) : i \in D <=> i \in D
      OBVIOUS
    <2> QED
      BY <2>1, <2>2, RemainingAppended
  <1>9. FlattenSeq(Remaining(s, D)) \o <<>> = FlattenSeq(Remaining(s, D))
    BY <1>8, ConcatEmptySeq
  <1>10. Closed(t)
    BY <1>1 DEF Closed, Backslash
  <1> QED
    BY <1>6, <1>7, <1>9, <1>10, Zenon DEF StrippedOf, t, D, F

\* The last of a sequence that was appended to.
LEMMA FrontAndLast ==
    ASSUME NEW X, NEW ss \in Seq(X), NEW r \in X
    PROVE  /\ Front(Append(ss, r)) = ss /\ Last(Append(ss, r)) = r
           /\ ss # <<>> => /\ Front(ss) \in Seq(X) /\ Last(ss) \in X
                           /\ Append(Front(ss), Last(ss)) = ss
  <1>1. /\ Append(ss, r) \in Seq(X) /\ Len(Append(ss, r)) = Len(ss) + 1
        /\ \A i \in 1..Len(ss) : Append(ss, r)[i] = ss[i]
        /\ Append(ss, r)[Len(ss) + 1] = r /\ Len(ss) \in Nat
    BY AppendProperties, LenProperties
  <1>2. Front(Append(ss, r)) = ss
    <2> DEFINE all == Append(ss, r)
               front == SubSeq(all, 1, Len(all) - 1)
    <2> HIDE DEF all
    <2>1. /\ front \in Seq(X) /\ Len(front) = Len(ss)
          /\ \A i \in 1..Len(ss) : front[i] = ss[i]
      BY <1>1 DEF all
    <2> HIDE DEF front
    <2>2. front = ss
      BY <2>1, SeqEqual
    <2> QED
      BY <2>2, Zenon DEF Front, front, all
  <1>3. Last(Append(ss, r)) = r
    BY <1>1, Zenon DEF Last
  <1>4. ASSUME ss # <<>>
        PROVE  /\ Front(ss) \in Seq(X) /\ Last(ss) \in X
               /\ Append(Front(ss), Last(ss)) = ss
    <2>1. PICK qq \in Seq(X), q \in X : ss = Append(qq, q)
      BY <1>4, SequenceEmptyOrAppend
    <2>2. /\ Append(qq, q) \in Seq(X) /\ Len(Append(qq, q)) = Len(qq) + 1
          /\ \A i \in 1..Len(qq) : Append(qq, q)[i] = qq[i]
          /\ Append(qq, q)[Len(qq) + 1] = q /\ Len(qq) \in Nat
      BY AppendProperties, LenProperties
    <2> DEFINE front == SubSeq(ss, 1, Len(ss) - 1)
    <2>3. /\ front \in Seq(X) /\ Len(front) = Len(qq)
          /\ \A i \in 1..Len(qq) : front[i] = qq[i]
      BY <2>1, <2>2
    <2> HIDE DEF front
    <2>4. front = qq
      BY <2>3, SeqEqual
    <2>5. Last(ss) = q
      BY <2>1, <2>2, Zenon DEF Last
    <2> QED
      BY <2>1, <2>4, <2>5, Zenon DEF Front, front
  <1> QED
    BY <1>2, <1>3, <1>4, Zenon

LineText(lines) == FlattenSeq([i \in DOMAIN lines |-> lines[i] \o LineEnd])

\* The text of one more line.
LEMMA LineTextNext ==
    ASSUME NEW W, NEW ls \in Seq(Seq(W)), NEW r \in Seq(W), NEW u \in Seq(W), u = LineEnd
    PROVE  /\ LineText(ls) \in Seq(W)
           /\ LineText(<<>>) = <<>>
           /\ LineText(Append(ls, r)) = (LineText(ls) \o r) \o u
  <1> DEFINE Ended(ms) == [i \in DOMAIN ms |-> ms[i] \o u]
             all == Append(ls, r)
             X == Seq(W)
  <1>0. \A ms : LineText(ms) = FlattenSeq(Ended(ms))
    BY Zenon DEF LineText
  <1>1. ASSUME NEW ms \in Seq(X)
        PROVE  /\ Ended(ms) \in Seq(X) /\ Len(Ended(ms)) = Len(ms)
               /\ \A i \in 1..Len(ms) : Ended(ms)[i] = ms[i] \o u
    <2>1. \A i \in 1..Len(ms) : ms[i] \o u \in X
      <3>1. \A i \in 1..Len(ms) : ms[i] \in X
        BY ElementOfSeq
      <3> QED
        BY <3>1, ConcatProperties
    <2> HIDE DEF X
    <2>2. DOMAIN ms = 1..Len(ms) /\ Len(ms) \in Nat
      BY LenProperties
    <2> QED
      BY <2>1, <2>2
  <1>2. r \in X /\ ls \in Seq(X) /\ r \o u \in X
    BY ConcatProperties
  <1>3. Ended(all) = Append(Ended(ls), r \o u)
    <2> HIDE DEF X
    <2>1. /\ all \in Seq(X) /\ Len(all) = Len(ls) + 1 /\ Len(ls) \in Nat
          /\ \A i \in 1..Len(ls) : all[i] = ls[i]
          /\ all[Len(ls) + 1] = r
      BY <1>2, AppendProperties, LenProperties
    <2> HIDE DEF all
    <2> DEFINE left == Ended(all)
               begin == Ended(ls)
               right == Append(begin, r \o u)
    <2>2. /\ left \in Seq(X) /\ Len(left) = Len(ls) + 1
          /\ \A i \in 1 .. Len(ls) + 1 : left[i] = all[i] \o u
      BY <1>1, <2>1
    <2>3. /\ begin \in Seq(X) /\ Len(begin) = Len(ls)
          /\ \A i \in 1..Len(ls) : begin[i] = ls[i] \o u
      BY <1>1, <1>2
    <2> HIDE DEF left, begin
    <2>4. /\ right \in Seq(X) /\ Len(right) = Len(ls) + 1
          /\ \A i \in 1..Len(ls) : right[i] = begin[i]
          /\ right[Len(ls) + 1] = r \o u
      BY <1>2, <2>3, AppendProperties
    <2> HIDE DEF right
    <2>5. \A i \in 1 .. Len(ls) + 1 : left[i] = right[i]
      <3> TAKE i \in 1 .. Len(ls) + 1
      <3>1. i \in 1..Len(ls) \/ i = Len(ls) + 1
        BY <2>1
      <3> QED
        BY <2>1, <2>2, <2>3, <2>4, <3>1, Zenon
    <2>6. left = right
      BY <2>2, <2>4, <2>5, SeqEqual
    <2> QED
      BY <2>6, Zenon DEF left, right, begin, all
  <1>4. Ended(ls) \in Seq(Seq(W))
    BY <1>1
  <1>5. FlattenSeq(Ended(ls)) \in Seq(W) /\ FlattenSeq(<<>>) = <<>>
    BY <1>2, <1>4, FlattenProperties
  <1>6. Ended(<<>>) = <<>>
    OBVIOUS
  <1>7. FlattenSeq(Append(Ended(ls), r \o u)) = FlattenSeq(Ended(ls)) \o (r \o u)
    <2> DEFINE ms == Ended(ls)
               v == r \o u
    <2>1. ms \in Seq(Seq(W)) /\ v \in Seq(W)
      BY <1>2, <1>4
    <2> HIDE DEF ms, v
    <2>2. FlattenSeq(Append(ms, v)) = FlattenSeq(ms) \o v
      BY <2>1, FlattenProperties
    <2> QED
      BY <2>2, Zenon DEF ms, v
  <1>8. FlattenSeq(Ended(ls)) \o (r \o u) = (FlattenSeq(Ended(ls)) \o r) \o u
    <2> DEFINE a == FlattenSeq(Ended(ls))
    <2>1. a \in Seq(W)
      BY <1>5
    <2> HIDE DEF a
    <2>2. (a \o r) \o u = a \o (r \o u)
      BY <2>1, Reassociated, SMTT(20)
    <2> QED
      BY <2>2, Zenon DEF a
  <1> QED
    BY <1>0, <1>3, <1>5, <1>6, <1>7, <1>8, Zenon

\* What has been written of the base64, without the line end behind the last line.
Unfinished(lines) == LineText(Front(lines)) \o Last(lines)

InLines(W, s) ==
    /\ Unfinished(Tokens(s, "line")) \in Seq(W)
    /\ Closed(Unfinished(Tokens(s, "line")))
    /\ StrippedOf(Unfinished(Tokens(s, "line"))) = Without(s, "line")
    /\ \A i \in DOMAIN Unfinished(Tokens(s, "line")) :
           Unfinished(Tokens(s, "line"))[i] # Quote

\* The line that is being written, at a line end and at another character.
LEMMA UnfinishedNext ==
    ASSUME NEW W, NEW u \in Seq(W), u = LineEnd,
           NEW lines \in Seq(Seq(W)), lines # <<>>, NEW c \in W
    PROVE  /\ Unfinished(lines) \in Seq(W)
           /\ LineText(lines) = Unfinished(lines) \o u
           /\ Unfinished(Append(lines, <<>>)) = Unfinished(lines) \o u
           /\ Unfinished(Append(Front(lines), Append(Last(lines), c))) =
                  Append(Unfinished(lines), c)
  <1> DEFINE X == Seq(W)
             front == Front(lines)
             last == Last(lines)
             none == <<>>
  <1>1. none \in X /\ none \in Seq(W)
    OBVIOUS
  <1>2. front \in Seq(X) /\ last \in X /\ Append(front, last) = lines
    <2>1. lines \in Seq(X)
      OBVIOUS
    <2> HIDE DEF X, none
    <2> QED
      BY <1>1, <2>1, FrontAndLast
  <1> HIDE DEF front, last
  <1>3. LineText(front) \in Seq(W) /\ LineText(lines) \in Seq(W)
    <2>1. ASSUME NEW ms \in Seq(X) PROVE LineText(ms) \in Seq(W)
      BY <1>1, LineTextNext
    <2>2. lines \in Seq(X)
      OBVIOUS
    <2> QED
      BY <1>2, <2>1, <2>2, Zenon
  <1>4. LineText(lines) = (LineText(front) \o last) \o u
    <2>0. front \in Seq(Seq(W)) /\ last \in Seq(W)
      BY <1>2
    <2>1. LineText(Append(front, last)) = (LineText(front) \o last) \o u
      <3> HIDE DEF X, none
      <3> QED
        BY <2>0, LineTextNext, SMTT(30)
    <2> QED
      BY <1>2, <2>1, Zenon
  <1>5. Unfinished(lines) = LineText(front) \o last
    BY Zenon DEF Unfinished, front, last
  <1>6. Unfinished(lines) \in Seq(W)
    BY <1>2, <1>3, <1>5, ConcatProperties
  <1>7. Unfinished(Append(lines, none)) = LineText(lines)
    <2>1. lines \in Seq(X)
      OBVIOUS
    <2>2. Front(Append(lines, none)) = lines /\ Last(Append(lines, none)) = none
      <3> HIDE DEF X, none
      <3> QED
        BY <1>1, <2>1, FrontAndLast
    <2>3. LineText(lines) \o none = LineText(lines)
      BY <1>3, ConcatEmptySeq
    <2> HIDE DEF none
    <2> QED
      BY <2>2, <2>3, Zenon DEF Unfinished
  <1>8. Unfinished(Append(front, Append(last, c))) = Append(Unfinished(lines), c)
    <2> DEFINE longer == Append(last, c)
    <2>1. longer \in X
      BY <1>2, AppendProperties
    <2>2. Front(Append(front, longer)) = front /\ Last(Append(front, longer)) = longer
      <3> HIDE DEF X, longer
      <3> QED
        BY <1>2, <2>1, FrontAndLast
    <2>3. Unfinished(Append(front, longer)) = LineText(front) \o longer
      <3> HIDE DEF longer
      <3> QED
        BY <2>2, Zenon DEF Unfinished
    <2>4. LineText(front) \o Append(last, c) = Append(LineText(front) \o last, c)
      <3> DEFINE a == LineText(front)
      <3>1. a \in Seq(W) /\ last \in Seq(W)
        BY <1>2, <1>3
      <3> HIDE DEF a
      <3>2. a \o Append(last, c) = Append(a \o last, c)
        BY <3>1, ConcatProperties, AppendProperties
      <3> QED
        BY <3>2, Zenon DEF a
    <2> QED
      BY <1>5, <2>3, <2>4, Zenon
  <1> QED
    BY <1>4, <1>5, <1>6, <1>7, <1>8, Zenon DEF front, last, none

\* The lines of any text, written with escapes and stripped again.
LEMMA LinesAreText ==
    ASSUME NEW V, NEW W, V \subseteq W, NEW u \in Seq(W), u = LineEnd, NEW text0 \in Seq(V),
           \A c \in V : c # Quote /\ c # Backslash
    PROVE  InLines(W, text0)
  <1> DEFINE separator == "line"
             T == {s \in Seq(V) : InLines(W, s)}
  <1>0. \A c \in V : c \in W /\ c # Quote /\ c # Backslash
    OBVIOUS
  <1>1. \A s \in Seq(V) : Tokens(s, separator) \in Seq(Seq(W)) \ {<<>>}
    <2> TAKE s \in Seq(V)
    <2>1. s \in Seq(W)
      OBVIOUS
    <2> HIDE DEF separator
    <2> QED
      BY <2>1, TokensAreFold
  <1>2. <<>> \in T
    <2> DEFINE none == <<>>
    <2>1. none \in Seq(V) /\ none \in Seq(W) /\ DOMAIN none = {}
      OBVIOUS
    <2>2. Tokens(none, separator) = <<none>>
      <3> HIDE DEF separator
      <3>1. Splitting!Fold(SplitState(separator, <<none>>), none) = SplitState(separator, <<none>>)
        BY NaturalInduction, Splitting!FoldEmpty
      <3>2. PICK tokens : /\ Splitting!Fold(SplitState(separator, <<none>>), none) =
                                 SplitState(separator, tokens)
                          /\ Tokens(none, separator) = tokens
        BY <2>1, TokensAreFold
      <3>3. tokens = <<none>>
        BY <3>1, <3>2 DEF SplitState
      <3> QED
        BY <3>2, <3>3, Zenon
    <2>3. Unfinished(<<none>>) = none
      <3>1. Append(none, none) = <<none>> /\ none \in Seq(Seq(W)) /\ none \in Seq(W)
        OBVIOUS
      <3> DEFINE X == Seq(W)
      <3>2. none \in Seq(X) /\ none \in X
        BY <3>1
      <3> HIDE DEF none, X
      <3>3. Front(Append(none, none)) = none /\ Last(Append(none, none)) = none
        BY <3>2, FrontAndLast
      <3>4. LineText(none) = none
        BY <3>1, LineTextNext DEF none
      <3>5. none \o none = none
        BY <2>1, ConcatEmptySeq DEF none
      <3> QED
        BY <3>1, <3>3, <3>4, <3>5, Zenon DEF Unfinished
    <2>4. StrippedOf(none) = none /\ Without(none, separator) = none
      <3>1. \A A : FlattenSeq(Remaining(none, A)) = none
        <4>1. 1 \in {1}
          OBVIOUS
        <4> QED
          BY <4>1, RemainingShort
      <3> QED
        BY <3>1, WithoutIsRemaining, Zenon DEF StrippedOf
    <2> QED
      BY <2>1, <2>2, <2>3, <2>4, Zenon DEF InLines, Closed
  <1>3. ASSUME NEW s \in T, NEW c \in V PROVE Append(s, c) \in T
    <2> DEFINE lines == Tokens(s, separator)
               next == Tokens(Append(s, c), separator)
               p == Unfinished(lines)
               q == Unfinished(next)
    <2>1. s \in Seq(V) /\ InLines(W, s) /\ Append(s, c) \in Seq(V) /\ c \in W
      BY <1>0, AppendProperties
    <2>2. lines \in Seq(Seq(W)) /\ lines # <<>>
      BY <1>1, <2>1
    <2>3. next = IF c = separator THEN Append(lines, <<>>)
                 ELSE Append(Front(lines), Append(Last(lines), c))
      <3> HIDE DEF separator, T
      <3>1. s \in Seq(V) /\ c \in V
        BY <2>1
      <3>2. Tokens(Append(s, c), separator) =
               SplitTokens(separator, Tokens(s, separator), c)
        BY <3>1, TokensProperties
      <3> QED
        BY <3>2, Zenon DEF SplitTokens
    <2>4. /\ p \in Seq(W) /\ Closed(p) /\ StrippedOf(p) = Without(s, separator)
          /\ \A i \in DOMAIN p : p[i] # Quote
      BY <2>1, Zenon DEF InLines
    <2> HIDE DEF T
    <2>5. /\ Unfinished(Append(lines, <<>>)) = p \o u
          /\ Unfinished(Append(Front(lines), Append(Last(lines), c))) = Append(p, c)
      <3> HIDE DEF lines, separator
      <3> QED
        BY <2>1, <2>2, UnfinishedNext
    <2>6. Without(Append(s, c), separator) =
              IF c = separator THEN Without(s, separator)
              ELSE Append(Without(s, separator), c)
      <3> HIDE DEF separator
      <3> QED
        BY <2>1, WithoutNext
    <2> HIDE DEF p, lines, next
    <2>7. CASE c = separator
      <3>1. q = p \o u
        BY <2>3, <2>5, <2>7, Zenon
      <3>2. Len(u) = 2 /\ u[1] = Backslash /\ u[2] = "n"
        BY DEF LineEnd
      <3> HIDE DEF q
      <3>3. StrippedOf(q) = StrippedOf(p) /\ Closed(q)
        BY <2>4, <3>1, StrippedLineEnd
      <3>4. q \in Seq(W)
        BY <2>4, <3>1, ConcatProperties
      <3>5. \A i \in DOMAIN q : q[i] # Quote
        <4> TAKE i \in DOMAIN q
        <4>1. /\ DOMAIN p = 1..Len(p) /\ DOMAIN q = 1 .. Len(p) + 2 /\ Len(p) \in Nat
              /\ \A j \in 1..Len(p) : q[j] = p[j]
              /\ q[Len(p) + 1] = u[1] /\ q[Len(p) + 2] = u[2]
          BY <2>4, <3>1, <3>2, TwoMore
        <4>2. i \in 1..Len(p) \/ i = Len(p) + 1 \/ i = Len(p) + 2
          BY <4>1
        <4>3. Backslash # Quote /\ "n" # Quote
          BY DEF Backslash, Quote
        <4> QED
          BY <2>4, <3>2, <4>1, <4>2, <4>3, Zenon
      <3> QED
        BY <2>1, <2>4, <2>6, <2>7, <3>3, <3>4, <3>5, Zenon DEF InLines, T, q, next
    <2>8. CASE c # separator
      <3>1. q = Append(p, c)
        BY <2>3, <2>5, <2>8, Zenon
      <3> HIDE DEF q
      <3>2. /\ q \in Seq(W) /\ Len(q) = Len(p) + 1 /\ Len(p) \in Nat
            /\ DOMAIN p = 1..Len(p) /\ DOMAIN q = 1 .. Len(p) + 1
            /\ \A j \in 1..Len(p) : q[j] = p[j]
            /\ q[Len(p) + 1] = c
        BY <2>1, <2>4, <3>1, AppendProperties
      <3>3. StrippedOf(q) = Append(StrippedOf(p), c)
        BY <1>0, <2>1, <2>4, <3>1, StrippedNext
      <3>4. Closed(q)
        BY <1>0, <3>2, Zenon DEF Closed
      <3>5. \A i \in DOMAIN q : q[i] # Quote
        <4> TAKE i \in DOMAIN q
        <4>1. i \in 1..Len(p) \/ i = Len(p) + 1
          BY <3>2
        <4> QED
          BY <1>0, <2>4, <3>2, <4>1, Zenon
      <3> QED
        BY <2>1, <2>4, <2>6, <2>8, <3>2, <3>3, <3>4, <3>5, Zenon
            DEF InLines, T, q, next
    <2> QED
      BY <2>7, <2>8, Zenon
  <1>4. T = Seq(V)
    <2>1. T \in SUBSET Seq(V)
      OBVIOUS
    <2> HIDE DEF T
    <2> QED
      BY <1>2, <1>3, <2>1, SeqInduction
  <1> QED
    BY <1>4

\* The answer, in the form that the lemmas above speak of.
LEMMA BodyIsFileAnswer == \A lines : FileAnswer(lines) = FileBody(LineText(lines))
  <1> TAKE lines
  <1>1. FlattenSeq([i \in DOMAIN lines |-> lines[i] \o <<Backslash, "n">>]) =
            LineText(lines)
    BY Zenon DEF LineText, LineEnd
  <1> QED
    BY <1>1, Zenon DEF FileAnswer, FileBody, StringField, Field, Answer

\* A file is no listing.
LEMMA NoListing ==
    ASSUME NEW S, NEW content \in Seq(AnswerCharacter(S)), NEW n \in Nat,
           n <= Len(content) + 16
    PROVE  ~LooksLikeJsonArray(SubSeq(FileBody(content), 1, n))
  <1> DEFINE V == AnswerCharacter(S)
             body == FileBody(content)
             part == SubSeq(body, 1, n)
             Filled(i) == part[i] # "blank"
  <1>1. body \in Seq(V) /\ Len(body) = Len(content) + 16 /\ Len(content) \in Nat
    BY FileBodyProperties, LenProperties
  <1>2. body[1] = "{"
    BY FileBodyProperties, Zenon DEF Heading
  <1> HIDE DEF body
  <1>3. part \in Seq(V) /\ Len(part) = n /\ \A i \in 1..n : part[i] = body[i]
    <2>1. n \in 0..Len(body)
      BY <1>1
    <2> QED
      BY <1>1, <2>1, PartOfBody
  <1> HIDE DEF part
  <1>4. SkipBlanks(part, 1) = Min({i \in 1..n : Filled(i)} \cup {n + 1})
    BY <1>3, Zenon DEF SkipBlanks
  <1>5. CASE n = 0
    <2> HIDE DEF Filled
    <2>1. {i \in 1..n : Filled(i)} = {}
      BY <1>5
    <2>2. Min({} \cup {n + 1}) = n + 1
      BY FirstFound
    <2>3. ~(SkipBlanks(part, 1) <= n)
      <3>1. SkipBlanks(part, 1) = n + 1
        BY <1>4, <2>1, <2>2, Zenon
      <3>2. ~(n + 1 <= n)
        OBVIOUS
      <3> QED
        BY <3>1, <3>2, Zenon
    <2> QED
      BY <1>3, <2>3, Zenon DEF LooksLikeJsonArray, part, body
  <1>6. CASE n >= 1
    <2>1. 1 \in 1..n
      BY <1>6
    <2>2. Filled(1) /\ part[1] # "["
      BY <1>2, <1>3, <2>1, Zenon
    <2> HIDE DEF Filled
    <2> DEFINE T == {i \in 1..n : Filled(i)}
    <2>3. 1 \in T /\ (\A i \in T : 1 <= i) /\ T \in SUBSET Nat /\ \A i \in T : i <= n
      BY <2>1, <2>2
    <2> HIDE DEF T
    <2>4. Min(T \cup {n + 1}) = 1
      BY <2>3, FirstFound
    <2>5. SkipBlanks(part, 1) = 1
      BY <1>4, <2>4 DEF T
    <2> QED
      BY <2>2, <2>5, Zenon DEF LooksLikeJsonArray, part, body
  <1> QED
    <2>1. n = 0 \/ n >= 1
      OBVIOUS
    <2> QED
      BY <1>5, <1>6, <2>1, Zenon

\* What ContentIsWholeOrNothing says of any text.
LEMMA ContentCorrect ==
    ASSUME Typing
    PROVE  ContentIsWholeOrNothing
  <1> SUFFICES ASSUME format = "content" PROVE ContentIsWholeOrNothing
    BY Zenon DEF ContentIsWholeOrNothing
  <1> DEFINE S == Alphabets["content"]
             V == AnswerCharacter(S)
             lines == Tokens(text, "line")
             sent == LineText(lines)
             begin == Unfinished(lines)
             whole == Without(text, "line")
             body == FileAnswer(lines)
  <1>1. text \in Seq(S) /\ \A c \in S : c # Quote /\ c # Backslash
    BY Zenon, AnswersAssumption DEF Typing, Quote, Backslash
  <1>2. S \in SUBSET V /\ Backslash \in V /\ "n" \in V
    BY Zenon DEF AnswerCharacter
  <1>3. LineEnd \in Seq(V)
    <2> DEFINE last == "n"
    <2>1. last \in V
      BY <1>2
    <2> HIDE DEF last, V
    <2>2. <<Backslash, last>> \in Seq(V)
      BY <1>2, <2>1
    <2> QED
      BY <2>2, Zenon DEF LineEnd, last
  <1>4. PICK u \in Seq(V) : u = LineEnd
    BY <1>3, Zenon
  <1>5. InLines(V, text)
    <2>1. S \subseteq V
      BY <1>2, Zenon
    <2> HIDE DEF S, V
    <2> QED
      BY <1>1, <1>4, <2>1, LinesAreText
  <1>6. sent = begin \o u
    <2>1. lines \in Seq(Seq(V)) /\ lines # <<>>
      <3> DEFINE separator == "line"
      <3>1. text \in Seq(V)
        BY <1>1, <1>2
      <3> HIDE DEF separator, V
      <3>2. Tokens(text, separator) \in Seq(Seq(V)) \ {<<>>}
        BY <3>1, TokensAreFold
      <3> QED
        BY <3>2, Zenon DEF separator
    <2>2. Backslash \in V
      BY <1>2, Zenon
    <2> HIDE DEF lines, V
    <2> QED
      BY <1>4, <2>1, <2>2, UnfinishedNext
  <1>7. /\ begin \in Seq(V) /\ Closed(begin) /\ StrippedOf(begin) = whole
        /\ \A i \in DOMAIN begin : begin[i] # Quote
    BY <1>5, Zenon DEF InLines
  <1> HIDE DEF begin, sent, whole, lines, V
  <1>8. u[1] = Backslash /\ u[2] = "n" /\ Len(u) = 2
    BY <1>4 DEF LineEnd
  <1>9. /\ sent \in Seq(V) /\ StrippedOf(sent) = whole
        /\ \A i \in 1..Len(sent) : sent[i] # Quote
    <2>1. sent \in Seq(V)
      BY <1>6, <1>7, ConcatProperties
    <2>2. StrippedOf(sent) = whole
      BY <1>4, <1>6, <1>7, StrippedLineEnd
    <2>3. /\ DOMAIN begin = 1..Len(begin) /\ Len(sent) = Len(begin) + 2 /\ Len(begin) \in Nat
          /\ \A j \in 1..Len(begin) : sent[j] = begin[j]
          /\ sent[Len(begin) + 1] = u[1] /\ sent[Len(begin) + 2] = u[2]
      BY <1>6, <1>7, <1>8, TwoMore
    <2>4. \A i \in 1..Len(sent) : sent[i] # Quote
      <3> TAKE i \in 1..Len(sent)
      <3>1. i \in 1..Len(begin) \/ i = Len(begin) + 1 \/ i = Len(begin) + 2
        BY <2>3
      <3>2. Backslash # Quote /\ "n" # Quote
        BY DEF Backslash, Quote
      <3> QED
        BY <1>7, <1>8, <2>3, <3>1, <3>2, Zenon
    <2> QED
      BY <2>1, <2>2, <2>4, Zenon
  <1>10. body = FileBody(sent)
    BY BodyIsFileAnswer, Zenon DEF sent
  <1>11. ASSUME NEW n \in Nat, n <= Len(sent) + 16
         PROVE  Contents(SubSeq(body, 1, n)).content =
                    IF n < Len(sent) + 15 THEN <<>> ELSE whole
    <2> DEFINE part == SubSeq(body, 1, n)
               taken == ExtractJsonField(part, "content")
    <2>1. ~LooksLikeJsonArray(part)
      <3>1. ~LooksLikeJsonArray(SubSeq(FileBody(sent), 1, n))
        BY <1>9, <1>11, NoListing DEF V
      <3> QED
        BY <1>10, <3>1, Zenon
    <2>2. taken = IF n < Len(sent) + 15 THEN <<>> ELSE sent
      <3>1. ExtractJsonField(SubSeq(FileBody(sent), 1, n), "content") =
               IF n < Len(sent) + 15 THEN <<>> ELSE sent
        BY <1>9, <1>11, TextCut DEF V
      <3> QED
        BY <1>10, <3>1, Zenon
    <2> HIDE DEF taken
    <2>3. Contents(part).content = StrippedOf(taken)
      <3>1. Contents(part) = [entries |-> <<>>, content |-> StripNewlineEscapes(taken)]
        BY <2>1, Zenon DEF Contents, taken
      <3>2. [entries |-> <<>>, content |-> StripNewlineEscapes(taken)].content =
                StripNewlineEscapes(taken)
        OBVIOUS
      <3> QED
        BY <3>1, <3>2, StrippedIsRemaining, Zenon
    <2>4. StrippedOf(<<>>) = <<>>
      <3>1. 1 \in {1}
        OBVIOUS
      <3> QED
        BY <3>1, RemainingShort, Zenon DEF StrippedOf
    <2> QED
      BY <1>9, <2>2, <2>3, <2>4, Zenon
  <1>12. Len(body) = Len(sent) + 16 /\ Len(sent) \in Nat /\ SubSeq(body, 1, Len(body)) = body
    <2>1. body \in Seq(V) /\ Len(body) = Len(sent) + 16
      BY <1>9, <1>10, FileBodyProperties DEF V
    <2> HIDE DEF body
    <2> QED
      BY <1>9, <2>1, SubSeqFull
  <1>13. Contents(body).content = whole
    <2>1. Len(sent) + 16 \in Nat /\ Len(sent) + 16 <= Len(sent) + 16
          /\ ~(Len(sent) + 16 < Len(sent) + 15)
      BY <1>12
    <2> QED
      BY <1>11, <1>12, <2>1, Zenon
  <1>14. \A part \in Cuts(body) : Contents(part).content \in {<<>>, whole}
    <2> TAKE part \in Cuts(body)
    <2>1. PICK n \in 0 .. Len(body) - 1 : part = SubSeq(body, 1, n)
      BY Zenon DEF Cuts
    <2>2. n \in Nat /\ n <= Len(sent) + 16
      <3> HIDE DEF body
      <3> QED
        BY <1>12
    <2> QED
      BY <1>11, <2>1, <2>2, Zenon
  <1> QED
    BY <1>13, <1>14, Zenon DEF ContentIsWholeOrNothing, whole, lines

\* AnswersAreWholeOrNothing, for files and sizes of every length, cut anywhere
\* (get_contents, get_repo).
THEOREM AnswersCorrect == Spec => []AnswersAreWholeOrNothing
  <1>1. Typing => AnswersAreWholeOrNothing
    BY ContentCorrect, EmptyRepoCorrect, Zenon DEF AnswersAreWholeOrNothing
  <1> QED
    BY <1>1, TextIsOfFormat, PTL

-------------------------------------------------------------------------------
(* ListingIsTheFolder: the entries of two texts in a row. *)

\* The characters of a listing that stand for themselves.
Colon == "colon"
NameField == "name"

\* A field's name, position by position.
LEMMA NamedPositions ==
    ASSUME NEW V, NEW body \in Seq(V), NEW field \in V, Quote \in V, Colon \in V
    PROVE  Positions(body, field) = {i \in 1..Len(body) : NamedAt(body, field, i)}
  <1>1. \A i \in DOMAIN body :
           IsPrefix(<<Quote, field, Quote, "colon">>, SubSeq(body, i, Len(body)))
               <=> NamedAt(body, field, i)
    BY NamePrefix DEF Colon
  <1>2. DOMAIN body = 1..Len(body)
    BY LenProperties
  <1> QED
    BY <1>1, <1>2, Zenon DEF Positions

\* The four characters of a field's name.
LEMMA NamedCharacters ==
    ASSUME NEW body, NEW field, NEW i
    PROVE  NamedAt(body, field, i) <=>
               /\ i + 3 <= Len(body) /\ body[i] = Quote /\ body[i + 1] = field
               /\ body[i + 2] = Quote /\ body[i + 3] = Colon
  BY Zenon DEF NamedAt, Colon

\* The least of some positions, or just behind the end.
LEMMA LeastIsThere ==
    ASSUME NEW T \in SUBSET Nat, T # {}
    PROVE  Min(T) \in T /\ \A x \in T : Min(T) <= x
  <1>1. PICK m \in T : \A x \in T : m <= x
    BY LeastNatural
  <1>2. Min(T) = m
    BY <1>1, LeastOf
  <1> QED
    BY <1>1, <1>2

\* Where the element of the listing that begins at `start` ends.
NextName(body, start) ==
    Min({i \in Positions(body, NameField) : i > start} \cup {Len(body) + 1})

\* An element goes on to the next name.
LEMMA ElementIsPart ==
    \A body, start : Element(body, start) = SubSeq(body, start, NextName(body, start) - 1)
  BY Zenon DEF Element, NextName, NameField

\* The next name, from a position that no other is before.
LEMMA NextNameIs ==
    ASSUME NEW body, NEW start \in Nat, Positions(body, NameField) \in SUBSET Nat,
           Len(body) \in Nat, NEW m \in Nat,
           (m \in Positions(body, NameField) /\ m > start) \/ m = Len(body) + 1,
           m <= Len(body) + 1,
           \A i \in Positions(body, NameField) : i > start => m <= i
    PROVE  NextName(body, start) = m
  <1> DEFINE T == {i \in Positions(body, NameField) : i > start} \cup {Len(body) + 1}
  <1>1. T \in SUBSET Nat /\ m \in T /\ \A i \in T : m <= i
    OBVIOUS
  <1> HIDE DEF T
  <1>2. Min(T) = m
    BY <1>1, LeastOf
  <1> QED
    BY <1>2, Zenon DEF NextName, T

\* The next name is behind, or there is none.
LEMMA NextNameFound ==
    ASSUME NEW body, NEW start \in Nat, Positions(body, NameField) \in SUBSET 1..Len(body),
           Len(body) \in Nat
    PROVE  LET m == NextName(body, start) IN
           /\ m \in Nat
           /\ (m \in Positions(body, NameField) /\ m > start) \/ m = Len(body) + 1
           /\ m <= Len(body) + 1
           /\ \A i \in Positions(body, NameField) : i > start => m <= i
  <1> DEFINE T == {i \in Positions(body, NameField) : i > start} \cup {Len(body) + 1}
  <1>1. T \in SUBSET Nat /\ T # {} /\ \A i \in T : i <= Len(body) + 1
    OBVIOUS
  <1>3. /\ \A i \in T : (i \in Positions(body, NameField) /\ i > start) \/ i = Len(body) + 1
        /\ \A i \in Positions(body, NameField) : i > start => i \in T
    OBVIOUS
  <1> HIDE DEF T
  <1>2. Min(T) \in T /\ \A i \in T : Min(T) <= i
    BY <1>1, LeastIsThere
  <1>4. NextName(body, start) = Min(T)
    BY Zenon DEF NextName, T
  <1> QED
    BY <1>1, <1>2, <1>3, <1>4

\* One round of the loop, whatever the element.
EntryOf(element) ==
    LET name == ExtractJsonField(element, NameField)
        type == ExtractJsonField(element, "type") IN
    IF name = <<>> THEN <<>> ELSE <<[name |-> name, is_directory |-> type = <<"dir">>]>>

\* An entry depends on its element only.
LEMMA EntryIsOfElement ==
    \A body, start : Entry(body, start) = EntryOf(Element(body, start))
  BY Zenon DEF Entry, EntryOf, NameField

EntriesAt(body) ==
    [i \in 1..Len(body) |->
        IF i \in Positions(body, NameField) THEN EntryOf(Element(body, i)) ELSE <<>>]

\* The entries are those of the positions with a name, in a row.
LEMMA EntriesAreFlat ==
    ASSUME NEW V, NEW body \in Seq(V)
    PROVE  DirectoryEntries(body) = FlattenSeq(EntriesAt(body))
  <1>1. DOMAIN body = 1..Len(body)
    BY LenProperties
  <1>2. \A i : Entry(body, i) = EntryOf(Element(body, i))
    BY EntryIsOfElement, Zenon
  <1>3. [i \in DOMAIN body |->
            IF i \in Positions(body, NameField) THEN Entry(body, i) ELSE <<>>] = EntriesAt(body)
    BY <1>1, <1>2, Zenon DEF EntriesAt
  <1> QED
    BY <1>3, Zenon DEF DirectoryEntries, NameField

\* Nothing in a row is nothing.
LEMMA FlattenNothing ==
    ASSUME NEW V, NEW ss \in Seq(Seq(V)), \A i \in 1..Len(ss) : ss[i] = <<>>
    PROVE  FlattenSeq(ss) = <<>>
  <1> DEFINE none == <<>>
             T == {s \in Seq(Seq(V)) : (\A i \in 1..Len(s) : s[i] = none) => FlattenSeq(s) = none}
  <1>1. <<>> \in Seq(Seq(V)) /\ FlattenSeq(<<>>) = none /\ none \in Seq(V)
    BY EmptySeq, FlattenProperties
  <1>2. <<>> \in T
    BY <1>1
  <1>3. ASSUME NEW s \in T, NEW c \in Seq(V) PROVE Append(s, c) \in T
    <2>1. /\ Append(s, c) \in Seq(Seq(V)) /\ Len(Append(s, c)) = Len(s) + 1 /\ Len(s) \in Nat
          /\ \A i \in 1..Len(s) : Append(s, c)[i] = s[i]
          /\ Append(s, c)[Len(s) + 1] = c
      BY AppendProperties, LenProperties
    <2>2. FlattenSeq(Append(s, c)) = FlattenSeq(s) \o c
      BY FlattenProperties
    <2>3. none \o none = none
      BY <1>1, ConcatEmptySeq
    <2> HIDE DEF none
    <2> SUFFICES ASSUME \A i \in 1..Len(Append(s, c)) : Append(s, c)[i] = none
                 PROVE  FlattenSeq(Append(s, c)) = none
      BY <2>1
    <2>4. c = none /\ \A i \in 1..Len(s) : s[i] = none
      BY <2>1
    <2> QED
      BY <2>2, <2>3, <2>4
  <1> HIDE DEF T
  <1>4. T = Seq(Seq(V))
    <2>1. T \in SUBSET Seq(Seq(V))
      BY DEF T
    <2> QED
      BY <1>2, <1>3, <2>1, SeqInduction
  <1> QED
    BY <1>4 DEF T

\* The entries that a body may have.
EntrySet(body) ==
    {[name |-> ExtractJsonField(Element(body, i), NameField),
      is_directory |-> ExtractJsonField(Element(body, i), "type") = <<"dir">>] :
        i \in 1..Len(body)}

\* The entries of a text are some of those that it may have.
LEMMA EntriesType ==
    ASSUME NEW V, NEW body \in Seq(V)
    PROVE  /\ \A i \in 1..Len(body) : EntryOf(Element(body, i)) \in Seq(EntrySet(body))
           /\ EntriesAt(body) \in Seq(Seq(EntrySet(body)))
           /\ Len(EntriesAt(body)) = Len(body) /\ Len(body) \in Nat
           /\ <<>> \in Seq(EntrySet(body))
           /\ \A i \in 1..Len(body) :
                  EntriesAt(body)[i] = IF i \in Positions(body, NameField)
                                       THEN EntryOf(Element(body, i)) ELSE <<>>
  <1>1. Len(body) \in Nat /\ <<>> \in Seq(EntrySet(body))
    BY LenProperties, EmptySeq
  <1>2. ASSUME NEW i \in 1..Len(body)
        PROVE  EntryOf(Element(body, i)) \in Seq(EntrySet(body))
    <2> DEFINE r == [name |-> ExtractJsonField(Element(body, i), NameField),
                     is_directory |-> ExtractJsonField(Element(body, i), "type") = <<"dir">>]
    <2>1. r \in EntrySet(body)
      BY Zenon DEF EntrySet
    <2>2. EntryOf(Element(body, i)) = <<>> \/ EntryOf(Element(body, i)) = <<r>>
      BY Zenon DEF EntryOf
    <2> HIDE DEF r
    <2>3. <<r>> \in Seq(EntrySet(body))
      BY <2>1
    <2> QED
      BY <1>1, <2>2, <2>3, Zenon
  <1>3. \A i \in 1..Len(body) :
            EntriesAt(body)[i] = IF i \in Positions(body, NameField)
                                 THEN EntryOf(Element(body, i)) ELSE <<>>
    BY Zenon DEF EntriesAt
  <1>4. \A i \in 1..Len(body) : EntriesAt(body)[i] \in Seq(EntrySet(body))
    BY <1>1, <1>2, <1>3
  <1>5. DOMAIN EntriesAt(body) = 1..Len(body)
    BY Zenon DEF EntriesAt
  <1>6. EntriesAt(body) \in Seq(Seq(EntrySet(body))) /\ Len(EntriesAt(body)) = Len(body)
    <2> DEFINE X == Seq(EntrySet(body))
               en == EntriesAt(body)
    <2>1. en = [i \in 1..Len(body) |-> en[i]]
      <3> DEFINE F(i) == IF i \in Positions(body, NameField)
                         THEN EntryOf(Element(body, i)) ELSE <<>>
      <3>1. en = [i \in 1..Len(body) |-> F(i)]
        BY Zenon DEF EntriesAt
      <3> HIDE DEF F, en
      <3> QED
        BY <3>1
    <2>2. en = [i \in 1..Len(body) |-> en[i]] /\ \A i \in 1..Len(body) : en[i] \in X
      BY <1>4, <2>1
    <2> HIDE DEF X, en
    <2>3. en \in Seq(X) /\ Len(en) = Len(body)
      BY <1>1, <2>2
    <2> QED
      BY <2>3 DEF X, en
  <1> QED
    BY <1>1, <1>2, <1>3, <1>6

\* A text without a name has no entry.
LEMMA EntriesNone ==
    ASSUME NEW V, NEW body \in Seq(V), Quote \in V, Colon \in V, NameField \in V,
           \A i \in 1..Len(body) : ~NamedAt(body, NameField, i)
    PROVE  DirectoryEntries(body) = <<>>
  <1>1. Positions(body, NameField) = {}
    BY NamedPositions
  <1>2. \A i \in 1..Len(body) : EntriesAt(body)[i] = <<>>
    BY <1>1, EntriesType
  <1>3. FlattenSeq(EntriesAt(body)) = <<>>
    BY <1>2, EntriesType, FlattenNothing
  <1> QED
    BY <1>3, EntriesAreFlat

\* A single element, which is all of the body.
LEMMA EntriesSingle ==
    ASSUME NEW V, NEW body \in Seq(V), Quote \in V, Colon \in V, NameField \in V,
           NamedAt(body, NameField, 1),
           \A i \in 2..Len(body) : ~NamedAt(body, NameField, i)
    PROVE  DirectoryEntries(body) = EntryOf(body)
  <1> DEFINE n == Len(body)
             X == EntrySet(body)
             en == EntriesAt(body)
  <1>1. n \in Nat /\ 1 \in 1..n
    <2>1. 1 + 3 <= n /\ n \in Nat
      BY LenProperties DEF NamedAt
    <2> QED
      BY <2>1
  <1>2. Positions(body, NameField) = {1}
    <2>1. Positions(body, NameField) = {i \in 1..n : NamedAt(body, NameField, i)}
      BY NamedPositions
    <2> HIDE DEF n
    <2>2. \A i \in 1..n : i = 1 \/ i \in 2..n
      BY <1>1
    <2>3. \A i \in 2..n : ~NamedAt(body, NameField, i)
      BY DEF n
    <2> QED
      BY <1>1, <2>1, <2>2, <2>3
  <1>3. NextName(body, 1) = n + 1
    <2>1. n + 1 \in Nat /\ {1} \in SUBSET Nat /\ \A i \in {1} : i > 1 => n + 1 <= i
      BY <1>1
    <2> QED
      BY <1>1, <1>2, <2>1, NextNameIs
  <1>4. Element(body, 1) = body
    <2>1. (n + 1) - 1 = n
      BY <1>1
    <2>2. SubSeq(body, 1, n) = body
      BY SubSeqFull
    <2> QED
      BY <1>3, <2>1, <2>2, ElementIsPart, Zenon
  <1>5. /\ en \in Seq(Seq(X)) /\ Len(en) = n
        /\ en[1] = EntryOf(body) /\ \A i \in 2..n : en[i] = <<>>
    <2>1. /\ en \in Seq(Seq(X)) /\ Len(en) = n
          /\ \A i \in 1..n : en[i] = IF i \in Positions(body, NameField)
                                     THEN EntryOf(Element(body, i)) ELSE <<>>
      BY EntriesType
    <2>2. en[1] = EntryOf(body)
      BY <1>1, <1>2, <1>4, <2>1
    <2>3. \A i \in 2..n : i \in 1..n /\ i \notin {1}
      BY <1>1
    <2> HIDE DEF en, n, X
    <2> QED
      BY <1>2, <2>1, <2>2, <2>3
  <1>6. EntryOf(body) \in Seq(X)
    BY <1>1, <1>4, EntriesType
  <1> HIDE DEF n, X, en
  <1> DEFINE first == <<EntryOf(body)>>
             rest == SubSeq(en, 2, n)
  <1>7. /\ rest \in Seq(Seq(X)) /\ Len(rest) = n - 1
        /\ \A i \in 1 .. n - 1 : rest[i] = en[i + 1]
    BY <1>1, <1>5
  <1>8. first \in Seq(Seq(X)) /\ Len(first) = 1 /\ first[1] = EntryOf(body)
    BY <1>6
  <1>9. \A i \in 1..Len(rest) : rest[i] = <<>>
    <2>1. \A i \in 1 .. n - 1 : i + 1 \in 2..n
      BY <1>1
    <2> QED
      BY <1>5, <1>7, <2>1
  <1> HIDE DEF first, rest
  <1>10. en = first \o rest
    <2>1. /\ first \o rest \in Seq(Seq(X)) /\ Len(first \o rest) = n
          /\ (first \o rest)[1] = first[1]
          /\ \A i \in 2..n : (first \o rest)[i] = rest[i - 1]
      <3>1. /\ first \o rest \in Seq(Seq(X)) /\ Len(first \o rest) = Len(rest) + 1
            /\ (first \o rest)[1] = EntryOf(body)
            /\ \A i \in 1..Len(rest) : (first \o rest)[i + 1] = rest[i]
        BY <1>6, <1>7, Enclosed DEF first
      <3>2. \A i \in 2..n : i - 1 \in 1..Len(rest) /\ (i - 1) + 1 = i
        BY <1>1, <1>7
      <3>3. Len(rest) + 1 = n
        BY <1>1, <1>7
      <3> QED
        BY <1>8, <3>1, <3>2, <3>3, Zenon
    <2>2. \A i \in 2..n : rest[i - 1] = en[i]
      BY <1>1, <1>7
    <2>3. \A i \in 1..n : i = 1 \/ i \in 2..n
      BY <1>1
    <2>4. \A i \in 1..n : (first \o rest)[i] = en[i]
      BY <1>5, <1>8, <2>1, <2>2, <2>3, Zenon
    <2> QED
      BY <1>5, <2>1, <2>4, SeqEqual
  <1>11. FlattenSeq(first) = EntryOf(body)
    BY <1>6, FlattenProperties, EmptySeq DEF first
  <1>12. FlattenSeq(rest) = <<>>
    BY <1>7, <1>9, FlattenNothing
  <1>13. FlattenSeq(en) = FlattenSeq(first) \o FlattenSeq(rest)
    BY <1>7, <1>8, <1>10, FlattenConcat
  <1>14. EntryOf(body) \o <<>> = EntryOf(body)
    BY <1>6, ConcatEmptySeq
  <1> QED
    BY <1>11, <1>12, <1>13, <1>14, EntriesAreFlat DEF en

\* A text in two parts.
LEMMA PartsOfConcat ==
    ASSUME NEW V, NEW a \in Seq(V), NEW b \in Seq(V)
    PROVE  /\ a \o b \in Seq(V) /\ Len(a \o b) = Len(a) + Len(b)
           /\ Len(a) \in Nat /\ Len(b) \in Nat
           /\ \A i \in 1..Len(a) : (a \o b)[i] = a[i]
           /\ \A i \in 1..Len(b) : (a \o b)[i + Len(a)] = b[i]
  OBVIOUS

\* A part of a text, element by element.
LEMMA SubSeqIs ==
    ASSUME NEW V, NEW s \in Seq(V), NEW i \in Nat, NEW j \in Nat
    PROVE  SubSeq(s, i, j) = [k \in 1 .. j - i + 1 |-> s[i + k - 1]]
  OBVIOUS

\* A part of either half is a part of the whole.
LEMMA SubSeqOfConcat ==
    ASSUME NEW V, NEW a \in Seq(V), NEW b \in Seq(V)
    PROVE  /\ \A i, j \in Nat : i >= 1 /\ j <= Len(a) => SubSeq(a \o b, i, j) = SubSeq(a, i, j)
           /\ \A i, j \in Nat : i >= 1 /\ j <= Len(b) =>
                  SubSeq(a \o b, i + Len(a), j + Len(a)) = SubSeq(b, i, j)
  <1> DEFINE c == a \o b
             m == Len(a)
             n == Len(b)
  <1>1. /\ c \in Seq(V) /\ Len(c) = m + n /\ m \in Nat /\ n \in Nat
        /\ \A i \in 1..m : c[i] = a[i]
        /\ \A i \in 1..n : c[i + m] = b[i]
    BY PartsOfConcat
  <1> HIDE DEF c, m, n
  <1>2. ASSUME NEW i \in Nat, NEW j \in Nat, i >= 1, j <= m
        PROVE  SubSeq(c, i, j) = SubSeq(a, i, j)
    <2>1. a \in Seq(V) /\ Len(a) = m
      BY DEF m
    <2> QED
      BY <1>1, <1>2, <2>1
  <1>3. ASSUME NEW i \in Nat, NEW j \in Nat, i >= 1, j <= n
        PROVE  SubSeq(c, i + m, j + m) = SubSeq(b, i, j)
    <2>1. b \in Seq(V) /\ Len(b) = n
      BY DEF n
    <2>2. SubSeq(b, i, j) = [k \in 1 .. j - i + 1 |-> b[i + k - 1]]
      BY SubSeqIs
    <2>3. SubSeq(c, i + m, j + m) =
              [k \in 1 .. (j + m) - (i + m) + 1 |-> c[(i + m) + k - 1]]
      <3>1. i + m \in Nat /\ j + m \in Nat
        BY <1>1
      <3> QED
        BY <1>1, <3>1, SubSeqIs
    <2>4. (j + m) - (i + m) + 1 = j - i + 1
      BY <1>1
    <2>5. \A k \in 1 .. j - i + 1 : c[(i + m) + k - 1] = b[i + k - 1]
      <3> TAKE k \in 1 .. j - i + 1
      <3>1. i + k - 1 \in 1..n /\ (i + k - 1) + m = (i + m) + k - 1
        BY <1>1, <1>3
      <3>2. c[(i + k - 1) + m] = b[i + k - 1]
        BY <1>1, <3>1
      <3> QED
        BY <3>1, <3>2, Zenon
    <2>6. [k \in 1 .. j - i + 1 |-> c[(i + m) + k - 1]] = [k \in 1 .. j - i + 1 |-> b[i + k - 1]]
      BY <2>5, Zenon
    <2> QED
      BY <2>2, <2>3, <2>4, <2>6, Zenon
  <1> QED
    BY <1>2, <1>3, Zenon DEF c, m, n

\* A text has the type of its elements.
LEMMA Retyped ==
    ASSUME NEW V, NEW U, NEW s \in Seq(V), \A i \in 1..Len(s) : s[i] \in U
    PROVE  s \in Seq(U)
  OBVIOUS

\* A name does not go across the end of an item.
Ended(a) == a # <<>> /\ a[Len(a)] \notin {Quote, NameField, Colon}

\* The names in two texts in a row are those of the first and those of the second.
LEMMA NamesOfConcat ==
    ASSUME NEW V, NEW a \in Seq(V), NEW b \in Seq(V), Ended(a)
    PROVE  /\ \A i \in 1..Len(a) :
                  NamedAt(a \o b, NameField, i) <=> NamedAt(a, NameField, i)
           /\ \A i \in 1..Len(b) :
                  NamedAt(a \o b, NameField, i + Len(a)) <=> NamedAt(b, NameField, i)
  <1> DEFINE c == a \o b
             m == Len(a)
             n == Len(b)
  <1>1. /\ c \in Seq(V) /\ Len(c) = m + n /\ m \in Nat /\ n \in Nat
        /\ \A i \in 1..m : c[i] = a[i]
        /\ \A i \in 1..n : c[i + m] = b[i]
    BY PartsOfConcat
  <1>2. m # 0 /\ a[m] # Quote /\ a[m] # NameField /\ a[m] # Colon
    BY EmptySeq, Zenon DEF Ended
  <1> HIDE DEF c, m, n
  <1>3. ASSUME NEW i \in 1..m PROVE NamedAt(c, NameField, i) <=> NamedAt(a, NameField, i)
    <2>1. CASE i + 3 <= m
      <3>1. /\ i + 1 \in 1..m /\ i + 2 \in 1..m /\ i + 3 \in 1..m /\ i + 3 <= m + n
        BY <1>1, <2>1
      <3> QED
        BY <1>1, <2>1, <3>1, Zenon DEF NamedAt, m
    <2>2. CASE ~(i + 3 <= m)
      <3>1. m \in 1..m /\ c[m] = a[m]
        BY <1>1
      <3>2. m = i \/ m = i + 1 \/ m = i + 2
        BY <1>1, <2>2
      <3>3. ~NamedAt(c, NameField, i)
        BY <1>2, <3>1, <3>2, NamedCharacters, Zenon
      <3>4. ~NamedAt(a, NameField, i)
        BY <2>2, Zenon DEF NamedAt, m
      <3> QED
        BY <3>3, <3>4, Zenon
    <2> QED
      BY <2>1, <2>2, Zenon
  <1>4. ASSUME NEW i \in 1..n PROVE NamedAt(c, NameField, i + m) <=> NamedAt(b, NameField, i)
    <2>1. (i + m) + 3 <= m + n <=> i + 3 <= n
      BY <1>1
    <2>2. ASSUME i + 3 <= n
          PROVE  /\ i + 1 \in 1..n /\ i + 2 \in 1..n /\ i + 3 \in 1..n
                 /\ (i + 1) + m = (i + m) + 1 /\ (i + 2) + m = (i + m) + 2
                 /\ (i + 3) + m = (i + m) + 3
      BY <1>1, <2>2
    <2>3. ASSUME i + 3 <= n
          PROVE  /\ c[i + m] = b[i] /\ c[(i + m) + 1] = b[i + 1]
                 /\ c[(i + m) + 2] = b[i + 2] /\ c[(i + m) + 3] = b[i + 3]
      <3>1. /\ c[(i + 1) + m] = b[i + 1] /\ c[(i + 2) + m] = b[i + 2]
            /\ c[(i + 3) + m] = b[i + 3] /\ c[i + m] = b[i]
        BY <1>1, <2>2, <2>3
      <3> QED
        BY <2>2, <2>3, <3>1, Zenon
    <2>4. Len(c) = m + n /\ Len(b) = n
      BY <1>1 DEF n
    <2> QED
      BY <2>1, <2>3, <2>4, Zenon DEF NamedAt
  <1> QED
    BY <1>3, <1>4, Zenon DEF c, m, n

\* And so are the elements, if the second text begins with a name.
LEMMA ElementsOfConcat ==
    ASSUME NEW V, NEW a \in Seq(V), NEW b \in Seq(V), Ended(a),
           Quote \in V, Colon \in V, NameField \in V, NamedAt(b, NameField, 1)
    PROVE  /\ \A i \in 1..Len(a) : /\ i \in Positions(a \o b, NameField) <=>
                                          i \in Positions(a, NameField)
                                   /\ Element(a \o b, i) = Element(a, i)
           /\ \A i \in 1..Len(b) : /\ i + Len(a) \in Positions(a \o b, NameField) <=>
                                          i \in Positions(b, NameField)
                                   /\ Element(a \o b, i + Len(a)) = Element(b, i)
  <1> DEFINE c == a \o b
             m == Len(a)
             n == Len(b)
             N(body) == Positions(body, NameField)
  <1>1. c \in Seq(V) /\ Len(c) = m + n /\ m \in Nat /\ n \in Nat
    BY PartsOfConcat
  <1>2. /\ N(a) = {i \in 1..m : NamedAt(a, NameField, i)}
        /\ N(b) = {i \in 1..n : NamedAt(b, NameField, i)}
        /\ N(c) = {i \in 1 .. m + n : NamedAt(c, NameField, i)}
    <2>1. N(a) = {i \in 1..m : NamedAt(a, NameField, i)}
      BY NamedPositions
    <2>2. N(b) = {i \in 1..n : NamedAt(b, NameField, i)}
      BY NamedPositions
    <2>3. N(c) = {i \in 1 .. Len(c) : NamedAt(c, NameField, i)}
      <3> HIDE DEF c
      <3> QED
        BY <1>1, NamedPositions
    <2> QED
      BY <1>1, <2>1, <2>2, <2>3
  <1>3. /\ \A i \in 1..m : NamedAt(c, NameField, i) <=> NamedAt(a, NameField, i)
        /\ \A i \in 1..n : NamedAt(c, NameField, i + m) <=> NamedAt(b, NameField, i)
    BY NamesOfConcat
  <1>4. /\ \A i, j \in Nat : i >= 1 /\ j <= m => SubSeq(c, i, j) = SubSeq(a, i, j)
        /\ \A i, j \in Nat : i >= 1 /\ j <= n =>
               SubSeq(c, i + m, j + m) = SubSeq(b, i, j)
    BY SubSeqOfConcat
  <1>5. n # 0
    <2>1. 1 + 3 <= n
      BY DEF NamedAt
    <2> QED
      BY <1>1, <2>1
  <1>20. Len(a) = m /\ Len(b) = n
    OBVIOUS
  <1> HIDE DEF c, m, n
  <1>6. \A i \in 1..m : i \in N(c) <=> i \in N(a)
    <2>1. \A i \in 1..m : i \in 1 .. m + n
      BY <1>1
    <2> HIDE DEF N
    <2> QED
      BY <1>2, <1>3, <2>1, Zenon
  <1>7. \A i \in 1..n : i + m \in N(c) <=> i \in N(b)
    <2>1. \A i \in 1..n : i + m \in 1 .. m + n
      BY <1>1
    <2> HIDE DEF N
    <2> QED
      BY <1>2, <1>3, <2>1, Zenon
  <1>8. N(a) \in SUBSET (1..m) /\ N(b) \in SUBSET (1..n) /\ N(c) \in SUBSET (1 .. m + n)
    BY <1>2, Zenon
  <1>9. m + 1 \in N(c)
    <2>1. 1 \in 1..n /\ 1 + m = m + 1
      BY <1>1, <1>5
    <2>2. 1 \in N(b)
      <3> HIDE DEF N
      <3> QED
        BY <1>2, <2>1, Zenon
    <2> HIDE DEF N
    <2> QED
      BY <1>7, <2>1, <2>2
  <1> HIDE DEF N
  <1>10. ASSUME NEW i \in 1..m PROVE Element(c, i) = Element(a, i)
    <2> DEFINE k == NextName(a, i)
    <2>1. /\ k \in Nat /\ k <= m + 1
          /\ (k \in N(a) /\ k > i) \/ k = m + 1
          /\ \A j \in N(a) : j > i => k <= j
      <3>1. i \in Nat /\ Positions(a, NameField) \in SUBSET 1..Len(a) /\ Len(a) \in Nat
        BY <1>1, <1>8, <1>20 DEF N
      <3> QED
        BY <1>20, <3>1, NextNameFound DEF N
    <2> HIDE DEF k
    <2>2. k \in N(c) /\ k > i
      BY <1>1, <1>6, <1>8, <1>9, <2>1
    <2>3. \A j \in N(c) : j > i => k <= j
      <3> TAKE j \in N(c)
      <3>1. j \in 1..m \/ j >= m + 1
        BY <1>1, <1>8
      <3> QED
        BY <1>1, <1>6, <1>8, <2>1, <3>1
    <2>4. NextName(c, i) = k
      <3>1. /\ i \in Nat /\ Positions(c, NameField) \in SUBSET Nat /\ Len(c) \in Nat
            /\ k <= Len(c) + 1
        BY <1>1, <1>8, <2>1 DEF N
      <3> QED
        BY <2>1, <2>2, <2>3, <3>1, NextNameIs DEF N
    <2>5. SubSeq(c, i, k - 1) = SubSeq(a, i, k - 1)
      <3>1. i \in Nat /\ i >= 1 /\ k - 1 \in Nat /\ k - 1 <= m
        BY <1>1, <2>1, <2>2
      <3> QED
        BY <1>4, <3>1
    <2> QED
      BY <2>4, <2>5, ElementIsPart, Zenon DEF k
  <1>11. ASSUME NEW i \in 1..n PROVE Element(c, i + m) = Element(b, i)
    <2> DEFINE k == NextName(b, i)
    <2>1. /\ k \in Nat /\ k <= n + 1
          /\ (k \in N(b) /\ k > i) \/ k = n + 1
          /\ \A j \in N(b) : j > i => k <= j
      <3>1. i \in Nat /\ Positions(b, NameField) \in SUBSET 1..Len(b) /\ Len(b) \in Nat
        BY <1>1, <1>8, <1>20 DEF N
      <3> QED
        BY <1>20, <3>1, NextNameFound DEF N
    <2> HIDE DEF k
    <2>2. (k + m \in N(c) /\ k + m > i + m) \/ k + m = (m + n) + 1
      BY <1>1, <1>7, <1>8, <2>1
    <2>3. \A j \in N(c) : j > i + m => k + m <= j
      <3> TAKE j \in N(c)
      <3> SUFFICES ASSUME j > i + m PROVE k + m <= j
        OBVIOUS
      <3>1. j - m \in 1..n /\ (j - m) + m = j /\ j - m > i
        BY <1>1, <1>8
      <3>2. j - m \in N(b)
        BY <1>7, <3>1, Zenon
      <3>3. k <= j - m
        BY <2>1, <3>1, <3>2
      <3>4. j \in Nat
        BY <1>1, <1>8
      <3> QED
        BY <1>1, <2>1, <3>3, <3>4
    <2>4. NextName(c, i + m) = k + m
      <3>1. /\ i + m \in Nat /\ Positions(c, NameField) \in SUBSET Nat /\ Len(c) \in Nat
            /\ k + m <= Len(c) + 1 /\ k + m \in Nat
        BY <1>1, <1>8, <2>1 DEF N
      <3> QED
        BY <1>1, <2>2, <2>3, <3>1, NextNameIs DEF N
    <2>5. SubSeq(c, i + m, (k + m) - 1) = SubSeq(b, i, k - 1)
      <3>1. i \in Nat /\ i >= 1 /\ k - 1 \in Nat /\ k - 1 <= n /\ (k - 1) + m = (k + m) - 1
        BY <1>1, <1>8, <2>1
      <3> QED
        BY <1>4, <3>1
    <2> QED
      BY <2>4, <2>5, ElementIsPart, Zenon DEF k
  <1> QED
    BY <1>6, <1>7, <1>10, <1>11, Zenon DEF N, c, m, n

\* An item more.
LEMMA EntriesConcat ==
    ASSUME NEW V, NEW a \in Seq(V), NEW b \in Seq(V), Ended(a),
           Quote \in V, Colon \in V, NameField \in V, NamedAt(b, NameField, 1)
    PROVE  DirectoryEntries(a \o b) = DirectoryEntries(a) \o DirectoryEntries(b)
  <1> DEFINE c == a \o b
             m == Len(a)
             n == Len(b)
             X == EntrySet(c)
  <1>1. c \in Seq(V) /\ Len(c) = m + n /\ m \in Nat /\ n \in Nat
    BY PartsOfConcat
  <1>2. /\ \A i \in 1..m : EntriesAt(a)[i] = EntriesAt(c)[i]
        /\ \A i \in 1..n : EntriesAt(b)[i] = EntriesAt(c)[i + m]
    <2>1. \A i \in 1..m : EntriesAt(a)[i] = IF i \in Positions(a, NameField)
                                            THEN EntryOf(Element(a, i)) ELSE <<>>
      BY EntriesType
    <2>2. \A i \in 1..n : EntriesAt(b)[i] = IF i \in Positions(b, NameField)
                                            THEN EntryOf(Element(b, i)) ELSE <<>>
      BY EntriesType
    <2>3. \A i \in 1 .. m + n : EntriesAt(c)[i] = IF i \in Positions(c, NameField)
                                            THEN EntryOf(Element(c, i)) ELSE <<>>
      BY <1>1, EntriesType
    <2>4. /\ \A i \in 1..m : i \in Positions(c, NameField) <=> i \in Positions(a, NameField)
          /\ \A i \in 1..m : Element(c, i) = Element(a, i)
          /\ \A i \in 1..n : i + m \in Positions(c, NameField) <=>
                                 i \in Positions(b, NameField)
          /\ \A i \in 1..n : Element(c, i + m) = Element(b, i)
      BY ElementsOfConcat
    <2>5. (\A i \in 1..m : i \in 1 .. m + n) /\ (\A i \in 1..n : i + m \in 1 .. m + n)
      BY <1>1
    <2> HIDE DEF c, m, n
    <2> QED
      BY <2>1, <2>2, <2>3, <2>4, <2>5, Zenon
  <1>3. /\ EntriesAt(c) \in Seq(Seq(X)) /\ Len(EntriesAt(c)) = m + n
        /\ \A i \in 1 .. m + n : EntriesAt(c)[i] \in Seq(X)
    <2>1. EntriesAt(c) \in Seq(Seq(X)) /\ Len(EntriesAt(c)) = m + n
      BY <1>1, EntriesType
    <2> HIDE DEF c, m, n, X
    <2> QED
      BY <2>1, ElementOfSeq
  <1>4. /\ Len(EntriesAt(a)) = m /\ Len(EntriesAt(b)) = n
        /\ EntriesAt(a) \in Seq(Seq(EntrySet(a))) /\ EntriesAt(b) \in Seq(Seq(EntrySet(b)))
    BY EntriesType
  <1> HIDE DEF c, m, n, X
  <1>5. EntriesAt(a) \in Seq(Seq(X)) /\ EntriesAt(b) \in Seq(Seq(X))
    <2> DEFINE ea == EntriesAt(a)
               eb == EntriesAt(b)
               W == Seq(X)
    <2>1. (\A i \in 1..m : ea[i] \in W) /\ (\A i \in 1..n : eb[i] \in W)
      <3>1. (\A i \in 1..m : i \in 1 .. m + n) /\ (\A i \in 1..n : i + m \in 1 .. m + n)
        BY <1>1
      <3> QED
        BY <1>2, <1>3, <3>1, Zenon
    <2>2. /\ ea \in Seq(Seq(EntrySet(a))) /\ Len(ea) = m
          /\ eb \in Seq(Seq(EntrySet(b))) /\ Len(eb) = n
      BY <1>4
    <2> HIDE DEF ea, eb, W
    <2> DEFINE A == Seq(EntrySet(a))
               B == Seq(EntrySet(b))
    <2>3. ea \in Seq(A) /\ eb \in Seq(B)
      BY <2>2
    <2> HIDE DEF A, B
    <2>7. Len(ea) = m /\ Len(eb) = n
      BY <2>2
    <2>4. (\A i \in 1..Len(ea) : ea[i] \in W) /\ (\A i \in 1..Len(eb) : eb[i] \in W)
      BY <2>1, <2>7, Zenon
    <2>5. ea \in Seq(W)
      BY <2>3, <2>4, Retyped
    <2>6. eb \in Seq(W)
      BY <2>3, <2>4, Retyped
    <2> QED
      BY <2>5, <2>6 DEF ea, eb, W
  <1>6. EntriesAt(c) = EntriesAt(a) \o EntriesAt(b)
    <2> DEFINE ea == EntriesAt(a)
               eb == EntriesAt(b)
               ec == EntriesAt(c)
               W == Seq(X)
    <2>1. /\ ea \o eb \in Seq(W) /\ Len(ea \o eb) = m + n
          /\ \A i \in 1..m : (ea \o eb)[i] = ea[i]
          /\ \A i \in 1..n : (ea \o eb)[i + m] = eb[i]
      <3>1. ea \in Seq(W) /\ eb \in Seq(W) /\ Len(ea) = m /\ Len(eb) = n
        BY <1>4, <1>5
      <3>3. ea \in Seq(W) /\ eb \in Seq(W)
        BY <3>1
      <3> HIDE DEF ea, eb, ec, W
      <3>2. /\ ea \o eb \in Seq(W) /\ Len(ea \o eb) = Len(ea) + Len(eb)
            /\ \A i \in 1..Len(ea) : (ea \o eb)[i] = ea[i]
            /\ \A i \in 1..Len(eb) : (ea \o eb)[i + Len(ea)] = eb[i]
        BY <3>3, PartsOfConcat
      <3> QED
        BY <3>1, <3>2, Zenon
    <2>2. ec \in Seq(W) /\ Len(ec) = m + n
      BY <1>3
    <2>3. \A i \in 1 .. m + n : (ea \o eb)[i] = ec[i]
      <3> TAKE i \in 1 .. m + n
      <3>1. CASE i \in 1..m
        BY <1>2, <2>1, <3>1, Zenon
      <3>2. CASE i \notin 1..m
        <4>1. i - m \in 1..n /\ (i - m) + m = i
          BY <1>1, <3>2
        <4> QED
          BY <1>2, <2>1, <4>1, Zenon
      <3> QED
        BY <3>1, <3>2
    <2> HIDE DEF ea, eb, ec, W
    <2>4. ea \o eb = ec
      BY <2>1, <2>2, <2>3, SeqEqual
    <2> QED
      BY <2>4 DEF ea, eb, ec
  <1>7. FlattenSeq(EntriesAt(c)) = FlattenSeq(EntriesAt(a)) \o FlattenSeq(EntriesAt(b))
    BY <1>5, <1>6, FlattenConcat
  <1>8. /\ DirectoryEntries(a) = FlattenSeq(EntriesAt(a))
        /\ DirectoryEntries(b) = FlattenSeq(EntriesAt(b))
        /\ DirectoryEntries(c) = FlattenSeq(EntriesAt(c))
    BY <1>1, EntriesAreFlat
  <1> QED
    BY <1>7, <1>8, Zenon DEF c

-------------------------------------------------------------------------------
(* ListingIsTheFolder: the entry of an item, of a text cut anywhere in it. *)

TypeField == "type"
SizeField == "size"
Comma == "comma"
Opening == "{"
Closing == "}"
Zero == "0"
ListEnd == "]"
Folder == "dir"
File == "file"

\* The characters of a listing are different ones.
LEMMA CharactersDiffer ==
    /\ Quote # NameField /\ Quote # TypeField /\ Quote # SizeField /\ Quote # Colon
    /\ Quote # Comma /\ Quote # Opening /\ Quote # Closing /\ Quote # Zero /\ Quote # ListEnd
    /\ Quote # Folder /\ Quote # File /\ Quote # Backslash /\ Quote # "blank"
    /\ Colon # NameField /\ Colon # TypeField /\ Colon # SizeField /\ Colon # Comma
    /\ Colon # Closing /\ Colon # Folder /\ Colon # File /\ Colon # Zero
    /\ Backslash # NameField /\ Backslash # TypeField
    /\ NameField # TypeField /\ NameField # SizeField /\ TypeField # SizeField
    /\ Opening # NameField /\ Opening # Colon /\ Folder # File
  BY Zenon DEF Quote, NameField, TypeField, SizeField, Colon, Comma, Opening, Closing, Zero,
               ListEnd, Folder, File, Backslash

\* The text of an item, from its name on, up to the name of the next one or the end of the list;
\* e is its name with the quotes escaped.
ItemText(u, e, kind) ==
    LET m == Len(e) IN
    /\ u[1] = Quote /\ u[2] = NameField /\ u[3] = Quote /\ u[4] = Colon /\ u[5] = Quote
    /\ \A i \in 1..m : u[i + 5] = e[i]
    /\ u[m + 6] = Quote /\ u[m + 7] = Comma /\ u[m + 8] = Quote /\ u[m + 9] = SizeField
    /\ u[m + 10] = Quote /\ u[m + 11] = Colon /\ u[m + 12] = Zero /\ u[m + 13] = Comma
    /\ u[m + 14] = Quote /\ u[m + 15] = TypeField /\ u[m + 16] = Quote /\ u[m + 17] = Colon
    /\ u[m + 18] = Quote /\ u[m + 19] = kind /\ u[m + 20] = Quote /\ u[m + 21] = Closing
    /\ \/ Len(u) = m + 22 /\ u[m + 22] = ListEnd
       \/ /\ Len(u) = m + 26 /\ u[m + 22] = Comma /\ u[m + 23] = Opening
          /\ u[m + 24] = Quote /\ u[m + 25] = NameField /\ u[m + 26] = Quote

\* Every quote of it is behind a backslash.
QuotesEscaped(e) == \A i \in 1..Len(e) : e[i] = Quote => i > 1 /\ e[i - 1] = Backslash

\* Nothing in an item, not even in its name, is taken for another field.
LEMMA ItemNames ==
    ASSUME NEW V, NEW u \in Seq(V), NEW e \in Seq(V), NEW kind \in {Folder, File},
           ItemText(u, e, kind), QuotesEscaped(e), NEW field \in {NameField, TypeField},
           NEW i \in 1..Len(u), NamedAt(u, field, i)
    PROVE  (field = NameField /\ i = 1) \/ (field = TypeField /\ i = Len(e) + 14)
  <1> DEFINE m == Len(e)
             n == Len(u)
  <1>1. m \in Nat /\ n \in Nat /\ i \in Nat /\ i >= 1
    BY LenProperties
  <1>2. /\ i + 3 <= n /\ u[i] = Quote /\ u[i + 1] = field
        /\ u[i + 2] = Quote /\ u[i + 3] = Colon
    BY NamedCharacters
  <1>3. ItemText(u, e, kind)
    OBVIOUS
  <1>4. n <= m + 26
    BY <1>1, <1>3 DEF ItemText
  <1>5. /\ kind # Quote /\ kind # Colon /\ field # Quote /\ field # Colon
        /\ field # SizeField /\ field # Backslash
    BY CharactersDiffer, Zenon
  <1>6. i + 2 \notin 6 .. m + 5
    <2> SUFFICES ASSUME i + 2 \in 6 .. m + 5 PROVE FALSE
      OBVIOUS
    <2> DEFINE j == (i + 2) - 5
    <2>1. j \in 1..m /\ j + 5 = i + 2 /\ (j - 1) + 5 = i + 1
      BY <1>1
    <2> HIDE DEF j
    <2>2. e[j] = Quote
      BY <1>2, <1>3, <2>1 DEF ItemText
    <2>3. j > 1 /\ e[j - 1] = Backslash
      BY <2>1, <2>2 DEF QuotesEscaped
    <2>4. j - 1 \in 1..m
      BY <1>1, <2>1, <2>3
    <2>5. u[(j - 1) + 5] = Backslash
      BY <1>3, <2>3, <2>4 DEF ItemText
    <2> QED
      BY <1>2, <1>5, <2>1, <2>5
  <1>7. CASE i + 2 < 6
    <2>1. i = 1 \/ i = 2 \/ i = 3
      BY <1>1, <1>7
    <2>2. /\ u[1] = Quote /\ u[2] = NameField /\ u[3] = Quote /\ u[4] = Colon
      BY <1>3 DEF ItemText
    <2>3. i # 2
      BY <1>2, <2>2, CharactersDiffer
    <2>4. i # 3
      BY <1>2, <1>5, <2>2
    <2>5. i = 1 => field = NameField
      BY <1>2, <2>2
    <2> QED
      BY <2>1, <2>3, <2>4, <2>5
  <1>8. CASE i + 2 >= m + 6
    <2> DEFINE k == i - m
    <2>1. k \in 4..23 /\ i = m + k
      <3>1. i + 3 <= n
        BY <1>2
      <3> HIDE DEF m, n
      <3> QED
        BY <1>1, <1>4, <1>8, <3>1
    <2> HIDE DEF k, m, n
    <2>2. /\ u[m + 6] = Quote /\ u[m + 7] = Comma /\ u[m + 8] = Quote /\ u[m + 9] = SizeField
          /\ u[m + 10] = Quote /\ u[m + 11] = Colon /\ u[m + 12] = Zero /\ u[m + 13] = Comma
          /\ u[m + 14] = Quote /\ u[m + 15] = TypeField /\ u[m + 16] = Quote
          /\ u[m + 17] = Colon
          /\ u[m + 18] = Quote /\ u[m + 19] = kind /\ u[m + 20] = Quote /\ u[m + 21] = Closing
      BY <1>3 DEF ItemText, m
    <2>3. \/ n = m + 22 /\ u[m + 22] = ListEnd
          \/ /\ n = m + 26 /\ u[m + 22] = Comma /\ u[m + 23] = Opening
             /\ u[m + 24] = Quote /\ u[m + 25] = NameField /\ u[m + 26] = Quote
      BY <1>3 DEF ItemText, m, n
    <2>4. u[m + k] = Quote /\ u[m + (k + 1)] = field /\ u[m + (k + 2)] = Quote
          /\ u[m + (k + 3)] = Colon
      BY <1>1, <1>2, <2>1
    <2>5. /\ k # 4 /\ k # 5 /\ k # 6 /\ k # 7 /\ k # 8 /\ k # 9 /\ k # 10
          /\ k # 11 /\ k # 12 /\ k # 13 /\ k # 15 /\ k # 16 /\ k # 17 /\ k # 18
          /\ k # 19 /\ k # 20 /\ k # 21 /\ k # 22 /\ k # 23
      <3>1. k # 4
        <4> SUFFICES ASSUME k = 4 PROVE FALSE
          OBVIOUS
        <4>1. u[m + 7] = Comma
          BY <2>2
        <4>2. k + 3 = 7
          OBVIOUS
        <4>3. u[m + 7] = Colon
          BY <2>4, <4>2, Zenon
        <4> QED
          BY <4>1, <4>3, CharactersDiffer, Zenon
      <3>2. k # 5
        BY <1>1, <1>2, <1>5, <2>1, <2>2, <2>3, <2>4, CharactersDiffer
      <3>3. k # 6
        BY <1>1, <1>2, <1>5, <2>1, <2>2, <2>3, <2>4, CharactersDiffer
      <3>4. k # 7
        BY <1>1, <1>2, <1>5, <2>1, <2>2, <2>3, <2>4, CharactersDiffer
      <3>5. k # 8
        BY <1>1, <1>2, <1>5, <2>1, <2>2, <2>3, <2>4, CharactersDiffer
      <3>6. k # 9
        BY <1>1, <1>2, <1>5, <2>1, <2>2, <2>3, <2>4, CharactersDiffer
      <3>7. k # 10
        BY <1>1, <1>2, <1>5, <2>1, <2>2, <2>3, <2>4, CharactersDiffer
      <3>8. k # 11
        BY <1>1, <1>2, <1>5, <2>1, <2>2, <2>3, <2>4, CharactersDiffer
      <3>9. k # 12
        BY <1>1, <1>2, <1>5, <2>1, <2>2, <2>3, <2>4, CharactersDiffer
      <3>10. k # 13
        BY <1>1, <1>2, <1>5, <2>1, <2>2, <2>3, <2>4, CharactersDiffer
      <3>11. k # 15
        BY <1>1, <1>2, <1>5, <2>1, <2>2, <2>3, <2>4, CharactersDiffer
      <3>12. k # 16
        BY <1>1, <1>2, <1>5, <2>1, <2>2, <2>3, <2>4, CharactersDiffer
      <3>13. k # 17
        BY <1>1, <1>2, <1>5, <2>1, <2>2, <2>3, <2>4, CharactersDiffer
      <3>14. k # 18
        BY <1>1, <1>2, <1>5, <2>1, <2>2, <2>3, <2>4, CharactersDiffer
      <3>15. k # 19
        BY <1>1, <1>2, <1>5, <2>1, <2>2, <2>3, <2>4, CharactersDiffer
      <3>16. k # 20
        BY <1>1, <1>2, <1>5, <2>1, <2>2, <2>3, <2>4, CharactersDiffer
      <3>17. k # 21
        BY <1>1, <1>2, <1>5, <2>1, <2>2, <2>3, <2>4, CharactersDiffer
      <3>18. k # 22
        BY <1>1, <1>2, <1>5, <2>1, <2>2, <2>3, <2>4, CharactersDiffer
      <3>19. k # 23
        BY <1>1, <1>2, <1>5, <2>1, <2>2, <2>3, <2>4, CharactersDiffer
      <3> QED
        BY <3>1, <3>2, <3>3, <3>4, <3>5, <3>6, <3>7, <3>8, <3>9, <3>10,
          <3>11, <3>12, <3>13, <3>14, <3>15, <3>16, <3>17, <3>18, <3>19
    <2>8. k = 14
      BY <2>1, <2>5
    <2>9. field = TypeField
      BY <2>2, <2>4, <2>8
    <2> QED
      BY <2>1, <2>8, <2>9 DEF m
  <1> QED
    BY <1>1, <1>6, <1>7, <1>8

\* The value that is found, at its least position.
FieldAt(t, p) ==
    LET value == SkipBlanks(t, p + 4)
        end == Find(t, value + 1, {Quote}) IN
    IF value > Len(t) THEN <<>>
    ELSE IF t[value] = Quote
    THEN IF end > Len(t) THEN <<>> ELSE SubSeq(t, value + 1, end - 1)
    ELSE SubSeq(t, value, Find(t, value, {"comma", "}"}) - 1)

\* extract_json_field takes the first place with the field's name.
LEMMA FieldIsAt ==
    ASSUME NEW t, NEW field
    PROVE  /\ Positions(t, field) = {} => ExtractJsonField(t, field) = <<>>
           /\ Positions(t, field) # {} =>
                  ExtractJsonField(t, field) = FieldAt(t, Min(Positions(t, field)))
  <1>1. ExtractJsonField(t, field) = IF Positions(t, field) = {} THEN <<>>
                                     ELSE FieldAt(t, Min(Positions(t, field)))
    BY Zenon DEF ExtractJsonField, FieldAt
  <1> QED
    BY <1>1, Zenon

Filled(t, i) == t[i] # "blank"

\* A string begins right behind the colon.
LEMMA BlanksSkipped ==
    ASSUME NEW V, NEW t \in Seq(V), NEW s \in Nat, s >= 1
    PROVE  /\ s = Len(t) + 1 => SkipBlanks(t, s) = s
           /\ (s <= Len(t) /\ t[s] = Quote) => SkipBlanks(t, s) = s
  <1> DEFINE n == Len(t)
             T == {i \in s..n : Filled(t, i)}
  <1>1. n \in Nat
    BY LenProperties
  <1>2. SkipBlanks(t, s) = Min(T \cup {n + 1})
    BY Zenon DEF SkipBlanks, Filled
  <1>3. T \in SUBSET Nat /\ \A i \in T : i <= n /\ i >= s
    BY <1>1
  <1>4. t[s] = Quote => Filled(t, s)
    BY CharactersDiffer, Zenon DEF Filled
  <1>5. (s <= n /\ t[s] = Quote) => s \in T
    BY <1>1, <1>4
  <1>6. s = n + 1 => T = {}
    BY <1>1
  <1> HIDE DEF T, n
  <1>7. (s <= n /\ t[s] = Quote) => Min(T \cup {n + 1}) = s
    BY <1>1, <1>3, <1>5, FirstFound
  <1>8. s = n + 1 => Min(T \cup {n + 1}) = s
    BY <1>1, <1>3, <1>6, FirstFound
  <1> QED
    BY <1>2, <1>7, <1>8, Zenon DEF n

\* The search for a quote finds the next one, or ends behind the text.
LEMMA QuoteFound ==
    ASSUME NEW V, NEW t \in Seq(V), NEW s \in Nat, s >= 1
    PROVE  /\ (\A i \in s..Len(t) : t[i] # Quote) => Find(t, s, {Quote}) = Len(t) + 1
           /\ \A q \in s..Len(t) : (t[q] = Quote /\ \A i \in s .. q - 1 : t[i] # Quote) =>
                  Find(t, s, {Quote}) = q
  <1> DEFINE n == Len(t)
             T == {i \in s..n : t[i] \in {Quote}}
  <1>1. n \in Nat
    BY LenProperties
  <1>2. Find(t, s, {Quote}) = Min(T \cup {n + 1})
    BY Zenon DEF Find
  <1>3. T \in SUBSET Nat /\ \A i \in T : i <= n /\ i >= s
    BY <1>1
  <1>4. (\A i \in s..n : t[i] # Quote) => T = {}
    OBVIOUS
  <1>5. ASSUME NEW q \in s..n, t[q] = Quote, \A i \in s .. q - 1 : t[i] # Quote
        PROVE  q \in T /\ \A x \in T : q <= x
    BY <1>1, <1>5
  <1> HIDE DEF T, n
  <1>6. (\A i \in s..n : t[i] # Quote) => Min(T \cup {n + 1}) = n + 1
    BY <1>1, <1>3, <1>4, FirstFound
  <1>7. ASSUME NEW q \in s..n, t[q] = Quote, \A i \in s .. q - 1 : t[i] # Quote
        PROVE  Min(T \cup {n + 1}) = q
    BY <1>1, <1>3, <1>5, <1>7, FirstFound
  <1> QED
    BY <1>2, <1>6, <1>7, Zenon DEF n

\* A string is taken up to its closing quote, and not at all without one.
LEMMA StringExtracted ==
    ASSUME NEW V, NEW t \in Seq(V), NEW p \in Nat, p + 3 <= Len(t),
           p + 4 <= Len(t) => t[p + 4] = Quote
    PROVE  /\ (\A i \in p + 5 .. Len(t) : t[i] # Quote) => FieldAt(t, p) = <<>>
           /\ \A q \in p + 5 .. Len(t) : (t[q] = Quote /\ \A i \in p + 5 .. q - 1 : t[i] # Quote)
                  => FieldAt(t, p) = SubSeq(t, p + 5, q - 1)
  <1> DEFINE n == Len(t)
  <1>1. n \in Nat /\ p + 4 \in Nat /\ p + 4 >= 1 /\ p + 5 \in Nat /\ p + 5 >= 1
        /\ (p + 4) + 1 = p + 5
    BY LenProperties
  <1>2. SkipBlanks(t, p + 4) = p + 4
    <2>1. p + 4 = n + 1 \/ (p + 4 <= n /\ t[p + 4] = Quote)
      BY <1>1
    <2> QED
      BY <1>1, <2>1, BlanksSkipped
  <1>3. CASE p + 4 > n
    <2>1. FieldAt(t, p) = <<>>
      BY <1>2, <1>3, Zenon DEF FieldAt
    <2>2. p + 5 .. n = {}
      BY <1>1, <1>3
    <2> HIDE DEF n
    <2> QED
      BY <2>1, <2>2, Zenon DEF n
  <1>4. CASE p + 4 <= n
    <2> DEFINE end == Find(t, p + 5, {Quote})
    <2>1. ~(p + 4 > n) /\ t[p + 4] = Quote
      BY <1>1, <1>4
    <2>2. FieldAt(t, p) = IF end > n THEN <<>> ELSE SubSeq(t, p + 5, end - 1)
      BY <1>1, <1>2, <2>1, Zenon DEF FieldAt
    <2>3. /\ (\A i \in p + 5 .. n : t[i] # Quote) => end = n + 1
          /\ \A q \in p + 5 .. n : (t[q] = Quote /\ \A i \in p + 5 .. q - 1 : t[i] # Quote)
                 => end = q
      BY <1>1, QuoteFound
    <2> HIDE DEF end, n
    <2>4. n + 1 > n /\ \A q \in p + 5 .. n : ~(q > n)
      BY <1>1
    <2> QED
      BY <2>2, <2>3, <2>4, Zenon DEF n
  <1> QED
    BY <1>1, <1>3, <1>4

\* What stands of a name in front of its first quote.
UpToQuote(w, e) ==
    /\ Len(w) <= Len(e)
    /\ \A i \in 1..Len(w) : w[i] = e[i] /\ w[i] # Quote
    /\ Len(w) = Len(e) \/ e[Len(w) + 1] = Quote

\* What a cut leaves of an item: its name field, and its type from the 20th character on.
LEMMA ItemCut ==
    ASSUME NEW V, NEW u \in Seq(V), NEW e \in Seq(V), NEW kind \in {Folder, File},
           ItemText(u, e, kind), QuotesEscaped(e), NEW n \in 4..Len(u),
           Quote \in V, Colon \in V, NameField \in V, TypeField \in V
    PROVE  LET t == SubSeq(u, 1, n) IN
           /\ t \in Seq(V) /\ Len(t) = n /\ n \in Nat /\ \A i \in 1..n : t[i] = u[i]
           /\ NamedAt(t, NameField, 1) /\ \A i \in 2..n : ~NamedAt(t, NameField, i)
           /\ Positions(t, NameField) = {1}
           /\ n >= Len(e) + 20 => Positions(t, TypeField) = {Len(e) + 14}
  <1> DEFINE t == SubSeq(u, 1, n)
             m == Len(e)
  <1>1. m \in Nat /\ n \in Nat /\ n >= 4 /\ Len(u) \in Nat /\ n <= Len(u) /\ n \in 0..Len(u)
    BY LenProperties
  <1>2. t \in Seq(V) /\ Len(t) = n /\ \A i \in 1..n : t[i] = u[i]
    BY <1>1, PartOfBody
  <1> HIDE DEF t
  <1>3. ASSUME NEW field \in {NameField, TypeField}, NEW i \in 1..n
        PROVE  NamedAt(t, field, i) <=> (i + 3 <= n /\ NamedAt(u, field, i))
    <2>1. CASE i + 3 <= n
      <3>1. i \in 1..n /\ i + 1 \in 1..n /\ i + 2 \in 1..n /\ i + 3 \in 1..n
            /\ i + 3 <= Len(u)
        BY <1>1, <2>1
      <3> QED
        BY <1>2, <2>1, <3>1, Zenon DEF NamedAt
    <2>2. CASE ~(i + 3 <= n)
      BY <1>2, <2>2, Zenon DEF NamedAt
    <2> QED
      BY <2>1, <2>2
  <1>4. ASSUME NEW field \in {NameField, TypeField}, NEW i \in 1..n, NamedAt(t, field, i)
        PROVE  (field = NameField /\ i = 1) \/ (field = TypeField /\ i = m + 14)
    <2>1. i \in 1..Len(u) /\ NamedAt(u, field, i)
      BY <1>1, <1>3, <1>4
    <2> QED
      BY <2>1, ItemNames
  <1>5. /\ 1 \in 1..n /\ NamedAt(u, NameField, 1) /\ 1 + 3 <= n
    <2>1. u[1] = Quote /\ u[1 + 1] = NameField /\ u[1 + 2] = Quote /\ u[1 + 3] = Colon
      BY DEF ItemText
    <2> QED
      BY <1>1, <2>1, NamedCharacters
  <1>6. NamedAt(t, NameField, 1)
    BY <1>3, <1>5
  <1>7. \A i \in 2..n : i \in 1..n /\ i # 1
    BY <1>1
  <1>8. NameField # TypeField
    BY CharactersDiffer, Zenon
  <1>9. \A i \in 2..n : ~NamedAt(t, NameField, i)
    BY <1>4, <1>7, <1>8
  <1>10. Positions(t, NameField) = {1}
    <2>1. Positions(t, NameField) = {i \in 1..n : NamedAt(t, NameField, i)}
      BY <1>2, NamedPositions
    <2>2. \A i \in 1..n : NamedAt(t, NameField, i) <=> i = 1
      BY <1>4, <1>6, <1>8, Zenon
    <2> QED
      BY <1>5, <2>1, <2>2
  <1>11. ASSUME n >= m + 20 PROVE Positions(t, TypeField) = {m + 14}
    <2>1. Positions(t, TypeField) = {i \in 1..n : NamedAt(t, TypeField, i)}
      BY <1>2, NamedPositions
    <2>2. /\ m + 14 \in 1..n /\ (m + 14) + 3 <= n /\ (m + 14) + 3 <= Len(u)
          /\ (m + 14) + 1 = m + 15 /\ (m + 14) + 2 = m + 16 /\ (m + 14) + 3 = m + 17
      <3> HIDE DEF m
      <3> QED
        BY <1>1, <1>11
    <2>3. /\ u[m + 14] = Quote /\ u[m + 15] = TypeField /\ u[m + 16] = Quote
          /\ u[m + 17] = Colon
      BY DEF ItemText
    <2> HIDE DEF m
    <2>4. NamedAt(u, TypeField, m + 14)
      BY <2>2, <2>3, NamedCharacters, Zenon
    <2>5. NamedAt(t, TypeField, m + 14)
      BY <1>3, <2>2, <2>4, Zenon
    <2>6. \A i \in 1..n : NamedAt(t, TypeField, i) <=> i = m + 14
      BY <1>4, <2>5, <1>8, Zenon
    <2> QED
      BY <2>1, <2>2, <2>6
  <1> QED
    BY <1>1, <1>2, <1>6, <1>9, <1>10, <1>11 DEF t

\* The name of the item is taken up to its first quote, if it is all there.
LEMMA ItemName ==
    ASSUME NEW V, NEW u \in Seq(V), NEW e \in Seq(V), NEW kind \in {Folder, File},
           ItemText(u, e, kind), QuotesEscaped(e), NEW n \in 4..Len(u),
           Quote \in V, Colon \in V, NameField \in V, TypeField \in V,
           NEW w \in Seq(V), UpToQuote(w, e)
    PROVE  LET t == SubSeq(u, 1, n)
               name == ExtractJsonField(t, NameField) IN
           /\ name = w \/ name = <<>>
           /\ n >= Len(e) + 20 => name = w
  <1> DEFINE t == SubSeq(u, 1, n)
             m == Len(e)
             l == Len(w)
             name == ExtractJsonField(t, NameField)
  <1>1. /\ t \in Seq(V) /\ Len(t) = n /\ n \in Nat /\ \A i \in 1..n : t[i] = u[i]
        /\ Positions(t, NameField) = {1}
    BY ItemCut
  <1>2. m \in Nat /\ n \in Nat /\ n >= 4 /\ Len(u) \in Nat /\ n <= Len(u) /\ l \in Nat /\ l <= m
    BY LenProperties DEF UpToQuote
  <1>3. name = FieldAt(t, 1)
    <2>1. Min({1}) = 1
      BY LeastOf
    <2>2. Positions(t, NameField) # {}
      BY <1>1
    <2> HIDE DEF t
    <2> QED
      BY <1>1, <2>1, <2>2, FieldIsAt
  <1>4. /\ u[5] = Quote /\ \A i \in 1..l : u[i + 5] = w[i] /\ w[i] # Quote
        /\ u[l + 6] = Quote
    <2>1. u[5] = Quote /\ (\A i \in 1..m : u[i + 5] = e[i]) /\ u[m + 6] = Quote
      BY DEF ItemText
    <2>2. /\ \A i \in 1..l : w[i] = e[i] /\ w[i] # Quote
          /\ l = m \/ e[l + 1] = Quote
      BY DEF UpToQuote
    <2> HIDE DEF l, m
    <2>3. \A i \in 1..l : i \in 1..m
      BY <1>2
    <2>4. CASE l = m
      BY <2>1, <2>2, <2>3, <2>4
    <2>5. CASE l # m
      <3>1. l + 1 \in 1..m /\ (l + 1) + 5 = l + 6
        BY <1>2, <2>5
      <3>2. u[(l + 1) + 5] = Quote
        BY <2>1, <2>2, <2>5, <3>1
      <3> QED
        BY <2>1, <2>2, <2>3, <3>1, <3>2
    <2> QED
      BY <2>4, <2>5
  <1> HIDE DEF t, m, l, name
  <1>5. /\ 1 \in Nat /\ 1 + 3 <= Len(t) /\ (1 + 4 <= Len(t) => t[1 + 4] = Quote)
        /\ 1 + 5 = 6
    BY <1>1, <1>2, <1>4
  <1>6. /\ (\A i \in 6 .. n : t[i] # Quote) => FieldAt(t, 1) = <<>>
        /\ \A q \in 6 .. n : (t[q] = Quote /\ \A i \in 6 .. q - 1 : t[i] # Quote)
               => FieldAt(t, 1) = SubSeq(t, 6, q - 1)
    <2>1. /\ (\A i \in 1 + 5 .. Len(t) : t[i] # Quote) => FieldAt(t, 1) = <<>>
          /\ \A q \in 1 + 5 .. Len(t) : (t[q] = Quote /\ \A i \in 1 + 5 .. q - 1 : t[i] # Quote)
                 => FieldAt(t, 1) = SubSeq(t, 1 + 5, q - 1)
      <3>1. t \in Seq(V)
        BY <1>1
      <3> QED
        BY <1>5, <3>1, StringExtracted
    <2> QED
      BY <1>1, <1>5, <2>1, Zenon
  <1>7. \A i \in 6 .. l + 5 : i \in 1..n => t[i] # Quote
    <2> TAKE i \in 6 .. l + 5
    <2>1. i - 5 \in 1..l /\ (i - 5) + 5 = i
      BY <1>2
    <2> QED
      BY <1>1, <1>4, <2>1
  <1>8. CASE l + 6 > n
    <2>1. \A i \in 6..n : i \in 6 .. l + 5 /\ i \in 1..n
      BY <1>2, <1>8
    <2>2. FieldAt(t, 1) = <<>>
      BY <1>6, <1>7, <2>1
    <2>3. ~(n >= m + 20)
      BY <1>2, <1>8
    <2> QED
      BY <1>3, <2>2, <2>3 DEF name, t, m
  <1>9. CASE l + 6 <= n
    <2>1. l + 6 \in 6..n /\ l + 6 \in 1..n /\ (l + 6) - 1 = l + 5
          /\ \A i \in 6 .. l + 5 : i \in 1..n
      BY <1>2, <1>9
    <2>2. t[l + 6] = Quote /\ \A i \in 6 .. (l + 6) - 1 : t[i] # Quote
      BY <1>1, <1>4, <1>7, <2>1
    <2>3. FieldAt(t, 1) = SubSeq(t, 6, (l + 6) - 1)
      BY <1>6, <2>1, <2>2, Zenon
    <2>4. SubSeq(t, 6, l + 5) = w
      <3>1. SubSeq(t, 6, l + 5) = [k \in 1 .. (l + 5) - 6 + 1 |-> t[6 + k - 1]]
        <4>1. l + 5 \in Nat /\ 6 \in Nat
          BY <1>2
        <4> QED
          BY <1>1, <4>1, SubSeqIs
      <3>2. (l + 5) - 6 + 1 = l
        BY <1>2
      <3>3. \A k \in 1..l : t[6 + k - 1] = w[k]
        <4> TAKE k \in 1..l
        <4>1. 6 + k - 1 = k + 5 /\ k + 5 \in 1..n
          BY <1>2, <1>9
        <4> QED
          BY <1>1, <1>4, <4>1
      <3>4. [k \in 1..l |-> t[6 + k - 1]] = [k \in 1..l |-> w[k]]
        BY <3>3, Zenon
      <3>5. w = [k \in 1..l |-> w[k]]
        BY DEF l
      <3> QED
        BY <3>1, <3>2, <3>4, <3>5, Zenon
    <2> QED
      BY <1>3, <2>1, <2>3, <2>4 DEF name, t
  <1> QED
    BY <1>2, <1>8, <1>9

Shape(name, directory) == [name |-> name, is_directory |-> directory]

\* The entry of an item, cut behind its fourth character or later.
LEMMA ItemEntry ==
    ASSUME NEW V, NEW u \in Seq(V), NEW e \in Seq(V), NEW kind \in {Folder, File},
           ItemText(u, e, kind), QuotesEscaped(e), NEW n \in 4..Len(u),
           Quote \in V, Colon \in V, NameField \in V, TypeField \in V,
           NEW w \in Seq(V), UpToQuote(w, e), w # <<>>
    PROVE  LET t == SubSeq(u, 1, n) IN
           /\ DirectoryEntries(t) = <<>> \/
                  \E d \in BOOLEAN : DirectoryEntries(t) = <<Shape(w, d)>>
           /\ n >= Len(e) + 20 => DirectoryEntries(t) = <<Shape(w, kind = Folder)>>
  <1> DEFINE t == SubSeq(u, 1, n)
             m == Len(e)
             name == ExtractJsonField(t, NameField)
             type == ExtractJsonField(t, TypeField)
             entries == DirectoryEntries(t)
  <1>1. /\ t \in Seq(V) /\ Len(t) = n /\ n \in Nat /\ \A i \in 1..n : t[i] = u[i]
        /\ NamedAt(t, NameField, 1) /\ \A i \in 2..n : ~NamedAt(t, NameField, i)
        /\ n >= m + 20 => Positions(t, TypeField) = {m + 14}
    BY ItemCut
  <1>2. (name = w \/ name = <<>>) /\ (n >= m + 20 => name = w)
    BY ItemName
  <1>3. m \in Nat /\ n >= 4 /\ Len(u) \in Nat /\ n <= Len(u)
    BY <1>1, LenProperties
  <1>4. /\ u[m + 18] = Quote /\ u[m + 19] = kind /\ u[m + 20] = Quote /\ kind # Quote
    BY CharactersDiffer DEF ItemText
  <1>5. entries = EntryOf(t)
    <2>1. \A i \in 2..Len(t) : ~NamedAt(t, NameField, i)
      BY <1>1
    <2> HIDE DEF t
    <2> QED
      BY <1>1, <2>1, EntriesSingle
  <1>6. entries = IF name = <<>> THEN <<>> ELSE <<Shape(name, type = <<Folder>>)>>
    BY <1>5, Zenon DEF EntryOf, Shape, TypeField, Folder
  <1>7. ASSUME n >= m + 20 PROVE type = <<kind>>
    <2> DEFINE p == m + 14
    <2> HIDE DEF t, m
    <2>1. Positions(t, TypeField) = {p} /\ p \in Nat
      BY <1>1, <1>3, <1>7
    <2>2. /\ p + 3 <= n /\ p + 4 <= n /\ p + 6 \in p + 5 .. n /\ p + 4 = m + 18
          /\ p + 5 = m + 19 /\ p + 6 = m + 20 /\ p + 4 \in 1..n /\ p + 5 \in 1..n
          /\ p + 6 \in 1..n /\ (p + 6) - 1 = p + 5 /\ p + 5 .. (p + 6) - 1 = {p + 5}
          /\ p + 5 \in Nat
      BY <1>3, <1>7
    <2> HIDE DEF p
    <2>3. t[p + 4] = Quote /\ t[p + 5] = kind /\ t[p + 6] = Quote
      BY <1>1, <1>4, <2>2
    <2>4. type = FieldAt(t, p)
      <3>1. Min({p}) = p
        BY <2>1, LeastOf
      <3>2. Positions(t, TypeField) # {}
        BY <2>1
      <3> QED
        BY <2>1, <3>1, <3>2, FieldIsAt
    <2>5. FieldAt(t, p) = SubSeq(t, p + 5, (p + 6) - 1)
      <3>1. p + 3 <= Len(t) /\ p + 6 \in p + 5 .. Len(t) /\ t \in Seq(V)
        BY <1>1, <2>2
      <3>2. \A i \in p + 5 .. (p + 6) - 1 : t[i] # Quote
        BY <1>4, <2>2, <2>3
      <3> QED
        BY <2>1, <2>3, <3>1, <3>2, StringExtracted
    <2>6. SubSeq(t, p + 5, p + 5) = <<t[p + 5]>>
      <3> DEFINE c == t[p + 5]
      <3>1. SubSeq(t, p + 5, p + 5) =
                [k \in 1 .. (p + 5) - (p + 5) + 1 |-> t[(p + 5) + k - 1]]
        <4>1. t \in Seq(V) /\ p + 5 \in Nat
          BY <1>1, <2>2
        <4> QED
          BY <4>1, SubSeqIs
      <3>2. (p + 5) - (p + 5) + 1 = 1 /\ \A k \in 1..1 : t[(p + 5) + k - 1] = c
        BY <2>2
      <3>3. SubSeq(t, p + 5, p + 5) = [k \in 1..1 |-> c]
        BY <3>1, <3>2, Zenon
      <3> HIDE DEF c
      <3>4. [k \in 1..1 |-> c] = <<c>>
        OBVIOUS
      <3> QED
        BY <3>3, <3>4 DEF c
    <2> QED
      BY <2>2, <2>3, <2>4, <2>5, <2>6
  <1> HIDE DEF t, m, name, type, entries
  <1>8. ASSUME n >= m + 20 PROVE entries = <<Shape(w, kind = Folder)>>
    <2>1. name = w /\ ~(name = <<>>)
      BY <1>2, <1>8
    <2>2. type = <<Folder>> <=> kind = Folder
      BY <1>7, <1>8
    <2>3. Shape(name, type = <<Folder>>) = Shape(w, kind = Folder)
      BY <2>1, <2>2, Zenon
    <2> QED
      BY <1>6, <2>1, <2>3, Zenon
  <1>9. entries = <<>> \/ \E d \in BOOLEAN : entries = <<Shape(w, d)>>
    <2>1. CASE name = <<>>
      BY <1>6, <2>1, Zenon
    <2>2. CASE name # <<>>
      <3>1. name = w
        BY <1>2, <2>2
      <3> QED
        BY <1>6, <2>2, <3>1, Zenon
    <2> QED
      BY <2>1, <2>2
  <1> QED
    BY <1>8, <1>9 DEF entries, t, m

-------------------------------------------------------------------------------
(* ListingIsTheFolder: names with quotes in them. *)

\* A function on the first numbers is a sequence.
LEMMA FunctionSeq ==
    ASSUME NEW X, NEW n \in Nat, NEW h \in [1..n -> X]
    PROVE  h \in Seq(X) /\ Len(h) = n
  OBVIOUS

\* One piece more.
LEMMA FlattenNext ==
    ASSUME NEW W, NEW n \in Nat, NEW h \in Seq(Seq(W)), NEW g \in Seq(Seq(W)),
           Len(h) = n, Len(g) = n + 1, \A i \in 1..n : g[i] = h[i]
    PROVE  /\ FlattenSeq(h) \in Seq(W) /\ FlattenSeq(g) \in Seq(W)
           /\ FlattenSeq(g) = FlattenSeq(h) \o g[n + 1]
  <1> DEFINE X == Seq(W)
             last == g[n + 1]
  <1>1. h \in Seq(X) /\ Len(h) = n /\ g \in Seq(X) /\ Len(g) = n + 1
    OBVIOUS
  <1>2. last \in X
    BY <1>1, ElementOfSeq
  <1>3. \A i \in 1..n : g[i] = h[i]
    OBVIOUS
  <1> HIDE DEF X, last
  <1>5. g = Append(h, last)
    <2> DEFINE k == Append(h, last)
    <2>1. /\ k \in Seq(X) /\ Len(k) = n + 1 /\ \A i \in 1..n : k[i] = h[i]
          /\ k[n + 1] = last
      BY <1>1, <1>2, AppendProperties
    <2>2. g \in Seq(X) /\ Len(g) = n + 1
      BY <1>1
    <2>3. \A i \in 1 .. n + 1 : g[i] = k[i]
      <3> TAKE i \in 1 .. n + 1
      <3>1. i \in 1..n \/ i = n + 1
        OBVIOUS
      <3> QED
        BY <1>3, <2>1, <3>1, Zenon DEF last
    <2> HIDE DEF k
    <2>4. g = k
      BY <2>1, <2>2, <2>3, SeqEqual
    <2> QED
      BY <2>4 DEF k
  <1>6. /\ FlattenSeq(h) \in Seq(W) /\ FlattenSeq(Append(h, last)) = FlattenSeq(h) \o last
    <2>1. h \in Seq(Seq(W)) /\ last \in Seq(W)
      BY <1>1, <1>2 DEF X
    <2> QED
      BY <2>1, FlattenProperties
  <1>7. FlattenSeq(h) \o last \in Seq(W)
    <2>1. last \in Seq(W)
      BY <1>2 DEF X
    <2> QED
      BY <1>6, <2>1, ConcatProperties
  <1> QED
    BY <1>5, <1>6, <1>7, Zenon DEF last

\* Each element of a sequence is replaced by its own text.
Spread(F, s) == FlattenSeq([i \in DOMAIN s |-> F[s[i]]])

\* Nothing is replaced by nothing.
LEMMA SpreadNothing == \A F : Spread(F, <<>>) = <<>>
  <1>1. \A F : Spread(F, <<>>) = FlattenSeq(<<>>)
    BY DEF Spread
  <1>2. <<>> \in Seq(Seq({})) /\ <<>> \in Seq({})
    BY EmptySeq
  <1>3. FlattenSeq(<<>>) = <<>>
    BY <1>2, FlattenProperties
  <1> QED
    BY <1>1, <1>3

\* One element more.
LEMMA SpreadNext ==
    ASSUME NEW S, NEW W, NEW s \in Seq(S), NEW c \in S, NEW F, \A x \in S : F[x] \in Seq(W)
    PROVE  /\ Spread(F, s) \in Seq(W)
           /\ Spread(F, Append(s, c)) = Spread(F, s) \o F[c]
  <1> DEFINE n == Len(s)
             all == Append(s, c)
             h == [i \in 1..n |-> F[s[i]]]
             g == [i \in 1 .. n + 1 |-> F[all[i]]]
  <1>1. /\ n \in Nat /\ DOMAIN s = 1..n
        /\ all \in Seq(S) /\ Len(all) = n + 1 /\ DOMAIN all = 1 .. n + 1
        /\ \A i \in 1..n : all[i] = s[i]
        /\ all[n + 1] = c
    <2>1. /\ n \in Nat /\ DOMAIN s = 1..n
          /\ all \in Seq(S) /\ Len(all) = n + 1
          /\ \A i \in 1..n : all[i] = s[i]
          /\ all[n + 1] = c
      BY AppendProperties, LenProperties
    <2> HIDE DEF all
    <2>2. DOMAIN all = 1..Len(all)
      BY <2>1, LenProperties
    <2> QED
      BY <2>1, <2>2
  <1> HIDE DEF n, all
  <1>3. /\ \A i \in 1 .. n + 1 : g[i] \in Seq(W)
        /\ \A i \in 1..n : g[i] = h[i]
        /\ g[n + 1] = F[c]
    <2>1. \A i \in 1 .. n + 1 : all[i] \in S
      BY <1>1, ElementOfSeq
    <2>2. \A i \in 1 .. n + 1 : F[all[i]] \in Seq(W)
      BY <2>1
    <2>3. \A i \in 1..n : i \in 1 .. n + 1
      BY <1>1
    <2>4. n + 1 \in 1 .. n + 1
      BY <1>1
    <2> QED
      BY <1>1, <2>2, <2>3, <2>4, Zenon
  <1>2. h \in Seq(Seq(W)) /\ Len(h) = n /\ g \in Seq(Seq(W)) /\ Len(g) = n + 1
    <2> DEFINE X == Seq(W)
    <2>1. (\A i \in 1 .. n + 1 : g[i] \in X) /\ (\A i \in 1..n : h[i] \in X)
      BY <1>1, <1>3
    <2>5. h \in [1..n -> X] /\ g \in [1 .. n + 1 -> X]
      BY <2>1
    <2> HIDE DEF h, g, X
    <2>2. n \in Nat /\ n + 1 \in Nat
      BY <1>1
    <2>3. h \in Seq(X) /\ Len(h) = n
      BY <2>2, <2>5, FunctionSeq
    <2>4. g \in Seq(X) /\ Len(g) = n + 1
      BY <2>2, <2>5, FunctionSeq
    <2> QED
      BY <2>3, <2>4 DEF X
  <1>4. Spread(F, s) = FlattenSeq(h) /\ Spread(F, all) = FlattenSeq(g)
    BY <1>1, Zenon DEF Spread
  <1> HIDE DEF h, g
  <1>5. FlattenSeq(h) \in Seq(W) /\ FlattenSeq(g) = FlattenSeq(h) \o g[n + 1]
    <2>1. n \in Nat /\ \A i \in 1..n : g[i] = h[i]
      BY <1>1, <1>3
    <2> QED
      BY <1>2, <2>1, FlattenNext
  <1> QED
    BY <1>3, <1>4, <1>5 DEF all

\* The name as the listing shows it.
ShownName(name) ==
    LET quote == SelectInSeq(name, LAMBDA c : c = Quote) IN
    IF quote = 0 THEN name ELSE Append(SubSeq(name, 1, quote - 1), Backslash)

Unquoted(s, k) == \A i \in 1..k : s[i] # Quote

\* The first quote of a name, where it is escaped.
QuoteAt(s, e, p) ==
    /\ s[p] = Quote /\ Unquoted(s, p - 1)
    /\ p + 1 <= Len(e) /\ \A i \in 1 .. p - 1 : e[i] = s[i]
    /\ e[p] = Backslash /\ e[p + 1] = Quote

NameEscaped(s, e) ==
    /\ QuotesEscaped(e)
    /\ (Unquoted(s, Len(s)) /\ e = s) \/ \E p \in 1..Len(s) : QuoteAt(s, e, p)

\* One character more of a name.
LEMMA EscapedNext ==
    ASSUME NEW V, NEW s \in Seq(V), NEW e \in Seq(V), NEW c \in V, NEW a \in Seq(V),
           Backslash \in V, NameEscaped(s, e),
           c = Quote => a = <<Backslash, Quote>>, c # Quote => a = <<c>>
    PROVE  e \o a \in Seq(V) /\ NameEscaped(Append(s, c), e \o a)
  <1> DEFINE r == e \o a
             z == Append(s, c)
             m == Len(e)
             n == Len(s)
             k == Len(a)
  <1>1. /\ r \in Seq(V) /\ Len(r) = m + k /\ m \in Nat /\ k \in Nat
        /\ \A i \in 1..m : r[i] = e[i]
        /\ \A i \in 1..k : r[i + m] = a[i]
    BY PartsOfConcat
  <1>2. /\ z \in Seq(V) /\ Len(z) = n + 1 /\ n \in Nat
        /\ \A i \in 1..n : z[i] = s[i]
        /\ z[n + 1] = c
    BY AppendProperties, LenProperties
  <1>3. Quote # Backslash
    BY CharactersDiffer, Zenon
  <1>4. c = Quote => k = 2 /\ a[1] = Backslash /\ a[2] = Quote
    OBVIOUS
  <1>5. c # Quote => k = 1 /\ a[1] = c
    OBVIOUS
  <1>6. /\ \A i \in 1..m : e[i] = Quote => i > 1 /\ e[i - 1] = Backslash
        /\ (Unquoted(s, n) /\ e = s) \/ \E p \in 1..n : QuoteAt(s, e, p)
    BY Zenon DEF NameEscaped, QuotesEscaped
  <1> HIDE DEF r, z, m, n, k
  <1>7. \A i \in 1 .. m + k : r[i] = Quote => i > 1 /\ r[i - 1] = Backslash
    <2> SUFFICES ASSUME NEW i \in 1 .. m + k, r[i] = Quote
                 PROVE  i > 1 /\ r[i - 1] = Backslash
      OBVIOUS
    <2>1. CASE i \in 1..m
      <3>1. i > 1 /\ e[i - 1] = Backslash
        BY <1>1, <1>6, <2>1
      <3>2. i - 1 \in 1..m
        BY <1>1, <2>1, <3>1
      <3> QED
        BY <1>1, <3>1, <3>2
    <2>2. CASE i \notin 1..m
      <3>1. i - m \in 1..k /\ (i - m) + m = i
        BY <1>1, <2>2
      <3>2. a[i - m] = Quote
        BY <1>1, <3>1
      <3>3. c = Quote
        <4>1. c # Quote => i - m = 1
          BY <1>5, <3>1
        <4> QED
          BY <1>5, <3>2, <4>1
      <3>4. i - m = 2
        <4>1. i - m = 1 \/ i - m = 2
          BY <1>4, <3>1, <3>3
        <4> QED
          BY <1>3, <1>4, <3>2, <3>3, <4>1
      <3>5. i - 1 = 1 + m /\ 1 \in 1..k /\ i > 1
        BY <1>1, <1>4, <3>1, <3>3, <3>4
      <3> QED
        BY <1>1, <1>4, <3>3, <3>5
    <2> QED
      BY <2>1, <2>2
  <1>8. QuotesEscaped(r)
    BY <1>1, <1>7 DEF QuotesEscaped
  <1>9. ASSUME NEW p \in 1..n, QuoteAt(s, e, p)
        PROVE  p \in 1 .. n + 1 /\ QuoteAt(z, r, p)
    <2>1. /\ s[p] = Quote /\ \A i \in 1 .. p - 1 : s[i] # Quote
          /\ p + 1 <= m /\ \A i \in 1 .. p - 1 : e[i] = s[i]
          /\ e[p] = Backslash /\ e[p + 1] = Quote
      BY <1>9 DEF QuoteAt, Unquoted, m
    <2>2. /\ \A i \in 1 .. p - 1 : i \in 1..n /\ i \in 1..m
          /\ p \in 1..m /\ p + 1 \in 1..m /\ p + 1 <= m + k /\ p \in 1 .. n + 1
      BY <1>1, <1>2, <2>1
    <2>3. \A i \in 1 .. p - 1 : z[i] # Quote /\ r[i] = z[i]
      BY <1>1, <1>2, <2>1, <2>2, Zenon
    <2>4. z[p] = Quote /\ r[p] = Backslash /\ r[p + 1] = Quote
      BY <1>1, <1>2, <2>1, <2>2, Zenon
    <2> QED
      BY <1>1, <2>2, <2>3, <2>4 DEF QuoteAt, Unquoted
  <1>10. ASSUME Unquoted(s, n), e = s, c = Quote
         PROVE  n + 1 \in 1 .. n + 1 /\ QuoteAt(z, r, n + 1)
    <2>1. m = n
      BY <1>10 DEF m, n
    <2>2. /\ (n + 1) - 1 = n /\ n + 1 = 1 + m /\ (n + 1) + 1 = 2 + m
          /\ (n + 1) + 1 <= m + k /\ 1 \in 1..k /\ 2 \in 1..k /\ n + 1 \in 1 .. n + 1
      BY <1>1, <1>2, <1>4, <1>10, <2>1
    <2>3. r[n + 1] = Backslash /\ r[(n + 1) + 1] = Quote
      BY <1>1, <1>4, <1>10, <2>2
    <2>4. \A i \in 1..n : z[i] # Quote /\ r[i] = z[i]
      BY <1>1, <1>2, <1>10, <2>1, Zenon DEF Unquoted
    <2>5. z[n + 1] = Quote
      BY <1>2, <1>10
    <2> QED
      BY <1>1, <2>2, <2>3, <2>4, <2>5, Zenon DEF QuoteAt, Unquoted
  <1>11. ASSUME Unquoted(s, n), e = s, c # Quote
         PROVE  Unquoted(z, n + 1) /\ r = z
    <2>1. r = z
      <3>1. s \o <<c>> = Append(s, c)
        BY OneMore
      <3>2. a = <<c>>
        BY <1>11
      <3> QED
        BY <1>11, <3>1, <3>2 DEF r, z
    <2>2. \A i \in 1 .. n + 1 : z[i] # Quote
      <3> TAKE i \in 1 .. n + 1
      <3>1. i \in 1..n \/ i = n + 1
        BY <1>2
      <3> QED
        BY <1>2, <1>11, <3>1, Zenon DEF Unquoted
    <2> QED
      BY <2>1, <2>2 DEF Unquoted
  <1>12. (Unquoted(z, Len(z)) /\ r = z) \/ \E p \in 1..Len(z) : QuoteAt(z, r, p)
    <2>1. CASE Unquoted(s, n) /\ e = s /\ c = Quote
      BY <1>2, <1>10, <2>1, Zenon
    <2>2. CASE Unquoted(s, n) /\ e = s /\ c # Quote
      BY <1>2, <1>11, <2>2, Zenon
    <2>3. CASE \E p \in 1..n : QuoteAt(s, e, p)
      BY <1>2, <1>9, <2>3, Zenon
    <2> QED
      BY <1>6, <2>1, <2>2, <2>3, Zenon
  <1> QED
    BY <1>1, <1>8, <1>12, Zenon DEF NameEscaped, r, z

\* How each character of a name is written.
EscapeName(V) == [c \in V |-> IF c = Quote THEN <<Backslash, Quote>> ELSE <<c>>]

\* A name is escaped character by character.
LEMMA EscapedIsSpread ==
    ASSUME NEW V, NEW s \in Seq(V)
    PROVE  Escaped(s) = Spread(EscapeName(V), s)
  <1>1. \A i \in DOMAIN s : s[i] \in V
    BY LenProperties, ElementOfSeq
  <1>2. \A i \in DOMAIN s : EscapeName(V)[s[i]] =
            IF s[i] = Quote THEN <<Backslash, Quote>> ELSE <<s[i]>>
    BY <1>1, Zenon DEF EscapeName
  <1>3. [i \in DOMAIN s |-> EscapeName(V)[s[i]]] =
            [i \in DOMAIN s |-> IF s[i] = Quote THEN <<Backslash, Quote>> ELSE <<s[i]>>]
    BY <1>2, Zenon
  <1> QED
    BY <1>3, Zenon DEF Escaped, Spread

EscapesNames(F, V) ==
    /\ \A c \in V : F[c] \in Seq(V)
    /\ \A c \in V : c = Quote => F[c] = <<Backslash, Quote>>
    /\ \A c \in V : c # Quote => F[c] = <<c>>

\* Every prefix of a name is escaped: induction over its length.
LEMMA SpreadNamesEscaped ==
    ASSUME NEW V, NEW name \in Seq(V), Backslash \in V, NEW F, EscapesNames(F, V)
    PROVE  Spread(F, name) \in Seq(V) /\ NameEscaped(name, Spread(F, name))
  <1> DEFINE T == {s \in Seq(V) : Spread(F, s) \in Seq(V) /\ NameEscaped(s, Spread(F, s))}
  <1>1. \A s \in Seq(V) : \A c \in V : Spread(F, Append(s, c)) = Spread(F, s) \o F[c]
    <2> TAKE s \in Seq(V)
    <2> TAKE c \in V
    <2>1. \A x \in V : F[x] \in Seq(V)
      BY DEF EscapesNames
    <2> QED
      BY <2>1, SpreadNext, SMTT(60)
  <1>2. <<>> \in T
    <2>1. <<>> \in Seq(V) /\ Len(<<>>) = 0
      BY EmptySeq
    <2>2. Spread(F, <<>>) = <<>>
      BY <2>1, SpreadNothing
    <2>3. NameEscaped(<<>>, <<>>)
      <3>1. QuotesEscaped(<<>>) /\ Unquoted(<<>>, Len(<<>>))
        BY <2>1 DEF QuotesEscaped, Unquoted
      <3> QED
        BY <3>1, Zenon DEF NameEscaped
    <2> QED
      BY <2>1, <2>2, <2>3
  <1>3. ASSUME NEW s \in T, NEW c \in V PROVE Append(s, c) \in T
    <2>1. s \in Seq(V) /\ Spread(F, s) \in Seq(V) /\ NameEscaped(s, Spread(F, s))
      BY <1>3
    <2>2. Spread(F, Append(s, c)) = Spread(F, s) \o F[c]
      BY <1>1, <2>1, Zenon
    <2> DEFINE e == Spread(F, s)
               a == F[c]
    <2>3. a \in Seq(V) /\ (c = Quote => a = <<Backslash, Quote>>) /\ (c # Quote => a = <<c>>)
      BY DEF EscapesNames
    <2>4. e \in Seq(V) /\ NameEscaped(s, e)
      BY <2>1
    <2> HIDE DEF e, a
    <2>5. e \o a \in Seq(V) /\ NameEscaped(Append(s, c), e \o a)
      BY <2>1, <2>3, <2>4, EscapedNext
    <2>6. Append(s, c) \in Seq(V)
      BY <2>1, AppendProperties
    <2> QED
      BY <2>2, <2>5, <2>6 DEF e, a
  <1>4. name \in T
    <2>1. T \in SUBSET Seq(V)
      OBVIOUS
    <2> HIDE DEF T
    <2>2. T = Seq(V)
      BY <1>2, <1>3, <2>1, SeqInduction
    <2> QED
      BY <2>2
  <1> QED
    BY <1>4

\* Every name is escaped.
LEMMA NamesEscaped ==
    ASSUME NEW V, NEW name \in Seq(V), Quote \in V, Backslash \in V
    PROVE  Escaped(name) \in Seq(V) /\ NameEscaped(name, Escaped(name))
  <1> DEFINE F == EscapeName(V)
  <1>1. EscapesNames(F, V)
    BY DEF EscapeName, EscapesNames
  <1> HIDE DEF F
  <1>2. Spread(F, name) \in Seq(V) /\ NameEscaped(name, Spread(F, name))
    BY <1>1, SpreadNamesEscaped
  <1> QED
    BY <1>2, EscapedIsSpread DEF F

\* A name is shown up to its first quote, and that as a backslash.
LEMMA ShownNameIs ==
    ASSUME NEW V, NEW s \in Seq(V)
    PROVE  /\ Unquoted(s, Len(s)) => ShownName(s) = s
           /\ \A p \in 1..Len(s) : (s[p] = Quote /\ Unquoted(s, p - 1)) =>
                  ShownName(s) = Append(SubSeq(s, 1, p - 1), Backslash)
  <1> DEFINE I == {i \in 1..Len(s) : s[i] = Quote}
             select == SelectInSeq(s, LAMBDA c : c = Quote)
  <1>1. Len(s) \in Nat
    BY LenProperties
  <1>2. select = IF I # {} THEN Min(I) ELSE 0
    BY DEF SelectInSeq, Min
  <1>3. ShownName(s) = IF select = 0 THEN s
                       ELSE Append(SubSeq(s, 1, select - 1), Backslash)
    BY Zenon DEF ShownName
  <1>4. Unquoted(s, Len(s)) => I = {}
    BY DEF Unquoted
  <1>5. ASSUME NEW p \in 1..Len(s), s[p] = Quote, Unquoted(s, p - 1)
        PROVE  p \in I /\ p # 0 /\ I \in SUBSET Nat /\ \A i \in I : p <= i
    <2>1. \A i \in 1..Len(s) : i < p => i \in 1 .. p - 1
      BY <1>1
    <2>2. \A i \in I : ~(i < p)
      BY <1>5, <2>1 DEF Unquoted
    <2> QED
      BY <1>1, <1>5, <2>2
  <1> HIDE DEF I, select
  <1>6. ASSUME NEW p \in 1..Len(s), s[p] = Quote, Unquoted(s, p - 1)
        PROVE  select = p /\ p # 0
    <2>1. I # {} /\ Min(I) = p
      BY <1>5, <1>6, LeastOf
    <2> QED
      BY <1>2, <1>5, <1>6, <2>1, Zenon
  <1> QED
    BY <1>2, <1>3, <1>4, <1>6, Zenon

\* The shown name is what stands of the escaped one in front of its first quote.
LEMMA NameShown ==
    ASSUME NEW V, NEW name \in Seq(V), Quote \in V, Backslash \in V, name # <<>>
    PROVE  /\ Escaped(name) \in Seq(V) /\ QuotesEscaped(Escaped(name))
           /\ ShownName(name) \in Seq(V) /\ ShownName(name) # <<>>
           /\ UpToQuote(ShownName(name), Escaped(name))
  <1> DEFINE e == Escaped(name)
             n == Len(name)
             w == ShownName(name)
  <1>1. e \in Seq(V) /\ NameEscaped(name, e)
    BY NamesEscaped
  <1> HIDE DEF e
  <1>2. /\ QuotesEscaped(e)
        /\ (Unquoted(name, n) /\ e = name) \/ \E p \in 1..n : QuoteAt(name, e, p)
    BY <1>1, Zenon DEF NameEscaped
  <1>3. CASE Unquoted(name, n) /\ e = name
    <2>1. w = name
      BY <1>3, ShownNameIs
    <2>2. UpToQuote(name, name)
      <3>1. Len(name) <= Len(name)
        BY LenProperties
      <3> QED
        BY <1>3, <3>1, Zenon DEF UpToQuote, Unquoted
    <2> HIDE DEF w
    <2> QED
      BY <1>1, <1>2, <1>3, <2>1, <2>2 DEF w, e
  <1>4. ASSUME NEW p \in 1..n, QuoteAt(name, e, p)
        PROVE  w \in Seq(V) /\ w # <<>> /\ UpToQuote(w, e)
    <2>1. /\ name[p] = Quote /\ Unquoted(name, p - 1)
          /\ p + 1 <= Len(e) /\ \A i \in 1 .. p - 1 : e[i] = name[i]
          /\ e[p] = Backslash /\ e[p + 1] = Quote
      BY <1>4, Zenon DEF QuoteAt
    <2>2. w = Append(SubSeq(name, 1, p - 1), Backslash)
      BY <2>1, ShownNameIs
    <2> DEFINE q == p - 1
               b == SubSeq(name, 1, q)
    <2>3. q \in 0..n /\ q \in Nat /\ q + 1 = p /\ n \in Nat
      BY LenProperties
    <2>4. b \in Seq(V) /\ Len(b) = q /\ \A i \in 1..q : b[i] = name[i]
      BY <2>3, PartOfBody
    <2>5. w = Append(b, Backslash)
      BY <2>2
    <2> HIDE DEF q, b, w
    <2>6. /\ w \in Seq(V) /\ Len(w) = q + 1 /\ \A i \in 1..q : w[i] = b[i]
          /\ w[q + 1] = Backslash
      BY <2>4, <2>5, AppendProperties
    <2>7. w # <<>>
      <3>1. Len(w) # 0
        BY <2>3, <2>6
      <3> QED
        BY <2>6, <3>1, EmptySeq
    <2>8. \A i \in 1..q : e[i] = name[i] /\ name[i] # Quote
      BY <2>1 DEF q, Unquoted
    <2>9. \A i \in 1 .. q + 1 : w[i] = e[i] /\ w[i] # Quote
      <3> TAKE i \in 1 .. q + 1
      <3>1. i \in 1..q \/ i = q + 1
        BY <2>3
      <3>2. Backslash # Quote
        BY CharactersDiffer, Zenon
      <3> QED
        BY <2>1, <2>3, <2>4, <2>6, <2>8, <3>1, <3>2, Zenon
    <2>10. Len(w) <= Len(e) /\ Len(w) + 1 = p + 1
      <3>1. Len(e) \in Nat
        BY <1>1, LenProperties
      <3> QED
        BY <2>1, <2>3, <2>6, <3>1
    <2>11. e[Len(w) + 1] = Quote
      BY <2>1, <2>10
    <2> QED
      BY <2>6, <2>7, <2>9, <2>10, <2>11, Zenon DEF UpToQuote
  <1> QED
    BY <1>1, <1>2, <1>3, <1>4 DEF e

-------------------------------------------------------------------------------
(* ListingIsTheFolder: the text of an item. *)

ListBegin == "["

Chained(a, f, c, h, l, g) ==
    (((((a \o f) \o c) \o h) \o c) \o l) \o g =
        a \o (f \o (c \o (h \o (c \o (l \o g)))))

\* Concatenation is associative, for seven texts.
LEMMA Rightmost ==
    ASSUME NEW W, NEW a \in Seq(W), NEW f \in Seq(W), NEW c \in Seq(W), NEW h \in Seq(W),
           NEW l \in Seq(W), NEW g \in Seq(W)
    PROVE  Chained(a, f, c, h, l, g)
  <1>0. \A x, y, v \in Seq(W) : (x \o y) \o v = x \o (y \o v)
    BY Reassociated, SMTT(30)
  <1> DEFINE x2 == a \o f
             x3 == x2 \o c
             x4 == x3 \o h
             x5 == x4 \o c
             r5 == l \o g
             r4 == c \o r5
             r3 == h \o r4
             r2 == c \o r3
  <1>1. x2 \in Seq(W)
    BY ConcatProperties
  <1>2. r5 \in Seq(W)
    BY ConcatProperties
  <1> HIDE DEF x2, r5
  <1>3. x3 \in Seq(W)
    BY <1>1, ConcatProperties
  <1>4. r4 \in Seq(W)
    BY <1>2, ConcatProperties
  <1> HIDE DEF x3, r4
  <1>5. x4 \in Seq(W)
    BY <1>3, ConcatProperties
  <1>6. r3 \in Seq(W)
    BY <1>4, ConcatProperties
  <1> HIDE DEF x4, r3
  <1>7. x5 \in Seq(W)
    BY <1>5, ConcatProperties
  <1>8. r2 \in Seq(W)
    BY <1>6, ConcatProperties
  <1> HIDE DEF x5, r2
  <1>9. (x5 \o l) \o g = x5 \o r5
    BY <1>7, <1>0, Zenon DEF r5
  <1>10. x5 \o r5 = x4 \o r4
    BY <1>2, <1>5, <1>0, Zenon DEF x5, r4
  <1>11. x4 \o r4 = x3 \o r3
    <2>1. (x3 \o h) \o r4 = x3 \o (h \o r4)
      BY <1>0, <1>3, <1>4, Zenon
    <2> QED
      BY <2>1, Zenon DEF x4, r3
  <1>12. x3 \o r3 = x2 \o r2
    <2>1. (x2 \o c) \o r3 = x2 \o (c \o r3)
      BY <1>0, <1>1, <1>6, Zenon
    <2> QED
      BY <2>1, Zenon DEF x3, r2
  <1>13. x2 \o r2 = a \o (f \o r2)
    <2>1. (a \o f) \o r2 = a \o (f \o r2)
      <3>1. \A y, v \in Seq(W) : (a \o y) \o v = a \o (y \o v)
        BY <1>0, Zenon
      <3>2. \A v \in Seq(W) : (a \o f) \o v = a \o (f \o v)
        BY <3>1, Zenon
      <3> QED
        BY <1>8, <3>2, Zenon
    <2> QED
      BY <2>1, Zenon DEF x2
  <1> QED
    BY <1>9, <1>10, <1>11, <1>12, <1>13, Zenon DEF Chained, x5, x4, x3, x2, r2, r3, r4, r5

\* An item from its name on; e is the name with the quotes escaped.
NameText(q, a, b, e) == <<q, a, q, b>> \o (<<q>> \o e \o <<q>>)

RestText(q, b, c, d, f, g, k, z) ==
    <<c>> \o ((<<q, d, q, b>> \o <<z>>) \o
        (<<c>> \o ((<<q, f, q, b>> \o (<<q>> \o <<k>> \o <<q>>)) \o <<g>>)))

ItemBody(e, kind) ==
    NameText(Quote, NameField, Colon, e) \o
    RestText(Quote, Colon, Comma, SizeField, TypeField, Closing, kind, Zero)

\* The text of the name field, character by character.
LEMMA NameLayout ==
    ASSUME NEW W, NEW e \in Seq(W), NEW q \in W, NEW a \in W, NEW b \in W
    PROVE  LET u == NameText(q, a, b, e) IN
           /\ u \in Seq(W) /\ Len(u) = Len(e) + 6 /\ Len(e) \in Nat
           /\ u[1] = q /\ u[2] = a /\ u[3] = q /\ u[4] = b /\ u[5] = q
           /\ \A i \in 1..Len(e) : u[i + 5] = e[i]
           /\ u[Len(e) + 6] = q
  <1> DEFINE u == NameText(q, a, b, e)
  <1>1. u \in Seq(W) /\ Len(u) = Len(e) + 6 /\ Len(e) \in Nat
    BY DEF NameText
  <1>2. u[1] = q /\ u[2] = a /\ u[3] = q /\ u[4] = b /\ u[5] = q
    BY DEF NameText
  <1>3. \A i \in 1..Len(e) : u[i + 5] = e[i]
    BY DEF NameText
  <1>4. u[Len(e) + 6] = q
    BY DEF NameText
  <1> HIDE DEF u
  <1> QED
    BY <1>1, <1>2, <1>3, <1>4, Zenon DEF u

RestLaidOut(W, u, q, b, c, d, f, g, k, z) ==
    /\ u \in Seq(W) /\ Len(u) = 15
    /\ u[1] = c /\ u[2] = q /\ u[3] = d /\ u[4] = q /\ u[5] = b
    /\ u[6] = z /\ u[7] = c /\ u[8] = q /\ u[9] = f /\ u[10] = q
    /\ u[11] = b /\ u[12] = q /\ u[13] = k /\ u[14] = q /\ u[15] = g

\* The text of the other fields, character by character.
LEMMA RestLayout ==
    ASSUME NEW W, NEW q \in W, NEW b \in W, NEW c \in W,
           NEW d \in W, NEW f \in W, NEW g \in W, NEW k \in W, NEW z \in W
    PROVE  RestLaidOut(W, RestText(q, b, c, d, f, g, k, z), q, b, c, d, f, g, k, z)
  <1> DEFINE u == RestText(q, b, c, d, f, g, k, z)
  <1>1. u \in Seq(W) /\ Len(u) = 15
    BY DEF RestText
  <1>2. u[1] = c /\ u[2] = q /\ u[3] = d /\ u[4] = q /\ u[5] = b
    BY DEF RestText
  <1>3. u[6] = z /\ u[7] = c /\ u[8] = q /\ u[9] = f /\ u[10] = q
    BY DEF RestText
  <1>4. u[11] = b /\ u[12] = q /\ u[13] = k /\ u[14] = q /\ u[15] = g
    BY DEF RestText
  <1> HIDE DEF u
  <1> QED
    BY <1>1, <1>2, <1>3, <1>4, Zenon DEF u, RestLaidOut

\* The characters that a listing itself has.
ListCharacters ==
    {Quote, Backslash, NameField, TypeField, SizeField, Colon, Comma, Opening, Closing, Zero,
     ListBegin, ListEnd, Folder, File}

\* The text of an item, character by character.
LEMMA ItemBodyLayout ==
    ASSUME NEW W, ListCharacters \subseteq W, NEW e \in Seq(W), NEW kind \in {Folder, File}
    PROVE  LET u == ItemBody(e, kind)
               m == Len(e) IN
           /\ u \in Seq(W) /\ Len(u) = m + 21 /\ m \in Nat
           /\ u[1] = Quote /\ u[2] = NameField /\ u[3] = Quote /\ u[4] = Colon /\ u[5] = Quote
           /\ \A i \in 1..m : u[i + 5] = e[i]
           /\ u[m + 6] = Quote /\ u[m + 7] = Comma /\ u[m + 8] = Quote /\ u[m + 9] = SizeField
           /\ u[m + 10] = Quote /\ u[m + 11] = Colon /\ u[m + 12] = Zero /\ u[m + 13] = Comma
           /\ u[m + 14] = Quote /\ u[m + 15] = TypeField /\ u[m + 16] = Quote
           /\ u[m + 17] = Colon
           /\ u[m + 18] = Quote /\ u[m + 19] = kind /\ u[m + 20] = Quote /\ u[m + 21] = Closing
  <1> DEFINE m == Len(e)
             h == NameText(Quote, NameField, Colon, e)
             t == RestText(Quote, Colon, Comma, SizeField, TypeField, Closing, kind, Zero)
             u == h \o t
  <1>1. /\ Quote \in W /\ NameField \in W /\ TypeField \in W /\ SizeField \in W /\ Colon \in W
        /\ Comma \in W /\ Closing \in W /\ Zero \in W /\ kind \in W
    BY Zenon DEF ListCharacters
  <1>2. /\ h \in Seq(W) /\ Len(h) = m + 6 /\ m \in Nat
        /\ h[1] = Quote /\ h[2] = NameField /\ h[3] = Quote /\ h[4] = Colon /\ h[5] = Quote
        /\ \A i \in 1..m : h[i + 5] = e[i]
        /\ h[m + 6] = Quote
    BY <1>1, NameLayout
  <1>3. /\ t \in Seq(W) /\ Len(t) = 15
        /\ t[1] = Comma /\ t[2] = Quote /\ t[3] = SizeField /\ t[4] = Quote /\ t[5] = Colon
        /\ t[6] = Zero /\ t[7] = Comma /\ t[8] = Quote /\ t[9] = TypeField /\ t[10] = Quote
        /\ t[11] = Colon /\ t[12] = Quote /\ t[13] = kind /\ t[14] = Quote /\ t[15] = Closing
    <2>1. RestLaidOut(W, t, Quote, Colon, Comma, SizeField, TypeField, Closing, kind, Zero)
      BY <1>1, RestLayout
    <2> HIDE DEF t
    <2> QED
      BY <2>1, Zenon DEF RestLaidOut
  <1> HIDE DEF h, t, m
  <1>4. /\ u \in Seq(W) /\ Len(u) = Len(h) + Len(t)
        /\ \A i \in 1..Len(h) : u[i] = h[i]
        /\ \A i \in 1..Len(t) : u[i + Len(h)] = t[i]
    <2>1. h \in Seq(W) /\ t \in Seq(W)
      BY <1>2, <1>3
    <2> QED
      BY <2>1, PartsOfConcat
  <1> HIDE DEF u
  <1>5. u \in Seq(W) /\ Len(u) = m + 21
    BY <1>2, <1>3, <1>4
  <1>6. \A i \in 1 .. m + 6 : u[i] = h[i]
    BY <1>2, <1>4, Zenon
  <1>7. \A i \in 1..15 : u[m + 6 + i] = t[i]
    <2> TAKE i \in 1..15
    <2>1. u[i + (m + 6)] = t[i]
      BY <1>2, <1>3, <1>4, Zenon
    <2>2. i + (m + 6) = m + 6 + i
      BY <1>2
    <2> QED
      BY <2>1, <2>2
  <1>8. u[1] = Quote /\ u[2] = NameField /\ u[3] = Quote /\ u[4] = Colon /\ u[5] = Quote
    <2>1. 1 \in 1 .. m + 6 /\ 2 \in 1 .. m + 6 /\ 3 \in 1 .. m + 6 /\ 4 \in 1 .. m + 6
          /\ 5 \in 1 .. m + 6
      BY <1>2
    <2> QED
      BY <1>2, <1>6, <2>1, Zenon
  <1>9. (\A i \in 1..m : u[i + 5] = e[i]) /\ u[m + 6] = Quote
    <2>1. (\A i \in 1..m : i + 5 \in 1 .. m + 6) /\ m + 6 \in 1 .. m + 6
      BY <1>2
    <2> QED
      BY <1>2, <1>6, <2>1, Zenon
  <1>10. /\ u[m + 7] = Comma /\ u[m + 8] = Quote /\ u[m + 9] = SizeField
         /\ u[m + 10] = Quote /\ u[m + 11] = Colon /\ u[m + 12] = Zero /\ u[m + 13] = Comma
    <2>1. /\ m + 6 + 1 = m + 7 /\ m + 6 + 2 = m + 8 /\ m + 6 + 3 = m + 9
          /\ m + 6 + 4 = m + 10 /\ m + 6 + 5 = m + 11 /\ m + 6 + 6 = m + 12
          /\ m + 6 + 7 = m + 13
      BY <1>2
    <2>2. 1 \in 1..15 /\ 2 \in 1..15 /\ 3 \in 1..15 /\ 4 \in 1..15 /\ 5 \in 1..15
          /\ 6 \in 1..15 /\ 7 \in 1..15
      OBVIOUS
    <2> QED
      BY <1>3, <1>7, <2>1, <2>2, Zenon
  <1>11. /\ u[m + 14] = Quote /\ u[m + 15] = TypeField /\ u[m + 16] = Quote
         /\ u[m + 17] = Colon
         /\ u[m + 18] = Quote /\ u[m + 19] = kind /\ u[m + 20] = Quote /\ u[m + 21] = Closing
    <2>1. /\ m + 6 + 8 = m + 14 /\ m + 6 + 9 = m + 15 /\ m + 6 + 10 = m + 16
          /\ m + 6 + 11 = m + 17 /\ m + 6 + 12 = m + 18 /\ m + 6 + 13 = m + 19
          /\ m + 6 + 14 = m + 20 /\ m + 6 + 15 = m + 21
      BY <1>2
    <2>2. 8 \in 1..15 /\ 9 \in 1..15 /\ 10 \in 1..15 /\ 11 \in 1..15 /\ 12 \in 1..15
          /\ 13 \in 1..15 /\ 14 \in 1..15 /\ 15 \in 1..15
      OBVIOUS
    <2> QED
      BY <1>3, <1>7, <2>1, <2>2, Zenon
  <1> QED
    BY <1>2, <1>5, <1>8, <1>9, <1>10, <1>11, Zenon DEF ItemBody, u, h, t, m

\* What comes behind an item that is not the last one.
NextItem == <<Comma, Opening, Quote, NameField, Quote>>

\* What may follow an item, character by character.
LEMMA FollowLayout ==
    ASSUME NEW W, ListCharacters \subseteq W
    PROVE  /\ NextItem \in Seq(W) /\ Len(NextItem) = 5
           /\ NextItem[1] = Comma /\ NextItem[2] = Opening /\ NextItem[3] = Quote
           /\ NextItem[4] = NameField /\ NextItem[5] = Quote
           /\ <<ListEnd>> \in Seq(W) /\ Len(<<ListEnd>>) = 1 /\ <<ListEnd>>[1] = ListEnd
           /\ <<Comma, Opening>> \in Seq(W) /\ <<Opening>> \in Seq(W) /\ <<ListBegin>> \in Seq(W)
           /\ <<Comma>> \in Seq(W)
           /\ <<Quote, NameField, Quote>> \in Seq(W)
  <1>1. /\ Comma \in W /\ Opening \in W /\ Quote \in W /\ NameField \in W /\ ListEnd \in W
        /\ ListBegin \in W
    BY Zenon DEF ListCharacters
  <1> QED
    BY <1>1 DEF NextItem

\* An item and what follows it have the layout that the lemmas above speak of.
LEMMA FollowedItem ==
    ASSUME NEW W, ListCharacters \subseteq W, NEW e \in Seq(W), NEW kind \in {Folder, File},
           NEW follow \in {NextItem, <<ListEnd>>}
    PROVE  /\ ItemBody(e, kind) \o follow \in Seq(W)
           /\ ItemText(ItemBody(e, kind) \o follow, e, kind)
  <1> DEFINE m == Len(e)
             b == ItemBody(e, kind)
             u == b \o follow
  <1>1. /\ b \in Seq(W) /\ Len(b) = m + 21 /\ m \in Nat
        /\ b[1] = Quote /\ b[2] = NameField /\ b[3] = Quote /\ b[4] = Colon /\ b[5] = Quote
        /\ \A i \in 1..m : b[i + 5] = e[i]
        /\ b[m + 6] = Quote /\ b[m + 7] = Comma /\ b[m + 8] = Quote /\ b[m + 9] = SizeField
        /\ b[m + 10] = Quote /\ b[m + 11] = Colon /\ b[m + 12] = Zero /\ b[m + 13] = Comma
        /\ b[m + 14] = Quote /\ b[m + 15] = TypeField /\ b[m + 16] = Quote
        /\ b[m + 17] = Colon
        /\ b[m + 18] = Quote /\ b[m + 19] = kind /\ b[m + 20] = Quote /\ b[m + 21] = Closing
    BY ItemBodyLayout
  <1>2. follow \in Seq(W)
    BY FollowLayout
  <1> HIDE DEF b, m
  <1>3. /\ u \in Seq(W) /\ Len(u) = m + 21 + Len(follow)
        /\ \A i \in 1 .. m + 21 : u[i] = b[i]
        /\ \A i \in 1..Len(follow) : u[i + (m + 21)] = follow[i]
    <2>1. b \in Seq(W)
      BY <1>1
    <2>2. /\ u \in Seq(W) /\ Len(u) = Len(b) + Len(follow)
          /\ \A i \in 1..Len(b) : u[i] = b[i]
          /\ \A i \in 1..Len(follow) : u[i + Len(b)] = follow[i]
      BY <1>2, <2>1, PartsOfConcat
    <2> HIDE DEF u
    <2> QED
      BY <1>1, <2>2, Zenon
  <1> HIDE DEF u
  <1>4. /\ 1 \in 1 .. m + 21 /\ 2 \in 1 .. m + 21 /\ 3 \in 1 .. m + 21 /\ 4 \in 1 .. m + 21
        /\ 5 \in 1 .. m + 21 /\ \A i \in 1..m : i + 5 \in 1 .. m + 21
    BY <1>1
  <1>5. /\ m + 6 \in 1 .. m + 21 /\ m + 7 \in 1 .. m + 21 /\ m + 8 \in 1 .. m + 21
        /\ m + 9 \in 1 .. m + 21 /\ m + 10 \in 1 .. m + 21 /\ m + 11 \in 1 .. m + 21
        /\ m + 12 \in 1 .. m + 21 /\ m + 13 \in 1 .. m + 21 /\ m + 14 \in 1 .. m + 21
        /\ m + 15 \in 1 .. m + 21 /\ m + 16 \in 1 .. m + 21 /\ m + 17 \in 1 .. m + 21
        /\ m + 18 \in 1 .. m + 21 /\ m + 19 \in 1 .. m + 21 /\ m + 20 \in 1 .. m + 21
        /\ m + 21 \in 1 .. m + 21
    BY <1>1
  <1>6. /\ u[1] = Quote /\ u[2] = NameField /\ u[3] = Quote /\ u[4] = Colon /\ u[5] = Quote
        /\ \A i \in 1..m : u[i + 5] = e[i]
    BY <1>1, <1>3, <1>4, Zenon
  <1>7. /\ u[m + 6] = Quote /\ u[m + 7] = Comma /\ u[m + 8] = Quote /\ u[m + 9] = SizeField
        /\ u[m + 10] = Quote /\ u[m + 11] = Colon /\ u[m + 12] = Zero /\ u[m + 13] = Comma
        /\ u[m + 14] = Quote /\ u[m + 15] = TypeField /\ u[m + 16] = Quote
        /\ u[m + 17] = Colon
        /\ u[m + 18] = Quote /\ u[m + 19] = kind /\ u[m + 20] = Quote /\ u[m + 21] = Closing
    BY <1>1, <1>3, <1>5, Zenon
  <1>8. \/ Len(u) = m + 22 /\ u[m + 22] = ListEnd
        \/ /\ Len(u) = m + 26 /\ u[m + 22] = Comma /\ u[m + 23] = Opening
           /\ u[m + 24] = Quote /\ u[m + 25] = NameField /\ u[m + 26] = Quote
    <2>1. CASE follow = NextItem
      <3>1. /\ Len(follow) = 5 /\ follow[1] = Comma /\ follow[2] = Opening
            /\ follow[3] = Quote /\ follow[4] = NameField /\ follow[5] = Quote
        BY <2>1, FollowLayout
      <3>2. /\ 1 \in 1..5 /\ 2 \in 1..5 /\ 3 \in 1..5 /\ 4 \in 1..5 /\ 5 \in 1..5
            /\ 1 + (m + 21) = m + 22 /\ 2 + (m + 21) = m + 23 /\ 3 + (m + 21) = m + 24
            /\ 4 + (m + 21) = m + 25 /\ 5 + (m + 21) = m + 26 /\ m + 21 + 5 = m + 26
        BY <1>1
      <3> QED
        BY <1>3, <3>1, <3>2
    <2>2. CASE follow = <<ListEnd>>
      <3>1. Len(follow) = 1 /\ follow[1] = ListEnd
        BY <2>2, FollowLayout
      <3>2. 1 \in 1..1 /\ 1 + (m + 21) = m + 22 /\ m + 21 + 1 = m + 22
        BY <1>1
      <3> QED
        BY <1>3, <3>1, <3>2, Zenon
    <2> QED
      BY <2>1, <2>2
  <1> QED
    BY <1>3, <1>6, <1>7, <1>8, Zenon DEF ItemText, u, b, m

ItemSet(W) == [name : Seq(W), is_directory : BOOLEAN]

Kind(item) == IF item.is_directory THEN Folder ELSE File

ItemRest(item) == ItemBody(Escaped(item.name), Kind(item))

RawItem(item) ==
    <<"{">> \o StringField("name", Escaped(item.name)) \o <<"comma">> \o
    Field("size", <<"0">>) \o <<"comma">> \o
    StringField("type", <<IF item.is_directory THEN "dir" ELSE "file">>) \o <<"}">>

Piece(item, k) ==
    IF k = 1 THEN <<Opening>> \o ItemRest(item)
    ELSE <<Comma>> \o (<<Opening>> \o ItemRest(item))

Pieces(items) == [i \in DOMAIN items |-> Piece(items[i], i)]

\* The text of a listing up to the brace of one more item.
Before(items) ==
    (<<ListBegin>> \o FlattenSeq(Pieces(items))) \o
    (IF items = <<>> THEN <<Opening>> ELSE <<Comma, Opening>>)

\* The texts of an item have the characters of a listing.
LEMMA ItemRestType ==
    ASSUME NEW W, ListCharacters \subseteq W, NEW item \in ItemSet(W)
    PROVE  /\ item.name \in Seq(W) /\ item.is_directory \in BOOLEAN
           /\ Escaped(item.name) \in Seq(W) /\ Kind(item) \in {Folder, File}
           /\ ItemRest(item) \in Seq(W)
           /\ \A k \in Nat : Piece(item, k) \in Seq(W)
  <1>1. item.name \in Seq(W) /\ item.is_directory \in BOOLEAN
    BY DEF ItemSet
  <1>2. Quote \in W /\ Backslash \in W
    BY Zenon DEF ListCharacters
  <1>3. Escaped(item.name) \in Seq(W)
    BY <1>1, <1>2, NamesEscaped
  <1>4. Kind(item) \in {Folder, File}
    BY Zenon DEF Kind
  <1>5. ItemRest(item) \in Seq(W)
    BY <1>3, <1>4, ItemBodyLayout, Zenon DEF ItemRest
  <1>6. <<Opening>> \in Seq(W) /\ <<Comma>> \in Seq(W)
    BY FollowLayout
  <1>7. <<Opening>> \o ItemRest(item) \in Seq(W)
    BY <1>5, <1>6, ConcatProperties
  <1>8. <<Comma>> \o (<<Opening>> \o ItemRest(item)) \in Seq(W)
    BY <1>6, <1>7, ConcatProperties
  <1>9. \A k \in Nat : Piece(item, k) \in Seq(W)
    BY <1>7, <1>8, Zenon DEF Piece
  <1> QED
    BY <1>1, <1>3, <1>4, <1>5, <1>9

\* An item as the answer has it.
LEMMA RawItemIs ==
    ASSUME NEW W, ListCharacters \subseteq W, NEW item \in ItemSet(W)
    PROVE  RawItem(item) = <<Opening>> \o ItemRest(item)
  <1> DEFINE e == Escaped(item.name)
             k == Kind(item)
             o == <<Opening>>
             f == NameText(Quote, NameField, Colon, e)
             c == <<Comma>>
             h == <<Quote, SizeField, Quote, Colon>> \o <<Zero>>
             l == <<Quote, TypeField, Quote, Colon>> \o (<<Quote>> \o <<k>> \o <<Quote>>)
             g == <<Closing>>
  <1>1. RawItem(item) = (((((o \o f) \o c) \o h) \o c) \o l) \o g
    BY Zenon DEF RawItem, StringField, Field, NameText, Kind, Opening, Comma, Closing, Colon,
                 NameField, SizeField, TypeField, Zero, Folder, File
  <1>2. ItemRest(item) = f \o (c \o (h \o (c \o (l \o g))))
    BY Zenon DEF ItemRest, ItemBody, RestText
  <1>3. /\ Quote \in W /\ NameField \in W /\ TypeField \in W /\ SizeField \in W /\ Colon \in W
        /\ Comma \in W /\ Closing \in W /\ Zero \in W /\ Opening \in W /\ k \in W
    BY Zenon DEF ListCharacters, Kind
  <1>4. e \in Seq(W)
    BY ItemRestType
  <1> HIDE DEF e, k
  <1>5. f \in Seq(W)
    BY <1>3, <1>4, NameLayout
  <1>6. o \in Seq(W) /\ c \in Seq(W) /\ h \in Seq(W) /\ l \in Seq(W) /\ g \in Seq(W)
    BY <1>3
  <1> HIDE DEF o, f, c, h, l, g
  <1>7. (((((o \o f) \o c) \o h) \o c) \o l) \o g = o \o (f \o (c \o (h \o (c \o (l \o g)))))
    <2>1. Chained(o, f, c, h, l, g)
      BY <1>5, <1>6, Rightmost
    <2> QED
      BY <2>1, Zenon DEF Chained
  <1> QED
    BY <1>1, <1>2, <1>7, Zenon DEF o

\* The listing is its items in a row, in brackets.
LEMMA ListingIs ==
    ASSUME NEW W, ListCharacters \subseteq W, NEW items \in Seq(ItemSet(W))
    PROVE  Listing(items) = (<<ListBegin>> \o FlattenSeq(Pieces(items))) \o <<ListEnd>>
  <1> DEFINE raw == [i \in DOMAIN items |->
                        IF i = 1 THEN RawItem(items[i]) ELSE <<Comma>> \o RawItem(items[i])]
  <1>1. Listing(items) = (<<ListBegin>> \o FlattenSeq(raw)) \o <<ListEnd>>
    BY Zenon DEF Listing, RawItem, ListBegin, ListEnd, Comma
  <1>2. \A i \in DOMAIN items : items[i] \in ItemSet(W)
    BY LenProperties, ElementOfSeq
  <1>3. \A i \in DOMAIN items : RawItem(items[i]) = <<Opening>> \o ItemRest(items[i])
    BY <1>2, RawItemIs, Zenon
  <1>4. \A i \in DOMAIN items :
            (IF i = 1 THEN RawItem(items[i]) ELSE <<Comma>> \o RawItem(items[i])) =
            Piece(items[i], i)
    BY <1>3, Zenon DEF Piece
  <1>5. raw = Pieces(items)
    BY <1>4, Zenon DEF Pieces
  <1> HIDE DEF raw
  <1> QED
    BY <1>1, <1>5, Zenon

-------------------------------------------------------------------------------
(* ListingIsTheFolder: one item after the other. *)

\* One item more.
LEMMA PiecesNext ==
    ASSUME NEW W, ListCharacters \subseteq W, NEW items \in Seq(ItemSet(W)),
           NEW item \in ItemSet(W)
    PROVE  /\ FlattenSeq(Pieces(items)) \in Seq(W)
           /\ Append(items, item) \in Seq(ItemSet(W)) /\ Append(items, item) # <<>>
           /\ FlattenSeq(Pieces(Append(items, item))) =
                  FlattenSeq(Pieces(items)) \o Piece(item, Len(items) + 1)
           /\ (Len(items) + 1 = 1) <=> (items = <<>>)
  <1> DEFINE X == ItemSet(W)
             n == Len(items)
             all == Append(items, item)
             h == Pieces(items)
             g == Pieces(all)
  <1>1. /\ n \in Nat /\ all \in Seq(X) /\ Len(all) = n + 1 /\ \A i \in 1..n : all[i] = items[i]
        /\ all[n + 1] = item /\ DOMAIN items = 1..n /\ items \in Seq(X)
    BY LenProperties, AppendProperties
  <1>2. all # <<>>
    OBVIOUS
  <1>3. n = 0 <=> items = <<>>
    BY EmptySeq
  <1> HIDE DEF X, n, all
  <1>4. DOMAIN all = 1 .. n + 1
    BY <1>1, LenProperties
  <1>5. /\ \A i \in 1..n : Piece(items[i], i) \in Seq(W)
        /\ \A i \in 1 .. n + 1 : Piece(all[i], i) \in Seq(W)
    <2>1. \A i \in 1..n : items[i] \in ItemSet(W)
      BY <1>1, ElementOfSeq DEF X
    <2>2. \A i \in 1 .. n + 1 : all[i] \in ItemSet(W)
      BY <1>1, ElementOfSeq DEF X
    <2>3. (\A i \in 1..n : i \in Nat) /\ (\A i \in 1 .. n + 1 : i \in Nat)
      BY <1>1
    <2>4. \A x \in ItemSet(W) : \A k \in Nat : Piece(x, k) \in Seq(W)
      BY ItemRestType
    <2> QED
      BY <2>1, <2>2, <2>3, <2>4, Zenon
  <1>6. /\ h = [i \in 1..n |-> Piece(items[i], i)]
        /\ g = [i \in 1 .. n + 1 |-> Piece(all[i], i)]
    BY <1>1, <1>4, Zenon DEF Pieces
  <1>7. h \in [1..n -> Seq(W)] /\ g \in [1 .. n + 1 -> Seq(W)]
    BY <1>5, <1>6
  <1>8. (\A i \in 1..n : g[i] = h[i]) /\ g[n + 1] = Piece(item, n + 1)
    <2>1. (\A i \in 1..n : i \in 1 .. n + 1) /\ n + 1 \in 1 .. n + 1
      BY <1>1
    <2>2. \A i \in 1..n : h[i] = Piece(items[i], i)
      BY <1>6
    <2>3. \A i \in 1 .. n + 1 : g[i] = Piece(all[i], i)
      BY <1>6
    <2> HIDE DEF h, g
    <2>4. \A i \in 1..n : g[i] = h[i]
      BY <1>1, <2>1, <2>2, <2>3, Zenon
    <2>5. g[n + 1] = Piece(item, n + 1)
      BY <1>1, <2>1, <2>3, Zenon
    <2> QED
      BY <2>4, <2>5, Zenon
  <1>9. (n + 1 = 1) <=> (items = <<>>)
    BY <1>1, <1>3
  <1> HIDE DEF h, g
  <1> DEFINE Y == Seq(W)
  <1>11. h \in Seq(Y) /\ Len(h) = n /\ g \in Seq(Y) /\ Len(g) = n + 1
    <2>1. n + 1 \in Nat /\ h \in [1..n -> Y] /\ g \in [1 .. n + 1 -> Y]
      BY <1>1, <1>7
    <2> HIDE DEF Y
    <2> QED
      BY <1>1, <2>1, FunctionSeq
  <1>12. FlattenSeq(h) \in Seq(W) /\ FlattenSeq(g) = FlattenSeq(h) \o g[n + 1]
    <2>1. n \in Nat /\ \A i \in 1..n : g[i] = h[i]
      BY <1>1, <1>8
    <2> QED
      BY <1>11, <2>1, FlattenNext
  <1> QED
    BY <1>1, <1>2, <1>8, <1>9, <1>12, Zenon DEF h, g, all, X, n

\* What stands before an item begins the list and goes across no name.
LEMMA BeforeType ==
    ASSUME NEW W, ListCharacters \subseteq W, NEW items \in Seq(ItemSet(W))
    PROVE  Before(items) \in Seq(W) /\ Ended(Before(items)) /\ Before(items)[1] = ListBegin
  <1> DEFINE p == FlattenSeq(Pieces(items))
             b == <<ListBegin>> \o p
             s == IF items = <<>> THEN <<Opening>> ELSE <<Comma, Opening>>
             r == b \o s
  <1>1. p \in Seq(W)
    <2> DEFINE x == [name |-> <<>>, is_directory |-> FALSE]
    <2>1. x \in ItemSet(W)
      BY DEF ItemSet
    <2> HIDE DEF x
    <2> QED
      BY <2>1, PiecesNext
  <1>2. /\ Opening \in W /\ Comma \in W /\ ListBegin \in W
        /\ Opening # Quote /\ Opening # NameField /\ Opening # Colon
    BY CharactersDiffer, Zenon DEF ListCharacters
  <1>3. s \in Seq(W) /\ Len(s) \in {1, 2} /\ s[Len(s)] = Opening
    <2>1. CASE items = <<>>
      <3> DEFINE v == <<Opening>>
      <3>1. s = v
        BY <2>1, Zenon
      <3>2. v \in Seq(W) /\ Len(v) = 1 /\ v[1] = Opening
        BY <1>2
      <3> HIDE DEF s, v
      <3> QED
        BY <3>1, <3>2
    <2>2. CASE items # <<>>
      <3> DEFINE v == <<Comma, Opening>>
      <3>1. s = v
        BY <2>2, Zenon
      <3>2. v \in Seq(W) /\ Len(v) = 2 /\ v[2] = Opening
        BY <1>2
      <3> HIDE DEF s, v
      <3> QED
        BY <3>1, <3>2
    <2> QED
      BY <2>1, <2>2
  <1> HIDE DEF p, s
  <1>4. b \in Seq(W) /\ Len(b) = Len(p) + 1 /\ b[1] = ListBegin /\ Len(p) \in Nat
    BY <1>1, <1>2, Enclosed, LenProperties
  <1> HIDE DEF b
  <1>5. /\ r \in Seq(W) /\ Len(r) = Len(b) + Len(s)
        /\ \A i \in 1..Len(b) : r[i] = b[i]
        /\ \A i \in 1..Len(s) : r[i + Len(b)] = s[i]
    <2>1. b \in Seq(W) /\ s \in Seq(W)
      BY <1>3, <1>4
    <2> QED
      BY <2>1, PartsOfConcat
  <1> HIDE DEF r
  <1>6. r[Len(r)] = Opening
    <2>1. Len(s) \in 1..Len(s) /\ Len(s) + Len(b) = Len(r)
      <3>1. Len(b) \in Nat /\ Len(s) \in Nat /\ Len(s) >= 1 /\ Len(r) = Len(b) + Len(s)
        <4>1. Len(s) \in Nat /\ Len(s) >= 1
          <5> DEFINE k == Len(s)
          <5>1. k \in {1, 2}
            BY <1>3
          <5> HIDE DEF k
          <5>2. k \in Nat /\ k >= 1
            BY <5>1
          <5> QED
            BY <5>2 DEF k
        <4>2. Len(b) \in Nat
          BY <1>4
        <4> QED
          BY <1>5, <4>1, <4>2, Zenon
      <3> QED
        BY <3>1
    <2> QED
      BY <1>3, <1>5, <2>1, Zenon
  <1>7. r # <<>>
    <2>1. Len(r) # 0
      BY <1>3, <1>4, <1>5
    <2> QED
      BY <1>5, <2>1, EmptySeq
  <1>8. Ended(r)
    BY <1>2, <1>6, <1>7, Zenon DEF Ended
  <1>9. r[1] = ListBegin
    <2>1. 1 \in 1..Len(b)
      BY <1>4
    <2> QED
      BY <1>4, <1>5, <2>1, Zenon
  <1> QED
    BY <1>5, <1>8, <1>9, Zenon DEF Before, r, b, s, p

\* A text of two characters.
LEMMA PairOfSingles ==
    ASSUME NEW W, NEW y \in W, NEW z \in W
    PROVE  <<y>> \o <<z>> = <<y, z>>
  <1> DEFINE u == <<y>> \o <<z>>
             d == <<y, z>>
  <1>1. u \in Seq(W) /\ Len(u) = 2 /\ u[1] = y /\ u[2] = z
    OBVIOUS
  <1>2. d \in Seq(W) /\ Len(d) = 2 /\ d[1] = y /\ d[2] = z
    OBVIOUS
  <1> HIDE DEF u, d
  <1>3. \A i \in 1..2 : i = 1 \/ i = 2
    OBVIOUS
  <1>4. \A i \in 1..2 : u[i] = d[i]
    BY <1>1, <1>2, <1>3, Zenon
  <1>5. u = d
    BY <1>1, <1>2, <1>4, SeqEqual
  <1> QED
    BY <1>5, Zenon DEF u, d

\* One item more, or the end of the listing.
LEMMA BeforeNext ==
    ASSUME NEW W, ListCharacters \subseteq W, NEW items \in Seq(ItemSet(W)),
           NEW item \in ItemSet(W)
    PROVE  /\ Before(Append(items, item)) =
                  Before(items) \o (ItemRest(item) \o <<Comma, Opening>>)
           /\ Listing(Append(items, item)) =
                  Before(items) \o (ItemRest(item) \o <<ListEnd>>)
  <1> DEFINE p == FlattenSeq(Pieces(items))
             all == Append(items, item)
             b == <<ListBegin>>
             s == IF items = <<>> THEN <<Opening>> ELSE <<Comma, Opening>>
             r == ItemRest(item)
             x == Piece(item, Len(items) + 1)
             t == <<Comma, Opening>>
             v == <<ListEnd>>
             o == <<Opening>>
             c == <<Comma>>
  <1>1. /\ p \in Seq(W) /\ all \in Seq(ItemSet(W)) /\ all # <<>>
        /\ FlattenSeq(Pieces(all)) = p \o x
        /\ (Len(items) + 1 = 1) <=> (items = <<>>)
    BY PiecesNext
  <1>2. /\ o \in Seq(W) /\ c \in Seq(W) /\ t \in Seq(W) /\ v \in Seq(W) /\ b \in Seq(W)
    BY FollowLayout
  <1>3. r \in Seq(W)
    BY ItemRestType
  <1>4. c \o o = t
    <2>1. Comma \in W /\ Opening \in W
      BY Zenon DEF ListCharacters
    <2> QED
      BY <2>1, PairOfSingles, Zenon
  <1>5. s \in Seq(W)
    BY <1>2, Zenon
  <1>0. \A y, z, w \in Seq(W) : (y \o z) \o w = y \o (z \o w)
    BY Reassociated, SMTT(30)
  <1>6. x = s \o r
    <2>1. CASE items = <<>>
      <3>1. s = o /\ x = o \o r
        BY <1>1, <2>1, Zenon DEF Piece
      <3> QED
        BY <3>1, Zenon
    <2>2. CASE items # <<>>
      <3>1. s = t /\ x = c \o (o \o r)
        BY <1>1, <2>2, Zenon DEF Piece
      <3> HIDE DEF s, x, c, o, t, r
      <3>2. \A z, w \in Seq(W) : (c \o z) \o w = c \o (z \o w)
        BY <1>0, <1>2, Zenon
      <3>3. \A w \in Seq(W) : (c \o o) \o w = c \o (o \o w)
        BY <1>2, <3>2, Zenon
      <3>4. (c \o o) \o r = c \o (o \o r)
        BY <1>3, <3>3, Zenon
      <3> QED
        BY <1>4, <3>1, <3>4, Zenon
    <2> QED
      BY <2>1, <2>2, Zenon
  <1>7. Before(items) = (b \o p) \o s /\ Before(all) = (b \o (p \o x)) \o t
    BY <1>1, Zenon DEF Before
  <1>8. Listing(all) = (b \o (p \o x)) \o v
    BY <1>1, ListingIs, Zenon
  <1> HIDE DEF p, all, b, s, r, x, t, v, o, c
  <1>9. b \o p \in Seq(W) /\ s \o r \in Seq(W)
    BY <1>1, <1>2, <1>3, <1>5, ConcatProperties
  <1>10. ASSUME NEW z \in Seq(W)
         PROVE  (b \o (p \o x)) \o z = ((b \o p) \o s) \o (r \o z)
    <2> DEFINE bp == b \o p
    <2>1. bp \in Seq(W)
      BY <1>9
    <2>2. b \o (p \o (s \o r)) = bp \o (s \o r)
      <3>1. \A y, w \in Seq(W) : (b \o y) \o w = b \o (y \o w)
        BY <1>0, <1>2, Zenon
      <3> QED
        BY <1>1, <1>9, <3>1, Zenon
    <2> HIDE DEF bp
    <2>3. bp \o (s \o r) = (bp \o s) \o r
      BY <1>0, <1>3, <1>5, <2>1, Zenon
    <2>4. bp \o s \in Seq(W)
      BY <1>5, <2>1, ConcatProperties
    <2> DEFINE q == bp \o s
    <2>5. q \in Seq(W)
      BY <2>4
    <2> HIDE DEF q
    <2>6. (q \o r) \o z = q \o (r \o z)
      <3>1. \A w \in Seq(W) : (q \o r) \o w = q \o (r \o w)
        BY <1>0, <1>3, <2>5, Zenon
      <3> QED
        BY <3>1, Zenon
    <2> QED
      BY <1>6, <2>2, <2>3, <2>6, Zenon DEF q, bp
  <1>11. Before(all) = ((b \o p) \o s) \o (r \o t) /\ Listing(all) = ((b \o p) \o s) \o (r \o v)
    BY <1>2, <1>7, <1>8, <1>10, Zenon
  <1> QED
    BY <1>7, <1>11, Zenon DEF all, r, t, v

\* The items of a folder, each with a name.
NamedItems(W) == {item \in ItemSet(W) : item.name # <<>>}

\* The entry that an item is shown as, and the entries of a listing.
ShownItem(item) == Shape(ShownName(item.name), item.is_directory)

ShownItems(items) == [i \in DOMAIN items |-> ShownItem(items[i])]

\* The names of some entries are the first ones of others'.
NamesBegin(p, q) == Len(p) <= Len(q) /\ \A i \in 1..Len(p) : p[i].name = q[i].name

\* What an item is shown as is an entry.
LEMMA ShownItemType ==
    ASSUME NEW W, ListCharacters \subseteq W
    PROVE  \A item \in NamedItems(W) : /\ item \in ItemSet(W)
                                       /\ ShownItem(item) \in ItemSet(W)
  <1> SUFFICES ASSUME NEW item \in NamedItems(W)
               PROVE  item \in ItemSet(W) /\ ShownItem(item) \in ItemSet(W)
    OBVIOUS
  <1>1. item \in ItemSet(W) /\ item.name # <<>>
    BY DEF NamedItems
  <1>2. item.name \in Seq(W) /\ item.is_directory \in BOOLEAN
    BY <1>1, ItemRestType
  <1>3. Quote \in W /\ Backslash \in W
    BY Zenon DEF ListCharacters
  <1>4. ShownName(item.name) \in Seq(W)
    BY <1>1, <1>2, <1>3, NameShown
  <1>5. ShownItem(item) \in ItemSet(W)
    BY <1>2, <1>4 DEF ShownItem, Shape, ItemSet
  <1> QED
    BY <1>1, <1>5

\* One item more is shown.
LEMMA ShownNext ==
    ASSUME NEW W, ListCharacters \subseteq W, NEW items \in Seq(NamedItems(W)),
           NEW item \in NamedItems(W)
    PROVE  /\ ShownItems(items) \in Seq(ItemSet(W)) /\ ShownItem(item) \in ItemSet(W)
           /\ Append(items, item) \in Seq(NamedItems(W))
           /\ ShownItems(Append(items, item)) = ShownItems(items) \o <<ShownItem(item)>>
  <1> DEFINE X == NamedItems(W)
             Y == ItemSet(W)
             n == Len(items)
             all == Append(items, item)
             h == ShownItems(items)
             g == ShownItems(all)
             x == ShownItem(item)
             k == h \o <<x>>
  <1>1. /\ n \in Nat /\ all \in Seq(X) /\ Len(all) = n + 1 /\ \A i \in 1..n : all[i] = items[i]
        /\ all[n + 1] = item /\ DOMAIN items = 1..n /\ items \in Seq(X)
    BY LenProperties, AppendProperties
  <1>2. \A y \in X : y \in Y /\ ShownItem(y) \in Y
    BY ShownItemType
  <1>3. x \in Y
    BY <1>2
  <1> HIDE DEF X, n, all
  <1>4. DOMAIN all = 1 .. n + 1
    BY <1>1, LenProperties
  <1>5. (\A i \in 1..n : items[i] \in X) /\ (\A i \in 1 .. n + 1 : all[i] \in X)
    <2>1. \A i \in 1..n : items[i] \in X
      BY <1>1, ElementOfSeq
    <2>2. \A i \in 1 .. n + 1 : all[i] \in X
      BY <1>1, ElementOfSeq
    <2> QED
      BY <2>1, <2>2
  <1>6. /\ h = [i \in 1..n |-> ShownItem(items[i])]
        /\ g = [i \in 1 .. n + 1 |-> ShownItem(all[i])]
    BY <1>1, <1>4, Zenon DEF ShownItems
  <1> HIDE DEF Y, x
  <1>7. h \in [1..n -> Y] /\ g \in [1 .. n + 1 -> Y]
    BY <1>2, <1>5, <1>6
  <1>8. (\A i \in 1..n : g[i] = h[i]) /\ g[n + 1] = x
    <2>1. (\A i \in 1..n : i \in 1 .. n + 1) /\ n + 1 \in 1 .. n + 1
      BY <1>1
    <2>2. \A i \in 1..n : h[i] = ShownItem(items[i])
      BY <1>6
    <2>3. \A i \in 1 .. n + 1 : g[i] = ShownItem(all[i])
      BY <1>6
    <2> HIDE DEF h, g
    <2>4. \A i \in 1..n : g[i] = h[i]
      BY <1>1, <2>1, <2>2, <2>3, Zenon
    <2>5. g[n + 1] = x
      BY <1>1, <2>1, <2>3, Zenon DEF x
    <2> QED
      BY <2>4, <2>5, Zenon
  <1> HIDE DEF h, g
  <1>9. h \in Seq(Y) /\ Len(h) = n /\ g \in Seq(Y) /\ Len(g) = n + 1
    <2>1. n + 1 \in Nat
      BY <1>1
    <2> QED
      BY <1>1, <1>7, <2>1, FunctionSeq
  <1>10. /\ k \in Seq(Y) /\ Len(k) = n + 1
         /\ (\A i \in 1..n : k[i] = h[i]) /\ k[n + 1] = x
    BY <1>3, <1>9
  <1> HIDE DEF k
  <1>11. \A i \in 1 .. n + 1 : g[i] = k[i]
    <2>1. \A i \in 1 .. n + 1 : i \in 1..n \/ i = n + 1
      BY <1>1
    <2> QED
      BY <1>8, <1>10, <2>1, Zenon
  <1>12. g = k
    BY <1>9, <1>10, <1>11, SeqEqual
  <1> QED
    BY <1>1, <1>3, <1>9, <1>12, Zenon DEF h, g, k, all, x, X, Y

\* Of no items none is shown.
LEMMA ShownNothing == ShownItems(<<>>) = <<>> /\ DOMAIN <<>> = {}
  BY DEF ShownItems

\* What begins some entries begins them with one more, and so does what ends with its name.
LEMMA BeginsNext ==
    ASSUME NEW W, NEW s \in Seq(ItemSet(W)), NEW x \in ItemSet(W), NEW y \in ItemSet(W),
           NEW p \in Seq(ItemSet(W)), x.name = y.name
    PROVE  /\ NamesBegin(p, s) => NamesBegin(p, s \o <<y>>)
           /\ NamesBegin(s, s \o <<y>>)
           /\ NamesBegin(s \o <<x>>, s \o <<y>>)
  <1> DEFINE Y == ItemSet(W)
             u == s \o <<y>>
             v == s \o <<x>>
             n == Len(s)
  <1> HIDE DEF Y
  <1>1. /\ u \in Seq(Y) /\ Len(u) = n + 1 /\ (\A i \in 1..n : u[i] = s[i]) /\ u[n + 1] = y
        /\ v \in Seq(Y) /\ Len(v) = n + 1 /\ (\A i \in 1..n : v[i] = s[i]) /\ v[n + 1] = x
        /\ n \in Nat /\ Len(p) \in Nat
    <2>1. s \in Seq(Y) /\ x \in Y /\ y \in Y /\ p \in Seq(Y)
      BY DEF Y
    <2> QED
      BY <2>1
  <1> HIDE DEF u, v, n
  <1>2. \A i \in 1 .. n + 1 : i \in 1..n \/ i = n + 1
    BY <1>1
  <1>3. NamesBegin(p, s) => NamesBegin(p, u)
    <2> SUFFICES ASSUME NamesBegin(p, s) PROVE NamesBegin(p, u)
      OBVIOUS
    <2>1. Len(p) <= n /\ \A i \in 1..Len(p) : p[i].name = s[i].name
      BY Zenon DEF NamesBegin, n
    <2>2. Len(p) <= n + 1 /\ \A i \in 1..Len(p) : i \in 1..n
      BY <1>1, <2>1
    <2>3. \A i \in 1..Len(p) : p[i].name = u[i].name
      BY <1>1, <2>1, <2>2, Zenon
    <2> QED
      BY <1>1, <2>2, <2>3, Zenon DEF NamesBegin
  <1>4. NamesBegin(s, u)
    <2>1. n <= n + 1
      BY <1>1
    <2> QED
      BY <1>1, <2>1, Zenon DEF NamesBegin, n
  <1>5. NamesBegin(v, u)
    <2>1. n + 1 <= n + 1
      BY <1>1
    <2>2. \A i \in 1 .. n + 1 : v[i].name = u[i].name
      BY <1>1, <1>2, Zenon
    <2> QED
      BY <1>1, <2>1, <2>2, Zenon DEF NamesBegin
  <1> QED
    BY <1>3, <1>4, <1>5, Zenon DEF u, v

\* Nothing is in a text without a colon.
LEMMA NoEntries ==
    ASSUME NEW V, NEW s \in Seq(V), Quote \in V, Colon \in V, NameField \in V,
           \A i \in 1..Len(s) : s[i] # Colon
    PROVE  DirectoryEntries(s) = <<>>
  <1>1. Len(s) \in Nat
    BY LenProperties
  <1>2. \A i \in 1..Len(s) : ~NamedAt(s, NameField, i)
    <2> SUFFICES ASSUME NEW i \in 1..Len(s), NamedAt(s, NameField, i) PROVE FALSE
      OBVIOUS
    <2>1. i + 3 <= Len(s) /\ s[i + 3] = Colon
      BY NamedCharacters
    <2>2. i + 3 \in 1..Len(s)
      BY <1>1, <2>1
    <2> QED
      BY <2>1, <2>2
  <1> QED
    BY <1>2, EntriesNone

NameStart == <<Quote, NameField, Quote>>

\* The entries of every beginning of a text have the names that these entries begin with.
CutsBegin(W, s, entries) ==
    \A n \in 1..Len(s) : /\ DirectoryEntries(SubSeq(s, 1, n)) \in Seq(ItemSet(W))
                         /\ NamesBegin(DirectoryEntries(SubSeq(s, 1, n)), entries)

\* The beginning of two texts in a row.
CutBehind(a, u, n) ==
    n > Len(a) => /\ n - Len(a) \in 1..Len(u)
                  /\ SubSeq(a \o u, 1, n) = a \o SubSeq(u, 1, n - Len(a))

CutBefore(a, u, v, k, n) ==
    (/\ n <= Len(a) + k /\ k <= Len(u) /\ k <= Len(v)
     /\ \A i \in 1..k : u[i] = v[i]) =>
    n \in 1..Len(a \o v) /\ SubSeq(a \o u, 1, n) = SubSeq(a \o v, 1, n)

\* A cut of two texts in a row is behind the first, or in both alike.
LEMMA CutOfConcat ==
    ASSUME NEW W, NEW a \in Seq(W), NEW u \in Seq(W), NEW n \in 1..Len(a \o u)
    PROVE  /\ CutBehind(a, u, n)
           /\ \A v \in Seq(W) : \A k \in Nat : CutBefore(a, u, v, k, n)
  <1> DEFINE r == a \o u
             l == Len(a)
  <1>1. /\ r \in Seq(W) /\ Len(r) = l + Len(u) /\ l \in Nat /\ Len(u) \in Nat
        /\ (\A i \in 1..l : r[i] = a[i]) /\ \A i \in 1..Len(u) : r[i + l] = u[i]
    BY PartsOfConcat
  <1>2. n \in 1..Len(r) /\ a \in Seq(W) /\ u \in Seq(W)
    OBVIOUS
  <1> HIDE DEF r, l
  <1> DEFINE t == SubSeq(r, 1, n)
  <1>3. t \in Seq(W) /\ Len(t) = n /\ n \in Nat /\ \A i \in 1..n : t[i] = r[i]
    <2>1. n \in 0..Len(r) /\ n \in Nat
      BY <1>1, <1>2
    <2> QED
      BY <1>1, <2>1, PartOfBody
  <1> HIDE DEF t
  <1>4. ASSUME n > l
        PROVE  n - l \in 1..Len(u) /\ t = a \o SubSeq(u, 1, n - l)
    <2> DEFINE m == n - l
               b == SubSeq(u, 1, m)
               c == a \o b
    <2>1. m \in 1..Len(u) /\ m \in 0..Len(u) /\ m \in Nat /\ n = l + m
      BY <1>1, <1>2, <1>3, <1>4
    <2> HIDE DEF m
    <2>2. b \in Seq(W) /\ Len(b) = m /\ \A i \in 1..m : b[i] = u[i]
      BY <1>2, <2>1, PartOfBody
    <2> HIDE DEF b
    <2>3. /\ c \in Seq(W) /\ Len(c) = l + m
          /\ (\A i \in 1..l : c[i] = a[i]) /\ \A i \in 1..m : c[i + l] = b[i]
      <3>1. a \in Seq(W) /\ b \in Seq(W)
        BY <2>2
      <3>2. /\ c \in Seq(W) /\ Len(c) = l + Len(b)
            /\ (\A i \in 1..l : c[i] = a[i]) /\ \A i \in 1..Len(b) : c[i + l] = b[i]
        BY <3>1, PartsOfConcat DEF l
      <3> QED
        BY <2>2, <3>2, Zenon
    <2> HIDE DEF c
    <2>4. \A i \in 1..n : t[i] = c[i]
      <3> SUFFICES ASSUME NEW i \in 1..n PROVE t[i] = c[i]
        OBVIOUS
      <3>1. CASE i <= l
        <4>1. i \in 1..l
          BY <1>1, <1>3, <3>1
        <4> QED
          BY <1>1, <1>3, <2>3, <4>1, Zenon
      <3>2. CASE i > l
        <4> DEFINE j == i - l
        <4>1. j \in 1..m /\ j \in 1..Len(u) /\ j + l = i
          BY <1>1, <1>3, <2>1, <3>2
        <4> HIDE DEF j
        <4>2. t[j + l] = r[j + l]
          BY <1>3, <4>1, Zenon
        <4> QED
          BY <1>1, <2>2, <2>3, <4>1, <4>2, Zenon
      <3> QED
        BY <1>1, <1>3, <3>1, <3>2
    <2>5. t = c
      BY <1>3, <2>1, <2>3, <2>4, SeqEqual
    <2> QED
      BY <2>1, <2>5, Zenon DEF c, b, m
  <1>5. ASSUME NEW v \in Seq(W), NEW k \in Nat, n <= l + k, k <= Len(u), k <= Len(v),
               \A i \in 1..k : u[i] = v[i]
        PROVE  n \in 1..Len(a \o v) /\ t = SubSeq(a \o v, 1, n)
    <2> DEFINE x == a \o v
               c == SubSeq(x, 1, n)
    <2>1. /\ x \in Seq(W) /\ Len(x) = l + Len(v) /\ Len(v) \in Nat
          /\ (\A i \in 1..l : x[i] = a[i]) /\ \A i \in 1..Len(v) : x[i + l] = v[i]
      BY PartsOfConcat DEF l
    <2> HIDE DEF x
    <2>2. n \in 1..Len(x) /\ n \in 0..Len(x)
      BY <1>1, <1>3, <1>2, <1>5, <2>1
    <2>3. c \in Seq(W) /\ Len(c) = n /\ \A i \in 1..n : c[i] = x[i]
      BY <2>1, <2>2, PartOfBody
    <2> HIDE DEF c
    <2>4. \A i \in 1..n : t[i] = c[i]
      <3> SUFFICES ASSUME NEW i \in 1..n PROVE t[i] = c[i]
        OBVIOUS
      <3>1. CASE i <= l
        <4>1. i \in 1..l
          BY <1>1, <1>3, <3>1
        <4> QED
          BY <1>1, <1>3, <2>1, <2>3, <4>1, Zenon
      <3>2. CASE i > l
        <4> DEFINE j == i - l
        <4>1. j \in 1..k /\ j \in 1..Len(u) /\ j \in 1..Len(v) /\ j + l = i
          BY <1>1, <1>3, <1>5, <2>1, <3>2
        <4> HIDE DEF j
        <4>2. t[j + l] = r[j + l] /\ c[j + l] = x[j + l]
          BY <1>3, <2>3, <4>1, Zenon
        <4>3. u[j] = v[j]
          BY <1>5, <4>1
        <4> QED
          BY <1>1, <2>1, <4>1, <4>2, <4>3, Zenon
      <3> QED
        BY <1>1, <1>3, <3>1, <3>2
    <2>5. t = c
      BY <1>3, <2>3, <2>4, SeqEqual
    <2> QED
      BY <2>2, <2>5, Zenon DEF c, x
  <1> QED
    BY <1>4, <1>5, Zenon DEF t, r, l, CutBehind, CutBefore

\* What the entries of a listing are, up to one more item and with the end of the list.
ListingRead(W, items) ==
    /\ DirectoryEntries(Before(items)) = ShownItems(items)
    /\ CutsBegin(W, Before(items) \o NameStart, ShownItems(items))
    /\ DirectoryEntries(Listing(items)) = ShownItems(items)
    /\ CutsBegin(W, Listing(items), ShownItems(items))

\* The beginning of a name, character by character.
LEMMA NameStartLayout ==
    ASSUME NEW W, ListCharacters \subseteq W
    PROVE  /\ NameStart \in Seq(W) /\ Len(NameStart) = 3 /\ NameStart[1] = Quote
           /\ NameStart[2] = NameField /\ NameStart[3] = Quote
  <1>1. Quote \in W /\ NameField \in W
    BY Zenon DEF ListCharacters
  <1> HIDE DEF Quote, NameField
  <1> QED
    BY <1>1 DEF NameStart

\* The entries of a text with one more item behind what was read, cut anywhere.
LEMMA ItemAdded ==
    ASSUME NEW W, ListCharacters \subseteq W, NEW items \in Seq(NamedItems(W)),
           NEW item \in NamedItems(W), ListingRead(W, items),
           NEW follow \in {NextItem, <<ListEnd>>}
    PROVE  LET u == ItemRest(item) \o follow
               r == Before(items) \o u
               shown == ShownItems(Append(items, item)) IN
           /\ u \in Seq(W) /\ r \in Seq(W) /\ CutsBegin(W, r, shown)
           /\ \A n \in 1..Len(r) : n >= Len(Before(items)) + Len(Escaped(item.name)) + 20 =>
                  DirectoryEntries(SubSeq(r, 1, n)) = shown
  <1> DEFINE a == Before(items)
             l == Len(a)
             e == Escaped(item.name)
             w == ShownName(item.name)
             kind == Kind(item)
             u == ItemRest(item) \o follow
             r == a \o u
             s == ShownItems(items)
             z == ShownItem(item)
             shown == ShownItems(Append(items, item))
  <1>1. item \in ItemSet(W) /\ item.name # <<>>
    BY DEF NamedItems
  <1>2. /\ item.name \in Seq(W) /\ item.is_directory \in BOOLEAN /\ kind \in {Folder, File}
        /\ e \in Seq(W)
    BY <1>1, ItemRestType
  <1>3. /\ Quote \in W /\ Colon \in W /\ NameField \in W /\ TypeField \in W
        /\ Backslash \in W
    BY Zenon DEF ListCharacters
  <1>4. /\ QuotesEscaped(e) /\ w \in Seq(W) /\ w # <<>> /\ UpToQuote(w, e)
    BY <1>1, <1>2, <1>3, NameShown
  <1>5. u \in Seq(W) /\ ItemText(u, e, kind)
    BY <1>2, FollowedItem, Zenon DEF ItemRest
  <1>6. items \in Seq(ItemSet(W))
    <2>1. \A x \in NamedItems(W) : x \in ItemSet(W)
      BY ShownItemType
    <2>2. \A i \in 1..Len(items) : items[i] \in ItemSet(W)
      BY <2>1, ElementOfSeq
    <2> QED
      BY <2>2, Retyped
  <1>7. a \in Seq(W) /\ Ended(a)
    BY <1>6, BeforeType
  <1>8. /\ s \in Seq(ItemSet(W)) /\ z \in ItemSet(W) /\ shown = s \o <<z>>
    BY ShownNext
  <1>9. \A d \in BOOLEAN : Shape(w, d) \in ItemSet(W) /\ Shape(w, d).name = z.name
    BY <1>4 DEF Shape, ItemSet, ShownItem
  <1>10. z = Shape(w, kind = Folder)
    <2>1. (kind = Folder) = item.is_directory
      BY <1>2, CharactersDiffer, Zenon DEF Kind
    <2> QED
      BY <2>1, Zenon DEF ShownItem
  <1>11. DirectoryEntries(a) = s /\ CutsBegin(W, a \o NameStart, s)
    BY Zenon DEF ListingRead
  <1> HIDE DEF a, e, w, kind, u, s, z, shown
  <1>12. /\ r \in Seq(W) /\ Len(r) = l + Len(u) /\ l \in Nat /\ Len(u) \in Nat
         /\ Len(e) \in Nat
    BY <1>2, <1>5, <1>7, PartsOfConcat
  <1>13. /\ u[1] = Quote /\ u[2] = NameField /\ u[3] = Quote /\ Len(u) >= 22 + Len(e)
    <2>1. ItemText(u, e, kind)
      BY <1>5
    <2> HIDE DEF Quote, NameField
    <2>2. Len(e) \in Nat
      BY <1>12
    <2> QED
      BY <2>1, <2>2 DEF ItemText
  <1>14. ASSUME NEW n \in 1..Len(r), n > l + 3
         PROVE  LET t == DirectoryEntries(SubSeq(r, 1, n)) IN
                /\ t \in Seq(ItemSet(W)) /\ NamesBegin(t, shown)
                /\ n >= l + Len(e) + 20 => t = shown
    <2> DEFINE m == n - l
               b == SubSeq(u, 1, m)
               d == DirectoryEntries(b)
               t == DirectoryEntries(SubSeq(r, 1, n))
    <2>1. n > Len(a) /\ m \in 4..Len(u) /\ m >= 4
      BY <1>12, <1>14
    <2>2. SubSeq(r, 1, n) = a \o b
      <3>1. CutBehind(a, u, n)
        BY <1>5, <1>7, CutOfConcat
      <3> QED
        BY <2>1, <3>1, Zenon DEF CutBehind
    <2>3. b \in Seq(W) /\ NamedAt(b, NameField, 1)
      BY <1>2, <1>3, <1>4, <1>5, <2>1, ItemCut
    <2>4. /\ d = <<>> \/ \E f \in BOOLEAN : d = <<Shape(w, f)>>
          /\ m >= Len(e) + 20 => d = <<Shape(w, kind = Folder)>>
      <3> HIDE DEF m
      <3>1. m \in 4..Len(u)
        BY <2>1
      <3> QED
        BY <1>2, <1>3, <1>4, <1>5, <3>1, ItemEntry
    <2>5. m >= Len(e) + 20 => d = <<z>>
      BY <1>10, <2>4, Zenon
    <2> HIDE DEF b, d
    <2>6. DirectoryEntries(a \o b) = s \o d
      <3>1. a \in Seq(W) /\ b \in Seq(W) /\ Ended(a) /\ NamedAt(b, NameField, 1)
        BY <1>7, <2>3
      <3>2. DirectoryEntries(a \o b) = DirectoryEntries(a) \o DirectoryEntries(b)
        BY <1>3, <3>1, EntriesConcat
      <3> QED
        BY <1>11, <3>2, Zenon DEF d
    <2>7. t = s \o d
      BY <2>2, <2>6, Zenon
    <2>8. ASSUME d = <<>> PROVE s \o d = s
      BY <1>8, <2>8
    <2>9. t \in Seq(ItemSet(W)) /\ NamesBegin(t, shown)
      <3>1. CASE d = <<>>
        <4>1. t = s
          BY <2>7, <2>8, <3>1, Zenon
        <4>2. NamesBegin(s, s \o <<z>>)
          BY <1>8, BeginsNext
        <4> QED
          BY <1>8, <4>1, <4>2, Zenon
      <3>2. CASE \E f \in BOOLEAN : d = <<Shape(w, f)>>
        <4> PICK f \in BOOLEAN : d = <<Shape(w, f)>>
          BY <3>2
        <4> DEFINE x == Shape(w, f)
        <4>1. x \in ItemSet(W) /\ x.name = z.name
          BY <1>9
        <4>2. t = s \o <<x>>
          BY <2>7, Zenon
        <4> HIDE DEF x, t
        <4>3. NamesBegin(s \o <<x>>, s \o <<z>>)
          BY <1>8, <4>1, BeginsNext
        <4>4. s \o <<x>> \in Seq(ItemSet(W))
          BY <1>8, <4>1
        <4> QED
          BY <1>8, <4>2, <4>3, <4>4, Zenon
      <3> QED
        BY <2>4, <3>1, <3>2, Zenon
    <2>10. n >= l + Len(e) + 20 => t = shown
      <3>1. n >= l + Len(e) + 20 => m >= Len(e) + 20
        BY <1>12, <1>14
      <3> HIDE DEF m, t
      <3> QED
        BY <1>8, <2>5, <2>7, <3>1, Zenon
    <2> QED
      BY <2>9, <2>10
  <1>15. ASSUME NEW n \in 1..Len(r), n <= l + 3
         PROVE  LET t == DirectoryEntries(SubSeq(r, 1, n)) IN
                /\ t \in Seq(ItemSet(W)) /\ NamesBegin(t, shown)
    <2> DEFINE v == NameStart
               x == a \o v
               t == DirectoryEntries(SubSeq(r, 1, n))
    <2>1. v \in Seq(W) /\ Len(v) = 3 /\ v[1] = Quote /\ v[2] = NameField /\ v[3] = Quote
      BY NameStartLayout
    <2> HIDE DEF v
    <2>2. 3 \in Nat /\ 3 <= Len(u) /\ 3 <= Len(v)
      BY <1>12, <1>13, <2>1
    <2>3. \A i \in 1..3 : i = 1 \/ i = 2 \/ i = 3
      OBVIOUS
    <2>4. \A i \in 1..3 : u[i] = v[i]
      BY <1>13, <2>1, <2>3, Zenon
    <2>5. n \in 1..Len(x) /\ SubSeq(r, 1, n) = SubSeq(x, 1, n)
      <3>1. n <= Len(a) + 3
        BY <1>15
      <3>2. CutBefore(a, u, v, 3, n)
        <4>1. \A y \in Seq(W) : \A k \in Nat : CutBefore(a, u, y, k, n)
          BY <1>5, <1>7, CutOfConcat
        <4> QED
          BY <2>1, <2>2, <4>1
      <3> QED
        BY <2>2, <2>4, <3>1, <3>2, Zenon DEF CutBefore
    <2>6. t \in Seq(ItemSet(W)) /\ NamesBegin(t, s)
      <3>1. CutsBegin(W, x, s)
        BY <1>11, Zenon DEF v
      <3> HIDE DEF x
      <3> QED
        BY <2>5, <3>1, Zenon DEF CutsBegin
    <2> HIDE DEF t
    <2>7. NamesBegin(t, s \o <<z>>)
      BY <1>8, <2>6, BeginsNext
    <2> QED
      BY <1>8, <2>6, <2>7, Zenon DEF t
  <1>16. \A n \in 1..Len(r) : n > l + 3 \/ n <= l + 3
    BY <1>12
  <1>17. \A n \in 1..Len(r) : n >= l + Len(e) + 20 => n > l + 3
    BY <1>12
  <1>18. CutsBegin(W, r, shown)
    BY <1>14, <1>15, <1>16, Zenon DEF CutsBegin
  <1>19. \A n \in 1..Len(r) : n >= l + Len(e) + 20 =>
             DirectoryEntries(SubSeq(r, 1, n)) = shown
    BY <1>14, <1>17, Zenon
  <1> QED
    BY <1>5, <1>12, <1>18, <1>19, Zenon DEF a, e, u, shown

\* The empty folder.
LEMMA NothingRead ==
    ASSUME NEW W, ListCharacters \subseteq W
    PROVE  ListingRead(W, <<>>)
  <1> DEFINE none == <<>>
             b == <<ListBegin>>
             o == <<Opening>>
             f == <<ListEnd>>
             v == NameStart
             x == <<ListBegin, Opening>>
             y == <<ListBegin, ListEnd>>
  <1>1. /\ ListBegin \in W /\ Opening \in W /\ ListEnd \in W /\ Quote \in W /\ Colon \in W
        /\ NameField \in W
        /\ ListBegin # Colon /\ Opening # Colon /\ ListEnd # Colon /\ Quote # Colon
        /\ NameField # Colon
    <2>1. ListBegin # Colon /\ ListEnd # Colon
      BY Zenon DEF ListBegin, Colon, ListEnd
    <2> QED
      BY <2>1, CharactersDiffer, Zenon DEF ListCharacters
  <1>2. none \in Seq(ItemSet(W)) /\ Pieces(none) = <<>> /\ FlattenSeq(<<>>) = <<>>
    <2>1. Pieces(none) = <<>>
      BY DEF Pieces
    <2> QED
      <3> DEFINE e == <<>>
      <3>1. e \in Seq(Seq(W)) /\ \A i \in 1..Len(e) : e[i] = <<>>
        OBVIOUS
      <3> HIDE DEF e
      <3>2. FlattenSeq(e) = <<>>
        BY <3>1, FlattenNothing
      <3>3. none \in Seq(ItemSet(W))
        OBVIOUS
      <3> QED
        BY <2>1, <3>2, <3>3, Zenon DEF e
  <1>3. b \in Seq(W) /\ b \o <<>> = b
    BY <1>1
  <1>4. Before(none) = x
    <2>1. Before(none) = (b \o <<>>) \o o
      BY <1>2, Zenon DEF Before
    <2>2. b \o o = x
      BY <1>1, PairOfSingles
    <2> QED
      BY <1>3, <2>1, <2>2, Zenon
  <1>5. Listing(none) = y
    <2>1. Listing(none) = (b \o <<>>) \o f
      BY <1>2, ListingIs, Zenon
    <2>2. b \o f = y
      BY <1>1, PairOfSingles
    <2> QED
      BY <1>3, <2>1, <2>2, Zenon
  <1>6. ShownItems(none) = <<>>
    BY ShownNothing
  <1>7. /\ x \in Seq(W) /\ Len(x) = 2 /\ x[1] = ListBegin /\ x[2] = Opening
        /\ y \in Seq(W) /\ Len(y) = 2 /\ y[1] = ListBegin /\ y[2] = ListEnd
    <2> HIDE DEF ListBegin, Opening, ListEnd
    <2> QED
      BY <1>1
  <1>8. /\ v \in Seq(W) /\ Len(v) = 3 /\ v[1] = Quote
        /\ v[2] = NameField /\ v[3] = Quote
    BY NameStartLayout
  <1> HIDE DEF x, y, v, none
  <1> DEFINE z == x \o v
  <1>9. /\ z \in Seq(W) /\ Len(z) = 5 /\ z[1] = ListBegin /\ z[2] = Opening /\ z[3] = Quote
        /\ z[4] = NameField /\ z[5] = Quote
    <2>1. /\ z \in Seq(W) /\ Len(z) = Len(x) + Len(v)
          /\ (\A i \in 1..Len(x) : z[i] = x[i])
          /\ \A i \in 1..Len(v) : z[i + Len(x)] = v[i]
      <3>1. x \in Seq(W) /\ v \in Seq(W)
        BY <1>7, <1>8
      <3> QED
        BY <3>1, PartsOfConcat
    <2> HIDE DEF z
    <2>2. /\ z[1] = x[1] /\ z[2] = x[2] /\ z[1 + 2] = v[1] /\ z[2 + 2] = v[2]
          /\ z[3 + 2] = v[3] /\ Len(z) = 2 + 3
      <3>1. 1 \in 1..2 /\ 2 \in 1..2 /\ 1 \in 1..3 /\ 2 \in 1..3 /\ 3 \in 1..3
        OBVIOUS
      <3> QED
        BY <1>7, <1>8, <2>1, <3>1, Zenon
    <2>3. 1 + 2 = 3 /\ 2 + 2 = 4 /\ 3 + 2 = 5 /\ 2 + 3 = 5
      OBVIOUS
    <2> QED
      BY <1>7, <1>8, <2>1, <2>2, <2>3, Zenon
  <1> HIDE DEF z
  <1>10. /\ \A i \in 1..5 : i = 1 \/ i = 2 \/ i = 3 \/ i = 4 \/ i = 5
         /\ \A i \in 1..2 : i = 1 \/ i = 2
    OBVIOUS
  <1>11. /\ \A i \in 1..Len(x) : x[i] # Colon
         /\ \A i \in 1..Len(y) : y[i] # Colon
         /\ \A i \in 1..Len(z) : z[i] # Colon
    BY <1>1, <1>7, <1>9, <1>10, Zenon
  <1>12. ASSUME NEW t \in Seq(W), \A i \in 1..Len(t) : t[i] # Colon
         PROVE  DirectoryEntries(t) = <<>> /\ CutsBegin(W, t, <<>>)
    <2>1. DirectoryEntries(t) = <<>>
      BY <1>1, <1>12, NoEntries
    <2>2. NamesBegin(<<>>, <<>>) /\ <<>> \in Seq(ItemSet(W))
      BY DEF NamesBegin
    <2>3. CutsBegin(W, t, <<>>)
      <3> SUFFICES ASSUME NEW n \in 1..Len(t)
                   PROVE  DirectoryEntries(SubSeq(t, 1, n)) = <<>>
        BY <2>2, Zenon DEF CutsBegin
      <3> DEFINE c == SubSeq(t, 1, n)
      <3>1. n \in 0..Len(t)
        BY LenProperties
      <3>2. c \in Seq(W) /\ Len(c) = n /\ \A i \in 1..n : c[i] = t[i]
        BY <3>1, PartOfBody
      <3> HIDE DEF c
      <3>3. \A i \in 1..n : i \in 1..Len(t)
        BY <3>1, LenProperties
      <3>4. \A i \in 1..Len(c) : c[i] # Colon
        BY <1>12, <3>2, <3>3, Zenon
      <3>5. DirectoryEntries(c) = <<>>
        BY <1>1, <3>2, <3>4, NoEntries
      <3> QED
        BY <3>5, Zenon DEF c
    <2> QED
      BY <2>1, <2>3
  <1>13. /\ DirectoryEntries(x) = <<>> /\ DirectoryEntries(y) = <<>>
         /\ CutsBegin(W, z, <<>>) /\ CutsBegin(W, y, <<>>)
    BY <1>7, <1>9, <1>11, <1>12, Zenon
  <1> QED
    BY <1>4, <1>5, <1>6, <1>13, Zenon DEF ListingRead, none, z, v

\* The beginning of the next item.
LEMMA FollowIs ==
    ASSUME NEW W, ListCharacters \subseteq W
    PROVE  <<Comma, Opening>> \o NameStart = NextItem
  <1> DEFINE a == <<Comma, Opening>>
             u == a \o NameStart
             d == NextItem
  <1>1. Comma \in W /\ Opening \in W /\ Quote \in W /\ NameField \in W
    BY Zenon DEF ListCharacters
  <1>2. u \in Seq(W) /\ Len(u) = 5 /\ u[1] = Comma /\ u[2] = Opening /\ u[3] = Quote
        /\ u[4] = NameField /\ u[5] = Quote
    <2> HIDE DEF Comma, Opening, Quote, NameField
    <2> QED
      BY <1>1 DEF NameStart
  <1>3. d \in Seq(W) /\ Len(d) = 5 /\ d[1] = Comma /\ d[2] = Opening /\ d[3] = Quote
        /\ d[4] = NameField /\ d[5] = Quote
    BY FollowLayout
  <1> HIDE DEF u, d
  <1>4. \A i \in 1..5 : i = 1 \/ i = 2 \/ i = 3 \/ i = 4 \/ i = 5
    OBVIOUS
  <1>5. \A i \in 1..5 : u[i] = d[i]
    BY <1>2, <1>3, <1>4, Zenon
  <1>6. u = d
    BY <1>2, <1>3, <1>5, SeqEqual
  <1> QED
    BY <1>6, Zenon DEF u, d

\* One item more: the step of the induction.
LEMMA ReadNext ==
    ASSUME NEW W, ListCharacters \subseteq W, NEW items \in Seq(NamedItems(W)),
           NEW item \in NamedItems(W), ListingRead(W, items)
    PROVE  ListingRead(W, Append(items, item))
  <1> DEFINE all == Append(items, item)
             a == Before(items)
             l == Len(a)
             e == Escaped(item.name)
             rest == ItemRest(item)
             t == <<Comma, Opening>>
             f == <<ListEnd>>
             v == NameStart
             q == rest \o NextItem
             r == a \o q
             p == rest \o f
             z == a \o p
             y == Before(all)
             shown == ShownItems(all)
  <1>1. items \in Seq(ItemSet(W)) /\ item \in ItemSet(W)
    <2>1. \A x \in NamedItems(W) : x \in ItemSet(W)
      BY ShownItemType
    <2>2. \A i \in 1..Len(items) : items[i] \in ItemSet(W)
      BY <2>1, ElementOfSeq
    <2> QED
      BY <2>1, <2>2, Retyped
  <1>2. /\ q \in Seq(W) /\ r \in Seq(W) /\ CutsBegin(W, r, shown)
        /\ \A n \in 1..Len(r) : n >= l + Len(e) + 20 => DirectoryEntries(SubSeq(r, 1, n)) = shown
    BY ItemAdded, Zenon
  <1>3. /\ p \in Seq(W) /\ z \in Seq(W) /\ CutsBegin(W, z, shown)
        /\ \A n \in 1..Len(z) : n >= l + Len(e) + 20 => DirectoryEntries(SubSeq(z, 1, n)) = shown
    BY ItemAdded, Zenon
  <1>4. y = a \o (rest \o t) /\ Listing(all) = z
    BY <1>1, BeforeNext
  <1>5. /\ a \in Seq(W) /\ rest \in Seq(W) /\ e \in Seq(W) /\ t \in Seq(W) /\ v \in Seq(W)
        /\ f \in Seq(W)
    <2>1. a \in Seq(W)
      BY <1>1, BeforeType
    <2>2. rest \in Seq(W) /\ e \in Seq(W)
      BY <1>1, ItemRestType
    <2>3. t \in Seq(W) /\ f \in Seq(W)
      BY FollowLayout
    <2> QED
      BY <2>1, <2>2, <2>3, NameStartLayout
  <1>6. t \o v = NextItem
    BY FollowIs
  <1>7. Len(t) = 2 /\ Len(f) = 1 /\ Len(v) = 3
    <2>1. Len(t) = 2 /\ Len(f) = 1
      OBVIOUS
    <2> QED
      BY <2>1, NameStartLayout
  <1>8. Len(rest) = Len(e) + 21 /\ Len(e) \in Nat
    <2>1. Kind(item) \in {Folder, File}
      BY <1>1, ItemRestType
    <2> QED
      BY <1>5, <2>1, ItemBodyLayout, Zenon DEF ItemRest
  <1> HIDE DEF a, rest, t, v, f, e, shown, all, y
  <1>9. y \o v = r
    <2>0. \A x1, x2, x3 \in Seq(W) : (x1 \o x2) \o x3 = x1 \o (x2 \o x3)
      BY Reassociated, SMTT(30)
    <2> DEFINE g == rest \o t
    <2>1. g \in Seq(W)
      BY <1>5, ConcatProperties
    <2>2. (a \o g) \o v = a \o (g \o v)
      <3> HIDE DEF g
      <3>1. \A x2, x3 \in Seq(W) : (a \o x2) \o x3 = a \o (x2 \o x3)
        BY <1>5, <2>0, Zenon
      <3>2. \A x3 \in Seq(W) : (a \o g) \o x3 = a \o (g \o x3)
        BY <2>1, <3>1, Zenon
      <3> QED
        BY <1>5, <3>2, Zenon
    <2>3. (rest \o t) \o v = rest \o (t \o v)
      <3>1. \A x2, x3 \in Seq(W) : (rest \o x2) \o x3 = rest \o (x2 \o x3)
        BY <1>5, <2>0, Zenon
      <3>2. \A x3 \in Seq(W) : (rest \o t) \o x3 = rest \o (t \o x3)
        BY <1>5, <3>1, Zenon
      <3> QED
        BY <1>5, <3>2, Zenon
    <2> QED
      BY <1>4, <1>6, <2>2, <2>3, Zenon
  <1>10. y \in Seq(W) /\ Len(y) = (l + (Len(e) + 21)) + 2 /\ l \in Nat
    <2> DEFINE g == rest \o t
    <2>1. g \in Seq(W) /\ Len(g) = Len(rest) + Len(t)
      BY <1>5, PartsOfConcat
    <2> HIDE DEF g
    <2>2. a \o g \in Seq(W) /\ Len(a \o g) = l + Len(g) /\ l \in Nat
      BY <1>5, <2>1, PartsOfConcat
    <2>3. y = a \o g
      BY <1>4, Zenon DEF g
    <2>4. Len(y) = l + ((Len(e) + 21) + 2)
      BY <1>7, <1>8, <2>1, <2>2, <2>3, Zenon
    <2>5. l + ((Len(e) + 21) + 2) = (l + (Len(e) + 21)) + 2
      BY <1>8, <2>2
    <2> QED
      BY <2>2, <2>3, <2>4, <2>5, Zenon
  <1>11. DirectoryEntries(y) = shown
    <2> DEFINE n == Len(y)
               c == SubSeq(r, 1, n)
    <2>1. /\ r \in Seq(W) /\ Len(r) = n + 3 /\ n \in Nat /\ \A i \in 1..n : r[i] = y[i]
      <3>1. /\ y \o v \in Seq(W) /\ Len(y \o v) = Len(y) + Len(v) /\ Len(y) \in Nat
            /\ \A i \in 1..Len(y) : (y \o v)[i] = y[i]
        BY <1>5, <1>10, PartsOfConcat
      <3> QED
        BY <1>7, <1>9, <3>1, Zenon
    <2>2. n \in 1..Len(r) /\ n \in 0..Len(r) /\ n >= l + Len(e) + 20
      <3>1. n >= l + Len(e) + 20 /\ n >= 1
        BY <1>8, <1>10
      <3> HIDE DEF n, r
      <3> QED
        BY <2>1, <3>1
    <2> HIDE DEF r
    <2>3. c \in Seq(W) /\ Len(c) = n /\ \A i \in 1..n : c[i] = r[i]
      BY <2>1, <2>2, PartOfBody
    <2> HIDE DEF c
    <2>4. \A i \in 1..n : c[i] = y[i]
      BY <2>1, <2>3, Zenon
    <2>5. c = y
      BY <1>10, <2>1, <2>3, <2>4, SeqEqual
    <2> QED
      BY <1>2, <2>2, <2>5, Zenon DEF c, r
  <1>12. DirectoryEntries(z) = shown
    <2> DEFINE n == Len(z)
    <2> HIDE DEF z
    <2>1. n \in Nat /\ n >= l + Len(e) + 20
      <3>1. Len(p) = Len(rest) + Len(f)
        BY <1>5, PartsOfConcat
      <3>2. p \in Seq(W)
        BY <1>3
      <3> HIDE DEF p
      <3>3. n = l + Len(p)
        <4>1. Len(a \o p) = Len(a) + Len(p)
          BY <1>5, <3>2, PartsOfConcat
        <4> QED
          BY <4>1, Zenon DEF z
      <3>4. n = l + ((Len(e) + 21) + 1)
        BY <1>7, <1>8, <3>1, <3>3, Zenon
      <3> HIDE DEF n
      <3> QED
        BY <1>8, <1>10, <3>4
    <2>2. n \in 1..Len(z)
      BY <1>8, <1>10, <2>1
    <2>3. SubSeq(z, 1, n) = z
      BY <1>3
    <2> QED
      BY <1>3, <2>1, <2>2, <2>3, Zenon
  <1> QED
    BY <1>2, <1>3, <1>4, <1>9, <1>11, <1>12, Zenon DEF ListingRead, y, v, shown, all

\* Every listing is read so: induction over the items.
LEMMA EveryListingRead ==
    ASSUME NEW W, ListCharacters \subseteq W
    PROVE  \A items \in Seq(NamedItems(W)) : ListingRead(W, items)
  <1> DEFINE X == NamedItems(W)
             T == {items \in Seq(X) : ListingRead(W, items)}
  <1>1. <<>> \in T
    BY NothingRead
  <1>2. \A s \in T : \A c \in X : Append(s, c) \in T
    <2> SUFFICES ASSUME NEW s \in T, NEW c \in X PROVE Append(s, c) \in T
      OBVIOUS
    <2>1. ListingRead(W, Append(s, c))
      BY ReadNext
    <2> QED
      BY <2>1, AppendProperties
  <1>3. T \in SUBSET Seq(X)
    OBVIOUS
  <1> HIDE DEF T, X
  <1>4. T = Seq(X)
    BY <1>1, <1>2, <1>3, SeqInduction
  <1> QED
    BY <1>4 DEF T, X

\* Nothing is left of nothing.
LEMMA ContentsOfNothing ==
    ASSUME NEW V, NEW c \in Seq(V), Len(c) = 0
    PROVE  Contents(c).entries = <<>> /\ Contents(c).content = <<>>
  <1>1. c = <<>> /\ DOMAIN c = {}
    <2>1. c = <<>>
      BY EmptySeq
    <2> QED
      BY <2>1
  <1>2. ~LooksLikeJsonArray(c)
    <2> DEFINE s == SkipBlanks(c, 1)
    <2>1. s = Len(c) + 1
      <3>1. 1 = Len(c) + 1 /\ 1 \in Nat /\ 1 >= 1
        OBVIOUS
      <3> QED
        BY <3>1, BlanksSkipped
    <2> HIDE DEF s
    <2>2. ~(s <= Len(c))
      BY <2>1
    <2> QED
      BY <2>2, Zenon DEF LooksLikeJsonArray, s
  <1>3. ExtractJsonField(c, "content") = <<>>
    <2>1. Positions(c, "content") = {}
      BY <1>1, Zenon DEF Positions
    <2> QED
      BY <2>1, Zenon DEF ExtractJsonField
  <1>4. StripNewlineEscapes(<<>>) = <<>>
    <2> DEFINE e == <<>>
    <2>1. e \in Seq(Seq(V)) /\ \A i \in 1..Len(e) : e[i] = <<>>
      OBVIOUS
    <2>2. StripNewlineEscapes(e) = FlattenSeq(e)
      BY DEF StripNewlineEscapes
    <2> HIDE DEF e
    <2>3. FlattenSeq(e) = <<>>
      BY <2>1, FlattenNothing
    <2> QED
      BY <2>2, <2>3, Zenon DEF e
  <1>5. Contents(c) = [entries |-> <<>>, content |-> <<>>]
    BY <1>2, <1>3, <1>4, Zenon DEF Contents
  <1> QED
    BY <1>5

\* An answer that begins as a list is read as the listing of a folder.
LEMMA ContentsOfList ==
    ASSUME NEW V, NEW c \in Seq(V), Len(c) >= 1, c[1] = ListBegin
    PROVE  Contents(c).entries = DirectoryEntries(c) /\ Contents(c).content = <<>>
  <1> DEFINE n == Len(c)
             T == {i \in 1..n : Filled(c, i)}
             s == SkipBlanks(c, 1)
  <1>1. n \in Nat /\ n >= 1
    BY LenProperties
  <1>2. s = Min(T \cup {n + 1})
    BY Zenon DEF SkipBlanks, Filled
  <1>3. Filled(c, 1)
    BY Zenon DEF Filled, ListBegin
  <1>4. T \in SUBSET Nat /\ (\A i \in T : i <= n /\ i >= 1) /\ 1 \in T
    BY <1>1, <1>3
  <1> HIDE DEF T
  <1>5. Min(T \cup {n + 1}) = 1
    BY <1>1, <1>4, FirstFound
  <1> HIDE DEF n, s
  <1>6. s = 1 /\ s <= n
    <2>1. s = 1
      BY <1>2, <1>5
    <2> QED
      BY <1>1, <2>1
  <1>7. LooksLikeJsonArray(c)
    BY <1>6, Zenon DEF LooksLikeJsonArray, s, n, ListBegin
  <1> DEFINE d == DirectoryEntries(c)
  <1>8. Contents(c) = [entries |-> d, content |-> <<>>]
    BY <1>7, Zenon DEF Contents
  <1> HIDE DEF d
  <1>9. Contents(c).entries = d /\ Contents(c).content = <<>>
    BY <1>8
  <1> QED
    BY <1>9, Zenon DEF d

\* Where the item before begins is a number.
LEMMA GreatestEarlier ==
    ASSUME NEW n \in Nat, NEW S \in SUBSET (1..n), NEW i \in 1..n
    PROVE  Max({j \in S : j < i} \cup {0}) \in Nat
  <1> DEFINE T == {j \in S : j < i} \cup {0}
  <1>1. (\A y \in T : y \in 0..n) /\ 0 \in T
    OBVIOUS
  <1>2. \A y \in T : y \in Nat
    OBVIOUS
  <1> HIDE DEF T
  <1>3. T \in SUBSET (0..n) /\ T # {}
    BY <1>1
  <1>4. Max(T) \in Nat
    BY <1>2, <1>3, GreatestOfSome
  <1> QED
    BY <1>4 DEF T

\* The items of a text are those of a folder.
LEMMA ItemsType ==
    ASSUME NEW W, text \in Seq(W)
    PROVE  Items \in Seq(ItemSet(W))
  <1> DEFINE n == Len(text)
             ends == {i \in DOMAIN text : text[i] \in {"file", "dir"}}
             Earlier(i) == {j \in ends : j < i} \cup {0}
             Start(i) == Max(Earlier(i)) + 1
             Found(i) == IF i \in ends
                         THEN <<[name |-> SubSeq(text, Start(i), i - 1),
                                 is_directory |-> text[i] = "dir"]>>
                         ELSE <<>>
             h == [i \in DOMAIN text |-> Found(i)]
  <1>1. n \in Nat /\ DOMAIN text = 1..n
    BY LenProperties
  <1>2. Items = FlattenSeq(h)
    BY Zenon DEF Items
  <1>3. ends \in SUBSET (1..n)
    BY <1>1
  <1> HIDE DEF ends, n
  <1>4. \A i \in 1..n : Max(Earlier(i)) \in Nat
    BY <1>1, <1>3, GreatestEarlier
  <1> HIDE DEF Earlier
  <1>5. \A i \in 1..n : Found(i) \in Seq(ItemSet(W))
    <2> SUFFICES ASSUME NEW i \in 1..n PROVE Found(i) \in Seq(ItemSet(W))
      OBVIOUS
    <2> DEFINE name == SubSeq(text, Start(i), i - 1)
               d == text[i] = "dir"
               it == [name |-> name, is_directory |-> d]
    <2>1. Start(i) \in Nat /\ Start(i) >= 1 /\ i - 1 <= n /\ i - 1 \in Nat
      BY <1>1, <1>4
    <2> HIDE DEF Start
    <2>2. name \in Seq(W)
      <3> DEFINE k == Start(i)
                 l == i - 1
      <3>1. k \in Nat /\ k >= 1 /\ l <= Len(text) /\ l \in Nat
        BY <2>1 DEF n
      <3> HIDE DEF k, l
      <3> QED
        BY <3>1 DEF k, l
    <2>3. d \in BOOLEAN
      BY Zenon
    <2> HIDE DEF name, d
    <2>4. it \in ItemSet(W)
      BY <2>2, <2>3 DEF ItemSet
    <2>5. Found(i) = <<it>> \/ Found(i) = <<>>
      BY Zenon DEF name, d
    <2> HIDE DEF it, Found
    <2>6. <<it>> \in Seq(ItemSet(W)) /\ <<>> \in Seq(ItemSet(W))
      BY <2>4
    <2> QED
      BY <2>5, <2>6
  <1> HIDE DEF Found
  <1>6. h \in [1..n -> Seq(ItemSet(W))]
    BY <1>1, <1>5
  <1> HIDE DEF h
  <1> DEFINE Y == Seq(ItemSet(W))
  <1>7. h \in Seq(Y)
    <2>1. h \in [1..n -> Y]
      BY <1>6
    <2> HIDE DEF Y
    <2> QED
      BY <1>1, <2>1, FunctionSeq
  <1>8. FlattenSeq(h) \in Seq(ItemSet(W))
    <2>1. <<>> \in Seq(ItemSet(W))
      OBVIOUS
    <2> QED
      BY <1>7, <2>1, FlattenProperties
  <1> QED
    BY <1>2, <1>8

\* A listing is a text that begins as a list.
LEMMA ListingType ==
    ASSUME NEW W, ListCharacters \subseteq W, NEW items \in Seq(ItemSet(W))
    PROVE  /\ Listing(items) \in Seq(W) /\ Len(Listing(items)) >= 1
           /\ Listing(items)[1] = ListBegin
  <1> DEFINE p == FlattenSeq(Pieces(items))
             a == ListBegin
             b == ListEnd
  <1>1. a \in W /\ b \in W
    BY Zenon DEF ListCharacters
  <1>2. p \in Seq(W)
    <2> DEFINE x == [name |-> <<>>, is_directory |-> FALSE]
    <2>1. x \in ItemSet(W)
      BY DEF ItemSet
    <2> HIDE DEF x
    <2> QED
      BY <2>1, PiecesNext
  <1>3. Listing(items) = (<<a>> \o p) \o <<b>>
    BY ListingIs
  <1> HIDE DEF a, b, p
  <1> DEFINE r == <<a>> \o p \o <<b>>
  <1>4. r \in Seq(W) /\ Len(r) = Len(p) + 2 /\ r[1] = a /\ Len(p) \in Nat
    BY <1>1, <1>2, Enclosed, LenProperties
  <1> HIDE DEF r
  <1>5. Listing(items) = r
    BY <1>3, Zenon DEF r
  <1>6. Len(r) >= 1
    BY <1>4
  <1> QED
    BY <1>4, <1>5, <1>6, Zenon DEF a

\* The names of some entries that begin others', as prefixes.
EntryNames(entries) == [i \in DOMAIN entries |-> entries[i].name]

\* Names that begin others are a prefix of them.
LEMMA NamesArePrefix ==
    ASSUME NEW W, NEW p \in Seq(ItemSet(W)), NEW q \in Seq(ItemSet(W)), NamesBegin(p, q)
    PROVE  IsPrefix(EntryNames(p), EntryNames(q))
  <1> DEFINE s == EntryNames(p)
             t == EntryNames(q)
             n == Len(p)
             m == Len(q)
             c == SubSeq(s, 1, n)
             d == SubSeq(t, 1, n)
  <1>1. n \in Nat /\ m \in Nat /\ DOMAIN p = 1..n /\ DOMAIN q = 1..m
    BY LenProperties
  <1>2. n <= m /\ \A i \in 1..n : p[i].name = q[i].name
    BY Zenon DEF NamesBegin
  <1>3. /\ \A i \in 1..n : p[i].name \in Seq(W)
        /\ \A i \in 1..m : q[i].name \in Seq(W)
    <2>1. (\A i \in 1..n : p[i] \in ItemSet(W)) /\ (\A i \in 1..m : q[i] \in ItemSet(W))
      BY ElementOfSeq
    <2>2. \A x \in ItemSet(W) : x.name \in Seq(W)
      BY DEF ItemSet
    <2> QED
      BY <2>1, <2>2, Zenon
  <1> HIDE DEF n, m
  <1>4. /\ s = [i \in 1..n |-> p[i].name]
        /\ t = [i \in 1..m |-> q[i].name]
    BY <1>1, Zenon DEF EntryNames
  <1> DEFINE Y == Seq(W)
  <1>5. /\ s \in [1..n -> Y] /\ t \in [1..m -> Y]
        /\ (\A i \in 1..n : s[i] = p[i].name) /\ (\A i \in 1..m : t[i] = q[i].name)
    BY <1>3, <1>4
  <1> HIDE DEF s, t, Y
  <1>6. s \in Seq(Y) /\ Len(s) = n /\ t \in Seq(Y) /\ Len(t) = m
    BY <1>1, <1>5, FunctionSeq
  <1>7. /\ c \in Seq(Y) /\ Len(c) = n /\ (\A i \in 1..n : c[i] = s[i])
        /\ d \in Seq(Y) /\ Len(d) = n /\ (\A i \in 1..n : d[i] = t[i])
    <2>1. n \in 0..Len(s) /\ n \in 0..Len(t)
      BY <1>1, <1>2, <1>6
    <2> QED
      BY <1>6, <2>1, PartOfBody
  <1> HIDE DEF c, d
  <1>8. \A i \in 1..n : i \in 1..m
    BY <1>1, <1>2
  <1>9. \A i \in 1..n : c[i] = d[i]
    BY <1>2, <1>5, <1>7, <1>8, Zenon
  <1>10. c = d
    BY <1>7, <1>9, SeqEqual
  <1> QED
    BY <1>2, <1>6, <1>10, Zenon DEF IsPrefix, c, d, s, t

\* An item with another name.
LEMMA NameReplaced ==
    ASSUME NEW W, NEW item \in ItemSet(W), NEW x
    PROVE  [item EXCEPT !.name = x] = Shape(x, item.is_directory)
  BY DEF ItemSet, Shape

\* What ListingIsTheFolder says of any text.
LEMMA ListingReadCorrect ==
    ASSUME Typing
    PROVE  ListingIsTheFolder
  <1> DEFINE body == Listing(Items)
             shown == [i \in DOMAIN Items |->
                          [Items[i] EXCEPT !.name = ShownName(Items[i].name)]]
             Parts == \A part \in Cuts(body) :
                          /\ IsPrefix(EntryNames(Contents(part).entries), EntryNames(shown))
                          /\ Contents(part).content = <<>>
  <1>1. (format = "listing" /\ (\A i \in DOMAIN Items : Items[i].name # <<>>) =>
             Contents(body).entries = shown /\ Parts) => ListingIsTheFolder
    BY Zenon DEF ListingIsTheFolder, EntryNames, ShownName
  <1> SUFFICES ASSUME format = "listing", \A i \in DOMAIN Items : Items[i].name # <<>>
               PROVE  Contents(body).entries = shown /\ Parts
    BY <1>1, Zenon
  <1> DEFINE W == Alphabets["listing"] \cup ListCharacters
             items == Items
  <1>2. text \in Seq(W) /\ ListCharacters \subseteq W
    <2> DEFINE V == Alphabets["listing"]
    <2>1. text \in Seq(V)
      BY Zenon DEF Typing
    <2>2. \A c \in V : c \in W
      OBVIOUS
    <2>3. ListCharacters \subseteq W
      OBVIOUS
    <2> HIDE DEF V, W
    <2>4. \A i \in 1..Len(text) : text[i] \in W
      BY <2>1, <2>2, ElementOfSeq
    <2> QED
      BY <2>1, <2>3, <2>4, Retyped
  <1> HIDE DEF W
  <1>3. items \in Seq(ItemSet(W))
    BY <1>2, ItemsType
  <1> HIDE DEF items
  <1>4. DOMAIN items = 1..Len(items) /\ \A i \in 1..Len(items) : items[i] \in ItemSet(W)
    BY <1>3, LenProperties, ElementOfSeq
  <1>5. items \in Seq(NamedItems(W))
    <2>1. \A i \in 1..Len(items) : items[i].name # <<>>
      BY <1>4, Zenon DEF items
    <2>2. \A i \in 1..Len(items) : items[i] \in NamedItems(W)
      BY <1>4, <2>1, Zenon DEF NamedItems
    <2> QED
      BY <1>3, <2>2, Retyped
  <1>6. shown = ShownItems(items)
    <2>1. \A i \in DOMAIN items :
              [items[i] EXCEPT !.name = ShownName(items[i].name)] = ShownItem(items[i])
      <3> SUFFICES ASSUME NEW i \in DOMAIN items
                   PROVE  [items[i] EXCEPT !.name = ShownName(items[i].name)] =
                              ShownItem(items[i])
        OBVIOUS
      <3> DEFINE x == ShownName(items[i].name)
                 it == items[i]
      <3>1. it \in ItemSet(W)
        BY <1>4
      <3> HIDE DEF x, it
      <3>2. [it EXCEPT !.name = x] = Shape(x, it.is_directory)
        BY <3>1, NameReplaced
      <3> QED
        BY <3>2, Zenon DEF x, it, ShownItem
    <2> QED
      BY <2>1, Zenon DEF ShownItems, items
  <1> HIDE DEF shown
  <1>7. /\ ListingRead(W, items) /\ body = Listing(items)
    BY <1>2, <1>5, EveryListingRead, Zenon DEF items
  <1>8. body \in Seq(W) /\ Len(body) >= 1 /\ body[1] = ListBegin
    <2>1. Listing(items) \in Seq(W) /\ Len(Listing(items)) >= 1 /\ Listing(items)[1] = ListBegin
      BY <1>2, <1>3, ListingType
    <2> QED
      BY <1>7, <2>1, Zenon
  <1>9. DirectoryEntries(body) = shown /\ CutsBegin(W, body, shown)
    BY <1>6, <1>7, Zenon DEF ListingRead
  <1>10. shown \in Seq(ItemSet(W))
    <2> DEFINE x == [name |-> <<Quote>>, is_directory |-> FALSE]
    <2>1. Quote \in W
      BY <1>2, Zenon DEF ListCharacters
    <2>2. x \in NamedItems(W)
      <3>1. <<Quote>> \in Seq(W) /\ <<Quote>> # <<>>
        BY <2>1
      <3> QED
        BY <3>1 DEF NamedItems, ItemSet
    <2> HIDE DEF x
    <2>3. ShownItems(items) \in Seq(ItemSet(W))
      BY <1>2, <1>5, <2>2, ShownNext
    <2> QED
      BY <1>6, <2>3, Zenon
  <1> HIDE DEF body
  <1>11. Contents(body).entries = shown
    BY <1>8, <1>9, ContentsOfList, Zenon
  <1>12. Parts
    <2> SUFFICES ASSUME NEW part \in Cuts(body)
                 PROVE  /\ IsPrefix(EntryNames(Contents(part).entries), EntryNames(shown))
                        /\ Contents(part).content = <<>>
      OBVIOUS
    <2>1. PICK n \in 0 .. Len(body) - 1 : part = SubSeq(body, 1, n)
      BY Zenon DEF Cuts
    <2>2. n \in 0..Len(body) /\ n \in Nat /\ (n = 0 \/ n \in 1..Len(body))
      BY <1>8, LenProperties
    <2>3. part \in Seq(W) /\ Len(part) = n /\ \A i \in 1..n : part[i] = body[i]
      BY <1>8, <2>1, <2>2, PartOfBody
    <2>4. CASE n = 0
      <3>1. Contents(part).entries = <<>> /\ Contents(part).content = <<>>
        BY <2>3, <2>4, ContentsOfNothing
      <3>2. <<>> \in Seq(ItemSet(W)) /\ NamesBegin(<<>>, shown)
        <4>1. Len(shown) \in Nat
          BY <1>10, LenProperties
        <4> QED
          BY <4>1 DEF NamesBegin
      <3>3. IsPrefix(EntryNames(<<>>), EntryNames(shown))
        BY <1>10, <3>2, NamesArePrefix
      <3> QED
        BY <3>1, <3>3, Zenon
    <2>5. CASE n \in 1..Len(body)
      <3> DEFINE e == DirectoryEntries(part)
      <3>1. e \in Seq(ItemSet(W)) /\ NamesBegin(e, shown)
        BY <1>9, <2>1, <2>5, Zenon DEF CutsBegin
      <3>2. Len(part) >= 1 /\ part[1] = ListBegin
        BY <1>8, <2>3, <2>5
      <3>3. Contents(part).entries = e /\ Contents(part).content = <<>>
        BY <2>3, <3>2, ContentsOfList
      <3> HIDE DEF e
      <3>4. IsPrefix(EntryNames(e), EntryNames(shown))
        BY <1>10, <3>1, NamesArePrefix
      <3> QED
        BY <3>3, <3>4, Zenon
    <2> QED
      BY <2>2, <2>4, <2>5
  <1> QED
    BY <1>11, <1>12

\* ListingIsTheFolder, for folders of every size with names of every length, and answers that
\* break off anywhere: the items that the reader's program gets are the first ones of the
\* folder, each with its own name, and of a whole answer all of them with their types
\* (parse_contents_directory_entries).
THEOREM FolderListingCorrect == Spec => []ListingIsTheFolder
  <1>1. Typing => ListingIsTheFolder
    BY ListingReadCorrect
  <1> QED
    BY <1>1, TextIsOfFormat, PTL
===============================================================================
