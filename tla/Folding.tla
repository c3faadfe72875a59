-------------------------------- MODULE Folding --------------------------------
(***************************************************************************)
(* What a loop over a sequence computes: lemmas about FoldLeft with any    *)
(* step.  The steps of the conversions are put in by INSTANCE, once for    *)
(* each; so the module is kept small, has FoldLeft's definition written    *)
(* out, and takes the induction over the natural numbers as an assumption  *)
(* of its lemmas (FormatsProofs and ChapterFileProofs prove it).           *)
(***************************************************************************)
EXTENDS Integers, Sequences

CONSTANT Step(_, _)     \* one round of the loop

Induction == \A T \in SUBSET Nat : 0 \in T /\ (\A n \in T : n + 1 \in T) => T = Nat

Greatest(s) == CHOOSE x \in s : \A y \in s : x >= y

IsTable(it, base, seq, m) ==
    it = [s \in SUBSET (1..m) |->
             IF s = {} THEN base ELSE Step(it[s \ {Greatest(s)}], seq[Greatest(s)])]

\* FoldLeft(Step, base, seq).
Fold(base, seq) ==
    (CHOOSE it : it = [s \in SUBSET DOMAIN seq |->
        IF s = {} THEN base ELSE Step(it[s \ {Greatest(s)}], seq[Greatest(s)])])[DOMAIN seq]

\* The greatest element is taken away first.
LEMMA GreatestOfInterval ==
    ASSUME NEW n \in Nat \ {0}
    PROVE  Greatest(1..n) = n /\ (1..n) \ {n} = 1 .. n - 1
  <1>1. n \in 1..n /\ \A y \in 1..n : n >= y
    OBVIOUS
  <1>2. \A x \in 1..n : (\A y \in 1..n : x >= y) => x = n
    OBVIOUS
  <1>3. Greatest(1..n) = n
    BY <1>1, <1>2 DEF Greatest
  <1> QED
    BY <1>3

\* There is a table of the fold's values, for the first positions.
LEMMA TableExists ==
    ASSUME Induction, NEW base, NEW seq, NEW m \in Nat
    PROVE  \E it : IsTable(it, base, seq, m)
  <1> DEFINE T == {n \in Nat : \E it : IsTable(it, base, seq, n)}
  <1>1. 0 \in T
    <2>1. IsTable([s \in SUBSET (1..0) |-> base], base, seq, 0)
      BY DEF IsTable
    <2> QED
      BY <2>1
  <1>2. ASSUME NEW n \in T PROVE n + 1 \in T
    <2>1. PICK it : IsTable(it, base, seq, n)
      OBVIOUS
    <2> DEFINE next == [s \in SUBSET (1 .. n + 1) |->
                           IF n + 1 \in s THEN Step(it[s \ {n + 1}], seq[n + 1]) ELSE it[s]]
    <2>2. ASSUME NEW s \in SUBSET (1 .. n + 1), s # {}
          PROVE  next[s] = Step(next[s \ {Greatest(s)}], seq[Greatest(s)])
      <3>1. \A y \in s : y \in Int /\ y <= n + 1
        OBVIOUS
      <3>3. CASE n + 1 \in s
        <4>1. \A x \in s : (\A y \in s : x >= y) => x = n + 1
          BY <3>1, <3>3
        <4>2. \A y \in s : n + 1 >= y
          BY <3>1
        <4>3. Greatest(s) = n + 1
          BY <3>3, <4>1, <4>2 DEF Greatest
        <4>4. s \ {n + 1} \in SUBSET (1 .. n + 1) /\ n + 1 \notin s \ {n + 1}
          OBVIOUS
        <4>5. next[s \ {n + 1}] = it[s \ {n + 1}]
          BY <4>4
        <4> QED
          BY <3>3, <4>3, <4>5
      <3>4. CASE n + 1 \notin s
        <4>1. s \in SUBSET (1..n) /\ s \ {Greatest(s)} \in SUBSET (1 .. n + 1)
          <5> HIDE DEF next
          <5>1. \A y \in s : y \in 1..n
            BY <3>4
          <5> QED
            BY <5>1
        <4>2. it[s] = Step(it[s \ {Greatest(s)}], seq[Greatest(s)])
          BY <2>1, <2>2, <4>1 DEF IsTable
        <4>3. next[s] = it[s] /\ next[s \ {Greatest(s)}] = it[s \ {Greatest(s)}]
          BY <3>4, <4>1
        <4> QED
          BY <4>2, <4>3
      <3> QED
        BY <3>3, <3>4
    <2>3. next[{}] = base
      <3>1. {} \in SUBSET (1..n) /\ {} \in SUBSET (1 .. n + 1) /\ n + 1 \notin {}
        OBVIOUS
      <3>2. it[{}] = base
        BY <2>1, <3>1 DEF IsTable
      <3> QED
        BY <3>1, <3>2
    <2>4. \A s \in SUBSET (1 .. n + 1) : next[s] =
             IF s = {} THEN base ELSE Step(next[s \ {Greatest(s)}], seq[Greatest(s)])
      BY <2>2, <2>3
    <2>5. IsTable(next, base, seq, n + 1)
      BY <2>4 DEF IsTable
    <2> QED
      BY <2>5
  <1>3. T = Nat
    <2>1. T \in SUBSET Nat
      OBVIOUS
    <2> HIDE DEF T
    <2> QED
      BY <1>1, <1>2, <2>1, Induction DEF Induction
  <1> QED
    BY <1>3

\* The accumulated values, one behind each round.
IsRun(h, base, seq) ==
    h[0] = base /\ \A i \in 1..Len(seq) : h[i] = Step(h[i - 1], seq[i])

\* The fold is an entry of such a table.
LEMMA FoldTable ==
    ASSUME Induction, NEW V, NEW seq \in Seq(V), NEW base
    PROVE  \E it : /\ IsTable(it, base, seq, Len(seq))
                   /\ Fold(base, seq) = it[1..Len(seq)]
  <1>1. Fold(base, seq) =
          (CHOOSE it : it = [s \in SUBSET DOMAIN seq |->
              IF s = {} THEN base ELSE Step(it[s \ {Greatest(s)}], seq[Greatest(s)])])[DOMAIN seq]
    BY DEF Fold
  <1>2. DOMAIN seq = 1..Len(seq) /\ Len(seq) \in Nat
    OBVIOUS
  <1>3. \E it : IsTable(it, base, seq, Len(seq))
    BY <1>2, Induction, TableExists
  <1> QED
    BY <1>1, <1>2, <1>3 DEF IsTable

\* Read along the first positions, the table is a run of the loop.
LEMMA TableIsRun ==
    ASSUME NEW m \in Nat, NEW base, NEW seq, NEW it, IsTable(it, base, seq, m)
    PROVE  /\ it[{}] = base
           /\ \A i \in 1..m : it[1..i] = Step(it[1 .. i - 1], seq[i])
  <1>1. \A s \in SUBSET (1..m) :
            it[s] = IF s = {} THEN base ELSE Step(it[s \ {Greatest(s)}], seq[Greatest(s)])
    BY DEF IsTable
  <1>2. ASSUME NEW i \in 1..m PROVE it[1..i] = Step(it[1 .. i - 1], seq[i])
    <2>1. Greatest(1..i) = i /\ (1..i) \ {i} = 1 .. i - 1
      BY GreatestOfInterval
    <2>2. 1..i \in SUBSET (1..m) /\ i \in 1..i
      OBVIOUS
    <2> QED
      BY <1>1, <2>1, <2>2
  <1> QED
    BY <1>1, <1>2

\* Every fold goes through a run, and every run ends with the value of the fold.
LEMMA FoldHasRun ==
    ASSUME Induction, NEW V, NEW seq \in Seq(V), NEW base
    PROVE  \E h : IsRun(h, base, seq) /\ Fold(base, seq) = h[Len(seq)]
  <1>1. PICK it : IsTable(it, base, seq, Len(seq)) /\ Fold(base, seq) = it[1..Len(seq)]
    BY Induction, FoldTable
  <1>2. Len(seq) \in Nat
    OBVIOUS
  <1> DEFINE h == [i \in 0..Len(seq) |-> it[1..i]]
  <1>3. /\ it[{}] = base
        /\ \A i \in 1..Len(seq) : it[1..i] = Step(it[1 .. i - 1], seq[i])
    BY <1>1, <1>2, TableIsRun
  <1>4. h[0] = base
    <2>1. 1..0 = {}
      OBVIOUS
    <2> QED
      BY <1>2, <1>3, <2>1
  <1>5. ASSUME NEW i \in 1..Len(seq) PROVE h[i] = Step(h[i - 1], seq[i])
    BY <1>2, <1>3
  <1>6. Fold(base, seq) = h[Len(seq)]
    BY <1>1, <1>2
  <1> QED
    BY <1>4, <1>5, <1>6 DEF IsRun

\* Two runs of the loop end alike.
LEMMA RunsAgree ==
    ASSUME Induction, NEW base, NEW seq, Len(seq) \in Nat, NEW g, NEW h,
           IsRun(g, base, seq), IsRun(h, base, seq)
    PROVE  g[Len(seq)] = h[Len(seq)]
  <1> DEFINE T == {n \in Nat : n <= Len(seq) => g[n] = h[n]}
  <1>1. 0 \in T
    BY DEF IsRun
  <1>2. ASSUME NEW n \in T PROVE n + 1 \in T
    <2> SUFFICES ASSUME n + 1 <= Len(seq) PROVE g[n + 1] = h[n + 1]
      OBVIOUS
    <2>1. n + 1 \in 1..Len(seq) /\ g[n] = h[n] /\ (n + 1) - 1 = n
      OBVIOUS
    <2> QED
      BY <2>1 DEF IsRun
  <1>3. T = Nat
    <2>1. T \in SUBSET Nat
      OBVIOUS
    <2> HIDE DEF T
    <2> QED
      BY <1>1, <1>2, <2>1, Induction DEF Induction
  <1> QED
    BY <1>3

\* A run of the loop ends with the fold.
LEMMA RunIsFold ==
    ASSUME Induction, NEW V, NEW seq \in Seq(V), NEW base, NEW h, IsRun(h, base, seq)
    PROVE  Fold(base, seq) = h[Len(seq)]
  BY Induction, FoldHasRun, Induction, RunsAgree

-------------------------------------------------------------------------------
(* What the proofs about the loops cite. *)

\* The loop over nothing.
LEMMA FoldEmpty ==
    ASSUME Induction, NEW base
    PROVE  Fold(base, <<>>) = base
  <1>1. <<>> \in Seq({}) /\ Len(<<>>) = 0
    OBVIOUS
  <1>2. PICK h : IsRun(h, base, <<>>) /\ Fold(base, <<>>) = h[Len(<<>>)]
    BY <1>1, Induction, FoldHasRun
  <1> QED
    BY <1>1, <1>2 DEF IsRun

\* One more round.
LEMMA FoldAppend ==
    ASSUME Induction, NEW V, NEW seq \in Seq(V), NEW c \in V, NEW base
    PROVE  Fold(base, Append(seq, c)) = Step(Fold(base, seq), c)
  <1>1. /\ Append(seq, c) \in Seq(V) /\ Len(Append(seq, c)) = Len(seq) + 1
        /\ \A i \in 1..Len(seq) : Append(seq, c)[i] = seq[i]
        /\ Append(seq, c)[Len(seq) + 1] = c
        /\ Len(seq) \in Nat
    OBVIOUS
  <1>2. PICK h : IsRun(h, base, Append(seq, c)) /\
                 Fold(base, Append(seq, c)) = h[Len(seq) + 1]
    BY <1>1, Induction, FoldHasRun
  <1>3. IsRun(h, base, seq)
    BY <1>1, <1>2 DEF IsRun
  <1>4. Fold(base, seq) = h[Len(seq)]
    BY <1>3, Induction, RunIsFold
  <1>5. h[Len(seq) + 1] = Step(h[(Len(seq) + 1) - 1], c)
    BY <1>1, <1>2 DEF IsRun
  <1> QED
    BY <1>1, <1>2, <1>4, <1>5

\* The loop stopped and taken up again.
LEMMA FoldConcat ==
    ASSUME Induction, NEW V, NEW s \in Seq(V), NEW t \in Seq(V), NEW base
    PROVE  Fold(base, s \o t) = Fold(Fold(base, s), t)
  <1>1. /\ s \o t \in Seq(V) /\ Len(s \o t) = Len(s) + Len(t)
        /\ \A i \in 1 .. Len(s) + Len(t) :
               (s \o t)[i] = IF i <= Len(s) THEN s[i] ELSE t[i - Len(s)]
        /\ Len(s) \in Nat /\ Len(t) \in Nat
    OBVIOUS
  <1>2. PICK h : IsRun(h, base, s \o t) /\ Fold(base, s \o t) = h[Len(s) + Len(t)]
    BY <1>1, Induction, FoldHasRun
  <1>3. \A i \in 1 .. Len(s) + Len(t) : h[i] = Step(h[i - 1], (s \o t)[i])
    BY <1>1, <1>2 DEF IsRun
  <1>4. IsRun(h, base, s)
    <2>1. ASSUME NEW i \in 1..Len(s) PROVE h[i] = Step(h[i - 1], s[i])
      BY <1>1, <1>3
    <2> QED
      BY <1>2, <2>1 DEF IsRun
  <1> DEFINE k == [i \in 0..Len(t) |-> h[i + Len(s)]]
  <1>5. IsRun(k, h[Len(s)], t)
    <2>1. ASSUME NEW i \in 1..Len(t) PROVE k[i] = Step(k[i - 1], t[i])
      <3>1. /\ i + Len(s) \in 1 .. Len(s) + Len(t)
            /\ ~(i + Len(s) <= Len(s)) /\ (i + Len(s)) - Len(s) = i
            /\ (i + Len(s)) - 1 = (i - 1) + Len(s)
            /\ i \in 0..Len(t) /\ i - 1 \in 0..Len(t)
        BY <1>1
      <3>2. h[i + Len(s)] = Step(h[(i + Len(s)) - 1], t[i])
        BY <1>1, <1>3, <3>1
      <3> QED
        BY <3>1, <3>2
    <2>2. k[0] = h[Len(s)]
      BY <1>1
    <2> QED
      BY <2>1, <2>2 DEF IsRun
  <1>6. Fold(base, s) = h[Len(s)]
    BY <1>4, Induction, RunIsFold
  <1>7. Fold(h[Len(s)], t) = k[Len(t)]
    <2> HIDE DEF k
    <2> QED
      BY <1>5, Induction, RunIsFold
  <1>8. k[Len(t)] = h[Len(s) + Len(t)]
    BY <1>1
  <1> QED
    BY <1>2, <1>6, <1>7, <1>8

\* The loop over one element.
LEMMA FoldOne ==
    ASSUME Induction, NEW c, NEW base
    PROVE  Fold(base, <<c>>) = Step(base, c)
  <1>1. <<>> \in Seq({c}) /\ Append(<<>>, c) = <<c>>
    OBVIOUS
  <1>2. Fold(base, Append(<<>>, c)) = Step(Fold(base, <<>>), c)
    BY <1>1, Induction, FoldAppend
  <1>3. Fold(base, <<>>) = base
    BY Induction, FoldEmpty
  <1> QED
    BY <1>1, <1>2, <1>3

\* What every round keeps, the loop keeps.
LEMMA FoldType ==
    ASSUME Induction, NEW V, NEW seq \in Seq(V), NEW S, NEW base \in S,
           \A s \in S, v \in V : Step(s, v) \in S
    PROVE  Fold(base, seq) \in S
  <1>1. PICK h : IsRun(h, base, seq) /\ Fold(base, seq) = h[Len(seq)]
    BY Induction, FoldHasRun
  <1>2. Len(seq) \in Nat
    OBVIOUS
  <1> DEFINE T == {n \in Nat : n <= Len(seq) => h[n] \in S}
  <1>3. 0 \in T
    BY <1>1 DEF IsRun
  <1>4. ASSUME NEW n \in T PROVE n + 1 \in T
    <2> SUFFICES ASSUME n + 1 <= Len(seq) PROVE h[n + 1] \in S
      OBVIOUS
    <2>1. n + 1 \in 1..Len(seq) /\ h[n] \in S /\ (n + 1) - 1 = n
      BY <1>2
    <2>2. seq[n + 1] \in V
      BY <2>1
    <2> QED
      BY <1>1, <2>1, <2>2 DEF IsRun
  <1>5. T = Nat
    <2>1. T \in SUBSET Nat
      OBVIOUS
    <2> HIDE DEF T
    <2> QED
      BY <1>3, <1>4, <2>1, Induction DEF Induction
  <1> QED
    BY <1>1, <1>2, <1>5
===============================================================================
