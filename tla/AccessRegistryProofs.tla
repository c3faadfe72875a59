------------------------- MODULE AccessRegistryProofs -------------------------
(***************************************************************************)
(* Theorems about AccessRegistry, for every set of names, keys, chapters   *)
(* and hand-typed lines, and every number of crashes and edits.            *)
(***************************************************************************)
EXTENDS AccessRegistry, TLAPS, SequenceTheorems

-------------------------------------------------------------------------------
(* What the line format preserves. *)

\* A valid line is an entry: the checks of the parser leave nothing ill-typed.
LEMMA ValidLineIsEntry ==
    ASSUME NEW l \in Line, Valid(l)
    PROVE  /\ l.name \in Names
           /\ EntryOf(l) \in Entry
           /\ l.name \notin Colons
           /\ EntryOf(l).key \notin Colons
  BY DEF Line, Valid, EntryOf, Entry, BadNumber

\* persist writes lines.
LEMMA LineOfIsLine ==
    ASSUME NEW n \in Names, NEW e \in Entry
    PROVE  LineOf(n, e) \in Line
  <1> DEFINE split == n \in Colons \/ e.key \in Colons
  <1>1. e.key \in Keys /\ e.level \in Levels /\ e.chapters \subseteq Nat
    BY DEF Entry
  <1>2. LineOf(n, e) \in [fields : Nat, name : Names, key : Keys, level : Levels \cup {"?"},
                          chapters : SUBSET (Nat \cup {BadNumber})]
    BY <1>1 DEF LineOf
  <1>3. LineOf(n, e).fields = 4 =>
            LineOf(n, e).name \notin Colons /\ LineOf(n, e).key \notin Colons
    BY DEF LineOf
  <1> QED
    BY <1>2, <1>3 DEF Line

\* Dropping digits of a chapter number leaves a natural number.
LEMMA DigitPrefixesAreNat ==
    ASSUME NEW c \in Nat
    PROVE  DigitPrefixes(c) \subseteq Nat
  <1>1. \A w \in PowersOfTen : c \div w \in Nat
    BY DEF PowersOfTen
  <1> QED
    BY <1>1 DEF DigitPrefixes

\* Whatever a cut leaves of a chapter list is made of chapter tokens.
LEMMA CutChaptersAreTokens ==
    ASSUME NEW C \in SUBSET (Nat \cup {BadNumber}), C \subseteq Nat, NEW D \in CutChapters(C)
    PROVE  D \subseteq Nat \cup {BadNumber}
  <1> DEFINE before(c) == {d \in C : d < c}
  <1>1. CASE D = C
    BY <1>1
  <1>2. ASSUME NEW c \in C, D = before(c)
        PROVE  D \subseteq Nat \cup {BadNumber}
    BY <1>2
  <1>3. ASSUME NEW c \in C, D = before(c) \cup {BadNumber}
        PROVE  D \subseteq Nat \cup {BadNumber}
    BY <1>3
  <1>4. ASSUME NEW c \in C, NEW d \in DigitPrefixes(c), D = before(c) \cup {d}
        PROVE  D \subseteq Nat \cup {BadNumber}
    BY <1>4, DigitPrefixesAreNat
  <1> QED
    BY <1>1, <1>2, <1>3, <1>4 DEF CutChapters

\* A torn line is still made of the parts a line has.
LEMMA TornLineIsLine ==
    ASSUME NEW n \in Names, NEW e \in Entry, NEW t \in TornLines(LineOf(n, e))
    PROVE  t \in Line
  <1> DEFINE l == LineOf(n, e)
  <1>1. l \in Line
    BY LineOfIsLine
  <1>2. l.chapters \subseteq Nat
    BY DEF LineOf, Entry
  <1>3. CASE \E k \in 1..3 : t = [l EXCEPT !.fields = k]
    BY <1>1, <1>3 DEF Line
  <1>4. CASE l.fields = 4 /\ \E C \in CutChapters(l.chapters) : t = [l EXCEPT !.chapters = C]
    <2>1. PICK C \in CutChapters(l.chapters) : t = [l EXCEPT !.chapters = C]
      BY <1>4
    <2>2. C \subseteq Nat \cup {BadNumber}
      BY <1>2, <2>1, CutChaptersAreTokens
    <2> QED
      BY <1>1, <1>4, <2>1, <2>2 DEF Line
  <1> QED
    BY <1>3, <1>4 DEF TornLines

\* What can be registered is an entry, and fits its level.
LEMMA GrantsAreEntries ==
    /\ \A e \in Grants : e \in Entry /\ ChaptersMatchLevel(e.level, e.chapters)
    /\ \A d \in Details :
          /\ d.level \in Levels
          /\ d.chapters \subseteq Nat
          /\ ChaptersMatchLevel(d.level, d.chapters)
  <1>1. ASSUME NEW d \in Details
        PROVE  /\ d.level \in Levels
               /\ d.chapters \subseteq Nat
               /\ ChaptersMatchLevel(d.level, d.chapters)
    <2>1. CASE d \in [level : {"Master"}, chapters : {{}}]
      BY <2>1 DEF Levels, ChaptersMatchLevel
    <2>2. CASE d \in [level : {"Apprentice"}, chapters : (SUBSET Chapters) \ {{}}]
      <3>1. d.level = "Apprentice" /\ d.chapters \in (SUBSET Chapters) \ {{}}
        BY <2>2
      <3>2. d.level \in Levels /\ d.chapters \subseteq Nat
        BY <3>1, ChaptersAssumption DEF Levels
      <3>3. d.chapters # {}
        BY <3>1
      <3>4. ChaptersMatchLevel(d.level, d.chapters)
        BY <3>1, <3>3, Zenon DEF ChaptersMatchLevel
      <3> QED
        BY <3>2, <3>4
    <2>3. CASE d \in [level : {"Novice"}, chapters : {{c} : c \in Chapters}]
      <3>1. d.level = "Novice" /\ \E c \in Chapters : d.chapters = {c}
        BY <2>3
      <3>2. d.level \in Levels /\ d.chapters \subseteq Nat
        BY <3>1, ChaptersAssumption DEF Levels
      <3>3. \E c \in d.chapters : d.chapters = {c}
        BY <3>1
      <3> QED
        BY <3>1, <3>2, <3>3 DEF ChaptersMatchLevel
    <2> QED
      BY <2>1, <2>2, <2>3 DEF Details
  <1>2. ASSUME NEW e \in Grants
        PROVE  e \in Entry /\ ChaptersMatchLevel(e.level, e.chapters)
    <2>1. PICK k \in Keys, d \in Details :
             e = [key |-> k, level |-> d.level, chapters |-> d.chapters]
      BY DEF Grants
    <2> QED
      BY <1>1, <2>1 DEF Entry
  <1> QED
    BY <1>1, <1>2

-------------------------------------------------------------------------------
(* The inductive invariant. *)

\* A rewrite has put one line per name of order_ on disk, up to its position.
Rewriting ==
    pc = "persisting" =>
        /\ pos <= Len(order)
        /\ Len(file) = pos
        /\ \A i \in 1..pos : file[i] = LineOf(order[i], readers[order[i]])

\* A load has made of the map what the lines up to its position say, and no name or key
\* that came out of a line holds a colon.
LoadingUpTo ==
    pc = "loading" =>
        /\ pos <= Len(file)
        /\ \A n \in Names :
              /\ readers[n] = Loaded(file, pos, n)
              /\ readers[n] # None => n \notin Colons /\ readers[n].key \notin Colons

\* The file that is being replaced had, for everybody else, what the map has.
ImageMatches ==
    pc = "persisting" /\ ~stale =>
        \A n \in Names \ {image.name} :
            Loaded(image.lines, Len(image.lines), n) = Readable(n)

IInv ==
    /\ TypeOK
    /\ OrderMatchesReaders
    /\ EntriesMatchLevel
    /\ MemoryMatchesFile
    /\ Rewriting
    /\ LoadingUpTo
    /\ ImageMatches
    /\ pc \in {"down", "idle"} => pos = 0

\* The names of order_ are registered.
LEMMA OrderIsRegistered ==
    ASSUME TypeOK, OrderMatchesReaders, pc # "down", NEW i \in 1..Len(order)
    PROVE  order[i] \in Names /\ readers[order[i]] \in Entry
  BY DEF TypeOK, OrderMatchesReaders

\* The values of a process that has just started.
LEMMA EmptyTypes ==
    /\ <<>> \in Seq(Line) /\ <<>> \in Seq(Names)
    /\ NoImage \in [lines : Seq(Line), name : Names \cup {None}]
    /\ Nobody \in [Names -> Entry \cup {None}]
  <1>1. <<>> \in Seq(Line) /\ <<>> \in Seq(Names)
    BY EmptySeq
  <1>2. NoImage \in [lines : Seq(Line), name : Names \cup {None}]
    BY <1>1 DEF NoImage
  <1> QED
    BY <1>1, <1>2 DEF Nobody

\* Initially nothing is loaded, listed or on disk.
LEMMA InitEstablishes == Init => IInv
  <1> SUFFICES ASSUME Init PROVE IInv
    OBVIOUS
  <1>1. TypeOK
    <2>1. crashes \in 0..MaxCrashes /\ edits \in 0..MaxEdits
      BY ConstantsAssumption DEF Init
    <2> QED
      BY <2>1, EmptyTypes DEF Init, TypeOK
  <1> QED
    BY <1>1 DEF Init, IInv, OrderMatchesReaders, EntriesMatchLevel, MemoryMatchesFile,
                Rewriting, LoadingUpTo, ImageMatches

\* Opening the file for a rewrite keeps the types, whether it succeeds or not.
LEMMA BeginPersistTypes ==
    ASSUME TypeOK, pc = "idle", NEW n \in Names, BeginPersist(n)
    PROVE  /\ pc' \in {"idle", "persisting"}
           /\ pos' \in Nat
           /\ file' \in Seq(Line)
           /\ image' \in [lines : Seq(Line), name : Names \cup {None}]
           /\ stale' \in BOOLEAN
           /\ crashes' \in 0..MaxCrashes
  <1> USE ConstantsAssumption
  <1>1. CASE pc' = "persisting" /\ pos' = 0 /\ image' = [lines |-> file, name |-> n]
             /\ file' = <<>> /\ UNCHANGED <<stale, crashes>>
    BY <1>1 DEF TypeOK
  <1>2. CASE crashes < MaxCrashes /\ crashes' = crashes + 1 /\ stale' = TRUE
             /\ UNCHANGED <<pc, pos, image, file>>
    BY <1>2 DEF TypeOK
  <1> QED
    BY <1>1, <1>2 DEF BeginPersist

\* Every step keeps the types.
LEMMA TypeStep ==
    ASSUME IInv, [Next]_vars
    PROVE  TypeOK'
  <1> USE ConstantsAssumption
  <1>1. CASE UNCHANGED vars
    BY <1>1 DEF IInv, TypeOK, vars
  <1>2. CASE Start
    BY <1>2, EmptyTypes DEF IInv, TypeOK, Start
  <1>3. CASE LoadLine
    <2> DEFINE line == file[pos + 1]
    <2>1. line \in Line /\ pos' \in Nat
      BY <1>3 DEF IInv, TypeOK, LoadLine
    <2>2. readers' \in [Names -> Entry \cup {None}]
      BY <1>3, <2>1, ValidLineIsEntry DEF IInv, TypeOK, LoadLine
    <2>3. order' \in Seq(Names)
      BY <1>3, <2>1, ValidLineIsEntry DEF IInv, TypeOK, LoadLine
    <2> QED
      BY <1>3, <2>1, <2>2, <2>3 DEF IInv, TypeOK, LoadLine
  <1>4. CASE LoadDone
    BY <1>4 DEF IInv, TypeOK, LoadDone
  <1>5. ASSUME NEW n \in Names, NEW e \in Grants, AppendReader(n, e)
        PROVE  TypeOK'
    <2>1. e \in Entry
      BY GrantsAreEntries
    <2>2. readers' \in [Names -> Entry \cup {None}] /\ order' \in Seq(Names)
          /\ granted' \subseteq Names \X Entry
      BY <1>5, <2>1 DEF IInv, TypeOK, AppendReader
    <2> QED
      BY <1>5, <2>2, BeginPersistTypes DEF IInv, TypeOK, AppendReader
  <1>6. ASSUME NEW n \in Names, NEW d \in Details, UpdateReader(n, d)
        PROVE  TypeOK'
    <2> DEFINE e == [readers[n] EXCEPT !.level = d.level, !.chapters = d.chapters]
    <2>1. readers[n] \in Entry
      BY <1>6 DEF IInv, TypeOK, UpdateReader
    <2>2. e \in Entry
      BY <2>1, GrantsAreEntries DEF Entry
    <2>3. readers' \in [Names -> Entry \cup {None}] /\ granted' \subseteq Names \X Entry
      BY <1>6, <2>2 DEF IInv, TypeOK, UpdateReader
    <2> QED
      BY <1>6, <2>3, BeginPersistTypes DEF IInv, TypeOK, UpdateReader
  <1>7. CASE PersistLine
    <2>1. LineOf(order[pos + 1], readers[order[pos + 1]]) \in Line
      BY <1>7, OrderIsRegistered, LineOfIsLine DEF IInv, TypeOK, PersistLine
    <2> QED
      BY <1>7, <2>1 DEF IInv, TypeOK, PersistLine
  <1>8. CASE PersistDone
    BY <1>8, EmptyTypes DEF IInv, TypeOK, PersistDone
  <1>9. ASSUME WriteIsCut, pc = "persisting"
        PROVE  file' \in Seq(Line)
    <2>1. CASE UNCHANGED file
      BY <2>1 DEF IInv, TypeOK
    <2>2. CASE pos < Len(order)
      <3>1. order[pos + 1] \in Names /\ readers[order[pos + 1]] \in Entry
        BY <1>9, <2>2, OrderIsRegistered DEF IInv, TypeOK
      <3>2. ASSUME NEW t \in TornLines(LineOf(order[pos + 1], readers[order[pos + 1]])),
                   file' = Append(file, t)
            PROVE  file' \in Seq(Line)
        <4>1. t \in Line
          BY <3>1, TornLineIsLine
        <4> QED
          BY <3>2, <4>1, AppendProperties DEF IInv, TypeOK
      <3> QED
        BY <1>9, <2>1, <3>2 DEF WriteIsCut
    <2> QED
      BY <1>9, <2>1, <2>2 DEF WriteIsCut
  <1>10. CASE Crash
    <2>1. file' \in Seq(Line)
      BY <1>9, <1>10 DEF Crash, IInv, TypeOK
    <2> QED
      <3>1. crashes' \in 0..MaxCrashes
        BY <1>10 DEF IInv, TypeOK, Crash
      <3> QED
        BY <1>10, <2>1, <3>1, EmptyTypes DEF IInv, TypeOK, Crash, Stop
  <1>11. CASE DiskFull
    BY <1>9, <1>11, EmptyTypes DEF IInv, TypeOK, DiskFull
  <1>12. CASE Exit
    BY <1>12, EmptyTypes DEF IInv, TypeOK, Exit, Stop
  <1>13. CASE HandEdit
    <2>1. PICK l \in HandLines :
             /\ \/ file' = Append(file, l)
                \/ \E i \in 1..Len(file) : file' = [file EXCEPT ![i] = l]
             /\ granted' = IF Valid(l) THEN granted \cup {<<l.name, EntryOf(l)>>}
                                       ELSE granted
      BY <1>13 DEF HandEdit
    <2>2. l \in Line
      BY ConstantsAssumption
    <2>3. file' \in Seq(Line)
      <3>1. CASE file' = Append(file, l)
        BY <2>2, <3>1, AppendProperties DEF IInv, TypeOK
      <3>2. ASSUME NEW i \in 1..Len(file), file' = [file EXCEPT ![i] = l]
            PROVE  file' \in Seq(Line)
        BY <2>2, <3>2, ExceptSeq DEF IInv, TypeOK
      <3> QED
        BY <2>1, <3>1, <3>2
    <2>4. granted' \subseteq Names \X Entry
      BY <2>1, <2>2, ValidLineIsEntry DEF IInv, TypeOK
    <2> QED
      BY <1>13, <2>3, <2>4 DEF IInv, TypeOK, HandEdit
  <1> QED
    BY <1>1, <1>2, <1>3, <1>4, <1>5, <1>6, <1>7, <1>8, <1>10, <1>11, <1>12, <1>13 DEF Next

-------------------------------------------------------------------------------
(* What a load makes of a file. *)

\* Before its first line a load knows nobody.
LEMMA LoadedNothing ==
    ASSUME NEW f, NEW n
    PROVE  Loaded(f, 0, n) = None
  BY DEF Loaded

\* One more line: it decides for its name when it is valid, and is skipped otherwise.
LEMMA LoadedNextLine ==
    ASSUME NEW f, NEW k \in Nat, NEW n
    PROVE  Loaded(f, k + 1, n) =
              IF Valid(f[k + 1]) /\ f[k + 1].name = n THEN EntryOf(f[k + 1])
              ELSE Loaded(f, k, n)
  <1> DEFINE hits(j) == {i \in 1..j : Valid(f[i]) /\ f[i].name = n}
  <1>1. CASE Valid(f[k + 1]) /\ f[k + 1].name = n
    <2>1. k + 1 \in hits(k + 1) /\ \A j \in hits(k + 1) : j <= k + 1
      BY <1>1
    <2>2. \A i \in hits(k + 1) : (\A j \in hits(k + 1) : j <= i) => i = k + 1
      BY <2>1
    <2>3. (CHOOSE i \in hits(k + 1) : \A j \in hits(k + 1) : j <= i) = k + 1
      BY <2>1, <2>2
    <2> QED
      BY <1>1, <2>1, <2>3 DEF Loaded
  <1>2. CASE ~(Valid(f[k + 1]) /\ f[k + 1].name = n)
    <2> DEFINE last(S) == CHOOSE i \in S : \A j \in S : j <= i
    <2>1. hits(k + 1) = hits(k)
      BY <1>2
    <2>2. \A m \in {k, k + 1} :
             Loaded(f, m, n) = IF hits(m) = {} THEN None ELSE EntryOf(f[last(hits(m))])
      BY DEF Loaded
    <2> HIDE DEF hits, last
    <2> QED
      BY <1>2, <2>1, <2>2
  <1> QED
    BY <1>1, <1>2

\* A name with exactly one valid line has the entry of that line.
LEMMA LoadedSingleLine ==
    ASSUME NEW f, NEW k \in Nat, NEW n, NEW i \in 1..k,
           Valid(f[i]), f[i].name = n,
           \A j \in 1..k : Valid(f[j]) /\ f[j].name = n => j = i
    PROVE  Loaded(f, k, n) = EntryOf(f[i])
  <1> DEFINE hits == {j \in 1..k : Valid(f[j]) /\ f[j].name = n}
  <1>1. hits = {i}
    OBVIOUS
  <1>2. (CHOOSE j \in hits : \A m \in hits : m <= j) = i
    BY <1>1
  <1> QED
    BY <1>1, <1>2 DEF Loaded

\* A name without a valid line is not loaded.
LEMMA LoadedNoLine ==
    ASSUME NEW f, NEW k \in Nat, NEW n,
           \A j \in 1..k : ~(Valid(f[j]) /\ f[j].name = n)
    PROVE  Loaded(f, k, n) = None
  BY DEF Loaded

\* The line of an entry that fits its level can be read back, unless a colon splits it.
LEMMA WrittenLineIsRead ==
    ASSUME NEW n \in Names, NEW e \in Entry, ChaptersMatchLevel(e.level, e.chapters)
    PROVE  /\ LineOf(n, e).name = n
           /\ Valid(LineOf(n, e)) <=> n \notin Colons /\ e.key \notin Colons
           /\ Valid(LineOf(n, e)) => EntryOf(LineOf(n, e)) = e
  <1>1. e = [key |-> e.key, level |-> e.level, chapters |-> e.chapters]
        /\ e.level \in Levels /\ e.chapters \subseteq Nat
    BY DEF Entry
  <1>2. BadNumber \notin e.chapters
    BY <1>1 DEF BadNumber
  <1>3. CASE n \in Colons \/ e.key \in Colons
    BY <1>3 DEF LineOf, Valid
  <1>4. CASE ~(n \in Colons \/ e.key \in Colons)
    BY <1>1, <1>2, <1>4 DEF LineOf, Valid, EntryOf
  <1> QED
    BY <1>3, <1>4

\* A finished rewrite gives, when it is loaded, what can be read back of the map.
LEMMA FinishedRewriteIsMap ==
    ASSUME TypeOK, OrderMatchesReaders, EntriesMatchLevel, Rewriting,
           pc = "persisting", pos = Len(order), NEW n \in Names
    PROVE  Loaded(file, Len(file), n) = Readable(n)
  <1>1. /\ Len(file) = Len(order) /\ Len(order) \in Nat
        /\ \A i \in 1..Len(order) : file[i] = LineOf(order[i], readers[order[i]])
    BY DEF Rewriting, TypeOK
  <1>2. \A i \in 1..Len(order) :
           /\ order[i] \in Names
           /\ readers[order[i]] \in Entry
           /\ ChaptersMatchLevel(readers[order[i]].level, readers[order[i]].chapters)
    BY OrderIsRegistered, NoneAssumption DEF EntriesMatchLevel
  <1>3. \A i \in 1..Len(order) :
           /\ file[i].name = order[i]
           /\ Valid(file[i]) <=> order[i] \notin Colons /\ readers[order[i]].key \notin Colons
           /\ Valid(file[i]) => EntryOf(file[i]) = readers[order[i]]
    BY <1>1, <1>2, WrittenLineIsRead
  <1>4. CASE Readable(n) = None
    <2>1. readers[n] = None \/ n \in Colons \/ readers[n].key \in Colons
      BY <1>4 DEF Readable
    <2>2. \A j \in 1..Len(order) : ~(Valid(file[j]) /\ file[j].name = n)
      BY <1>2, <1>3, <2>1, NoneAssumption
    <2> QED
      BY <1>1, <1>4, <2>2, LoadedNoLine
  <1>5. CASE Readable(n) # None
    <2>1. readers[n] # None /\ n \notin Colons /\ readers[n].key \notin Colons
          /\ Readable(n) = readers[n]
      BY <1>5 DEF Readable
    <2>2. PICK i \in 1..Len(order) : order[i] = n
      BY <2>1 DEF OrderMatchesReaders
    <2>3. \A j \in 1..Len(order) : Valid(file[j]) /\ file[j].name = n => j = i
      BY <1>3, <2>2 DEF OrderMatchesReaders
    <2>4. Valid(file[i]) /\ file[i].name = n /\ EntryOf(file[i]) = readers[n]
      BY <1>3, <2>1, <2>2
    <2>5. Loaded(file, Len(order), n) = EntryOf(file[i])
      BY <1>1, <2>3, <2>4, LoadedSingleLine
    <2> QED
      BY <1>1, <2>1, <2>4, <2>5
  <1> QED
    BY <1>4, <1>5

-------------------------------------------------------------------------------
(* Every step keeps the invariant: one lemma per conjunct. *)

\* A new name at the end of the list keeps list and map in agreement.
LEMMA AppendKeepsOrder ==
    ASSUME NEW n \in Names, NEW e \in Entry, TypeOK, OrderMatchesReaders, pc # "down",
           readers[n] = None, readers' = [readers EXCEPT ![n] = e], order' = Append(order, n)
    PROVE  OrderMatchesReaders'
  <1>1. /\ Len(order') = Len(order) + 1 /\ Len(order) \in Nat
        /\ \A i \in 1..Len(order) : order'[i] = order[i]
        /\ order'[Len(order) + 1] = n
    BY AppendProperties DEF TypeOK
  <1>2. \A i \in 1..Len(order) : order[i] # n
    BY DEF OrderMatchesReaders
  <1>3. \A i, j \in 1..Len(order') : order'[i] = order'[j] => i = j
    BY <1>1, <1>2 DEF OrderMatchesReaders
  <1>4. ASSUME NEW m \in Names
        PROVE  readers'[m] # None <=> \E i \in 1..Len(order') : order'[i] = m
    <2>1. CASE m = n
      BY <1>1, <2>1, NoneAssumption DEF TypeOK
    <2>2. CASE m # n
      <3>1. readers'[m] = readers[m]
        BY <2>2 DEF TypeOK
      <3>2. (\E i \in 1..Len(order') : order'[i] = m)
            <=> \E i \in 1..Len(order) : order[i] = m
        BY <1>1, <2>2
      <3> QED
        BY <3>1, <3>2 DEF OrderMatchesReaders
    <2> QED
      BY <2>1, <2>2
  <1> QED
    BY <1>3, <1>4 DEF OrderMatchesReaders

\* A new entry for a listed name keeps list and map in agreement.
LEMMA UpdateKeepsOrder ==
    ASSUME NEW n \in Names, NEW e \in Entry, TypeOK, OrderMatchesReaders, pc # "down",
           readers[n] # None, readers' = [readers EXCEPT ![n] = e], order' = order
    PROVE  OrderMatchesReaders'
  <1>1. \A m \in Names : readers'[m] # None <=> readers[m] # None
    BY NoneAssumption DEF TypeOK
  <1> QED
    BY <1>1 DEF OrderMatchesReaders

\* Every step keeps the names of order_ and of readers_ the same.
LEMMA OrderStep ==
    ASSUME IInv, [Next]_vars
    PROVE  OrderMatchesReaders'
  <1>1. CASE UNCHANGED vars
    BY <1>1 DEF IInv, OrderMatchesReaders, vars
  <1>2. CASE Start
    BY <1>2 DEF OrderMatchesReaders, Start, Nobody
  <1>3. CASE LoadLine
    <2> DEFINE line == file[pos + 1]
    <2>1. line \in Line
      BY <1>3 DEF IInv, TypeOK, LoadLine
    <2>2. CASE ~Valid(line)
      BY <1>3, <2>2 DEF IInv, OrderMatchesReaders, LoadLine
    <2>3. CASE Valid(line) /\ readers[line.name] = None
      <3>1. line.name \in Names /\ EntryOf(line) \in Entry
        BY <2>1, <2>3, ValidLineIsEntry
      <3>2. readers' = [readers EXCEPT ![line.name] = EntryOf(line)]
            /\ order' = Append(order, line.name) /\ pc # "down"
        BY <1>3, <2>3 DEF LoadLine
      <3> QED
        BY <2>3, <3>1, <3>2, AppendKeepsOrder DEF IInv
    <2>4. CASE Valid(line) /\ readers[line.name] # None
      <3>1. line.name \in Names /\ EntryOf(line) \in Entry
        BY <2>1, <2>4, ValidLineIsEntry
      <3>2. readers' = [readers EXCEPT ![line.name] = EntryOf(line)]
            /\ order' = order /\ pc # "down"
        BY <1>3, <2>4 DEF LoadLine
      <3> QED
        BY <2>4, <3>1, <3>2, UpdateKeepsOrder DEF IInv
    <2> QED
      BY <2>2, <2>3, <2>4
  <1>4. ASSUME NEW n \in Names, NEW e \in Grants, AppendReader(n, e)
        PROVE  OrderMatchesReaders'
    BY <1>4, GrantsAreEntries, AppendKeepsOrder DEF IInv, AppendReader
  <1>5. ASSUME NEW n \in Names, NEW d \in Details, UpdateReader(n, d)
        PROVE  OrderMatchesReaders'
    <2> DEFINE e == [readers[n] EXCEPT !.level = d.level, !.chapters = d.chapters]
    <2>1. readers[n] \in Entry
      BY <1>5 DEF IInv, TypeOK, UpdateReader
    <2>2. e \in Entry
      BY <2>1, GrantsAreEntries DEF Entry
    <2>3. readers' = [readers EXCEPT ![n] = e] /\ order' = order /\ pc # "down"
          /\ readers[n] # None
      BY <1>5 DEF UpdateReader
    <2> QED
      BY <2>2, <2>3, UpdateKeepsOrder DEF IInv
  <1>6. CASE LoadDone \/ PersistLine \/ PersistDone \/ DiskFull \/ HandEdit
    BY <1>6 DEF IInv, OrderMatchesReaders, LoadDone, PersistLine, PersistDone, DiskFull,
                HandEdit
  <1>7. CASE Crash \/ Exit
    BY <1>7 DEF OrderMatchesReaders, Crash, Exit, Stop
  <1> QED
    BY <1>1, <1>2, <1>3, <1>4, <1>5, <1>6, <1>7 DEF Next

\* Every step keeps the chapters in line with the level.
LEMMA LevelStep ==
    ASSUME IInv, [Next]_vars
    PROVE  EntriesMatchLevel'
  <1>1. CASE UNCHANGED vars
    BY <1>1 DEF IInv, EntriesMatchLevel, vars
  <1>2. CASE Start
    BY <1>2 DEF EntriesMatchLevel, Start, Nobody
  <1>3. CASE LoadLine
    <2> DEFINE line == file[pos + 1]
    <2>1. line \in Line
      BY <1>3 DEF IInv, TypeOK, LoadLine
    <2>2. CASE ~Valid(line)
      BY <1>3, <2>2 DEF IInv, EntriesMatchLevel, LoadLine
    <2>3. CASE Valid(line)
      <3>1. ChaptersMatchLevel(EntryOf(line).level, EntryOf(line).chapters)
        BY <2>3 DEF Valid, EntryOf
      <3>2. readers' = [readers EXCEPT ![line.name] = EntryOf(line)] /\ pc # "down"
        BY <1>3, <2>3 DEF LoadLine
      <3> QED
        BY <3>1, <3>2 DEF IInv, TypeOK, EntriesMatchLevel
    <2> QED
      BY <2>2, <2>3
  <1>4. ASSUME NEW n \in Names, NEW e \in Grants, AppendReader(n, e)
        PROVE  EntriesMatchLevel'
    BY <1>4, GrantsAreEntries DEF IInv, TypeOK, EntriesMatchLevel, AppendReader
  <1>5. ASSUME NEW n \in Names, NEW d \in Details, UpdateReader(n, d)
        PROVE  EntriesMatchLevel'
    <2> DEFINE e == [readers[n] EXCEPT !.level = d.level, !.chapters = d.chapters]
    <2>1. readers[n] \in Entry
      BY <1>5 DEF IInv, TypeOK, UpdateReader
    <2>2. e.level = d.level /\ e.chapters = d.chapters
      BY <2>1 DEF Entry
    <2>3. ChaptersMatchLevel(e.level, e.chapters)
      BY <2>2, GrantsAreEntries
    <2>4. readers' = [readers EXCEPT ![n] = e] /\ pc = "idle"
      BY <1>5 DEF UpdateReader
    <2> HIDE DEF e
    <2> QED
      BY <2>3, <2>4 DEF IInv, TypeOK, EntriesMatchLevel
  <1>6. CASE LoadDone \/ PersistLine \/ PersistDone \/ DiskFull \/ HandEdit
    BY <1>6 DEF IInv, EntriesMatchLevel, LoadDone, PersistLine, PersistDone, DiskFull,
                HandEdit
  <1>7. CASE Crash \/ Exit
    BY <1>7 DEF EntriesMatchLevel, Crash, Exit, Stop
  <1> QED
    BY <1>1, <1>2, <1>3, <1>4, <1>5, <1>6, <1>7 DEF Next

\* Where file and map may drift apart, `stale` says so.
LEMMA MemoryStep ==
    ASSUME IInv, [Next]_vars
    PROVE  MemoryMatchesFile'
  <1>1. CASE UNCHANGED vars
    BY <1>1 DEF IInv, MemoryMatchesFile, Readable, vars
  <1>2. CASE LoadDone
    <2>1. \A n \in Names :
             Loaded(file, Len(file), n) = readers[n] /\ Readable(n) = readers[n]
      BY <1>2 DEF IInv, LoadingUpTo, LoadDone, Readable
    <2>2. file' = file /\ readers' = readers
      BY <1>2 DEF LoadDone
    <2> QED
      BY <2>1, <2>2 DEF MemoryMatchesFile, Readable
  <1>3. ASSUME NEW n \in Names, pc = "idle", BeginPersist(n)
        PROVE  MemoryMatchesFile'
    BY <1>3 DEF BeginPersist, MemoryMatchesFile
  <1>4. CASE (\E n \in Names, e \in Grants : AppendReader(n, e))
             \/ (\E n \in Names, d \in Details : UpdateReader(n, d))
    BY <1>3, <1>4 DEF AppendReader, UpdateReader
  <1>5. CASE PersistDone
    <2>1. \A n \in Names : Loaded(file, Len(file), n) = Readable(n)
      BY <1>5, FinishedRewriteIsMap DEF IInv, PersistDone
    <2>2. file' = file /\ readers' = readers
      BY <1>5 DEF PersistDone
    <2> QED
      BY <2>1, <2>2 DEF MemoryMatchesFile, Readable
  <1>6. CASE HandEdit
    BY <1>6 DEF HandEdit, MemoryMatchesFile
  <1>7. CASE Start \/ LoadLine \/ PersistLine \/ DiskFull \/ Crash \/ Exit
    BY <1>7 DEF MemoryMatchesFile, Start, LoadLine, PersistLine, DiskFull, Crash, Exit, Stop
  <1> QED
    BY <1>1, <1>2, <1>4, <1>5, <1>6, <1>7 DEF Next

\* A rewrite puts the next line behind the ones it wrote.
LEMMA RewritingStep ==
    ASSUME IInv, [Next]_vars
    PROVE  Rewriting'
  <1>1. CASE UNCHANGED vars
    BY <1>1 DEF IInv, Rewriting, vars
  <1>2. ASSUME NEW n \in Names, pc = "idle", BeginPersist(n), order' \in Seq(Names)
        PROVE  Rewriting'
    <2>1. Len(order') \in Nat
      BY <1>2, LenProperties
    <2> QED
      BY <1>2, <2>1, EmptySeq DEF BeginPersist, Rewriting
  <1>3. CASE (\E n \in Names, e \in Grants : AppendReader(n, e))
             \/ (\E n \in Names, d \in Details : UpdateReader(n, d))
    <2>1. order' \in Seq(Names)
      BY TypeStep DEF TypeOK
    <2> QED
      BY <1>2, <1>3, <2>1 DEF AppendReader, UpdateReader
  <1>4. CASE PersistLine
    <2> DEFINE line == LineOf(order[pos + 1], readers[order[pos + 1]])
    <2>1. line \in Line
      BY <1>4, OrderIsRegistered, LineOfIsLine DEF IInv, TypeOK, PersistLine
    <2>2. /\ file \in Seq(Line) /\ file' = Append(file, line)
          /\ pos \in Nat /\ pos' = pos + 1 /\ Len(order) \in Nat /\ pos < Len(order)
          /\ order' = order /\ readers' = readers
          /\ Len(file) = pos
          /\ \A i \in 1..pos : file[i] = LineOf(order[i], readers[order[i]])
      BY <1>4 DEF IInv, TypeOK, PersistLine, Rewriting
    <2> HIDE DEF line
    <2>3. /\ Len(file') = pos + 1 /\ file'[pos + 1] = line
          /\ \A i \in 1..pos : file'[i] = file[i]
      BY <2>1, <2>2, AppendProperties
    <2>4. \A i \in 1..pos + 1 : i = pos + 1 \/ i \in 1..pos
      BY <2>2
    <2>5. \A i \in 1..pos' : file'[i] = LineOf(order'[i], readers'[order'[i]])
      BY <2>2, <2>3, <2>4 DEF line
    <2> QED
      BY <2>2, <2>3, <2>5 DEF Rewriting
  <1>5. CASE Start \/ LoadLine \/ LoadDone \/ PersistDone \/ DiskFull \/ Crash \/ Exit
             \/ HandEdit
    BY <1>5 DEF Rewriting, Start, LoadLine, LoadDone, PersistDone, DiskFull, Crash, Exit,
                Stop, HandEdit
  <1> QED
    BY <1>1, <1>3, <1>4, <1>5 DEF Next

\* A load takes one more line into the map.
LEMMA LoadingStep ==
    ASSUME IInv, [Next]_vars
    PROVE  LoadingUpTo'
  <1>1. CASE UNCHANGED vars
    BY <1>1 DEF IInv, LoadingUpTo, vars
  <1>2. CASE Start
    <2>1. pos' = 0 /\ readers' = Nobody /\ Len(file') \in Nat
      BY <1>2, LenProperties DEF IInv, TypeOK, Start
    <2> QED
      BY <2>1, LoadedNothing DEF LoadingUpTo, Nobody
  <1>3. CASE LoadLine
    <2> DEFINE line == file[pos + 1]
    <2>1. /\ line \in Line /\ pos \in Nat /\ Len(file) \in Nat /\ pos < Len(file)
          /\ pos' = pos + 1 /\ file' = file
          /\ readers \in [Names -> Entry \cup {None}]
          /\ readers' = IF Valid(line) THEN [readers EXCEPT ![line.name] = EntryOf(line)]
                                       ELSE readers
          /\ \A n \in Names :
                /\ readers[n] = Loaded(file, pos, n)
                /\ readers[n] # None => n \notin Colons /\ readers[n].key \notin Colons
      BY <1>3 DEF IInv, TypeOK, LoadLine, LoadingUpTo
    <2>2. ASSUME NEW n \in Names
          PROVE  /\ readers'[n] = Loaded(file', pos', n)
                 /\ readers'[n] # None => n \notin Colons /\ readers'[n].key \notin Colons
      <3>1. Loaded(file', pos', n) = IF Valid(line) /\ line.name = n THEN EntryOf(line)
                                     ELSE Loaded(file, pos, n)
        BY <2>1, LoadedNextLine
      <3> HIDE DEF line
      <3>2. CASE Valid(line) /\ line.name = n
        BY <2>1, <3>1, <3>2, ValidLineIsEntry
      <3>3. CASE ~(Valid(line) /\ line.name = n)
        <4>1. readers'[n] = readers[n]
          BY <2>1, <3>3
        <4> QED
          BY <2>1, <3>1, <3>3, <4>1
      <3> QED
        BY <3>2, <3>3
    <2>3. pos' <= Len(file')
      BY <2>1
    <2> QED
      BY <2>2, <2>3 DEF LoadingUpTo
  <1>4. CASE (\E n \in Names, e \in Grants : AppendReader(n, e))
             \/ (\E n \in Names, d \in Details : UpdateReader(n, d))
    BY <1>4 DEF AppendReader, UpdateReader, BeginPersist, LoadingUpTo
  <1>5. CASE LoadDone \/ PersistLine \/ PersistDone \/ DiskFull \/ Crash \/ Exit \/ HandEdit
    BY <1>5 DEF LoadingUpTo, LoadDone, PersistLine, PersistDone, DiskFull, Crash, Exit,
                Stop, HandEdit
  <1> QED
    BY <1>1, <1>2, <1>3, <1>4, <1>5 DEF Next

\* A rewrite starts from a file that agrees with the map about all but one name.
LEMMA ImageStep ==
    ASSUME IInv, [Next]_vars
    PROVE  ImageMatches'
  <1>1. CASE UNCHANGED vars
    BY <1>1 DEF IInv, ImageMatches, Readable, vars
  <1>2. ASSUME NEW n \in Names, NEW e, readers' = [readers EXCEPT ![n] = e],
               pc = "idle", BeginPersist(n)
        PROVE  ImageMatches'
    <2> SUFFICES ASSUME pc' = "persisting", ~stale', NEW m \in Names \ {image'.name}
                 PROVE  Loaded(image'.lines, Len(image'.lines), m) = Readable(m)'
      BY DEF ImageMatches
    <2>1. image' = [lines |-> file, name |-> n] /\ ~stale
      BY <1>2 DEF BeginPersist
    <2>2. readers'[m] = readers[m]
      BY <1>2, <2>1 DEF IInv, TypeOK
    <2>3. Readable(m)' = Readable(m)
      BY <2>2 DEF Readable
    <2> QED
      BY <1>2, <2>1, <2>3 DEF IInv, MemoryMatchesFile
  <1>3. ASSUME NEW n \in Names, NEW e \in Grants, AppendReader(n, e)
        PROVE  ImageMatches'
    BY <1>2, <1>3 DEF AppendReader
  <1>4. ASSUME NEW n \in Names, NEW d \in Details, UpdateReader(n, d)
        PROVE  ImageMatches'
    BY <1>2, <1>4 DEF UpdateReader
  <1>5. CASE PersistLine
    BY <1>5 DEF IInv, ImageMatches, Readable, PersistLine
  <1>6. CASE Start \/ LoadLine \/ LoadDone \/ PersistDone \/ DiskFull \/ Crash \/ Exit
             \/ HandEdit
    BY <1>6 DEF ImageMatches, Start, LoadLine, LoadDone, PersistDone, DiskFull, Crash, Exit,
                Stop, HandEdit
  <1> QED
    BY <1>1, <1>3, <1>4, <1>5, <1>6 DEF Next

\* The position is reset whenever a load or a rewrite ends.
LEMMA PositionStep ==
    ASSUME IInv, [Next]_vars
    PROVE  pc' \in {"down", "idle"} => pos' = 0
  <1>1. CASE (\E n \in Names, e \in Grants : AppendReader(n, e))
             \/ (\E n \in Names, d \in Details : UpdateReader(n, d))
    BY <1>1 DEF IInv, AppendReader, UpdateReader, BeginPersist
  <1>2. CASE UNCHANGED vars \/ Start \/ LoadLine \/ LoadDone \/ PersistLine \/ PersistDone
             \/ DiskFull \/ Crash \/ Exit \/ HandEdit
    BY <1>2 DEF IInv, vars, Start, LoadLine, LoadDone, PersistLine, PersistDone, DiskFull,
                Crash, Exit, Stop, HandEdit
  <1> QED
    BY <1>1, <1>2 DEF Next

-------------------------------------------------------------------------------
(* The theorems. *)

\* The invariant is inductive, so it holds in every reachable state.
THEOREM Invariance == Spec => []IInv
  <1>1. Init => IInv
    BY InitEstablishes
  <1>2. IInv /\ [Next]_vars => IInv'
    <2> SUFFICES ASSUME IInv, [Next]_vars PROVE IInv'
      OBVIOUS
    <2>1. TypeOK' /\ OrderMatchesReaders' /\ EntriesMatchLevel' /\ MemoryMatchesFile'
      BY TypeStep, OrderStep, LevelStep, MemoryStep
    <2>2. Rewriting' /\ LoadingUpTo' /\ ImageMatches'
      BY RewritingStep, LoadingStep, ImageStep
    <2> QED
      BY <2>1, <2>2, PositionStep DEF IInv
  <1> QED
    BY <1>1, <1>2, PTL DEF Spec

\* The variables keep their types, whatever is typed into the file and wherever the
\* process dies.
THEOREM TypeCorrect == Spec => []TypeOK
  <1>1. IInv => TypeOK
    BY DEF IInv
  <1> QED
    BY <1>1, Invariance, PTL

\* order_ and readers_ always name the same readers, each once: no rewrite loses one.
THEOREM OrderCorrect == Spec => []OrderMatchesReaders
  <1>1. IInv => OrderMatchesReaders
    BY DEF IInv
  <1> QED
    BY <1>1, Invariance, PTL

\* No reader ever has chapters that do not fit the level.
THEOREM LevelsCorrect == Spec => []EntriesMatchLevel
  <1>1. IInv => EntriesMatchLevel
    BY DEF IInv
  <1> QED
    BY <1>1, Invariance, PTL

\* What the program knows is what a reload of access.txt would tell it.
THEOREM MemoryCorrect == Spec => []MemoryMatchesFile
  <1>1. IInv => MemoryMatchesFile
    BY DEF IInv
  <1> QED
    BY <1>1, Invariance, PTL

\* A rewrite of the whole file for one reader changes nobody else's access.
THEOREM RewriteCorrect == Spec => []RewriteKeepsOthers
  <1>1. IInv => RewriteKeepsOthers
    <2> SUFFICES ASSUME IInv, pc = "persisting", pos = Len(order), ~stale,
                        NEW n \in Names \ {image.name}
                 PROVE  Loaded(file, Len(file), n)
                        = Loaded(image.lines, Len(image.lines), n)
      BY DEF RewriteKeepsOthers
    <2>1. Loaded(file, Len(file), n) = Readable(n)
      BY FinishedRewriteIsMap DEF IInv
    <2>2. Loaded(image.lines, Len(image.lines), n) = Readable(n)
      BY DEF IInv, ImageMatches
    <2> QED
      BY <2>1, <2>2
  <1> QED
    BY <1>1, Invariance, PTL

-------------------------------------------------------------------------------
(* Where an access comes from. *)

\* A chapter number is an int.
IntMax == 2147483647

NumbersAreInts ==
    /\ \A c \in Chapters : c <= IntMax
    /\ \A l \in HandLines : \A c \in l.chapters : c <= IntMax

\* The two cuts of a number that was torn, loaded, written and torn again are one cut.
LEMMA CutOfCut ==
    ASSUME NEW c \in Nat, c <= IntMax, NEW d \in DigitPrefixes(c), NEW e \in DigitPrefixes(d)
    PROVE  e \in DigitPrefixes(c)
  <1>1. d = c \/ \E w \in PowersOfTen : w <= c /\ d = c \div w
    BY DEF DigitPrefixes
  <1>2. e = d \/ \E v \in PowersOfTen : v <= d /\ e = d \div v
    BY DEF DigitPrefixes
  <1>3. ASSUME NEW w \in PowersOfTen, w <= c, d = c \div w,
               NEW v \in PowersOfTen, v <= d, e = d \div v
        PROVE  w * v \in PowersOfTen /\ w * v <= c /\ e = c \div (w * v)
    <2>1. w \in Nat /\ v \in Nat /\ w > 0 /\ v > 0
      BY DEF PowersOfTen
    <2>2. (c \div w) \div v = c \div (w * v)
      BY <2>1
    <2>3. w * v <= c
      <3>1. w * d <= c /\ d \in Nat
        BY <1>3, <2>1
      <3>2. w * v <= w * d
        BY <1>3, <2>1, <3>1
      <3>3. w * v \in Nat /\ w * d \in Nat
        BY <2>1, <3>1
      <3> QED
        BY <3>1, <3>2, <3>3
    <2>4. w * v <= IntMax
      BY <2>1, <2>3 DEF IntMax
    <2>5. w * v \in PowersOfTen
      BY <2>4 DEF PowersOfTen, IntMax
    <2> QED
      BY <1>3, <2>2, <2>3, <2>5
  <1>4. ASSUME NEW w \in PowersOfTen, w <= c, d = c \div w,
               NEW v \in PowersOfTen, v <= d, e = d \div v
        PROVE  e \in DigitPrefixes(c)
    BY <1>3, <1>4 DEF DigitPrefixes
  <1> QED
    BY <1>1, <1>2, <1>4 DEF DigitPrefixes

\* The writer once gave reader `n` this entry; or, after a number of cuts, this key and
\* level and all these chapters, up to their last digits.
Backed(n, e, given, cuts) ==
    \/ <<n, e>> \in given
    \/ /\ cuts # 0
       /\ \E g \in given :
            /\ g[1] = n
            /\ g[2].key = e.key
            /\ g[2].level = e.level
            /\ \A c \in e.chapters : \E d \in g[2].chapters : c \in DigitPrefixes(d)

\* Whatever is in memory, and whatever a load would take from a line of the file, was given.
AllBacked ==
    /\ \A g \in granted : \A c \in g[2].chapters : c <= IntMax
    /\ pc # "down" => \A n \in Names : readers[n] # None => Backed(n, readers[n], granted, crashes)
    /\ \A i \in 1..Len(file) :
            Valid(file[i]) => Backed(file[i].name, EntryOf(file[i]), granted, crashes)

\* An entry that was granted is backed by its grants.
LEMMA GivenIsBacked ==
    ASSUME NEW n, NEW e, NEW given, NEW cuts, <<n, e>> \in given
    PROVE  Backed(n, e, given, cuts)
  BY DEF Backed

\* More grants and more cuts take no backing away.
LEMMA BackedByMore ==
    ASSUME NEW n, NEW e, NEW given, NEW more, given \subseteq more,
           NEW cuts, NEW later, cuts # 0 => later # 0, Backed(n, e, given, cuts)
    PROVE  Backed(n, e, more, later)
  BY DEF Backed

\* A written line that can be read says what the map says.
LEMMA WrittenIsBacked ==
    ASSUME NEW n, NEW e \in Entry, NEW given, NEW cuts, Backed(n, e, given, cuts),
           Valid(LineOf(n, e))
    PROVE  LineOf(n, e).name = n /\ Backed(n, EntryOf(LineOf(n, e)), given, cuts)
  <1>1. LineOf(n, e).fields = 4
    BY DEF Valid
  <1>2. /\ LineOf(n, e).name = n /\ LineOf(n, e).key = e.key
        /\ LineOf(n, e).level = e.level /\ LineOf(n, e).chapters = e.chapters
    BY <1>1 DEF LineOf
  <1>3. EntryOf(LineOf(n, e)) = e
    BY <1>2 DEF EntryOf, Entry
  <1> QED
    BY <1>2, <1>3

\* What is left of a chapter list is made of its numbers and their cuts.
LEMMA CutChaptersFacts ==
    ASSUME NEW C \in SUBSET Nat, NEW D \in CutChapters(C), BadNumber \notin D, NEW d \in D
    PROVE  \E c \in C : d \in DigitPrefixes(c)
  <1> DEFINE before(c) == {x \in C : x < c}
  <1>1. ASSUME NEW c \in C, D = before(c)
        PROVE  d \in C
    BY <1>1
  <1>2. ASSUME NEW c \in C, NEW x \in DigitPrefixes(c), D = before(c) \cup {x}
        PROVE  d \in C \/ d \in DigitPrefixes(c)
    BY <1>2
  <1>3. \/ D = C \/ (\E c \in C : D = before(c))
        \/ \E c \in C : \E x \in DigitPrefixes(c) : D = before(c) \cup {x}
    BY DEF CutChapters
  <1>4. d \in C => d \in DigitPrefixes(d)
    BY DEF DigitPrefixes
  <1> QED
    BY <1>1, <1>2, <1>3, <1>4

\* A torn line that can be read grants no more than the line did.
LEMMA TornIsBacked ==
    ASSUME NEW n, NEW e \in Entry, NEW given \in SUBSET (Names \X Entry),
           \A g \in given : \A c \in g[2].chapters : c <= IntMax,
           NEW cuts, Backed(n, e, given, cuts), NEW t \in TornLines(LineOf(n, e)), Valid(t),
           NEW later, later # 0
    PROVE  t.name = n /\ Backed(n, EntryOf(t), given, later)
  <1> DEFINE l == LineOf(n, e)
  <1>1. \E C \in CutChapters(l.chapters) : l.fields = 4 /\ t = [l EXCEPT !.chapters = C]
    <2>1. t.fields = 4
      BY DEF Valid
    <2>2. ASSUME NEW k \in 1..3, t = [l EXCEPT !.fields = k] PROVE FALSE
      BY <2>1, <2>2 DEF LineOf
    <2> QED
      BY <2>2 DEF TornLines
  <1>2. PICK C \in CutChapters(l.chapters) : l.fields = 4 /\ t = [l EXCEPT !.chapters = C]
    BY <1>1
  <1>3. l.chapters = e.chapters /\ l.level = e.level /\ l.key = e.key /\ l.name = n
    BY <1>2 DEF LineOf
  <1>4. t.chapters = C /\ t.level = e.level /\ t.key = e.key /\ t.name = n
    BY <1>2, <1>3 DEF LineOf
  <1>5. BadNumber \notin C /\ e.chapters \in SUBSET Nat
    BY <1>4 DEF Valid, Entry
  <1>6. PICK g \in given : /\ g[1] = n /\ g[2].key = e.key /\ g[2].level = e.level
                           /\ \A c \in e.chapters :
                                  \E d \in g[2].chapters : c \in DigitPrefixes(d)
    <2>1. CASE <<n, e>> \in given
      BY <2>1 DEF DigitPrefixes
    <2> QED
      BY <2>1 DEF Backed
  <1>7. ASSUME NEW x \in C PROVE \E d \in g[2].chapters : x \in DigitPrefixes(d)
    <2>1. PICK c \in e.chapters : x \in DigitPrefixes(c)
      BY <1>2, <1>3, <1>5, CutChaptersFacts
    <2>2. PICK d \in g[2].chapters : c \in DigitPrefixes(d)
      BY <1>6
    <2>3. d \in Nat /\ d <= IntMax
      <3>1. g[2] \in Entry
        OBVIOUS
      <3> QED
        BY <3>1 DEF Entry
    <2> QED
      BY <2>1, <2>2, <2>3, CutOfCut
  <1>8. Backed(n, EntryOf(t), given, later)
    BY <1>4, <1>6, <1>7 DEF Backed, EntryOf
  <1> QED
    BY <1>4, <1>8

\* What the writer can be asked for has only chapters that he uses.
LEMMA GrantNumbers ==
    ASSUME NumbersAreInts, NEW e \in Grants
    PROVE  \A c \in e.chapters : c <= IntMax
  <1>1. PICK k \in Keys, d \in Details :
            e = [key |-> k, level |-> d.level, chapters |-> d.chapters]
    BY DEF Grants
  <1>2. d.chapters \subseteq Chapters
    BY DEF Details
  <1> QED
    BY <1>1, <1>2 DEF NumbersAreInts

\* An edit of a reader leaves an entry that could have been registered.
LEMMA UpdatedEntryIsGrant ==
    ASSUME NEW e \in Entry, NEW d \in Details
    PROVE  /\ [e EXCEPT !.level = d.level, !.chapters = d.chapters] \in Grants
           /\ [e EXCEPT !.level = d.level, !.chapters = d.chapters].key = e.key
  <1> DEFINE f == [e EXCEPT !.level = d.level, !.chapters = d.chapters]
  <1>1. /\ f \in Entry
        /\ f.key = e.key /\ f.level = d.level /\ f.chapters = d.chapters
    BY GrantsAreEntries DEF Entry
  <1> HIDE DEF f
  <1>2. f = [key |-> f.key, level |-> f.level, chapters |-> f.chapters] /\ f.key \in Keys
    BY <1>1 DEF Entry
  <1>3. f \in Grants /\ f.key = e.key
    BY <1>1, <1>2 DEF Grants
  <1> QED
    BY <1>3 DEF f

\* At first nothing needs any.
LEMMA BackedInit == Init => AllBacked
  <1> SUFFICES ASSUME Init PROVE AllBacked
    OBVIOUS
  <1>1. granted = {} /\ pc = "down" /\ file = <<>>
    BY DEF Init
  <1> QED
    BY <1>1 DEF AllBacked

\* A line that is appended, or put in the place of another, is what there is to look at.
LEMMA FileStaysBacked ==
    ASSUME AllBacked, TypeOK, granted \subseteq granted', crashes # 0 => crashes' # 0,
           \/ file' = file \/ file' = <<>>
           \/ \E l \in Line :
                /\ Valid(l) => Backed(l.name, EntryOf(l), granted', crashes')
                /\ \/ file' = Append(file, l)
                   \/ \E i \in 1..Len(file) : file' = [file EXCEPT ![i] = l]
    PROVE  \A i \in 1..Len(file') :
                Valid(file'[i]) => Backed(file'[i].name, EntryOf(file'[i]), granted', crashes')
  <1>1. ASSUME NEW i \in 1..Len(file), Valid(file[i])
        PROVE  Backed(file[i].name, EntryOf(file[i]), granted', crashes')
    BY <1>1, BackedByMore DEF AllBacked
  <1>2. CASE file' = file \/ file' = <<>>
    BY <1>1, <1>2
  <1>3. ASSUME NEW l \in Line, Valid(l) => Backed(l.name, EntryOf(l), granted', crashes'),
               \/ file' = Append(file, l)
               \/ \E i \in 1..Len(file) : file' = [file EXCEPT ![i] = l]
        PROVE  \A i \in 1..Len(file') :
                  file'[i] = l \/ (i \in 1..Len(file) /\ file'[i] = file[i])
    <2>1. file \in Seq(Line)
      BY DEF TypeOK
    <2>2. CASE file' = Append(file, l)
      BY <2>1, <2>2
    <2>3. ASSUME NEW j \in 1..Len(file), file' = [file EXCEPT ![j] = l]
          PROVE  \A i \in 1..Len(file') :
                    file'[i] = l \/ (i \in 1..Len(file) /\ file'[i] = file[i])
      BY <2>1, <2>3
    <2> QED
      BY <1>3, <2>2, <2>3
  <1> QED
    BY <1>1, <1>2, <1>3

\* The map only takes what was given, or what a line says.
LEMMA MapStaysBacked ==
    ASSUME AllBacked, granted \subseteq granted', crashes # 0 => crashes' # 0, pc # "down",
           NEW n \in Names, NEW e, Backed(n, e, granted', crashes'),
           readers' = [readers EXCEPT ![n] = e], readers \in [Names -> Entry \cup {None}]
    PROVE  \A m \in Names : readers'[m] # None => Backed(m, readers'[m], granted', crashes')
  <1>1. ASSUME NEW m \in Names, readers'[m] # None PROVE Backed(m, readers'[m], granted', crashes')
    <2>1. CASE m = n
      BY <2>1
    <2>2. CASE m # n
      BY <1>1, <2>2, BackedByMore DEF AllBacked
    <2> QED
      BY <2>1, <2>2
  <1> QED
    BY <1>1

\* A command grants what it puts into the registry.
LEMMA GrantStepBacked ==
    ASSUME NumbersAreInts, AllBacked, IInv, NEW n \in Names, NEW e \in Entry,
           \A c \in e.chapters : c <= IntMax, pc = "idle",
           readers' = [readers EXCEPT ![n] = e], granted' = granted \cup {<<n, e>>},
           BeginPersist(n)
    PROVE  AllBacked'
  <1>1. Backed(n, e, granted', crashes') /\ granted \subseteq granted'
    BY GivenIsBacked
  <1>6. crashes # 0 => crashes' # 0
    BY DEF BeginPersist, IInv, TypeOK
  <1>2. \A g \in granted' : \A c \in g[2].chapters : c <= IntMax
    BY DEF AllBacked
  <1>3. \A m \in Names : readers'[m] # None => Backed(m, readers'[m], granted', crashes')
    BY <1>1, <1>6, MapStaysBacked DEF IInv, TypeOK
  <1>4. file' = file \/ file' = <<>>
    BY DEF BeginPersist
  <1>5. \A i \in 1..Len(file') :
              Valid(file'[i]) => Backed(file'[i].name, EntryOf(file'[i]), granted', crashes')
    BY <1>1, <1>4, <1>6, FileStaysBacked DEF IInv
  <1> QED
    BY <1>2, <1>3, <1>5 DEF AllBacked

\* The next line of a rewrite is backed, when it is whole or the rewrite counts as cut.
LEMMA NextLineBacked ==
    ASSUME NumbersAreInts, AllBacked, IInv, pc = "persisting", pos < Len(order),
           NEW t, NEW cuts,
           \/ cuts = crashes /\ t = LineOf(order[pos + 1], readers[order[pos + 1]])
           \/ cuts # 0 /\ t \in TornLines(LineOf(order[pos + 1], readers[order[pos + 1]]))
    PROVE  t \in Line /\ (Valid(t) => Backed(t.name, EntryOf(t), granted, cuts))
  <1>1. pos + 1 \in 1..Len(order)
    BY DEF IInv, TypeOK
  <1>2. order[pos + 1] \in Names /\ readers[order[pos + 1]] \in Entry
    BY <1>1, OrderIsRegistered DEF IInv
  <1>3. Backed(order[pos + 1], readers[order[pos + 1]], granted, crashes)
    <2>1. readers[order[pos + 1]] # None
      BY <1>2, NoneAssumption
    <2> QED
      BY <1>2, <2>1 DEF AllBacked
  <1>4. granted \in SUBSET (Names \X Entry)
        /\ \A g \in granted : \A c \in g[2].chapters : c <= IntMax
    BY DEF IInv, TypeOK, AllBacked
  <1>5. CASE cuts = crashes /\ t = LineOf(order[pos + 1], readers[order[pos + 1]])
    BY <1>2, <1>3, <1>5, LineOfIsLine, WrittenIsBacked
  <1>6. CASE cuts # 0 /\ t \in TornLines(LineOf(order[pos + 1], readers[order[pos + 1]]))
    BY <1>2, <1>3, <1>4, <1>6, TornLineIsLine, TornIsBacked
  <1> QED
    BY <1>5, <1>6

\* Every step keeps the entries backed.
LEMMA BackedStep ==
    ASSUME NumbersAreInts, AllBacked, IInv, [Next]_vars
    PROVE  AllBacked'
  <1>1. ASSUME NEW n \in Names, NEW e \in Grants, AppendReader(n, e) PROVE AllBacked'
    <2>1. e \in Entry /\ \A c \in e.chapters : c <= IntMax
      BY GrantsAreEntries, GrantNumbers
    <2> QED
      BY <1>1, <2>1, GrantStepBacked DEF AppendReader
  <1>2. ASSUME NEW n \in Names, NEW d \in Details, UpdateReader(n, d) PROVE AllBacked'
    <2> DEFINE e == [readers[n] EXCEPT !.level = d.level, !.chapters = d.chapters]
    <2>1. readers[n] \in Entry
      BY <1>2 DEF IInv, TypeOK, UpdateReader
    <2>2. e \in Grants
      BY <2>1, UpdatedEntryIsGrant
    <2>3. e \in Entry /\ \A c \in e.chapters : c <= IntMax
      BY <2>2, GrantsAreEntries, GrantNumbers
    <2>4. /\ pc = "idle" /\ readers' = [readers EXCEPT ![n] = e]
          /\ granted' = granted \cup {<<n, e>>} /\ BeginPersist(n)
      BY <1>2 DEF UpdateReader
    <2> HIDE DEF e
    <2> QED
      BY <2>3, <2>4, GrantStepBacked
  <1>3. CASE LoadLine
    <2> DEFINE line == file[pos + 1]
    <2>1. /\ pc = "loading" /\ pos < Len(file) /\ file' = file /\ granted' = granted
          /\ pc' = pc /\ crashes' = crashes
          /\ readers' = IF Valid(line) THEN [readers EXCEPT ![line.name] = EntryOf(line)]
                        ELSE readers
      BY <1>3 DEF LoadLine
    <2>2. line \in Line /\ (Valid(line) => Backed(line.name, EntryOf(line), granted, crashes))
      BY <2>1 DEF IInv, TypeOK, AllBacked
    <2>3. \A m \in Names : readers'[m] # None => Backed(m, readers'[m], granted', crashes')
      <3>1. CASE Valid(line)
        <4>1. line.name \in Names
          BY <2>2, <3>1, ValidLineIsEntry
        <4> QED
          BY <2>1, <2>2, <3>1, <4>1, MapStaysBacked DEF IInv, TypeOK
      <3>2. CASE ~Valid(line)
        BY <2>1, <3>2 DEF AllBacked
      <3> QED
        BY <3>1, <3>2
    <2> QED
      BY <2>1, <2>3 DEF AllBacked
  <1>4. CASE PersistLine
    <2> DEFINE t == LineOf(order[pos + 1], readers[order[pos + 1]])
    <2>1. /\ pc = "persisting" /\ pos < Len(order) /\ file' = Append(file, t)
          /\ UNCHANGED <<pc, readers, granted, crashes>>
      BY <1>4 DEF PersistLine
    <2>2. t \in Line /\ (Valid(t) => Backed(t.name, EntryOf(t), granted, crashes))
      BY <2>1, NextLineBacked
    <2> HIDE DEF t
    <2>3. \A i \in 1..Len(file') :
            Valid(file'[i]) => Backed(file'[i].name, EntryOf(file'[i]), granted', crashes')
      BY <2>1, <2>2, FileStaysBacked DEF IInv
    <2> QED
      BY <2>1, <2>3 DEF AllBacked
  <1>5. ASSUME WriteIsCut, pc = "persisting", granted' = granted, crashes' # 0
        PROVE  \A i \in 1..Len(file') :
                  Valid(file'[i]) => Backed(file'[i].name, EntryOf(file'[i]), granted', crashes')
    <2>1. CASE UNCHANGED file
      BY <1>5, <2>1, FileStaysBacked DEF IInv
    <2>2. ASSUME pos < Len(order),
                 NEW t \in TornLines(LineOf(order[pos + 1], readers[order[pos + 1]])),
                 file' = Append(file, t)
          PROVE  \A i \in 1..Len(file') :
                    Valid(file'[i]) => Backed(file'[i].name, EntryOf(file'[i]), granted', crashes')
      <3>1. t \in Line /\ (Valid(t) => Backed(t.name, EntryOf(t), granted, crashes'))
        BY <1>5, <2>2, NextLineBacked
      <3> QED
        BY <1>5, <2>2, <3>1, FileStaysBacked DEF IInv
    <2> QED
      BY <1>5, <2>1, <2>2 DEF WriteIsCut
  <1>6. CASE Crash
    <2>1. /\ pc' = "down" /\ granted' = granted /\ crashes' # 0
          /\ IF pc = "persisting" THEN WriteIsCut ELSE UNCHANGED file
      BY <1>6 DEF Crash, Stop, IInv, TypeOK
    <2>2. \A i \in 1..Len(file') :
            Valid(file'[i]) => Backed(file'[i].name, EntryOf(file'[i]), granted', crashes')
      BY <1>5, <2>1, FileStaysBacked DEF IInv
    <2> QED
      BY <2>1, <2>2 DEF AllBacked
  <1>7. CASE DiskFull
    <2>1. /\ pc = "persisting" /\ WriteIsCut /\ readers' = readers /\ granted' = granted
          /\ crashes' # 0
      BY <1>7 DEF DiskFull, IInv, TypeOK
    <2>2. \A n \in Names : readers'[n] # None => Backed(n, readers'[n], granted', crashes')
      BY <2>1, BackedByMore DEF AllBacked
    <2> QED
      BY <1>5, <2>1, <2>2 DEF AllBacked
  <1>8. CASE HandEdit
    <2>1. PICK l \in HandLines :
            /\ \/ file' = Append(file, l)
               \/ \E i \in 1..Len(file) : file' = [file EXCEPT ![i] = l]
            /\ granted' = IF Valid(l) THEN granted \cup {<<l.name, EntryOf(l)>>}
                          ELSE granted
      BY <1>8 DEF HandEdit
    <2>2. pc' = pc /\ readers' = readers /\ crashes' = crashes
      BY <1>8 DEF HandEdit
    <2>3. l \in Line /\ \A c \in l.chapters : c <= IntMax
      BY ConstantsAssumption DEF NumbersAreInts
    <2>4. granted \subseteq granted' /\ (Valid(l) => Backed(l.name, EntryOf(l), granted', crashes'))
      BY <2>1, GivenIsBacked
    <2>5. \A i \in 1..Len(file') :
            Valid(file'[i]) => Backed(file'[i].name, EntryOf(file'[i]), granted', crashes')
      BY <2>1, <2>2, <2>3, <2>4, FileStaysBacked DEF IInv
    <2>6. \A g \in granted' : \A c \in g[2].chapters : c <= IntMax
      BY <2>1, <2>3 DEF AllBacked, EntryOf
    <2>7. pc # "down" => \A n \in Names : readers[n] # None =>
                                Backed(n, readers[n], granted', crashes')
      BY <2>2, <2>4, BackedByMore DEF AllBacked
    <2> QED
      BY <2>2, <2>5, <2>6, <2>7 DEF AllBacked
  <1>9. CASE Start
    <2>1. readers' = Nobody /\ file' = file /\ granted' = granted /\ crashes' = crashes
      BY <1>9 DEF Start
    <2> QED
      BY <2>1 DEF AllBacked, Nobody
  <1>10. CASE Exit
    BY <1>10 DEF Exit, Stop, AllBacked
  <1>11. CASE UNCHANGED vars \/ LoadDone \/ PersistDone
    BY <1>11 DEF vars, LoadDone, PersistDone, AllBacked, IInv
  <1> QED
    BY <1>1, <1>2, <1>3, <1>4, <1>6, <1>7, <1>8, <1>9, <1>10, <1>11 DEF Next

\* Whatever is reloaded, written again and edited by hand: every access in memory is one
\* the writer gave this very reader, up to the digits that broken-off rewrites have taken.
THEOREM ProvenanceCorrect == ASSUME NumbersAreInts PROVE Spec => []GrantProvenance
  <1>1. IInv /\ AllBacked /\ [Next]_vars => AllBacked'
    BY BackedStep
  <1>2. AllBacked => GrantProvenance
    BY DEF AllBacked, GrantProvenance, Backed
  <1> QED
    BY <1>1, <1>2, BackedInit, Invariance, PTL DEF Spec

-------------------------------------------------------------------------------
(* The refinement. *)

\* The registry is alone with its file, and no name or key has a colon.
NothingFails == MaxCrashes = 0 /\ MaxEdits = 0 /\ ~DiskMayFail /\ Colons = {}

\* Then nothing ever parts the file from the map.
NothingFailed == crashes = 0 /\ edits = 0 /\ ~stale

\* A map that was loaded in full, or written in full, is what its file holds.
LEMMA IdleDirectory ==
    ASSUME NothingFails, NothingFailed, IInv, pc = "idle" \/ (pc = "loading" /\ pos = Len(file))
    PROVE  readers = [n \in Names |-> Loaded(file, Len(file), n)]
  <1>1. readers = [n \in Names |-> readers[n]]
    BY DEF IInv, TypeOK
  <1>2. ASSUME NEW n \in Names PROVE readers[n] = Loaded(file, Len(file), n)
    <2>1. CASE pc = "idle"
      <3>1. Loaded(file, Len(file), n) = Readable(n)
        BY <2>1 DEF IInv, MemoryMatchesFile, NothingFailed
      <3>2. Readable(n) = readers[n]
        BY DEF Readable, NothingFails
      <3> QED
        BY <3>1, <3>2
    <2>2. CASE pc = "loading" /\ pos = Len(file)
      BY <2>2 DEF IInv, LoadingUpTo
    <2> QED
      BY <2>1, <2>2
  <1> QED
    BY <1>1, <1>2

\* If nothing may fail, nothing does.
LEMMA NothingFailedStep ==
    ASSUME NothingFails, NothingFailed, [Next]_vars
    PROVE  NothingFailed'
  <1>1. CASE \/ \E n \in Names, e \in Grants : AppendReader(n, e)
             \/ \E n \in Names, d \in Details : UpdateReader(n, d)
    <2>1. edits' = edits /\ \E n \in Names : BeginPersist(n)
      BY <1>1 DEF AppendReader, UpdateReader
    <2>2. stale' = stale /\ crashes' = crashes
      BY <2>1 DEF BeginPersist, NothingFails
    <2> QED
      BY <2>1, <2>2 DEF NothingFailed
  <1>2. CASE UNCHANGED vars \/ Start \/ LoadLine \/ LoadDone \/ PersistLine \/ PersistDone
             \/ Exit
    BY <1>2 DEF vars, Start, LoadLine, LoadDone, PersistLine, PersistDone, Exit, Stop,
                NothingFailed
  <1>3. CASE Crash \/ DiskFull \/ HandEdit
    BY <1>3 DEF Crash, DiskFull, HandEdit, NothingFails, NothingFailed
  <1> QED
    BY <1>1, <1>2, <1>3 DEF Next

\* Every step registers one reader, edits one, or is not to be seen.
LEMMA DirectoryStep ==
    ASSUME NothingFails, NothingFailed, IInv, [Next]_vars
    PROVE  Abstract!Next \/ Directory' = Directory
  <1>1. pc \in {"idle", "persisting"} => Directory = readers
    BY DEF Directory
  <1>2. pc' \in {"idle", "persisting"} => Directory' = readers'
    BY DEF Directory
  <1>3. pc \notin {"idle", "persisting"} =>
              Directory = [n \in Names |-> Loaded(file, Len(file), n)]
    BY DEF Directory
  <1>4. pc' \notin {"idle", "persisting"} =>
              Directory' = [n \in Names |-> Loaded(file', Len(file'), n)]
    BY DEF Directory
  <1>5. ASSUME NEW n \in Names, NEW e \in Grants, AppendReader(n, e)
        PROVE  Abstract!Next
    <2>1. pc = "idle" /\ readers[n] = None /\ readers' = [readers EXCEPT ![n] = e]
      BY <1>5 DEF AppendReader
    <2>2. pc' \in {"idle", "persisting"}
      BY <1>5, <2>1 DEF AppendReader, BeginPersist
    <2>3. Abstract!Register(n, e)
      BY <1>1, <1>2, <2>1, <2>2 DEF Abstract!Register
    <2> QED
      BY <2>3 DEF Abstract!Next
  <1>6. ASSUME NEW n \in Names, NEW d \in Details, UpdateReader(n, d)
        PROVE  Abstract!Next
    <2> DEFINE e == [readers[n] EXCEPT !.level = d.level, !.chapters = d.chapters]
    <2>1. pc = "idle" /\ readers[n] # None /\ readers' = [readers EXCEPT ![n] = e]
      BY <1>6 DEF UpdateReader
    <2>2. pc' \in {"idle", "persisting"}
      BY <1>6, <2>1 DEF UpdateReader, BeginPersist
    <2>3. readers[n] \in Entry
      BY <2>1 DEF IInv, TypeOK
    <2>4. e \in Grants /\ e.key = readers[n].key
      BY <2>3, UpdatedEntryIsGrant
    <2>5. Abstract!Assign(n, e)
      BY <1>1, <1>2, <2>1, <2>2, <2>4 DEF Abstract!Assign
    <2> QED
      BY <2>4, <2>5 DEF Abstract!Next
  <1>7. CASE Start \/ LoadLine
    <2>1. /\ pc \notin {"idle", "persisting"} /\ pc' \notin {"idle", "persisting"}
          /\ file' = file
      BY <1>7 DEF Start, LoadLine
    <2> QED
      BY <1>3, <1>4, <2>1
  <1>8. CASE LoadDone
    <2>1. /\ pc = "loading" /\ pos = Len(file) /\ pc' = "idle" /\ readers' = readers
      BY <1>8 DEF LoadDone
    <2> QED
      BY <1>2, <1>3, <2>1, IdleDirectory
  <1>9. CASE Exit
    <2>1. pc = "idle" /\ pc' = "down" /\ file' = file
      BY <1>9 DEF Exit, Stop
    <2> QED
      BY <1>1, <1>4, <2>1, IdleDirectory
  <1>10. CASE PersistLine \/ PersistDone
    <2>1. /\ pc \in {"idle", "persisting"} /\ pc' \in {"idle", "persisting"}
          /\ readers' = readers
      BY <1>10 DEF PersistLine, PersistDone
    <2> QED
      BY <1>1, <1>2, <2>1
  <1>11. CASE UNCHANGED vars
    <2>1. pc' = pc /\ file' = file /\ readers' = readers
      BY <1>11 DEF vars
    <2> QED
      BY <1>1, <1>2, <1>3, <1>4, <2>1
  <1>12. ~Crash /\ ~DiskFull /\ ~HandEdit
    BY DEF Crash, DiskFull, HandEdit, NothingFails, NothingFailed
  <1> QED
    BY <1>5, <1>6, <1>7, <1>8, <1>9, <1>10, <1>11, <1>12 DEF Next

\* Without crashes, failed writes, hand edits and colons the registry implements the durable
\* map of ReaderDirectory, restarts and reloads included.
THEOREM DirectoryCorrect == ASSUME NothingFails PROVE Spec => ImplementsDirectory
  <1>1. Init => NothingFailed /\ Abstract!Init
    <2> SUFFICES ASSUME Init PROVE NothingFailed /\ Abstract!Init
      OBVIOUS
    <2>1. pc = "down" /\ file = <<>> /\ crashes = 0 /\ edits = 0 /\ stale = FALSE
      BY DEF Init
    <2>2. ASSUME NEW n \in Names PROVE Loaded(file, Len(file), n) = None
      BY <2>1, LoadedNothing
    <2> QED
      BY <2>1, <2>2 DEF Directory, NothingFailed, Abstract!Init
  <1>2. IInv /\ NothingFailed /\ [Next]_vars => NothingFailed' /\ [Abstract!Next]_Directory
    BY NothingFailedStep, DirectoryStep
  <1> QED
    BY <1>1, <1>2, Invariance, PTL DEF Spec, ImplementsDirectory, Abstract!Spec
===============================================================================
