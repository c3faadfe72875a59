------------------------ MODULE ChapterPublishingProofs ------------------------
(***************************************************************************)
(* Theorems about ChapterPublishing, for all readers, keys, chapters and   *)
(* offers, and every number of commands, faults and hand edits.            *)
(***************************************************************************)
EXTENDS ChapterPublishing, TLAPS

-------------------------------------------------------------------------------
(* What a load makes of access.txt, whole and broken off. *)

IntMax == 2147483647

\* The two cuts of a number that was torn, loaded, written and torn again are one cut.
LEMMA CutOfCut ==
    ASSUME NEW c \in Nat, c <= IntMax, NEW d \in DigitPrefixes(c), NEW e \in DigitPrefixes(d)
    PROVE  e \in DigitPrefixes(c)
  <1>1. d = c \/ \E w \in PowersOfTen : w <= c /\ d = c \div w
    BY DEF DigitPrefixes
  <1>2. e = d \/ \E v \in PowersOfTen : v <= d /\ e = d \div v
    BY DEF DigitPrefixes
  <1>3. ASSUME NEW w \in PowersOfTen, w <= c, d = c \div w,
               NEW v \in PowersOfTen, v <= d, e = d \div v
        PROVE  w * v \in PowersOfTen /\ w * v <= c /\ e = c \div (w * v)
    <2>1. w \in Nat /\ v \in Nat /\ w > 0 /\ v > 0
      BY DEF PowersOfTen
    <2>2. (c \div w) \div v = c \div (w * v)
      BY <2>1
    <2>3. w * v <= c
      <3>1. w * d <= c /\ d \in Nat
        BY <1>3, <2>1
      <3>2. w * v <= w * d
        BY <1>3, <2>1, <3>1
      <3>3. w * v \in Nat /\ w * d \in Nat
        BY <2>1, <3>1
      <3> QED
        BY <3>1, <3>2, <3>3
    <2>4. w * v <= IntMax
      BY <2>1, <2>3 DEF IntMax
    <2>5. w * v \in PowersOfTen
      BY <2>4 DEF PowersOfTen, IntMax
    <2> QED
      BY <1>3, <2>2, <2>3, <2>5
  <1>4. ASSUME NEW w \in PowersOfTen, w <= c, d = c \div w,
               NEW v \in PowersOfTen, v <= d, e = d \div v
        PROVE  e \in DigitPrefixes(c)
    BY <1>3, <1>4 DEF DigitPrefixes
  <1> QED
    BY <1>1, <1>2, <1>4 DEF DigitPrefixes

\* What is left of a chapter list is made of its numbers and their cuts.
LEMMA CutChaptersFacts ==
    ASSUME NEW C \in SUBSET Nat, NEW D \in CutChapters(C), BadNumber \notin D, NEW d \in D
    PROVE  d \in Nat /\ \E c \in C : d \in DigitPrefixes(c)
  <1> DEFINE before(c) == {x \in C : x < c}
  <1>1. ASSUME NEW c \in C, D = before(c)
        PROVE  d \in C
    BY <1>1
  <1>2. ASSUME NEW c \in C, NEW x \in DigitPrefixes(c), D = before(c) \cup {x}
        PROVE  d \in C \/ d \in DigitPrefixes(c)
    BY <1>2
  <1>3. \/ D = C \/ (\E c \in C : D = before(c))
        \/ \E c \in C : \E x \in DigitPrefixes(c) : D = before(c) \cup {x}
    BY DEF CutChapters
  <1>4. d \in C => d \in DigitPrefixes(d)
    BY DEF DigitPrefixes
  <1>5. \E c \in C : d \in DigitPrefixes(c)
    BY <1>1, <1>2, <1>3, <1>4
  <1>6. PICK c \in C : d \in DigitPrefixes(c)
    BY <1>5
  <1>7. c \in Nat /\ \A w \in PowersOfTen : c \div w \in Nat
    BY DEF PowersOfTen
  <1> QED
    BY <1>5, <1>6, <1>7 DEF DigitPrefixes

\* A line of reader `n` with the key and the level of `e`, and with chapters of `e` or what
\* a cut leaves of their numbers.
Shortened(n, e, f) ==
    /\ n \notin Colons /\ e.key \notin Colons
    /\ f \in Entry /\ f.key = e.key /\ f.level = e.level
    /\ ChaptersMatchLevel(f.level, f.chapters)
    /\ \A d \in f.chapters : \E c \in e.chapters : d \in DigitPrefixes(c)

\* A line that can be read back says what was to be written.
LEMMA RereadFacts ==
    ASSUME NEW n \in Names, NEW e \in Entry \cup {None}
    PROVE  /\ Reread(n, e) \in {None, e}
           /\ Reread(n, e) # None => e # None /\ Shortened(n, e, e)
           /\ e # None /\ n \notin Colons /\ e.key \notin Colons
              /\ ChaptersMatchLevel(e.level, e.chapters) => Reread(n, e) = e
  <1>1. CASE e = None
    BY <1>1 DEF Reread
  <1>2. CASE e # None
    <2>1. /\ e \in Entry
          /\ e = [key |-> e.key, level |-> e.level, chapters |-> e.chapters]
          /\ e.level \in Levels /\ e.chapters \subseteq Nat /\ BadNumber \notin e.chapters
      BY <1>2 DEF Entry, BadNumber
    <2>2. Reread(n, e) = IF Valid(LineOf(n, e)) THEN EntryOf(LineOf(n, e)) ELSE None
      BY <1>2 DEF Reread, Read
    <2>3. CASE n \in Colons \/ e.key \in Colons
      BY <2>2, <2>3 DEF LineOf, Valid
    <2>4. CASE ~(n \in Colons \/ e.key \in Colons)
      <3>1. /\ Valid(LineOf(n, e)) <=> ChaptersMatchLevel(e.level, e.chapters)
            /\ EntryOf(LineOf(n, e)) = e
        BY <2>1, <2>4 DEF LineOf, Valid, EntryOf
      <3>2. \A d \in e.chapters : d \in DigitPrefixes(d)
        BY DEF DigitPrefixes
      <3> QED
        BY <1>2, <2>1, <2>2, <2>4, <3>1, <3>2 DEF Shortened
    <2> QED
      BY <2>3, <2>4
  <1> QED
    BY <1>1, <1>2

\* A torn line that can be read back says no more than was to be written, but for digits.
LEMMA TornFacts ==
    ASSUME NEW n \in Names, NEW e \in Entry, NEW t \in TornLines(LineOf(n, e)),
           Read(t) # None
    PROVE  Shortened(n, e, Read(t))
  <1> DEFINE l == LineOf(n, e)
  <1>1. Valid(t) /\ Read(t) = [key |-> t.key, level |-> t.level, chapters |-> t.chapters]
    BY DEF Read, EntryOf
  <1>2. \E C \in CutChapters(l.chapters) : l.fields = 4 /\ t = [l EXCEPT !.chapters = C]
    <2>1. t.fields = 4
      BY <1>1 DEF Valid
    <2>2. ASSUME NEW k \in 1..3, t = [l EXCEPT !.fields = k] PROVE FALSE
      BY <2>1, <2>2 DEF LineOf
    <2> QED
      BY <2>2 DEF TornLines
  <1>3. PICK C \in CutChapters(l.chapters) : l.fields = 4 /\ t = [l EXCEPT !.chapters = C]
    BY <1>2
  <1>4. /\ l.chapters = e.chapters /\ l.level = e.level /\ l.key = e.key
        /\ n \notin Colons /\ e.key \notin Colons
    BY <1>3 DEF LineOf
  <1>5. t.chapters = C /\ t.level = e.level /\ t.key = e.key
    BY <1>3, <1>4 DEF LineOf
  <1>6. BadNumber \notin C /\ ChaptersMatchLevel(e.level, C)
    BY <1>1, <1>5 DEF Valid
  <1>7. e.chapters \in SUBSET Nat /\ e.key \in Keys /\ e.level \in Levels
    BY DEF Entry
  <1>8. \A d \in C : d \in Nat /\ \E c \in e.chapters : d \in DigitPrefixes(c)
    BY <1>3, <1>4, <1>6, <1>7, CutChaptersFacts
  <1> QED
    BY <1>1, <1>4, <1>5, <1>6, <1>7, <1>8 DEF Shortened, Entry

\* What a load makes of a rewrite that came to its end.
LEMMA SavedFacts ==
    ASSUME NEW a \in Access
    PROVE  /\ Saved(a) \in Access
           /\ \A n \in Names : /\ Saved(a)[n] = Reread(n, a[n])
                               /\ Saved(a)[n] \in {None, a[n]}
                               /\ Saved(a)[n] # None => Shortened(n, a[n], Saved(a)[n])
  <1>1. \A n \in Names : a[n] \in Entry \cup {None}
    BY DEF Access
  <1>2. \A n \in Names : Saved(a)[n] = Reread(n, a[n])
    BY DEF Saved
  <1>3. \A n \in Names : /\ Reread(n, a[n]) \in {None, a[n]}
                         /\ Reread(n, a[n]) # None => Shortened(n, a[n], a[n])
    BY <1>1, RereadFacts
  <1> QED
    BY <1>1, <1>2, <1>3 DEF Saved, Access

\* What a load makes of a rewrite that was broken off.
LEMMA CutShortFacts ==
    ASSUME NEW a \in Access, NEW b \in CutShort(a)
    PROVE  /\ b \in Access
           /\ \A n \in Names : b[n] # None => a[n] # None /\ Shortened(n, a[n], b[n])
  <1> DEFINE listed == {n \in Names : a[n] # None}
  <1>1. PICK R \in SUBSET listed :
            b = Written(a, R) \/ \E n \in listed \ R : b \in TornAt(a, R, n)
    BY DEF CutShort
  <1>2. \A n \in Names : a[n] \in Entry \cup {None}
    BY DEF Access
  <1>3. \A n \in Names : /\ Reread(n, a[n]) \in {None, a[n]}
                         /\ Reread(n, a[n]) # None => a[n] # None /\ Shortened(n, a[n], a[n])
    BY <1>2, RereadFacts
  <1> DEFINE w == Written(a, R)
  <1>4. \A n \in Names : w[n] \in {None, Reread(n, a[n])}
    BY DEF Written
  <1>5. w \in Access
    BY <1>2, <1>3 DEF Written, Access
  <1>6. \A n \in Names : w[n] # None => a[n] # None /\ Shortened(n, a[n], w[n])
    BY <1>3, <1>4
  <1>7. ASSUME NEW n \in listed \ R, b \in TornAt(a, R, n)
        PROVE  /\ b \in Access
               /\ \A m \in Names : b[m] # None => a[m] # None /\ Shortened(m, a[m], b[m])
    <2>1. PICK t \in TornLines(LineOf(n, a[n])) : b = [w EXCEPT ![n] = Read(t)]
      BY <1>7 DEF TornAt
    <2>2. a[n] \in Entry /\ n \in Names /\ a[n] # None
      BY <1>2
    <2>3. Read(t) # None => Shortened(n, a[n], Read(t))
      BY <2>1, <2>2, TornFacts
    <2>4. Read(t) \in Entry \cup {None}
      BY <2>3 DEF Shortened
    <2> HIDE DEF w
    <2>5. b \in Access /\ b[n] = Read(t) /\ \A m \in Names : m # n => b[m] = w[m]
      BY <1>5, <2>1, <2>2, <2>4 DEF Access
    <2> QED
      BY <1>6, <2>2, <2>3, <2>5
  <1> QED
    BY <1>1, <1>5, <1>6, <1>7

-------------------------------------------------------------------------------
(* Trees, and what the invariant says of them. *)

Content == ChapterFile \cup {None, Garbled}

TypedTree(t) ==
    /\ t \in Tree
    /\ t[AccessTxt] \in Access \cup {None}
    /\ \A c \in Chapters : t[c] \in Content

\* The writer allowed the reader this chapter with this key; or, once a rewrite was broken
\* off, a chapter with these digits and more.
Given(n, k, c, grants, cuts) ==
    \/ <<n, k, c>> \in grants
    \/ cuts /\ \E d \in Chapters : c \in DigitPrefixes(d) /\ <<n, k, d>> \in grants

\* Every wrapped key of the tree was given.
GrantedTree(t, grants, cuts) ==
    \A c \in Chapters : IsChapter(t[c]) =>
        \A w \in t[c].wraps : Given(w[1], w[2], c, grants, cuts)

\* All that an entry allows was given.
EntryGiven(n, e, grants, cuts) ==
    /\ e.level = "Master" => \A c \in Chapters : <<n, e.key, c>> \in grants
    /\ \A c \in e.chapters : Given(n, e.key, c, grants, cuts)

AccessGiven(a, grants, cuts) ==
    \A n \in Names : a[n] # None => EntryGiven(n, a[n], grants, cuts)

\* Every wrapped key of the tree, but for the colons, belongs to a reader of this access.txt.
ListedTree(t, access) ==
    \A c \in Chapters : IsChapter(t[c]) =>
        \A w \in PlainWraps(t[c]) : access[w[1]] # None /\ access[w[1]].key = w[2]

\* Whoever is listed in `a` is in `b`, with the same key.
AccessBehind(a, b) == \A n \in Names : a[n] # None => b[n] # None /\ b[n].key = a[n].key

NoHalfFile(t) == \A c \in Chapters : t[c] # Garbled

\* The chapters of every entry fit its level.
MatchLevels(a) ==
    \A n \in Names : a[n] # None => ChaptersMatchLevel(a[n].level, a[n].chapters)

\* Where a program that works on a chapter has it from.
AtWork ==
    /\ pc \in {"ask", "wrap"} => chapter \in Chapters
    /\ pc \in {"persist", "add", "commit", "push"} /\ job # "edit" => chapter \in Chapters
    /\ pc = "persist" => job # "encrypt"

\* Whoever may open a chapter, in memory or on disk, was allowed to; and so was everybody
\* for whom a chapter file has a wrapped key, wherever the file got to.
GrantsCover ==
    /\ AccessGiven(registry, granted, cut)
    /\ AccessGiven(RegistryOf(disk), granted, cut)
    /\ GrantedTree(disk, granted, cut)
    /\ GrantedTree(git.index, granted, cut)
    /\ GrantedTree(git.head, granted, cut)
    /\ GrantedTree(git.remote, granted, cut)

\* What a crash left of a chapter file is on disk only, and not when it is to be added.
HalfFilesStay ==
    ~unwritten =>
        /\ NoHalfFile(git.index) /\ NoHalfFile(git.head) /\ NoHalfFile(git.remote)
        /\ pc = "add" /\ job = "encrypt" => disk[chapter] # Garbled

\* The entries fit their levels, and what was read from the disk could be read again.
Readable ==
    /\ MatchLevels(registry)
    /\ Saved(RegistryOf(disk)) = RegistryOf(disk)

\* access.txt is what can be read back of the map in memory; as long as no rewrite was broken
\* off it has everybody for whom there is a wrapped key.
DiskIsRegistry ==
    ~unwritten /\ edits = 0 =>
        /\ pc \notin {"off", "persist"} => RegistryOf(disk) = Saved(registry)
        /\ pc = "persist" => AccessBehind(RegistryOf(disk), Saved(registry))
        /\ ~cut =>
            /\ ListedTree(disk, RegistryOf(disk))
            /\ ListedTree(git.index, RegistryOf(disk))
            /\ ListedTree(git.head, RegistryOf(disk))
            /\ ListedTree(git.remote, RegistryOf(disk))

IInv ==
    /\ TypeOK
    /\ AtWork
    /\ GrantsCover
    /\ HalfFilesStay
    /\ Readable
    /\ DiskIsRegistry
    /\ WrapsFollowAccessFile

\* The paths, and the values that stand for no file.
LEMMA PathFacts ==
    /\ AccessTxt \notin Chapters /\ None \notin Chapters
    /\ AccessTxt \in Paths /\ Chapters \subseteq Paths
    /\ \A p \in Paths : p = AccessTxt \/ p \in Chapters
    /\ None # Garbled /\ None \notin Access
    /\ \A f \in ChapterFile : IsChapter(f) /\ f.wraps \in SUBSET (Names \X Keys)
  BY PublishingAssumption, NoneAssumption, ContentsAssumption
  DEF Paths, IsChapter, ChapterFile

\* The parts of TypeOK, for provers that are good at different ones.
LEMMA TypeParts ==
    TypeOK <=>
        /\ pc \in {"off", "menu", "ask", "persist", "wrap", "add", "commit", "push"}
        /\ job \in {"register", "edit", "encrypt"}
        /\ chapter \in Chapters \cup {None}
        /\ registry \in Access
        /\ git \in [index : Tree, head : Tree, remote : Tree]
        /\ TypedTree(disk)
        /\ TypedTree(git.index) /\ TypedTree(git.head) /\ TypedTree(git.remote)
        /\ origin \in BOOLEAN /\ skipped \in BOOLEAN
        /\ unwritten \in BOOLEAN /\ cut \in BOOLEAN
        /\ result \in {"none", "not_bootstrapped", "plaintext_not_found", "not_registered",
                       "success", "some_readers_skipped", "push_failed"}
        /\ granted \subseteq Names \X Keys \X Chapters
        /\ commands \in Nat /\ faults \in Nat /\ edits \in Nat
  BY DEF TypeOK, TypedTree, Content, Tree

\* The entries of a registry.
LEMMA EntryFacts ==
    /\ Grants \subseteq Entry /\ Offers \subseteq Entry
    /\ \A a \in Access, n \in Names : a[n] # None => a[n] \in Entry
    /\ \A e, o \in Entry : [o EXCEPT !.key = e.key] \in Entry
    /\ \A e, o \in Entry : [o EXCEPT !.key = e.key].key = e.key
  <1>1. Details \subseteq [level : Levels, chapters : SUBSET Nat]
    BY ChaptersAssumption DEF Details, Levels
  <1>2. Grants \subseteq Entry
    BY <1>1 DEF Grants, Entry
  <1> QED
    BY <1>2, PublishingAssumption DEF Access, Entry

\* What can be registered fits its level, and has only chapters that the writer uses.
LEMMA GrantFacts ==
    ASSUME NEW e \in Grants
    PROVE  /\ e \in Entry /\ e # None
           /\ e.level \in Levels /\ e.chapters \subseteq Chapters
           /\ ChaptersMatchLevel(e.level, e.chapters)
           /\ \A k \in Keys : [e EXCEPT !.key = k] \in Grants
                              /\ [e EXCEPT !.key = k].key = k
  <1>1. PICK l \in Keys, d \in Details :
            e = [key |-> l, level |-> d.level, chapters |-> d.chapters]
    BY DEF Grants
  <1>2. /\ d.level \in Levels /\ d.chapters \subseteq Chapters
        /\ ChaptersMatchLevel(d.level, d.chapters)
    <2>1. CASE d \in [level : {"Master"}, chapters : {{}}]
      BY <2>1 DEF Levels, ChaptersMatchLevel
    <2>2. CASE d \in [level : {"Apprentice"}, chapters : (SUBSET Chapters) \ {{}}]
      BY <2>2 DEF Levels, ChaptersMatchLevel
    <2>3. CASE d \in [level : {"Novice"}, chapters : {{c} : c \in Chapters}]
      BY <2>3 DEF Levels, ChaptersMatchLevel
    <2> QED
      BY <2>1, <2>2, <2>3 DEF Details
  <1>3. ASSUME NEW k \in Keys
        PROVE  [e EXCEPT !.key = k] \in Grants /\ [e EXCEPT !.key = k].key = k
    <2>1. [e EXCEPT !.key = k] = [key |-> k, level |-> d.level, chapters |-> d.chapters]
      BY <1>1
    <2> QED
      BY <2>1 DEF Grants
  <1> QED
    BY <1>1, <1>2, <1>3, EntryFacts, NoneAssumption

\* What is in a tree can be loaded.
LEMMA RegistryFacts ==
    ASSUME NEW t, TypedTree(t)
    PROVE  /\ RegistryOf(t) \in Access
           /\ t[AccessTxt] = None => \A n \in Names : RegistryOf(t)[n] = None
           /\ t[AccessTxt] # None => RegistryOf(t) = t[AccessTxt]
  BY DEF TypedTree, RegistryOf, Nobody, Access

\* What is read back of a map is in the map; and it can be read back again.
LEMMA SavedOnce ==
    ASSUME NEW a \in Access
    PROVE  /\ AccessBehind(Saved(a), a)
           /\ MatchLevels(Saved(a))
           /\ Saved(Saved(a)) = Saved(a)
  <1>1. \A n \in Names : Saved(a)[n] # None =>
            a[n] # None /\ Saved(a)[n] = a[n] /\ Shortened(n, a[n], Saved(a)[n])
    BY SavedFacts
  <1>2. MatchLevels(Saved(a)) /\ AccessBehind(Saved(a), a)
    BY <1>1 DEF MatchLevels, AccessBehind, Shortened
  <1>3. Saved(a) \in Access /\ \A n \in Names : Saved(a)[n] \in Entry \cup {None}
    BY SavedFacts DEF Access
  <1>4. ASSUME NEW n \in Names PROVE Reread(n, Saved(a)[n]) = Saved(a)[n]
    <2>1. CASE Saved(a)[n] = None
      BY <2>1 DEF Reread
    <2>2. CASE Saved(a)[n] # None
      BY <1>1, <1>3, <2>2, RereadFacts DEF Shortened
    <2> QED
      BY <2>1, <2>2
  <1>5. Saved(Saved(a)) = [n \in Names |-> Saved(a)[n]]
    BY <1>4 DEF Saved
  <1>6. Saved(a) = [n \in Names |-> Saved(a)[n]]
    BY <1>3 DEF Access
  <1> QED
    BY <1>2, <1>5, <1>6

\* What was broken off can be read again as it is.
LEMMA CutShortOnce ==
    ASSUME NEW a \in Access, NEW b \in CutShort(a)
    PROVE  b \in Access /\ Saved(b) = b
  <1>1. /\ b \in Access
        /\ \A n \in Names : b[n] # None => Shortened(n, a[n], b[n])
    BY CutShortFacts
  <1>2. \A n \in Names : b[n] \in Entry \cup {None}
    BY <1>1 DEF Access
  <1>3. ASSUME NEW n \in Names PROVE Reread(n, b[n]) = b[n]
    <2>1. CASE b[n] = None
      BY <2>1 DEF Reread
    <2>2. CASE b[n] # None
      BY <1>1, <1>2, <2>2, RereadFacts DEF Shortened
    <2> QED
      BY <2>1, <2>2
  <1>4. Saved(b) = [n \in Names |-> b[n]] /\ b = [n \in Names |-> b[n]]
    BY <1>1, <1>3 DEF Saved, Access
  <1> QED
    BY <1>1, <1>4

\* What can be read back was given, if the whole was.
LEMMA ShortenedIsGiven ==
    ASSUME NEW n \in Names, NEW e \in Entry, NEW f, Shortened(n, e, f),
           NEW g \in SUBSET (Names \X Keys \X Chapters), EntryGiven(n, e, g, TRUE)
    PROVE  EntryGiven(n, f, g, TRUE)
  <1>1. f.key = e.key /\ f.level = e.level /\ f.chapters \subseteq Nat
    BY DEF Shortened, Entry
  <1>2. ASSUME NEW x \in f.chapters PROVE Given(n, f.key, x, g, TRUE)
    <2>1. PICK c \in e.chapters : x \in DigitPrefixes(c)
      BY DEF Shortened
    <2>2. PICK d \in Chapters : c \in DigitPrefixes(d) /\ <<n, e.key, d>> \in g
      <3>1. CASE <<n, e.key, c>> \in g
        <4>1. c \in Chapters
          BY <3>1
        <4> QED
          BY <3>1, <4>1 DEF DigitPrefixes
      <3> QED
        BY <3>1 DEF EntryGiven, Given
    <2>3. d \in Nat /\ d <= IntMax
      BY ChaptersAssumption, PublishingAssumption DEF IntMax
    <2>4. x \in DigitPrefixes(d)
      BY <2>1, <2>2, <2>3, CutOfCut
    <2> QED
      BY <1>1, <2>2, <2>4 DEF Given
  <1> QED
    BY <1>1, <1>2 DEF EntryGiven

\* One file of a tree is replaced.
LEMMA ReplaceFile ==
    ASSUME NEW t, TypedTree(t), NEW p \in Paths, NEW x,
           p = AccessTxt => x \in Access \cup {None},
           p # AccessTxt => x \in Content
    PROVE  LET u == [t EXCEPT ![p] = x] IN
           /\ TypedTree(u)
           /\ u[p] = x
           /\ \A q \in Paths : q # p => u[q] = t[q]
  <1> DEFINE u == [t EXCEPT ![p] = x]
  <1>1. t \in [Paths -> Access \cup ChapterFile \cup {None, Garbled}]
    BY DEF TypedTree, Tree
  <1>2. u[p] = x /\ \A q \in Paths : q # p => u[q] = t[q]
    BY <1>1
  <1>3. x \in Access \cup ChapterFile \cup {None, Garbled}
    BY DEF Content
  <1>4. u \in Tree
    BY <1>1, <1>3 DEF Tree
  <1>5. u[AccessTxt] \in Access \cup {None}
    BY <1>2, PathFacts DEF TypedTree
  <1>6. ASSUME NEW c \in Chapters PROVE u[c] \in Content
    BY <1>2, PathFacts DEF TypedTree
  <1> QED
    BY <1>2, <1>4, <1>5, <1>6 DEF TypedTree

\* A folder with another access.txt.
LEMMA ReplaceAccess ==
    ASSUME NEW t, TypedTree(t), NEW a \in Access
    PROVE  LET u == [t EXCEPT ![AccessTxt] = a] IN
           /\ TypedTree(u) /\ u[AccessTxt] = a /\ RegistryOf(u) = a
           /\ \A c \in Chapters : u[c] = t[c]
  <1>1. AccessTxt \in Paths /\ (AccessTxt # AccessTxt => a \in Content)
    BY PathFacts
  <1>2. LET u == [t EXCEPT ![AccessTxt] = a] IN
        /\ TypedTree(u) /\ u[AccessTxt] = a
        /\ \A q \in Paths : q # AccessTxt => u[q] = t[q]
    BY <1>1, ReplaceFile
  <1> QED
    BY <1>2, PathFacts DEF RegistryOf

\* A folder with another chapter file.
LEMMA ReplaceChapter ==
    ASSUME NEW t, TypedTree(t), NEW c \in Chapters, NEW x \in Content
    PROVE  LET u == [t EXCEPT ![c] = x] IN
           /\ TypedTree(u) /\ u[AccessTxt] = t[AccessTxt] /\ u[c] = x
           /\ RegistryOf(u) = RegistryOf(t)
           /\ \A d \in Chapters : d # c => u[d] = t[d]
  <1>1. c \in Paths /\ (c = AccessTxt => x \in Access \cup {None})
    BY PathFacts
  <1>2. LET u == [t EXCEPT ![c] = x] IN
        /\ TypedTree(u) /\ u[c] = x
        /\ \A q \in Paths : q # c => u[q] = t[q]
    BY <1>1, ReplaceFile
  <1> QED
    BY <1>2, PathFacts DEF RegistryOf

\* The folder that nothing was written to.
LEMMA EmptyFolderFacts ==
    /\ TypedTree(EmptyFolder)
    /\ EmptyFolder[AccessTxt] = None /\ RegistryOf(EmptyFolder) = Nobody
    /\ \A c \in Chapters : EmptyFolder[c] = None
    /\ Nobody \in Access /\ \A n \in Names : Nobody[n] = None
  <1>1. \A p \in Paths : EmptyFolder[p] = None
    BY DEF EmptyFolder
  <1>2. EmptyFolder \in Tree
    BY DEF EmptyFolder, Tree
  <1> QED
    BY <1>1, <1>2, PathFacts DEF TypedTree, Content, RegistryOf, Nobody, Access

\* At first the invariant holds.
LEMMA InitEstablishes == Init => IInv
  <1> SUFFICES ASSUME Init PROVE IInv
    OBVIOUS
  <1>1. /\ git = [index |-> EmptyFolder, head |-> EmptyFolder, remote |-> EmptyFolder]
        /\ git.index = EmptyFolder /\ git.head = EmptyFolder /\ git.remote = EmptyFolder
        /\ disk = EmptyFolder /\ registry = Nobody
        /\ pc = "off" /\ job = "edit" /\ chapter = None /\ result = "none"
        /\ origin \in BOOLEAN /\ skipped = FALSE /\ unwritten = FALSE /\ granted = {}
        /\ cut = FALSE /\ commands = 0 /\ faults = 0 /\ edits = 0
    BY DEF Init, Clone
  <1>2. TypeOK
    <2>1. git \in [index : Tree, head : Tree, remote : Tree]
      BY <1>1, EmptyFolderFacts DEF TypedTree
    <2> QED
      BY <1>1, <2>1, EmptyFolderFacts, TypeParts
  <1>3. \A c \in Chapters : ~IsChapter(EmptyFolder[c]) /\ EmptyFolder[c] # Garbled
    BY EmptyFolderFacts, PathFacts DEF IsChapter
  <1>4. GrantsCover
    BY <1>1, <1>3, EmptyFolderFacts DEF GrantsCover, GrantedTree, AccessGiven
  <1>5. Readable
    <2>1. Saved(Nobody) = [n \in Names |-> None]
      BY EmptyFolderFacts DEF Saved, Reread
    <2> QED
      BY <1>1, <2>1, EmptyFolderFacts DEF Readable, MatchLevels, Nobody
  <1>6. HalfFilesStay /\ DiskIsRegistry
    BY <1>1, <1>3 DEF HalfFilesStay, NoHalfFile, DiskIsRegistry, ListedTree
  <1> QED
    BY <1>1, <1>2, <1>4, <1>5, <1>6 DEF IInv, AtWork, WrapsFollowAccessFile

-------------------------------------------------------------------------------
(* Steps that touch no file. *)

\* The storage as it was, and the program not about to write or add a file.
LEMMA QuietStep ==
    ASSUME IInv, TypeOK', AtWork',
           UNCHANGED <<registry, disk, git, granted, unwritten, cut, edits>>,
           pc' \notin {"add", "persist"}, pc # "persist", pc = "off" => pc' = "off"
    PROVE  IInv'
  <1>1. GrantsCover' /\ Readable'
    BY DEF IInv, GrantsCover, GrantedTree, AccessGiven, Readable, MatchLevels, RegistryOf,
           Saved
  <1>2. HalfFilesStay' /\ WrapsFollowAccessFile'
    BY DEF IInv, HalfFilesStay, WrapsFollowAccessFile, NoHalfFile
  <1>3. DiskIsRegistry'
    BY DEF IInv, DiskIsRegistry, ListedTree, RegistryOf, Saved
  <1> QED
    BY <1>1, <1>2, <1>3 DEF IInv

\* What every command of the menu does first.
LEMMA CommandCounts ==
    ASSUME TypeOK, Command
    PROVE  pc = "menu" /\ commands' \in Nat /\ UNCHANGED <<git, origin, edits>>
  BY DEF TypeOK, Command

\* Commands that end where they begin, and the beginning of an encryption.
LEMMA MenuKeeps ==
    ASSUME IInv,
           \/ EncryptRefused \/ NoNewReader \/ Exit
           \/ \E c \in Chapters : EncryptBegin(c)
           \/ \E n \in Names : EditRefused(n)
    PROVE  IInv'
  <1>1. TypeOK
    BY DEF IInv
  <1>2. CASE EncryptRefused
    <2>1. /\ pc = "menu" /\ pc' = "menu" /\ commands' \in Nat
          /\ UNCHANGED <<job, chapter, registry, disk, git, origin, skipped, granted,
                         unwritten, cut, faults, edits>>
          /\ result' \in {"not_bootstrapped", "plaintext_not_found"}
      BY <1>1, <1>2, CommandCounts DEF EncryptRefused, history
    <2>2. TypeOK'
      BY <1>1, <2>1 DEF TypeOK
    <2> QED
      BY <2>1, <2>2, QuietStep DEF AtWork
  <1>3. CASE NoNewReader
    <2>1. /\ pc = "ask" /\ pc' = "wrap"
          /\ UNCHANGED <<job, chapter, registry, disk, git, origin, skipped, result,
                         granted, unwritten, cut, commands, faults, edits>>
      BY <1>3 DEF NoNewReader, history
    <2>2. TypeOK'
      BY <1>1, <2>1 DEF TypeOK
    <2>3. AtWork'
      BY <2>1 DEF IInv, AtWork
    <2> QED
      BY <2>1, <2>2, <2>3, QuietStep
  <1>4. CASE Exit
    <2>1. /\ pc = "menu" /\ pc' = "off" /\ result' = "none"
          /\ UNCHANGED <<job, chapter, registry, disk, git, origin, skipped,
                         granted, unwritten, cut, commands, faults, edits>>
      BY <1>4 DEF Exit, history
    <2>2. TypeOK'
      BY <1>1, <2>1 DEF TypeOK
    <2> QED
      BY <2>1, <2>2, QuietStep DEF AtWork
  <1>5. ASSUME NEW c \in Chapters, EncryptBegin(c) PROVE IInv'
    <2>1. /\ pc = "menu" /\ pc' = "ask" /\ commands' \in Nat /\ chapter' = c
          /\ skipped' = FALSE /\ result' = "none"
          /\ UNCHANGED <<job, registry, disk, git, origin, granted, unwritten, cut, faults,
                         edits>>
      BY <1>1, <1>5, CommandCounts DEF EncryptBegin, history
    <2>2. TypeOK'
      BY <1>1, <2>1 DEF TypeOK
    <2> QED
      BY <2>1, <2>2, QuietStep DEF AtWork
  <1>6. ASSUME NEW n \in Names, EditRefused(n) PROVE IInv'
    <2>1. /\ pc = "menu" /\ pc' = "menu" /\ commands' \in Nat /\ result' = "not_registered"
          /\ UNCHANGED <<job, chapter, registry, disk, git, origin, skipped, granted,
                         unwritten, cut, faults, edits>>
      BY <1>1, <1>6, CommandCounts DEF EditRefused, history
    <2>2. TypeOK'
      BY <1>1, <2>1 DEF TypeOK
    <2> QED
      BY <2>1, <2>2, QuietStep DEF AtWork
  <1> QED
    BY <1>2, <1>3, <1>4, <1>5, <1>6

\* The registry is loaded from the disk.
LEMMA LaunchKeeps ==
    ASSUME IInv, Launch
    PROVE  IInv'
  <1>1. /\ pc' = "menu" /\ registry' = RegistryOf(disk)
        /\ UNCHANGED <<job, chapter, disk, git, origin, skipped, result, granted, unwritten,
                       cut, commands, faults, edits>>
    BY DEF Launch, history
  <1>2. RegistryOf(disk) \in Access
    BY TypeParts, RegistryFacts DEF IInv
  <1>3. RegistryOf(disk)' = RegistryOf(disk)
    BY <1>1 DEF RegistryOf
  <1>4. TypeOK'
    BY <1>1, <1>2 DEF IInv, TypeOK
  <1>5. GrantsCover'
    BY <1>1, <1>3 DEF IInv, GrantsCover
  <1>6. Saved(RegistryOf(disk)) = RegistryOf(disk)
    BY DEF IInv, Readable
  <1>7. Readable'
    BY <1>1, <1>2, <1>3, <1>6, SavedOnce DEF Readable
  <1>8. DiskIsRegistry'
    BY <1>1, <1>3, <1>6 DEF IInv, DiskIsRegistry
  <1>9. AtWork' /\ HalfFilesStay' /\ WrapsFollowAccessFile'
    BY <1>1 DEF AtWork, IInv, HalfFilesStay, WrapsFollowAccessFile, NoHalfFile
  <1> QED
    BY <1>4, <1>5, <1>7, <1>8, <1>9 DEF IInv

-------------------------------------------------------------------------------
(* A reader is registered or edited. *)

\* More grants and cuts take none away.
LEMMA MoreGiven ==
    ASSUME NEW g, NEW h, g \subseteq h, NEW i, NEW j, i => j
    PROVE  /\ \A t : GrantedTree(t, g, i) => GrantedTree(t, h, j)
           /\ \A a : AccessGiven(a, g, i) => AccessGiven(a, h, j)
  BY DEF GrantedTree, AccessGiven, EntryGiven, Given

\* All that an entry allows is among its rights.
LEMMA RightsAreGiven ==
    ASSUME NEW n, NEW e, ASSUME NEW c \in e.chapters PROVE c \in Chapters, NEW g,
           Rights(n, e) \subseteq g, NEW i
    PROVE  EntryGiven(n, e, g, i)
  <1>1. ASSUME NEW c \in Chapters, IsAuthorized(e, c) PROVE <<n, e.key, c>> \in g
    BY <1>1 DEF Rights
  <1> QED
    BY <1>1 DEF EntryGiven, Given, IsAuthorized

\* Rights are triples of a reader, a key and a chapter.
LEMMA RightsType ==
    ASSUME NEW n \in Names, NEW e \in Entry
    PROVE  Rights(n, e) \in SUBSET (Names \X Keys \X Chapters)
  BY DEF Rights, Entry

\* The entry of a reader is replaced in memory.
LEMMA SetReaderKeeps ==
    ASSUME IInv, pc \in {"menu", "ask"}, NEW n \in Names, NEW e \in Grants, SetReader(n, e),
           registry[n] # None => e.key = registry[n].key,
           job' \in {"register", "edit"}, job' = "register" => chapter \in Chapters,
           UNCHANGED <<chapter, git, origin, skipped, edits>>,
           result' \in {"none", result}, commands' \in Nat
    PROVE  IInv'
  <1>1. /\ registry' = [registry EXCEPT ![n] = e]
        /\ pc' = "persist"
        /\ granted' = granted \cup Rights(n, e)
        /\ UNCHANGED <<disk, unwritten, cut, faults>>
    BY DEF SetReader
  <1>2. /\ e \in Entry /\ e # None /\ e.chapters \subseteq Chapters
        /\ ChaptersMatchLevel(e.level, e.chapters)
    BY GrantFacts
  <1>3. /\ registry \in Access /\ registry' \in Access
        /\ registry'[n] = e
        /\ \A m \in Names : m # n => registry'[m] = registry[m]
    BY <1>1, <1>2 DEF IInv, TypeOK, Access
  <1>4. RegistryOf(disk)' = RegistryOf(disk)
    BY <1>1 DEF RegistryOf
  <1>5. TypeOK'
    <2>1. granted' \subseteq Names \X Keys \X Chapters
      BY <1>1, <1>2, RightsType DEF IInv, TypeOK
    <2>2. TypeOK
      BY DEF IInv
    <2> QED
      BY <1>1, <1>3, <2>1, <2>2 DEF TypeOK
  <1>6. AtWork'
    BY <1>1 DEF AtWork
  <1>7. GrantsCover'
    <2>1. granted \subseteq granted' /\ (cut => cut')
      BY <1>1
    <2>2. /\ AccessGiven(registry, granted', cut') /\ AccessGiven(RegistryOf(disk), granted', cut')
          /\ GrantedTree(disk, granted', cut')
          /\ GrantedTree(git.index, granted', cut') /\ GrantedTree(git.head, granted', cut')
          /\ GrantedTree(git.remote, granted', cut')
      BY <2>1, MoreGiven DEF IInv, GrantsCover
    <2>3. EntryGiven(n, e, granted', cut')
      <3>1. Rights(n, e) \subseteq granted'
        BY <1>1
      <3> QED
        BY <1>2, <3>1, RightsAreGiven
    <2>4. AccessGiven(registry', granted', cut')
      BY <1>3, <2>2, <2>3 DEF AccessGiven
    <2> QED
      BY <1>1, <1>4, <2>2, <2>4 DEF GrantsCover
  <1>8. HalfFilesStay'
    BY <1>1 DEF IInv, HalfFilesStay, NoHalfFile
  <1>9. Readable'
    <2>1. MatchLevels(registry')
      BY <1>2, <1>3 DEF IInv, Readable, MatchLevels
    <2>2. Saved(RegistryOf(disk))' = Saved(RegistryOf(disk))
      BY <1>4 DEF Saved
    <2> QED
      BY <1>4, <2>1, <2>2 DEF IInv, Readable
  <1>10. DiskIsRegistry'
    <2> SUFFICES ASSUME ~unwritten, edits = 0
                 PROVE  /\ AccessBehind(RegistryOf(disk), Saved(registry'))
                        /\ ~cut =>
                            /\ ListedTree(disk, RegistryOf(disk))
                            /\ ListedTree(git.index, RegistryOf(disk))
                            /\ ListedTree(git.head, RegistryOf(disk))
                            /\ ListedTree(git.remote, RegistryOf(disk))
      BY <1>1, <1>4 DEF DiskIsRegistry
    <2>1. RegistryOf(disk) = Saved(registry)
      BY DEF IInv, DiskIsRegistry
    <2>2. ASSUME NEW m \in Names, Saved(registry)[m] # None
          PROVE  Saved(registry')[m] # None /\ Saved(registry')[m].key = Saved(registry)[m].key
      <3>1. CASE m # n
        <4>1. registry'[m] = registry[m]
          BY <1>3, <3>1
        <4>2. Saved(registry')[m] = Reread(m, registry'[m])
              /\ Saved(registry)[m] = Reread(m, registry[m])
          BY DEF Saved
        <4> QED
          BY <2>2, <4>1, <4>2
      <3>2. CASE m = n
        <4>1. /\ registry[n] # None /\ n \notin Colons /\ registry[n].key \notin Colons
              /\ Saved(registry)[n] = registry[n]
          BY <1>3, <2>2, <3>2, SavedFacts, RereadFacts DEF Shortened, Access
        <4>2. e.key = registry[n].key
          BY <4>1
        <4>3. Reread(n, e) = e
          BY <1>2, <4>1, <4>2, RereadFacts
        <4>4. Saved(registry')[n] = e
          BY <1>3, <4>3, SavedFacts
        <4> QED
          BY <1>2, <3>2, <4>1, <4>2, <4>4
      <3> QED
        BY <3>1, <3>2
    <2>3. AccessBehind(RegistryOf(disk), Saved(registry'))
      BY <2>1, <2>2 DEF AccessBehind
    <2> QED
      BY <2>3 DEF IInv, DiskIsRegistry
  <1>11. WrapsFollowAccessFile'
    BY <1>1 DEF WrapsFollowAccessFile
  <1> QED
    BY <1>5, <1>6, <1>7, <1>8, <1>9, <1>10, <1>11 DEF IInv

\* A reader is registered or edited.
LEMMA ReaderStepsKeep ==
    ASSUME IInv, NEW n \in Names, NEW o \in Offers,
           EditReader(n, o) \/ RegisterReader(n, o)
    PROVE  IInv'
  <1>1. o \in Grants
    BY PublishingAssumption
  <1>2. CASE EditReader(n, o)
    <2> DEFINE e == [o EXCEPT !.key = registry[n].key]
    <2>1. pc = "menu" /\ commands' \in Nat /\ UNCHANGED <<git, origin, edits>>
      BY <1>2, CommandCounts DEF EditReader, IInv
    <2>2. registry[n] # None /\ SetReader(n, e) /\ job' = "edit" /\ result' = "none"
          /\ UNCHANGED <<chapter, skipped>>
      BY <1>2 DEF EditReader
    <2>3. registry[n].key \in Keys
      BY <2>2, EntryFacts DEF IInv, TypeOK, Entry
    <2>4. e \in Grants /\ e.key = registry[n].key
      BY <1>1, <2>3, GrantFacts
    <2> HIDE DEF e
    <2> QED
      BY <2>1, <2>2, <2>4, SetReaderKeeps
  <1>3. CASE RegisterReader(n, o)
    <2>1. /\ pc = "ask" /\ registry[n] = None /\ SetReader(n, o) /\ job' = "register"
          /\ UNCHANGED <<chapter, git, origin, skipped, result, commands, edits>>
      BY <1>3 DEF RegisterReader
    <2>2. chapter \in Chapters /\ commands' \in Nat
      BY <2>1 DEF IInv, AtWork, TypeOK
    <2> QED
      BY <1>1, <2>1, <2>2, SetReaderKeeps
  <1> QED
    BY <1>2, <1>3

-------------------------------------------------------------------------------
(* access.txt is written. *)

\* What the rewrite, whole or broken off, leaves on disk.
LEMMA BrokenOff ==
    ASSUME IInv, RewriteIsCut
    PROVE  /\ cut' = TRUE
           /\ TypedTree(disk')
           /\ \A c \in Chapters : disk'[c] = disk[c]
           /\ Saved(RegistryOf(disk')) = RegistryOf(disk')
           /\ AccessGiven(RegistryOf(disk'), granted, TRUE)
  <1>1. PICK b \in CutShort(registry) : disk' = [disk EXCEPT ![AccessTxt] = b]
    BY DEF RewriteIsCut
  <1>2. registry \in Access /\ TypedTree(disk)
        /\ granted \in SUBSET (Names \X Keys \X Chapters)
    BY TypeParts DEF IInv
  <1>3. b \in Access /\ Saved(b) = b
    BY <1>2, CutShortOnce
  <1> DEFINE u == [disk EXCEPT ![AccessTxt] = b]
  <1>4. TypedTree(u) /\ RegistryOf(u) = b /\ \A c \in Chapters : u[c] = disk[c]
    BY <1>2, <1>3, ReplaceAccess
  <1> HIDE DEF u
  <1>5. disk' = u
    BY <1>1 DEF u
  <1>6. AccessGiven(registry, granted, TRUE)
    BY MoreGiven DEF IInv, GrantsCover
  <1>7. ASSUME NEW n \in Names, b[n] # None PROVE EntryGiven(n, b[n], granted, TRUE)
    <2>1. registry[n] # None /\ Shortened(n, registry[n], b[n])
      BY <1>2, <1>7, CutShortFacts
    <2>2. registry[n] \in Entry /\ EntryGiven(n, registry[n], granted, TRUE)
      BY <1>2, <1>6, <2>1, EntryFacts DEF AccessGiven
    <2> QED
      BY <1>2, <2>1, <2>2, ShortenedIsGiven
  <1> QED
    BY <1>3, <1>4, <1>5, <1>7 DEF RewriteIsCut, AccessGiven

\* What an access.txt leaves when another one takes its place: the chapter files.
LEMMA SameChapters ==
    ASSUME NEW t, NEW u, \A c \in Chapters : u[c] = t[c]
    PROVE  /\ \A g, i : GrantedTree(t, g, i) => GrantedTree(u, g, i)
           /\ \A a : ListedTree(t, a) => ListedTree(u, a)
  BY DEF GrantedTree, ListedTree

\* A reader of the one access file is a reader of the one that is ahead of it.
LEMMA ListedAhead ==
    ASSUME NEW t, TypedTree(t), NEW a, NEW b, AccessBehind(a, b), ListedTree(t, a)
    PROVE  ListedTree(t, b)
  <1> SUFFICES ASSUME NEW c \in Chapters, IsChapter(t[c]), NEW w \in PlainWraps(t[c])
               PROVE  b[w[1]] # None /\ b[w[1]].key = w[2]
    BY DEF ListedTree
  <1>1. t[c] \in ChapterFile
    BY DEF TypedTree, Content, IsChapter
  <1>2. w[1] \in Names
    BY <1>1 DEF ChapterFile, PlainWraps
  <1> QED
    BY <1>2 DEF ListedTree, AccessBehind

\* The file is written from the map, or the writing fails.
LEMMA PersistKeeps ==
    ASSUME IInv, Persist
    PROVE  IInv'
  <1>1. /\ pc = "persist" /\ pc' = "add" /\ job # "encrypt"
        /\ UNCHANGED <<job, chapter, registry, git, origin, skipped, result, granted,
                       commands, edits>>
    BY DEF Persist, IInv, AtWork
  <1>2. /\ TypeOK /\ registry \in Access /\ cut \in BOOLEAN
        /\ TypedTree(disk) /\ TypedTree(git.index) /\ TypedTree(git.head)
        /\ TypedTree(git.remote)
    BY TypeParts DEF IInv
  <1>3. AtWork'
    BY <1>1 DEF IInv, AtWork
  <1>4. \/ /\ disk' = [disk EXCEPT ![AccessTxt] = Saved(registry)]
           /\ UNCHANGED <<unwritten, cut, faults>>
        \/ /\ faults' \in Nat /\ unwritten' = TRUE
           /\ RewriteIsCut \/ UNCHANGED <<disk, cut>>
    BY <1>2 DEF Persist, Fails, TypeOK
  <1>5. CASE /\ disk' = [disk EXCEPT ![AccessTxt] = Saved(registry)]
             /\ UNCHANGED <<unwritten, cut, faults>>
    <2> DEFINE u == [disk EXCEPT ![AccessTxt] = Saved(registry)]
    <2>1. /\ TypedTree(u) /\ RegistryOf(u) = Saved(registry)
          /\ \A c \in Chapters : u[c] = disk[c]
      BY <1>2, SavedFacts, ReplaceAccess
    <2> HIDE DEF u
    <2>2. disk' = u /\ RegistryOf(disk)' = Saved(registry)
      <3>1. disk' = u
        BY <1>5 DEF u
      <3>2. RegistryOf(disk') = Saved(registry)
        BY <2>1, <3>1
      <3> QED
        BY <3>1, <3>2 DEF RegistryOf
    <2>3. TypeOK'
      BY <1>1, <1>2, <1>5, <2>1, <2>2 DEF TypeOK, TypedTree, Content
    <2>4. GrantsCover'
      <3>1. \A n \in Names : Saved(registry)[n] \in {None, registry[n]}
        BY <1>2, SavedFacts
      <3>2. AccessGiven(Saved(registry), granted, cut)
        BY <3>1 DEF IInv, GrantsCover, AccessGiven
      <3>3. GrantedTree(disk', granted, cut)
        BY <2>1, <2>2, SameChapters DEF IInv, GrantsCover
      <3> QED
        BY <1>1, <1>5, <2>2, <3>2, <3>3 DEF IInv, GrantsCover
    <2>5. Readable'
      <3>1. Saved(RegistryOf(disk))' = Saved(Saved(registry))
        BY <2>2 DEF Saved
      <3> QED
        BY <1>1, <1>2, <2>2, <3>1, SavedOnce DEF IInv, Readable
    <2>6. HalfFilesStay'
      BY <1>1, <1>5 DEF IInv, HalfFilesStay, NoHalfFile
    <2>7. DiskIsRegistry'
      <3>1. ASSUME ~unwritten, edits = 0, ~cut
            PROVE  /\ ListedTree(disk', Saved(registry))
                   /\ ListedTree(git.index, Saved(registry))
                   /\ ListedTree(git.head, Saved(registry))
                   /\ ListedTree(git.remote, Saved(registry))
        <4>1. /\ AccessBehind(RegistryOf(disk), Saved(registry))
              /\ ListedTree(disk, RegistryOf(disk)) /\ ListedTree(git.index, RegistryOf(disk))
              /\ ListedTree(git.head, RegistryOf(disk))
              /\ ListedTree(git.remote, RegistryOf(disk))
          BY <1>1, <3>1 DEF IInv, DiskIsRegistry
        <4> QED
          BY <1>2, <2>1, <2>2, <4>1, ListedAhead, SameChapters
      <3>2. Saved(registry)' = Saved(registry)
        BY <1>1 DEF Saved
      <3> QED
        BY <1>1, <1>5, <2>2, <3>1, <3>2 DEF DiskIsRegistry
    <2>8. WrapsFollowAccessFile'
      BY <1>1 DEF WrapsFollowAccessFile
    <2> QED
      BY <1>3, <2>3, <2>4, <2>5, <2>6, <2>7, <2>8 DEF IInv
  <1>6. CASE faults' \in Nat /\ unwritten' = TRUE /\ (RewriteIsCut \/ UNCHANGED <<disk, cut>>)
    <2>1. /\ TypedTree(disk') /\ cut' \in BOOLEAN /\ (cut => cut')
          /\ \A c \in Chapters : disk'[c] = disk[c]
          /\ Saved(RegistryOf(disk')) = RegistryOf(disk')
          /\ AccessGiven(RegistryOf(disk'), granted, cut')
      <3>1. CASE RewriteIsCut
        BY <3>1, BrokenOff
      <3>2. CASE UNCHANGED <<disk, cut>>
        BY <1>2, <3>2 DEF IInv, Readable, GrantsCover
      <3> QED
        BY <1>6, <3>1, <3>2
    <2>2. /\ RegistryOf(disk)' = RegistryOf(disk')
          /\ Saved(RegistryOf(disk))' = Saved(RegistryOf(disk'))
      BY DEF RegistryOf, Saved
    <2>3. TypeOK'
      BY <1>1, <1>2, <1>6, <2>1 DEF TypeOK, TypedTree, Content
    <2>4. GrantsCover'
      <3>1. /\ AccessGiven(registry, granted, cut') /\ GrantedTree(disk, granted, cut')
            /\ GrantedTree(git.index, granted, cut') /\ GrantedTree(git.head, granted, cut')
            /\ GrantedTree(git.remote, granted, cut')
        BY <2>1, MoreGiven DEF IInv, GrantsCover
      <3>2. GrantedTree(disk', granted, cut')
        BY <2>1, <3>1, SameChapters
      <3> QED
        BY <1>1, <2>1, <2>2, <3>1, <3>2 DEF GrantsCover
    <2>5. Readable'
      BY <1>1, <2>1, <2>2 DEF IInv, Readable
    <2>6. HalfFilesStay' /\ DiskIsRegistry' /\ WrapsFollowAccessFile'
      BY <1>6 DEF HalfFilesStay, DiskIsRegistry, WrapsFollowAccessFile
    <2> QED
      BY <1>3, <2>3, <2>4, <2>5, <2>6 DEF IInv
  <1> QED
    BY <1>4, <1>5, <1>6

-------------------------------------------------------------------------------
(* A chapter is encrypted. *)

\* The wrapped keys of the chapter as WrapKeys makes them.
NewWraps ==
    {<<n, registry[n].key>> :
        n \in {m \in Names : /\ registry[m] # None /\ IsAuthorized(registry[m], chapter)
                             /\ CanWrap(registry[m].key)}}

\* The keys that an encryption wraps are those of authorized readers.
LEMMA NewWrapsFacts ==
    ASSUME TypeOK, chapter \in Chapters
    PROVE  /\ NewWraps \subseteq Names \X Keys
           /\ \A w \in NewWraps : /\ w[1] \in Names /\ w[2] \in GoodKeys
                                  /\ registry[w[1]] # None /\ registry[w[1]].key = w[2]
                                  /\ IsAuthorized(registry[w[1]], chapter)
           /\ \A w \in Names \X GoodKeys :
                /\ registry[w[1]] # None /\ registry[w[1]].key = w[2]
                /\ IsAuthorized(registry[w[1]], chapter)
                => w \in NewWraps
  <1>1. ASSUME NEW w \in NewWraps
        PROVE  /\ w \in Names \X GoodKeys /\ w \in Names \X Keys
               /\ w[1] \in Names /\ w[2] \in GoodKeys
               /\ registry[w[1]] # None /\ registry[w[1]].key = w[2]
               /\ IsAuthorized(registry[w[1]], chapter)
    <2>1. PICK n \in Names : /\ w = <<n, registry[n].key>>
                             /\ registry[n] # None /\ IsAuthorized(registry[n], chapter)
                             /\ CanWrap(registry[n].key)
      BY DEF NewWraps
    <2>2. registry[n].key \in GoodKeys /\ GoodKeys \subseteq Keys
      BY <2>1, PublishingAssumption DEF CanWrap
    <2> QED
      BY <2>1, <2>2
  <1>2. ASSUME NEW w \in Names \X GoodKeys, registry[w[1]] # None,
               registry[w[1]].key = w[2], IsAuthorized(registry[w[1]], chapter)
        PROVE  w \in NewWraps
    <2>1. w = <<w[1], w[2]>> /\ w[1] \in Names /\ w[2] \in GoodKeys
      OBVIOUS
    <2> QED
      BY <1>2, <2>1 DEF NewWraps, CanWrap
  <1> QED
    BY <1>1, <1>2

\* The keys that an encryption wraps were given, and can be read back from the disk's
\* access.txt but for the colons.
LEMMA NewWrapsAreGiven ==
    ASSUME IInv, chapter \in Chapters
    PROVE  /\ \A w \in NewWraps : Given(w[1], w[2], chapter, granted, cut)
           /\ \A w \in NewWraps : w[1] \notin Colons /\ w[2] \notin Colons =>
                Saved(registry)[w[1]] = registry[w[1]]
           /\ \A n \in Names : Saved(registry)[n] # None =>
                /\ Saved(registry)[n] = registry[n]
                /\ n \notin Colons /\ registry[n].key \notin Colons
  <1>1. TypeOK /\ registry \in Access
    BY DEF IInv, TypeOK
  <1>2. ASSUME NEW w \in NewWraps PROVE Given(w[1], w[2], chapter, granted, cut)
    <2>1. /\ w[1] \in Names /\ registry[w[1]] # None /\ registry[w[1]].key = w[2]
          /\ IsAuthorized(registry[w[1]], chapter)
      BY <1>1, NewWrapsFacts
    <2>2. EntryGiven(w[1], registry[w[1]], granted, cut)
      BY <2>1 DEF IInv, GrantsCover, AccessGiven
    <2> QED
      BY <2>1, <2>2 DEF EntryGiven, IsAuthorized, Given
  <1>3. ASSUME NEW w \in NewWraps, w[1] \notin Colons, w[2] \notin Colons
        PROVE  Saved(registry)[w[1]] = registry[w[1]]
    <2>1. w[1] \in Names /\ registry[w[1]] # None /\ registry[w[1]].key = w[2]
      BY <1>1, NewWrapsFacts
    <2>2. /\ registry[w[1]] \in Entry
          /\ ChaptersMatchLevel(registry[w[1]].level, registry[w[1]].chapters)
      BY <1>1, <2>1, EntryFacts DEF IInv, Readable, MatchLevels
    <2>3. Reread(w[1], registry[w[1]]) = registry[w[1]]
      BY <1>3, <2>1, <2>2, RereadFacts
    <2> QED
      BY <1>1, <2>1, <2>3, SavedFacts
  <1>4. ASSUME NEW n \in Names, Saved(registry)[n] # None
        PROVE  /\ Saved(registry)[n] = registry[n]
               /\ n \notin Colons /\ registry[n].key \notin Colons
    BY <1>1, <1>4, SavedFacts DEF Shortened
  <1> QED
    BY <1>2, <1>3, <1>4

\* The chapter file is written.
LEMMA WrapKeysKeeps ==
    ASSUME IInv, WrapKeys
    PROVE  IInv'
  <1> DEFINE new == [id |-> FreshId, wraps |-> NewWraps]
  <1>1. /\ pc = "wrap" /\ chapter \in Chapters /\ TypeOK
        /\ TypedTree(disk) /\ TypedTree(git.index) /\ TypedTree(git.head)
        /\ TypedTree(git.remote)
    BY TypeParts DEF WrapKeys, IInv, AtWork
  <1>2. /\ job' = "encrypt" /\ pc' = "add" /\ skipped' \in BOOLEAN
        /\ UNCHANGED <<chapter, registry, git, origin, result, granted, cut, commands, edits>>
    BY DEF WrapKeys
  <1>3. WriteChapter(new)
    <2>1. NewWraps = {<<n, registry[n].key>> :
                n \in {m \in {n \in Names : registry[n] # None
                                         /\ IsAuthorized(registry[n], chapter)} :
                            CanWrap(registry[m].key)}}
      BY DEF NewWraps
    <2> QED
      BY <2>1 DEF WrapKeys
  <1>4. new \in ChapterFile /\ new.wraps = NewWraps
    BY <1>1, NewWrapsFacts DEF ChapterFile, FreshId, TypeOK
  <1> HIDE DEF new
  <1>5. new \in Content /\ new # Garbled /\ new # None
    BY <1>4, PathFacts DEF Content, IsChapter
  <1>6. /\ faults' \in Nat
        /\ \/ disk' = [disk EXCEPT ![chapter] = new] /\ unwritten' = unwritten
           \/ disk' = disk /\ unwritten' = TRUE
           \/ disk' = [disk EXCEPT ![chapter] = Garbled] /\ unwritten' = TRUE
    BY <1>1, <1>3 DEF WriteChapter, Fails, TypeOK
  <1>7. /\ TypedTree(disk')
        /\ RegistryOf(disk') = RegistryOf(disk)
        /\ \A c \in Chapters : c # chapter => disk'[c] = disk[c]
        /\ disk'[chapter] \in {new, disk[chapter], Garbled}
        /\ ~unwritten' => disk'[chapter] = new /\ ~unwritten
    <2>1. Garbled \in Content
      BY DEF Content
    <2>2. ASSUME NEW x \in Content, disk' = [disk EXCEPT ![chapter] = x]
          PROVE  /\ TypedTree(disk') /\ RegistryOf(disk') = RegistryOf(disk)
                 /\ disk'[chapter] = x
                 /\ \A c \in Chapters : c # chapter => disk'[c] = disk[c]
      <3> DEFINE u == [disk EXCEPT ![chapter] = x]
      <3>1. /\ TypedTree(u) /\ RegistryOf(u) = RegistryOf(disk) /\ u[chapter] = x
            /\ \A d \in Chapters : d # chapter => u[d] = disk[d]
        BY <1>1, ReplaceChapter
      <3> HIDE DEF u
      <3>2. disk' = u
        BY <2>2 DEF u
      <3> QED
        BY <3>1, <3>2
    <2>3. CASE disk' = [disk EXCEPT ![chapter] = new] /\ unwritten' = unwritten
      BY <1>5, <2>2, <2>3
    <2>4. CASE disk' = disk /\ unwritten' = TRUE
      BY <1>1, <2>4
    <2>5. CASE disk' = [disk EXCEPT ![chapter] = Garbled] /\ unwritten' = TRUE
      BY <2>1, <2>2, <2>5
    <2> QED
      BY <1>6, <2>3, <2>4, <2>5
  <1>8. /\ RegistryOf(disk)' = RegistryOf(disk)
        /\ Saved(RegistryOf(disk))' = Saved(RegistryOf(disk))
        /\ Saved(registry)' = Saved(registry)
    BY <1>2, <1>7 DEF RegistryOf, Saved
  <1>9. TypeOK'
    <2>1. unwritten' \in BOOLEAN
      BY <1>1, <1>6 DEF TypeOK
    <2> QED
      BY <1>1, <1>2, <1>6, <1>7, <2>1 DEF TypeOK, TypedTree, Content
  <1>10. AtWork'
    BY <1>1, <1>2 DEF AtWork
  <1>11. GrantsCover'
    <2>1. GrantedTree(disk', granted, cut)
      <3> SUFFICES ASSUME NEW c \in Chapters, IsChapter(disk'[c]),
                          NEW w \in disk'[c].wraps
                   PROVE  Given(w[1], w[2], c, granted, cut)
        BY DEF GrantedTree
      <3>1. CASE disk'[c] = disk[c]
        BY <3>1 DEF IInv, GrantsCover, GrantedTree
      <3>2. CASE c = chapter /\ disk'[c] = new
        BY <1>1, <1>4, <3>2, NewWrapsAreGiven
      <3> QED
        BY <1>7, <3>1, <3>2 DEF IsChapter
    <2> QED
      BY <1>2, <1>8, <2>1 DEF IInv, GrantsCover
  <1>12. HalfFilesStay'
    BY <1>2, <1>5, <1>7 DEF IInv, HalfFilesStay, NoHalfFile
  <1>13. Readable'
    BY <1>2, <1>8 DEF IInv, Readable
  <1>14. ASSUME ~unwritten', edits' = 0
         PROVE  RegistryOf(disk) = Saved(registry)
    BY <1>1, <1>2, <1>7, <1>14 DEF IInv, DiskIsRegistry
  <1>15. DiskIsRegistry'
    <2> SUFFICES ASSUME ~unwritten', edits' = 0, ~cut
                 PROVE  /\ ListedTree(disk', RegistryOf(disk))
                        /\ ListedTree(git.index, RegistryOf(disk))
                        /\ ListedTree(git.head, RegistryOf(disk))
                        /\ ListedTree(git.remote, RegistryOf(disk))
      BY <1>2, <1>8, <1>14 DEF DiskIsRegistry
    <2>1. /\ ListedTree(disk, RegistryOf(disk))
          /\ ListedTree(git.index, RegistryOf(disk))
          /\ ListedTree(git.head, RegistryOf(disk))
          /\ ListedTree(git.remote, RegistryOf(disk))
      BY <1>2, <1>7 DEF IInv, DiskIsRegistry
    <2>2. ASSUME NEW w \in PlainWraps(disk'[chapter])
          PROVE  RegistryOf(disk)[w[1]] # None /\ RegistryOf(disk)[w[1]].key = w[2]
      <3>1. w \in NewWraps /\ w[1] \notin Colons /\ w[2] \notin Colons
        BY <1>4, <1>7 DEF PlainWraps
      <3> QED
        BY <1>1, <1>14, <3>1, NewWrapsFacts, NewWrapsAreGiven
    <2> QED
      BY <1>7, <2>1, <2>2 DEF ListedTree
  <1>16. WrapsFollowAccessFile'
    <2> DEFINE Authorized(w) == LET e == RegistryOf(disk)[w[1]] IN
                                e # None /\ e.key = w[2] /\ IsAuthorized(e, chapter)
    <2> SUFFICES ASSUME ~unwritten', edits' = 0
                 PROVE  PlainWraps(disk'[chapter]) =
                            {w \in (Names \ Colons) \X (GoodKeys \ Colons) : Authorized(w)}
      BY <1>2, <1>8 DEF WrapsFollowAccessFile
    <2>1. /\ RegistryOf(disk) = Saved(registry)
          /\ PlainWraps(disk'[chapter]) =
                {w \in NewWraps : w[1] \notin Colons /\ w[2] \notin Colons}
      BY <1>4, <1>7, <1>14 DEF PlainWraps
    <2>2. ASSUME NEW w \in NewWraps, w[1] \notin Colons, w[2] \notin Colons
          PROVE  w \in (Names \ Colons) \X (GoodKeys \ Colons) /\ Authorized(w)
      <3>1. /\ w[1] \in Names /\ w[2] \in GoodKeys /\ w = <<w[1], w[2]>>
            /\ registry[w[1]] # None /\ registry[w[1]].key = w[2]
            /\ IsAuthorized(registry[w[1]], chapter)
        BY <1>1, NewWrapsFacts
      <3>2. Saved(registry)[w[1]] = registry[w[1]]
        BY <1>1, <2>2, NewWrapsAreGiven
      <3> QED
        BY <2>1, <2>2, <3>1, <3>2
    <2>3. ASSUME NEW w \in (Names \ Colons) \X (GoodKeys \ Colons), Authorized(w)
          PROVE  w \in NewWraps /\ w[1] \notin Colons /\ w[2] \notin Colons
      <3>1. Saved(registry)[w[1]] = registry[w[1]]
        BY <1>1, <2>1, <2>3, NewWrapsAreGiven
      <3>2. /\ registry[w[1]] # None /\ registry[w[1]].key = w[2]
            /\ IsAuthorized(registry[w[1]], chapter)
        BY <2>1, <2>3, <3>1
      <3>3. w \in Names \X GoodKeys
        OBVIOUS
      <3> QED
        BY <1>1, <3>2, <3>3, NewWrapsFacts
    <2> HIDE DEF Authorized
    <2> QED
      BY <2>1, <2>2, <2>3
  <1> QED
    BY <1>9, <1>10, <1>11, <1>12, <1>13, <1>15, <1>16 DEF IInv

-------------------------------------------------------------------------------
(* git. *)

\* The chapter files of the tree come from the trees of git, or the one that is added.
FromTrees(t) ==
    \A c \in Chapters :
        \/ t[c] \in {git.index[c], git.head[c], git.remote[c]}
        \/ pc = "add" /\ job = "encrypt" /\ c = chapter /\ t[c] = disk[c]

\* A git command copies folders that were already there.
LEMMA GitStep ==
    ASSUME IInv, TypeOK', AtWork', FromTrees(git'.index), FromTrees(git'.head),
           FromTrees(git'.remote),
           UNCHANGED <<registry, disk, granted, unwritten, cut, edits>>,
           pc' \notin {"add", "persist"}, pc # "persist", pc = "off" => pc' = "off"
    PROVE  IInv'
  <1>1. ASSUME NEW t, FromTrees(t)
        PROVE  /\ GrantedTree(t, granted, cut)
               /\ ~unwritten => NoHalfFile(t)
               /\ ~unwritten /\ edits = 0 /\ ~cut => ListedTree(t, RegistryOf(disk))
    <2>1. GrantedTree(t, granted, cut)
      BY <1>1 DEF FromTrees, IInv, GrantsCover, GrantedTree
    <2>2. ~unwritten => NoHalfFile(t)
      BY <1>1 DEF FromTrees, IInv, HalfFilesStay, NoHalfFile
    <2>3. ~unwritten /\ edits = 0 /\ ~cut => ListedTree(t, RegistryOf(disk))
      BY <1>1 DEF FromTrees, IInv, DiskIsRegistry, ListedTree
    <2> QED
      BY <2>1, <2>2, <2>3
  <1>2. /\ RegistryOf(disk)' = RegistryOf(disk)
        /\ Saved(RegistryOf(disk))' = Saved(RegistryOf(disk))
        /\ Saved(registry)' = Saved(registry)
    BY DEF RegistryOf, Saved
  <1>3. GrantsCover'
    BY <1>1, <1>2 DEF IInv, GrantsCover
  <1>4. HalfFilesStay'
    BY <1>1 DEF IInv, HalfFilesStay
  <1>5. Readable'
    BY <1>2 DEF IInv, Readable
  <1>6. DiskIsRegistry'
    BY <1>1, <1>2 DEF IInv, DiskIsRegistry
  <1>7. WrapsFollowAccessFile'
    BY DEF WrapsFollowAccessFile
  <1> QED
    BY <1>3, <1>4, <1>5, <1>6, <1>7 DEF IInv

\* Nothing but the trees of git, the counters and the place in the program changes.
LEMMA GitTypes ==
    ASSUME TypeOK, pc' \in {"off", "menu", "ask", "persist", "wrap", "add", "commit", "push"},
           UNCHANGED <<job, chapter, registry, disk, origin, skipped, granted, unwritten,
                       cut, commands, edits>>,
           result' \in {result, "success", "some_readers_skipped", "push_failed"},
           faults' \in Nat, git' \in [index : Tree, head : Tree, remote : Tree],
           TypedTree(git'.index), TypedTree(git'.head), TypedTree(git'.remote)
    PROVE  TypeOK'
  BY DEF TypeOK, TypedTree, Content

\* What a push leaves.
LEMMA PushedTrees ==
    ASSUME TypeOK
    PROVE  LET g == Push(git) IN
           /\ g \in [index : Tree, head : Tree, remote : Tree]
           /\ g.index = git.index /\ g.head = git.head /\ g.remote = git.head
  BY DEF TypeOK, Push

\* What a commit leaves.
LEMMA CommittedTrees ==
    ASSUME TypeOK
    PROVE  LET g == Commit(git) IN
           /\ g \in [index : Tree, head : Tree, remote : Tree]
           /\ g.index = git.index /\ g.head = git.index /\ g.remote = git.remote
  BY DEF TypeOK, Commit

\* What git add leaves.
LEMMA AddedTrees ==
    ASSUME TypeOK, NEW p \in Paths
    PROVE  LET g == Add(git, p, disk) IN
           /\ g \in [index : Tree, head : Tree, remote : Tree]
           /\ TypedTree(g.index) /\ g.head = git.head /\ g.remote = git.remote
           /\ g.index[p] = disk[p]
           /\ \A q \in Paths : q # p => g.index[q] = git.index[q]
  <1>1. TypedTree(disk) /\ TypedTree(git.index)
    BY TypeParts
  <1> DEFINE u == [git.index EXCEPT ![p] = disk[p]]
  <1>2. /\ TypedTree(u) /\ u[p] = disk[p]
        /\ \A q \in Paths : q # p => u[q] = git.index[q]
    <2>1. p = AccessTxt => disk[p] \in Access \cup {None}
      BY <1>1 DEF TypedTree
    <2>2. p # AccessTxt => disk[p] \in Content
      BY <1>1, PathFacts DEF TypedTree
    <2> QED
      BY <1>1, <2>1, <2>2, ReplaceFile
  <1>3. Add(git, p, disk) = [git EXCEPT !.index = u]
    BY DEF Add
  <1> HIDE DEF u
  <1> QED
    BY <1>2, <1>3 DEF TypeOK, TypedTree

\* A file is staged.
LEMMA GitAddKeeps ==
    ASSUME IInv, GitAdd
    PROVE  IInv'
  <1>1. TypeOK /\ pc = "add"
    BY DEF IInv, GitAdd
  <1>2. /\ pc' = "commit"
        /\ git' = Add(git, JobPath, disk) \/ git' = git
        /\ faults' \in Nat
        /\ UNCHANGED <<job, chapter, registry, disk, origin, skipped, result, granted,
                       unwritten, cut, commands, edits>>
    BY <1>1 DEF GitAdd, Fails, history, TypeOK
  <1>3. /\ JobPath \in Paths
        /\ JobPath \in Chapters => job = "encrypt" /\ JobPath = chapter
    BY <1>1, PathFacts DEF JobPath, IInv, AtWork
  <1>4. TypedTree(git.index) /\ TypedTree(git.head) /\ TypedTree(git.remote)
    BY <1>1, TypeParts
  <1>5. /\ git' \in [index : Tree, head : Tree, remote : Tree]
        /\ TypedTree(git'.index) /\ git'.head = git.head /\ git'.remote = git.remote
        /\ FromTrees(git'.index)
    <2>1. CASE git' = git
      BY <1>1, <1>4, <2>1 DEF TypeOK, FromTrees
    <2>2. CASE git' = Add(git, JobPath, disk)
      BY <1>1, <1>3, <2>2, AddedTrees, PathFacts DEF FromTrees
    <2> QED
      BY <1>2, <2>1, <2>2
  <1>6. FromTrees(git'.head) /\ FromTrees(git'.remote)
    BY <1>5 DEF FromTrees
  <1>7. TypeOK'
    BY <1>1, <1>2, <1>4, <1>5, GitTypes
  <1>8. AtWork'
    BY <1>1, <1>2 DEF IInv, AtWork
  <1> QED
    BY <1>1, <1>2, <1>5, <1>6, <1>7, <1>8, GitStep

\* What is staged is committed.
LEMMA GitCommitKeeps ==
    ASSUME IInv, GitCommit
    PROVE  IInv'
  <1>1. TypeOK /\ pc = "commit"
    BY DEF IInv, GitCommit
  <1>2. /\ pc' = "push"
        /\ git' = Commit(git) \/ git' = git
        /\ faults' \in Nat
        /\ UNCHANGED <<job, chapter, registry, disk, origin, skipped, result, granted,
                       unwritten, cut, commands, edits>>
    BY <1>1 DEF GitCommit, Fails, history, TypeOK
  <1>3. TypedTree(git.index) /\ TypedTree(git.head) /\ TypedTree(git.remote)
    BY <1>1, TypeParts
  <1>4. /\ git' \in [index : Tree, head : Tree, remote : Tree]
        /\ git'.index = git.index /\ git'.head \in {git.index, git.head}
        /\ git'.remote = git.remote
    BY <1>1, <1>2, CommittedTrees DEF TypeOK
  <1>5. FromTrees(git'.index) /\ FromTrees(git'.head) /\ FromTrees(git'.remote)
    BY <1>4 DEF FromTrees
  <1>6. TypeOK'
    BY <1>1, <1>2, <1>3, <1>4, GitTypes
  <1>7. AtWork'
    BY <1>1, <1>2 DEF IInv, AtWork
  <1> QED
    BY <1>1, <1>2, <1>5, <1>6, <1>7, GitStep

\* What is committed is pushed, by the program or by hand.
LEMMA PushesKeep ==
    ASSUME IInv, GitPush \/ ManualPush
    PROVE  IInv'
  <1>1. TypeOK
    BY DEF IInv
  <1>2. /\ git' = Push(git) \/ git' = git
        /\ faults' \in Nat
        /\ result' \in {result, "success", "some_readers_skipped", "push_failed"}
        /\ UNCHANGED <<job, chapter, registry, disk, origin, skipped, granted, unwritten,
                       cut, commands, edits>>
    <2>1. CASE GitPush
      BY <1>1, <2>1 DEF GitPush, Report, Fails, history, TypeOK
    <2>2. CASE ManualPush
      BY <1>1, <2>2 DEF ManualPush, history, TypeOK
    <2> QED
      BY <2>1, <2>2
  <1>3. /\ pc' \in {"wrap", "menu", pc} /\ pc' # "add" /\ (pc = "off" => pc' = "off")
        /\ pc' = "wrap" => pc = "push" /\ job = "register"
        /\ pc' \in {"off", "menu", "wrap"} /\ pc # "persist"
    BY DEF GitPush, ManualPush
  <1>4. TypedTree(git.index) /\ TypedTree(git.head) /\ TypedTree(git.remote)
    BY <1>1, TypeParts
  <1>5. /\ git' \in [index : Tree, head : Tree, remote : Tree]
        /\ git'.index = git.index /\ git'.head = git.head
        /\ git'.remote \in {git.head, git.remote}
    BY <1>1, <1>2, PushedTrees DEF TypeOK
  <1>6. FromTrees(git'.index) /\ FromTrees(git'.head) /\ FromTrees(git'.remote)
    BY <1>5 DEF FromTrees
  <1>7. TypeOK'
    BY <1>1, <1>2, <1>3, <1>4, <1>5, GitTypes
  <1>8. AtWork'
    BY <1>2, <1>3 DEF IInv, AtWork
  <1> QED
    BY <1>2, <1>3, <1>6, <1>7, <1>8, GitStep

-------------------------------------------------------------------------------
(* The world around it. *)

\* access.txt is changed by hand.
LEMMA HandEditKeeps ==
    ASSUME IInv, HandEdit
    PROVE  IInv'
  <1> DEFINE a == RegistryOf(disk)
  <1>1. PICK n \in Names, e \in Offers \cup {None} :
            /\ disk' = [disk EXCEPT ![AccessTxt] = [a EXCEPT ![n] = Reread(n, e)]]
            /\ granted' = granted \cup (IF e = None THEN {} ELSE Rights(n, e))
    BY DEF HandEdit
  <1>2. /\ pc \in {"off", "menu"} /\ edits' = edits + 1
        /\ UNCHANGED <<pc, job, chapter, registry, git, origin, skipped, result, unwritten,
                       cut, commands, faults>>
    BY DEF HandEdit
  <1>3. /\ TypeOK /\ TypedTree(disk) /\ TypedTree(git.index) /\ TypedTree(git.head)
        /\ TypedTree(git.remote) /\ a \in Access
    BY TypeParts, RegistryFacts DEF IInv
  <1>4. /\ e # None => e \in Entry /\ e.chapters \subseteq Chapters
        /\ e \in Entry \cup {None}
    BY GrantFacts, PublishingAssumption
  <1>5. /\ Reread(n, e) \in {None, e}
        /\ Reread(n, Reread(n, e)) = Reread(n, e)
    <2>1. Reread(n, e) \in {None, e}
      BY <1>4, RereadFacts
    <2>2. Reread(n, None) = None
      BY DEF Reread
    <2> QED
      BY <2>1, <2>2
  <1> DEFINE b == [a EXCEPT ![n] = Reread(n, e)]
  <1>6. /\ b \in Access /\ b[n] = Reread(n, e)
        /\ \A m \in Names : m # n => b[m] = a[m]
    BY <1>3, <1>4, <1>5 DEF Access
  <1>7. /\ TypedTree(disk') /\ RegistryOf(disk') = b
        /\ \A c \in Chapters : disk'[c] = disk[c]
    <2> HIDE DEF a, b
    <2> DEFINE u == [disk EXCEPT ![AccessTxt] = b]
    <2>1. TypedTree(u) /\ RegistryOf(u) = b /\ \A c \in Chapters : u[c] = disk[c]
      BY <1>3, <1>6, ReplaceAccess
    <2> HIDE DEF u
    <2>2. disk' = u
      BY <1>1 DEF u, b
    <2> QED
      BY <2>1, <2>2
  <1>8. edits' \in Nat /\ edits' # 0
    BY <1>2, <1>3 DEF TypeOK
  <1>9. TypeOK'
    <2>1. granted' \subseteq Names \X Keys \X Chapters
      BY <1>1, <1>3, <1>4, RightsType DEF TypeOK
    <2> QED
      BY <1>2, <1>3, <1>7, <1>8, <2>1 DEF TypeOK, TypedTree, Content
  <1> HIDE DEF b
  <1>10. GrantsCover'
    <2>1. granted \subseteq granted'
      BY <1>1
    <2>2. /\ AccessGiven(registry, granted', cut) /\ AccessGiven(a, granted', cut)
          /\ GrantedTree(disk, granted', cut) /\ GrantedTree(git.index, granted', cut)
          /\ GrantedTree(git.head, granted', cut) /\ GrantedTree(git.remote, granted', cut)
      BY <2>1, MoreGiven DEF IInv, GrantsCover
    <2>3. GrantedTree(disk', granted', cut)
      BY <1>7, <2>2, SameChapters
    <2>4. ASSUME e # None PROVE EntryGiven(n, e, granted', cut)
      <3>1. Rights(n, e) \subseteq granted'
        BY <1>1, <2>4
      <3> QED
        BY <1>4, <2>4, <3>1, RightsAreGiven
    <2>5. AccessGiven(b, granted', cut)
      BY <1>5, <1>6, <2>2, <2>4 DEF AccessGiven
    <2>6. RegistryOf(disk)' = b
      BY <1>7 DEF RegistryOf
    <2> QED
      BY <1>2, <2>2, <2>3, <2>5, <2>6 DEF GrantsCover
  <1>11. Readable'
    <2>1. \A m \in Names : Reread(m, b[m]) = b[m]
      <3>1. Saved(a) = a
        BY DEF IInv, Readable
      <3>2. \A m \in Names : Reread(m, a[m]) = a[m]
        <4> HIDE DEF a
        <4> QED
          BY <1>3, <3>1, SavedFacts
      <3> QED
        BY <1>5, <1>6, <3>2
    <2>2. Saved(b) = b
      <3>1. b = [m \in Names |-> b[m]]
        BY <1>6 DEF Access
      <3> QED
        BY <2>1, <3>1 DEF Saved
    <2>3. RegistryOf(disk)' = b /\ Saved(RegistryOf(disk))' = Saved(b)
      BY <1>7 DEF RegistryOf, Saved
    <2> QED
      BY <1>2, <2>2, <2>3 DEF IInv, Readable
  <1>12. HalfFilesStay'
    BY <1>2 DEF IInv, HalfFilesStay, NoHalfFile
  <1> QED
    BY <1>2, <1>8, <1>9, <1>10, <1>11, <1>12
    DEF IInv, AtWork, DiskIsRegistry, WrapsFollowAccessFile

\* The window is closed.
LEMMA CrashKeeps ==
    ASSUME IInv, Crash
    PROVE  IInv'
  <1>1. /\ pc' = "off" /\ result' = "none" /\ faults' \in Nat
        /\ UNCHANGED <<job, chapter, registry, git, origin, skipped, granted, unwritten,
                       commands, edits>>
    BY DEF Crash, Fails, IInv, TypeOK
  <1>2. /\ TypeOK /\ TypedTree(disk) /\ TypedTree(git.index) /\ TypedTree(git.head)
        /\ TypedTree(git.remote)
    BY TypeParts DEF IInv
  <1>3. /\ TypedTree(disk') /\ cut' \in BOOLEAN /\ (cut => cut')
        /\ \A c \in Chapters : disk'[c] \in {disk[c], Garbled}
        /\ AccessGiven(RegistryOf(disk'), granted, cut')
        /\ Saved(RegistryOf(disk')) = RegistryOf(disk')
        /\ ~cut' => ~cut /\ RegistryOf(disk') = RegistryOf(disk)
    <2>1. CASE UNCHANGED <<disk, cut>>
      BY <1>2, <2>1 DEF IInv, GrantsCover, Readable, TypeOK
    <2>2. CASE RewriteIsCut
      BY <2>2, BrokenOff
    <2>3. CASE /\ pc = "wrap" /\ disk' = [disk EXCEPT ![chapter] = Garbled]
               /\ UNCHANGED cut
      <3>1. Garbled \in Content /\ chapter \in Chapters
        BY <2>3 DEF Content, IInv, AtWork
      <3> DEFINE u == [disk EXCEPT ![chapter] = Garbled]
      <3>2. /\ TypedTree(u) /\ RegistryOf(u) = RegistryOf(disk) /\ u[chapter] = Garbled
            /\ \A d \in Chapters : d # chapter => u[d] = disk[d]
        BY <1>2, <3>1, ReplaceChapter
      <3> HIDE DEF u
      <3>3. disk' = u
        BY <2>3 DEF u
      <3> QED
        BY <1>2, <2>3, <3>2, <3>3 DEF IInv, GrantsCover, Readable, TypeOK
    <2> QED
      BY <2>1, <2>2, <2>3 DEF Crash
  <1>4. /\ RegistryOf(disk)' = RegistryOf(disk')
        /\ Saved(RegistryOf(disk))' = Saved(RegistryOf(disk'))
    BY DEF RegistryOf, Saved
  <1>5. TypeOK'
    BY <1>1, <1>2, <1>3 DEF TypeOK, TypedTree, Content
  <1>6. GrantsCover'
    <2>1. /\ AccessGiven(registry, granted, cut') /\ GrantedTree(disk, granted, cut')
          /\ GrantedTree(git.index, granted, cut') /\ GrantedTree(git.head, granted, cut')
          /\ GrantedTree(git.remote, granted, cut')
      BY <1>3, MoreGiven DEF IInv, GrantsCover
    <2>2. GrantedTree(disk', granted, cut')
      BY <1>3, <2>1 DEF GrantedTree, IsChapter
    <2> QED
      BY <1>1, <1>3, <1>4, <2>1, <2>2 DEF GrantsCover
  <1>7. HalfFilesStay'
    BY <1>1 DEF IInv, HalfFilesStay, NoHalfFile
  <1>8. Readable'
    BY <1>1, <1>3, <1>4 DEF IInv, Readable
  <1>9. DiskIsRegistry'
    <2> SUFFICES ASSUME ~unwritten, edits = 0, ~cut'
                 PROVE  /\ ListedTree(disk', RegistryOf(disk'))
                        /\ ListedTree(git.index, RegistryOf(disk'))
                        /\ ListedTree(git.head, RegistryOf(disk'))
                        /\ ListedTree(git.remote, RegistryOf(disk'))
      BY <1>1, <1>4 DEF DiskIsRegistry
    <2>1. /\ ListedTree(disk, RegistryOf(disk')) /\ ListedTree(git.index, RegistryOf(disk'))
          /\ ListedTree(git.head, RegistryOf(disk'))
          /\ ListedTree(git.remote, RegistryOf(disk'))
      BY <1>3 DEF IInv, DiskIsRegistry
    <2>2. ListedTree(disk', RegistryOf(disk'))
      BY <1>3, <2>1 DEF ListedTree, IsChapter
    <2> QED
      BY <2>1, <2>2
  <1> QED
    BY <1>1, <1>5, <1>6, <1>7, <1>8, <1>9 DEF IInv, AtWork, WrapsFollowAccessFile

-------------------------------------------------------------------------------
(* Theorems. *)

\* The invariant is inductive.
LEMMA NextKeeps == IInv /\ [Next]_vars => IInv'
  <1> SUFFICES ASSUME IInv, [Next]_vars PROVE IInv'
    OBVIOUS
  <1>1. CASE UNCHANGED vars
    <2>1. /\ UNCHANGED <<pc, job, chapter, registry, disk, git, origin, skipped, result,
                         granted, unwritten, cut, commands, faults, edits>>
          /\ RegistryOf(disk)' = RegistryOf(disk)
          /\ Saved(RegistryOf(disk))' = Saved(RegistryOf(disk))
          /\ Saved(registry)' = Saved(registry)
      BY <1>1 DEF vars, history, RegistryOf, Saved
    <2>2. TypeOK' /\ AtWork' /\ HalfFilesStay' /\ WrapsFollowAccessFile'
      BY <2>1 DEF IInv, TypeOK, AtWork, HalfFilesStay, NoHalfFile, WrapsFollowAccessFile
    <2>3. GrantsCover' /\ Readable' /\ DiskIsRegistry'
      BY <2>1 DEF IInv, GrantsCover, GrantedTree, AccessGiven, Readable, DiskIsRegistry
    <2> QED
      BY <2>2, <2>3 DEF IInv
  <1>2. CASE Working
    BY <1>2, MenuKeeps, ReaderStepsKeep, PersistKeeps, WrapKeysKeeps, GitAddKeeps,
       GitCommitKeeps, PushesKeep DEF Working
  <1>3. CASE Next /\ ~Working
    BY <1>3, LaunchKeeps, MenuKeeps, ReaderStepsKeep, PushesKeep, HandEditKeeps,
       CrashKeeps DEF Next
  <1> QED
    BY <1>1, <1>2, <1>3

\* IInv is inductive, and an invariant of the writer's working loop.
THEOREM Invariance == Spec => []IInv
  BY InitEstablishes, NextKeeps, PTL DEF Spec

\* Every variable keeps its type.
THEOREM TypeCorrect == Spec => []TypeOK
  <1>1. IInv => TypeOK
    BY DEF IInv
  <1> QED
    BY <1>1, Invariance, PTL

\* Whatever fails, crashes or is edited by hand: a chapter file, on disk or on GitHub, has no
\* key for somebody whom the writer did not allow the chapter with this public key; or, once
\* a rewrite of access.txt was broken off, a chapter whose number begins with these digits.
THEOREM GrantsCorrect == Spec => []NoUngrantedWrap
  <1>1. IInv => NoUngrantedWrap
    BY DEF IInv, GrantsCover, GrantedTree, Given, NoUngrantedWrap
  <1> QED
    BY <1>1, Invariance, PTL

\* As long as files can be written: no half of a chapter file that a crash left is ever
\* published, however many crashes and failing commands there are.
THEOREM HalfFilesCorrect == Spec => []NoHalfFilePublished
  <1>1. IInv => NoHalfFilePublished
    BY DEF IInv, HalfFilesStay, NoHalfFile, NoHalfFilePublished
  <1> QED
    BY <1>1, Invariance, PTL

\* Without hand edits, failing writes and crashes in the middle of a rewrite, the writer's
\* access.txt lists every reader of every published chapter with the key that was used,
\* all other crashes and failing git commands included; but for names and keys with a colon.
THEOREM ListingCorrect == Spec => []WrappedReadersAreOnDisk
  <1>1. IInv => WrappedReadersAreOnDisk
    BY DEF IInv, DiskIsRegistry, ListedTree, ListsTheReaders, WrappedReadersAreOnDisk
  <1> QED
    BY <1>1, Invariance, PTL

\* specs/003 AC4: the wrapped keys of a new chapter, those of readers with a colon left out,
\* are for exactly the readers whom the file on disk authorizes, also after crashes, in the
\* middle of a rewrite too, and restarts.
THEOREM WrapsCorrect == Spec => []WrapsFollowAccessFile
  <1>1. IInv => WrapsFollowAccessFile
    BY DEF IInv
  <1> QED
    BY <1>1, Invariance, PTL

-------------------------------------------------------------------------------
(* Nothing but pushes fails: what is reported, and what is on GitHub. *)

OnlyPushFails == Faults \subseteq {"push"} /\ MaxEdits = 0

Reported == {"success", "some_readers_skipped"}

AllGoesWell == unwritten = FALSE /\ cut = FALSE /\ edits = 0

\* Each step of the git sequence finds what the one before it left; between two sequences
\* nothing is left uncommitted.
Staged ==
    /\ pc \in {"off", "menu", "ask", "persist", "wrap"} => git.index = disk /\ git.head = disk
    /\ pc = "add" => /\ git.head = git.index
                     /\ \A p \in Paths : p # JobPath => git.index[p] = disk[p]
    /\ pc = "commit" => git.index = disk
    /\ pc = "push" => git.index = disk /\ git.head = disk

\* A commit lists the readers of its own chapters.
CommitsAreListed ==
    /\ ListedTree(git.head, RegistryOf(git.head))
    /\ ListedTree(git.remote, RegistryOf(git.remote))

MadeNow == IsChapter(disk[chapter]) /\ disk[chapter].id = commands

ReportIsTrue ==
    /\ pc # "menu" => result = "none"
    /\ pc \in {"add", "commit", "push"} /\ job = "encrypt" => MadeNow
    /\ pc = "menu" /\ result \in Reported =>
            chapter \in Chapters /\ git.remote = disk /\ MadeNow

PInv ==
    /\ AllGoesWell
    /\ Staged
    /\ CommitsAreListed
    /\ ReportIsTrue

\* PInv holds at first.
LEMMA InitEstablishesPublished == Init => PInv
  <1> SUFFICES ASSUME Init PROVE PInv
    OBVIOUS
  <1>1. /\ git.index = EmptyFolder /\ git.head = EmptyFolder /\ git.remote = EmptyFolder
        /\ disk = EmptyFolder /\ pc = "off" /\ result = "none"
        /\ unwritten = FALSE /\ cut = FALSE /\ edits = 0
    BY DEF Init, Clone
  <1>2. \A c \in Chapters : ~IsChapter(EmptyFolder[c])
    BY EmptyFolderFacts DEF IsChapter
  <1> QED
    BY <1>1, <1>2
    DEF PInv, AllGoesWell, Staged, CommitsAreListed, ListedTree, ReportIsTrue

\* Two trees with the same files are the same.
LEMMA SameTree ==
    ASSUME NEW t \in Tree, NEW u \in Tree, \A p \in Paths : t[p] = u[p]
    PROVE  t = u
  BY DEF Tree

\* Steps that write nothing and report nothing.
LEMMA QuietStepPublished ==
    ASSUME PInv, UNCHANGED <<disk, git, unwritten, cut, edits>>,
           pc \in {"off", "menu", "ask", "wrap"}, pc' \in {"off", "menu", "ask", "wrap"},
           result' \notin Reported, pc' # "menu" => result' = "none"
    PROVE  PInv'
  BY DEF PInv, AllGoesWell, Staged, CommitsAreListed, ListedTree, RegistryOf, ReportIsTrue

\* Commands that end where they begin, and the beginning of an encryption.
LEMMA MenuKeepsPublished ==
    ASSUME TypeOK, PInv,
           \/ Launch \/ EncryptRefused \/ NoNewReader \/ Exit
           \/ \E c \in Chapters : EncryptBegin(c)
           \/ \E n \in Names : EditRefused(n)
    PROVE  PInv'
  <1> USE DEF history, Reported
  <1>1. CASE Launch
    BY <1>1, QuietStepPublished DEF Launch, PInv, ReportIsTrue
  <1>2. CASE EncryptRefused
    BY <1>2, QuietStepPublished, CommandCounts DEF EncryptRefused
  <1>3. CASE NoNewReader
    BY <1>3, QuietStepPublished DEF NoNewReader, PInv, ReportIsTrue
  <1>4. CASE Exit
    BY <1>4, QuietStepPublished DEF Exit
  <1>5. ASSUME NEW c \in Chapters, EncryptBegin(c) PROVE PInv'
    BY <1>5, QuietStepPublished, CommandCounts DEF EncryptBegin
  <1>6. ASSUME NEW n \in Names, EditRefused(n) PROVE PInv'
    BY <1>6, QuietStepPublished, CommandCounts DEF EditRefused
  <1> QED
    BY <1>1, <1>2, <1>3, <1>4, <1>5, <1>6

\* A reader is registered or edited.
LEMMA SetReaderKeepsPublished ==
    ASSUME PInv, NEW n \in Names, NEW e, SetReader(n, e),
           pc \in {"menu", "ask"}, job' \in {"register", "edit"}, result' = "none",
           UNCHANGED <<git, edits>>
    PROVE  PInv'
  <1>1. pc' = "persist" /\ UNCHANGED <<disk, unwritten, cut>>
    BY DEF SetReader
  <1> QED
    BY <1>1 DEF PInv, AllGoesWell, Staged, CommitsAreListed, ListedTree, RegistryOf, ReportIsTrue

\* access.txt is written.
LEMMA PersistKeepsPublished ==
    ASSUME OnlyPushFails, IInv, PInv, Persist
    PROVE  PInv'
  <1>1. /\ pc = "persist" /\ pc' = "add" /\ job # "encrypt"
        /\ disk' = [disk EXCEPT ![AccessTxt] = Saved(registry)]
        /\ UNCHANGED <<unwritten, cut, job, git, result, edits>>
    BY DEF Persist, Fails, OnlyPushFails, IInv, AtWork
  <1>2. disk \in [Paths -> Access \cup ChapterFile \cup {None, Garbled}]
    BY DEF IInv, TypeOK, Tree
  <1>3. \A p \in Paths : p # AccessTxt => disk'[p] = disk[p]
    BY <1>1, <1>2
  <1>4. Staged'
    BY <1>1, <1>3 DEF PInv, Staged, JobPath
  <1>5. CommitsAreListed'
    BY <1>1 DEF PInv, CommitsAreListed, ListedTree, RegistryOf
  <1> QED
    BY <1>1, <1>4, <1>5 DEF PInv, AllGoesWell, ReportIsTrue

\* The chapter file is written.
LEMMA WrapKeysKeepsPublished ==
    ASSUME OnlyPushFails, IInv, PInv, WrapKeys
    PROVE  PInv'
  <1>1. /\ pc = "wrap" /\ chapter \in Chapters /\ TypeOK
        /\ disk \in [Paths -> Access \cup ChapterFile \cup {None, Garbled}]
    BY DEF WrapKeys, IInv, AtWork, TypeOK, Tree
  <1>2. /\ pc' = "add" /\ job' = "encrypt" /\ unwritten' = unwritten
        /\ UNCHANGED <<cut, chapter, git, result, commands, edits>>
    BY DEF WrapKeys, WriteChapter, Fails, OnlyPushFails
  <1>3. PICK x : /\ disk' = [disk EXCEPT ![chapter] = [id |-> commands, wraps |-> x]]
                 /\ x = {<<n, registry[n].key>> :
                          n \in {m \in {n \in Names : registry[n] # None
                                                   /\ IsAuthorized(registry[n], chapter)} :
                                      CanWrap(registry[m].key)}}
    BY DEF WrapKeys, WriteChapter, Fails, OnlyPushFails, FreshId
  <1>4. x = NewWraps
    BY <1>3 DEF NewWraps
  <1>5. [id |-> commands, wraps |-> x] \in ChapterFile
    BY <1>1, <1>4, NewWrapsFacts DEF ChapterFile, TypeOK
  <1>6. chapter \in Paths
    BY <1>1, PathFacts
  <1>7. /\ disk'[chapter] = [id |-> commands, wraps |-> x]
        /\ \A p \in Paths : p # chapter => disk'[p] = disk[p]
    BY <1>1, <1>3, <1>6
  <1>8. Staged'
    BY <1>1, <1>2, <1>7 DEF PInv, Staged, JobPath
  <1>9. CommitsAreListed'
    BY <1>2 DEF PInv, CommitsAreListed, ListedTree, RegistryOf
  <1>10. MadeNow'
    BY <1>2, <1>5, <1>7, PathFacts DEF MadeNow
  <1> QED
    BY <1>1, <1>2, <1>8, <1>9, <1>10 DEF PInv, AllGoesWell, ReportIsTrue

\* The git commands.
LEMMA GitKeepsPublished ==
    ASSUME OnlyPushFails, IInv, PInv, GitAdd \/ GitCommit \/ GitPush \/ ManualPush
    PROVE  PInv'
  <1> USE DEF history
  <1>1. /\ TypeOK /\ disk \in Tree
        /\ git.index \in Tree /\ git.head \in Tree /\ git.remote \in Tree
    BY DEF IInv, TypeOK
  <1>2. CASE GitAdd
    <2>1. /\ pc = "add" /\ pc' = "commit" /\ git' = Add(git, JobPath, disk)
          /\ UNCHANGED <<job, chapter, disk, result, unwritten, cut, commands, edits>>
      BY <1>2 DEF GitAdd, Fails, OnlyPushFails
    <2>2. JobPath \in Paths
      BY <2>1, PathFacts DEF JobPath, IInv, AtWork
    <2>3. /\ git'.index \in Tree /\ git'.head = git.head /\ git'.remote = git.remote
          /\ \A p \in Paths : git'.index[p] = disk[p]
      BY <1>1, <2>1, <2>2, AddedTrees DEF PInv, Staged
    <2>4. git'.index = disk
      BY <1>1, <2>3, SameTree
    <2> QED
      BY <2>1, <2>3, <2>4
      DEF PInv, AllGoesWell, Staged, CommitsAreListed, ListedTree, RegistryOf, ReportIsTrue, MadeNow
  <1>3. CASE GitCommit
    <2>1. /\ pc = "commit" /\ pc' = "push" /\ git' = Commit(git)
          /\ UNCHANGED <<job, chapter, disk, result, unwritten, cut, commands, edits>>
      BY <1>3 DEF GitCommit, Fails, OnlyPushFails
    <2>2. /\ git'.index = disk /\ git'.head = disk /\ git'.remote = git.remote
      BY <1>1, <2>1, CommittedTrees DEF PInv, Staged
    <2>3. ListedTree(disk, RegistryOf(disk))
      BY DEF IInv, DiskIsRegistry, PInv, AllGoesWell
    <2> QED
      BY <2>1, <2>2, <2>3
      DEF PInv, AllGoesWell, Staged, CommitsAreListed, ListedTree, RegistryOf, ReportIsTrue, MadeNow
  <1>4. CASE GitPush
    <2>1. /\ pc = "push" /\ pc' = IF job = "register" THEN "wrap" ELSE "menu"
          /\ git' = git \/ git' = Push(git)
          /\ \/ job # "encrypt" /\ result' = result
             \/ job = "encrypt" /\ result' = "push_failed"
             \/ job = "encrypt" /\ git' = Push(git)
          /\ UNCHANGED <<job, chapter, disk, unwritten, cut, commands, edits>>
      BY <1>4 DEF GitPush, Report
    <2>2. /\ git'.index = disk /\ git'.head = disk
          /\ git'.remote \in {git.remote, disk}
          /\ git' = Push(git) => git'.remote = disk
      BY <1>1, <2>1, PushedTrees DEF PInv, Staged
    <2>3. result = "none" /\ (job = "encrypt" => chapter \in Chapters /\ MadeNow)
      BY <2>1 DEF PInv, ReportIsTrue, IInv, AtWork
    <2>4. /\ pc' # "menu" => result' = "none"
          /\ pc' \in {"menu", "wrap"}
          /\ pc' = "menu" /\ result' \in Reported =>
                chapter \in Chapters /\ git'.remote = disk /\ MadeNow
      BY <2>1, <2>2, <2>3 DEF Reported
    <2>5. ReportIsTrue'
      BY <2>1, <2>4 DEF ReportIsTrue, MadeNow
    <2>6. CommitsAreListed'
      BY <2>1, <2>2 DEF PInv, Staged, CommitsAreListed, ListedTree, RegistryOf
    <2> QED
      BY <2>1, <2>2, <2>4, <2>5, <2>6 DEF PInv, AllGoesWell, Staged
  <1>5. CASE ManualPush
    <2>1. /\ pc \in {"off", "menu"} /\ git' = Push(git)
          /\ UNCHANGED <<pc, job, chapter, disk, result, unwritten, cut, commands, edits>>
      BY <1>5 DEF ManualPush
    <2>2. git'.index = disk /\ git'.head = disk /\ git'.remote = disk /\ git.head = disk
      BY <1>1, <2>1, PushedTrees DEF PInv, Staged
    <2>3. ReportIsTrue'
      BY <2>1, <2>2 DEF PInv, ReportIsTrue, MadeNow
    <2>4. CommitsAreListed'
      BY <2>1, <2>2 DEF PInv, CommitsAreListed, ListedTree, RegistryOf
    <2> QED
      BY <2>1, <2>2, <2>3, <2>4 DEF PInv, AllGoesWell, Staged
  <1> QED
    BY <1>2, <1>3, <1>4, <1>5

\* PInv is inductive next to IInv.
LEMMA NextKeepsPublished ==
    ASSUME OnlyPushFails
    PROVE  IInv /\ PInv /\ [Next]_vars => PInv'
  <1> SUFFICES ASSUME IInv, PInv, [Next]_vars PROVE PInv'
    OBVIOUS
  <1>1. TypeOK
    BY DEF IInv
  <1>2. CASE UNCHANGED vars
    BY <1>2 DEF vars, history, PInv, AllGoesWell, Staged, JobPath, CommitsAreListed,
                ListedTree, RegistryOf, ReportIsTrue, MadeNow
  <1>3. ASSUME NEW n \in Names, NEW o \in Offers, EditReader(n, o)
        PROVE  PInv'
    <2>1. UNCHANGED <<git, edits>> /\ pc = "menu"
      BY <1>1, <1>3, CommandCounts DEF EditReader
    <2> QED
      BY <1>3, <2>1, SetReaderKeepsPublished DEF EditReader
  <1>4. ASSUME NEW n \in Names, NEW o \in Offers, RegisterReader(n, o)
        PROVE  PInv'
    BY <1>4, SetReaderKeepsPublished DEF RegisterReader, PInv, ReportIsTrue
  <1>5. ~HandEdit /\ ~Crash
    <2>1. edits = 0 /\ MaxEdits = 0 /\ "crash" \notin Faults
      BY DEF PInv, AllGoesWell, OnlyPushFails
    <2> QED
      BY <2>1 DEF HandEdit, Crash, Fails
  <1>6. CASE Next
    BY <1>1, <1>3, <1>4, <1>5, <1>6, MenuKeepsPublished, PersistKeepsPublished,
       WrapKeysKeepsPublished, GitKeepsPublished
    DEF Next, Working
  <1> QED
    BY <1>2, <1>6

\* As long as nothing but a push fails: what is reported as published is on GitHub, and until
\* then the command that has to bring it there is on its way.
THEOREM PublishedInvariance ==
    ASSUME OnlyPushFails
    PROVE  Spec => []PInv
  <1>1. IInv /\ PInv /\ [Next]_vars => PInv'
    BY NextKeepsPublished
  <1> QED
    BY <1>1, InitEstablishesPublished, Invariance, PTL DEF Spec

\* ChapterEncryptionService.h:21: as long as nothing but pushes fails, a chapter that is
\* reported as published is published, in the version that was made by this command.
THEOREM SuccessCorrect ==
    ASSUME OnlyPushFails
    PROVE  Spec => []SuccessIsPublished
  <1>1. PInv => SuccessIsPublished
    BY DEF PInv, ReportIsTrue, Reported, MadeNow, SuccessIsPublished
  <1> QED
    BY <1>1, PublishedInvariance, PTL

\* As long as nothing but pushes fails, the published access.txt lists the readers of every
\* published chapter, but for the colons, however many pushes fail and however they are made up for.
THEOREM PublishedListingCorrect ==
    ASSUME OnlyPushFails
    PROVE  Spec => []WrappedReadersAreListed
  <1>1. PInv => WrappedReadersAreListed
    BY DEF PInv, CommitsAreListed, ListedTree, ListsTheReaders, WrappedReadersAreListed
  <1> QED
    BY <1>1, PublishedInvariance, PTL
-------------------------------------------------------------------------------
(* What is published is, for every reader, a PublishedFolder. *)

\* Tree `u` has the readers, the chapters and the access.txt of tree `t`.
Behind(t, u) ==
    /\ AccessBehind(RegistryOf(t), RegistryOf(u))
    /\ t[AccessTxt] # None => u[AccessTxt] # None
    /\ \A c \in Chapters : t[c] # None => u[c] # None

\* Every entry is one that the writer can be asked for.
OnlyGrants(a) == \A n \in Names : a[n] \in Grants \cup {None}

\* GitHub is behind the head, the head behind the index, the index behind the disk.
InOrder ==
    ~unwritten /\ ~cut /\ edits = 0 =>
        /\ Behind(git.index, disk)
        /\ Behind(git.head, git.index)
        /\ Behind(git.remote, git.head)
        /\ OnlyGrants(registry)
        /\ \A t \in {disk, git.index, git.head, git.remote} : OnlyGrants(RegistryOf(t))

\* A folder is never ahead of itself, and behind what it is behind of.
LEMMA BehindFacts ==
    /\ \A t : Behind(t, t)
    /\ \A t, u, v : Behind(t, u) /\ Behind(u, v) => Behind(t, v)
  BY DEF Behind, AccessBehind

\* At first all the folders are the same.
LEMMA OrderInit == Init => InOrder
  <1> SUFFICES ASSUME Init PROVE InOrder
    OBVIOUS
  <1>1. /\ disk = EmptyFolder /\ git.index = EmptyFolder /\ git.head = EmptyFolder
        /\ git.remote = EmptyFolder /\ registry = Nobody
    BY DEF Init, Clone
  <1>2. OnlyGrants(Nobody) /\ RegistryOf(EmptyFolder) = Nobody
    BY EmptyFolderFacts DEF OnlyGrants
  <1> QED
    BY <1>1, <1>2, BehindFacts DEF InOrder

\* The disk gets ahead.
LEMMA DiskAhead ==
    ASSUME InOrder, UNCHANGED <<registry, git, edits>>, ~unwritten' => ~unwritten,
           ~cut' => ~cut,
           ~unwritten' /\ ~cut' /\ edits = 0 =>
                Behind(disk, disk') /\ OnlyGrants(RegistryOf(disk'))
    PROVE  InOrder'
  <1> SUFFICES ASSUME ~unwritten', ~cut', edits = 0
               PROVE  /\ Behind(git.index, disk') /\ Behind(git.head, git.index)
                      /\ Behind(git.remote, git.head) /\ OnlyGrants(registry)
                      /\ \A t \in {disk', git.index, git.head, git.remote} :
                            OnlyGrants(RegistryOf(t))
    BY DEF InOrder, RegistryOf
  <1>1. /\ Behind(git.index, disk) /\ Behind(git.head, git.index)
        /\ Behind(git.remote, git.head) /\ OnlyGrants(registry)
        /\ OnlyGrants(RegistryOf(git.index)) /\ OnlyGrants(RegistryOf(git.head))
        /\ OnlyGrants(RegistryOf(git.remote))
    BY DEF InOrder
  <1> QED
    BY <1>1, BehindFacts

\* A reader is registered or edited, in memory.
LEMMA ReaderStepsOrder ==
    ASSUME IInv, InOrder, NEW n \in Names, NEW o \in Offers,
           EditReader(n, o) \/ RegisterReader(n, o)
    PROVE  InOrder'
  <1>1. o \in Grants /\ registry \in Access
    BY PublishingAssumption DEF IInv, TypeOK
  <1>2. PICK e \in Grants : SetReader(n, e) /\ UNCHANGED <<git, edits>>
    <2>1. CASE EditReader(n, o)
      <3> DEFINE f == [o EXCEPT !.key = registry[n].key]
      <3>1. registry[n] # None /\ SetReader(n, f) /\ UNCHANGED <<git, edits>>
        BY <2>1 DEF EditReader, Command
      <3>2. registry[n].key \in Keys
        BY <1>1, <3>1, EntryFacts DEF Entry
      <3>3. f \in Grants
        BY <1>1, <3>2, GrantFacts
      <3> QED
        BY <3>1, <3>3
    <2>2. CASE RegisterReader(n, o)
      BY <1>1, <2>2 DEF RegisterReader
    <2> QED
      BY <2>1, <2>2
  <1>3. /\ registry' = [registry EXCEPT ![n] = e]
        /\ UNCHANGED <<disk, unwritten, cut>>
    BY <1>2 DEF SetReader
  <1>4. OnlyGrants(registry) => OnlyGrants(registry')
    BY <1>1, <1>3 DEF OnlyGrants, Access
  <1> QED
    BY <1>2, <1>3, <1>4 DEF InOrder, RegistryOf, Behind

\* The disk goes ahead by the entries of the map.
LEMMA PersistOrder ==
    ASSUME IInv, InOrder, Persist
    PROVE  InOrder'
  <1>1. pc = "persist" /\ UNCHANGED <<registry, git, edits>>
    BY DEF Persist
  <1>2. CASE unwritten' = TRUE
    BY <1>2 DEF InOrder
  <1>3. CASE disk' = [disk EXCEPT ![AccessTxt] = Saved(registry)] /\ UNCHANGED <<unwritten, cut>>
    <2>1. registry \in Access /\ TypedTree(disk)
      BY TypeParts DEF IInv
    <2>2. Saved(registry) \in Access /\ \A n \in Names : Saved(registry)[n] \in {None, registry[n]}
      BY <2>1, SavedFacts
    <2> DEFINE u == [disk EXCEPT ![AccessTxt] = Saved(registry)]
    <2>3. /\ u[AccessTxt] = Saved(registry) /\ RegistryOf(u) = Saved(registry)
          /\ \A c \in Chapters : u[c] = disk[c]
      BY <2>1, <2>2, ReplaceAccess
    <2> HIDE DEF u
    <2>4. disk' = u
      BY <1>3 DEF u
    <2>5. ASSUME ~unwritten', ~cut', edits = 0
          PROVE  Behind(disk, disk') /\ OnlyGrants(RegistryOf(disk'))
      <3>1. AccessBehind(RegistryOf(disk), Saved(registry)) /\ OnlyGrants(registry)
        BY <1>1, <1>3, <2>5 DEF IInv, DiskIsRegistry, InOrder
      <3>2. OnlyGrants(Saved(registry))
        BY <2>2, <3>1 DEF OnlyGrants
      <3> QED
        BY <2>2, <2>3, <2>4, <3>1, <3>2, PathFacts DEF Behind
    <2> QED
      BY <1>1, <1>3, <2>5, DiskAhead
  <1> QED
    BY <1>2, <1>3 DEF Persist

\* A folder is behind the one with a newer chapter file, with the same access.txt.
LEMMA ChapterBehind ==
    ASSUME NEW t, TypedTree(t), NEW c \in Chapters, NEW x \in Content, x # None
    PROVE  LET u == [t EXCEPT ![c] = x] IN Behind(t, u) /\ RegistryOf(u) = RegistryOf(t)
  <1> DEFINE u == [t EXCEPT ![c] = x]
  <1>1. /\ TypedTree(u) /\ u[AccessTxt] = t[AccessTxt] /\ u[c] = x
        /\ RegistryOf(u) = RegistryOf(t)
        /\ \A d \in Chapters : d # c => u[d] = t[d]
    BY ReplaceChapter
  <1> HIDE DEF u
  <1>2. Behind(t, u) /\ RegistryOf(u) = RegistryOf(t)
    BY <1>1 DEF Behind, AccessBehind
  <1> QED
    BY <1>2 DEF u

\* A chapter that is written, whole or in part, is there.
LEMMA ChapterOrder ==
    ASSUME IInv, InOrder, NEW c \in Chapters, NEW x \in Content, x # None,
           disk' = [disk EXCEPT ![c] = x], UNCHANGED <<registry, git, edits, unwritten, cut>>
    PROVE  InOrder'
  <1>1. TypedTree(disk)
    BY TypeParts DEF IInv
  <1>2. Behind(disk, disk') /\ RegistryOf(disk') = RegistryOf(disk)
    BY <1>1, ChapterBehind
  <1> QED
    BY <1>2, DiskAhead DEF InOrder

\* The disk goes ahead by a chapter file.
LEMMA WrapKeysOrder ==
    ASSUME IInv, InOrder, WrapKeys
    PROVE  InOrder'
  <1>1. pc = "wrap" /\ chapter \in Chapters /\ UNCHANGED <<registry, git, edits, cut>>
    BY DEF WrapKeys, IInv, AtWork
  <1> DEFINE new == [id |-> FreshId, wraps |-> NewWraps]
  <1>2. WriteChapter(new)
    <2>1. NewWraps = {<<n, registry[n].key>> :
                n \in {m \in {n \in Names : registry[n] # None
                                         /\ IsAuthorized(registry[n], chapter)} :
                            CanWrap(registry[m].key)}}
      BY DEF NewWraps
    <2> QED
      BY <2>1 DEF WrapKeys
  <1>3. new \in ChapterFile
    BY <1>1, NewWrapsFacts DEF ChapterFile, FreshId, TypeOK, IInv
  <1> HIDE DEF new
  <1>4. new \in Content /\ new # None
    BY <1>3, PathFacts DEF Content, IsChapter
  <1>5. \/ disk' = [disk EXCEPT ![chapter] = new] /\ unwritten' = unwritten
        \/ unwritten' = TRUE
    BY <1>2 DEF WriteChapter
  <1> QED
    BY <1>1, <1>4, <1>5, ChapterOrder, DiskAhead

\* git's folders follow.
LEMMA GitOrder ==
    ASSUME IInv, InOrder, GitAdd \/ GitCommit \/ GitPush \/ ManualPush
    PROVE  InOrder'
  <1>1. UNCHANGED <<registry, disk, unwritten, cut, edits>>
    BY DEF GitAdd, GitCommit, GitPush, ManualPush, history
  <1>2. TypeOK /\ TypedTree(disk) /\ TypedTree(git.index)
    BY TypeParts DEF IInv
  <1> SUFFICES ASSUME ~unwritten, ~cut, edits = 0
               PROVE  /\ Behind(git'.index, disk) /\ Behind(git'.head, git'.index)
                      /\ Behind(git'.remote, git'.head)
                      /\ OnlyGrants(RegistryOf(git'.index))
                      /\ OnlyGrants(RegistryOf(git'.head))
                      /\ OnlyGrants(RegistryOf(git'.remote))
    BY <1>1 DEF InOrder, RegistryOf
  <1>3. /\ Behind(git.index, disk) /\ Behind(git.head, git.index)
        /\ Behind(git.remote, git.head) /\ OnlyGrants(RegistryOf(disk))
        /\ OnlyGrants(RegistryOf(git.index)) /\ OnlyGrants(RegistryOf(git.head))
        /\ OnlyGrants(RegistryOf(git.remote))
    BY DEF InOrder
  <1>4. CASE git' = git
    BY <1>3, <1>4
  <1>5. CASE GitAdd /\ git' = Add(git, JobPath, disk)
    <2>1. JobPath \in Paths
      BY <1>5, PathFacts DEF GitAdd, JobPath, IInv, AtWork
    <2>2. /\ git'.head = git.head /\ git'.remote = git.remote
          /\ git'.index[JobPath] = disk[JobPath]
          /\ \A q \in Paths : q # JobPath => git'.index[q] = git.index[q]
      BY <1>2, <1>5, <2>1, AddedTrees
    <2>3. \A q \in Paths : git'.index[q] \in {disk[q], git.index[q]}
      BY <2>2
    <2>4. Behind(git.index, git'.index) /\ Behind(git'.index, disk)
      BY <1>3, <2>3, PathFacts DEF Behind, AccessBehind, RegistryOf
    <2>5. OnlyGrants(RegistryOf(git'.index))
      BY <1>3, <2>3, PathFacts DEF RegistryOf
    <2> QED
      BY <1>3, <2>2, <2>4, <2>5, BehindFacts
  <1>6. CASE git' = Commit(git)
    BY <1>2, <1>3, <1>6, CommittedTrees, BehindFacts
  <1>7. CASE git' = Push(git)
    BY <1>2, <1>3, <1>7, PushedTrees, BehindFacts
  <1> QED
    BY <1>4, <1>5, <1>6, <1>7 DEF GitAdd, GitCommit, GitPush, ManualPush

\* Every step keeps the folders in order.
LEMMA OrderStep ==
    ASSUME IInv, InOrder, [Next]_vars
    PROVE  InOrder'
  <1>1. CASE UNCHANGED <<registry, disk, git, unwritten, cut, edits>>
    BY <1>1 DEF InOrder, RegistryOf
  <1>2. CASE HandEdit
    <2>1. edits' # 0
      BY <1>2 DEF HandEdit, IInv, TypeOK
    <2> QED
      BY <2>1 DEF InOrder
  <1>3. CASE Crash
    <2>1. /\ UNCHANGED <<registry, git, edits, unwritten>>
          /\ \/ UNCHANGED <<disk, cut>>
             \/ cut' = TRUE
             \/ pc = "wrap" /\ disk' = [disk EXCEPT ![chapter] = Garbled] /\ UNCHANGED cut
      BY <1>3 DEF Crash, RewriteIsCut
    <2>2. Garbled \in Content /\ Garbled # None /\ (pc = "wrap" => chapter \in Chapters)
      BY PathFacts DEF Content, IInv, AtWork
    <2>3. CASE cut' = TRUE
      BY <2>3 DEF InOrder
    <2> QED
      BY <1>1, <2>1, <2>2, <2>3, ChapterOrder
  <1>4. CASE Launch
    <2>1. registry' = RegistryOf(disk) /\ UNCHANGED <<disk, git, unwritten, cut, edits>>
      BY <1>4 DEF Launch, history
    <2> QED
      BY <2>1 DEF InOrder, RegistryOf, Behind
  <1>5. CASE UNCHANGED vars \/ EncryptRefused \/ NoNewReader \/ Exit
             \/ (\E c \in Chapters : EncryptBegin(c)) \/ (\E n \in Names : EditRefused(n))
    <2>1. UNCHANGED <<registry, disk, git, unwritten, cut, edits>>
      BY <1>5 DEF vars, history, EncryptRefused, NoNewReader, Exit, EncryptBegin,
                  EditRefused, Command
    <2> QED
      BY <1>1, <2>1
  <1> QED
    BY <1>2, <1>3, <1>4, <1>5, ReaderStepsOrder, PersistOrder, WrapKeysOrder, GitOrder
    DEF Next, Working

-------------------------------------------------------------------------------
(* What a reader sees of two trees that follow each other. *)

\* What reader n sees of a tree on GitHub.
SeenAccessOf(n, t) == IF t[AccessTxt] = None THEN NoFile ELSE t[AccessTxt][n]

\* The key that the folder may have of reader n, if any.
OwnKey(n, a) == IF a[n] = None THEN {} ELSE {a[n].key}

\* The wrapped keys of a reader without colons can be read back.
PlainTree(t, n) ==
    \A c \in Chapters : IsChapter(t[c]) =>
        \A w \in t[c].wraps : w[1] = n => w \in PlainWraps(t[c])

\* What was granted to a reader without colons has none either.
LEMMA GrantedIsPlain ==
    ASSUME NEW n \in Names, IsPlain(n), NEW t, TypedTree(t), GrantedTree(t, granted, FALSE)
    PROVE  PlainTree(t, n)
  <1> SUFFICES ASSUME NEW c \in Chapters, IsChapter(t[c]), NEW w \in t[c].wraps, w[1] = n
               PROVE  w \in PlainWraps(t[c])
    BY DEF PlainTree
  <1>1. <<w[1], w[2], c>> \in granted
    BY DEF GrantedTree, Given
  <1>2. w[1] \notin Colons /\ w[2] \notin Colons
    BY <1>1 DEF IsPlain
  <1> QED
    BY <1>2 DEF PlainWraps

\* A chapter file has one key for a reader whom `a` lists, and it is the one of `a`.
LEMMA SeenFileFacts ==
    ASSUME NEW t, TypedTree(t), NEW a, ListedTree(t, a), NEW n \in Names, PlainTree(t, n),
           NEW c \in Chapters
    PROVE  /\ ~IsChapter(t[c]) => SeenFile(n, t[c]) = t[c] /\ t[c] \in {None, Garbled}
           /\ IsChapter(t[c]) =>
                SeenFile(n, t[c]) \in [key : OwnKey(n, a) \cup {None}, intact : {TRUE}]
  <1>1. CASE ~IsChapter(t[c])
    BY <1>1 DEF SeenFile, IsChapter
  <1>2. CASE IsChapter(t[c])
    <2> DEFINE keys == {w[2] : w \in {v \in t[c].wraps : v[1] = n}}
               k == IF keys = {} THEN None ELSE CHOOSE l \in keys : TRUE
    <2>1. SeenFile(n, t[c]) = [key |-> k, intact |-> TRUE]
      BY <1>2 DEF SeenFile
    <2>2. ASSUME NEW w \in t[c].wraps, w[1] = n PROVE w[2] \in OwnKey(n, a)
      <3>1. w \in PlainWraps(t[c])
        BY <1>2, <2>2 DEF PlainTree
      <3> QED
        BY <1>2, <2>2, <3>1 DEF ListedTree, OwnKey
    <2>3. keys \subseteq OwnKey(n, a)
      BY <2>2
    <2>4. keys # {} => k \in keys
      OBVIOUS
    <2> HIDE DEF keys
    <2>5. k \in OwnKey(n, a) \cup {None}
      BY <2>3, <2>4
    <2> HIDE DEF k
    <2> QED
      BY <1>2, <2>1, <2>5
  <1> QED
    BY <1>1, <1>2

\* The keys that a reader sees in a tree are those of an access file that is ahead of it.
LEMMA SeenKeys ==
    ASSUME NEW t, TypedTree(t), NEW a, ListedTree(t, a), NEW n \in Names, PlainTree(t, n),
           AccessBehind(RegistryOf(t), a)
    PROVE  /\ SeenAccessOf(n, t) \notin {NoFile, None} =>
                a[n] # None /\ SeenAccessOf(n, t).key = a[n].key
           /\ \A c \in Chapters :
                SeenFile(n, t[c]) \notin {None, Garbled} =>
                    SeenFile(n, t[c]).key \in OwnKey(n, a) \cup {None}
  <1>1. ASSUME NEW c \in Chapters, SeenFile(n, t[c]) \notin {None, Garbled}
        PROVE  SeenFile(n, t[c]).key \in OwnKey(n, a) \cup {None}
    <2>1. IsChapter(t[c])
      BY <1>1 DEF SeenFile, IsChapter
    <2>2. SeenFile(n, t[c]) \in [key : OwnKey(n, a) \cup {None}, intact : {TRUE}]
      BY <2>1, SeenFileFacts
    <2> QED
      BY <2>2
  <1>2. SeenAccessOf(n, t) \notin {NoFile, None} => RegistryOf(t)[n] = SeenAccessOf(n, t)
    BY RegistryFacts DEF SeenAccessOf
  <1> QED
    BY <1>1, <1>2 DEF AccessBehind

\* One push, or none: all keys are those of the writer's own access.txt.
LEMMA PushIsSeen ==
    ASSUME TypedTree(git.remote), TypedTree(git'.remote), Behind(git.remote, git'.remote),
           OnlyGrants(RegistryOf(git'.remote)), NEW a \in Access,
           ListedTree(git.remote, a), ListedTree(git'.remote, a),
           AccessBehind(RegistryOf(git.remote), a), AccessBehind(RegistryOf(git'.remote), a),
           NEW n \in Names, PlainTree(git.remote, n), PlainTree(git'.remote, n)
    PROVE  Folder(n)!Push(Keys)
  <1> DEFINE t == git.remote
             u == git'.remote
  <1>1. SeenAccess(n) = SeenAccessOf(n, t) /\ SeenAccess(n)' = SeenAccessOf(n, u)
    BY DEF SeenAccess, SeenAccessOf
  <1>2. a[n] # None => a[n].key \in Keys
    BY EntryFacts DEF Entry
  <1>3. /\ SeenAccessOf(n, t) \notin {NoFile, None} =>
                a[n] # None /\ SeenAccessOf(n, t).key = a[n].key
        /\ \A c \in Chapters : SeenFile(n, t[c]) \notin {None, Garbled} =>
                    SeenFile(n, t[c]).key \in OwnKey(n, a) \cup {None}
    BY SeenKeys
  <1>4. /\ SeenAccessOf(n, u) \notin {NoFile, None} =>
                a[n] # None /\ SeenAccessOf(n, u).key = a[n].key
        /\ \A c \in Chapters : SeenFile(n, u[c]) \notin {None, Garbled} =>
                    SeenFile(n, u[c]).key \in OwnKey(n, a) \cup {None}
    BY SeenKeys
  <1>5. ASSUME NEW k \in Folder(n)!FolderKeys PROVE a[n] # None /\ k = a[n].key
    <2>1. CASE Folder(n)!IsRegistered /\ k = SeenAccess(n).key
      BY <1>1, <1>3, <2>1 DEF Folder!IsRegistered
    <2>2. ASSUME NEW c \in Chapters, k = Folder(n)!WrappedFor(SeenFile(n, t[c])), k # None
          PROVE  a[n] # None /\ k = a[n].key
      <3>1. k \in OwnKey(n, a) \cup {None}
        BY <1>3, <2>2 DEF Folder!WrappedFor
      <3> QED
        BY <2>2, <3>1 DEF OwnKey
    <2> QED
      BY <1>5, <2>1, <2>2 DEF Folder!FolderKeys
  <1>6. ASSUME NEW k \in Folder(n)!FolderKeys' PROVE a[n] # None /\ k = a[n].key
    <2>1. CASE Folder(n)!IsRegistered' /\ k = SeenAccess(n)'.key
      BY <1>1, <1>4, <2>1 DEF Folder!IsRegistered
    <2>2. ASSUME NEW c \in Chapters, k = Folder(n)!WrappedFor(SeenFile(n, u[c])), k # None
          PROVE  a[n] # None /\ k = a[n].key
      <3>1. k \in OwnKey(n, a) \cup {None}
        BY <1>4, <2>2 DEF Folder!WrappedFor
      <3> QED
        BY <2>2, <3>1 DEF OwnKey
    <2> QED
      BY <1>6, <2>1, <2>2 DEF Folder!FolderKeys
  <1> DEFINE keys == Folder(n)!KeysToUse(Keys)
  <1>7. a[n] # None => a[n].key \in keys
    BY <1>2, <1>5 DEF Folder!KeysToUse
  <1>8. \/ SeenAccess(n)' = SeenAccess(n)
        \/ SeenAccess(n) = NoFile /\ SeenAccess(n)' = None
        \/ \E k \in keys, d \in Details :
              SeenAccess(n)' = [key |-> k, level |-> d.level, chapters |-> d.chapters]
    <2>1. CASE RegistryOf(u)[n] = None
      <3>1. RegistryOf(t)[n] = None /\ (t[AccessTxt] # None => u[AccessTxt] # None)
        BY <2>1 DEF Behind, AccessBehind
      <3>2. /\ t[AccessTxt] # None => SeenAccessOf(n, t) = None
            /\ u[AccessTxt] # None => SeenAccessOf(n, u) = None
            /\ t[AccessTxt] = None => SeenAccessOf(n, t) = NoFile
            /\ u[AccessTxt] = None => SeenAccessOf(n, u) = NoFile
        BY <2>1, <3>1 DEF SeenAccessOf, RegistryOf
      <3> QED
        BY <1>1, <3>1, <3>2
    <2>2. CASE RegistryOf(u)[n] # None
      <3>1. SeenAccess(n)' = RegistryOf(u)[n]
        BY <1>1, <2>2, RegistryFacts DEF SeenAccessOf
      <3>2. PICK k \in Keys, d \in Details :
              RegistryOf(u)[n] = [key |-> k, level |-> d.level, chapters |-> d.chapters]
        BY <2>2 DEF OnlyGrants, Grants
      <3>3. k = a[n].key /\ a[n] # None
        BY <2>2, <3>2 DEF AccessBehind
      <3> QED
        BY <1>7, <3>1, <3>2, <3>3
    <2> QED
      BY <2>1, <2>2
  <1> DEFINE seen == [c \in Chapters |-> SeenFile(n, t[c])]
             next == [c \in Chapters |-> SeenFile(n, u[c])]
  <1>9. ASSUME NEW c \in Chapters
        PROVE  SeenFile(n, u[c]) \in Folder(n)!FilesFor(keys) \cup {SeenFile(n, t[c])}
    <2>1. CASE u[c] = None
      BY <2>1 DEF Behind, SeenFile, IsChapter
    <2>2. CASE u[c] # None
      <3>1. /\ ~IsChapter(u[c]) => SeenFile(n, u[c]) = u[c] /\ u[c] \in {None, Garbled}
            /\ IsChapter(u[c]) =>
                 SeenFile(n, u[c]) \in [key : OwnKey(n, a) \cup {None}, intact : {TRUE}]
        BY SeenFileFacts
      <3>2. OwnKey(n, a) \subseteq keys
        BY <1>7 DEF OwnKey
      <3> HIDE DEF keys
      <3> QED
        BY <2>2, <3>1, <3>2 DEF Folder!FilesFor
    <2> QED
      BY <2>1, <2>2
  <1>10. \A k, l \in Folder(n)!FolderKeys' : k = l
    BY <1>6
  <1> HIDE DEF keys
  <1>11. /\ next \in [Chapters -> Folder(n)!FilesFor(keys) \cup {seen[c] : c \in Chapters}]
         /\ \A c \in Chapters : next[c] \in Folder(n)!FilesFor(keys) \cup {seen[c]}
    BY <1>9
  <1> QED
    BY <1>8, <1>10, <1>11 DEF Folder!Push, keys

\* What git's folders become is a push of the abstract folder.
LEMMA StepIsPush ==
    ASSUME IInv, IInv', InOrder, InOrder', [Next]_vars, git' # git, ~unwritten, ~cut,
           edits = 0, NEW n \in Names, IsPlain(n)
    PROVE  Folder(n)!Push(Keys)
  <1>1. GitAdd \/ GitCommit \/ GitPush \/ ManualPush
    BY DEF Next, Working, vars, Launch, EncryptRefused, NoNewReader, Exit, EncryptBegin,
           EditRefused, EditReader, RegisterReader, Persist, Command, WrapKeys, HandEdit,
           Crash
  <1>2. UNCHANGED <<disk, granted, unwritten, cut, edits>>
    BY <1>1 DEF GitAdd, GitCommit, GitPush, ManualPush, history
  <1>3. TypeOK /\ TypedTree(disk) /\ TypedTree(git.remote) /\ TypedTree(git'.remote)
        /\ RegistryOf(disk) \in Access
    BY TypeParts, RegistryFacts DEF IInv, TypeOK, TypedTree, Content
  <1>4. git'.remote \in {git.remote, git.head}
    <2>1. CASE git' = Push(git)
      BY <1>3, <2>1, PushedTrees
    <2>2. CASE git' = Commit(git)
      BY <1>3, <2>2, CommittedTrees
    <2>3. CASE GitAdd /\ git' = Add(git, JobPath, disk)
      <3>1. JobPath \in Paths
        BY <2>3, PathFacts DEF GitAdd, JobPath, IInv, AtWork
      <3> QED
        BY <1>3, <2>3, <3>1, AddedTrees
    <2> QED
      BY <1>1, <2>1, <2>2, <2>3 DEF GitAdd, GitCommit, GitPush, ManualPush
  <1>5. /\ Behind(git.index, disk) /\ Behind(git.head, git.index)
        /\ Behind(git.remote, git.head) /\ OnlyGrants(RegistryOf(git.remote))
        /\ OnlyGrants(RegistryOf(git.head))
    BY DEF InOrder
  <1>6. /\ Behind(git.remote, git'.remote) /\ Behind(git.remote, disk)
        /\ Behind(git'.remote, disk) /\ OnlyGrants(RegistryOf(git'.remote))
    BY <1>4, <1>5, BehindFacts
  <1>7. /\ ListedTree(git.remote, RegistryOf(disk)) /\ ListedTree(git.head, RegistryOf(disk))
        /\ GrantedTree(git.remote, granted, FALSE) /\ GrantedTree(git.head, granted, FALSE)
    <2>1. cut = FALSE
      BY <1>3 DEF TypeOK
    <2> QED
      BY <2>1 DEF IInv, DiskIsRegistry, GrantsCover
  <1>8. /\ ListedTree(git'.remote, RegistryOf(disk)) /\ GrantedTree(git'.remote, granted, FALSE)
    BY <1>4, <1>7
  <1>9. PlainTree(git.remote, n) /\ PlainTree(git'.remote, n)
    BY <1>3, <1>7, <1>8, GrantedIsPlain
  <1> QED
    BY <1>3, <1>6, <1>7, <1>8, <1>9, PushIsSeen DEF Behind

\* As long as files can be written, no rewrite of access.txt is broken off and nobody edits it
\* by hand: every reader without a colon in the name and the key sees a PublishedFolder,
\* whatever git commands fail and wherever else the program stops.
THEOREM PublishedFolderCorrect == Spec => ImplementsPublishedFolder
  <1>1. Init => \A n \in Names : Folder(n)!Init
    <2> SUFFICES ASSUME Init, NEW n \in Names PROVE Folder(n)!Init
      OBVIOUS
    <2>1. git.remote = EmptyFolder
      BY DEF Init, Clone
    <2>2. SeenAccess(n) = NoFile
      BY <2>1, EmptyFolderFacts DEF SeenAccess
    <2>3. \A c \in Chapters : SeenFile(n, git.remote[c]) = None
      BY <2>1, EmptyFolderFacts DEF SeenFile, IsChapter
    <2> QED
      BY <2>2, <2>3 DEF Folder!Init
  <1>2. IInv /\ InOrder /\ [Next]_vars => InOrder'
    BY OrderStep
  <1>3. /\ IInv /\ IInv' /\ InOrder /\ InOrder' /\ [Next]_vars
        => [~unwritten /\ ~cut /\ edits = 0 =>
              \A n \in Names : IsPlain(n) => Folder(n)!Push(Keys)]_git
    BY StepIsPush
  <1> QED
    BY <1>1, <1>2, <1>3, OrderInit, Invariance, PTL DEF Spec, ImplementsPublishedFolder
===============================================================================
