---------------------------- MODULE AccessRegistry ----------------------------
(***************************************************************************)
(* shared/AccessRegistry: the map from reader names to entries that the    *)
(* writer's process keeps in memory, and access.txt, which every change    *)
(* rewrites as a whole.  The process may stop anywhere; the writer may     *)
(* edit the file by hand while it runs or between two runs.                *)
(***************************************************************************)
EXTENDS AccessFile, Sequences

CONSTANTS
    HandLines,      \* the lines a hand edit may leave in the file
    MaxCrashes,     \* bound: crashes and failed writes in a behaviour
    MaxEdits,       \* bound: hand edits in a behaviour
    MaxGrants,      \* bound: different grants in a behaviour
    DiskMayFail     \* whether opening or writing access.txt may fail

ASSUME ConstantsAssumption ==
    /\ HandLines \subseteq Line
    /\ MaxCrashes \in Nat
    /\ MaxEdits \in Nat
    /\ MaxGrants \in Nat
    /\ DiskMayFail \in BOOLEAN

VARIABLES
    pc,         \* "down", "loading", "idle" or "persisting"
    pos,        \* lines read by the load, or written by the rewrite, in progress
    file,       \* access.txt: a sequence of lines; a missing file is the empty one
    readers,    \* readers_: an entry or None for every name
    order,      \* order_: the registered names in file order
    image,      \* history: the file before the rewrite in progress, and the name it is for
    stale,      \* history: the file and the map were changed apart from each other
    granted,    \* history: every <<name, entry>> the writer ever asked for
    crashes,    \* crashes and failed writes so far
    edits       \* hand edits so far

vars == <<pc, pos, file, readers, order, image, stale, granted, crashes, edits>>

Nobody == [n \in Names |-> None]
NoImage == [lines |-> <<>>, name |-> None]

Init ==
    /\ pc = "down"
    /\ pos = 0
    /\ file = <<>>
    /\ readers = Nobody
    /\ order = <<>>
    /\ image = NoImage
    /\ stale = FALSE
    /\ granted = {}
    /\ crashes = 0
    /\ edits = 0

-------------------------------------------------------------------------------
(* Loading: load_from_file and load_from_stream, a line at a time. *)

Start ==
    /\ pc = "down"
    /\ pc' = "loading"
    /\ readers' = Nobody
    /\ order' = <<>>
    /\ UNCHANGED <<pos, file, image, stale, granted, crashes, edits>>

\* Variant for mutation: a name that is already loaded is not overwritten.
LoadLineFirstWins ==
    /\ pc = "loading"
    /\ pos < Len(file)
    /\ LET line == file[pos + 1]
           new == Valid(line) /\ readers[line.name] = None IN
        /\ readers' = IF new THEN [readers EXCEPT ![line.name] = EntryOf(line)] ELSE readers
        /\ order' = IF new THEN Append(order, line.name) ELSE order
    /\ pos' = pos + 1
    /\ UNCHANGED <<pc, file, image, stale, granted, crashes, edits>>

\* Variant for mutation: every valid line is appended to order_, repeated names too.
LoadLineAlwaysAppends ==
    /\ pc = "loading"
    /\ pos < Len(file)
    /\ LET line == file[pos + 1] IN
        /\ readers' = IF Valid(line) THEN [readers EXCEPT ![line.name] = EntryOf(line)]
                                     ELSE readers
        /\ order' = IF Valid(line) THEN Append(order, line.name) ELSE order
    /\ pos' = pos + 1
    /\ UNCHANGED <<pc, file, image, stale, granted, crashes, edits>>

\* A valid line is the reader's entry from now on, in the place of its first line.
LoadLine ==
    /\ pc = "loading"
    /\ pos < Len(file)
    /\ LET line == file[pos + 1] IN
        /\ readers' = IF Valid(line) THEN [readers EXCEPT ![line.name] = EntryOf(line)]
                                     ELSE readers
        /\ order' = IF Valid(line) /\ readers[line.name] = None
                    THEN Append(order, line.name) ELSE order
    /\ pos' = pos + 1
    /\ UNCHANGED <<pc, file, image, stale, granted, crashes, edits>>

LoadDone ==
    /\ pc = "loading"
    /\ pos = Len(file)
    /\ pc' = "idle"
    /\ pos' = 0
    /\ UNCHANGED <<file, readers, order, image, stale, granted, crashes, edits>>

-------------------------------------------------------------------------------
(* Changing: append_reader, update_reader and the rewrite, persist. *)

\* Variant for mutation: the loop over order_ starts at its second name.
BeginPersistSkipsFirst(n) ==
    /\ pc' = "persisting"
    /\ pos' = 1
    /\ image' = [lines |-> file, name |-> n]
    /\ file' = <<>>
    /\ UNCHANGED <<stale, crashes>>

\* persist opens the file, which empties it; the lines follow one by one.  Nothing
\* looks at whether the file could be opened: then it stays as it is.
BeginPersist(n) ==
    \/ /\ pc' = "persisting"
       /\ pos' = 0
       /\ image' = [lines |-> file, name |-> n]
       /\ file' = <<>>
       /\ UNCHANGED <<stale, crashes>>
    \/ /\ DiskMayFail
       /\ crashes < MaxCrashes
       /\ crashes' = crashes + 1
       /\ stale' = TRUE
       /\ UNCHANGED <<pc, pos, image, file>>

\* Variant for mutation: a name that is registered already is taken as new.
AppendReaderTwice(n, e) ==
    /\ pc = "idle"
    /\ Cardinality(granted) < MaxGrants
    /\ readers' = [readers EXCEPT ![n] = e]
    /\ order' = Append(order, n)
    /\ granted' = granted \cup {<<n, e>>}
    /\ BeginPersist(n)
    /\ UNCHANGED edits

\* append_reader: an existing reader is never overwritten.
AppendReader(n, e) ==
    /\ pc = "idle"
    /\ Cardinality(granted) < MaxGrants
    /\ readers[n] = None
    /\ readers' = [readers EXCEPT ![n] = e]
    /\ order' = Append(order, n)
    /\ granted' = granted \cup {<<n, e>>}
    /\ BeginPersist(n)
    /\ UNCHANGED edits

\* update_reader: a new level and chapter list for an existing reader; the key stays.
UpdateReader(n, d) ==
    /\ pc = "idle"
    /\ Cardinality(granted) < MaxGrants
    /\ readers[n] # None
    /\ LET e == [readers[n] EXCEPT !.level = d.level, !.chapters = d.chapters] IN
        /\ readers' = [readers EXCEPT ![n] = e]
        /\ granted' = granted \cup {<<n, e>>}
    /\ BeginPersist(n)
    /\ UNCHANGED <<order, edits>>

\* Variant for mutation: every line is written for the reader that is being changed.
PersistLineWrongName ==
    /\ pc = "persisting"
    /\ pos < Len(order)
    /\ file' = Append(file, LineOf(order[pos + 1], readers[image.name]))
    /\ pos' = pos + 1
    /\ UNCHANGED <<pc, readers, order, image, stale, granted, crashes, edits>>

PersistLine ==
    /\ pc = "persisting"
    /\ pos < Len(order)
    /\ file' = Append(file, LineOf(order[pos + 1], readers[order[pos + 1]]))
    /\ pos' = pos + 1
    /\ UNCHANGED <<pc, readers, order, image, stale, granted, crashes, edits>>

\* The stream is closed; file and map agree again.
PersistDone ==
    /\ pc = "persisting"
    /\ pos = Len(order)
    /\ pc' = "idle"
    /\ pos' = 0
    /\ image' = NoImage
    /\ stale' = FALSE
    /\ UNCHANGED <<file, readers, order, granted, crashes, edits>>

-------------------------------------------------------------------------------
(* The world around it. *)

\* What a rewrite that does not come to its end leaves behind its last whole line.
WriteIsCut ==
    \/ UNCHANGED file
    \/ /\ pos < Len(order)
       /\ \E t \in TornLines(LineOf(order[pos + 1], readers[order[pos + 1]])) :
             file' = Append(file, t)

\* The process is gone, and its memory with it.
Stop ==
    /\ pc' = "down"
    /\ pos' = 0
    /\ readers' = Nobody
    /\ order' = <<>>
    /\ image' = NoImage
    /\ stale' = FALSE

\* The process dies, or the console window is closed.
Crash ==
    /\ pc # "down"
    /\ crashes < MaxCrashes
    /\ crashes' = crashes + 1
    /\ IF pc = "persisting" THEN WriteIsCut ELSE UNCHANGED file
    /\ Stop
    /\ UNCHANGED <<granted, edits>>

\* The disk is full: the stream drops the rest and nothing looks at its state.
DiskFull ==
    /\ DiskMayFail
    /\ pc = "persisting"
    /\ crashes < MaxCrashes
    /\ crashes' = crashes + 1
    /\ WriteIsCut
    /\ pc' = "idle"
    /\ pos' = 0
    /\ image' = NoImage
    /\ stale' = TRUE
    /\ UNCHANGED <<readers, order, granted, edits>>

\* "0) Exit".
Exit ==
    /\ pc = "idle"
    /\ Stop
    /\ UNCHANGED <<file, granted, crashes, edits>>

\* The writer adds or replaces a line with a text editor.
HandEdit ==
    /\ pc \in {"down", "idle"}
    /\ edits < MaxEdits
    /\ edits' = edits + 1
    /\ \E l \in HandLines :
        /\ \/ file' = Append(file, l)
           \/ \E i \in 1..Len(file) : file' = [file EXCEPT ![i] = l]
        /\ granted' = IF Valid(l) THEN granted \cup {<<l.name, EntryOf(l)>>} ELSE granted
    /\ stale' = (stale \/ pc = "idle")
    /\ UNCHANGED <<pc, pos, readers, order, image, crashes>>

Next ==
    \/ Start
    \/ LoadLine
    \/ LoadDone
    \/ \E n \in Names, e \in Grants : AppendReader(n, e)
    \/ \E n \in Names, d \in Details : UpdateReader(n, d)
    \/ PersistLine
    \/ PersistDone
    \/ Crash
    \/ DiskFull
    \/ Exit
    \/ HandEdit

Spec == Init /\ [][Next]_vars

-------------------------------------------------------------------------------
(* Properties. *)

\* Every variable has its type.
TypeOK ==
    /\ pc \in {"down", "loading", "idle", "persisting"}
    /\ pos \in Nat
    /\ file \in Seq(Line)
    /\ readers \in [Names -> Entry \cup {None}]
    /\ order \in Seq(Names)
    /\ image \in [lines : Seq(Line), name : Names \cup {None}]
    /\ stale \in BOOLEAN
    /\ granted \subseteq Names \X Entry
    /\ crashes \in 0..MaxCrashes
    /\ edits \in 0..MaxEdits

\* What a load of the first `k` lines of `f` makes of name `n`: the entry of its last
\* valid line, said without the loop.
Loaded(f, k, n) ==
    LET hits == {i \in 1..k : Valid(f[i]) /\ f[i].name = n} IN
    IF hits = {} THEN None ELSE EntryOf(f[CHOOSE i \in hits : \A j \in hits : j <= i])

\* The entry of `n`, when its line can be read back.
Readable(n) ==
    IF readers[n] = None \/ n \in Colons THEN None
    ELSE IF readers[n].key \in Colons THEN None
    ELSE readers[n]

\* order_ lists exactly the names of readers_, each once: persist, which walks order_,
\* neither loses a reader nor writes one twice, and all_readers misses nobody.
OrderMatchesReaders ==
    pc # "down" =>
        /\ \A i, j \in 1..Len(order) : order[i] = order[j] => i = j
        /\ \A n \in Names : readers[n] # None <=> \E i \in 1..Len(order) : order[i] = n

\* A reader's chapters always fit the level, also when the line was torn or typed by hand:
\* no Novice with two chapters or none, no Master with a list.
EntriesMatchLevel ==
    \A n \in Names :
        pc # "down" /\ readers[n] # None =>
            ChaptersMatchLevel(readers[n].level, readers[n].chapters)

\* Whatever loads, rewrites, restarts and crashes came before: when the program waits
\* for a command and the file was not touched behind its back, loading the file again
\* gives exactly the map in memory (names and keys without a colon).
MemoryMatchesFile ==
    pc = "idle" /\ ~stale =>
        \A n \in Names : Loaded(file, Len(file), n) = Readable(n)

\* A rewrite for one reader changes what the file grants to nobody else.
RewriteKeepsOthers ==
    pc = "persisting" /\ pos = Len(order) /\ ~stale =>
        \A n \in Names \ {image.name} :
            n \notin Colons =>
                Loaded(file, Len(file), n) = Loaded(image.lines, Len(image.lines), n)

\* Where an access comes from.  As long as no rewrite was broken off, every entry in memory
\* is, to the last chapter, one the writer gave this very reader, whatever was loaded,
\* repeated, edited and written again.  A rewrite that breaks off can do no more than take
\* digits: the entry keeps a key and a level that were given together, and each chapter is
\* one of that grant or what is left of its number.  So it can make a grant of chapter 1
\* out of one of chapter 12, and the next load takes it for one; the code does not see it.
GrantProvenance ==
    \A n \in Names :
        pc # "down" /\ readers[n] # None =>
            \/ <<n, readers[n]>> \in granted
            \/ /\ crashes # 0
               /\ \E g \in granted :
                    /\ g[1] = n
                    /\ g[2].key = readers[n].key
                    /\ g[2].level = readers[n].level
                    /\ \A c \in readers[n].chapters :
                            \E d \in g[2].chapters : c \in DigitPrefixes(d)

\* What a load of the file would give, or the map while the process holds it.
Directory ==
    IF pc \in {"idle", "persisting"} THEN readers
    ELSE [n \in Names |-> Loaded(file, Len(file), n)]

Abstract == INSTANCE ReaderDirectory WITH dir <- Directory, Entry <- Grants

\* Without crashes, failed writes, hand edits and colons the registry is a durable map:
\* a reader is registered once and never lost, its key never changes, and restarts are
\* not to be seen.
ImplementsDirectory == Abstract!Spec

===============================================================================
