------------------------------ MODULE AccessFile ------------------------------
(***************************************************************************)
(* The line format of access.txt: `<name>:<key>:<level>:<chapters>`.       *)
(* A line is kept as the parts the parser looks at after splitting it at   *)
(* the colons; the text itself is not modelled.                            *)
(***************************************************************************)
EXTENDS Readers, FiniteSets

CONSTANT
    Colons      \* the names and keys that contain a ':'

\* A chapter token of a line that is not all digits, or too large for an int.
BadNumber == -1

\* A line of the file.  Four fields after the split means that no field holds a colon.
Line ==
    {l \in [fields   : Nat,
            name     : Names,
            key      : Keys,
            level    : Levels \cup {"?"},
            chapters : SUBSET (Nat \cup {BadNumber})] :
        l.fields = 4 => l.name \notin Colons /\ l.key \notin Colons}

-------------------------------------------------------------------------------
\* Variant for mutation: the level is not compared with the chapter list.
ValidAnyChapters(l) ==
    l.fields = 4 /\ l.level \in Levels /\ BadNumber \notin l.chapters

\* Variant for mutation: the level field is taken as it is.
ValidAnyLevel(l) ==
    /\ l.fields = 4
    /\ BadNumber \notin l.chapters
    /\ ChaptersMatchLevel(l.level, l.chapters) \/ l.level = "?"

\* The four checks a line passes to become a reader; any other line is skipped.
Valid(l) ==
    /\ l.fields = 4
    /\ l.level \in Levels
    /\ BadNumber \notin l.chapters
    /\ ChaptersMatchLevel(l.level, l.chapters)

EntryOf(l) == [key |-> l.key, level |-> l.level, chapters |-> l.chapters]

\* The line persist() writes.  A colon inside the name or the key is not escaped:
\* the next load sees (at least) one field too many.
LineOf(n, e) ==
    LET split == n \in Colons \/ e.key \in Colons IN
    [fields   |-> IF split THEN 5 ELSE 4,
     name     |-> n,
     key      |-> e.key,
     level    |-> IF split THEN "?" ELSE e.level,
     chapters |-> e.chapters]

\* What a load makes of a line, and of the line that was written for entry `e` of `n`.
Read(l) == IF Valid(l) THEN EntryOf(l) ELSE None

Reread(n, e) == IF e = None THEN None ELSE Read(LineOf(n, e))

\* What a load makes of the file that was written for the map `access`.
Saved(access) == [n \in Names |-> Reread(n, access[n])]

-------------------------------------------------------------------------------
\* `c` with its last digits missing; an int has at most ten of them.
PowersOfTen == {10, 100, 1000, 10000, 100000, 1000000, 10000000, 100000000, 1000000000}
DigitPrefixes(c) == {c} \cup {c \div w : w \in {v \in PowersOfTen : v <= c}}

\* What may be left of the sorted, comma separated list of `C` when its tail is
\* missing: a cut at a comma, just behind one (an empty token), or inside a number.
CutChapters(C) ==
    LET before(c) == {d \in C : d < c} IN
    {C} \cup UNION {{before(c)}
                    \cup (IF before(c) = {} THEN {} ELSE {before(c) \cup {BadNumber}})
                    \cup {before(c) \cup {d} : d \in DigitPrefixes(c)} : c \in C}

\* What may be on disk of line `l` when the process dies while writing it: fewer
\* fields, or all of them with a cut chapter list.  A line with a colon too many
\* stays invalid.
TornLines(l) ==
    {[l EXCEPT !.fields = k] : k \in 1..3} \cup
    (IF l.fields = 4 THEN {[l EXCEPT !.chapters = C] : C \in CutChapters(l.chapters)} ELSE {})

\* What a load makes of the file when only the lines of these readers were written, and when
\* one more line is torn.
Written(access, readers) ==
    [n \in Names |-> IF n \in readers THEN Reread(n, access[n]) ELSE None]

TornAt(access, readers, n) ==
    {[Written(access, readers) EXCEPT ![n] = Read(t)] : t \in TornLines(LineOf(n, access[n]))}

\* What a load makes of the file when the rewrite for `access` is broken off.  The order of the
\* lines is not kept in a map: those of any readers may be the first.
CutShort(access) ==
    LET listed == {n \in Names : access[n] # None} IN
    UNION {{Written(access, R)} \cup UNION {TornAt(access, R, n) : n \in listed \ R} :
           R \in SUBSET listed}
===============================================================================
