------------------------------- MODULE Readers --------------------------------
(***************************************************************************)
(* Readers, access levels and what the writer may answer when asked for    *)
(* them: the data that the registry and the encryption service share.      *)
(***************************************************************************)
EXTENDS Integers

CONSTANTS
    Names,      \* display names of readers
    Keys,       \* public keys, as the writer pastes them
    Chapters,   \* the chapter numbers the writer uses
    None        \* "no such reader" (or file, or chapter)

ASSUME ChaptersAssumption == Chapters \subseteq Nat

Levels == {"Master", "Apprentice", "Novice"}

\* ReaderEntry without its name, which is the map's key.
Entry == [key : Keys, level : Levels, chapters : SUBSET Nat]

ASSUME NoneAssumption == None \notin Entry /\ None \notin Names /\ None \notin Chapters

\* chapters_match_level: a Master has no list, an Apprentice one, a Novice one chapter.
ChaptersMatchLevel(level, chapters) ==
    \/ level = "Master"     /\ chapters = {}
    \/ level = "Apprentice" /\ chapters # {}
    \/ level = "Novice"     /\ \E c \in chapters : chapters = {c}

\* What prompt_for_details can return: it asks again until the answer fits the level.
Details ==
    [level : {"Master"}, chapters : {{}}] \cup
    [level : {"Apprentice"}, chapters : (SUBSET Chapters) \ {{}}] \cup
    [level : {"Novice"}, chapters : {{c} : c \in Chapters}]

\* The entries register_reader can put together.
Grants == {[key |-> k, level |-> d.level, chapters |-> d.chapters] : k \in Keys, d \in Details}

\* is_authorized_for_chapter.
IsAuthorized(e, c) ==
    e.level = "Master" \/ c \in e.chapters
===============================================================================
