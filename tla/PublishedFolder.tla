---------------------------- MODULE PublishedFolder ----------------------------
(***************************************************************************)
(* The writer's repository on GitHub, as one reader sees it: what the      *)
(* writer's program promises (ChapterPublishing) and the reader's program  *)
(* lives with (ReaderViewer).  One push may bring any number of changes.   *)
(***************************************************************************)
EXTENDS Readers

CONSTANTS
    NoFile,     \* there is no access.txt
    Garbled,    \* a chapter file that does not parse
    Answers     \* the levels and chapters the writer gives, a subset of Details

VARIABLES
    access,     \* the reader's line of access.txt, None if it has none
    files       \* the chapter files

\* The public key that the file's wrapped key for this reader was made for, if it has one,
\* and whether its ciphertext is the one its wrapped keys open.
ChapterFile == [key : Keys \cup {None}, intact : BOOLEAN]

IsRegistered == access \notin {NoFile, None}

WrappedFor(file) == IF file \in {None, Garbled} THEN None ELSE file.key

\* The keys that the folder has of this reader.
FolderKeys ==
    (IF IsRegistered THEN {access.key} ELSE {}) \cup
    ({WrappedFor(files[c]) : c \in Chapters} \ {None})

Init ==
    /\ access = NoFile
    /\ files = [c \in Chapters |-> None]

\* There is one key for the reader in all the folder, one of those the reader has `shown`.
KeysToUse(shown) == IF FolderKeys = {} THEN shown ELSE FolderKeys

FilesFor(keys) == [key : keys \cup {None}, intact : {TRUE}] \cup {Garbled}

\* A registered reader stays one, with the same key, at any level; a chapter that has a file
\* keeps having one.
Push(shown) ==
    /\ \/ access' = access
       \/ access = NoFile /\ access' = None
       \/ \E k \in KeysToUse(shown), d \in Answers :
            access' = [key |-> k, level |-> d.level, chapters |-> d.chapters]
    /\ files' \in [Chapters -> FilesFor(KeysToUse(shown)) \cup {files[c] : c \in Chapters}]
    /\ \A c \in Chapters : files'[c] \in FilesFor(KeysToUse(shown)) \cup {files[c]}
    /\ \A k, l \in FolderKeys' : k = l

Next == Push(Keys)

Spec == Init /\ [][Next]_<<access, files>>
===============================================================================
