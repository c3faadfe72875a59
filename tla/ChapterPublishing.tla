-------------------------- MODULE ChapterPublishing ---------------------------
(***************************************************************************)
(* The writer's working loop after the bootstrap: "Manage reader access"   *)
(* (ReaderAccessController) and "Encrypt a chapter"                        *)
(* (ChapterEncryptionService) on the registry in memory, the files on disk *)
(* and the git repository.  Of access.txt this module keeps what a load    *)
(* makes of it (AccessFile): a rewrite that comes to its end is one step   *)
(* here, and one that is broken off leaves a part of the file.  The lines  *)
(* one by one are AccessRegistry's concern.                                *)
(***************************************************************************)
EXTENDS AccessFile, GitRepo

CONSTANTS
    AccessTxt,      \* the path of access.txt; the other paths are chapter numbers
    Garbled,        \* a chapter file that does not parse
    NoFile,         \* access.txt as a reader sees it before anybody is registered
    GoodKeys,       \* the keys that parse as RSA public keys
    Offers,         \* the entries the writer may ask for
    Faults,         \* which of "add", "commit", "push", "write" and "crash" may happen
    MaxFaults,      \* bound: faults in a behaviour
    MaxCommands,    \* bound: menu commands in a behaviour
    MaxEdits        \* bound: hand edits of access.txt in a behaviour

ASSUME PublishingAssumption ==
    /\ GoodKeys \subseteq Keys
    /\ Offers \subseteq Grants
    /\ Faults \subseteq {"add", "commit", "push", "write", "crash"}
    /\ AccessTxt \notin Chapters
    /\ \A c \in Chapters : c <= 2147483647      \* a chapter number is an int
    /\ MaxFaults \in Nat /\ MaxCommands \in Nat /\ MaxEdits \in Nat

Paths == {AccessTxt} \cup Chapters

\* access.txt as a load reads it, and a chapter file: the encryption that made it (fresh
\* salt, IV and key) and the wrapped keys, by reader and public key.
Access == [Names -> Entry \cup {None}]
ChapterFile == [id : Nat, wraps : SUBSET (Names \X Keys)]

ASSUME ContentsAssumption ==
    None # Garbled /\ {None, Garbled} \cap ChapterFile = {} /\ None \notin Access

\* The working folder, the index or a commit.
Tree == [Paths -> Access \cup ChapterFile \cup {None, Garbled}]

VARIABLES
    pc,         \* where the program is
    job,        \* the git sequence in progress: "register", "edit" or "encrypt"
    chapter,    \* chapter_number of the encryption in progress or just ended
    registry,   \* registry_: the entries in memory
    disk,       \* the working folder
    git,        \* index, head and remote
    origin,     \* whether `git remote get-url origin` succeeds
    skipped,    \* any_reader_skipped
    result,     \* the outcome of the last command
    granted,    \* history: every <<name, key, chapter>> the writer ever allowed
    unwritten,  \* history: a file could not be written, or only in part
    cut,        \* history: a rewrite of access.txt was broken off
    commands, faults, edits     \* bounds

history == <<granted, unwritten, cut>>
vars == <<pc, job, chapter, registry, disk, git, origin, skipped, result, history,
          commands, faults, edits>>

\* What entry `e` of reader `n` allows.
Rights(n, e) == {<<n, e.key, c>> : c \in {d \in Chapters : IsAuthorized(e, d)}}

Nobody == [n \in Names |-> None]
EmptyFolder == [p \in Paths |-> None]

\* The registry that a load makes of this tree's access.txt; a missing file has nobody.
RegistryOf(tree) == IF tree[AccessTxt] = None THEN Nobody ELSE tree[AccessTxt]

Init ==
    /\ pc = "off"
    /\ job = "edit"
    /\ chapter = None
    /\ registry = Nobody
    /\ disk = EmptyFolder
    /\ git = Clone(EmptyFolder)
    /\ origin \in BOOLEAN
    /\ skipped = FALSE
    /\ result = "none"
    /\ granted = {} /\ unwritten = FALSE /\ cut = FALSE
    /\ commands = 0 /\ faults = 0 /\ edits = 0

Fails(what) ==
    /\ what \in Faults
    /\ faults < MaxFaults
    /\ faults' = faults + 1

\* wrap_key throws for text that is no RSA public key.
CanWrap(k) == k \in GoodKeys

\* derive_key and encrypt draw salt and IV at random: no two encryptions are the same.
FreshId == commands

-------------------------------------------------------------------------------
(* The menu. *)

\* Variant for mutation: the loading of access.txt is forgotten.
LaunchUnloaded ==
    /\ pc = "off"
    /\ pc' = "menu"
    /\ registry' = Nobody
    /\ UNCHANGED <<job, chapter, disk, git, origin, skipped, result, history, commands,
                   faults, edits>>

\* run_writer_menu loads the registry once, before its loop.
Launch ==
    /\ pc = "off"
    /\ pc' = "menu"
    /\ registry' = RegistryOf(disk)
    /\ UNCHANGED <<job, chapter, disk, git, origin, skipped, result, history, commands,
                   faults, edits>>

Command ==
    /\ pc = "menu"
    /\ commands < MaxCommands
    /\ commands' = commands + 1
    /\ UNCHANGED <<git, origin, edits>>

\* The two early returns of encrypt_chapter; the caller drops the result.
EncryptRefused ==
    /\ Command
    /\ \/ ~origin /\ result' = "not_bootstrapped"
       \/ origin /\ result' = "plaintext_not_found"
    /\ UNCHANGED <<pc, job, chapter, registry, disk, skipped, history, faults>>

EncryptBegin(c) ==
    /\ Command
    /\ origin
    /\ pc' = "ask"
    /\ chapter' = c
    /\ skipped' = FALSE
    /\ result' = "none"
    /\ UNCHANGED <<job, registry, disk, history, faults>>

\* Variant for mutation: the public key is not copied into the new entry.
SetReaderWithoutKey(n, e) ==
    /\ registry' = [registry EXCEPT ![n] = [e EXCEPT !.key = None]]
    /\ granted' = granted \cup Rights(n, e)
    /\ pc' = "persist"
    /\ UNCHANGED <<disk, unwritten, cut, faults>>

\* append_reader or update_reader, up to the rewrite of access.txt.
SetReader(n, e) ==
    /\ registry' = [registry EXCEPT ![n] = e]
    /\ granted' = granted \cup Rights(n, e)
    /\ pc' = "persist"
    /\ UNCHANGED <<disk, unwritten, cut, faults>>

\* A rewrite of access.txt that does not come to its end.
RewriteIsCut ==
    /\ \E access \in CutShort(registry) : disk' = [disk EXCEPT ![AccessTxt] = access]
    /\ cut' = TRUE

\* Variant for mutation: the file is left for a later rewrite.
PersistLater ==
    /\ pc = "persist"
    /\ pc' = "add"
    /\ UNCHANGED <<job, chapter, registry, disk, git, origin, skipped, result, history,
                   commands, faults, edits>>

\* persist: the file is opened, which empties it, and written line by line; what follows is
\* add, commit and push.  Nothing looks at whether it could be opened, or written to the end.
Persist ==
    /\ pc = "persist"
    /\ pc' = "add"
    /\ \/ /\ disk' = [disk EXCEPT ![AccessTxt] = Saved(registry)]
          /\ UNCHANGED <<unwritten, cut, faults>>
       \/ /\ Fails("write")
          /\ unwritten' = TRUE
          /\ RewriteIsCut \/ UNCHANGED <<disk, cut>>
    /\ UNCHANGED <<job, chapter, registry, git, origin, skipped, result, granted, commands,
                   edits>>

\* edit_existing_reader: unknown names are refused, aloud.
EditRefused(n) ==
    /\ Command
    /\ registry[n] = None
    /\ result' = "not_registered"
    /\ UNCHANGED <<pc, job, chapter, registry, disk, skipped, history, faults>>

\* Variant for mutation: an edit takes the key that comes with the answers.
EditReaderAndKey(n, o) ==
    /\ Command
    /\ registry[n] # None
    /\ SetReader(n, o)
    /\ job' = "edit"
    /\ result' = "none"
    /\ UNCHANGED <<chapter, skipped>>

EditReader(n, o) ==
    /\ Command
    /\ registry[n] # None
    /\ SetReader(n, [o EXCEPT !.key = registry[n].key])
    /\ job' = "edit"
    /\ result' = "none"
    /\ UNCHANGED <<chapter, skipped>>

-------------------------------------------------------------------------------
(* encrypt_chapter from "Add a reader? (y/n)" on. *)

\* No, or a name that append_reader refuses: the encryption goes on.
NoNewReader ==
    /\ pc = "ask"
    /\ pc' = "wrap"
    /\ UNCHANGED <<job, chapter, registry, disk, git, origin, skipped, result, history,
                   commands, faults, edits>>

RegisterReader(n, o) ==
    /\ pc = "ask"
    /\ registry[n] = None
    /\ SetReader(n, o)
    /\ job' = "register"
    /\ UNCHANGED <<chapter, git, origin, skipped, result, commands, edits>>

\* Writing a chapter file.  When it cannot be opened or the disk is full, the program goes on
\* all the same, with the old file or the half of the new one.
WriteChapter(content) ==
    \/ disk' = [disk EXCEPT ![chapter] = content] /\ UNCHANGED <<unwritten, faults>>
    \/ /\ Fails("write")
       /\ unwritten' = TRUE
       /\ disk' \in {disk, [disk EXCEPT ![chapter] = Garbled]}

\* Variant for mutation: the authorization is not asked for.
WrapKeysForAll ==
    /\ pc = "wrap"
    /\ LET readers == {n \in Names : registry[n] # None}
           good == {n \in readers : CanWrap(registry[n].key)} IN
        /\ WriteChapter([id |-> FreshId, wraps |-> {<<n, registry[n].key>> : n \in good}])
        /\ skipped' = (good # readers)
    /\ job' = "encrypt"
    /\ pc' = "add"
    /\ UNCHANGED <<chapter, registry, git, origin, result, granted, cut, commands, edits>>

\* A fresh content key, wrapped for every authorized reader whose key parses, and the
\* chapter's file written.
WrapKeys ==
    /\ pc = "wrap"
    /\ LET readers == {n \in Names : registry[n] # None /\ IsAuthorized(registry[n], chapter)}
           good == {n \in readers : CanWrap(registry[n].key)} IN
        /\ WriteChapter([id |-> FreshId, wraps |-> {<<n, registry[n].key>> : n \in good}])
        /\ skipped' = (good # readers)
    /\ job' = "encrypt"
    /\ pc' = "add"
    /\ UNCHANGED <<chapter, registry, git, origin, result, granted, cut, commands, edits>>

-------------------------------------------------------------------------------
(* The git sequence of all three jobs; only push's exit code is looked at. *)

\* Variant for mutation: every job adds access.txt.
JobPathAccess == AccessTxt

JobPath == IF job = "encrypt" THEN chapter ELSE AccessTxt

\* Variant for mutation: `git add .`, as the bootstrap does.
GitAddAll ==
    /\ pc = "add"
    /\ pc' = "commit"
    /\ git' = [git EXCEPT !.index = disk]
    /\ UNCHANGED <<job, chapter, registry, disk, origin, skipped, result, history, commands,
                   faults, edits>>

\* Variant for mutation: the change to access.txt is not staged.
GitAddChapterOnly ==
    /\ pc = "add"
    /\ pc' = "commit"
    /\ git' = IF job = "encrypt" THEN Add(git, chapter, disk) ELSE git
    /\ UNCHANGED <<job, chapter, registry, disk, origin, skipped, result, history, commands,
                   faults, edits>>

GitAdd ==
    /\ pc = "add"
    /\ pc' = "commit"
    /\ \/ git' = Add(git, JobPath, disk) /\ UNCHANGED faults
       \/ Fails("add") /\ UNCHANGED git
    /\ UNCHANGED <<job, chapter, registry, disk, origin, skipped, result, history, commands,
                   edits>>

\* Its exit code is not looked at.
GitCommit ==
    /\ pc = "commit"
    /\ pc' = "push"
    /\ \/ git' = Commit(git) /\ UNCHANGED faults
       \/ Fails("commit") /\ UNCHANGED git
    /\ UNCHANGED <<job, chapter, registry, disk, origin, skipped, result, history, commands,
                   edits>>

\* What encrypt_chapter returns and prints once the push is over.
Report(pushed) ==
    IF job = "encrypt"
    THEN result' = IF ~pushed THEN "push_failed"
                   ELSE IF skipped THEN "some_readers_skipped" ELSE "success"
    ELSE UNCHANGED result

\* Variant for mutation: the exit code of push is ignored, as those of add and commit are.
GitPushUnchecked ==
    /\ pc = "push"
    /\ pc' = IF job = "register" THEN "wrap" ELSE "menu"
    /\ \/ origin /\ git' = Push(git) /\ UNCHANGED faults
       \/ ~origin /\ UNCHANGED <<git, faults>>
       \/ Fails("push") /\ UNCHANGED git
    /\ Report(TRUE)
    /\ UNCHANGED <<job, chapter, registry, disk, origin, skipped, history, commands, edits>>

\* The push; a failed one is reported, and a registration goes on with its encryption.  A
\* push whose answer does not come through counts as failed, though GitHub has it all.
GitPush ==
    /\ pc = "push"
    /\ pc' = IF job = "register" THEN "wrap" ELSE "menu"
    /\ \/ origin /\ git' = Push(git) /\ Report(TRUE) /\ UNCHANGED faults
       \/ ~origin /\ UNCHANGED <<git, faults>> /\ Report(FALSE)
       \/ origin /\ Fails("push") /\ git' \in {git, Push(git)} /\ Report(FALSE)
    /\ UNCHANGED <<job, chapter, registry, disk, origin, skipped, history, commands, edits>>

-------------------------------------------------------------------------------
(* The world around it. *)

\* "run `git push` manually", as the messages ask the writer to.
ManualPush ==
    /\ pc \in {"off", "menu"}
    /\ origin
    /\ git' = Push(git)
    /\ UNCHANGED <<pc, job, chapter, registry, disk, origin, skipped, result, history,
                   commands, faults, edits>>

\* The writer edits, adds or removes a line of access.txt while the program waits at its
\* menu or is not running.
HandEdit ==
    /\ pc \in {"off", "menu"}
    /\ edits < MaxEdits
    /\ edits' = edits + 1
    /\ \E n \in Names, e \in Offers \cup {None} :
        /\ disk' = [disk EXCEPT ![AccessTxt] = [RegistryOf(disk) EXCEPT ![n] = Reread(n, e)]]
        /\ granted' = granted \cup (IF e = None THEN {} ELSE Rights(n, e))
    /\ UNCHANGED <<pc, job, chapter, registry, git, origin, skipped, result, unwritten, cut,
                   commands, faults>>

\* The process dies; the file that it is writing may be left in part.
Crash ==
    /\ pc # "off"
    /\ Fails("crash")
    /\ pc' = "off"
    /\ \/ UNCHANGED <<disk, cut>>
       \/ pc = "persist" /\ RewriteIsCut
       \/ pc = "wrap" /\ disk' = [disk EXCEPT ![chapter] = Garbled] /\ UNCHANGED cut
    /\ result' = "none"
    /\ UNCHANGED <<job, chapter, registry, git, origin, skipped, granted, unwritten, commands,
                   edits>>

Exit ==
    /\ pc = "menu"
    /\ pc' = "off"
    /\ result' = "none"
    /\ UNCHANGED <<job, chapter, registry, disk, git, origin, skipped, history, commands,
                   faults, edits>>

Working ==
    \/ NoNewReader
    \/ \E n \in Names, o \in Offers : RegisterReader(n, o)
    \/ Persist
    \/ WrapKeys
    \/ GitAdd
    \/ GitCommit
    \/ GitPush

Next ==
    \/ Launch
    \/ EncryptRefused
    \/ \E c \in Chapters : EncryptBegin(c)
    \/ \E n \in Names : EditRefused(n)
    \/ \E n \in Names, o \in Offers : EditReader(n, o)
    \/ Working
    \/ ManualPush
    \/ HandEdit
    \/ Crash
    \/ Exit

\* The program does not wait between the steps of a command, and the writer answers its
\* questions.
Fairness == WF_vars(Working)

Spec == Init /\ [][Next]_vars
FairSpec == Spec /\ Fairness

-------------------------------------------------------------------------------
(* Properties. *)

\* Every variable has its type.
TypeOK ==
    /\ pc \in {"off", "menu", "ask", "persist", "wrap", "add", "commit", "push"}
    /\ job \in {"register", "edit", "encrypt"}
    /\ chapter \in Chapters \cup {None}
    /\ registry \in Access
    /\ git \in [index : Tree, head : Tree, remote : Tree]
    /\ disk \in Tree
    /\ \A tree \in {disk, git.index, git.head, git.remote} :
          /\ tree[AccessTxt] \in Access \cup {None}
          /\ \A c \in Chapters : tree[c] \in ChapterFile \cup {None, Garbled}
    /\ {origin, skipped, unwritten, cut} \subseteq BOOLEAN
    /\ result \in
          {"none", "not_bootstrapped", "plaintext_not_found", "not_registered", "success",
           "some_readers_skipped", "push_failed"}
    /\ granted \subseteq Names \X Keys \X Chapters
    /\ commands \in Nat /\ faults \in Nat /\ edits \in Nat

IsChapter(content) == content # None /\ content # Garbled

\* No sequence of commands, hand edits, failures and restarts makes a chapter file with a
\* key for a reader who was never allowed to open that chapter with that public key; with
\* one exception that the code has.  A rewrite of access.txt that is broken off may leave a
\* grant of chapter 12 as one of chapter 1: from then on a key may also be wrapped for a
\* reader who was allowed a chapter whose number begins with the digits of this one.
NoUngrantedWrap ==
    \A tree \in {disk, git.remote}, c \in Chapters :
        IsChapter(tree[c]) => \A w \in tree[c].wraps :
            \/ <<w[1], w[2], c>> \in granted
            \/ cut /\ \E d \in Chapters :
                        c \in DigitPrefixes(d) /\ <<w[1], w[2], d>> \in granted

\* The wrapped keys of a file whose reader and key can be read back from a line of access.txt.
\* A ':' is not escaped: with one in the name or the key the line is skipped by every load,
\* though the program that wrote it goes on with the entry in its memory.
PlainWraps(file) == {w \in file.wraps : w[1] \notin Colons /\ w[2] \notin Colons}

\* specs/003 AC4: a new chapter file has wrapped keys for exactly the readers (with a key
\* that parses) whom access.txt, as it can be read from the disk when the file is written,
\* authorizes: the map and the file have parted neither in a rewrite nor in a crash in the
\* middle of one.  Names and keys with a colon are the exception.
WrapsFollowAccessFile ==
    ~unwritten /\ edits = 0 /\ pc = "add" /\ job = "encrypt" =>
        PlainWraps(disk[chapter]) =
            {w \in (Names \ Colons) \X (GoodKeys \ Colons) :
                LET e == RegistryOf(disk)[w[1]] IN
                e # None /\ e.key = w[2] /\ IsAuthorized(e, chapter)}

\* Every reader of a published chapter, but for the colons, is listed in this tree's
\* access.txt with the very key that was used.
ListsTheReaders(tree) ==
    \A c \in Chapters : IsChapter(git.remote[c]) =>
        \A w \in PlainWraps(git.remote[c]) :
            RegistryOf(tree)[w[1]] # None /\ RegistryOf(tree)[w[1]].key = w[2]

\* The readers of a published chapter are listed in the published access.txt: it is pushed
\* before the chapters that rely on it, also when its own push failed and the chapter's push
\* carries it along.
WrappedReadersAreListed == ListsTheReaders(git.remote)

\* Whatever git commands fail and wherever the program is closed, but in the middle of a
\* rewrite of access.txt: the writer's own access.txt has every reader of a published
\* chapter, so that the next commit of it makes up for what was not committed.  A rewrite
\* that is broken off or fails may lose readers, and nothing in the code brings them back.
WrappedReadersAreOnDisk == ~unwritten /\ ~cut /\ edits = 0 => ListsTheReaders(disk)

\* The repository on GitHub as reader n sees it.
SeenFile(n, file) ==
    IF ~IsChapter(file) THEN file
    ELSE LET keys == {w[2] : w \in {v \in file.wraps : v[1] = n}} IN
         [key |-> IF keys = {} THEN None ELSE CHOOSE k \in keys : TRUE, intact |-> TRUE]

SeenAccess(n) ==
    IF git.remote[AccessTxt] = None THEN NoFile ELSE git.remote[AccessTxt][n]

Folder(n) ==
    INSTANCE PublishedFolder WITH
        access <- SeenAccess(n),
        files <- [c \in Chapters |-> SeenFile(n, git.remote[c])],
        Answers <- Details

\* Reader n has a line that can be read back, with every key that was granted.
IsPlain(n) == n \notin Colons /\ \A g \in granted : g[1] = n => g[2] \notin Colons

\* What a reader's program may count on (PublishedFolder), whatever git command fails and
\* wherever the program is closed but in the middle of a rewrite of access.txt: a registered
\* reader stays registered with the same key, and all that is ever published for a reader is
\* for one key.  A reader with a colon in the name or the key is not covered: after a restart
\* the registry does not know him, and takes him again with another key.
ImplementsPublishedFolder ==
    /\ \A n \in Names : Folder(n)!Init
    /\ [][~unwritten /\ ~cut /\ edits = 0 =>
            \A n \in Names : IsPlain(n) => Folder(n)!Push(Keys)]_git

\* ChapterEncryptionService.h:21 "readers cannot see this chapter yet (bugfix: this must
\* never be reported as success)": after a reported success the remote has the file that
\* this very command made.
SuccessIsPublished ==
    pc = "menu" /\ result \in {"success", "some_readers_skipped"} =>
        IsChapter(git.remote[chapter]) /\ git.remote[chapter].id = commands

\* A crash while a chapter file is written publishes nothing of it, whatever commands,
\* failures of git and restarts follow: it is not staged before the chapter was encrypted
\* again.  This needs every later file to be written; nothing in the code makes sure.
NoHalfFilePublished ==
    ~unwritten => \A c \in Chapters : git.remote[c] # Garbled

\* A chapter whose push failed gets to the readers by the push the message asks for,
\* whatever the writer does in between, or a newer version of it does.  That the writer
\* does push by hand is a premise: nothing in the code makes up for a failed push.
FailedPushIsMadeUp ==
    SF_vars(ManualPush) => \A i \in 1..MaxCommands, c \in Chapters :
        (/\ pc = "menu" /\ result = "push_failed" /\ origin
         /\ chapter = c /\ commands = i)
            ~> (IsChapter(git.remote[c]) /\ git.remote[c].id >= i)
===============================================================================
