----------------------------- MODULE ReaderViewer ------------------------------
(***************************************************************************)
(* The reader's program for one username: the local keypair                *)
(* (ReaderViewerService, DpapiPrivateKeyStore), the requests to GitHub     *)
(* (ChapterFetcher, HttpGitHubClient), and the menu over what they gave.   *)
(* The writer's published folder changes between any two requests.         *)
(***************************************************************************)
EXTENDS Readers

CONSTANTS
    NoFile,     \* access.txt does not exist in the writer's repository
    Garbled,    \* a chapter file that does not parse
    Answers,    \* the levels and chapters the writer gives
    Faults,     \* which of "network", "rate", "drop", "write", "lose", "damage" and "crash"
                \* may happen
    MaxFaults,  \* bound: faults in a behaviour
    MaxMoves    \* bound: changes of the writer's repository in a behaviour

ASSUME ViewerAssumption ==
    /\ Answers \subseteq Details
    /\ Faults \subseteq {"network", "rate", "drop", "write", "lose", "damage", "crash"}
    /\ MaxFaults \in Nat /\ MaxMoves \in Nat

VARIABLES
    pc,         \* where the program is
    stored,     \* the private key in the store, named by its public key
    key,        \* KeypairInfo of the session
    sent,       \* the public keys the program has shown, for the reader to send
    access,     \* remote: the reader's line of access.txt
    files,      \* remote: the chapter files
    entry,      \* the reader's line as the session fetched it
    todo,       \* candidates not fetched yet
    entries,    \* the chapters the menu lists
    readable_files,     \* the files of those it lists as readable
    told,       \* the last message
    clean,      \* history: every request of the session was answered in full
    lost,       \* history: a keypair could not be stored, or its file was lost
    moved,      \* history: the repository changed since the session began
    moves, faults       \* bounds

\* The repository, which the writer's program keeps.
Folder == INSTANCE PublishedFolder

ASSUME ContentsAssumption ==
    /\ None \notin Keys
    /\ NoFile \notin Entry \cup {None}
    /\ None # Garbled /\ {None, Garbled} \cap Folder!ChapterFile = {}

remote == <<access, files, moves>>
session == <<key, entry, todo, entries, readable_files>>
vars == <<pc, stored, sent, remote, session, told, clean, lost, moved,
          faults>>

NoChapters == [c \in Chapters |-> None]
Init ==
    /\ pc = "off"
    /\ stored = None /\ key = None /\ sent = {}
    /\ Folder!Init
    /\ entry = None /\ todo = {} /\ entries = {} /\ readable_files = NoChapters
    /\ told = "none"
    /\ clean = TRUE /\ lost = FALSE /\ moved = FALSE
    /\ moves = 0 /\ faults = 0

Fails(what) ==
    /\ what \in Faults
    /\ faults < MaxFaults
    /\ faults' = faults + 1

-------------------------------------------------------------------------------
(* The session begins. *)

\* BuddyShare.exe is started on an install with the reader's role.
Launch ==
    /\ pc = "off"
    /\ pc' = "start"
    /\ UNCHANGED <<stored, sent, remote, session, told, clean, lost, moved, faults>>

\* write_private_key_pem: nobody looks at whether the file could be written.  What cannot
\* be read back is no key: read_private_key_pem gives none for a missing, an empty and a
\* damaged file alike.
WriteKey(k) ==
    \/ stored' = k /\ UNCHANGED <<lost, faults>>
    \/ Fails("write") /\ lost' = TRUE /\ UNCHANGED stored

\* generate_rsa_keypair: no two runs of it make the same.
FreshKeys == Keys \ sent

\* Variant for mutation: a keypair of the last run is not looked for.
EnsureLocalKeypairAnew ==
    \E k \in FreshKeys : key' = k /\ sent' = sent \cup {k} /\ WriteKey(k)

\* ensure_local_keypair: the key in the store, or a new one, shown to the reader.
EnsureLocalKeypair ==
    \/ /\ stored # None
       /\ key' = stored
       /\ UNCHANGED <<stored, sent, lost, faults>>
    \/ /\ stored = None
       /\ \E k \in FreshKeys : key' = k /\ sent' = sent \cup {k} /\ WriteKey(k)

\* The reader answers the launch prompts; everything of the last session is gone.
Begin ==
    /\ pc = "start"
    /\ pc' = "access"
    /\ EnsureLocalKeypair
    /\ entry' = None /\ todo' = {} /\ entries' = {} /\ readable_files' = NoChapters
    /\ told' = "none"
    /\ clean' = TRUE /\ moved' = FALSE
    /\ UNCHANGED remote

-------------------------------------------------------------------------------
(* The requests. *)

\* How a request may go: answered, not answered, refused by the rate limit, or the
\* connection drops in the middle of the answer.
Reply(kind) ==
    /\ \/ kind = "ok" /\ UNCHANGED faults
       \/ kind # "ok" /\ Fails(kind)
    /\ clean' = (clean /\ kind = "ok")

\* get_contents: an answer that breaks off is a success with what came through.
GetContents(kind, present) ==
    CASE kind = "network"           -> "network_error"
      [] kind = "rate"              -> "rate_limited"
      [] kind = "drop" /\ present   -> "truncated"
      [] kind = "ok" /\ present     -> "exists"
      [] OTHER                      -> "not_found"

\* `continue`: a message, and the launch prompts again.
BackToStart(message) ==
    /\ pc' = "start"
    /\ told' = message
    /\ UNCHANGED <<key, entry, todo, entries, readable_files>>

\* Variant for mutation: nobody's candidates are taken from the listing.
TakeEntryUnlisted ==
    /\ entry' = access
    /\ pc' = "fetch"
    /\ todo' = access.chapters
    /\ UNCHANGED <<sent, told, key, entries, readable_files>>

\* The reader's line: of an Apprentice or a Novice it names the candidates.
TakeEntry ==
    /\ entry' = access
    /\ IF access.level = "Master" THEN pc' = "list" /\ UNCHANGED todo
                                  ELSE pc' = "fetch" /\ todo' = access.chapters
    /\ UNCHANGED <<sent, told, key, entries, readable_files>>

\* fetch_access_txt and find_by_name.  Of a broken answer no field is found, and the
\* registry that is made of the empty text knows nobody.
FetchAccess(kind) ==
    /\ pc = "access"
    /\ Reply(kind)
    /\ LET reply == GetContents(kind, access # NoFile) IN
        \/ /\ reply \in {"not_found", "network_error", "rate_limited"}
           /\ BackToStart(reply)
           /\ UNCHANGED sent
        \/ /\ reply = "truncated" \/ (reply = "exists" /\ access = None)
           /\ BackToStart("not_registered")
           /\ sent' = sent \cup {key}
        \/ /\ reply = "exists" /\ access # None
           /\ TakeEntry
    /\ UNCHANGED <<stored, remote, lost, moved>>

Published == {c \in Chapters : files[c] # None}

\* list_master_candidates: no folder, or no answer, and there are no candidates.
List(kind) ==
    /\ pc = "list"
    /\ Reply(kind)
    /\ LET reply == GetContents(kind, Published # {}) IN
        \/ reply = "rate_limited" /\ BackToStart(reply)
        \/ /\ reply # "rate_limited"
           /\ todo' \in CASE reply = "exists"    -> {Published}
                          [] reply = "truncated" -> (SUBSET Published) \ {Published}
                          [] OTHER               -> {{}}
           /\ pc' = "fetch"
           /\ UNCHANGED <<told, key, entry, entries, readable_files>>
    /\ UNCHANGED <<stored, sent, remote, lost, moved>>

\* A chapter goes into the menu, readable with `file` or pending.
Enter(c, file) ==
    /\ todo' = todo \ {c}
    /\ entries' = entries \cup {c}
    /\ readable_files' = [readable_files EXCEPT ![c] = file]
    /\ UNCHANGED <<pc, told, key, entry>>

Smallest(c, S) == c \in S /\ \A d \in S : c <= d

\* from_json takes a whole file only: all that a cut leaves is malformed.
Parses(file) == file \notin {None, Garbled}

\* Variant for mutation: a file that does not parse is taken as one that does.
FetchChapterUnparsed(kind) ==
    /\ pc = "fetch"
    /\ Reply(kind)
    /\ \E c \in todo :
        LET reply == GetContents(kind, files[c] # None) IN
        /\ Smallest(c, todo)
        /\ \/ reply = "rate_limited" /\ BackToStart(reply)
           \/ /\ reply # "rate_limited"
              /\ Enter(c, IF reply = "exists" /\ (files[c] = Garbled \/ files[c].key # None)
                          THEN files[c] ELSE None)
    /\ UNCHANGED <<stored, sent, remote, lost, moved>>

\* Variant for mutation: the reader's name is not looked for in the wrapped keys.
FetchChapterUnwrapped(kind) ==
    /\ pc = "fetch"
    /\ Reply(kind)
    /\ \E c \in todo :
        LET reply == GetContents(kind, files[c] # None) IN
        /\ Smallest(c, todo)
        /\ \/ reply = "rate_limited" /\ BackToStart(reply)
           \/ /\ reply # "rate_limited"
              /\ Enter(c, IF reply = "exists" /\ Parses(files[c]) THEN files[c] ELSE None)
    /\ UNCHANGED <<stored, sent, remote, lost, moved>>

\* try_fetch_chapter for the next candidate: only a file that parses and has a wrapped key
\* under the reader's name is readable; errors other than the rate limit mean pending.
FetchChapter(kind) ==
    /\ pc = "fetch"
    /\ Reply(kind)
    /\ \E c \in todo :
        LET reply == GetContents(kind, files[c] # None) IN
        /\ Smallest(c, todo)
        /\ \/ reply = "rate_limited" /\ BackToStart(reply)
           \/ /\ reply # "rate_limited"
              /\ Enter(c, IF reply = "exists" /\ Parses(files[c]) /\ files[c].key # None
                          THEN files[c] ELSE None)
    /\ UNCHANGED <<stored, sent, remote, lost, moved>>

\* The loop over the candidates ends.
MenuReady ==
    /\ pc = "fetch"
    /\ todo = {}
    /\ pc' = "menu"
    /\ UNCHANGED <<stored, sent, remote, session, told, clean, lost, moved, faults>>

-------------------------------------------------------------------------------
(* The menu. *)

\* ReaderMenu::is_selectable.
IsSelectable(c) == c \in entries /\ readable_files[c] # None

\* unwrap_key: only the private key of the public key that was used opens a wrapped key.
Unwraps(file) == stored # None /\ file.key = stored

\* decrypt: the authentication tag tells a ciphertext that is not the one that was made.
Authenticates(file) == file.intact

\* decrypt_chapter, on the file that was fetched for the menu and the key that is stored now.
DecryptChapter(file) ==
    IF file.key = None THEN "reader_not_wrapped"
    ELSE IF ~Unwraps(file) THEN "key_unwrap_failed"
    ELSE IF ~Authenticates(file) THEN "decryption_failed"
    ELSE "success"

\* "0" leaves; any other answer is a chapter to open, if the menu has it as readable.
Choose(n) ==
    /\ pc = "menu"
    /\ pc' = IF n = 0 THEN "off" ELSE "menu"
    /\ told' = IF n = 0 THEN "none"
               ELSE IF IsSelectable(n) THEN DecryptChapter(readable_files[n])
               ELSE "not_available"
    /\ UNCHANGED <<stored, sent, remote, session, clean, lost, moved, faults>>

\* The console window is closed.
Crash ==
    /\ pc # "off"
    /\ Fails("crash")
    /\ pc' = "off"
    /\ told' = "none"
    /\ UNCHANGED <<stored, sent, remote, session, clean, lost, moved>>

\* The key file is deleted, or the reader works under another Windows account.
LoseKey ==
    /\ Fails("lose")
    /\ stored # None
    /\ stored' = None
    /\ lost' = TRUE
    /\ UNCHANGED <<pc, sent, remote, session, told, clean, moved>>

-------------------------------------------------------------------------------
(* The repository. *)

Move ==
    /\ moves < MaxMoves
    /\ moves' = moves + 1
    /\ moved' = TRUE
    /\ UNCHANGED <<pc, stored, sent, session, told, clean, lost>>

\* The writer's program, which has the reader's key from a message the reader sent.
WriterPushes ==
    /\ Move
    /\ Folder!Push(sent)
    /\ <<access, files>>' # <<access, files>>
    /\ UNCHANGED faults

\* A chapter's ciphertext is changed: by a merge of two versions, or by hand.
DamageChapter(c) ==
    /\ Move
    /\ Fails("damage")
    /\ files[c] \notin {None, Garbled}
    /\ files' = [files EXCEPT ![c].intact = FALSE]
    /\ UNCHANGED access

Kinds == {"ok", "network", "rate", "drop"}

Fetching ==
    \/ \E kind \in Kinds : FetchAccess(kind)
    \/ \E kind \in Kinds : List(kind)
    \/ \E kind \in Kinds : FetchChapter(kind)
    \/ MenuReady

Next ==
    \/ Launch
    \/ Begin
    \/ Fetching
    \/ \E n \in Chapters \cup {0} : Choose(n)
    \/ Crash
    \/ LoseKey
    \/ WriterPushes
    \/ \E c \in Chapters : DamageChapter(c)

Spec == Init /\ [][Next]_vars

\* A session goes on by itself from the launch prompts' answers to the menu; whether the
\* reader starts one, or leaves it, is the reader's business.
FairSpec == Spec /\ WF_vars(Fetching)

-------------------------------------------------------------------------------
(* Properties. *)

\* Every variable has its type.
TypeOK ==
    /\ pc \in {"off", "start", "access", "list", "fetch", "menu"}
    /\ {stored, key} \subseteq Keys \cup {None}
    /\ sent \subseteq Keys
    /\ access \in Grants \cup {None, NoFile}
    /\ files \in [Chapters -> Folder!ChapterFile \cup {None, Garbled}]
    /\ entry \in Grants \cup {None}
    /\ {todo, entries} \subseteq SUBSET Chapters
    /\ readable_files \in [Chapters -> Folder!ChapterFile \cup {None}]
    /\ {clean, lost, moved} \subseteq BOOLEAN
    /\ moves \in Nat /\ faults \in Nat

\* specs/004 AC4: when the repository kept still and every request was answered, the menu
\* has as readable exactly the chapters that access.txt allows and whose file has a
\* wrapped key for the reader, and lists the other candidates as pending.
MenuIsExact ==
    pc = "menu" /\ clean /\ ~moved =>
        /\ \A c \in Chapters :
              IsSelectable(c) <=>
                  /\ Folder!IsRegistered /\ IsAuthorized(access, c)
                  /\ Parses(files[c]) /\ files[c].key # None
        /\ \A c \in Published : IsAuthorized(access, c) => c \in entries

\* Across all sessions, restarts and closed windows, however registration, edits,
\* encryptions and requests interleave: a chapter the menu called readable opens with the
\* reader's key when it is chosen, unless the key file was lost or could not be written.
ReadableDecrypts ==
    ~lost => told \notin {"key_unwrap_failed", "reader_not_wrapped"}

\* A chapter that stays published for the reader's key, and allowed, gets readable for a
\* reader who keeps asking, whatever became of the first requests.
PublishedGetsReadable ==
    \A c \in Chapters :
        /\ []<>(pc = "access")
        /\ <>[](/\ stored # None /\ Folder!IsRegistered /\ IsAuthorized(access, c)
                /\ files[c] = [key |-> stored, intact |-> TRUE])
        => []<>(/\ pc = "menu" /\ IsSelectable(c)
                /\ DecryptChapter(readable_files[c]) = "success")
===============================================================================
