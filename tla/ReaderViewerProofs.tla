-------------------------- MODULE ReaderViewerProofs ---------------------------
(***************************************************************************)
(* Theorems about ReaderViewer, for all keys, chapters and answers of the  *)
(* writer, and every number of changes of the repository and of faults.    *)
(***************************************************************************)
EXTENDS ReaderViewer, TLAPS

\* A session works with a key, and with that of the key file as long as it is not lost.
SessionKey ==
    pc \in {"access", "list", "fetch", "menu"} => key # None /\ (~lost => key = stored)

\* ... and that key is the only one that was sent, that the folder has of this reader, and
\* that the files of the menu are for.
OneKey ==
    ~lost =>
        /\ sent \subseteq {stored}
        /\ Folder!FolderKeys \subseteq sent
        /\ \A c \in Chapters : readable_files[c] # None =>
                readable_files[c].key = stored /\ stored # None

\* Before the candidates are known the menu is empty.
Fresh == pc \in {"access", "list"} => todo = {} /\ entries = {}

\* What the menu has of a chapter, when its file was as it is now.
Shown(c) == IF Parses(files[c]) /\ files[c].key # None THEN files[c] ELSE None

Candidates == IF access.level = "Master" THEN Published ELSE access.chapters

\* A session that was answered in full, of a repository that kept still, knows the entry
\* from the request for access.txt on; what is fetched and what is to be fetched are the
\* candidates, and what is fetched is as it is in the repository.
SessionIsExact ==
    clean /\ ~moved =>
        /\ pc \in {"list", "fetch", "menu"} => Folder!IsRegistered
        /\ pc = "list" => access.level = "Master"
        /\ pc \in {"fetch", "menu"} => todo \cup entries = Candidates
        /\ pc = "menu" => todo = {}
        /\ pc \in {"fetch", "menu"} => \A c \in entries : readable_files[c] = Shown(c)

IInv ==
    /\ TypeOK
    /\ SessionKey
    /\ OneKey
    /\ Fresh
    /\ SessionIsExact
    /\ ReadableDecrypts

\* The grants and the chapter files that there may be.
LEMMA ConstantFacts ==
    /\ Grants \subseteq Entry
    /\ \A g \in Grants : /\ g.key \in Keys /\ g.key # None
                         /\ g.chapters \subseteq Chapters /\ g # None /\ g # NoFile
                         /\ g.level = "Master" => g.chapters = {}
    /\ \A f \in Folder!ChapterFile : f # None /\ f # Garbled /\ f.key \in Keys \cup {None}
    /\ None \notin Keys /\ None # Garbled /\ NoFile # None
  <1>1. \A d \in Details : /\ d.level \in Levels /\ d.chapters \in SUBSET Chapters
                           /\ d.level = "Master" => d.chapters = {}
    BY DEF Details, Levels
  <1>2. ASSUME NEW g \in Grants
        PROVE  /\ g \in Entry /\ g.key \in Keys /\ g.chapters \subseteq Chapters
               /\ g.level = "Master" => g.chapters = {}
    <2>1. PICK k \in Keys, d \in Details :
              g = [key |-> k, level |-> d.level, chapters |-> d.chapters]
      BY DEF Grants
    <2>2. /\ d.level \in Levels /\ d.chapters \in SUBSET Chapters
          /\ d.level = "Master" => d.chapters = {}
      BY <1>1
    <2>3. d.chapters \in SUBSET Nat
      BY <2>2, ChaptersAssumption
    <2> QED
      BY <2>1, <2>2, <2>3 DEF Entry
  <1>3. \A f \in Folder!ChapterFile : f # None /\ f # Garbled /\ f.key \in Keys \cup {None}
    BY ContentsAssumption DEF Folder!ChapterFile
  <1> QED
    BY <1>2, <1>3, NoneAssumption, ContentsAssumption

\* The keys of the folder, without the case distinction.
LEMMA FolderKeysFacts ==
    ASSUME TypeOK
    PROVE  \A k : k \in Folder!FolderKeys <=>
                \/ access \in Grants /\ k = access.key
                \/ \E c \in Chapters : /\ files[c] \in Folder!ChapterFile
                                       /\ files[c].key # None /\ k = files[c].key
  <1>1. /\ access \in Grants \cup {None, NoFile}
        /\ \A c \in Chapters : files[c] \in Folder!ChapterFile \cup {None, Garbled}
    BY DEF TypeOK
  <1>2. Folder!IsRegistered <=> access \in Grants
    BY <1>1, ConstantFacts DEF Folder!IsRegistered
  <1>3. ASSUME NEW c \in Chapters
        PROVE  Folder!WrappedFor(files[c]) =
                  IF files[c] \in Folder!ChapterFile THEN files[c].key ELSE None
    BY <1>1, ConstantFacts DEF Folder!WrappedFor
  <1>4. \A k : k \in Folder!FolderKeys <=>
              \/ Folder!IsRegistered /\ k = access.key
              \/ k # None /\ \E c \in Chapters : k = Folder!WrappedFor(files[c])
    BY DEF Folder!FolderKeys
  <1> QED
    BY <1>2, <1>3, <1>4

\* The keys of a changed folder are those of its access.txt and of its chapter files.
LEMMA FolderKeysAfter ==
    ASSUME access' \in Grants \cup {None, NoFile},
           files' \in [Chapters -> Folder!ChapterFile \cup {None, Garbled}]
    PROVE  \A k : k \in Folder!FolderKeys' =>
                \/ access' \in Grants /\ k = access'.key
                \/ \E c \in Chapters : /\ files'[c] \in Folder!ChapterFile
                                       /\ files'[c].key # None /\ k = files'[c].key
  <1>1. Folder!IsRegistered' => access' \in Grants
    BY DEF Folder!IsRegistered
  <1>2. ASSUME NEW c \in Chapters
        PROVE  Folder!WrappedFor(files[c])' =
                  IF files'[c] \in Folder!ChapterFile THEN files'[c].key ELSE None
    BY ConstantFacts DEF Folder!WrappedFor
  <1>3. \A k : k \in Folder!FolderKeys' =>
              \/ Folder!IsRegistered' /\ k = access'.key
              \/ k # None /\ \E c \in Chapters : k = Folder!WrappedFor(files[c])'
    BY DEF Folder!FolderKeys
  <1> QED
    BY <1>1, <1>2, <1>3

\* At first the invariant holds.
LEMMA InitEstablishes == Init => IInv
  <1> SUFFICES ASSUME Init PROVE IInv
    OBVIOUS
  <1>1. /\ pc = "off" /\ stored = None /\ key = None /\ sent = {} /\ entry = None
        /\ todo = {} /\ entries = {} /\ told = "none"
        /\ readable_files = [c \in Chapters |-> None] /\ files = [c \in Chapters |-> None]
        /\ access = NoFile /\ clean = TRUE /\ lost = FALSE /\ moved = FALSE
        /\ moves = 0 /\ faults = 0
    BY DEF Init, NoChapters, Folder!Init
  <1>2. TypeOK
    BY <1>1 DEF TypeOK
  <1>3. Folder!FolderKeys = {}
    <2>1. access \notin Grants /\ \A c \in Chapters : files[c] \notin Folder!ChapterFile
      BY <1>1, ConstantFacts
    <2> QED
      BY <1>2, <2>1, FolderKeysFacts
  <1> QED
    BY <1>1, <1>2, <1>3
    DEF IInv, SessionKey, OneKey, Fresh, SessionIsExact, ReadableDecrypts

\* What get_contents may answer.
LEMMA GetContentsFacts ==
    ASSUME NEW kind \in Kinds, NEW present \in BOOLEAN
    PROVE  /\ GetContents(kind, present) \in
                {"network_error", "rate_limited", "truncated", "exists", "not_found"}
           /\ kind = "ok" => GetContents(kind, present) =
                                IF present THEN "exists" ELSE "not_found"
           /\ GetContents(kind, present) = "exists" => present
  BY DEF GetContents, Kinds

\* What an answer counts as.
LEMMA ReplyFacts ==
    ASSUME TypeOK, NEW kind \in Kinds, Reply(kind)
    PROVE  /\ faults' \in Nat /\ clean' \in BOOLEAN
           /\ clean' => kind = "ok" /\ clean
  <1>1. faults' \in Nat
    BY DEF Reply, Fails, TypeOK
  <1>2. clean' = (clean /\ kind = "ok")
    BY DEF Reply
  <1>3. clean' \in BOOLEAN /\ (clean' => kind = "ok" /\ clean)
    BY <1>2, Zenon
  <1> QED
    BY <1>1, <1>3

\* A step between the sessions or in a menu: nothing that a session knows changes.
LEMMA QuietStep ==
    ASSUME IInv, TypeOK', UNCHANGED <<stored, sent, access, files, session>>,
           UNCHANGED <<lost, clean, moved>>,
           pc' \in {"off", "start", pc} \/ (pc = "fetch" /\ todo = {} /\ pc' = "menu"),
           ReadableDecrypts'
    PROVE  IInv'
  <1>1. UNCHANGED <<key, entry, todo, entries, readable_files>>
    BY DEF session
  <1>2. SessionKey' /\ OneKey' /\ Fresh'
    BY <1>1 DEF IInv, SessionKey, OneKey, Fresh, Folder!FolderKeys, Folder!IsRegistered,
                Folder!WrappedFor
  <1>3. SessionIsExact'
    BY <1>1 DEF IInv, SessionIsExact, Candidates, Published, Shown, Parses,
                Folder!IsRegistered
  <1> QED
    BY <1>2, <1>3 DEF IInv

\* A session begins, gets to its menu, or ends.
LEMMA SessionStepsKeep ==
    ASSUME IInv, Launch \/ MenuReady \/ Crash
    PROVE  IInv'
  <1> USE DEF remote, session
  <1>1. TypeOK'
    BY DEF IInv, TypeOK, Launch, MenuReady, Crash, Fails
  <1>2. ReadableDecrypts'
    BY DEF IInv, ReadableDecrypts, Launch, MenuReady, Crash
  <1>3. /\ UNCHANGED <<stored, sent, access, files, session>>
        /\ UNCHANGED <<lost, clean, moved>>
        /\ pc' \in {"off", "start", pc} \/ (pc = "fetch" /\ todo = {} /\ pc' = "menu")
    BY DEF Launch, MenuReady, Crash
  <1> QED
    BY <1>1, <1>2, <1>3, QuietStep

\* A choice in the menu.
LEMMA ChooseKeeps ==
    ASSUME IInv, NEW n \in Chapters \cup {0}, Choose(n)
    PROVE  IInv'
  <1> USE DEF remote, session
  <1>1. /\ pc = "menu" /\ pc' \in {"off", "menu"}
        /\ UNCHANGED <<stored, sent, access, files, moves, session, clean, lost, moved,
                       faults>>
        /\ n = 0 => told' = "none"
        /\ n # 0 => told' = IF IsSelectable(n) THEN DecryptChapter(readable_files[n])
                            ELSE "not_available"
    BY DEF Choose
  <1>2. TypeOK'
    BY <1>1 DEF IInv, TypeOK
  <1>3. ReadableDecrypts'
    <2> SUFFICES ASSUME ~lost
                 PROVE  told' \notin {"key_unwrap_failed", "reader_not_wrapped"}
      BY <1>1 DEF ReadableDecrypts
    <2>1. CASE n = 0
      BY <1>1, <2>1
    <2>2. CASE n # 0 /\ ~IsSelectable(n)
      BY <1>1, <2>2
    <2>3. CASE n # 0 /\ IsSelectable(n)
      <3>1. readable_files[n].key = stored /\ stored # None
        BY <2>3 DEF IInv, OneKey, IsSelectable
      <3>2. DecryptChapter(readable_files[n]) \in {"decryption_failed", "success"}
        BY <3>1 DEF DecryptChapter, Unwraps
      <3> QED
        BY <1>1, <2>3, <3>2
    <2> QED
      BY <2>1, <2>2, <2>3
  <1> QED
    BY <1>1, <1>2, <1>3, QuietStep

\* The key is loaded, or made and stored.
LEMMA BeginKeeps ==
    ASSUME IInv, Begin
    PROVE  IInv'
  <1>1. /\ pc' = "access" /\ entry' = None /\ todo' = {} /\ entries' = {}
        /\ readable_files' = [c \in Chapters |-> None] /\ told' = "none"
        /\ clean' = TRUE /\ moved' = FALSE
        /\ UNCHANGED <<access, files, moves>>
        /\ EnsureLocalKeypair
    BY DEF Begin, NoChapters, remote
  <1>2. TypeOK
    BY DEF IInv
  <1>3. CASE stored # None /\ key' = stored /\ UNCHANGED <<stored, sent, lost, faults>>
    <2>1. TypeOK'
      BY <1>1, <1>2, <1>3 DEF TypeOK
    <2>2. Folder!FolderKeys' = Folder!FolderKeys
      BY <1>1 DEF Folder!FolderKeys, Folder!IsRegistered, Folder!WrappedFor
    <2>3. OneKey'
      BY <1>1, <1>3, <2>2 DEF IInv, OneKey
    <2> QED
      BY <1>1, <1>3, <2>1, <2>3
      DEF IInv, SessionKey, Fresh, SessionIsExact, ReadableDecrypts
  <1>4. ASSUME stored = None, NEW k \in FreshKeys, key' = k, sent' = sent \cup {k},
               WriteKey(k)
        PROVE  IInv'
    <2>1. k \in Keys /\ k # None
      BY ConstantFacts DEF FreshKeys
    <2>2. /\ faults' \in Nat
          /\ \/ stored' = k /\ lost' = lost
             \/ lost' = TRUE /\ stored' = stored
      BY <1>2, <1>4 DEF WriteKey, Fails, TypeOK
    <2>3. TypeOK'
      BY <1>1, <1>2, <1>4, <2>1, <2>2 DEF TypeOK
    <2>4. Folder!FolderKeys' = Folder!FolderKeys
      BY <1>1 DEF Folder!FolderKeys, Folder!IsRegistered, Folder!WrappedFor
    <2>5. ~lost => sent = {}
      BY <1>2, <1>4, ConstantFacts DEF IInv, OneKey, TypeOK
    <2>6. OneKey'
      BY <1>1, <1>4, <2>1, <2>2, <2>4, <2>5 DEF IInv, OneKey
    <2> QED
      BY <1>1, <1>4, <2>1, <2>2, <2>3, <2>6
      DEF IInv, SessionKey, Fresh, SessionIsExact, ReadableDecrypts
  <1> QED
    BY <1>1, <1>3, <1>4 DEF EnsureLocalKeypair

-------------------------------------------------------------------------------
(* The requests. *)

\* The parts of TypeOK, for provers that are good at different ones.
LEMMA TypeParts ==
    TypeOK <=>
        /\ pc \in {"off", "start", "access", "list", "fetch", "menu"}
        /\ stored \in Keys \cup {None} /\ key \in Keys \cup {None}
        /\ sent \subseteq Keys
        /\ access \in Grants \cup {None, NoFile}
        /\ files \in [Chapters -> Folder!ChapterFile \cup {None, Garbled}]
        /\ entry \in Grants \cup {None}
        /\ todo \subseteq Chapters /\ entries \subseteq Chapters
        /\ readable_files \in [Chapters -> Folder!ChapterFile \cup {None}]
        /\ clean \in BOOLEAN /\ lost \in BOOLEAN /\ moved \in BOOLEAN
        /\ moves \in Nat /\ faults \in Nat
  BY DEF TypeOK

\* A request that ends the session, perhaps after the key was shown again.
LEMMA BackToStartKeeps ==
    ASSUME IInv, NEW message, BackToStart(message),
           pc \in {"access", "list", "fetch"},
           message \notin {"key_unwrap_failed", "reader_not_wrapped"},
           sent' \in {sent, sent \cup {key}}, key \in Keys \/ sent' = sent,
           UNCHANGED <<stored, access, files, moves, lost, moved>>,
           faults' \in Nat, clean' \in BOOLEAN
    PROVE  IInv'
  <1>1. /\ pc' = "start" /\ told' = message
        /\ UNCHANGED <<key, entry, todo, entries, readable_files>>
    BY DEF BackToStart
  <1>2. TypeOK'
    BY <1>1, TypeParts DEF IInv, TypeOK
  <1>3. Folder!FolderKeys' = Folder!FolderKeys
    BY DEF Folder!FolderKeys, Folder!IsRegistered, Folder!WrappedFor
  <1>4. ~lost => key = stored
    BY DEF IInv, SessionKey
  <1>5. OneKey'
    BY <1>1, <1>3, <1>4 DEF IInv, OneKey
  <1> QED
    BY <1>1, <1>2, <1>5
    DEF IInv, SessionKey, Fresh, SessionIsExact, ReadableDecrypts

\* A request that goes on with the session and shows nothing.
LEMMA SameKeys ==
    ASSUME IInv, pc \in {"access", "list", "fetch"},
           UNCHANGED <<stored, sent, access, files, lost, key, told>>,
           \A c \in Chapters : \/ readable_files'[c] \in {readable_files[c], None}
                               \/ /\ readable_files'[c] = files[c]
                                  /\ files[c] \in Folder!ChapterFile /\ files[c].key # None
    PROVE  SessionKey' /\ OneKey' /\ ReadableDecrypts'
  <1>1. Folder!FolderKeys' = Folder!FolderKeys
    BY DEF Folder!FolderKeys, Folder!IsRegistered, Folder!WrappedFor
  <1>2. ASSUME ~lost, NEW c \in Chapters, files[c] \in Folder!ChapterFile,
               files[c].key # None
        PROVE  files[c].key = stored
    BY <1>2, FolderKeysFacts DEF IInv, OneKey
  <1>3. key # None /\ (~lost => key = stored)
    BY DEF IInv, SessionKey
  <1>4. SessionKey' /\ ReadableDecrypts'
    BY <1>3 DEF IInv, SessionKey, ReadableDecrypts
  <1>5. OneKey'
    BY <1>1, <1>2, <1>3 DEF IInv, OneKey
  <1> QED
    BY <1>4, <1>5

\* access.txt is fetched.
LEMMA FetchAccessKeeps ==
    ASSUME IInv, NEW kind \in Kinds, FetchAccess(kind)
    PROVE  IInv'
  <1> DEFINE reply == GetContents(kind, access # NoFile)
  <1>1. /\ TypeOK /\ pc = "access"
        /\ UNCHANGED <<stored, access, files, moves, lost, moved>>
        /\ faults' \in Nat /\ clean' \in BOOLEAN
        /\ clean' => kind = "ok" /\ clean
    BY ReplyFacts DEF IInv, FetchAccess, remote
  <1>2. CASE /\ reply \in {"not_found", "network_error", "rate_limited"}
             /\ BackToStart(reply)
             /\ UNCHANGED sent
    <2>1. reply \notin {"key_unwrap_failed", "reader_not_wrapped"}
      BY <1>2
    <2> QED
      BY <1>1, <1>2, <2>1, BackToStartKeeps
  <1>3. CASE BackToStart("not_registered") /\ sent' = sent \cup {key}
    <2>1. key \in Keys
      BY <1>1 DEF TypeOK, IInv, SessionKey
    <2> QED
      BY <1>1, <1>3, <2>1, BackToStartKeeps
  <1>4. CASE reply = "exists" /\ access # None /\ TakeEntry
    <2>1. access # NoFile
      BY <1>4, GetContentsFacts
    <2>2. access \in Grants /\ access.chapters \subseteq Chapters /\ Folder!IsRegistered
      BY <1>1, <1>4, <2>1, ConstantFacts DEF TypeOK, Folder!IsRegistered
    <2>3. /\ entry' = access
          /\ UNCHANGED <<sent, told, key, entries, readable_files>>
          /\ \/ access.level = "Master" /\ pc' = "list" /\ todo' = todo
             \/ access.level # "Master" /\ pc' = "fetch" /\ todo' = access.chapters
      BY <1>4 DEF TakeEntry
    <2>4. TypeOK'
      BY <1>1, <2>2, <2>3, TypeParts DEF TypeOK
    <2>5. SessionKey' /\ OneKey' /\ ReadableDecrypts'
      BY <1>1, <2>3, SameKeys
    <2>6. todo = {} /\ entries = {}
      BY <1>1 DEF IInv, Fresh
    <2>7. Fresh'
      BY <2>3, <2>6 DEF Fresh
    <2>8. SessionIsExact'
      BY <1>1, <2>2, <2>3, <2>6 DEF SessionIsExact, Candidates, Folder!IsRegistered
    <2> QED
      BY <2>4, <2>5, <2>7, <2>8 DEF IInv
  <1> QED
    BY <1>2, <1>3, <1>4 DEF FetchAccess

\* The folder is listed.
LEMMA ListKeeps ==
    ASSUME IInv, NEW kind \in Kinds, List(kind)
    PROVE  IInv'
  <1> DEFINE reply == GetContents(kind, Published # {})
  <1>1. /\ TypeOK /\ pc = "list"
        /\ UNCHANGED <<stored, sent, access, files, moves, lost, moved>>
        /\ faults' \in Nat /\ clean' \in BOOLEAN
        /\ clean' => kind = "ok" /\ clean
    BY ReplyFacts DEF IInv, List, remote
  <1>2. CASE reply = "rate_limited" /\ BackToStart(reply)
    <2>1. reply \notin {"key_unwrap_failed", "reader_not_wrapped"}
      BY <1>2
    <2> QED
      BY <1>1, <1>2, <2>1, BackToStartKeeps
  <1>3. CASE ~(reply = "rate_limited" /\ BackToStart(reply))
    <2>1. /\ reply # "rate_limited"
          /\ todo' \in CASE reply = "exists"    -> {Published}
                         [] reply = "truncated" -> (SUBSET Published) \ {Published}
                         [] OTHER               -> {{}}
          /\ pc' = "fetch"
          /\ UNCHANGED <<told, key, entry, entries, readable_files>>
      BY <1>3 DEF List
    <2>2. todo' \subseteq Published /\ Published \subseteq Chapters
      BY <2>1 DEF Published
    <2>3. kind = "ok" => todo' = Published
      BY <2>1, GetContentsFacts
    <2>4. TypeOK'
      BY <1>1, <2>1, <2>2 DEF TypeOK
    <2>5. SessionKey' /\ OneKey' /\ ReadableDecrypts'
      BY <1>1, <2>1, SameKeys
    <2>6. entries = {}
      BY <1>1 DEF IInv, Fresh
    <2>7. Published' = Published
      BY <1>1 DEF Published
    <2>8. SessionIsExact'
      BY <1>1, <2>1, <2>3, <2>6, <2>7
      DEF IInv, SessionIsExact, Candidates, Folder!IsRegistered
    <2> QED
      BY <2>1, <2>4, <2>5, <2>8 DEF IInv, Fresh
  <1> QED
    BY <1>2, <1>3

\* A chapter file is fetched.
LEMMA FetchChapterKeeps ==
    ASSUME IInv, NEW kind \in Kinds, FetchChapter(kind)
    PROVE  IInv'
  <1>1. /\ TypeOK /\ pc = "fetch"
        /\ UNCHANGED <<stored, sent, access, files, moves, lost, moved>>
        /\ faults' \in Nat /\ clean' \in BOOLEAN
        /\ clean' => kind = "ok" /\ clean
    BY ReplyFacts DEF IInv, FetchChapter, remote
  <1>2. PICK c \in todo :
          LET reply == GetContents(kind, files[c] # None) IN
          \/ reply = "rate_limited" /\ BackToStart(reply)
          \/ /\ reply # "rate_limited"
             /\ Enter(c, IF reply = "exists" /\ Parses(files[c]) /\ files[c].key # None
                         THEN files[c] ELSE None)
    BY DEF FetchChapter
  <1> DEFINE reply == GetContents(kind, files[c] # None)
             file == IF reply = "exists" /\ Parses(files[c]) /\ files[c].key # None
                     THEN files[c] ELSE None
  <1>3. c \in Chapters
    BY <1>1, <1>2 DEF TypeOK
  <1>4. CASE reply = "rate_limited" /\ BackToStart(reply)
    <2>1. reply \notin {"key_unwrap_failed", "reader_not_wrapped"}
      BY <1>4
    <2> QED
      BY <1>1, <1>4, <2>1, BackToStartKeeps
  <1>5. CASE Enter(c, file)
    <2>1. \/ file = None
          \/ file = files[c] /\ files[c] \in Folder!ChapterFile /\ files[c].key # None
      BY <1>1, <1>3 DEF Parses, TypeOK
    <2>2. kind = "ok" => file = Shown(c)
      BY GetContentsFacts DEF Shown, Parses
    <2> HIDE DEF file
    <2>3. /\ pc' = "fetch" /\ todo' = todo \ {c} /\ entries' = entries \cup {c}
          /\ readable_files' = [readable_files EXCEPT ![c] = file]
          /\ UNCHANGED <<told, key, entry>>
      BY <1>1, <1>5 DEF Enter
    <2>4. readable_files \in [Chapters -> Folder!ChapterFile \cup {None}]
      BY <1>1 DEF TypeOK
    <2>5. /\ readable_files' \in [Chapters -> Folder!ChapterFile \cup {None}]
          /\ readable_files'[c] = file
          /\ \A d \in Chapters : d # c => readable_files'[d] = readable_files[d]
      BY <1>3, <2>1, <2>3, <2>4
    <2>6. TypeOK'
      BY <1>1, <1>3, <2>3, <2>5 DEF TypeOK
    <2>7. SessionKey' /\ OneKey' /\ ReadableDecrypts'
      <3>1. \A d \in Chapters :
              \/ readable_files'[d] \in {readable_files[d], None}
              \/ /\ readable_files'[d] = files[d]
                 /\ files[d] \in Folder!ChapterFile /\ files[d].key # None
        BY <2>1, <2>5
      <3> QED
        BY <1>1, <2>3, <3>1, SameKeys
    <2>8. SessionIsExact'
      <3> SUFFICES ASSUME clean', ~moved'
                   PROVE  /\ Folder!IsRegistered'
                          /\ (todo \cup entries)' = Candidates'
                          /\ \A d \in entries' : readable_files'[d] = Shown(d)'
        BY <2>3 DEF SessionIsExact
      <3>1. /\ Folder!IsRegistered /\ todo \cup entries = Candidates
            /\ \A d \in entries : readable_files[d] = Shown(d)
        BY <1>1 DEF IInv, SessionIsExact
      <3>2. Folder!IsRegistered' /\ Candidates' = Candidates
        BY <1>1, <3>1 DEF Candidates, Published, Folder!IsRegistered
      <3>3. todo' \cup entries' = todo \cup entries
        BY <1>2, <2>3
      <3>4. ASSUME NEW d \in entries' PROVE readable_files'[d] = Shown(d)'
        <4>1. Shown(d)' = Shown(d)
          BY <1>1 DEF Shown, Parses
        <4>2. d \in Chapters
          BY <2>6, TypeParts DEF TypeOK
        <4>3. CASE d = c
          BY <1>1, <2>2, <2>5, <4>1, <4>3
        <4>4. CASE d # c
          BY <2>3, <2>5, <3>1, <4>1, <4>2, <4>4
        <4> QED
          BY <4>3, <4>4
      <3> QED
        BY <3>1, <3>2, <3>3, <3>4
    <2> QED
      BY <2>3, <2>6, <2>7, <2>8 DEF IInv, Fresh
  <1> QED
    BY <1>2, <1>4, <1>5

-------------------------------------------------------------------------------
(* The world around it. *)

\* The key file gets lost.
LEMMA LoseKeyKeeps ==
    ASSUME IInv, LoseKey
    PROVE  IInv'
  <1>1. /\ stored' = None /\ lost' = TRUE /\ faults' \in Nat
        /\ UNCHANGED <<pc, sent, access, files, moves, key, entry, todo, entries,
                       readable_files, told, clean, moved>>
    BY DEF LoseKey, Fails, remote, session, IInv, TypeOK
  <1>2. TypeOK'
    BY <1>1 DEF IInv, TypeOK
  <1>3. SessionIsExact'
    BY <1>1 DEF IInv, SessionIsExact, Candidates, Published, Shown, Parses,
                Folder!IsRegistered
  <1> QED
    BY <1>1, <1>2, <1>3 DEF IInv, SessionKey, OneKey, Fresh, ReadableDecrypts

\* What a push of the writer's program makes of the folder.
LEMMA PushFacts ==
    ASSUME TypeOK, Folder!Push(sent)
    PROVE  /\ access' \in Grants \cup {None, NoFile}
           /\ files' \in [Chapters -> Folder!ChapterFile \cup {None, Garbled}]
           /\ access' \in Grants =>
                access'.key \in sent \cup Folder!FolderKeys
           /\ \A c \in Chapters : files'[c] \in Folder!ChapterFile =>
                files'[c].key \in sent \cup Folder!FolderKeys \cup {None}
  <1> DEFINE keys == Folder!KeysToUse(sent)
  <1>1. /\ \/ access' = access
           \/ access = NoFile /\ access' = None
           \/ \E k \in keys, d \in Answers :
                  access' = [key |-> k, level |-> d.level, chapters |-> d.chapters]
        /\ files' \in [Chapters -> Folder!FilesFor(keys) \cup {files[c] : c \in Chapters}]
        /\ \A c \in Chapters : files'[c] \in Folder!FilesFor(keys) \cup {files[c]}
    BY DEF Folder!Push
  <1>2. sent \subseteq Keys /\ Folder!FolderKeys \subseteq Keys
    <2>1. ASSUME NEW k \in Folder!FolderKeys PROVE k \in Keys
      BY FolderKeysFacts, ConstantFacts
    <2> QED
      BY <2>1 DEF TypeOK
  <1>3. keys \subseteq sent \cup Folder!FolderKeys /\ keys \subseteq Keys
    BY <1>2 DEF Folder!KeysToUse
  <1> HIDE DEF keys
  <1>4. ASSUME NEW k \in keys, NEW d \in Answers,
               access' = [key |-> k, level |-> d.level, chapters |-> d.chapters]
        PROVE  access' \in Grants /\ access'.key \in sent \cup Folder!FolderKeys
    <2>1. k \in Keys /\ d \in Details
      BY <1>3, ViewerAssumption
    <2> QED
      BY <1>3, <1>4, <2>1 DEF Grants
  <1>5. /\ access \in Grants \cup {None, NoFile}
        /\ access \in Grants => access.key \in Folder!FolderKeys
    BY FolderKeysFacts DEF TypeOK
  <1>6. /\ access' \in Grants \cup {None, NoFile}
        /\ access' \in Grants => access'.key \in sent \cup Folder!FolderKeys
    <2>1. CASE access' = access
      BY <1>5, <2>1
    <2>2. CASE access' = None
      BY <2>2, ConstantFacts
    <2> QED
      BY <1>1, <1>4, <2>1, <2>2
  <1>7. ASSUME NEW c \in Chapters
        PROVE  /\ files'[c] \in Folder!ChapterFile \cup {None, Garbled}
               /\ files'[c] \in Folder!ChapterFile =>
                      files'[c].key \in sent \cup Folder!FolderKeys \cup {None}
    <2>1. CASE files'[c] = files[c]
      BY <2>1, FolderKeysFacts DEF TypeOK
    <2>2. CASE files'[c] = Garbled
      BY <2>2, ConstantFacts
    <2>3. CASE files'[c] \in [key : keys \cup {None}, intact : {TRUE}]
      BY <1>3, <2>3 DEF Folder!ChapterFile
    <2> QED
      BY <1>1, <2>1, <2>2, <2>3 DEF Folder!FilesFor
  <1>8. files' \in [Chapters -> Folder!ChapterFile \cup {None, Garbled}]
    BY <1>1, <1>7
  <1> QED
    BY <1>6, <1>7, <1>8

\* The folder changes meanwhile.
LEMMA FolderChangeKeeps ==
    ASSUME IInv, moved' = TRUE, moves' \in Nat, faults' \in Nat,
           UNCHANGED <<pc, stored, sent, key, entry, todo, entries, readable_files, told,
                       clean, lost>>,
           access' \in Grants \cup {None, NoFile},
           files' \in [Chapters -> Folder!ChapterFile \cup {None, Garbled}],
           access' \in Grants => access'.key \in sent \cup Folder!FolderKeys,
           \A c \in Chapters : files'[c] \in Folder!ChapterFile =>
                files'[c].key \in sent \cup Folder!FolderKeys \cup {None}
    PROVE  IInv'
  <1>1. TypeOK'
    BY DEF IInv, TypeOK
  <1>2. ASSUME NEW k \in Folder!FolderKeys' PROVE k \in sent \cup Folder!FolderKeys
    BY <1>2, FolderKeysAfter
  <1>3. OneKey'
    BY <1>2 DEF IInv, OneKey
  <1> QED
    BY <1>1, <1>3 DEF IInv, SessionKey, Fresh, SessionIsExact, ReadableDecrypts

\* The writer pushes, or a chapter is damaged.
LEMMA RepositoryKeeps ==
    ASSUME IInv, WriterPushes \/ \E c \in Chapters : DamageChapter(c)
    PROVE  IInv'
  <1>1. /\ moved' = TRUE /\ moves' \in Nat
        /\ UNCHANGED <<pc, stored, sent, key, entry, todo, entries, readable_files, told,
                       clean, lost>>
    BY DEF WriterPushes, DamageChapter, Move, session, IInv, TypeOK
  <1>2. CASE WriterPushes
    <2>1. Folder!Push(sent) /\ faults' \in Nat
      BY <1>2 DEF WriterPushes, IInv, TypeOK
    <2> QED
      BY <1>1, <2>1, PushFacts, FolderChangeKeeps DEF IInv
  <1>3. ASSUME NEW c \in Chapters, DamageChapter(c) PROVE IInv'
    <2>1. /\ files[c] \in Folder!ChapterFile /\ faults' \in Nat
          /\ files' = [files EXCEPT ![c].intact = FALSE] /\ access' = access
          /\ files \in [Chapters -> Folder!ChapterFile \cup {None, Garbled}]
          /\ access \in Grants \cup {None, NoFile}
      BY <1>3 DEF DamageChapter, Fails, IInv, TypeOK
    <2>2. /\ files'[c] = [files[c] EXCEPT !.intact = FALSE]
          /\ \A d \in Chapters : d # c => files'[d] = files[d]
          /\ files' = [files EXCEPT ![c] = [files[c] EXCEPT !.intact = FALSE]]
      BY <2>1
    <2>3. files'[c] \in Folder!ChapterFile /\ files'[c].key = files[c].key
      BY <2>1, <2>2 DEF Folder!ChapterFile
    <2>4. files' \in [Chapters -> Folder!ChapterFile \cup {None, Garbled}]
      BY <2>1, <2>2, <2>3
    <2>5. access' \in Grants => access'.key \in sent \cup Folder!FolderKeys
      BY <2>1, FolderKeysFacts DEF IInv
    <2>6. \A d \in Chapters : files'[d] \in Folder!ChapterFile =>
            files'[d].key \in sent \cup Folder!FolderKeys \cup {None}
      BY <2>1, <2>2, <2>3, FolderKeysFacts DEF IInv
    <2> QED
      BY <1>1, <2>1, <2>4, <2>5, <2>6, FolderChangeKeeps
  <1> QED
    BY <1>2, <1>3

-------------------------------------------------------------------------------
(* Theorems. *)

\* The invariant is inductive.
LEMMA NextKeeps == IInv /\ [Next]_vars => IInv'
  <1> SUFFICES ASSUME IInv, [Next]_vars PROVE IInv'
    OBVIOUS
  <1>1. CASE UNCHANGED vars
    <2>1. TypeOK' /\ ReadableDecrypts'
      BY <1>1 DEF vars, session, remote, IInv, TypeOK, ReadableDecrypts
    <2> QED
      BY <1>1, <2>1, QuietStep DEF vars, remote
  <1>2. CASE Next
    BY <1>2, SessionStepsKeep, ChooseKeeps, BeginKeeps, FetchAccessKeeps, ListKeeps,
       FetchChapterKeeps, LoseKeyKeeps, RepositoryKeeps DEF Next, Fetching
  <1> QED
    BY <1>1, <1>2

\* IInv is inductive, and an invariant of the reader's program.
THEOREM Invariance == Spec => []IInv
  BY InitEstablishes, NextKeeps, PTL DEF Spec

\* Every variable keeps its type.
THEOREM TypeCorrect == Spec => []TypeOK
  <1>1. IInv => TypeOK
    BY DEF IInv
  <1> QED
    BY <1>1, Invariance, PTL

\* However often the writer pushes and requests fail between any two steps: what the menu
\* called readable opens with the reader's key, as long as the key file is not lost.
THEOREM ReadableCorrect == Spec => []ReadableDecrypts
  <1>1. IInv => ReadableDecrypts
    BY DEF IInv
  <1> QED
    BY <1>1, Invariance, PTL

\* specs/004 AC4: a session that was answered in full, of a repository that kept still, has
\* in its menu exactly what access.txt allows, and as readable exactly what opens.
THEOREM MenuCorrect == Spec => []MenuIsExact
  <1>1. ASSUME IInv PROVE MenuIsExact
    <2> SUFFICES ASSUME pc = "menu", clean, ~moved
                 PROVE  /\ \A c \in Chapters :
                              IsSelectable(c) <=>
                                  /\ Folder!IsRegistered /\ IsAuthorized(access, c)
                                  /\ Parses(files[c]) /\ files[c].key # None
                        /\ \A c \in Published : IsAuthorized(access, c) => c \in entries
      BY DEF MenuIsExact
    <2>1. /\ Folder!IsRegistered /\ entries = Candidates
          /\ \A c \in entries : readable_files[c] = Shown(c)
      BY <1>1 DEF IInv, SessionIsExact
    <2>2. access \in Grants
      BY <1>1, <2>1 DEF IInv, TypeOK, Folder!IsRegistered
    <2>3. access.level = "Master" => access.chapters = {}
      BY <2>2, ConstantFacts
    <2>4. ASSUME NEW c \in Chapters
          PROVE  IsSelectable(c) <=>
                    /\ IsAuthorized(access, c)
                    /\ Parses(files[c]) /\ files[c].key # None
      <3>1. IsSelectable(c) <=> c \in Candidates /\ Shown(c) # None
        BY <2>1 DEF IsSelectable
      <3>2. Shown(c) # None <=> Parses(files[c]) /\ files[c].key # None
        BY DEF Shown, Parses
      <3>3. Parses(files[c]) => (c \in Candidates <=> IsAuthorized(access, c))
        BY <2>3 DEF Candidates, Published, Parses, IsAuthorized
      <3> QED
        BY <3>1, <3>2, <3>3
    <2>5. ASSUME NEW c \in Published, IsAuthorized(access, c) PROVE c \in entries
      BY <2>1, <2>3, <2>5 DEF Candidates, IsAuthorized
    <2> QED
      BY <2>1, <2>4, <2>5
  <1> QED
    BY <1>1, Invariance, PTL
===============================================================================
