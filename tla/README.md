# Buddy-Share in TLA+

Buddy-Share is a Windows console program with two roles. The *writer* keeps a
folder that is a git repository: `access.txt` says which reader may open which
chapter, and `chapters/chapter-<NN>.enc` holds a chapter encrypted with a
content key, which is wrapped once per authorized reader. The *reader* fetches
both from the writer's public GitHub repository and decrypts locally. There is
no server and no thread: what makes the program hard is that files are rewritten
in place, git commands fail one by one, a process can be closed between any two
steps, people edit files by hand, several programs share a pipe or a file, and
the writer's repository changes while a reader is looking at it.

This directory holds TLA+ modules that model these parts, TLC configurations
that check them, and modules of machine-checked proofs. `PROJECT.json` lists
the components, the runs, the source lines behind every definition, the hazards,
the findings and the theorems. Source paths are relative to the repository root
(`src/...` is the C++ tree, `specs/...` the feature specifications).

## Inventory

| Component | State it keeps | Operations | Works with | Module |
|---|---|---|---|---|
| `shared/AccessRegistry` | `readers_`, `order_`, the file `access.txt` | `load_from_file`, `load_from_text`, `find_by_name`, `all_readers`, `append_reader`, `update_reader`, `persist` | both roles | `AccessRegistry` |
| `writer/ReaderAccessController` | none | `collect_registration_details`, `edit_existing_reader`, `is_authorized_for_chapter` | registry, git | `ChapterPublishing`, `ChapterNumbers` |
| `writer/ChapterEncryptionService` | none (files, git) | `encrypt_chapter`, `register_reader` | registry, controller, crypto, git | `ChapterPublishing` |
| `writer/GitBootstrapService`, `writer/WriterMenu` | `.git`, `.gitignore` | `run`, `is_already_bootstrapped`, `available_commands` | GitHub, git | `GitBootstrap` |
| `writer/SystemGitProcess` | handles of one call | `run`, `spawn_and_capture`, `quote_argument` | git and its helpers | `GitProcess`, `CommandLine` |
| `reader/ReaderViewerService`, `reader/DpapiPrivateKeyStore` | the private key file of a username | `ensure_local_keypair`, `decrypt_chapter` | crypto | `ReaderViewer` |
| `reader/ChapterFetcher`, `reader/ReaderMenu` | the menu of a session | `fetch_access_txt`, `list_master_candidates`, `try_fetch_chapter`, `is_selectable` | GitHub, registry | `ReaderViewer` |
| `core/RoleManager`, `core/RoleStore` | the hidden role file | `resolve_role`, `read`, `write` | `main` | `RoleLock` |
| `shared/HttpGitHubClient` | none | `get_repo`, `get_contents` | GitHub | `GitHubJson`, `GitBootstrap`, `ReaderViewer` |
| `shared/ChapterFile` | none | `to_json`, `from_json` | both roles | `ChapterJson` |
| `shared/CryptoProvider` | none | AES-GCM, RSA-OAEP, PBKDF2, base64 | both roles | `Base64`, else as identities |
| `shared/ConsoleIO` | none | prompts | all | `Prompts`, else as choices |

How they meet: `main` resolves the role and enters one of two loops. The writer's
loop offers the bootstrap until there is a `.git`, and from then on encryption
and the editing of readers, all of which run git through `SystemGitProcess`. The
reader's loop makes or finds the keypair, fetches `access.txt`, the listing and
the chapters one request at a time, and decrypts what is chosen. The two sides
share nothing but the repository on GitHub, and a public key that the reader
sends by hand.

What has to hold, by component:

* *Registry.* A reader is registered once and never lost; the chapters fit the
  level; the file and the map say the same; rewriting the file for one reader
  changes nobody else; a crash in the rewrite takes something away, and grants
  nothing (which the code does not achieve, see Findings).
* *Encryption.* A chapter has keys for exactly the readers who may open it; what
  is reported as published is; whoever has a key is listed with it; failures can
  be made up for; half-written files stay local.
* *Bootstrap.* Plaintext is never committed, foreign history never overwritten,
  tracking is reported honestly.
* *Git process.* The caller gets the whole output and the exit code, and gets
  them at all; nothing is cut off; no handle stays open.
* *Reader.* The menu shows exactly what can be read; what it calls readable
  opens; a published chapter gets read.
* *Role.* A stored role stays; a program runs with the role that is stored;
  whatever went wrong, a role gets stored in the end.
* *Formats.* What one side writes the other reads, and a part of an answer is
  never taken for the whole.

The hard behaviours behind them are the hazards of `PROJECT.json`, each at the
line where it bites.

## Modules

```
Readers ---- AccessFile ---- AccessRegistry ---- MCAccessRegistry
   |             |               |      \------- AccessRegistryProofs
   |             |               +-- (implements) ReaderDirectory
   |             |
   |             +-- ChapterPublishing (uses GitRepo) ---- MCChapterPublishing
   |                     |               \---------------- ChapterPublishingProofs
   |                (implements)
   |                     |
   +------------ PublishedFolder
                         |
                      (uses)
                         |
                    ReaderViewer ---- MCReaderViewer, ReaderViewerProofs

GitBootstrap -- MCGitBootstrap
       \------- GitProofs
       /
GitProcess ---- MCGitProcess
RoleLock ------ MCRoleLock, RoleLockProofs

Characters -- CommandLine, ChapterJson, GitHubJson --+
              ChapterNumbers, Base64, Prompts -------+-- Formats -- MCFormats
                                                            |
                                        Folding -- FormatsProofs -- ChapterFileProofs
```

**`Readers`** is the data both roles share: entries, `ChaptersMatchLevel`
(`chapters_match_level`), `IsAuthorized` (`is_authorized_for_chapter`), and the
answers the prompts accept (`Details`, `Grants`).

**`AccessFile`** is the line format. A line is the tuple of parts the parser
looks at (number of fields, name, key, level, chapter set), not text. `Valid` is
the chain of four checks; `LineOf` is what `persist` writes, with a colon in a
name or key turning into a fifth field; `TornLines` is what a cut write leaves,
down to a chapter number without its last digits (`12` read back as `1`).
`Saved` and `CutShort` are what a load makes of a whole rewritten file and of one
that was broken off anywhere. They are shared: `AccessRegistry` goes through the
file line by line, `ChapterPublishing` takes what comes of it.

**`AccessRegistry`** has the map (`readers`, `order`), the file and the position
of a load or a rewrite in progress, so that a crash can fall between any two
lines. `AppendReader` and `UpdateReader` include the opening of the file;
`PersistLine` writes one line; `DiskFull` and the second disjunct of
`BeginPersist` are writes that fail without anybody looking. The variables
`image`, `stale` and `granted` are history: they only let the properties speak
of an earlier file, of changes made behind the program's back, and of what the
writer ever asked for.

**`ReaderDirectory`** is the abstract promise of the registry: a map from names
to entries in which a name is registered once and keeps its key.

**`GitRepo`** is git as the program uses it, trees as functions from paths to
contents. **`ChapterPublishing`** is the working loop of `run_writer_menu` with
one action per step of `encrypt_chapter`, `register_reader` and
`edit_existing_reader`: question, change of the map, rewrite of `access.txt`,
wrap and write, `add`, `commit`, `push`, report. `access.txt` is kept as what a
load makes of it, and `Persist` never writes the map as it is: a line with a
colon too many is not read back (`Saved`); a crash or a full disk leaves no line,
some lines, or some and a torn one (`CutShort`, `RewriteIsCut`); a file that
cannot be opened stays as it was. The order of the lines is not kept in a map, so
that any readers' lines may be the ones that were written, which is more than the
code can do, never less. A name or key that itself holds a level's name between
two colons (`a:b:Master:`), whose torn line would parse, is not considered. A
chapter file is an identity (its salt, IV and content key) and the set of wrapped
keys, or `Garbled` when the write did not come to its end. `result` is what
`encrypt_chapter` returned; `granted` (what the writer ever gave whom),
`unwritten` (some file could not be written, or not to its end) and `cut` (a
rewrite of `access.txt` was broken off) are history. A push fails in two ways: before GitHub has taken it, or after, when
only the answer is lost.

**`PublishedFolder`** is the contract between the two sides: the repository on
GitHub as one reader sees it, in which a registered reader stays registered with
the same key and everything that is published for a reader is for one key.
`ChapterPublishing` implements it, for each of its readers, with what that
reader sees of `git.remote` (`ImplementsPublishedFolder`); `ReaderViewer` has
its steps as the only ones the repository takes, besides damage. The composition
of writer and reader is thereby checked through the contract, with neither side's
state in the other's run. The contract has premises: what is shown of the reader's
program holds for readers without a colon in name or key, and for a writer whose
rewrites of `access.txt` came to their end and who did not edit it by hand.

**`ReaderViewer`** is one username's sessions: keypair, `access.txt`, listing,
chapters one by one, menu, decryption. Between any two requests the repository
may change. A request may go unanswered, hit the rate limit, or break off in the
middle of the body, which `perform_get` returns as a success. The key file may
fail to be written, or be lost; a ciphertext may be damaged. `decrypt_chapter`
has its four outcomes.

**`GitBootstrap`** is `GitBootstrapService::run` step by step, with
`WriterMenu`'s rule for what is offered, on a local repository reduced to the
facts that matter and a remote that is missing, empty, somebody else's or ours.
`SeedGitignore` may fail to write the entry, or the line behind it, and the run
goes on; `unseeded` remembers it.

**`GitProcess`** is `spawn_and_capture`: two ends of a pipe and a process handle,
git, and a helper that git may leave behind with the pipe still open (a
credential helper or `git maintenance`, say). Each `WriteFile` of a program and
each `ReadFile` of the caller is a step, and both wait: a writer at a full pipe,
the reader at an empty one. A write of no bytes is a success of 0 bytes for the
reader, which the code takes for the end. Its parts have names of their own
(`at`, `ProcessInit`, `ProcessNext`), so that one module of proofs can extend it
together with `GitBootstrap`.

**`RoleLock`** is `resolve_role` and the write of the role file, each of its calls
a step (clear the hidden attribute, open and truncate, write, hide), in several
runs of the program at once. A hidden file cannot be opened for writing, which
is why `write` clears the attribute first and why two runs get in each other's
way.

**`Formats`** extends the modules of the formats and sends every text up to a
length through their conversions:
`ChapterNumbers` (`parse_chapter_list`, the answers to the prompt for chapters,
file names both ways, numbers beyond `int`), `Prompts` (`prompt_masked`),
`Base64` (with the overflowing bit buffer), `CommandLine` (`quote_argument`, and
Windows' rules for taking it apart), `ChapterJson` (the writer of a chapter file,
and the parser as what it does with each character, which is where the calls of
`parse_json_string` and `parse_string_map` stand in the text) and `GitHubJson`
(the search for fields in GitHub's answers). `Characters` names the quote and the
backslash that three of them share.
Each is compared with a reference definition that says what is meant: the
numbers that stand between the commas, the characters no backspace took, the
arguments that went in.

Definitions commented "Variant for mutation" are plausible mistakes in that
code. They are not part of any specification; each breaks the property it is
paired with in `PROJECT.json`.

## Runs

| Configuration | Expected | Distinct states | What it explores |
|---|---|---|---|
| `AccessRegistry_faults` | pass | 703 396 | two names, two keys of which one holds a colon, one two-digit chapter, three grants, one crash or failed write, one hand edit of three kinds of line |
| `AccessRegistry_directory` | pass | 20 859 | refinement of `ReaderDirectory`, no faults, twelve grants |
| `ChapterPublishing_push` | pass | 344 543 | three names of which one holds a colon, a key that does not parse, three commands, two failing pushes, fairness |
| `ChapterPublishing_faults` | pass | 3 138 816 | three names of which one holds a colon, two keys, two commands and two of: a failing add, commit, push or file write, a crash between any two steps or in the middle of a write; a hand edit; refinement of `PublishedFolder` |
| `ChapterPublishing_commit` | violation | | see Findings |
| `GitBootstrap_faults` | pass | 19 867 | three faults, every command and the write of `.gitignore`, a remote that moves, a lagging size |
| `GitBootstrap_token`, `_half_done` | violation | | see Findings |
| `ReaderViewer_sessions` | pass | 434 844 | two changes of the repository, two faults of seven kinds, fairness |
| `GitProcess_pipe` | pass | 43 560 | a pipe and a buffer of two chunks, up to three chunks from git and three from its helper, failing starts, empty writes, programs ended from outside, fairness |
| `RoleLock_instances` | pass | 33 194 | two runs of the program, three of: a failed write, a crash, damage; fairness as a premise |
| `Formats` | pass | 98 489 | every text of each of nine formats, up to 3 to 6 characters of 2 to 7 kinds |

*What each shows* is in its `about` in `PROJECT.json`, and each property's comment
in its module says which behaviour of the code it is about.

*Bounds.* Every counter that a bound limits (`crashes`, `edits`, `granted`,
`commands`, `faults`, `moves`) counts causes, not program steps, so that after
the last fault the program still runs on. Two names are enough for one reader to
be changed and another to be kept, and `ChapterPublishing` has a third whose name
holds a colon; its chapters are 1 and 12, so that a torn number is another
chapter that exists; a second key tells a lost update from a kept one; two
chapters tell a level from another and a revoked chapter from a kept one. Three
commands allow a registration, an edit and a new encryption in one behaviour,
and two faults allow a failure while recovering from the first. Two changes of
the repository let access.txt and a chapter change one after the other within a
session; a third key is for the keypair after a lost one. More output than the
pipe holds and a buffer smaller than the output make both sides of `GitProcess`
wait. Three faults let `RoleLock` crash in the write that repairs what a crash
left. In `Formats` the largest `int` is 92, so that numbers of two digits lie on
both sides of it, and each alphabet has one character of every kind that the code
treats in its own way. The bounds matter for TLC only: the theorems below hold
for every value of them.

*What is left out of a run on purpose.* `ChapterPublishing_push` has only failing
pushes, because `SuccessIsPublished` and `WrappedReadersAreListed` do not hold
when a commit fails (`ChapterPublishing_commit` shows it);
`WrappedReadersAreOnDisk` says what is left of the second when any git command
may fail.
`NoHalfFilePublished` speaks of crashes only, by its premise `~unwritten`: a
chapter that was cut by a full disk is staged and pushed as it is, since the code
does not look at the stream (`WriteChapter`), and readers then see it as pending.
Three things that the code does to `access.txt` break what the properties of
`ChapterPublishing` would otherwise say, and each of them names those it excepts,
and no others (TLC finds a violation when the exception is taken out):

* *Colons.* A reader with a colon in the name or the key is wrapped from memory and
  has no line that can be read. `WrapsFollowAccessFile` and
  `WrappedReadersAreListed` speak of `PlainWraps`, the wrapped keys without one;
  `ImplementsPublishedFolder` of the readers who are `IsPlain`: one with a colon is
  unknown after a restart and is taken again with another key.
* *A rewrite that is broken off* (`cut`). `NoUngrantedWrap` allows a key for a
  chapter whose number begins the number of a granted one, once there was such a
  rewrite, and nothing else. `WrappedReadersAreOnDisk` and
  `ImplementsPublishedFolder` have `~cut` as a premise, because readers get lost.
  `WrapsFollowAccessFile` needs no such premise: after the crash, file and map
  agree on what is left.
* *Files that cannot be written* (`unwritten`) and *hand edits* (`edits`), after
  which the map in memory and the file differ.

`GrantProvenance` makes the same exception: after a broken rewrite the chapters of
an entry may be what is left of the digits of granted ones.

`PlaintextNotCommitted` has two premises: that `.gitignore` did not come with a
line that mentions `chapters-source/` without ignoring it (`seed_gitignore` looks
for the text anywhere and then adds nothing), and that a missing entry could be
written, which `seed_gitignore` does not look at (`unseeded`). `ReadableDecrypts` has the same kind
of premise for a private key file that was lost or could not be written: without
it the reader of the next session has another keypair. `OutputComplete` and
`NobodyCutOff` except calls in which a program wrote nothing into the pipe, and
`RunningRoleIsStored` excepts first runs that overlap and writes that fail.

*Fairness.* `ChapterPublishing` assumes weak fairness of the steps of a command
only: the program does not wait between them, and the writer answers its prompts.
That the writer pushes by hand after a failed push is a premise inside
`FailedPushIsMadeUp`. `ReaderViewer` assumes weak fairness of the steps between
the launch prompts and the menu (`Fetching`); `PublishedGetsReadable` has the
reader coming back again and again, and the chapter staying published, as its
premises. `GitProcess` assumes weak fairness of the caller, of git and of its
helper, each of them only while the pipe lets it go on: nothing in the code
bounds the time a git command takes, so that no more can be promised than that
the pipe itself does not stop anybody. `RoleLock` has the fairness of a run, and
that it is alone from some point on, as premises of `RoleGetsLocked`: two first
runs that keep hiding the file from each other need never write it. The registry,
the bootstrap and the formats have safety properties only.

## Findings

Each is a run that must end in the violation of one property, which states what
the repository says of the program.

* `ChapterPublishing_commit`: a failed commit is followed by a push of nothing,
  which is a success (`ChapterEncryptionService.h:21`).
* `GitBootstrap_token`: a push to a URL records no remote-tracking branch, so
  `--set-upstream-to` can never succeed after it (`specs/001:150`).
* `GitBootstrap_half_done`: `.git` alone decides what the menu offers, and exists
  before the push is tried (`specs/002:87`).

Observations that are in the models and have no run of their own:

* A line of `access.txt` that was skipped as malformed is deleted by the next
  change of any reader, though `AccessRegistry.h:66` speaks of a rewrite "in
  place" (`PersistLine` writes what the map has).
* The registry is loaded once. A hand edit while the program is at its menu does
  not count for the next encryption and is undone by the next rewrite
  (`HandEdit`), where `specs/003:129` speaks of the readers there are. In the
  same way two writer's programs in one folder undo each other's registrations.
* A crash or a full disk in the middle of `persist` can leave a grant of chapter 12
  as one of chapter 1 (`AccessRegistry.cpp:221`): the next start takes it for one,
  and the next encryption of chapter 1 wraps its key for that reader, who was never
  allowed it (`CutChapters`; the exceptions in `GrantProvenance` and
  `NoUngrantedWrap`).
* The same crash can empty or shorten `access.txt` (`AccessRegistry.cpp:210`). The
  readers behind the cut are gone from it, the next registration commits and
  pushes the rest, and a lost reader can be registered again with another key
  while published chapters still have the old one (`CutShort`; the premise `~cut`
  of `WrappedReadersAreOnDisk` and `ImplementsPublishedFolder`).
* Names and keys are written unescaped (`AccessRegistry.cpp:219`), so that a reader
  with a colon in the name gets wrapped keys without a line that any load accepts,
  and is gone after the next start (`LineOf` gives such a line a fifth field; the
  key `k1` of `AccessRegistry_faults` and the name `eve` of `ChapterPublishing` are
  such).
* Whether the entry could be written to `.gitignore` is not looked at
  (`GitBootstrapService.cpp:66`); if not, `git add .` stages the plaintext and it is
  committed and pushed (`SeedGitignore`, the premise `~unseeded` of
  `PlaintextNotCommitted`).
* The two early refusals of `encrypt_chapter` print nothing and `main.cpp:111`
  drops the result (`EncryptRefused`).
* Whether the remote is empty is derived from a size that lags behind its commits
  (`GetRepo`); the push is then refused, and `.git` stays.
* `.gitignore` is searched for a piece of text (`SeedGitignore`).
* The writer may use chapter 0, whose number leaves the reader's menu (`Choose`).
* A listing or a chapter that could not be fetched is shown as an empty menu or a
  pending chapter, where `specs/004:149` asks for a clear error (`List`,
  `FetchChapter`).
* An arrow key in the masked prompt becomes two characters of the password
  (`MaskedKey`).
* A crash before the last step of `RoleStore::write` leaves a role file that is
  right, but visible (`RunningRoleIsStored`); it stays so, since a stored role is
  not written again.
* Control characters in a reader's name are escaped by `to_json` and dropped by
  `from_json` (`ChapterFileRoundTrip` says exactly what is lost); a quote in the
  name of a file in a listing cuts the name (`ListingIsTheFolder`).
* A push whose answer is lost is reported as failed though it succeeded
  (`GitPush`).

## Proofs

Everything under `theorems` in `PROJECT.json` is proved for all values of the
constants from the named `ASSUME`s of the modules alone, unless the theorem
itself states an assumption. They say that chapters and bounds are natural
numbers; that `None` is none of the values it stands apart from (a chapter's
number that was not parsed is no number, `NoneAssumption`); that the kinds of
faults are the known ones; that the bytes to encode are an `unsigned char` each
(`BytesAssumption`); and that GitHub answers with base64 where a file's content
is and with digits where a size is, so that no quote, backslash, comma or brace
can stand there (`AnswersAssumption`). TLC evaluates all of them.

Each module of proofs about a state machine has an inductive invariant (`IInv`;
in `GitProofs`, which is about two machines, `BootstrapInv` and `ProcessInv`), one
lemma per step or per conjunct, and then the theorems. All safety invariants of
the passing runs are proved, and so are the action properties
(`ForeignHistoryKept`, `LockHolds`) and both refinements (`ImplementsDirectory`,
`ImplementsPublishedFolder`).

**`AccessRegistryProofs`.** `MemoryMatchesFile` is not inductive: that file and map
agree when a load or a rewrite ends depends on what it did on its way. `IInv`
therefore says what a load has established up to its position (`LoadingUpTo`:
the map is what the lines read so far say), what a rewrite has put on disk up to
its position (`Rewriting`: one line per listed name), and what the file that is
being replaced said (`ImageMatches`). `Loaded` defines the outcome of a load
without the loop, as the last valid line of a name; `LoadedNextLine` is the step
of the loop, and `FinishedRewriteIsMap` combines the single line per name that
`OrderMatchesReaders` guarantees with `WrittenLineIsRead`, the fact that a
written line is read back as the entry it was made of.

`ProvenanceCorrect` needs more: as long as nothing was cut, every entry and every
line is a grant as it was given; after that an entry may be torn, read back,
written and torn again, so that `AllBacked` holds of the map and of every line of the file alike,
and `CutOfCut` shows that dropping digits twice is dropping digits once. The
model of dropped digits divides by the powers of ten that an `int` has, hence the
assumption `NumbersAreInts` (no chapter number above 2147483647): the program has
them in an `int`. `DirectoryCorrect`, the refinement of
`ReaderDirectory`, assumes `NothingFails` (no crash, hand edit, full disk or
colon), under which the abstract map is the map in memory or, while the program
is down or loading, what the file says.

**`ChapterPublishingProofs`.** A key in a chapter file goes from the disk to the
index, the head and the remote, each by a step that looks at nothing but the tree
before it. So every property of what is published is stated for all four trees:
`GrantsCover` (keys were granted, or granted for a chapter whose number begins with
these digits once a rewrite was cut; and so was all that the map and `access.txt`
allow), `HalfFilesStay` (half a file is on disk only, and is replaced before it is
staged), `DiskIsRegistry` (outside a rewrite a load of `access.txt` gives what can
be read back of the map; as long as no rewrite was cut it lists everybody who has a
key anywhere). `Readable` is what makes a reload a step of no consequence: what a
load made of a file is read back unchanged after it was written again.
`SuccessIsPublished` and `WrappedReadersAreListed` are false when commits fail, and
are proved under `OnlyPushFails`, with the invariant `PInv`: what is staged, what
commits list, and that a report is true of the file made now.
`PublishedFolderCorrect` rests on `InOrder`: the remote is behind the head, the head
behind the index and the index behind the disk, where "behind" is fewer readers
with the same keys and fewer chapters with a file; a push can then only add some. It holds as
long as no write failed or was cut and nobody edited by hand, the premises of the
property.

**`GitProofs`.** Of the bootstrap: `PlaintextNotCommitted` follows from `Seeded` (from the
questions on, `.gitignore` mentions the folder, unless it could not be written) and `PlaintextByDecoy` (plaintext
is staged only if a decoy kept the entry out); `TrackingIsHonest` from
`TrackingFromPush` (tracking comes from a push that GitHub took).

Of the process: `OutputComplete` follows from `PipeCarriesAll`: what was
written is what was read followed by what is in the pipe, and nobody writes once
nobody reads. `HandlesFollowPlace` gives `NoHandleLeft`.

**`RoleLockProofs`.** `FileFollowsChoice`: as long as first runs do not overlap, at
most one instance is between question and write, and the file has no role
before its text is written and the instance's role afterwards. `LockHolds` is
proved as an action property for any number of instances.

**`ReaderViewerProofs`.** `OneKey`: as long as the key file is kept, the key in it
is the only one ever sent, hence the only one the folder uses, hence the one that
the files in the menu are for. `SessionIsExact` says for every request of an
undisturbed session what it has got so far, from which `MenuIsExact` follows.

**`Folding`, `FormatsProofs` and `ChapterFileProofs`.** `Formats` has no
invariant worth the name: any text of the format is reachable
(`TextIsOfFormat`), and the theorems are about what loops compute of it. The
loops are `FoldLeft`s, and the library's induction principles take an operator
as a parameter, which the provers cannot put in. So induction is stated with
sets: a set of naturals with 0 in it that is closed under adding one is `Nat`
(`SetInduction`, from the least element of a set of naturals), a set of
sequences with the empty one that is closed under `Append` is `Seq(V)`
(`SeqInduction`). `Folding` has what is true of every loop, with its `Step` as a
CONSTANT: `FoldLeft` of an empty sequence, of one with one more element, and of
two sequences put together. It is instantiated once for each loop of the code.

* `NumbersCorrect` (`NumbersAreExact`): the invariant of `split` relates its parts
  to the positions of the separators (`AreParts`), from which the parts are found
  to be exactly the pairs of neighbouring commas that the property speaks of
  (`PartsOfPairs`); the numbers inserted so far are those of the parts so far
  (`AreNumbers`), of which there are as many because a repetition is an error; and
  an error has a reason that stays whatever follows, a part that is no number or
  fewer numbers than parts (`IsBadList`), so that no good list is refused.
* `PasswordCorrect` (`PasswordIsWhatWasMeant`): the characters that the reference
  definition keeps by balancing each backspace with a character are a stack: a
  character adds the last position to them and a backspace takes the greatest
  out (`KeptNext`).
* `ArgumentsArriveCorrect` (`ArgumentsArrive`): `quote_argument` holds back the
  backslashes it has seen (`Held`) until it knows whether a quote follows, and the
  runtime does the same on the other side; the lemmas say in which state the
  runtime is behind every prefix of the line. A command line is taken apart
  argument by argument, the state `Between` two of them depending on none.
* `BytesCorrect` (`Base64RoundTrip`): four characters give three bytes back
  whatever is left in the bit buffer above them and whatever overflows
  (`LowerBits`, `FoldFour`), a line end is a step that changes nothing, and what
  is read later can only append (`DecodingGrows`), so that what is cut is a
  prefix.
* `AnswersCorrect` (`AnswersAreWholeOrNothing`): a field is found by the least
  position of its name in quotes and a colon, so that the proof fixes the layout
  of an answer character by character (`LaidOut`) and shows for each cut which of
  the delimiters it still has (`TwoFields`, `Enclosed`): a field whose closing
  quote or comma is lost is empty. `strip_base64_newline_escapes` is shown to
  remove pairs of characters at the positions `Dropped`, which are those of the
  line ends of the file (`StrippedLineEnd`, `LinesAreText`).
* `FolderListingCorrect` (`ListingIsTheFolder`): the names shown for two texts in a
  row are those of the first followed by those of the second, as long as the first
  ends where an object does (`EntriesConcat`); the name in one item is what stands
  before its first quote (`NameShown`), and an item that is cut shows its name or
  nothing (`ItemEntry`). The listing is then read by induction over its items, with
  what a cut leaves of the folder as the invariant (`ListingRead`).
* `ChapterFileCorrect` (`ChapterFileIsWholeOrNothing`): the parser is a fold with
  `ParseCharacter` as its step, so that its state behind a text is built up from
  the pieces `to_json` writes: an escaped text (`TextRead`), a string
  (`StringRead`), a member (`MemberRead`), the map of wrapped keys by induction
  over its names (`MapRead`), and the file up to its last brace (`FrontRead`). The
  whole file is read back as what was written, less the control characters. Behind
  the end nothing is looked at any more (`EndIsKept`) and only the last brace leads
  there (`FileParsed`), so that no proper part of a file is taken for one.

*Only model-checked.* Liveness (`FailedPushIsMadeUp`, `PublishedGetsReadable`,
`Returns`, `RoleGetsLocked`) is out of the prover's reach. The runs that end in a
violation have, of course, no theorem.

## Not modelled

* Encryption and signatures inside `CryptoProvider`: a wrapped key opens with its
  own private key and with no other; authenticated decryption with the right key
  succeeds on the ciphertext that was made and on no other. The calls into OpenSSL
  and their internal failures have no state of the program's own.
* DPAPI: protecting and unprotecting the key file is not told apart from writing
  and reading it.
* The seven WinHTTP calls of a request, one by one: a request fails, is answered
  or breaks off, which is all that the caller learns.
* Standard input, which git inherits; key codes above one character; the end of
  standard input, at which the prompts that insist on an answer never end. The
  plain prompts are choices in the modules.
* Colours and message wording (`ConsoleStyle`). Arguments outside ASCII, of which
  `to_wide` makes other characters.
* `git pull` and merges: the program runs none. The writer has one clone, so that
  a push is refused by GitHub only in the bootstrap; a rejected push of a later
  command is one of the failing ones.
* Several writers' repositories or usernames in one reader's process: each
  session starts from the prompts and shares only the key store, by username.

## State of the plan

The plan is carried out: every component with state of its own is modelled in all
its operations, and every safety property of the passing runs is proved. What
could be added to the model is small: several writers' programs in one folder as
instances of `ChapterPublishing` (nothing in the code promises anything about
them).
