----------------------------- MODULE GitBootstrap -----------------------------
(***************************************************************************)
(* writer/GitBootstrapService and WriterMenu: the one-time "Initialize     *)
(* repo" of a folder, on a model of git and of the repository on GitHub.   *)
(* Every git command is a process of its own that may fail, and the        *)
(* program may be closed between any two of them.                          *)
(***************************************************************************)
EXTENDS Naturals, Sequences

CONSTANTS
    Failing,        \* the git commands that may fail by themselves, "seed" for the write of
                    \* .gitignore, and "crash"
    RemoteMoves,    \* whether somebody else may push to the repository meanwhile
    SizeLags,       \* whether GitHub may report size 0 for a repository with commits
    MaxFaults       \* bound: failing commands and writes, and crashes, in a behaviour

\* The commands between the validation and the push, in their order.
Commands == <<"init", "branch", "identity", "add", "commit", "origin">>
LocalCommands == {Commands[i] : i \in 1..Len(Commands)}

ASSUME BootstrapAssumption ==
    /\ RemoteMoves \in BOOLEAN /\ SizeLags \in BOOLEAN
    /\ Failing \subseteq LocalCommands \cup {"seed", "push", "upstream", "crash"}
    /\ MaxFaults \in Nat

VARIABLES
    pc,         \* "menu", a step of run(), or "off"
    token,      \* whether the writer gave a token
    ignore,     \* the lines of .gitignore that mention chapters-source/: the entry, and one
                \* that leaves the folder alone (a comment, say)
    unseeded,   \* history: a missing entry could not be written, or not all of the lines
    repo,       \* the local repository
    identity,   \* whether the machine has a global user.name and user.email
    remote,     \* the repository on GitHub: "missing", "empty", "theirs" or "ours"
    seen,       \* history: the remote as it was when get_repo was last called
    result,     \* the outcome of the last command
    faults      \* faults so far

vars == <<pc, token, ignore, unseeded, repo, identity, remote, seen, result, faults>>

Files == {".gitignore", "plaintext", "other"}

NoRepo == [dir |-> FALSE, branch |-> FALSE, identity |-> FALSE, staged |-> {},
           committed |-> {}, origin |-> FALSE, tracking |-> FALSE, upstream |-> FALSE]

Init ==
    /\ pc = "menu"
    /\ token \in BOOLEAN
    /\ ignore \in SUBSET {"entry", "decoy"}
    /\ unseeded = FALSE
    /\ repo = NoRepo
    /\ identity \in BOOLEAN
    /\ remote \in {"missing", "empty", "theirs"}
    /\ seen = "unknown"
    /\ result = "none"
    /\ faults = 0

Fails(what) ==
    /\ what \in Failing
    /\ faults < MaxFaults
    /\ faults' = faults + 1

\* available_commands: the initialization until there is a .git, the other two from then on.
OffersInitialize == ~repo.dir
OffersEncrypt == repo.dir

-------------------------------------------------------------------------------
(* run(), up to the first git command. *)

\* ensure_git_installed: git is there, or winget installs it, or the run ends.
EnsureGit ==
    /\ pc = "menu"
    /\ OffersInitialize
    /\ \/ pc' = "seed" /\ result' = "none"
       \/ UNCHANGED pc /\ result' = "git_unavailable"
    /\ UNCHANGED <<token, ignore, unseeded, repo, identity, remote, seen, faults>>

\* Variant for mutation: an existing .gitignore is left alone.
SeedGitignoreNever ==
    /\ pc = "seed"
    /\ pc' = "ask"
    /\ UNCHANGED <<token, ignore, unseeded, repo, identity, remote, seen, result, faults>>

\* Variant for mutation: the entry that is written names another folder.
SeedGitignoreOtherFolder ==
    /\ pc = "seed"
    /\ pc' = "ask"
    /\ ignore' = IF ignore = {} THEN {"chapters"} ELSE ignore
    /\ UNCHANGED <<token, unseeded, repo, identity, remote, seen, result, faults>>

\* seed_gitignore looks for the text "chapters-source/" anywhere in the file, and appends
\* the entry when it is not there.  Nothing looks at whether the file could be opened and
\* written: the run goes on without the entry, or with it and not the line behind it.
SeedGitignore ==
    /\ pc = "seed"
    /\ pc' = "ask"
    /\ \/ /\ ignore' = IF ignore = {} THEN {"entry"} ELSE ignore
          /\ UNCHANGED <<unseeded, faults>>
       \/ /\ ignore = {}
          /\ Fails("seed")
          /\ ignore' \in {{}, {"entry"}}
          /\ unseeded' = TRUE
    /\ UNCHANGED <<token, repo, identity, remote, seen, result>>

\* The four questions; a blank token means none.
Ask ==
    /\ pc = "ask"
    /\ pc' = "validate"
    /\ token' \in BOOLEAN
    /\ UNCHANGED <<ignore, unseeded, repo, identity, remote, seen, result, faults>>

\* What get_repo may make of GitHub's answer.  A private repository is not found without a
\* token; has_commits comes from the reported size.
GetRepo ==
    {"network_error", "unauthorized"}
    \cup (IF remote = "missing" \/ ~token THEN {"not_found"} ELSE {})
    \cup (IF remote \in {"theirs", "ours"} THEN {"has_commits"} ELSE {})
    \cup (IF remote = "empty" \/ (SizeLags /\ remote # "missing") THEN {"empty"} ELSE {})

\* validate_repo_info: only an empty repository lets the run go on.
Validate ==
    /\ pc = "validate"
    /\ \E answer \in GetRepo :
          IF answer = "empty" THEN pc' = "init" /\ UNCHANGED result
          ELSE /\ pc' = "menu"
               /\ result' = CASE answer = "not_found"   -> "repo_not_found"
                              [] answer = "has_commits" -> "remote_not_empty"
                              [] OTHER                  -> answer
    /\ seen' = remote
    /\ UNCHANGED <<token, ignore, unseeded, repo, identity, remote, faults>>

-------------------------------------------------------------------------------
(* The git commands.  An exit code is looked at for the push and the upstream only. *)

Ignored == IF "entry" \in ignore THEN {"plaintext"} ELSE {}

\* What a local command does when nothing goes wrong.  Without a .git all of them fail.
After(command) ==
    IF command = "init" THEN [repo EXCEPT !.dir = TRUE]
    ELSE IF ~repo.dir THEN repo
    ELSE CASE command = "branch" -> [repo EXCEPT !.branch = TRUE]
           [] command = "identity" -> [repo EXCEPT !.identity = TRUE]
           [] command = "add" -> [repo EXCEPT !.staged = Files \ Ignored]
           [] command = "commit" ->
                IF repo.identity \/ identity THEN [repo EXCEPT !.committed = repo.staged]
                ELSE repo
           [] command = "origin" -> [repo EXCEPT !.origin = TRUE]

Following(i) == IF i = Len(Commands) THEN "push" ELSE Commands[i + 1]

RunCommand(i) ==
    /\ pc = Commands[i]
    /\ pc' = Following(i)
    /\ \/ repo' = After(pc) /\ UNCHANGED faults
       \/ Fails(pc) /\ UNCHANGED repo
    /\ UNCHANGED <<token, ignore, unseeded, identity, remote, seen, result>>

\* Whether GitHub takes a push of the branch: there is a commit, and no foreign history.
Accepted == repo.committed # {} /\ remote \in {"empty", "ours"}

\* Variant for mutation: the push is forced.
PushForced ==
    /\ pc = "push"
    /\ \/ /\ repo.committed # {} /\ repo.origin
          /\ remote' = "ours"
          /\ repo' = [repo EXCEPT !.tracking = TRUE, !.upstream = TRUE]
          /\ pc' = "menu" /\ result' = "success"
       \/ pc' = "menu" /\ result' = "push_failed" /\ UNCHANGED <<repo, remote>>
    /\ UNCHANGED <<token, ignore, unseeded, identity, seen, faults>>

\* `push -u origin <branch>`, which also sets the upstream.
PushToOrigin ==
    /\ pc = "push"
    /\ ~token
    /\ IF Accepted /\ repo.origin /\ repo.branch
       THEN /\ remote' = "ours"
            /\ repo' = [repo EXCEPT !.tracking = TRUE, !.upstream = TRUE]
            /\ result' = "success"
       ELSE result' = "push_failed" /\ UNCHANGED <<repo, remote>>
    /\ pc' = "menu"
    /\ UNCHANGED <<token, ignore, unseeded, identity, seen, faults>>

\* `push <url with the token> HEAD:<branch>`: no remote is named, so that git records no
\* remote-tracking branch.
PushToUrl ==
    /\ pc = "push"
    /\ token
    /\ IF Accepted
       THEN remote' = "ours" /\ pc' = "upstream" /\ UNCHANGED result
       ELSE pc' = "menu" /\ result' = "push_failed" /\ UNCHANGED remote
    /\ UNCHANGED <<token, ignore, unseeded, repo, identity, seen, faults>>

\* The authentication or the connection fails, the latter perhaps when GitHub has taken
\* the commit already.
PushFails ==
    /\ pc = "push"
    /\ Fails("push")
    /\ \/ UNCHANGED remote
       \/ Accepted /\ remote' = "ours"
    /\ pc' = "menu" /\ result' = "push_failed"
    /\ UNCHANGED <<token, ignore, unseeded, repo, identity, seen>>

\* Variant for mutation: the exit code of --set-upstream-to is not looked at.
SetUpstreamUnchecked ==
    /\ pc = "upstream"
    /\ pc' = "menu"
    /\ repo' = [repo EXCEPT !.upstream = repo.tracking /\ repo.branch]
    /\ result' = "success"
    /\ UNCHANGED <<token, ignore, unseeded, identity, remote, seen, faults>>

\* `branch --set-upstream-to=origin/<branch>` wants the remote-tracking branch.
SetUpstream ==
    /\ pc = "upstream"
    /\ pc' = "menu"
    /\ \/ /\ repo' = [repo EXCEPT !.upstream = repo.tracking /\ repo.branch]
          /\ result' = IF repo'.upstream THEN "success" ELSE "success_untracked"
          /\ UNCHANGED faults
       \/ Fails("upstream") /\ result' = "success_untracked" /\ UNCHANGED repo
    /\ UNCHANGED <<token, ignore, unseeded, identity, remote, seen>>

-------------------------------------------------------------------------------
(* The world around it. *)

\* Somebody creates the repository, or commits to it (a README on GitHub, say).
RemoteChanges ==
    /\ RemoteMoves
    /\ \/ remote = "missing" /\ remote' = "empty"
       \/ remote = "empty" /\ remote' = "theirs"
    /\ UNCHANGED <<pc, token, ignore, unseeded, repo, identity, seen, result, faults>>

\* The program is closed or dies, and is started again.
Crash ==
    /\ pc # "off"
    /\ Fails("crash")
    /\ pc' = "off"
    /\ result' = "none"
    /\ UNCHANGED <<token, ignore, unseeded, repo, identity, remote, seen>>

Restart ==
    /\ pc = "off"
    /\ pc' = "menu"
    /\ UNCHANGED <<token, ignore, unseeded, repo, identity, remote, seen, result, faults>>

\* The commands behind the other menu items: is_bootstrapped, and then a plain `push`.
Encrypt ==
    /\ pc = "menu"
    /\ OffersEncrypt
    /\ result' = IF ~repo.origin THEN "not_bootstrapped"
                 ELSE IF repo.upstream /\ remote = "ours" THEN "pushed" ELSE "push_failed"
    /\ UNCHANGED <<pc, token, ignore, unseeded, repo, identity, remote, seen, faults>>

Push == PushToOrigin \/ PushToUrl \/ PushFails

Next ==
    \/ EnsureGit
    \/ SeedGitignore
    \/ Ask
    \/ Validate
    \/ \E i \in 1..Len(Commands) : RunCommand(i)
    \/ Push
    \/ SetUpstream
    \/ RemoteChanges
    \/ Crash
    \/ Restart
    \/ Encrypt

Spec == Init /\ [][Next]_vars

-------------------------------------------------------------------------------
(* Properties. *)

\* Every variable has its type.
TypeOK ==
    /\ pc \in {"off", "menu", "seed", "ask", "validate", "push", "upstream"} \cup LocalCommands
    /\ token \in BOOLEAN /\ identity \in BOOLEAN
    /\ ignore \subseteq {"entry", "decoy"}
    /\ unseeded \in BOOLEAN
    /\ repo \in [dir : BOOLEAN, branch : BOOLEAN, identity : BOOLEAN, staged : SUBSET Files,
                committed : SUBSET Files, origin : BOOLEAN, tracking : BOOLEAN,
                upstream : BOOLEAN]
    /\ remote \in {"missing", "empty", "theirs", "ours"}
    /\ seen \in {"unknown", "missing", "empty", "theirs", "ours"}
    /\ result \in {"none", "git_unavailable", "network_error", "unauthorized",
                   "repo_not_found", "remote_not_empty", "push_failed", "success",
                   "success_untracked", "not_bootstrapped", "pushed"}
    /\ faults \in 0..MaxFaults

\* specs/001 AC9: however the run is interrupted and whichever git command fails, the
\* initial commit never holds a file of chapters-source/.  Two premises, which the code does
\* not make sure of: .gitignore did not mention the folder in another way when the run began
\* (seed_gitignore takes the entry as present), and an entry that was missing was written.
PlaintextNotCommitted ==
    ~unseeded /\ ignore # {"decoy"} => "plaintext" \notin repo.committed

\* A repository that holds somebody else's commits is never overwritten, whatever was
\* validated, failed or changed before the push.
ForeignHistoryKept == [][remote = "theirs" => remote' = "theirs"]_vars

\* GitBootstrapService.cpp:212 "must never be reported as ... now tracks": a success with
\* tracking means that the branch tracks origin and the commit is on GitHub.
TrackingIsHonest ==
    result = "success" => repo.upstream /\ repo.origin /\ remote = "ours"

\* specs/001:150-152 "so future plain `git push` ... work normally against `origin`": a
\* push of the bootstrap that went through leaves a folder with an upstream.
PushedFolderTracks ==
    pc = "menu" /\ result \in {"success", "success_untracked"} => repo.upstream

\* specs/002:87 "only reachable after spec 001's bootstrap has completed successfully in
\* this folder (git initialized, `origin` configured, upstream tracking set)".
EncryptNeedsBootstrap ==
    pc = "menu" /\ OffersEncrypt => repo.origin /\ repo.upstream

===============================================================================
