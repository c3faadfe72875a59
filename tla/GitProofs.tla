------------------------------- MODULE GitProofs ------------------------------
(***************************************************************************)
(* Theorems about what the writer's program does with git: GitBootstrap,   *)
(* for every set of commands that may fail, every number of faults and a   *)
(* remote that moves and lags or does not; and GitProcess, which runs each *)
(* of its commands, for every size of the pipe and of the buffer and every *)
(* length of the output.                                                   *)
(***************************************************************************)
EXTENDS GitBootstrap, GitProcess, TLAPS, SequenceTheorems

-------------------------------------------------------------------------------
(* The bootstrap. *)

\* From the questions to the push, .gitignore mentions the folder, if it could be written.
Seeded ==
    pc \in {"ask", "validate", "push", "upstream"} \cup LocalCommands =>
        unseeded \/ ignore # {}

\* The plaintext gets into the index by the decoy or a failed write only, so that nothing
\* is staged before.
PlaintextByDecoy ==
    "plaintext" \in repo.staged \cup repo.committed => unseeded \/ ignore = {"decoy"}

\* Tracking comes from a push to origin that GitHub took, and the upstream from tracking.
TrackingFromPush ==
    repo.tracking \/ repo.upstream => repo.origin /\ remote = "ours"

\* A result is there at the menu only, and success is not reported without an upstream.
SuccessHasUpstream ==
    /\ pc # "menu" => result = "none"
    /\ result = "success" => repo.upstream

BootstrapInv ==
    /\ TypeOK
    /\ Seeded
    /\ PlaintextByDecoy
    /\ TrackingFromPush
    /\ SuccessHasUpstream

\* The commands, one by one.
LEMMA CommandNames ==
    /\ DOMAIN Commands = 1..6 /\ Len(Commands) = 6
    /\ Commands[1] = "init" /\ Commands[2] = "branch" /\ Commands[3] = "identity"
    /\ Commands[4] = "add" /\ Commands[5] = "commit" /\ Commands[6] = "origin"
    /\ LocalCommands = {"init", "branch", "identity", "add", "commit", "origin"}
  <1>1. /\ DOMAIN Commands = 1..6 /\ Len(Commands) = 6
        /\ Commands[1] = "init" /\ Commands[2] = "branch" /\ Commands[3] = "identity"
        /\ Commands[4] = "add" /\ Commands[5] = "commit" /\ Commands[6] = "origin"
    BY DEF Commands
  <1>2. LocalCommands = {Commands[1], Commands[2], Commands[3], Commands[4], Commands[5],
                         Commands[6]}
    BY <1>1 DEF LocalCommands
  <1> QED
    BY <1>1, <1>2

\* At first the invariant holds.
LEMMA BootstrapInitEstablishes == Init => BootstrapInv
  <1> SUFFICES ASSUME Init PROVE BootstrapInv
    OBVIOUS
  <1>1. TypeOK
    <2>1. /\ pc = "menu" /\ token \in BOOLEAN /\ identity \in BOOLEAN /\ unseeded \in BOOLEAN
          /\ ignore \subseteq {"entry", "decoy"}
          /\ remote \in {"missing", "empty", "theirs"} /\ seen = "unknown" /\ result = "none"
      BY DEF Init
    <2>2. repo \in [dir : BOOLEAN, branch : BOOLEAN, identity : BOOLEAN,
                    staged : SUBSET Files, committed : SUBSET Files, origin : BOOLEAN,
                    tracking : BOOLEAN, upstream : BOOLEAN]
      BY DEF Init, NoRepo
    <2>3. faults \in 0..MaxFaults
      BY BootstrapAssumption DEF Init
    <2> QED
      BY <2>1, <2>2, <2>3 DEF TypeOK
  <1>2. Seeded
    BY CommandNames DEF Init, Seeded
  <1>3. PlaintextByDecoy /\ TrackingFromPush /\ SuccessHasUpstream
    BY DEF Init, PlaintextByDecoy, TrackingFromPush, SuccessHasUpstream, NoRepo
  <1> QED
    BY <1>1, <1>2, <1>3 DEF BootstrapInv

\* What a local command makes of the repository.
LEMMA CommandEffect ==
    ASSUME TypeOK, NEW c \in LocalCommands
    PROVE  LET r == After(c) IN
           /\ r \in [dir : BOOLEAN, branch : BOOLEAN, identity : BOOLEAN,
                     staged : SUBSET Files, committed : SUBSET Files, origin : BOOLEAN,
                     tracking : BOOLEAN, upstream : BOOLEAN]
           /\ r.tracking = repo.tracking /\ r.upstream = repo.upstream
           /\ repo.origin => r.origin
           /\ "plaintext" \in r.staged \cup r.committed =>
                 \/ "plaintext" \in repo.staged \cup repo.committed
                 \/ c = "add" /\ "entry" \notin ignore
  <1>1. c \in {"init", "branch", "identity", "add", "commit", "origin"}
    BY CommandNames
  <1>2. CASE c = "init" \/ ~repo.dir
    BY <1>2 DEF TypeOK, After
  <1>3. CASE c = "branch" /\ repo.dir
    BY <1>3 DEF TypeOK, After
  <1>4. CASE c = "identity" /\ repo.dir
    BY <1>4 DEF TypeOK, After
  <1>5. CASE c = "add" /\ repo.dir
    BY <1>5 DEF TypeOK, After, Ignored, Files
  <1>6. CASE c = "commit" /\ repo.dir
    BY <1>6 DEF TypeOK, After
  <1>7. CASE c = "origin" /\ repo.dir
    BY <1>7 DEF TypeOK, After
  <1> QED
    BY <1>1, <1>2, <1>3, <1>4, <1>5, <1>6, <1>7

\* A git command is run, or fails.
LEMMA RunCommandKeeps ==
    ASSUME BootstrapInv, NEW i \in 1..Len(Commands), RunCommand(i)
    PROVE  BootstrapInv'
  <1>1. pc \in LocalCommands /\ pc' \in LocalCommands \cup {"push"}
    BY CommandNames DEF RunCommand, Following
  <1>2. pc # "menu" /\ pc' # "menu"
    BY <1>1, CommandNames
  <1>3. /\ UNCHANGED <<token, ignore, unseeded, identity, remote, seen, result>>
        /\ repo' = After(pc) \/ repo' = repo
        /\ faults' \in 0..MaxFaults
    BY BootstrapAssumption DEF RunCommand, Fails, BootstrapInv, TypeOK
  <1>4. /\ repo' \in [dir : BOOLEAN, branch : BOOLEAN, identity : BOOLEAN,
                      staged : SUBSET Files, committed : SUBSET Files, origin : BOOLEAN,
                      tracking : BOOLEAN, upstream : BOOLEAN]
        /\ repo'.tracking = repo.tracking /\ repo'.upstream = repo.upstream
        /\ repo.origin => repo'.origin
        /\ "plaintext" \in repo'.staged \cup repo'.committed =>
              \/ "plaintext" \in repo.staged \cup repo.committed
              \/ "entry" \notin ignore
    <2>1. CASE repo' = repo
      BY <2>1 DEF BootstrapInv, TypeOK
    <2>2. CASE repo' = After(pc)
      BY <1>1, <2>2, CommandEffect DEF BootstrapInv
    <2> QED
      BY <1>3, <2>1, <2>2
  <1>5. TypeOK'
    BY <1>1, <1>3, <1>4 DEF BootstrapInv, TypeOK
  <1>6. Seeded'
    BY <1>1, <1>3 DEF BootstrapInv, Seeded
  <1>7. PlaintextByDecoy'
    <2>1. unseeded \/ ignore # {}
      BY <1>1 DEF BootstrapInv, Seeded
    <2>2. ignore \subseteq {"entry", "decoy"}
      BY DEF BootstrapInv, TypeOK
    <2>3. "entry" \notin ignore => unseeded \/ ignore = {"decoy"}
      BY <2>1, <2>2
    <2> QED
      BY <1>3, <1>4, <2>3 DEF BootstrapInv, PlaintextByDecoy
  <1>8. TrackingFromPush'
    BY <1>3, <1>4 DEF BootstrapInv, TrackingFromPush
  <1>9. SuccessHasUpstream'
    BY <1>2, <1>3 DEF BootstrapInv, SuccessHasUpstream
  <1> QED
    BY <1>5, <1>6, <1>7, <1>8, <1>9 DEF BootstrapInv

\* The steps of run() before the first git command.
LEMMA PreparationKeeps ==
    ASSUME BootstrapInv, EnsureGit \/ SeedGitignore \/ Ask \/ Validate
    PROVE  BootstrapInv'
  <1> USE CommandNames DEF BootstrapInv, TypeOK, Seeded, PlaintextByDecoy, TrackingFromPush,
          SuccessHasUpstream
  <1>1. CASE EnsureGit
    BY <1>1 DEF EnsureGit
  <1>2. CASE SeedGitignore
    <2>1. /\ pc = "seed" /\ pc' = "ask"
          /\ UNCHANGED <<token, repo, identity, remote, seen, result>>
      BY <1>2 DEF SeedGitignore
    <2>2. /\ ignore' \subseteq {"entry", "decoy"}
          /\ unseeded' \in BOOLEAN /\ faults' \in 0..MaxFaults
      <3>1. CASE ignore' = (IF ignore = {} THEN {"entry"} ELSE ignore)
                 /\ UNCHANGED <<unseeded, faults>>
        BY <3>1
      <3>2. CASE Fails("seed") /\ ignore' \in {{}, {"entry"}} /\ unseeded' = TRUE
        BY <3>2, BootstrapAssumption DEF Fails
      <3> QED
        BY <1>2, <3>1, <3>2, Zenon DEF SeedGitignore
    <2>3. /\ unseeded' \/ ignore' # {}
          /\ unseeded \/ ignore = {"decoy"} => unseeded' \/ ignore' = {"decoy"}
      BY <1>2 DEF SeedGitignore
    <2>4. TypeOK'
      BY <2>1, <2>2
    <2>5. Seeded' /\ PlaintextByDecoy' /\ TrackingFromPush' /\ SuccessHasUpstream'
      BY <2>1, <2>3
    <2> QED
      BY <2>4, <2>5
  <1>3. CASE Ask
    BY <1>3 DEF Ask
  <1>4. CASE Validate
    <2>1. /\ \/ pc' = "init" /\ result' = result
             \/ /\ pc' = "menu"
                /\ result' \in {"network_error", "unauthorized", "repo_not_found",
                                "remote_not_empty"}
          /\ seen' = remote
          /\ UNCHANGED <<token, ignore, unseeded, repo, identity, remote, faults>>
      BY <1>4 DEF Validate, GetRepo
    <2> QED
      BY <1>4, <2>1 DEF Validate
  <1> QED
    BY <1>1, <1>2, <1>3, <1>4

\* The push, and the upstream that is set.
LEMMA PushKeeps ==
    ASSUME BootstrapInv, Push \/ SetUpstream
    PROVE  BootstrapInv'
  <1> USE CommandNames, BootstrapAssumption
      DEF BootstrapInv, TypeOK, Seeded, PlaintextByDecoy, TrackingFromPush,
          SuccessHasUpstream, Fails
  <1>1. CASE PushToOrigin
    <2>1. CASE Accepted /\ repo.origin /\ repo.branch
      <3>1. /\ pc' = "menu" /\ remote' = "ours" /\ result' = "success"
            /\ UNCHANGED <<token, ignore, unseeded, identity, seen, faults>>
            /\ repo' = [repo EXCEPT !.tracking = TRUE, !.upstream = TRUE]
        BY <1>1, <2>1 DEF PushToOrigin
      <3>2. /\ repo' \in [dir : BOOLEAN, branch : BOOLEAN, identity : BOOLEAN,
                          staged : SUBSET Files, committed : SUBSET Files,
                          origin : BOOLEAN, tracking : BOOLEAN, upstream : BOOLEAN]
            /\ repo'.staged = repo.staged /\ repo'.committed = repo.committed
            /\ repo'.origin = repo.origin /\ repo'.upstream = TRUE
        BY <3>1
      <3> QED
        BY <2>1, <3>1, <3>2
    <2>2. CASE ~(Accepted /\ repo.origin /\ repo.branch)
      BY <1>1, <2>2 DEF PushToOrigin
    <2> QED
      BY <2>1, <2>2
  <1>2. CASE PushToUrl
    BY <1>2 DEF PushToUrl
  <1>3. CASE PushFails
    BY <1>3 DEF PushFails
  <1>4. CASE SetUpstream
    BY <1>4 DEF SetUpstream
  <1> QED
    BY <1>1, <1>2, <1>3, <1>4 DEF Push

\* What happens outside of the initialization.
LEMMA WorldKeeps ==
    ASSUME BootstrapInv, RemoteChanges \/ Crash \/ Restart \/ Encrypt
    PROVE  BootstrapInv'
  <1> USE CommandNames, BootstrapAssumption
      DEF BootstrapInv, TypeOK, Seeded, PlaintextByDecoy, TrackingFromPush,
          SuccessHasUpstream, Fails
  <1>1. CASE RemoteChanges
    BY <1>1 DEF RemoteChanges
  <1>2. CASE Crash
    BY <1>2 DEF Crash
  <1>3. CASE Restart
    BY <1>3 DEF Restart
  <1>4. CASE Encrypt
    BY <1>4 DEF Encrypt
  <1> QED
    BY <1>1, <1>2, <1>3, <1>4

\* BootstrapInv is inductive, and an invariant of every run of the bootstrap.
THEOREM BootstrapInvariance == Spec => []BootstrapInv
  <1>1. BootstrapInv /\ [Next]_vars => BootstrapInv'
    <2> SUFFICES ASSUME BootstrapInv, [Next]_vars PROVE BootstrapInv'
      OBVIOUS
    <2>1. CASE UNCHANGED vars
      BY <2>1 DEF vars, BootstrapInv, TypeOK, Seeded, PlaintextByDecoy, TrackingFromPush,
                  SuccessHasUpstream
    <2>2. CASE Next
      BY <2>2, PreparationKeeps, RunCommandKeeps, PushKeeps, WorldKeeps DEF Next
    <2> QED
      BY <2>1, <2>2
  <1> QED
    BY <1>1, BootstrapInitEstablishes, PTL DEF Spec

\* Every variable keeps its type.
THEOREM BootstrapTypeCorrect == Spec => []TypeOK
  <1>1. BootstrapInv => TypeOK
    BY DEF BootstrapInv
  <1> QED
    BY <1>1, BootstrapInvariance, PTL

\* specs/001 AC9: whichever command fails and wherever the run is interrupted, no file of
\* chapters-source/ is ever committed, unless a decoy was in .gitignore from the start or
\* the entry could not be written.
THEOREM PlaintextCorrect == Spec => []PlaintextNotCommitted
  <1>1. BootstrapInv => PlaintextNotCommitted
    BY DEF BootstrapInv, PlaintextByDecoy, PlaintextNotCommitted
  <1> QED
    BY <1>1, BootstrapInvariance, PTL

\* GitBootstrapService.cpp:212: what is reported as tracking tracks, and is on GitHub.
THEOREM TrackingCorrect == Spec => []TrackingIsHonest
  <1>1. BootstrapInv => TrackingIsHonest
    BY DEF BootstrapInv, TrackingFromPush, SuccessHasUpstream, TrackingIsHonest
  <1> QED
    BY <1>1, BootstrapInvariance, PTL

\* No step of the bootstrap, of somebody else or of a crash overwrites foreign history.
THEOREM ForeignHistoryCorrect == Spec => ForeignHistoryKept
  <1>1. [Next]_vars => [remote = "theirs" => remote' = "theirs"]_vars
    BY DEF Next, vars, EnsureGit, SeedGitignore, Ask, Validate, RunCommand, Push,
           PushToOrigin, PushToUrl, PushFails, Accepted, SetUpstream, RemoteChanges, Crash,
           Restart, Encrypt
  <1> QED
    BY <1>1, PTL DEF Spec, ForeignHistoryKept

-------------------------------------------------------------------------------
(* The process of one command. *)

\* What spawn_and_capture has open, wherever it is.
HandlesFollowPlace ==
    handles = CASE at = "idle" -> {}
                [] at = "create" -> {"read", "write"}
                [] at = "started" -> {"read", "write", "process"}
                [] at = "read" -> {"read", "process"}
                [] at = "wait" -> {"process"}

\* No bytes are on their way but those that were written.
NothingEmpty == \A k \in 1..Len(pipe) : pipe[k] # Empty

\* Without a write of no bytes: what was written was read or is in the pipe, and nobody has
\* the pipe open when there is no reader.
PipeCarriesAll ==
    ~emptied =>
        /\ NothingEmpty
        /\ ~refused
        /\ at \in {"create", "idle", "wait"} => writers = {} /\ pipe = <<>>
        /\ at # "idle" => written = output \o pipe

ProcessInv ==
    /\ ProcessTypeOK
    /\ HandlesFollowPlace
    /\ PipeCarriesAll
    /\ OutputComplete

-------------------------------------------------------------------------------
(* Sequences of chunks. *)

\* What goes into the pipe goes to the end of what was written.
LEMMA WrittenGrows ==
    ASSUME NEW o \in Seq(Nat), NEW p \in Seq(Nat), NEW e \in Nat
    PROVE  Append(o \o p, e) = o \o Append(p, e)
  <1>1. Append(o \o p, e) \in Seq(Nat) /\ o \o Append(p, e) \in Seq(Nat)
    OBVIOUS
  <1>2. Len(Append(o \o p, e)) = Len(o \o Append(p, e))
    OBVIOUS
  <1>3. \A i \in 1 .. Len(Append(o \o p, e)) : Append(o \o p, e)[i] = (o \o Append(p, e))[i]
    OBVIOUS
  <1> QED
    BY <1>1, <1>2, <1>3, SeqEqual

\* Concatenation is associative.
LEMMA ChunksAssociate ==
    ASSUME NEW o \in Seq(Nat), NEW f \in Seq(Nat), NEW b \in Seq(Nat)
    PROVE  (o \o f) \o b = o \o (f \o b)
  <1>1. (o \o f) \o b \in Seq(Nat) /\ o \o (f \o b) \in Seq(Nat)
    OBVIOUS
  <1>2. Len((o \o f) \o b) = Len(o \o (f \o b))
    OBVIOUS
  <1>3. \A i \in 1 .. Len((o \o f) \o b) : ((o \o f) \o b)[i] = (o \o (f \o b))[i]
    OBVIOUS
  <1> QED
    BY <1>1, <1>2, <1>3, SeqEqual

\* What is read comes out of the front of the pipe.
LEMMA ReadMoves ==
    ASSUME NEW o \in Seq(Nat), NEW p \in Seq(Nat), NEW n \in 1..Len(p)
    PROVE  /\ SubSeq(p, 1, n) \in Seq(Nat)
           /\ SubSeq(p, n + 1, Len(p)) \in Seq(Nat)
           /\ Len(SubSeq(p, n + 1, Len(p))) <= Len(p)
           /\ \A k \in 1 .. Len(SubSeq(p, n + 1, Len(p))) :
                  \E j \in 1..Len(p) : SubSeq(p, n + 1, Len(p))[k] = p[j]
           /\ (o \o SubSeq(p, 1, n)) \o SubSeq(p, n + 1, Len(p)) = o \o p
  <1> DEFINE front == SubSeq(p, 1, n)
             back == SubSeq(p, n + 1, Len(p))
  <1>1. front \in Seq(Nat) /\ back \in Seq(Nat)
    BY SubSeqProperties, ElementOfSeq, LenProperties
  <1>2. front \o back = p
    BY ConcatAdjacentSubSeq, SubSeqFull, LenProperties
  <1>3. (o \o front) \o back = o \o p
    <2>1. PICK f \in Seq(Nat), b \in Seq(Nat) : f = front /\ b = back
      BY <1>1
    <2>2. (o \o f) \o b = o \o (f \o b)
      BY ChunksAssociate
    <2>3. f \o b = p
      BY <1>2, <2>1
    <2>4. (o \o f) \o b = o \o p
      BY <2>2, <2>3
    <2> QED
      BY <2>1, <2>4
  <1>4. Len(back) = Len(p) - n
    BY LenProperties
  <1>5. \A k \in 1 .. Len(back) : back[k] = p[n + k] /\ n + k \in 1..Len(p)
    BY <1>4, LenProperties
  <1>6. \A k \in 1 .. Len(back) : \E j \in 1..Len(p) : back[k] = p[j]
    BY <1>5
  <1>7. Len(back) <= Len(p)
    BY <1>4, LenProperties
  <1> QED
    BY <1>1, <1>3, <1>6, <1>7

-------------------------------------------------------------------------------
(* Every step preserves each part of the invariant. *)

\* Every step opens and closes the handles that its place asks for.
LEMMA HandlesStep ==
    ASSUME ProcessTypeOK, HandlesFollowPlace, [ProcessNext]_processVars
    PROVE  HandlesFollowPlace'
  <1> USE DEF HandlesFollowPlace
  <1>1. CASE CreatePipe
    BY <1>1 DEF CreatePipe
  <1>2. CASE CreateProcess
    BY <1>2 DEF CreateProcess
  <1>3. CASE CloseWriteEnd
    BY <1>3 DEF CloseWriteEnd, world
  <1>4. CASE ReadFile
    BY <1>4 DEF ReadFile, world
  <1>5. CASE ReadEnds
    BY <1>5 DEF ReadEnds, world
  <1>6. CASE Wait
    BY <1>6 DEF Wait, world
  <1>7. ASSUME NEW p \in Programs, Write(p) PROVE HandlesFollowPlace'
    BY <1>7 DEF Write
  <1>8. ASSUME NEW p \in Programs, WriteRefused(p) PROVE HandlesFollowPlace'
    BY <1>8 DEF WriteRefused
  <1>9. ASSUME NEW p \in Programs, End(p) PROVE HandlesFollowPlace'
    BY <1>9 DEF End
  <1>10. ASSUME NEW p \in Programs, Kill(p) PROVE HandlesFollowPlace'
    BY <1>10 DEF Kill
  <1>11. CASE StartHelper
    BY <1>11 DEF StartHelper
  <1>12. CASE UNCHANGED processVars
    BY <1>12 DEF processVars, world
  <1> QED
    BY <1>1, <1>2, <1>3, <1>4, <1>5, <1>6, <1>7, <1>8, <1>9, <1>10, <1>11, <1>12
    DEF ProcessNext, SpawnAndCapture, Runs

\* The history stays true or false.
LEMMA FlagsStep ==
    ASSUME ProcessTypeOK, [ProcessNext]_processVars
    PROVE  emptied' \in BOOLEAN /\ refused' \in BOOLEAN
  BY Zenon DEF ProcessTypeOK, ProcessNext, SpawnAndCapture, Runs, CreatePipe, CreateProcess,
      CloseWriteEnd, ReadFile, ReadEnds, Wait, Write, WriteRefused, End, Kill, StartHelper,
      processVars, world

\* TypeOK without its Boolean variables.
Shapes ==
    /\ at \in {"idle", "create", "started", "read", "wait"}
    /\ handles \subseteq {"read", "write", "process"}
    /\ writers \subseteq Programs
    /\ pipe \in Seq(Nat) /\ output \in Seq(Nat) /\ written \in Seq(Nat)
    /\ Len(pipe) <= PipeSize
    /\ left \in [Programs -> 0..MaxChunks]
    /\ code \in {0, 1, None}
    /\ returned \in [exit_code : {0, 1, NotStarted}, std_out : Seq(Nat)]

\* Every step keeps the other types.
LEMMA ShapesStep ==
    ASSUME Shapes, HandlesFollowPlace, [ProcessNext]_processVars
    PROVE  Shapes'
  <1> USE GitProcessAssumption DEF Shapes
  <1>1. CASE CreatePipe
    <2>1. Failure \in [exit_code : {0, 1, NotStarted}, std_out : Seq(Nat)]
      BY DEF Failure
    <2>2. <<>> \in Seq(Nat) /\ Len(<<>>) = 0 /\ PipeSize \in Nat
      OBVIOUS
    <2>3. /\ pipe' \in Seq(Nat) /\ output' \in Seq(Nat) /\ written' \in Seq(Nat)
          /\ Len(pipe') <= PipeSize
      <3>1. pipe' = <<>> /\ output' = <<>> /\ written' = <<>>
        BY <1>1 DEF CreatePipe
      <3> QED
        BY <3>1, <2>2
    <2>4. returned' \in [exit_code : {0, 1, NotStarted}, std_out : Seq(Nat)]
      BY <1>1, <2>1 DEF CreatePipe
    <2> QED
      BY <1>1, <2>1, <2>2, <2>3, <2>4 DEF CreatePipe
  <1>2. CASE CreateProcess
    <2>1. Failure \in [exit_code : {0, 1, NotStarted}, std_out : Seq(Nat)]
      BY DEF Failure
    <2>2. handles' \subseteq {"read", "write", "process"}
      BY <1>2 DEF CreateProcess
    <2>3. writers' \subseteq Programs /\ left' \in [Programs -> 0..MaxChunks]
      BY <1>2 DEF CreateProcess, Programs
    <2> QED
      BY <1>2, <2>1, <2>2, <2>3 DEF CreateProcess
  <1>3. CASE CloseWriteEnd
    BY <1>3 DEF CloseWriteEnd, world
  <1>4. CASE ReadFile
    <2>1. PICK n \in 1..Len(pipe) : /\ output' = output \o SubSeq(pipe, 1, n)
                                    /\ pipe' = SubSeq(pipe, n + 1, Len(pipe))
      BY <1>4 DEF ReadFile
    <2>2. output' \in Seq(Nat) /\ pipe' \in Seq(Nat) /\ Len(pipe') <= Len(pipe)
      <3>1. /\ SubSeq(pipe, 1, n) \in Seq(Nat)
            /\ SubSeq(pipe, n + 1, Len(pipe)) \in Seq(Nat)
            /\ Len(SubSeq(pipe, n + 1, Len(pipe))) <= Len(pipe)
        BY ReadMoves
      <3>2. output \o SubSeq(pipe, 1, n) \in Seq(Nat)
        BY <3>1
      <3> QED
        BY <2>1, <3>1, <3>2
    <2>3. Len(pipe') <= PipeSize
      BY <2>2, LenProperties
    <2> QED
      BY <1>4, <2>2, <2>3 DEF ReadFile, world
  <1>5. CASE ReadEnds
    BY <1>5 DEF ReadEnds, world
  <1>6. CASE Wait
    BY <1>6 DEF Wait, world
  <1>7. ASSUME NEW p \in Programs, Write(p) PROVE Shapes'
    <2>1. pipe' \in Seq(Nat) /\ written' \in Seq(Nat) /\ Len(pipe') <= PipeSize
      <3>1. PICK e \in Nat : pipe' = Append(pipe, e)
        BY <1>7 DEF Write, Empty
      <3>2. Len(pipe) < PipeSize /\ Len(pipe) \in Nat /\ PipeSize \in Nat
        BY <1>7 DEF Write
      <3>3. written' \in {written, Append(written, Len(written) + 1)}
        BY <1>7 DEF Write
      <3>4. pipe' \in Seq(Nat) /\ Len(pipe') = Len(pipe) + 1
        BY <3>1
      <3>5. written' \in Seq(Nat)
        <4>1. Len(written) + 1 \in Nat
          BY LenProperties
        <4>2. Append(written, Len(written) + 1) \in Seq(Nat)
          BY <4>1
        <4> QED
          BY <3>3, <4>2
      <3> QED
        BY <3>2, <3>4, <3>5
    <2>2. left' \in [Programs -> 0..MaxChunks]
      BY <1>7 DEF Write
    <2> QED
      BY <1>7, <2>1, <2>2 DEF Write
  <1>8. ASSUME NEW p \in Programs, WriteRefused(p) PROVE Shapes'
    BY <1>8 DEF WriteRefused
  <1>9. ASSUME NEW p \in Programs, End(p) PROVE Shapes'
    BY <1>9 DEF End
  <1>10. ASSUME NEW p \in Programs, Kill(p) PROVE Shapes'
    BY <1>10 DEF Kill
  <1>11. CASE StartHelper
    BY <1>11 DEF StartHelper, Programs
  <1>12. CASE UNCHANGED processVars
    BY <1>12 DEF processVars, world
  <1> QED
    BY <1>1, <1>2, <1>3, <1>4, <1>5, <1>6, <1>7, <1>8, <1>9, <1>10, <1>11, <1>12
    DEF ProcessNext, SpawnAndCapture, Runs

\* Every step keeps all of them.
LEMMA TypeStep ==
    ASSUME ProcessInv, [ProcessNext]_processVars
    PROVE  ProcessTypeOK'
  <1>1. Shapes
    BY DEF ProcessInv, ProcessTypeOK, Shapes
  <1>2. Shapes'
    BY <1>1, ShapesStep DEF ProcessInv
  <1> QED
    BY <1>2, FlagsStep DEF ProcessInv, ProcessTypeOK, Shapes

\* A read moves chunks from the pipe to the output, and loses none.
LEMMA ReadKeepsChunks ==
    ASSUME Shapes, ReadFile
    PROVE  /\ output' \o pipe' = output \o pipe
           /\ \A k \in 1..Len(pipe') : \E j \in 1..Len(pipe) : pipe'[k] = pipe[j]
  <1>1. PICK n \in 1..Len(pipe) : /\ output' = output \o SubSeq(pipe, 1, n)
                                  /\ pipe' = SubSeq(pipe, n + 1, Len(pipe))
    BY DEF ReadFile
  <1>2. output \in Seq(Nat) /\ pipe \in Seq(Nat)
    BY DEF Shapes
  <1>3. (output \o SubSeq(pipe, 1, n)) \o SubSeq(pipe, n + 1, Len(pipe)) = output \o pipe
    BY <1>2, ReadMoves
  <1>4. \A k \in 1 .. Len(SubSeq(pipe, n + 1, Len(pipe))) :
            \E j \in 1..Len(pipe) : SubSeq(pipe, n + 1, Len(pipe))[k] = pipe[j]
    BY <1>2, ReadMoves
  <1> QED
    BY <1>1, <1>3, <1>4

\* Who writes, writes to the end; who reads, reads the front; and the rest leaves the chunks
\* where they are.
LEMMA PipeStep ==
    ASSUME ProcessInv, [ProcessNext]_processVars
    PROVE  PipeCarriesAll'
  <1>1. Shapes
    BY DEF ProcessInv, ProcessTypeOK, Shapes
  <1>2. HandlesFollowPlace /\ PipeCarriesAll
    BY DEF ProcessInv
  <1> USE <1>1, <1>2 DEF Shapes, HandlesFollowPlace, PipeCarriesAll, NothingEmpty
  <1>3. CASE CreatePipe
    BY <1>3 DEF CreatePipe
  <1>4. CASE CreateProcess
    BY <1>4 DEF CreateProcess
  <1>5. CASE CloseWriteEnd
    BY <1>5 DEF CloseWriteEnd, world
  <1>6. CASE ReadFile
    <2> SUFFICES ASSUME ~emptied PROVE PipeCarriesAll'
      BY <1>6 DEF ReadFile, world
    <2>3. /\ output' \o pipe' = output \o pipe
          /\ \A k \in 1..Len(pipe') : \E j \in 1..Len(pipe) : pipe'[k] = pipe[j]
      BY <1>6, ReadKeepsChunks
    <2>4. NothingEmpty'
      BY <2>3
    <2> QED
      BY <1>6, <2>3, <2>4 DEF ReadFile, world
  <1>7. CASE ReadEnds
    <2>1. emptied \/ (pipe = <<>> /\ writers = {})
      <3>1. (pipe # <<>> /\ Head(pipe) = Empty) \/ (pipe = <<>> /\ writers = {})
        BY <1>7 DEF ReadEnds
      <3>2. pipe # <<>> /\ Head(pipe) = Empty => emptied
        <4> SUFFICES ASSUME pipe # <<>>, Head(pipe) = Empty, ~emptied PROVE FALSE
          OBVIOUS
        <4>1. 1 \in 1..Len(pipe) /\ Head(pipe) = pipe[1]
          BY EmptySeq
        <4> QED
          BY <4>1
      <3> QED
        BY <3>1, <3>2
    <2> QED
      BY <1>7, <2>1 DEF ReadEnds, world
  <1>8. CASE Wait
    BY <1>8 DEF Wait, world
  <1>9. ASSUME NEW p \in Programs, Write(p) PROVE PipeCarriesAll'
    <2> SUFFICES ASSUME ~emptied' PROVE PipeCarriesAll'
      OBVIOUS
    <2>1. ~emptied /\ pipe' = Append(pipe, Len(written) + 1)
                   /\ written' = Append(written, Len(written) + 1)
      BY <1>9 DEF Write
    <2>2. at = "read" \/ at = "started"
      BY <1>9, <2>1 DEF Write
    <2>3. written' = output \o pipe'
      <3>1. Len(written) + 1 \in Nat /\ written = output \o pipe
        BY <2>1, <2>2, LenProperties
      <3>2. Append(output \o pipe, Len(written) + 1)
            = output \o Append(pipe, Len(written) + 1)
        BY <3>1, WrittenGrows
      <3> QED
        BY <2>1, <3>1, <3>2
    <2>4. NothingEmpty'
      BY <2>1 DEF Empty
    <2> QED
      BY <1>9, <2>1, <2>2, <2>3, <2>4 DEF Write
  <1>10. ASSUME NEW p \in Programs, WriteRefused(p) PROVE PipeCarriesAll'
    BY <1>10 DEF WriteRefused
  <1>11. ASSUME NEW p \in Programs, End(p) PROVE PipeCarriesAll'
    BY <1>11 DEF End
  <1>12. ASSUME NEW p \in Programs, Kill(p) PROVE PipeCarriesAll'
    BY <1>12 DEF Kill
  <1>13. CASE StartHelper
    BY <1>13 DEF StartHelper
  <1>14. CASE UNCHANGED processVars
    BY <1>14 DEF processVars, world
  <1> QED
    BY <1>3, <1>4, <1>5, <1>6, <1>7, <1>8, <1>9, <1>10, <1>11, <1>12, <1>13, <1>14
    DEF ProcessNext, SpawnAndCapture, Runs

\* The result is made when everything was read, and nobody writes after that.
LEMMA OutputStep ==
    ASSUME ProcessInv, [ProcessNext]_processVars
    PROVE  OutputComplete'
  <1>1. Shapes
    BY DEF ProcessInv, ProcessTypeOK, Shapes
  <1>2. HandlesFollowPlace /\ PipeCarriesAll /\ OutputComplete
    BY DEF ProcessInv
  <1>3. output \o <<>> = output
    BY <1>1, ConcatEmptySeq DEF Shapes
  <1> USE <1>1, <1>2 DEF Shapes, HandlesFollowPlace, PipeCarriesAll, OutputComplete
  <1>4. CASE CreatePipe
    BY <1>4 DEF CreatePipe, Failure
  <1>5. CASE CreateProcess
    BY <1>5 DEF CreateProcess, Failure
  <1>6. CASE CloseWriteEnd \/ ReadFile \/ ReadEnds
    BY <1>6 DEF CloseWriteEnd, ReadFile, ReadEnds
  <1>7. CASE Wait
    BY <1>3, <1>7 DEF Wait, world
  <1>8. ASSUME NEW p \in Programs, Runs(p) \/ Kill(p) PROVE OutputComplete'
    BY <1>8 DEF Runs, Write, WriteRefused, End, Kill
  <1>9. CASE StartHelper
    BY <1>9 DEF StartHelper
  <1>10. CASE UNCHANGED processVars
    BY <1>10 DEF processVars, world
  <1> QED
    BY <1>4, <1>5, <1>6, <1>7, <1>8, <1>9, <1>10 DEF ProcessNext, SpawnAndCapture

\* At first the invariant holds.
LEMMA ProcessInitEstablishes == ProcessInit => ProcessInv
  <1> SUFFICES ASSUME ProcessInit PROVE ProcessInv
    OBVIOUS
  <1>1. Shapes
    <2>1. <<>> \in Seq(Nat) /\ Len(<<>>) = 0 /\ PipeSize \in Nat /\ MaxChunks \in Nat
      BY GitProcessAssumption
    <2> QED
      BY <2>1 DEF ProcessInit, Shapes, Failure
  <1>2. HandlesFollowPlace /\ PipeCarriesAll /\ OutputComplete
    BY DEF ProcessInit, HandlesFollowPlace, PipeCarriesAll, NothingEmpty, OutputComplete, Failure
  <1>3. emptied \in BOOLEAN /\ refused \in BOOLEAN
    BY DEF ProcessInit
  <1> QED
    BY <1>1, <1>2, <1>3 DEF ProcessInv, ProcessTypeOK, Shapes

-------------------------------------------------------------------------------
(* The theorems. *)

\* The invariant is inductive.
THEOREM ProcessInvariance == ProcessSpec => []ProcessInv
  <1>1. ProcessInv /\ [ProcessNext]_processVars => ProcessInv'
    BY TypeStep, HandlesStep, PipeStep, OutputStep DEF ProcessInv
  <1> QED
    BY <1>1, ProcessInitEstablishes, PTL DEF ProcessSpec

\* The variables keep their types, and no write goes into a full pipe.
THEOREM ProcessTypeCorrect == ProcessSpec => []ProcessTypeOK
  <1>1. ProcessInv => ProcessTypeOK
    BY DEF ProcessInv
  <1> QED
    BY <1>1, ProcessInvariance, PTL

\* However much is written, in whatever order: the caller gets the exit code and all of it.
THEOREM OutputCorrect == ProcessSpec => []OutputComplete
  <1>1. ProcessInv => OutputComplete
    BY DEF ProcessInv
  <1> QED
    BY <1>1, ProcessInvariance, PTL

\* Nobody writes into a pipe without a reader, unless a write of no bytes ended the reading.
THEOREM WritersCorrect == ProcessSpec => []NobodyCutOff
  <1>1. ProcessInv => NobodyCutOff
    BY DEF ProcessInv, PipeCarriesAll, NobodyCutOff
  <1> QED
    BY <1>1, ProcessInvariance, PTL

\* Every handle is closed again, on each way out of the call.
THEOREM HandlesCorrect == ProcessSpec => []NoHandleLeft
  <1>1. ProcessInv => NoHandleLeft
    BY DEF ProcessInv, HandlesFollowPlace, NoHandleLeft
  <1> QED
    BY <1>1, ProcessInvariance, PTL
===============================================================================
