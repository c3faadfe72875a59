------------------------------ MODULE GitProcess ------------------------------
(***************************************************************************)
(* SystemGitProcess: one git command after the other, each run with its    *)
(* output in one bounded pipe.  git may leave a helper behind, which has   *)
(* inherited the pipe and goes on writing after git has ended.             *)
(***************************************************************************)
EXTENDS Integers, Sequences

CONSTANTS
    PipeSize,       \* chunks that the pipe holds
    BufferSize,     \* chunks that one ReadFile takes
    MaxChunks,      \* bound: chunks that git writes in a call, and that its helper does
    Faults,         \* which of "pipe", "process", "empty" and "kill" may happen
    None            \* no exit code: git is running

ASSUME GitProcessAssumption ==
    /\ {PipeSize, BufferSize} \subseteq Nat \ {0}
    /\ MaxChunks \in Nat
    /\ None \notin Int
    /\ Faults \subseteq {"pipe", "process", "empty", "kill"}

Programs == {"git", "helper"}

\* What is written is numbered from 1 in each call; 0 is a write of no bytes at all.
Empty == 0

\* What the caller gets when git could not be run at all.
NotStarted == -1
Failure == [exit_code |-> NotStarted, std_out |-> <<>>]

VARIABLES
    at,         \* where spawn_and_capture is
    handles,    \* what it has open: "read", "write" and "process"
    writers,    \* the running programs, each with the write end of the pipe open
    pipe,       \* what was written and not read yet
    left,       \* how many chunks each program has yet to write
    code,       \* exit code of git, None while it runs
    output,     \* what was read
    returned,   \* the GitResult of the last call (result)
    written,    \* history: what was written in this call
    emptied,    \* history: a write of no bytes in this call
    refused     \* history: a program in this call could not write, for want of a reader

world == <<writers, left, code, written, emptied, refused>>
processVars == <<at, handles, pipe, output, returned, world>>

ProcessInit ==
    /\ at = "idle"
    /\ handles = {} /\ writers = {}
    /\ pipe = <<>> /\ output = <<>> /\ written = <<>>
    /\ left = [p \in Programs |-> 0]
    /\ code = None
    /\ returned = Failure
    /\ emptied = FALSE /\ refused = FALSE

-------------------------------------------------------------------------------
(* spawn_and_capture. *)

\* Of the last call nothing is left but its result; a helper that outlives its call has the
\* write end of a pipe that is of no more interest.
CreatePipe ==
    /\ at = "idle"
    /\ writers' = {} /\ pipe' = <<>> /\ output' = <<>> /\ written' = <<>>
    /\ code' = None /\ emptied' = FALSE /\ refused' = FALSE
    /\ UNCHANGED left
    /\ \/ at' = "create" /\ handles' = {"read", "write"} /\ UNCHANGED returned
       \/ "pipe" \in Faults /\ returned' = Failure /\ UNCHANGED <<at, handles>>

\* Variant for mutation: the failed start leaves without closing the read end.
CreateProcessLeaky ==
    /\ at = "create"
    /\ \/ /\ writers' = {"git"}
          /\ left' \in [Programs -> 0..MaxChunks]
          /\ handles' = handles \cup {"process"}
          /\ at' = "started"
          /\ UNCHANGED returned
       \/ /\ "process" \in Faults
          /\ handles' = {"read"} /\ returned' = Failure /\ at' = "idle"
          /\ UNCHANGED <<writers, left>>
    /\ UNCHANGED <<pipe, output, code, written, emptied, refused>>

\* git starts with the write end inherited, or it cannot be started and both ends are closed.
CreateProcess ==
    /\ at = "create"
    /\ \/ /\ writers' = {"git"}
          /\ left' \in [Programs -> 0..MaxChunks]
          /\ handles' = handles \cup {"process"}
          /\ at' = "started"
          /\ UNCHANGED returned
       \/ /\ "process" \in Faults
          /\ handles' = {} /\ returned' = Failure /\ at' = "idle"
          /\ UNCHANGED <<writers, left>>
    /\ UNCHANGED <<pipe, output, code, written, emptied, refused>>

\* Variant for mutation: git is waited for, and its output read no more.
WaitWithoutReading ==
    /\ at = "started"
    /\ at' = "wait"
    /\ handles' = handles \ {"write"}
    /\ UNCHANGED <<pipe, output, returned, world>>

CloseWriteEnd ==
    /\ at = "started"
    /\ at' = "read"
    /\ handles' = handles \ {"write"}
    /\ UNCHANGED <<pipe, output, returned, world>>

\* Variant for mutation: what is read takes the place of what was read before.
ReadFileAfresh ==
    /\ at = "read"
    /\ pipe # <<>>
    /\ \E n \in 1..Len(pipe) :
        /\ n <= BufferSize
        /\ \A i \in 1..n : pipe[i] # Empty
        /\ output' = SubSeq(pipe, 1, n)
        /\ pipe' = SubSeq(pipe, n + 1, Len(pipe))
    /\ UNCHANGED <<at, handles, returned, world>>

\* ReadFile gives as much as there is and the buffer holds; it waits at an empty pipe.
ReadFile ==
    /\ at = "read"
    /\ pipe # <<>>
    /\ \E n \in 1..Len(pipe) :
        /\ n <= BufferSize
        /\ \A i \in 1..n : pipe[i] # Empty
        /\ output' = output \o SubSeq(pipe, 1, n)
        /\ pipe' = SubSeq(pipe, n + 1, Len(pipe))
    /\ UNCHANGED <<at, handles, returned, world>>

\* Variant for mutation: an empty pipe is taken for the end once git has ended.
ReadEndsWithGit ==
    /\ at = "read"
    /\ \/ pipe # <<>> /\ Head(pipe) = Empty
       \/ pipe = <<>> /\ "git" \notin writers
    /\ at' = "wait"
    /\ handles' = handles \ {"read"}
    /\ UNCHANGED <<pipe, output, returned, world>>

\* The loop ends when every write end is closed, this program's own included; and at a write
\* of no bytes, which ReadFile hands over as a success of 0 bytes.
ReadEnds ==
    /\ at = "read"
    /\ \/ pipe # <<>> /\ Head(pipe) = Empty
       \/ pipe = <<>> /\ writers = {} /\ "write" \notin handles
    /\ at' = "wait"
    /\ handles' = handles \ {"read"}
    /\ UNCHANGED <<pipe, output, returned, world>>

\* Variant for mutation: the exit code is asked for without waiting.
DoNotWait ==
    /\ at = "wait"
    /\ at' = "idle"
    /\ returned' = [exit_code |-> code, std_out |-> output]
    /\ handles' = handles \ {"process"}
    /\ UNCHANGED <<pipe, output, world>>

\* WaitForSingleObject(..., INFINITE), the exit code, and the last handles.
Wait ==
    /\ at = "wait"
    /\ code # None
    /\ at' = "idle"
    /\ returned' = [exit_code |-> code, std_out |-> output]
    /\ handles' = handles \ {"process"}
    /\ UNCHANGED <<pipe, output, world>>

-------------------------------------------------------------------------------
(* git and what it starts. *)

\* A write waits at a full pipe, and fails when nobody has the read end open any more.
Write(p) ==
    /\ p \in writers
    /\ left[p] > 0
    /\ "read" \in handles
    /\ Len(pipe) < PipeSize
    /\ \/ pipe' = Append(pipe, Len(written) + 1)
          /\ written' = Append(written, Len(written) + 1)
          /\ UNCHANGED emptied
       \/ "empty" \in Faults
          /\ pipe' = Append(pipe, Empty)
          /\ emptied' = TRUE
          /\ UNCHANGED written
    /\ left' = [left EXCEPT ![p] = @ - 1]
    /\ UNCHANGED <<at, handles, output, returned, writers, code, refused>>

\* A program without a reader ends, and if it is git, with an error.
WriteRefused(p) ==
    /\ p \in writers
    /\ left[p] > 0
    /\ "read" \notin handles
    /\ refused' = TRUE
    /\ writers' = writers \ {p}
    /\ code' = IF p = "git" THEN 1 ELSE code
    /\ UNCHANGED <<at, handles, pipe, output, returned, left, written, emptied>>

StartHelper ==
    /\ "git" \in writers
    /\ left["helper"] > 0
    /\ writers' = writers \cup {"helper"}
    /\ UNCHANGED <<at, handles, pipe, output, returned, left, code, written, emptied,
                   refused>>

\* A program that has written everything ends.
End(p) ==
    /\ p \in writers
    /\ left[p] = 0
    /\ writers' = writers \ {p}
    /\ code' \in IF p = "git" THEN {0, 1} ELSE {code}
    /\ UNCHANGED <<at, handles, pipe, output, returned, left, written, emptied, refused>>

\* A program is ended from outside, git in the middle of its work or a helper that hangs.
Kill(p) ==
    /\ "kill" \in Faults
    /\ p \in writers
    /\ writers' = writers \ {p}
    /\ code' = IF p = "git" THEN 1 ELSE code
    /\ UNCHANGED <<at, handles, pipe, output, returned, left, written, emptied, refused>>

SpawnAndCapture == CreateProcess \/ CloseWriteEnd \/ ReadFile \/ ReadEnds \/ Wait

Runs(p) == Write(p) \/ WriteRefused(p) \/ End(p)

ProcessNext ==
    \/ CreatePipe
    \/ SpawnAndCapture
    \/ \E p \in Programs : Runs(p) \/ Kill(p)
    \/ StartHelper

ProcessSpec == ProcessInit /\ [][ProcessNext]_processVars

\* Neither this program nor git nor a helper stops in the middle: each goes on unless it
\* waits for the pipe.  Nothing in the code bounds the time that git or a helper takes.
FairProcessSpec ==
    /\ ProcessSpec
    /\ WF_processVars(SpawnAndCapture)
    /\ \A p \in Programs : WF_processVars(Runs(p))

-------------------------------------------------------------------------------
(* Properties. *)

\* Every variable has its type, and the pipe holds no more than it can.
ProcessTypeOK ==
    /\ at \in {"idle", "create", "started", "read", "wait"}
    /\ handles \subseteq {"read", "write", "process"}
    /\ writers \subseteq Programs
    /\ pipe \in Seq(Nat) /\ output \in Seq(Nat) /\ written \in Seq(Nat)
    /\ Len(pipe) <= PipeSize
    /\ left \in [Programs -> 0..MaxChunks]
    /\ code \in {0, 1, None}
    /\ returned \in [exit_code : {0, 1, NotStarted}, std_out : Seq(Nat)]
    /\ emptied \in BOOLEAN /\ refused \in BOOLEAN

\* SystemGitProcess.cpp:53 "returns its exit code plus everything it wrote": the result of a
\* command that ran has git's exit code, and all of its output and its helper's, in order,
\* however the programs and the reading interleave.  A write of no bytes ends the reading.
OutputComplete ==
    at = "idle" /\ returned.exit_code # NotStarted /\ ~emptied =>
        returned = [exit_code |-> code, std_out |-> written]

\* Nobody is cut off: the read end stays open as long as anybody may write, so that git
\* does not fail, and a push does not count as failed, because of how it is run.
NobodyCutOff ==
    refused => emptied

\* No call leaves a handle open, whichever of its steps fails.
NoHandleLeft ==
    at = "idle" => handles = {}

\* However much git and its helper write, at whatever pace: the call returns.
Returns ==
    at # "idle" ~> at = "idle"
===============================================================================
