------------------------------- MODULE RoleLock -------------------------------
(***************************************************************************)
(* RoleManager and RoleStore: the hidden role file, which several runs of  *)
(* the program on one machine read and write, at the same time perhaps.    *)
(***************************************************************************)
EXTENDS Naturals

CONSTANTS
    Instances,  \* the runs of the program that may be going on at the same time
    None,       \* no file, no role
    Empty,      \* the file was truncated and not written yet
    Torn,       \* the file has some other text: a part of a role, or a damaged file
    Faults,     \* which of "write", "crash" and "damage" may happen
    MaxFaults   \* bound: faults in a behaviour

Roles == {"writer", "reader"}

ASSUME RoleLockAssumption ==
    /\ Faults \subseteq {"write", "crash", "damage"}
    /\ MaxFaults \in Nat
    /\ {None, Empty, Torn} \cap Roles = {}

VARIABLES
    pc,         \* pc[i]: where instance i is
    role,       \* role[i]: the role it was told or has read
    file,       \* text of the role file
    hidden,     \* its hidden attribute
    raced,      \* history: two instances had their first run at the same time
    unwritten,  \* history: the file could not be opened, or not written in full
    damages,    \* history: how often the file was damaged or deleted by hand
    faults      \* bound

vars == <<pc, role, file, hidden, raced, unwritten, damages, faults>>

Init ==
    /\ pc = [i \in Instances |-> "off"]
    /\ role = [i \in Instances |-> None]
    /\ file = None /\ hidden = FALSE
    /\ raced = FALSE /\ unwritten = FALSE
    /\ damages = 0 /\ faults = 0

Fails(what) ==
    /\ what \in Faults
    /\ faults < MaxFaults
    /\ faults' = faults + 1

Goes(i, from, to) ==
    /\ pc[i] = from
    /\ pc' = [pc EXCEPT ![i] = to]

\* Between the question and the end of the write.
Choosing(i) == pc[i] \in {"prompt", "clear", "open", "text", "hide"}

-------------------------------------------------------------------------------
(* resolve_role. *)

Launch(i) ==
    /\ Goes(i, "off", "start")
    /\ UNCHANGED <<role, file, hidden, raced, unwritten, damages, faults>>

\* Variant for mutation: the question is asked on every launch.
ResolveAsks(i) ==
    /\ Goes(i, "start", "prompt")
    /\ raced' = (raced \/ \E j \in Instances : Choosing(j))
    /\ UNCHANGED <<role, file, hidden, unwritten, damages, faults>>

\* Variant for mutation: any text in the file is a role.
ResolveUnparsed(i) ==
    \/ /\ file # None
       /\ Goes(i, "start", "running")
       /\ role' = [role EXCEPT ![i] = file]
       /\ UNCHANGED <<file, hidden, raced, unwritten, damages, faults>>
    \/ /\ file = None
       /\ Goes(i, "start", "prompt")
       /\ raced' = (raced \/ \E j \in Instances : Choosing(j))
       /\ UNCHANGED <<role, file, hidden, unwritten, damages, faults>>

\* read and parse_role: a file that is missing or is no role means that the user is asked.
Resolve(i) ==
    \/ /\ file \in Roles
       /\ Goes(i, "start", "running")
       /\ role' = [role EXCEPT ![i] = file]
       /\ UNCHANGED <<file, hidden, raced, unwritten, damages, faults>>
    \/ /\ file \notin Roles
       /\ Goes(i, "start", "prompt")
       /\ raced' = (raced \/ \E j \in Instances : Choosing(j))
       /\ UNCHANGED <<role, file, hidden, unwritten, damages, faults>>

\* W or R; at any other answer the question comes again.
Answer(i, r) ==
    /\ Goes(i, "prompt", "clear")
    /\ role' = [role EXCEPT ![i] = r]
    /\ UNCHANGED <<file, hidden, raced, unwritten, damages, faults>>

-------------------------------------------------------------------------------
(* RoleStore::write. *)

\* Variant for mutation: the attribute is left as it is.
KeepHidden(i) ==
    /\ Goes(i, "clear", "open")
    /\ UNCHANGED <<role, file, hidden, raced, unwritten, damages, faults>>

\* Variant for mutation: a file that is there is not written again.
WriteOnce(i) ==
    /\ Goes(i, "clear", IF file = None THEN "open" ELSE "hide")
    /\ hidden' = FALSE
    /\ UNCHANGED <<role, file, raced, unwritten, damages, faults>>

\* If the file exists, it is not hidden any more.
ClearHidden(i) ==
    /\ Goes(i, "clear", "open")
    /\ hidden' = FALSE
    /\ UNCHANGED <<role, file, raced, unwritten, damages, faults>>

\* The stream cannot open a hidden file for writing; nobody looks at whether it is open.
Open(i) ==
    \/ /\ ~hidden
       /\ Goes(i, "open", "text")
       /\ file' = Empty
       /\ UNCHANGED <<role, hidden, raced, unwritten, damages, faults>>
    \/ /\ Goes(i, "open", "hide")
       /\ unwritten' = TRUE
       /\ IF hidden THEN UNCHANGED faults ELSE Fails("write")
       /\ UNCHANGED <<role, file, hidden, raced, damages>>

\* Both roles have six letters: of two streams that are open, the last to write is read.
WriteText(i) ==
    /\ Goes(i, "text", "hide")
    /\ \/ file' = role[i] /\ UNCHANGED <<unwritten, faults>>
       \/ Fails("write") /\ unwritten' = TRUE /\ file' \in {file, Torn}
    /\ UNCHANGED <<role, hidden, raced, damages>>

Hide(i) ==
    /\ Goes(i, "hide", "running")
    /\ hidden' = (file # None)
    /\ UNCHANGED <<role, file, raced, unwritten, damages, faults>>

-------------------------------------------------------------------------------
(* The rest. *)

\* The menu of the role is left; no menu has a way to another role.
Exit(i) ==
    /\ Goes(i, "running", "off")
    /\ UNCHANGED <<role, file, hidden, raced, unwritten, damages, faults>>

\* The console window is closed; text that was not flushed is lost, in full or in part.
Crash(i) ==
    /\ pc[i] # "off"
    /\ Fails("crash")
    /\ pc' = [pc EXCEPT ![i] = "off"]
    /\ \/ UNCHANGED file
       \/ pc[i] = "text" /\ file' = Torn
    /\ UNCHANGED <<role, hidden, raced, unwritten, damages>>

\* While the program does not run, the file is deleted, or damaged with its attribute kept.
Damage ==
    /\ \A i \in Instances : pc[i] = "off"
    /\ Fails("damage")
    /\ file # None
    /\ \/ file' = None /\ hidden' = FALSE
       \/ file' = Torn /\ UNCHANGED hidden
    /\ damages' = damages + 1
    /\ UNCHANGED <<pc, role, raced, unwritten>>

Run(i) ==
    \/ Launch(i)
    \/ Resolve(i)
    \/ \E r \in Roles : Answer(i, r)
    \/ ClearHidden(i)
    \/ Open(i)
    \/ WriteText(i)
    \/ Hide(i)
    \/ Exit(i)

Next ==
    \/ \E i \in Instances : Run(i) \/ Crash(i)
    \/ Damage

Spec == Init /\ [][Next]_vars

-------------------------------------------------------------------------------
(* Properties. *)

\* Every variable has its type.
TypeOK ==
    /\ pc \in [Instances ->
          {"off", "start", "prompt", "clear", "open", "text", "hide", "running"}]
    /\ role \in [Instances -> Roles \cup {None}]
    /\ file \in Roles \cup {None, Empty, Torn}
    /\ hidden \in BOOLEAN /\ raced \in BOOLEAN /\ unwritten \in BOOLEAN
    /\ damages \in 0..MaxFaults /\ faults \in 0..MaxFaults

\* The file has a role, and nobody is about to write another.
Locked == file \in Roles /\ \A i \in Instances : ~Choosing(i)

\* specs/001 AC1: once a role is stored, no launch, exit or crash of any instance asks
\* again or stores another one; only a hand on the file does.
LockHolds ==
    [][Locked /\ damages' = damages => Locked' /\ file' = file]_vars

\* Whatever crashed or was damaged before: an instance that runs has the role that the
\* next launch will find.  Two first runs at the same time, and a file that cannot be
\* written, break this; a crash before `Hide` leaves a file that is right, but visible.
RunningRoleIsStored ==
    ~raced /\ ~unwritten =>
        \A i \in Instances : pc[i] = "running" => file = role[i]

\* Whatever crashes, failed writes, damage and simultaneous first runs there were: a program
\* that is started again and again, and answered, comes to have its role stored for good
\* once it is the only one.  Two may keep hiding the file from each other, in `Hide`.
RoleGetsLocked ==
    \A i \in Instances :
        WF_vars(Run(i)) /\ <>[](\A j \in Instances \ {i} : pc[j] = "off") => <>[]Locked
===============================================================================
