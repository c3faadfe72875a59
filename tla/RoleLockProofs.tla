---------------------------- MODULE RoleLockProofs ----------------------------
(***************************************************************************)
(* Theorems about RoleLock, for every number of instances of the program   *)
(* and of faults.                                                          *)
(***************************************************************************)
EXTENDS RoleLock, TLAPS

\* Who has answered has a role.
Answered(i) == pc[i] \in {"clear", "open", "text", "hide", "running"}

AnswersAreRoles ==
    \A i \in Instances : Answered(i) => role[i] \in Roles

\* As long as first runs do not overlap and writes do not fail: one instance chooses at most,
\* the file has no role before its text is written, and its role from then on.
FileFollowsChoice ==
    ~raced /\ ~unwritten =>
        /\ \A i, j \in Instances : Choosing(i) /\ Choosing(j) => i = j
        /\ \A i \in Instances :
            /\ pc[i] \in {"prompt", "clear", "open", "text"} => file \notin Roles
            /\ pc[i] \in {"hide", "running"} => file \in Roles /\ file = role[i]

DamageIsFault == damages <= faults

IInv ==
    /\ TypeOK
    /\ DamageIsFault
    /\ AnswersAreRoles
    /\ FileFollowsChoice

\* The parts of TypeOK, for provers that are good at different ones.
Texts ==
    /\ pc \in [Instances ->
          {"off", "start", "prompt", "clear", "open", "text", "hide", "running"}]
    /\ role \in [Instances -> Roles \cup {None}]
    /\ file \in Roles \cup {None, Empty, Torn}

Flags == hidden \in BOOLEAN /\ raced \in BOOLEAN /\ unwritten \in BOOLEAN

Counts == damages \in 0..MaxFaults /\ faults \in 0..MaxFaults

\* TypeOK is its parts.
LEMMA TypeParts == TypeOK <=> Texts /\ Flags /\ Counts
  BY DEF TypeOK, Texts, Flags, Counts

\* At first the invariant holds.
LEMMA InitEstablishes == Init => IInv
  <1> SUFFICES ASSUME Init PROVE IInv
    OBVIOUS
  <1>1. TypeOK /\ DamageIsFault
    <2>1. faults = 0 /\ damages = 0 /\ MaxFaults \in Nat
      BY RoleLockAssumption DEF Init
    <2>2. Counts /\ DamageIsFault
      BY <2>1 DEF Counts, DamageIsFault
    <2>3. Texts /\ Flags
      BY DEF Init, Texts, Flags
    <2> QED
      BY <2>2, <2>3, TypeParts
  <1>2. AnswersAreRoles /\ FileFollowsChoice
    BY DEF Init, AnswersAreRoles, Answered, FileFollowsChoice, Choosing
  <1> QED
    BY <1>1, <1>2 DEF IInv

-------------------------------------------------------------------------------
(* Every step preserves each part of the invariant. *)

\* Every step keeps the types of places, roles and the file.
LEMMA TextsStep ==
    ASSUME IInv, [Next]_vars
    PROVE  Texts'
  <1> USE DEF IInv, Texts
  <1>1. Texts
    BY TypeParts
  <1>2. ASSUME NEW i \in Instances, Launch(i) PROVE Texts'
    BY <1>1, <1>2 DEF Launch, Goes
  <1>3. ASSUME NEW i \in Instances, Resolve(i) PROVE Texts'
    BY <1>1, <1>3 DEF Resolve, Goes
  <1>4. ASSUME NEW i \in Instances, NEW r \in Roles, Answer(i, r) PROVE Texts'
    BY <1>1, <1>4 DEF Answer, Goes
  <1>5. ASSUME NEW i \in Instances, ClearHidden(i) PROVE Texts'
    BY <1>1, <1>5 DEF ClearHidden, Goes
  <1>6. ASSUME NEW i \in Instances, Open(i) PROVE Texts'
    BY <1>1, <1>6 DEF Open, Goes
  <1>7. ASSUME NEW i \in Instances, WriteText(i) PROVE Texts'
    <2>1. role[i] \in Roles
      BY <1>7 DEF WriteText, Goes, AnswersAreRoles, Answered
    <2> QED
      BY <1>1, <1>7, <2>1 DEF WriteText, Goes
  <1>8. ASSUME NEW i \in Instances, Hide(i) PROVE Texts'
    BY <1>1, <1>8 DEF Hide, Goes
  <1>9. ASSUME NEW i \in Instances, Exit(i) PROVE Texts'
    BY <1>1, <1>9 DEF Exit, Goes
  <1>10. ASSUME NEW i \in Instances, Crash(i) PROVE Texts'
    BY <1>1, <1>10 DEF Crash
  <1>11. ASSUME Damage PROVE Texts'
    BY <1>1, <1>11 DEF Damage
  <1>12. CASE UNCHANGED vars
    BY <1>1, <1>12 DEF vars
  <1> QED
    BY <1>2, <1>3, <1>4, <1>5, <1>6, <1>7, <1>8, <1>9, <1>10, <1>11, <1>12 DEF Next, Run

\* Every step keeps those of the flags.
LEMMA FlagsStep ==
    ASSUME Flags, [Next]_vars
    PROVE  Flags'
  BY Zenon DEF Flags, Next, Run, Launch, Resolve, Answer, ClearHidden, Open, WriteText, Hide,
      Exit, Crash, Damage, vars

\* Nothing but a fault is counted, and what is counted as damage is a fault.
LEMMA CountsStep ==
    ASSUME Counts, DamageIsFault, [Next]_vars
    PROVE  Counts' /\ DamageIsFault'
  <1> DEFINE Same == UNCHANGED <<damages, faults>>
             Fault == faults < MaxFaults /\ faults' = faults + 1
  <1>1. Same \/ (Fault /\ damages' \in {damages, damages + 1})
    <2>1. ASSUME NEW i \in Instances, Run(i) \/ Crash(i)
          PROVE  Same \/ (Fault /\ damages' = damages)
      BY <2>1 DEF Run, Launch, Resolve, Answer, ClearHidden, Open, WriteText, Hide, Exit,
          Crash, Fails
    <2>2. CASE Damage
      BY <2>2 DEF Damage, Fails
    <2> QED
      BY <2>1, <2>2 DEF Next, vars
  <1> QED
    BY <1>1, RoleLockAssumption DEF Counts, DamageIsFault

\* Nobody gets on without a role.
LEMMA AnswersStep ==
    ASSUME IInv, [Next]_vars
    PROVE  AnswersAreRoles'
  <1>1. Texts
    BY TypeParts DEF IInv
  <1> USE <1>1 DEF IInv, Texts, AnswersAreRoles, Answered
  <1>2. ASSUME NEW i \in Instances, Launch(i) PROVE AnswersAreRoles'
    BY <1>2 DEF Launch, Goes
  <1>3. ASSUME NEW i \in Instances, Resolve(i) PROVE AnswersAreRoles'
    BY <1>3 DEF Resolve, Goes
  <1>4. ASSUME NEW i \in Instances, NEW r \in Roles, Answer(i, r) PROVE AnswersAreRoles'
    BY <1>4 DEF Answer, Goes
  <1>5. ASSUME NEW i \in Instances, ClearHidden(i) PROVE AnswersAreRoles'
    BY <1>5 DEF ClearHidden, Goes
  <1>6. ASSUME NEW i \in Instances, Open(i) PROVE AnswersAreRoles'
    BY <1>6 DEF Open, Goes
  <1>7. ASSUME NEW i \in Instances, WriteText(i) PROVE AnswersAreRoles'
    BY <1>7 DEF WriteText, Goes
  <1>8. ASSUME NEW i \in Instances, Hide(i) PROVE AnswersAreRoles'
    BY <1>8 DEF Hide, Goes
  <1>9. ASSUME NEW i \in Instances, Exit(i) PROVE AnswersAreRoles'
    BY <1>9 DEF Exit, Goes
  <1>10. ASSUME NEW i \in Instances, Crash(i) PROVE AnswersAreRoles'
    BY <1>10 DEF Crash
  <1>11. ASSUME Damage PROVE AnswersAreRoles'
    BY <1>11 DEF Damage
  <1>12. CASE UNCHANGED vars
    BY <1>12 DEF vars
  <1> QED
    BY <1>2, <1>3, <1>4, <1>5, <1>6, <1>7, <1>8, <1>9, <1>10, <1>11, <1>12 DEF Next, Run

\* Every step keeps the file and the choice together, or is a race or a failed write.
LEMMA ChoiceStep ==
    ASSUME IInv, [Next]_vars
    PROVE  FileFollowsChoice'
  <1>1. Texts
    BY TypeParts DEF IInv
  <1>2. {None, Empty, Torn} \cap Roles = {}
    BY RoleLockAssumption
  <1> USE <1>1, <1>2 DEF IInv, Texts, FileFollowsChoice, Choosing
  <1>3. ASSUME NEW i \in Instances, Launch(i) PROVE FileFollowsChoice'
    BY <1>3 DEF Launch, Goes
  <1>4. ASSUME NEW i \in Instances, Resolve(i) PROVE FileFollowsChoice'
    BY <1>4 DEF Resolve, Goes
  <1>5. ASSUME NEW i \in Instances, NEW r \in Roles, Answer(i, r) PROVE FileFollowsChoice'
    BY <1>5 DEF Answer, Goes
  <1>6. ASSUME NEW i \in Instances, ClearHidden(i) PROVE FileFollowsChoice'
    BY <1>6 DEF ClearHidden, Goes
  <1>7. ASSUME NEW i \in Instances, Open(i) PROVE FileFollowsChoice'
    BY <1>7 DEF Open, Goes
  <1>8. ASSUME NEW i \in Instances, WriteText(i) PROVE FileFollowsChoice'
    <2>1. role[i] \in Roles
      BY <1>8 DEF WriteText, Goes, AnswersAreRoles, Answered
    <2> QED
      BY <1>8, <2>1 DEF WriteText, Goes
  <1>9. ASSUME NEW i \in Instances, Hide(i) PROVE FileFollowsChoice'
    BY <1>9 DEF Hide, Goes
  <1>10. ASSUME NEW i \in Instances, Exit(i) PROVE FileFollowsChoice'
    BY <1>10 DEF Exit, Goes
  <1>11. ASSUME NEW i \in Instances, Crash(i) PROVE FileFollowsChoice'
    BY <1>11 DEF Crash
  <1>12. ASSUME Damage PROVE FileFollowsChoice'
    BY <1>12 DEF Damage
  <1>13. CASE UNCHANGED vars
    BY <1>13 DEF vars
  <1> QED
    BY <1>3, <1>4, <1>5, <1>6, <1>7, <1>8, <1>9, <1>10, <1>11, <1>12, <1>13 DEF Next, Run

-------------------------------------------------------------------------------
(* The theorems. *)

\* The invariant is inductive.
THEOREM Invariance == Spec => []IInv
  <1>1. IInv /\ [Next]_vars => IInv'
    <2> SUFFICES ASSUME IInv, [Next]_vars PROVE IInv'
      OBVIOUS
    <2>1. Texts /\ Flags /\ Counts
      BY TypeParts DEF IInv
    <2>2. Texts' /\ Flags' /\ Counts' /\ DamageIsFault'
      BY <2>1, TextsStep, FlagsStep, CountsStep DEF IInv
    <2>3. TypeOK'
      BY <2>2 DEF TypeOK, Texts, Flags, Counts
    <2> QED
      BY <2>2, <2>3, AnswersStep, ChoiceStep DEF IInv
  <1> QED
    BY <1>1, InitEstablishes, PTL DEF Spec

\* The variables keep their types, whatever becomes of the file.
THEOREM TypeCorrect == Spec => []TypeOK
  <1>1. IInv => TypeOK
    BY DEF IInv
  <1> QED
    BY <1>1, Invariance, PTL

\* However many instances there are: one that runs has the role that is stored, unless first
\* runs overlapped or a write failed.
THEOREM StoredRoleCorrect == Spec => []RunningRoleIsStored
  <1>1. IInv => RunningRoleIsStored
    BY DEF IInv, FileFollowsChoice, RunningRoleIsStored
  <1> QED
    BY <1>1, Invariance, PTL

\* No step of any instance, and no crash, takes a stored role away.
LEMMA LockStep ==
    ASSUME TypeOK, [Next]_vars, Locked, damages' = damages
    PROVE  Locked' /\ file' = file
  <1>1. Texts /\ damages \in Nat
    BY RoleLockAssumption DEF TypeOK, Texts
  <1>2. ~Damage
    BY <1>1 DEF Damage
  <1>3. ASSUME NEW i \in Instances, Run(i) \/ Crash(i)
        PROVE  file' = file /\ pc' \in [Instances -> {"off", "start", "running"}]
    <2>1. pc \in [Instances -> {"off", "start", "running"}] /\ file \in Roles
      BY <1>1 DEF Texts, Locked, Choosing
    <2> QED
      BY <1>3, <2>1 DEF Run, Launch, Resolve, Answer, ClearHidden, Open, WriteText, Hide,
          Exit, Crash, Goes
  <1>4. CASE UNCHANGED vars
    BY <1>4 DEF vars, Locked, Choosing
  <1> QED
    BY <1>2, <1>3, <1>4 DEF Next, Locked, Choosing

\* A stored role is never asked for again and never overwritten, by any number of instances.
THEOREM LockCorrect == Spec => LockHolds
  <1>1. TypeOK /\ [Next]_vars =>
            [Locked /\ damages' = damages => Locked' /\ file' = file]_vars
    BY LockStep
  <1> QED
    BY <1>1, TypeCorrect, PTL DEF Spec, LockHolds
===============================================================================
