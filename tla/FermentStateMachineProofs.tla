---------------------- MODULE FermentStateMachineProofs ----------------------
(***************************************************************************)
(* The invariants of FermentStateMachine for any number of phases, steps   *)
(* and parallel groups.  IInv is inductive: the pause invariant needs the  *)
(* bridge only, the coherence of status and phases needs activePhase to be *)
(* sound, and the single cohort of the running steps needs that equality   *)
(* of groups carries from the one step start_step compares to all others.  *)
(* The lemmas at the end (which tools are commands, what the next action   *)
(* names) are for the proofs about sessions and turns.                     *)
(***************************************************************************)
EXTENDS FermentFsm, TLAPS, WellFoundedInduction

\* The inductive invariant: the conjunction of the named ones.
IInv ==
  /\ TypeOK
  /\ ActivePhaseSound
  /\ StatusFollowsPhases
  /\ ActivePhasesShareGroup
  /\ RunningStepsShareCohort
  /\ PausedIsQuiet
  /\ StepsInPlan

-----------------------------------------------------------------------------
(* Lemmas about the operators the commands are built from.                  *)

\* Resolving cohorts yields a group, or none, for every member.
LEMMA ResolveCohortsType ==
  ASSUME NEW I, NEW groups, \A i \in I : groups[i] \in Cohorts
  PROVE  ResolveCohorts(groups, I) \in [I -> Cohorts]
BY DEF ResolveCohorts, Cohorts

\* A freshly built step array holds pending steps and absent ones only.
LEMMA FreshStepsType ==
  ASSUME NEW n
  PROVE  /\ FreshSteps(n) \in [Steps -> StepStatuses \cup {Absent}]
         /\ \A s \in Steps : FreshSteps(n)[s] # "running"
BY DEF FreshSteps, StepStatuses, Absent

\* The cohorts of a freshly built step array are groups or none.
LEMMA StepCohortsType ==
  ASSUME NEW n \in 0..NumSteps, NEW g, \A s \in Steps : g[s] \in Cohorts
  PROVE  StepCohorts(n, g) \in [Steps -> Cohorts]
<1>1. 1..n \subseteq Steps
  BY SizesAssumption DEF Steps
<1>2. ResolveCohorts(g, 1..n) \in [1..n -> Cohorts]
  BY <1>1, ResolveCohortsType
<1>3. \A s \in Steps : s <= n => s \in 1..n
  BY SizesAssumption DEF Steps
<1> QED
  BY <1>2, <1>3 DEF StepCohorts, Cohorts

-----------------------------------------------------------------------------
(* Type correctness.                                                        *)

\* The initial ferment, an empty draft, is well typed.
LEMMA InitTypeOK == Init => TypeOK
<1> SUFFICES ASSUME Init PROVE TypeOK
  OBVIOUS
<1>1. \A p \in Phases : FreshSteps(0) \in [Steps -> StepStatuses \cup {Absent}]
  BY FreshStepsType
<1> QED
  BY <1>1 DEF Init, TypeOK, FermentStatuses, PhaseStatuses, Cohorts, NoPhase, Absent

\* Setting one step keeps the types.
LEMMA SetStepTypeOK ==
  ASSUME TypeOK, NEW p \in Phases, NEW s \in Steps, NEW st \in StepStatuses,
         SetStep(p, s, st)
  PROVE  TypeOK'
BY DEF SetStep, TypeOK

\* Ending a phase, or settling after a resume, keeps the types.
LEMMA SettleTypeOK ==
  ASSUME TypeOK, NEW ps \in [Phases -> PhaseStatuses \cup {Absent}],
         SettleAfterPhaseTerminal(ps),
         UNCHANGED <<phaseGroup, stepStatus, stepGroup>>
  PROVE  TypeOK'
BY DEF SettleAfterPhaseTerminal, TypeOK, FermentStatuses, NoPhase

\* Every command keeps the types.
LEMMA NextTypeOK == TypeOK /\ [Next]_vars => TypeOK'
<1> SUFFICES ASSUME TypeOK, [Next]_vars PROVE TypeOK'
  OBVIOUS
<1>1. CASE Scope
  <2>a. PICK n \in 0..NumPhases :
        \E len \in [1..n -> 0..NumSteps], groups \in [1..n -> Cohorts],
           g \in [1..n -> [Steps -> Cohorts]] :
       /\ \A p \in 1..n : Fits(n, len[p])
       /\ phaseStatus' = [p \in Phases |-> IF p <= n THEN "planned" ELSE Absent]
       /\ phaseGroup' = [p \in Phases |->
            IF p <= n THEN ResolveCohorts(groups, 1..n)[p] ELSE NoGroup]
       /\ stepStatus' = [p \in Phases |->
            FreshSteps(IF p <= n THEN len[p] ELSE 0)]
       /\ stepGroup' = [p \in Phases |->
            IF p <= n THEN StepCohorts(len[p], g[p]) ELSE [s \in Steps |-> NoGroup]]
    BY <1>1 DEF Scope
  <2>1. PICK len \in [1..n -> 0..NumSteps], groups \in [1..n -> Cohorts],
             g \in [1..n -> [Steps -> Cohorts]] :
       /\ \A p \in 1..n : Fits(n, len[p])
       /\ phaseStatus' = [p \in Phases |-> IF p <= n THEN "planned" ELSE Absent]
       /\ phaseGroup' = [p \in Phases |->
            IF p <= n THEN ResolveCohorts(groups, 1..n)[p] ELSE NoGroup]
       /\ stepStatus' = [p \in Phases |->
            FreshSteps(IF p <= n THEN len[p] ELSE 0)]
       /\ stepGroup' = [p \in Phases |->
            IF p <= n THEN StepCohorts(len[p], g[p]) ELSE [s \in Steps |-> NoGroup]]
    BY <2>a
  <2>2. phaseStatus' \in [Phases -> PhaseStatuses \cup {Absent}]
    BY <2>1 DEF PhaseStatuses
  <2>3. phaseGroup' \in [Phases -> Cohorts]
    <3>1. 1..n \subseteq Phases /\ \A p \in Phases : p <= n => p \in 1..n
      BY SizesAssumption DEF Phases
    <3>2. ResolveCohorts(groups, 1..n) \in [1..n -> Cohorts]
      BY <3>1, ResolveCohortsType
    <3> QED
      BY <2>1, <3>1, <3>2 DEF Cohorts
  <2>4. stepStatus' \in [Phases -> [Steps -> StepStatuses \cup {Absent}]]
    BY <2>1, FreshStepsType
  <2>5. stepGroup' \in [Phases -> [Steps -> Cohorts]]
    <3>1. \A p \in 1..n : StepCohorts(len[p], g[p]) \in [Steps -> Cohorts]
      BY StepCohortsType
    <3>2. \A p \in Phases : p <= n => p \in 1..n
      BY SizesAssumption DEF Phases
    <3> QED
      BY <2>1, <3>1, <3>2 DEF Cohorts
  <2>6. status' = "planned" /\ activePhase' = activePhase
    BY <1>1 DEF Scope
  <2> QED
    BY <2>2, <2>3, <2>4, <2>5, <2>6 DEF TypeOK, FermentStatuses
<1>2. CASE CompleteFerment
  BY <1>2 DEF CompleteFerment, TypeOK, FermentStatuses
<1>3. CASE Pause
  BY <1>3 DEF Pause, TypeOK, FermentStatuses, StepStatuses
<1>4. CASE Resume
  BY <1>4, SettleTypeOK DEF Resume, TypeOK
<1>5. CASE Abandon
  BY <1>5 DEF Abandon, TypeOK, FermentStatuses
<1>6. ASSUME NEW g \in Groups, ActivatePhaseGroup(g) PROVE TypeOK'
  BY <1>6 DEF ActivatePhaseGroup, TypeOK, FermentStatuses, PhaseStatuses
<1>7. ASSUME NEW p \in Phases, ActivatePhase(p) PROVE TypeOK'
  BY <1>7 DEF ActivatePhase, TypeOK, FermentStatuses, PhaseStatuses
<1>8. ASSUME NEW p \in Phases, RefinePhase(p) PROVE TypeOK'
  <2>1. PICK n \in 0..NumSteps, g \in [Steps -> Cohorts] :
          /\ stepStatus' = [stepStatus EXCEPT ![p] = FreshSteps(n)]
          /\ stepGroup' = [stepGroup EXCEPT ![p] = StepCohorts(n, g)]
    BY <1>8 DEF RefinePhase
  <2>2. stepStatus' \in [Phases -> [Steps -> StepStatuses \cup {Absent}]]
    BY <2>1, FreshStepsType DEF TypeOK
  <2>3. StepCohorts(n, g) \in [Steps -> Cohorts]
    BY StepCohortsType
  <2>4. stepGroup' \in [Phases -> [Steps -> Cohorts]]
    BY <2>1, <2>3 DEF TypeOK
  <2> QED
    BY <1>8, <2>2, <2>4 DEF RefinePhase, TypeOK
<1>9. ASSUME NEW p \in Phases, NEW st \in PhaseStatuses, EndPhase(p, st)
      PROVE  TypeOK'
  <2>1. [phaseStatus EXCEPT ![p] = st] \in [Phases -> PhaseStatuses \cup {Absent}]
    BY DEF TypeOK
  <2> QED
    BY <1>9, <2>1, SettleTypeOK DEF EndPhase
<1>10. ASSUME NEW p \in Phases, CompletePhase(p) \/ SkipPhase(p) \/ FailPhase(p)
       PROVE  TypeOK'
  BY <1>9, <1>10 DEF CompletePhase, SkipPhase, FailPhase, PhaseStatuses
<1>11. ASSUME NEW p \in Phases, NEW s \in Steps, StepCommand(p, s)
       PROVE  TypeOK'
  <2>1. \E st \in StepStatuses : SetStep(p, s, st)
    BY <1>11 DEF StepCommand, StartStep, CompleteStep, VerifyStep, SkipStep,
                 FailStep, StepStatuses
  <2> QED
    BY <2>1, SetStepTypeOK
<1>12. CASE UNCHANGED vars
  BY <1>12 DEF vars, TypeOK
<1> QED
  BY <1>1, <1>2, <1>3, <1>4, <1>5, <1>6, <1>7, <1>8, <1>10, <1>11, <1>12
  DEF Next, FermentCommand, PhaseCommand

\* The ferment is always well typed.
THEOREM TypeCorrect == Spec => []TypeOK
<1> QED
  BY InitTypeOK, NextTypeOK, PTL DEF Spec

-----------------------------------------------------------------------------
(* What a step of each kind leaves of the invariants.                       *)

\* The initial draft has nothing in it.
LEMMA InitIInv == Init => IInv
<1> SUFFICES ASSUME Init PROVE IInv
  OBVIOUS
<1>1. TypeOK
  BY InitTypeOK
<1>2. \A p \in Phases, s \in Steps : stepStatus[p][s] = Absent
  BY SizesAssumption DEF Init, FreshSteps, Steps
<1> QED
  BY <1>1, <1>2 DEF Init, IInv, ActivePhaseSound, StatusFollowsPhases, Planned,
     ActiveIn, ActivePhasesShareGroup, RunningStepsShareCohort, Running,
     PausedIsQuiet, StepsInPlan, HasStep, NoPhase, Absent

\* Settling chooses a status and an active phase that agree with the phases,
\* whatever they were before: the one way all of end, skip, fail and resume end.
LEMMA SettleSound ==
  ASSUME NEW ps, SettleAfterPhaseTerminal(ps)
  PROVE  ActivePhaseSound' /\ StatusFollowsPhases'
BY DEF SettleAfterPhaseTerminal, ActivePhaseSound, StatusFollowsPhases, ActiveIn,
       IsFirst, NoPhase, Phases

\* Settling adds no active phase, so those that remain still share a group.
LEMMA SettleShareGroup ==
  ASSUME ActivePhasesShareGroup, NEW ps, ActiveIn(ps) \subseteq ActiveIn(phaseStatus),
         SettleAfterPhaseTerminal(ps), phaseGroup' = phaseGroup
  PROVE  ActivePhasesShareGroup'
BY DEF SettleAfterPhaseTerminal, ActivePhasesShareGroup, ActiveIn

\* The phase invariants read only phases, status and activePhase.
LEMMA PhasesUnchanged ==
  ASSUME UNCHANGED <<status, activePhase, phaseStatus, phaseGroup>>
  PROVE  /\ ActivePhaseSound => ActivePhaseSound'
         /\ StatusFollowsPhases => StatusFollowsPhases'
         /\ ActivePhasesShareGroup => ActivePhasesShareGroup'
BY DEF ActivePhaseSound, StatusFollowsPhases, ActivePhasesShareGroup, ActiveIn,
       Planned

\* The step invariants read only steps, and whether the ferment is paused.
LEMMA StepsUnchanged ==
  ASSUME UNCHANGED <<stepStatus, stepGroup>>
  PROVE  /\ RunningStepsShareCohort => RunningStepsShareCohort'
         /\ PausedIsQuiet /\ (status' = "paused" => status = "paused")
              => PausedIsQuiet'
BY DEF RunningStepsShareCohort, Running, SameCohort, PausedIsQuiet

\* Setting a step to anything but running preserves every invariant.
LEMMA QuietStepIInv ==
  ASSUME IInv, NEW p \in Phases, NEW s \in Steps, NEW st \in StepStatuses \ {"running"},
         NotPaused, SetStep(p, s, st)
  PROVE  IInv'
<1>1. TypeOK'
  BY SetStepTypeOK DEF IInv
<1>2. ActivePhaseSound' /\ StatusFollowsPhases' /\ ActivePhasesShareGroup'
  BY PhasesUnchanged DEF IInv, SetStep
<1>3. \A q \in Phases : Running(q)' \subseteq Running(q)
  BY DEF IInv, TypeOK, SetStep, Running
<1>4. RunningStepsShareCohort'
  BY <1>3 DEF IInv, RunningStepsShareCohort, SetStep, SameCohort
<1>5. PausedIsQuiet'
  BY DEF PausedIsQuiet, SetStep, NotPaused
<1>6. StepsInPlan'
  BY DEF IInv, TypeOK, StepsInPlan, SetStep, HasStep, Planned, Absent, StepStatuses
<1> QED
  BY <1>1, <1>2, <1>4, <1>5, <1>6 DEF IInv

\* A phase that ends preserves every invariant.
LEMMA EndPhaseIInv ==
  ASSUME IInv, NEW p \in Phases, NEW st \in TerminalPhaseStatuses, EndPhase(p, st)
  PROVE  IInv'
<1> DEFINE ps == [phaseStatus EXCEPT ![p] = st]
<1>1. SettleAfterPhaseTerminal(ps) /\ UNCHANGED <<phaseGroup, stepStatus, stepGroup>>
  BY DEF EndPhase
<1>2. ps \in [Phases -> PhaseStatuses \cup {Absent}]
  BY DEF IInv, TypeOK, TerminalPhaseStatuses, PhaseStatuses
<1>3. TypeOK'
  BY <1>1, <1>2, SettleTypeOK DEF IInv
<1>4. ActivePhaseSound' /\ StatusFollowsPhases'
  BY <1>1, SettleSound
<1>5. ActiveIn(ps) \subseteq ActiveIn(phaseStatus)
  BY DEF IInv, TypeOK, ActiveIn, TerminalPhaseStatuses
<1>6. ActivePhasesShareGroup'
  BY <1>1, <1>5, SettleShareGroup DEF IInv
<1>7. status' # "paused"
  BY <1>1 DEF SettleAfterPhaseTerminal
<1>8. RunningStepsShareCohort' /\ PausedIsQuiet'
  BY <1>1, <1>7, StepsUnchanged DEF IInv
<1>9. StepsInPlan'
  BY <1>1 DEF IInv, TypeOK, StepsInPlan, SettleAfterPhaseTerminal, Planned, HasStep,
     TerminalPhaseStatuses, Absent
<1> QED
  BY <1>3, <1>4, <1>6, <1>8, <1>9 DEF IInv

\* Starting a step preserves every invariant: the step it is compared with is in
\* the cohort of all other running steps, so the new one is too.
LEMMA StartStepIInv ==
  ASSUME IInv, NEW p \in Phases, NEW s \in Steps, StartStep(p, s)
  PROVE  IInv'
<1>1. SetStep(p, s, "running") /\ NotPaused /\ "running" \in StepStatuses
  BY DEF StartStep, CanStart, StepStatuses
<1>2. TypeOK'
  BY <1>1, SetStepTypeOK DEF IInv
<1>3. ActivePhaseSound' /\ StatusFollowsPhases' /\ ActivePhasesShareGroup'
  BY <1>1, PhasesUnchanged DEF IInv, SetStep
<1>4. PausedIsQuiet'
  BY <1>1 DEF PausedIsQuiet, SetStep, NotPaused
<1>5. StepsInPlan'
  BY <1>1 DEF IInv, TypeOK, StepsInPlan, SetStep, HasStep, Planned, Absent
<1>6. RunningStepsShareCohort'
  <2>1. \A t \in Running(p) \ {s} : SameCohort(p, s, t) /\ SameCohort(p, t, s)
    BY DEF IInv, StartStep, CanStart, IsFirst, RunningStepsShareCohort, SameCohort
  <2>2. /\ \A q \in Phases \ {p} : Running(q)' = Running(q)
        /\ Running(p)' = Running(p) \cup {s}
        /\ stepGroup' = stepGroup
    BY <1>1 DEF IInv, TypeOK, SetStep, Running
  <2> QED
    BY <2>1, <2>2 DEF IInv, RunningStepsShareCohort, SameCohort
<1> QED
  BY <1>2, <1>3, <1>4, <1>5, <1>6 DEF IInv

\* Scoping a draft brings planned phases with pending steps only.
LEMMA ScopeIInv == IInv /\ Scope => IInv'
<1> SUFFICES ASSUME IInv, Scope PROVE IInv'
  OBVIOUS
<1>1. TypeOK'
  BY NextTypeOK DEF IInv, Next, FermentCommand
<1>a. PICK n \in 0..NumPhases : \E len \in [1..n -> 0..NumSteps] :
        /\ phaseStatus' = [p \in Phases |-> IF p <= n THEN "planned" ELSE Absent]
        /\ stepStatus' = [p \in Phases |->
             FreshSteps(IF p <= n THEN len[p] ELSE 0)]
  BY DEF Scope
<1>2. PICK len \in [1..n -> 0..NumSteps] :
        /\ phaseStatus' = [p \in Phases |-> IF p <= n THEN "planned" ELSE Absent]
        /\ stepStatus' = [p \in Phases |->
             FreshSteps(IF p <= n THEN len[p] ELSE 0)]
  BY <1>a
<1>3. status = "draft" /\ status' = "planned" /\ activePhase' = activePhase
  BY DEF Scope, CanScope
<1>4. activePhase = NoPhase
  BY <1>3 DEF IInv, StatusFollowsPhases, ActivePhaseSound, Planned, Absent
<1>5. ActiveIn(phaseStatus)' = {}
  BY <1>2 DEF ActiveIn, Absent
<1>6. \A p \in Phases : Running(p)' = {}
  BY <1>2, FreshStepsType DEF Running
<1>7. StepsInPlan'
  BY <1>2, SizesAssumption DEF StepsInPlan, Planned, HasStep, FreshSteps, Absent, Steps
<1>8. ActivePhaseSound' /\ StatusFollowsPhases' /\ ActivePhasesShareGroup'
  BY <1>3, <1>4, <1>5 DEF ActivePhaseSound, StatusFollowsPhases,
     ActivePhasesShareGroup
<1>9. RunningStepsShareCohort' /\ PausedIsQuiet'
  BY <1>6 DEF RunningStepsShareCohort, PausedIsQuiet
<1> QED
  BY <1>1, <1>7, <1>8, <1>9 DEF IInv

\* Activating a phase makes it the only active one.
LEMMA ActivatePhaseIInv ==
  ASSUME IInv, NEW p \in Phases, ActivatePhase(p)
  PROVE  IInv'
<1>1. TypeOK'
  BY NextTypeOK DEF IInv, Next, PhaseCommand
<1>2. /\ ActiveIn(phaseStatus)' = {p}
      /\ phaseStatus'[p] = "active"
      /\ activePhase' = p /\ status' = "running"
  BY DEF IInv, TypeOK, ActivatePhase, ActiveIn
<1>3. ActivePhaseSound' /\ StatusFollowsPhases' /\ ActivePhasesShareGroup'
  BY <1>2 DEF ActivePhaseSound, StatusFollowsPhases, ActivePhasesShareGroup,
     ActiveIn, NoPhase, Phases
<1>4. RunningStepsShareCohort' /\ PausedIsQuiet'
  BY <1>2, StepsUnchanged DEF IInv, ActivatePhase
<1>5. StepsInPlan'
  BY DEF IInv, TypeOK, ActivatePhase, StepsInPlan, Planned, HasStep, Absent
<1> QED
  BY <1>1, <1>3, <1>4, <1>5 DEF IInv

\* Activating a group leaves members of that group active, and no other phase.
LEMMA ActivatePhaseGroupIInv ==
  ASSUME IInv, NEW g \in Groups, ActivatePhaseGroup(g)
  PROVE  IInv'
<1>1. TypeOK'
  BY NextTypeOK DEF IInv, Next
<1>2. PICK p \in Phases : /\ phaseStatus'[p] = "active"
                          /\ activePhase' = p
  BY DEF IInv, TypeOK, ActivatePhaseGroup, IsFirst
<1>3. \A q \in ActiveIn(phaseStatus)' : phaseGroup'[q] = g
  BY DEF IInv, TypeOK, ActivatePhaseGroup, CanActivateGroup, PlannedInGroup, ActiveIn
<1>4. p \in ActiveIn(phaseStatus)' /\ status' = "running"
  BY <1>2 DEF ActiveIn, ActivatePhaseGroup
<1>5. ActivePhaseSound' /\ StatusFollowsPhases'
  BY <1>2, <1>4 DEF ActivePhaseSound, StatusFollowsPhases, ActiveIn, NoPhase, Phases
<1>6. ActivePhasesShareGroup'
  BY <1>3, GroupsAssumption DEF ActivePhasesShareGroup
<1>7. RunningStepsShareCohort' /\ PausedIsQuiet'
  BY <1>4, StepsUnchanged DEF IInv, ActivatePhaseGroup
<1>8. StepsInPlan'
  BY DEF IInv, TypeOK, ActivatePhaseGroup, StepsInPlan, Planned, HasStep, Absent
<1> QED
  BY <1>1, <1>5, <1>6, <1>7, <1>8 DEF IInv

\* Refining replaces the steps of a phase that has none running by pending ones.
LEMMA RefinePhaseIInv ==
  ASSUME IInv, NEW p \in Phases, RefinePhase(p)
  PROVE  IInv'
<1>1. TypeOK'
  BY NextTypeOK DEF IInv, Next, PhaseCommand
<1>2. ActivePhaseSound' /\ StatusFollowsPhases' /\ ActivePhasesShareGroup'
  BY PhasesUnchanged DEF IInv, RefinePhase
<1>3. PICK n \in 0..NumSteps : stepStatus' = [stepStatus EXCEPT ![p] = FreshSteps(n)]
  BY DEF RefinePhase
<1>4. PICK h : stepGroup' = [stepGroup EXCEPT ![p] = h]
  BY DEF RefinePhase
<1>5. /\ Running(p)' = {}
      /\ \A q \in Phases \ {p} : Running(q)' = Running(q)
  BY <1>3, FreshStepsType DEF IInv, TypeOK, Running
<1>6. RunningStepsShareCohort'
  BY <1>4, <1>5 DEF IInv, TypeOK, RunningStepsShareCohort, SameCohort
<1>7. PausedIsQuiet'
  BY DEF PausedIsQuiet, RefinePhase, CanRefine, NotPaused
<1>8. StepsInPlan'
  BY <1>3 DEF IInv, TypeOK, RefinePhase, CanRefine, StepsInPlan, Planned, HasStep, Absent
<1> QED
  BY <1>1, <1>2, <1>6, <1>7, <1>8 DEF IInv

\* Pausing puts every running step back to pending and leaves the phases alone.
LEMMA PauseIInv == IInv /\ Pause => IInv'
<1> SUFFICES ASSUME IInv, Pause PROVE IInv'
  OBVIOUS
<1>1. TypeOK'
  BY NextTypeOK DEF IInv, Next, FermentCommand
<1>2. \A p \in Phases : Running(p)' = {}
  BY DEF Pause, Running
<1>3. ActivePhaseSound' /\ StatusFollowsPhases' /\ ActivePhasesShareGroup'
  BY DEF IInv, Pause, ActivePhaseSound, StatusFollowsPhases,
     ActivePhasesShareGroup, ActiveIn
<1>4. RunningStepsShareCohort' /\ PausedIsQuiet'
  BY <1>2 DEF RunningStepsShareCohort, PausedIsQuiet
<1>5. StepsInPlan'
  BY DEF IInv, Pause, StepsInPlan, Planned, HasStep, Absent
<1> QED
  BY <1>1, <1>3, <1>4, <1>5 DEF IInv

\* Every command preserves the invariant.
LEMMA NextIInv == IInv /\ [Next]_vars => IInv'
<1> SUFFICES ASSUME IInv, [Next]_vars PROVE IInv'
  OBVIOUS
<1>1. CASE CompleteFerment
  <2>1. TypeOK'
    BY <1>1, NextTypeOK DEF IInv, Next, FermentCommand
  <2>2. ActiveIn(phaseStatus) = {}
    BY <1>1 DEF CompleteFerment, CanCompleteFerment, ActiveIn, Planned, TerminalPhaseStatuses, Absent
  <2> QED
    BY <1>1, <2>1, <2>2 DEF IInv, CompleteFerment, CanCompleteFerment, ActivePhaseSound,
       StatusFollowsPhases, ActiveIn, Planned, ActivePhasesShareGroup,
       RunningStepsShareCohort, Running, SameCohort, PausedIsQuiet, StepsInPlan,
       HasStep
<1>2. CASE Resume
  <2>1. TypeOK'
    BY <1>2, NextTypeOK DEF IInv, Next, FermentCommand
  <2>2. SettleAfterPhaseTerminal(phaseStatus) /\ UNCHANGED <<phaseGroup, stepStatus, stepGroup>>
    BY <1>2 DEF Resume
  <2>3. status' # "paused" /\ phaseStatus' = phaseStatus
    BY <2>2 DEF SettleAfterPhaseTerminal
  <2>4. ActivePhaseSound' /\ StatusFollowsPhases' /\ ActivePhasesShareGroup'
    BY <2>2, SettleSound, SettleShareGroup DEF IInv
  <2>5. RunningStepsShareCohort' /\ PausedIsQuiet'
    BY <2>2, <2>3, StepsUnchanged DEF IInv
  <2>6. StepsInPlan'
    BY <2>2, <2>3 DEF IInv, StepsInPlan, Planned, HasStep
  <2> QED
    BY <2>1, <2>4, <2>5, <2>6 DEF IInv
<1>3. CASE Abandon
  BY <1>3, NextTypeOK DEF IInv, Abandon, Next, FermentCommand, ActivePhaseSound,
     StatusFollowsPhases, ActiveIn, ActivePhasesShareGroup,
     RunningStepsShareCohort, Running, SameCohort, PausedIsQuiet, StepsInPlan,
     HasStep, Planned
<1>4. ASSUME NEW p \in Phases, CompletePhase(p) \/ SkipPhase(p) \/ FailPhase(p)
      PROVE  IInv'
  BY <1>4, EndPhaseIInv DEF CompletePhase, SkipPhase, FailPhase,
     TerminalPhaseStatuses
<1>5. ASSUME NEW p \in Phases, NEW s \in Steps, StepCommand(p, s)
      PROVE  IInv'
  <2>1. CASE StartStep(p, s)
    BY <2>1, StartStepIInv
  <2>2. CASE ~StartStep(p, s)
    <3>1. NotPaused /\ \E st \in StepStatuses \ {"running"} : SetStep(p, s, st)
      BY <1>5, <2>2 DEF StepCommand, CompleteStep, VerifyStep, SkipStep, FailStep,
                        StepStatuses
    <3> QED
      BY <3>1, QuietStepIInv
  <2> QED
    BY <2>1, <2>2
<1>6. CASE UNCHANGED vars
  BY <1>6, NextTypeOK, PhasesUnchanged, StepsUnchanged
  DEF IInv, vars, StepsInPlan, Planned, HasStep
<1> QED
  BY <1>1, <1>2, <1>3, <1>4, <1>5, <1>6, ScopeIInv, PauseIInv, ActivatePhaseIInv,
     ActivatePhaseGroupIInv, RefinePhaseIInv
  DEF Next, FermentCommand, PhaseCommand

\* The invariant holds in every reachable ferment.
LEMMA Invariance == Spec => []IInv
<1> QED
  BY InitIInv, NextIInv, PTL DEF Spec

-----------------------------------------------------------------------------
(* The theorems.                                                            *)

\* activePhaseId names an active phase, or there is none, after any commands.
THEOREM ActivePhaseIsSound == Spec => []ActivePhaseSound
<1> QED
  BY Invariance, PTL DEF IInv

\* The status of the ferment and the statuses of its phases never disagree.
THEOREM StatusAgrees == Spec => []StatusFollowsPhases
<1> QED
  BY Invariance, PTL DEF IInv

\* Phases active together are members of one parallel group.
THEOREM ActiveGroup == Spec => []ActivePhasesShareGroup
<1> QED
  BY Invariance, PTL DEF IInv

\* Steps running together in a phase are members of one parallel cohort.
THEOREM RunningCohort == Spec => []RunningStepsShareCohort
<1> QED
  BY Invariance, PTL DEF IInv

\* Nothing runs in a paused ferment.
THEOREM PauseIsQuiet == Spec => []PausedIsQuiet
<1> QED
  BY Invariance, PTL DEF IInv

\* Only resume and abandon act on a paused ferment; phases and steps stay.
THEOREM PauseIsFrozen == Spec => PauseFreezes
<1> DEFINE Frozen == status = "paused" =>
             /\ status' \in {"paused", "running", "planned", "abandoned"}
             /\ UNCHANGED <<phaseStatus, phaseGroup, stepStatus, stepGroup>>
<1>1. [Next]_vars => [Frozen]_vars
  <2> SUFFICES ASSUME Next, status = "paused" PROVE Frozen
    OBVIOUS
  <2>1. Resume \/ Abandon
    BY DEF Next, FermentCommand, PhaseCommand, StepCommand, NotPaused, Scope, CanScope,
       CompleteFerment, CanCompleteFerment, Pause, ActivatePhaseGroup, CanActivateGroup, PlannedInGroup, ActivatePhase, CanActivate, RefinePhase, CanRefine,
       CompletePhase, SkipPhase, FailPhase, EndPhase, CanEnd, StartStep, CanStart, CompleteStep,
       VerifyStep, SkipStep, FailStep
  <2> QED
    BY <2>1 DEF Resume, Abandon, SettleAfterPhaseTerminal
<1> QED
  BY <1>1, PTL DEF Spec, PauseFreezes

\* A running step leaves that status by its own completion, skip or failure, or
\* by a pause of the whole ferment: never by a refinement or a new scope.
THEOREM RunningStepSurvives == Spec => RunningStepIsNotLost
<1> DEFINE Kept == \A p \in Phases : \A s \in Running(p) :
             /\ stepStatus'[p][s] # Absent
             /\ stepStatus'[p][s] = "pending" => status' = "paused"
<1>1. IInv /\ [Next]_vars => [Kept]_vars
  <2> SUFFICES ASSUME IInv, Next PROVE Kept
    OBVIOUS
  <2>0. TypeOK
    BY DEF IInv
  <2>1. CASE UNCHANGED stepStatus
    BY <2>1 DEF Running, Absent
  <2>2. CASE Scope
    BY <2>2 DEF IInv, Scope, CanScope, StatusFollowsPhases, StepsInPlan, HasStep, Running, Absent
  <2>3. CASE Pause
    BY <2>0, <2>3 DEF Pause, Running, TypeOK, Absent
  <2>4. ASSUME NEW p \in Phases, RefinePhase(p) PROVE Kept
    BY <2>0, <2>4 DEF RefinePhase, CanRefine, Running, TypeOK, Absent
  <2>5. ASSUME NEW p \in Phases, NEW s \in Steps, StepCommand(p, s) PROVE Kept
    <3>1. \E st \in StepStatuses \ {"pending"} : SetStep(p, s, st)
      BY <2>5 DEF StepCommand, StartStep, CompleteStep, VerifyStep, SkipStep,
                  FailStep, StepStatuses
    <3> QED
      BY <2>0, <3>1 DEF SetStep, TypeOK, Running, StepStatuses, Absent
  <2>6. Scope \/ Pause \/ UNCHANGED stepStatus
        \/ (\E p \in Phases : RefinePhase(p))
        \/ (\E p \in Phases, s \in Steps : StepCommand(p, s))
    BY DEF Next, FermentCommand, PhaseCommand, CompleteFerment, Resume, Abandon,
       ActivatePhaseGroup, ActivatePhase, CompletePhase, SkipPhase, FailPhase, EndPhase
  <2> QED
    BY <2>1, <2>2, <2>3, <2>4, <2>5, <2>6
<1> QED
  BY <1>1, Invariance, PTL DEF Spec, RunningStepIsNotLost

-----------------------------------------------------------------------------
(* The commands, whoever issues them, are steps of FermentStateMachine.     *)

\* Every command on a phase or a step of the plan is a step of Next.
LEMMA CommandIsNext ==
  ASSUME NEW p \in Phases, NEW s \in Steps
  PROVE  /\ ActivatePhase(p) => Next
         /\ RefinePhase(p) => Next
         /\ CompletePhase(p) => Next
         /\ SkipPhase(p) => Next
         /\ FailPhase(p) => Next
         /\ StartStep(p, s) => Next
         /\ \A b \in BOOLEAN : CompleteStep(p, s, b) => Next
         /\ \A b \in BOOLEAN : VerifyStep(p, s, b) => Next
         /\ SkipStep(p, s) => Next
         /\ FailStep(p, s) => Next
BY DEF Next, PhaseCommand, StepCommand

\* So is a command on the ferment as a whole.
LEMMA FermentCommandIsNext ==
  /\ Scope => Next
  /\ CompleteFerment => Next
  /\ Pause => Next
  /\ Resume => Next
  /\ Abandon => Next
BY DEF Next, FermentCommand

\* A tool is a command behind a guard; activation picks the phase or its group.
LEMMA ToolIsNext ==
  ASSUME TypeOK, NEW p \in Phases, NEW s \in Steps
  PROVE  /\ ScopeTool => Next
         /\ ActivateTool(p) => Next
         /\ RefineTool(p) => Next
         /\ SkipPhaseTool(p) => Next
         /\ FailPhaseTool(p) => Next
         /\ CompletePhaseTool(p) => Next
         /\ StartStepTool(p, s) => Next
         /\ SkipStepTool(p, s) => Next
         /\ FailStepTool(p, s) => Next
         /\ CompleteStepTool(p, s) => Next
<1>1. ASSUME ActivateTool(p) PROVE Next
  <2>1. CASE phaseGroup[p] = NoGroup
    BY <1>1, <2>1, CommandIsNext DEF ActivateTool
  <2>2. CASE phaseGroup[p] # NoGroup
    <3>1. phaseGroup[p] \in Groups
      BY <2>2 DEF TypeOK, Cohorts
    <3>2. ActivatePhaseGroup(phaseGroup[p])
      BY <1>1, <2>2 DEF ActivateTool
    <3> QED
      BY <3>1, <3>2 DEF Next
  <2> QED
    BY <2>1, <2>2
<1> QED
  BY <1>1, CommandIsNext, FermentCommandIsNext
  DEF ScopeTool, RefineTool, SkipPhaseTool, FailPhaseTool, CompletePhaseTool,
      StartStepTool, SkipStepTool, FailStepTool, CompleteStepTool

-----------------------------------------------------------------------------
(* What the engine names.                                                   *)

\* Array.prototype.find finds something in what is not empty.
LEMMA FirstExists ==
  ASSUME NEW S \in SUBSET Nat, S # {}
  PROVE  First(S) \in S /\ IsFirst(First(S), S)
<1>1. \E x \in S : \A y \in S : ~(<<y, x>> \in OpToRel(<, Nat))
  BY NatLessThanWellFounded, WFMin, Zenon
<1>2. PICK x \in S : \A y \in S : ~(y < x)
  BY <1>1 DEF OpToRel
<1>3. IsFirst(x, S)
  BY <1>2 DEF IsFirst
<1> QED
  BY <1>3 DEF First

\* Phases and steps are numbered.
LEMMA Numbered ==
  /\ Phases \subseteq Nat /\ Steps \subseteq Nat
  /\ 1 \in Phases /\ 1 \in Steps
BY SizesAssumption DEF Phases, Steps

\* The action that the engine hands out names a phase and a step.
LEMMA NextActionNames ==
  ASSUME IInv
  PROVE  NextAction.phase \in Phases /\ NextAction.step \in Steps
<1>1. \A st : WithStatus(st) \in SUBSET Nat /\ WithStatus(st) \in SUBSET Phases
  BY Numbered DEF WithStatus
<1>2. CASE \/ status \in {"complete", "abandoned", "paused"}
           \/ \A p \in Phases : ~Planned(p)
  BY <1>2, Numbered DEF NextAction, Do
<1>3. CASE /\ status \notin {"complete", "abandoned", "paused"}
           /\ ~(\A p \in Phases : ~Planned(p))
           /\ WithStatus("failed") # {}
  <2>1. NextAction = Do("recover_phase", First(WithStatus("failed")), 1)
    BY <1>3 DEF NextAction
  <2> QED
    BY <1>1, <1>3, <2>1, FirstExists, Numbered DEF Do
<1>4. CASE /\ status \notin {"complete", "abandoned", "paused"}
           /\ ~(\A p \in Phases : ~Planned(p))
           /\ WithStatus("failed") = {}
           /\ \A p \in Phases : Planned(p) => phaseStatus[p] \in TerminalPhaseStatuses
  BY <1>4, Numbered DEF NextAction, Do
<1>5. CASE /\ status = "planned"
           /\ ~(\A p \in Phases : ~Planned(p))
           /\ WithStatus("failed") = {}
           /\ ~(\A p \in Phases : Planned(p) => phaseStatus[p] \in TerminalPhaseStatuses)
  <2>1. NextAction = Do("activate_phase", First(WithStatus("planned")), 1)
    BY <1>5 DEF NextAction
  <2>2. PICK q \in Phases : Planned(q) /\ phaseStatus[q] \notin TerminalPhaseStatuses
    BY <1>5
  <2>3. phaseStatus[q] = "planned"
    BY <1>5, <2>2
    DEF IInv, StatusFollowsPhases, ActiveIn, TypeOK, Planned, TerminalPhaseStatuses, PhaseStatuses
  <2>4. WithStatus("planned") # {}
    BY <2>3 DEF WithStatus
  <2> QED
    BY <1>1, <2>1, <2>4, FirstExists, Numbered DEF Do
<1>6. CASE /\ status = "running"
           /\ ~(\A p \in Phases : ~Planned(p))
           /\ WithStatus("failed") = {}
           /\ ~(\A p \in Phases : Planned(p) => phaseStatus[p] \in TerminalPhaseStatuses)
  <2> DEFINE p == activePhase
             running == Running(p)
             failed == StepsWith(p, {"failed"})
             pending == StepsWith(p, {"pending"})
             siblings == {s \in pending : SameCohort(p, First(running), s)}
  <2>1. NextAction = NextInPhase(p)
    BY <1>6 DEF NextAction
  <2>2. p \in Phases
    BY <1>6 DEF IInv, StatusFollowsPhases, ActivePhaseSound
  <2>3. \A S \in {failed, siblings, running, pending} : S # {} => First(S) \in Steps
    <3>1. \A S \in {failed, siblings, running, pending} : S \in SUBSET Steps /\ S \in SUBSET Nat
      BY Numbered DEF Running, StepsWith
    <3> QED
      BY <3>1, FirstExists
  <2>4. \/ NextInPhase(p) \in {Do("refine", p, 1), Do("complete_phase", p, 1)}
        \/ \E S \in {failed, siblings, running, pending}, kind \in {"recover_step", "start_step", "complete_step"} :
             S # {} /\ NextInPhase(p) = Do(kind, p, First(S))
    BY DEF NextInPhase
  <2>5. CASE NextInPhase(p) \in {Do("refine", p, 1), Do("complete_phase", p, 1)}
    BY <2>1, <2>2, <2>5, Numbered DEF Do
  <2>6. CASE \E S \in {failed, siblings, running, pending}, kind \in {"recover_step", "start_step", "complete_step"} :
               S # {} /\ NextInPhase(p) = Do(kind, p, First(S))
    <3>1. PICK S \in {failed, siblings, running, pending}, kind \in {"recover_step", "start_step", "complete_step"} :
               S # {} /\ NextInPhase(p) = Do(kind, p, First(S))
      BY <2>6
    <3>2. First(S) \in Steps
      BY <2>3, <3>1
    <3> QED
      BY <2>1, <2>2, <3>1, <3>2 DEF Do
  <2> QED
    BY <2>4, <2>5, <2>6
<1>7. status = "draft" => \A p \in Phases : ~Planned(p)
  BY DEF IInv, StatusFollowsPhases
<1>8. status \in FermentStatuses
  BY DEF IInv, TypeOK
<1> QED
  BY <1>2, <1>3, <1>4, <1>5, <1>6, <1>7, <1>8 DEF FermentStatuses
=============================================================================
