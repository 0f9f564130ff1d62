------------------------- MODULE FermentStateMachine -------------------------
(***************************************************************************)
(* One ferment as src/ferment/state-machine.ts (applyCommand) changes it,  *)
(* behind the pause gate of the bridge createApplyAndPersist               *)
(* (extensions/ferment/tool-helpers.ts).  A command that the handler       *)
(* rejects writes nothing and is therefore no step of this module; nothing *)
(* is assumed about WHO issues a command or in which order: agent tools,   *)
(* slash commands, the progress overlay and other sessions all end here.   *)
(* FermentSession.tla adds the callers.                                    *)
(*                                                                         *)
(* Names, goals, descriptions, summaries, grades and time stamps are left  *)
(* out: no guard of applyCommand reads them.  So the commands that only    *)
(* write those (update_scope_field, rename, update_step_description,       *)
(* add_decision, add_memory, set_*_grade) are stuttering steps.            *)
(***************************************************************************)
EXTENDS Integers

CONSTANTS
  NumPhases,        \* most phases a scope command brings
  NumSteps,         \* most steps of one phase
  PlanSize,         \* bound of the model: phases times steps of the longest phase
  Groups,           \* values of parallel_group
  NoGroup,          \* groupIndex is undefined
  ParallelEnabled   \* VARTH_FERMENT_DISABLE_PARALLEL is not "1"

ASSUME SizesAssumption == NumPhases \in Nat \ {0} /\ NumSteps \in Nat \ {0}
ASSUME GroupsAssumption == NoGroup \notin Groups
ASSUME ParallelAssumption == ParallelEnabled \in BOOLEAN

\* Bound of the model: n phases of k steps are not too many.
Fits(n, k) == n * k <= PlanSize

Phases == 1..NumPhases      \* phase-1, phase-2, ... in the order of the plan
Steps  == 1..NumSteps       \* step-1, step-2, ... of a phase
NoPhase == 0                \* activePhaseId is undefined
Cohorts == Groups \cup {NoGroup}

FermentStatuses ==
  {"draft", "planned", "running", "paused", "complete", "abandoned"}
PhaseStatuses == {"planned", "active", "completed", "skipped", "failed"}
StepStatuses  == {"pending", "running", "done", "skipped", "verified", "failed"}
TerminalPhaseStatuses == {"completed", "skipped", "failed"}
TerminalStepStatuses  == {"done", "verified", "skipped", "failed"}
Absent == "absent"          \* the plan has no such phase, the phase no such step

VARIABLES
  status,        \* ferment.status
  activePhase,   \* ferment.activePhaseId
  phaseStatus,   \* phases[p].status
  phaseGroup,    \* phases[p].groupIndex
  stepStatus,    \* phases[p].steps[s].status
  stepGroup      \* phases[p].steps[s].groupIndex

vars == <<status, activePhase, phaseStatus, phaseGroup, stepStatus, stepGroup>>

-----------------------------------------------------------------------------
(* Reading the ferment.                                                     *)

Planned(p)  == phaseStatus[p] # Absent
HasStep(p, s) == stepStatus[p][s] # Absent

ActiveIn(ps) == {p \in Phases : ps[p] = "active"}
Running(p)   == {s \in Steps : stepStatus[p][s] = "running"}

\* Array.prototype.find: the first element of S in plan order.
IsFirst(x, S) == x \in S /\ \A y \in S : x <= y

\* A group with a single member collapses to sequential execution.
ResolveCohorts(groups, I) ==
  [i \in I |-> IF \E j \in I \ {i} : groups[j] = groups[i]
               THEN groups[i] ELSE NoGroup]

SameCohort(p, s, t) ==
  /\ ParallelEnabled
  /\ stepGroup[p][s] # NoGroup
  /\ stepGroup[p][s] = stepGroup[p][t]

-----------------------------------------------------------------------------
(* Building phases and steps.                                               *)

\* n fresh steps, the rest of the array does not exist
FreshSteps(n) == [s \in Steps |-> IF s <= n THEN "pending" ELSE Absent]
StepCohorts(n, g) ==
  [s \in Steps |-> IF s <= n THEN ResolveCohorts(g, 1..n)[s] ELSE NoGroup]

\* Mutant of SettleAfterPhaseTerminal: activePhaseId is not cleared.
SettleKeepingActivePhase(ps) ==
  /\ phaseStatus' = ps
  /\ IF ActiveIn(ps) = {}
     THEN status' = "planned" /\ UNCHANGED activePhase
     ELSE /\ status' = "running"
          /\ \E q \in Phases : IsFirst(q, ActiveIn(ps)) /\ activePhase' = q

\* After a phase ends: stay with an active sibling, or fall back to planned.
SettleAfterPhaseTerminal(ps) ==
  /\ phaseStatus' = ps
  /\ IF ActiveIn(ps) = {}
     THEN status' = "planned" /\ activePhase' = NoPhase
     ELSE /\ status' = "running"
          /\ \E q \in Phases : IsFirst(q, ActiveIn(ps)) /\ activePhase' = q

SetStep(p, s, st) ==
  /\ HasStep(p, s)
  /\ stepStatus' = [stepStatus EXCEPT ![p][s] = st]
  /\ UNCHANGED <<status, activePhase, phaseStatus, phaseGroup, stepGroup>>

\* Mutant of NotPaused: the bridge has no pause gate.
NoPauseGate == TRUE

\* The bridge refuses every command but resume and abandon on a paused ferment.
NotPaused == status # "paused"

-----------------------------------------------------------------------------
(* The commands.                                                            *)

CanScope == NotPaused /\ status = "draft"

Scope ==
  /\ CanScope
  /\ \E n \in 0..NumPhases :
       \E len \in [1..n -> 0..NumSteps], groups \in [1..n -> Cohorts],
          g \in [1..n -> [Steps -> Cohorts]] :
       /\ \A p \in 1..n : Fits(n, len[p])
       /\ phaseStatus' = [p \in Phases |-> IF p <= n THEN "planned" ELSE Absent]
       /\ phaseGroup' = [p \in Phases |->
            IF p <= n THEN ResolveCohorts(groups, 1..n)[p] ELSE NoGroup]
       /\ stepStatus' = [p \in Phases |->
            FreshSteps(IF p <= n THEN len[p] ELSE 0)]
       /\ stepGroup' = [p \in Phases |->
            IF p <= n THEN StepCohorts(len[p], g[p]) ELSE [s \in Steps |-> NoGroup]]
  /\ status' = "planned"
  /\ UNCHANGED activePhase

CanActivate(p) == NotPaused /\ phaseStatus[p] \in {"planned", "failed"}

ActivatePhase(p) ==
  /\ CanActivate(p)
  /\ phaseStatus' = [q \in Phases |->
       IF q = p THEN "active"
       ELSE IF phaseStatus[q] = "active" THEN "planned" ELSE phaseStatus[q]]
  /\ activePhase' = p
  /\ status' = "running"
  /\ UNCHANGED <<phaseGroup, stepStatus, stepGroup>>

PlannedInGroup(g) ==
  {p \in Phases : phaseGroup[p] = g /\ phaseStatus[p] = "planned"}

CanActivateGroup(g) == NotPaused /\ PlannedInGroup(g) # {}

\* Mutant of ActivatePhaseGroup: phases outside the group stay active.
ActivatePhaseGroupOnly(g) ==
  LET members == PlannedInGroup(g) IN
  /\ CanActivateGroup(g)
  /\ \E p \in Phases : IsFirst(p, members) /\ activePhase' = p
  /\ phaseStatus' = [q \in Phases |->
       IF q \in members THEN "active" ELSE phaseStatus[q]]
  /\ status' = "running"
  /\ UNCHANGED <<phaseGroup, stepStatus, stepGroup>>

ActivatePhaseGroup(g) ==
  LET members == PlannedInGroup(g) IN
  /\ CanActivateGroup(g)
  /\ \E p \in Phases : IsFirst(p, members) /\ activePhase' = p
  /\ phaseStatus' = [q \in Phases |->
       IF q \in members THEN "active"
       ELSE IF phaseStatus[q] = "active" /\ phaseGroup[q] # g THEN "planned"
       ELSE phaseStatus[q]]
  /\ status' = "running"
  /\ UNCHANGED <<phaseGroup, stepStatus, stepGroup>>

\* Mutant of RefinePhase: the steps are replaced although one is running.
RefinePhaseAnyway(p) ==
  /\ NotPaused
  /\ phaseStatus[p] = "active"
  /\ \E n \in 0..NumSteps, g \in [Steps -> Cohorts] :
       /\ \A q \in Phases : Planned(q) => Fits(q, n)
       /\ stepStatus' = [stepStatus EXCEPT ![p] = FreshSteps(n)]
       /\ stepGroup' = [stepGroup EXCEPT ![p] = StepCohorts(n, g)]
  /\ UNCHANGED <<status, activePhase, phaseStatus, phaseGroup>>

CanRefine(p) == NotPaused /\ phaseStatus[p] = "active" /\ Running(p) = {}

RefinePhase(p) ==
  /\ CanRefine(p)
  /\ \E n \in 0..NumSteps, g \in [Steps -> Cohorts] :
       /\ \A q \in Phases : Planned(q) => Fits(q, n)
       /\ stepStatus' = [stepStatus EXCEPT ![p] = FreshSteps(n)]
       /\ stepGroup' = [stepGroup EXCEPT ![p] = StepCohorts(n, g)]
  /\ UNCHANGED <<status, activePhase, phaseStatus, phaseGroup>>

\* Mutant of StartStep: any two grouped steps may run together.
StartGroupedStep(p, s) ==
  LET others == Running(p) \ {s} IN
  /\ NotPaused
  /\ \/ others = {}
     \/ \E r \in Steps : IsFirst(r, others) /\ stepGroup[p][r] # NoGroup
  /\ SetStep(p, s, "running")

\* Only the first other running step is compared with the one to start.
CanStart(p, s) ==
  LET others == Running(p) \ {s} IN
  /\ NotPaused
  /\ HasStep(p, s)
  /\ \/ others = {}
     \/ \E r \in Steps : IsFirst(r, others) /\ SameCohort(p, r, s)

StartStep(p, s) == CanStart(p, s) /\ SetStep(p, s, "running")

\* Mutant of CompleteStep: a step without a verification result is queued again.
CompleteStepQueuesAgain(p, s, success) ==
  NotPaused /\ SetStep(p, s, IF success THEN "verified" ELSE "pending")

\* complete_step may carry a verification result, verify_step always does.
CompleteStep(p, s, success) ==
  NotPaused /\ SetStep(p, s, IF success THEN "verified" ELSE "done")

VerifyStep(p, s, success) ==
  NotPaused /\ SetStep(p, s, IF success THEN "verified" ELSE "done")

SkipStep(p, s) == NotPaused /\ SetStep(p, s, "skipped")
FailStep(p, s) == NotPaused /\ SetStep(p, s, "failed")

CanEnd(p) == NotPaused /\ Planned(p)

EndPhase(p, st) ==
  /\ CanEnd(p)
  /\ SettleAfterPhaseTerminal([phaseStatus EXCEPT ![p] = st])
  /\ UNCHANGED <<phaseGroup, stepStatus, stepGroup>>

CompletePhase(p) == phaseStatus[p] = "active" /\ EndPhase(p, "completed")
SkipPhase(p) == EndPhase(p, "skipped")
FailPhase(p) == EndPhase(p, "failed")

\* Mutant of CompleteFerment: no phase is active, but one may be left to do.
CompleteWithoutActive ==
  /\ NotPaused
  /\ status \notin {"complete", "abandoned"}
  /\ ActiveIn(phaseStatus) = {}
  /\ status' = "complete"
  /\ UNCHANGED <<activePhase, phaseStatus, phaseGroup, stepStatus, stepGroup>>

CanCompleteFerment ==
  /\ NotPaused
  /\ status \notin {"complete", "abandoned"}
  /\ \A p \in Phases : Planned(p) => phaseStatus[p] \in TerminalPhaseStatuses

CompleteFerment ==
  /\ CanCompleteFerment
  /\ status' = "complete"
  /\ UNCHANGED <<activePhase, phaseStatus, phaseGroup, stepStatus, stepGroup>>

\* Mutant of Pause: the killed workers' steps are left running.
PauseOnly ==
  /\ status \in {"running", "planned"}
  /\ status' = "paused"
  /\ UNCHANGED <<activePhase, phaseStatus, phaseGroup, stepStatus, stepGroup>>

\* The workers of running steps are about to be killed.
Pause ==
  /\ status \in {"running", "planned"}
  /\ status' = "paused"
  /\ stepStatus' = [p \in Phases |-> [s \in Steps |->
       IF stepStatus[p][s] = "running" THEN "pending" ELSE stepStatus[p][s]]]
  /\ UNCHANGED <<activePhase, phaseStatus, phaseGroup, stepGroup>>

Resume ==
  /\ status = "paused"
  /\ SettleAfterPhaseTerminal(phaseStatus)
  /\ UNCHANGED <<phaseGroup, stepStatus, stepGroup>>

Abandon ==
  /\ status' = "abandoned"
  /\ UNCHANGED <<activePhase, phaseStatus, phaseGroup, stepStatus, stepGroup>>

-----------------------------------------------------------------------------
Init ==
  /\ status = "draft"
  /\ activePhase = NoPhase
  /\ phaseStatus = [p \in Phases |-> Absent]
  /\ phaseGroup = [p \in Phases |-> NoGroup]
  /\ stepStatus = [p \in Phases |-> FreshSteps(0)]
  /\ stepGroup = [p \in Phases |-> [s \in Steps |-> NoGroup]]

PhaseCommand(p) ==
  \/ ActivatePhase(p) \/ RefinePhase(p)
  \/ CompletePhase(p) \/ SkipPhase(p) \/ FailPhase(p)

StepCommand(p, s) ==
  \/ StartStep(p, s)
  \/ \E success \in BOOLEAN : CompleteStep(p, s, success)
  \/ \E success \in BOOLEAN : VerifyStep(p, s, success)
  \/ SkipStep(p, s) \/ FailStep(p, s)

FermentCommand ==
  Scope \/ CompleteFerment \/ Pause \/ Resume \/ Abandon

Next ==
  \/ FermentCommand
  \/ \E g \in Groups : ActivatePhaseGroup(g)
  \/ \E p \in Phases : PhaseCommand(p)
  \/ \E p \in Phases, s \in Steps : StepCommand(p, s)

Spec == Init /\ [][Next]_vars

-----------------------------------------------------------------------------
(* What every sequence of commands preserves.                               *)

\* Every field of the ferment holds a value its type in types.ts allows.
TypeOK ==
  /\ status \in FermentStatuses
  /\ activePhase \in Phases \cup {NoPhase}
  /\ phaseStatus \in [Phases -> PhaseStatuses \cup {Absent}]
  /\ phaseGroup \in [Phases -> Cohorts]
  /\ stepStatus \in [Phases -> [Steps -> StepStatuses \cup {Absent}]]
  /\ stepGroup \in [Phases -> [Steps -> Cohorts]]

\* activePhaseId always names an active phase, and is unset exactly when there
\* is none: the engine, the FSM guard and the overlay read one or the other.
ActivePhaseSound ==
  IF activePhase = NoPhase THEN ActiveIn(phaseStatus) = {}
  ELSE activePhase \in Phases /\ phaseStatus[activePhase] = "active"

\* The status of the ferment agrees with its phases: nothing is planned in a
\* draft, a running ferment has an active phase, a planned or complete one has
\* none, and a complete one has only terminal phases, whatever was skipped,
\* failed, retried or resumed before.
StatusFollowsPhases ==
  /\ status = "draft" => \A p \in Phases : ~Planned(p)
  /\ status = "running" => ActiveIn(phaseStatus) # {}
  /\ status \in {"planned", "complete"} => ActiveIn(phaseStatus) = {}
  /\ status = "complete" =>
       \A p \in Phases : Planned(p) => phaseStatus[p] \in TerminalPhaseStatuses

\* Only a phase of the plan has steps.
StepsInPlan ==
  \A p \in Phases : ~Planned(p) => \A s \in Steps : ~HasStep(p, s)

\* Two phases are active together only as members of one parallel group.
ActivePhasesShareGroup ==
  \A p, q \in ActiveIn(phaseStatus) :
    p # q => phaseGroup[p] = phaseGroup[q] /\ phaseGroup[p] # NoGroup

\* Two steps of a phase run together only as members of one parallel cohort,
\* although start_step looks at one of the running steps only.
RunningStepsShareCohort ==
  \A p \in Phases : \A s, t \in Running(p) : s # t => SameCohort(p, s, t)

\* While the ferment is paused no step is running, so no later next action
\* waits for a worker that the pause killed.
PausedIsQuiet == status = "paused" => \A p \in Phases : Running(p) = {}

\* No command but resume and abandon has an effect on a paused ferment, and
\* neither of them touches a phase or a step.
PauseFreezes ==
  [][status = "paused" =>
       /\ status' \in {"paused", "running", "planned", "abandoned"}
       /\ UNCHANGED <<phaseStatus, phaseGroup, stepStatus, stepGroup>>]_vars

\* A running step is put back to pending by a pause and by nothing else, and
\* refining a phase never deletes it.
RunningStepIsNotLost ==
  [][\A p \in Phases : \A s \in Running(p) :
       /\ stepStatus'[p][s] # Absent
       /\ stepStatus'[p][s] = "pending" => status' = "paused"]_vars
=============================================================================
