------------------------------ MODULE FermentFsm ------------------------------
(***************************************************************************)
(* What stands between the agent and the commands of FermentStateMachine:  *)
(*   - the guard table of src/ferment/fsm.ts, which every agent tool        *)
(*     consults (validateFsmTransitionWithFerment in fsm-adapter.ts) and    *)
(*     which slash commands, overlay and late continuations do not;         *)
(*   - the agent's tools that take effect in the call itself, guard and     *)
(*     command in one synchronous turn of the event loop;                   *)
(*   - determineNextAction of src/ferment/engine.ts, the action that every  *)
(*     nudge, resume and tool result tells the agent to take.               *)
(***************************************************************************)
EXTENDS FermentStateMachine

-----------------------------------------------------------------------------
(* The guard table.                                                         *)

\* Mutant of FsmState: the FSM state is the status alone.
FsmStateOfStatus == IF status = "running" THEN "phase_active" ELSE status

\* computeFsmState: "step_running" as soon as ANY phase has a running step.
FsmState ==
  IF status # "running" THEN status
  ELSE IF \E p \in Phases : Running(p) # {} THEN "step_running" ELSE "phase_active"

PhaseExistsAndPlanned(p) == phaseStatus[p] \in {"planned", "failed"}
PhaseActive(p) == phaseStatus[p] = "active"

\* hasNonParallelRunningStep looks at the phase activePhaseId names, whatever
\* phase the step is in: step ids repeat from phase to phase.
NoConcurrentStep(s) ==
  activePhase # NoPhase =>
    LET others == Running(activePhase) \ {s} IN
    \/ others = {}
    \/ \E r \in Steps : /\ IsFirst(r, others)
                        /\ HasStep(activePhase, s)
                        /\ SameCohort(activePhase, r, s)

\* Mutant of StartStepInActivePhase: only the concurrency is looked at.
StartStepInAnyPhase(p, s) == NoConcurrentStep(s)

StartStepInActivePhase(p, s) == PhaseActive(p) /\ NoConcurrentStep(s)
StepCompleted(p, s) == stepStatus[p][s] = "running"
StepSkipped(p, s) == stepStatus[p][s] \notin {"done", "verified"}
StepFailed(p, s) == stepStatus[p][s] \in {"running", "pending"}

StepGuard(e, p, s) ==
  \/ e = "START_STEP" /\ StartStepInActivePhase(p, s)
  \/ e = "SKIP_STEP" /\ StepSkipped(p, s)
  \/ e = "FAIL_STEP" /\ StepFailed(p, s)

PhaseEnds == {"COMPLETE_PHASE", "SKIP_PHASE", "FAIL_PHASE"}

\* transition(): the event is in the row of the state and its guard holds.
FsmAccepts(e, p, s) ==
  \/ /\ FsmState = "draft"
     /\ e = "SCOPE_FERMENT"
  \/ /\ FsmState = "planned"
     /\ \/ e \in {"REFINE_PHASE", "SKIP_PHASE", "SCOPE_FERMENT"}
        \/ e = "ACTIVATE_PHASE" /\ PhaseExistsAndPlanned(p)
  \/ /\ FsmState = "phase_active"
     /\ \/ e = "REFINE_PHASE"
        \/ e \in PhaseEnds /\ PhaseActive(p)
        \/ StepGuard(e, p, s)
  \/ /\ FsmState = "step_running"
     /\ \/ e \in {"COMPLETE_STEP", "VERIFY_STEP"} /\ StepCompleted(p, s)
        \/ StepGuard(e, p, s)
  \/ /\ FsmState = "complete"
     /\ e \in PhaseEnds \cup {"COMPLETE_STEP", "SKIP_STEP", "FAIL_STEP", "VERIFY_STEP"}

FsmAcceptsPhase(e, p) == FsmAccepts(e, p, 1)   \* no phase event reads a step

-----------------------------------------------------------------------------
(* The tools whose effect is immediate.                                     *)

ScopeTool == FsmAcceptsPhase("SCOPE_FERMENT", 1) /\ Scope

\* A grouped phase is activated together with the planned rest of its group.
ActivateTool(p) ==
  /\ FsmAcceptsPhase("ACTIVATE_PHASE", p)
  /\ IF phaseGroup[p] = NoGroup THEN ActivatePhase(p)
     ELSE ActivatePhaseGroup(phaseGroup[p])

RefineTool(p) == FsmAcceptsPhase("REFINE_PHASE", p) /\ RefinePhase(p)
SkipPhaseTool(p) == FsmAcceptsPhase("SKIP_PHASE", p) /\ SkipPhase(p)
FailPhaseTool(p) == FsmAcceptsPhase("FAIL_PHASE", p) /\ FailPhase(p)

\* No gate or project check flags the phase.
CompletePhaseTool(p) == FsmAcceptsPhase("COMPLETE_PHASE", p) /\ CompletePhase(p)

StartStepTool(p, s) == FsmAccepts("START_STEP", p, s) /\ StartStep(p, s)
SkipStepTool(p, s) == FsmAccepts("SKIP_STEP", p, s) /\ SkipStep(p, s)
FailStepTool(p, s) == FsmAccepts("FAIL_STEP", p, s) /\ FailStep(p, s)

\* A step without verification command: its gate verdicts decide.
CompleteStepTool(p, s) ==
  FsmAccepts("COMPLETE_STEP", p, s) /\ CompleteStep(p, s, FALSE)

\* A tool is let through: by the guard table, and by the handler's own conditions.
ActivateAccepted(p) ==
  /\ FsmAcceptsPhase("ACTIVATE_PHASE", p)
  /\ IF phaseGroup[p] = NoGroup THEN CanActivate(p)
     ELSE CanActivateGroup(phaseGroup[p])

RefineAccepted(p) == FsmAcceptsPhase("REFINE_PHASE", p) /\ CanRefine(p)
EndAccepted(e, p) == FsmAcceptsPhase(e, p) /\ CanEnd(p)
StartAccepted(p, s) == FsmAccepts("START_STEP", p, s) /\ CanStart(p, s)
StepAccepted(e, p, s) == FsmAccepts(e, p, s) /\ NotPaused /\ HasStep(p, s)

-----------------------------------------------------------------------------
(* The engine.                                                              *)

First(S) == CHOOSE x \in S : IsFirst(x, S)
WithStatus(st) == {p \in Phases : phaseStatus[p] = st}
StepsWith(p, st) == {s \in Steps : stepStatus[p][s] \in st}
Do(kind, p, s) == [kind |-> kind, phase |-> p, step |-> s]

\* Mutant of NextInPhase: a pending step is started before the running one is
\* looked at.
NextInPhasePendingFirst(p) ==
  LET failed == StepsWith(p, {"failed"})
      pending == StepsWith(p, {"pending"})
  IN IF \A s \in Steps : ~HasStep(p, s) THEN Do("refine", p, 1)
     ELSE IF failed # {} THEN Do("recover_step", p, First(failed))
     ELSE IF pending # {} THEN Do("start_step", p, First(pending))
     ELSE IF Running(p) # {} THEN Do("complete_step", p, First(Running(p)))
     ELSE Do("complete_phase", p, 1)

\* The part of determineNextAction that looks into the active phase p.  Once no
\* step is absent, failed, running or pending, all of them are terminal.
NextInPhase(p) ==
  LET running == Running(p)
      failed == StepsWith(p, {"failed"})
      pending == StepsWith(p, {"pending"})
      siblings == {s \in pending : SameCohort(p, First(running), s)}
  IN IF \A s \in Steps : ~HasStep(p, s) THEN Do("refine", p, 1)
     ELSE IF failed # {} THEN Do("recover_step", p, First(failed))
     ELSE IF running # {} /\ siblings # {} THEN Do("start_step", p, First(siblings))
     ELSE IF running # {} THEN Do("complete_step", p, First(running))
     ELSE IF pending # {} THEN Do("start_step", p, First(pending))
     ELSE Do("complete_phase", p, 1)

\* determineNextAction; activePhaseId is sound, so it names the active phase.
\* In a planned ferment with a phase left to do there is always a planned one.
NextAction ==
  IF status \in {"complete", "abandoned"} THEN Do("none", 1, 1)
  ELSE IF status = "paused" THEN Do("pause", 1, 1)
  ELSE IF \A p \in Phases : ~Planned(p) THEN Do("scope", 1, 1)
  ELSE IF WithStatus("failed") # {} THEN Do("recover_phase", First(WithStatus("failed")), 1)
  ELSE IF \A p \in Phases : Planned(p) => phaseStatus[p] \in TerminalPhaseStatuses
       THEN Do("complete_ferment", 1, 1)
  ELSE IF status = "planned" THEN Do("activate_phase", First(WithStatus("planned")), 1)
  ELSE NextInPhase(activePhase)

\* decideContinuation under the manual policy: a phase before the next one has
\* ended, so the user is asked before it is activated.
ManualPhaseBoundary ==
  /\ NextAction.kind = "activate_phase"
  /\ \E p \in Phases : /\ p < NextAction.phase
                       /\ phaseStatus[p] \in TerminalPhaseStatuses
=============================================================================
