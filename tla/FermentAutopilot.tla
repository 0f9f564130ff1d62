---------------------------- MODULE FermentAutopilot ----------------------------
(***************************************************************************)
(* An agent under the automated policy that does exactly what the engine   *)
(* says next (determineNextAction, rendered by formatActionNudgeLine and   *)
(* sent by every tool result, nudge and resume), through the guarded tools.*)
(* It may fail at its work: a step fails its verification, or the agent    *)
(* gives a phase up.  The session may be shut down, or swept by another    *)
(* one that starts, which pauses the ferment; a headless session that      *)
(* starts on a paused ferment resumes it (events.ts, resume.ts).           *)
(*                                                                          *)
(* FermentTurns.tla adds what makes the agent go on.                       *)
(*                                                                          *)
(* Bounded here: MaxFailures failures, MaxPauses pauses.                    *)
(***************************************************************************)
EXTENDS FermentFsm, FermentEvents

CONSTANTS
  MaxFailures,   \* failed steps and failed phases, together
  MaxPauses,     \* interrupted sessions
  GroupedPhasesFail  \* the agent may give up a phase of a parallel group

ASSUME FailuresAssumption == MaxFailures \in Nat /\ MaxPauses \in Nat
ASSUME GroupedAssumption == GroupedPhasesFail \in BOOLEAN

VARIABLES failures, pauses

autopilotVars == <<vars, failures, pauses>>

-----------------------------------------------------------------------------
(* One tool call per kind of action the engine hands out.                   *)

Asked(kind) == NextAction.kind = kind
AskedPhase == NextAction.phase
AskedStep == NextAction.step

\* The scoping and refining prompts ask for at least one phase and one step.
FollowScope == Asked("scope") /\ ScopeTool /\ Planned(1)'
FollowRefine == Asked("refine") /\ RefineTool(AskedPhase) /\ HasStep(AskedPhase, 1)'
FollowActivate == Asked("activate_phase") /\ ActivateTool(AskedPhase)
FollowStart == Asked("start_step") /\ StartStepTool(AskedPhase, AskedStep)
FollowCompleteStep ==
  Asked("complete_step") /\ CompleteStepTool(AskedPhase, AskedStep)
FollowCompletePhase == Asked("complete_phase") /\ CompletePhaseTool(AskedPhase)
FollowCompleteFerment == Asked("complete_ferment") /\ CompleteFerment

\* "retry or skip", for a failed step and for a failed phase
RecoverStep ==
  /\ Asked("recover_step")
  /\ StartStepTool(AskedPhase, AskedStep) \/ SkipStepTool(AskedPhase, AskedStep)
RecoverPhase ==
  /\ Asked("recover_phase")
  /\ ActivateTool(AskedPhase) \/ SkipPhaseTool(AskedPhase)

\* The tool call for an action is let through; of two that are offered, one is.
Accepted(action) ==
  LET p == action.phase
      s == action.step
  IN
  \/ action.kind = "scope" /\ FsmAcceptsPhase("SCOPE_FERMENT", 1) /\ CanScope
  \/ action.kind = "refine" /\ RefineAccepted(p)
  \/ action.kind = "activate_phase" /\ ActivateAccepted(p)
  \/ action.kind = "start_step" /\ StartAccepted(p, s)
  \/ action.kind = "complete_step" /\ StepAccepted("COMPLETE_STEP", p, s)
  \/ action.kind = "complete_phase" /\ PhaseActive(p) /\ EndAccepted("COMPLETE_PHASE", p)
  \/ action.kind = "complete_ferment" /\ CanCompleteFerment
  \/ action.kind = "recover_step" /\ (StartAccepted(p, s) \/ StepAccepted("SKIP_STEP", p, s))
  \/ action.kind = "recover_phase" /\ (ActivateAccepted(p) \/ EndAccepted("SKIP_PHASE", p))

Follow ==
  /\ \/ FollowScope \/ FollowRefine \/ FollowActivate \/ FollowStart
     \/ FollowCompleteStep \/ FollowCompletePhase \/ FollowCompleteFerment
     \/ RecoverStep \/ RecoverPhase
  /\ UNCHANGED <<failures, pauses>>

\* The verification of the step fails, and the judge agrees.
StepGoesWrong ==
  /\ failures < MaxFailures
  /\ Asked("complete_step")
  /\ FsmAccepts("COMPLETE_STEP", AskedPhase, AskedStep)
  /\ FailStep(AskedPhase, AskedStep)
  /\ failures' = failures + 1
  /\ UNCHANGED pauses

PhaseGivenUp ==
  /\ failures < MaxFailures
  /\ \E p \in Phases :
       /\ GroupedPhasesFail \/ phaseGroup[p] = NoGroup
       /\ FailPhaseTool(p)
  /\ failures' = failures + 1
  /\ UNCHANGED pauses

Interrupted ==
  /\ pauses < MaxPauses
  /\ Pause
  /\ pauses' = pauses + 1
  /\ UNCHANGED failures

Resumed == Resume /\ UNCHANGED <<failures, pauses>>

-----------------------------------------------------------------------------
AutopilotInit == Init /\ failures = 0 /\ pauses = 0

AutopilotNext == Follow \/ StepGoesWrong \/ PhaseGivenUp \/ Interrupted \/ Resumed

AutopilotSpec == AutopilotInit /\ [][AutopilotNext]_autopilotVars

-----------------------------------------------------------------------------
\* What the engine asks for is never refused by the guard table or by the state
\* machine: resume.ts:50 "schedules the next legal action".  The engine reads
\* the ferment, the guard table a status computed from it and the state machine
\* a third set of conditions; a disagreement leaves the agent with an
\* instruction it cannot carry out (engine.ts calls one such case a deadlock).
EngineActionLegal ==
  status \notin {"complete", "abandoned", "paused"} => Accepted(NextAction)
=============================================================================
