---------------------------- MODULE FermentSession ----------------------------
(***************************************************************************)
(* One session on one ferment: the agent's tool calls that wait for         *)
(* something (a verification command, a judge model, the user's choice in   *)
(* a dialog) between the guard they passed and the command they apply, the  *)
(* user's slash commands, the progress overlay, shutdown and crash.         *)
(* extensions/ferment/tools/steps.ts and phases.ts, tools/lifecycle.ts,     *)
(* commands.ts, progress-overlay.ts, events.ts.                             *)
(*                                                                          *)
(* Everything between two awaits is one synchronous turn of the event loop, *)
(* so one action.  What follows an await applies its command WITHOUT asking *)
(* the guard table again; FermentStateMachine alone decides whether it is   *)
(* accepted.  A call whose command is rejected, that is aborted or whose    *)
(* dialog is dismissed just ends (Drop).                                    *)
(*                                                                          *)
(* Left out, as a choice of the environment: whether a step has a           *)
(* verification command, whether gates flag a phase often enough to         *)
(* escalate, whether a step was started so often that the user is asked.    *)
(***************************************************************************)
EXTENDS FermentFsm

CONSTANTS
  Slots,     \* tool calls the agent has in flight at most, by name
  Overlay,   \* the user opens /ferment progress
  StopsWhenTold,  \* the agent heeds the notice that the ferment is terminal
  NoCall     \* the slot is free, the overlay is closed

ASSUME OverlayAssumption == Overlay \in BOOLEAN
ASSUME AgentAssumption == StopsWhenTold \in BOOLEAN

VARIABLES
  calls,     \* what each tool call in flight awaits
  choice     \* the overlay action on offer, computed from an older ferment

sessionVars == <<vars, calls, choice>>

\* What a call can wait for, and whether a dialog asks the user for it.
Dialogs == {"stuck", "recover", "escalate", "boundary"}
Awaits == Dialogs \cup {"verify", "judge", "manual", "journey"}
OverlayOps == {"activate", "completePhase", "failPhase", "skipPhase",
               "stepDone", "retryStep", "skipStep", "abandon"}

Await(what, p, s) == [op |-> what, phase |-> p, step |-> s]

\* A dialog or the overlay has the keyboard: no slash command can be typed.
UserBusy ==
  \/ choice # NoCall
  \/ \E c \in Slots : calls[c] # NoCall /\ calls[c].op \in Dialogs

Free(c) == calls[c] = NoCall
Waits(c, what) == calls[c] # NoCall /\ calls[c].op = what
Ends(c) == calls' = [calls EXCEPT ![c] = NoCall]
GoesOn(c, what, p, s) == calls' = [calls EXCEPT ![c] = Await(what, p, s)]

\* The command is applied and the call returns.
Apply(c, command) == command /\ Ends(c) /\ UNCHANGED choice

\* A phase has ended: under the manual policy the user may be asked to go on.
\* (Where there is no dialog the pause follows at once.)
ApplyThenBoundary(c, command) ==
  /\ command
  /\ \/ Ends(c)
     \/ ManualPhaseBoundary' /\ GoesOn(c, "boundary", 1, 1)
  /\ UNCHANGED choice

\* The call passed its guard and awaits something; nothing is written yet.
Suspend(c, what, p, s) == GoesOn(c, what, p, s) /\ UNCHANGED <<vars, choice>>

-----------------------------------------------------------------------------
(* Tool calls that never wait, and the first part of those that do.         *)

CallStart(c, p, s) ==
  \/ Apply(c, StartStepTool(p, s))
  \/ FsmAccepts("START_STEP", p, s) /\ HasStep(p, s) /\ Suspend(c, "stuck", p, s)

CallCompleteStep(c, p, s) ==
  \/ Apply(c, CompleteStepTool(p, s))
  \/ FsmAccepts("COMPLETE_STEP", p, s) /\ HasStep(p, s) /\ Suspend(c, "verify", p, s)

CallVerifyStep(c, p, s) ==
  FsmAccepts("VERIFY_STEP", p, s) /\ HasStep(p, s) /\ Suspend(c, "manual", p, s)

CallCompletePhase(c, p) ==
  \/ ApplyThenBoundary(c, CompletePhaseTool(p))
  \/ FsmAcceptsPhase("COMPLETE_PHASE", p) /\ Planned(p) /\ Suspend(c, "escalate", p, 1)

CallCompleteFerment(c) ==
  status \notin {"complete", "abandoned"} /\ Suspend(c, "journey", 1, 1)

Call(c) ==
  /\ Free(c)
  /\ StopsWhenTold => status \notin {"complete", "abandoned"}
  /\ \/ Apply(c, ScopeTool)
     \/ CallCompleteFerment(c)
     \/ \E p \in Phases :
          \/ Apply(c, ActivateTool(p)) \/ Apply(c, RefineTool(p))
          \/ Apply(c, FailPhaseTool(p)) \/ ApplyThenBoundary(c, SkipPhaseTool(p))
          \/ CallCompletePhase(c, p)
     \/ \E p \in Phases, s \in Steps :
          \/ CallStart(c, p, s) \/ CallCompleteStep(c, p, s) \/ CallVerifyStep(c, p, s)
          \/ Apply(c, SkipStepTool(p, s)) \/ Apply(c, FailStepTool(p, s))

-----------------------------------------------------------------------------
(* What a call does when it goes on.                                        *)

\* The answer to "this step has been started three times".
AnswerStuck(c) ==
  /\ Waits(c, "stuck")
  /\ \/ Apply(c, StartStep(calls[c].phase, calls[c].step))
     \/ Apply(c, SkipStep(calls[c].phase, calls[c].step))
     \/ Apply(c, Pause)

\* The verification command of complete_ferment_step has run; a failure goes to
\* the judge while the step already counts as done.
VerificationReturns(c, success) ==
  /\ Waits(c, "verify")
  /\ VerifyStep(calls[c].phase, calls[c].step, success)
  /\ IF success THEN Ends(c)
     ELSE GoesOn(c, "judge", calls[c].phase, calls[c].step)
  /\ UNCHANGED choice

\* The judge lets the step pass, or it fails and the user may choose what next.
JudgeReturns(c) ==
  /\ Waits(c, "judge")
  /\ \/ Ends(c) /\ UNCHANGED vars
     \/ /\ FailStep(calls[c].phase, calls[c].step)
        /\ \/ Ends(c)
           \/ GoesOn(c, "recover", calls[c].phase, calls[c].step)
  /\ UNCHANGED choice

\* Retry (with or without a new description), skip, or abandon the phase.
AnswerRecover(c) ==
  /\ Waits(c, "recover")
  /\ \/ Apply(c, StartStep(calls[c].phase, calls[c].step))
     \/ Apply(c, SkipStep(calls[c].phase, calls[c].step))
     \/ Apply(c, FailPhase(calls[c].phase))

ManualVerificationReturns(c, success) ==
  /\ Waits(c, "manual")
  /\ Apply(c, VerifyStep(calls[c].phase, calls[c].step, success))

\* The user overrides the flags of a phase, pauses, or abandons the ferment.
AnswerEscalation(c) ==
  /\ Waits(c, "escalate")
  /\ \/ ApplyThenBoundary(c, CompletePhase(calls[c].phase))
     \/ Apply(c, Pause)
     \/ Apply(c, Abandon)

AnswerBoundary(c) == Waits(c, "boundary") /\ Apply(c, Pause)

\* Mutant of JourneyGraded: the status is written without asking applyCommand.
JourneyGradedUnchecked(c) ==
  /\ Waits(c, "journey")
  /\ status' = "complete"
  /\ UNCHANGED <<activePhase, phaseStatus, phaseGroup, stepStatus, stepGroup>>
  /\ Ends(c) /\ UNCHANGED choice

JourneyGraded(c) == Waits(c, "journey") /\ Apply(c, CompleteFerment)

Drop(c) == ~Free(c) /\ Ends(c) /\ UNCHANGED <<vars, choice>>

Continue(c) ==
  \/ AnswerStuck(c) \/ JudgeReturns(c) \/ AnswerRecover(c)
  \/ \E success \in BOOLEAN :
       VerificationReturns(c, success) \/ ManualVerificationReturns(c, success)
  \/ AnswerEscalation(c) \/ AnswerBoundary(c) \/ JourneyGraded(c) \/ Drop(c)

-----------------------------------------------------------------------------
(* The user.                                                                *)

\* /ferment pause, resume, exit and abandon.  The confirmation of abandon may
\* outlast the ferment, which it does not look at again.
SlashCommand ==
  /\ ~UserBusy
  /\ Pause \/ Resume \/ Abandon
  /\ UNCHANGED <<calls, choice>>

\* buildPhaseActionOptions and buildStepActionOptions.
Offered(op, p, s) ==
  CASE op = "activate" ->
         \/ phaseStatus[p] = "planned" /\ activePhase # p
         \/ phaseStatus[p] = "failed"
    [] op = "completePhase" ->
         /\ PhaseActive(p)
         /\ \E t \in Steps : HasStep(p, t)
         /\ \A t \in Steps : HasStep(p, t) => stepStatus[p][t] \in TerminalStepStatuses
    [] op = "failPhase" -> PhaseActive(p)
    [] op = "skipPhase" -> phaseStatus[p] \in {"active", "failed"}
    [] op = "stepDone" -> stepStatus[p][s] \in {"pending", "running"}
    [] op = "retryStep" -> stepStatus[p][s] = "failed"
    [] op = "skipStep" -> HasStep(p, s) /\ stepStatus[p][s] # "skipped"
    [] op = "abandon" -> status \notin {"complete", "abandoned"}

\* The overlay shows the options of the ferment as it is now.  It can only be
\* opened on the session's active ferment, but it stays open when that ends.
OpenOverlay ==
  /\ Overlay
  /\ ~UserBusy
  /\ status \notin {"complete", "abandoned"}
  /\ \E op \in OverlayOps, p \in Phases, s \in Steps :
       Offered(op, p, s) /\ choice' = Await(op, p, s)
  /\ UNCHANGED <<vars, calls>>

\* handlePhaseAction and handleStepAction: no guard table.
Chosen(op, p, s) ==
  \/ op = "activate" /\ ActivatePhase(p)
  \/ op = "completePhase" /\ CompletePhase(p)
  \/ op = "failPhase" /\ FailPhase(p)
  \/ op = "skipPhase" /\ SkipPhase(p)
  \/ op = "stepDone" /\ CompleteStep(p, s, FALSE)
  \/ op = "retryStep" /\ StartStep(p, s)
  \/ op = "skipStep" /\ SkipStep(p, s)
  \/ op = "abandon" /\ Abandon

\* An action is chosen, or just another screen; the screens loop until the user
\* closes the overlay or abandons the ferment.
ChooseInOverlay ==
  /\ choice # NoCall
  /\ Chosen(choice.op, choice.phase, choice.step) \/ UNCHANGED vars
  /\ \/ choice' = NoCall
     \/ /\ choice.op = "abandon" => status' = status
        /\ \E op \in OverlayOps, p \in Phases, s \in Steps :
             Offered(op, p, s)' /\ choice' = Await(op, p, s)
  /\ UNCHANGED calls

\* The session ends with calls in flight.  A clean shutdown pauses the ferment;
\* after a crash the next start does (recoverStuckFerments), unless it was told
\* to go on with this very ferment (then the calls are only dropped).
SessionEnds ==
  /\ calls' = [c \in Slots |-> NoCall]
  /\ choice' = NoCall
  /\ Pause

\* A session that starts elsewhere takes every running or planned ferment for
\* a stale one, this session's too.
SweptByOtherSession == Pause /\ UNCHANGED <<calls, choice>>

-----------------------------------------------------------------------------
SessionInit ==
  /\ Init
  /\ calls = [c \in Slots |-> NoCall]
  /\ choice = NoCall

SessionNext ==
  \/ \E c \in Slots : Call(c) \/ Continue(c)
  \/ SlashCommand \/ OpenOverlay \/ ChooseInOverlay
  \/ SessionEnds \/ SweptByOtherSession

SessionSpec == SessionInit /\ [][SessionNext]_sessionVars

-----------------------------------------------------------------------------
(* What a session preserves.                                                *)

\* Type invariant of the session's own state.
SessionTypeOK ==
  /\ calls \in [Slots -> {NoCall} \cup [op : Awaits, phase : Phases, step : Steps]]
  /\ choice \in {NoCall} \cup [op : OverlayOps, phase : Phases, step : Steps]

\* An agent that makes one call at a time on a plan without groups never leaves
\* a step running in a phase that is over, whatever the user answers, pauses,
\* resumes or abandons while the call waits.  An orphan would keep the whole
\* ferment in step_running, where no phase can be refined, completed or skipped.
\* (In a cohort the recovery dropdown of one step, tools/steps.ts:554, can
\* abandon the phase while a sibling runs.)
RunningOnlyInActivePhase ==
  \A p \in Phases : Running(p) # {} => PhaseActive(p)

\* The same agent runs one step at a time in the whole ferment, and runs it in
\* the phase that activePhaseId names: that is the only phase the concurrency
\* guard of the FSM looks at.
OneStepAtATime ==
  \A p \in Phases, s \in Steps :
    stepStatus[p][s] = "running" =>
      /\ p = activePhase
      /\ \A q \in Phases, t \in Steps :
           stepStatus[q][t] = "running" => q = p /\ t = s

\* Whatever the callers do, the ferment changes by one command at a time.
RefinesStateMachine == Spec

-----------------------------------------------------------------------------
(* What the documents say.                                                  *)

\* docs/ferment.md:50, "Permanently stopped - cannot resume", whatever call was
\* still waiting when the ferment was abandoned.
AbandonedIsFinal ==
  [][status = "abandoned" => status' = "abandoned"]_sessionVars
=============================================================================
