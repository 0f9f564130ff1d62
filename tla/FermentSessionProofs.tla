------------------------- MODULE FermentSessionProofs -------------------------
(***************************************************************************)
(* A session, with any number of tool calls in flight, with the overlay and *)
(* with an agent that ignores every instruction, changes the ferment by the *)
(* commands of FermentStateMachine only.  So every invariant proved of that *)
(* module holds in every session.  The one fact the step simulation needs   *)
(* about the state is that a call in flight, or an overlay action on offer, *)
(* names a phase and a step of the plan, and that groups are typed.         *)
(***************************************************************************)
EXTENDS FermentScoping, FermentStateMachineProofs

SessionInv == TypeOK /\ SessionTypeOK

-----------------------------------------------------------------------------
(* What calls and overlay hold.                                             *)

\* A call that goes on with an operation, a phase and a step stays typed.
LEMMA GoesOnType ==
  ASSUME SessionTypeOK, NEW c \in Slots, NEW what \in Awaits,
         NEW p \in Phases, NEW s \in Steps, GoesOn(c, what, p, s), UNCHANGED choice
  PROVE  SessionTypeOK'
BY DEF SessionTypeOK, GoesOn, Await

\* A call that ends stays typed.
LEMMA EndsType ==
  ASSUME SessionTypeOK, NEW c \in Slots, Ends(c), UNCHANGED choice
  PROVE  SessionTypeOK'
BY DEF SessionTypeOK, Ends

\* A command that is applied ends its call, or asks whether to go on.
LEMMA ApplyType ==
  ASSUME SessionTypeOK, NEW c \in Slots, NEW ACTION C,
         Apply(c, C) \/ ApplyThenBoundary(c, C)
  PROVE  SessionTypeOK' /\ C
<1>1. CASE Apply(c, C)
  BY <1>1, EndsType DEF Apply
<1>2. CASE ApplyThenBoundary(c, C)
  <2>1. 1 \in Phases /\ 1 \in Steps /\ "boundary" \in Awaits
    BY SizesAssumption DEF Phases, Steps, Awaits, Dialogs
  <2> QED
    BY <1>2, <2>1, EndsType, GoesOnType DEF ApplyThenBoundary
<1> QED
  BY <1>1, <1>2

\* A call that suspends writes nothing yet.
LEMMA SuspendType ==
  ASSUME SessionTypeOK, NEW c \in Slots, NEW what \in Awaits,
         NEW p \in Phases, NEW s \in Steps, Suspend(c, what, p, s)
  PROVE  SessionTypeOK' /\ UNCHANGED vars
BY GoesOnType DEF Suspend

-----------------------------------------------------------------------------
(* The steps of a session.                                                  *)

\* A new tool call.
LEMMA CallStep ==
  ASSUME SessionInv, NEW c \in Slots, Call(c)
  PROVE  SessionTypeOK' /\ [Next]_vars
<1> USE DEF SessionInv
<1>1. 1 \in Phases /\ 1 \in Steps
  BY SizesAssumption DEF Phases, Steps
<1>2. {"stuck", "verify", "manual", "escalate", "journey"} \subseteq Awaits
  BY DEF Awaits, Dialogs
<1>3. CASE Apply(c, ScopeTool)
  BY <1>1, <1>3, ApplyType, ToolIsNext
<1>4. CASE CallCompleteFerment(c)
  BY <1>1, <1>2, <1>4, SuspendType DEF CallCompleteFerment
<1>5. ASSUME NEW p \in Phases,
             \/ Apply(c, ActivateTool(p)) \/ Apply(c, RefineTool(p))
             \/ Apply(c, FailPhaseTool(p)) \/ ApplyThenBoundary(c, SkipPhaseTool(p))
      PROVE  SessionTypeOK' /\ [Next]_vars
  BY <1>1, <1>5, ApplyType, ToolIsNext
<1>6. ASSUME NEW p \in Phases, CallCompletePhase(c, p)
      PROVE  SessionTypeOK' /\ [Next]_vars
  BY <1>1, <1>2, <1>6, ApplyType, ToolIsNext, SuspendType DEF CallCompletePhase
<1>7. ASSUME NEW p \in Phases, NEW s \in Steps,
             \/ CallStart(c, p, s) \/ CallCompleteStep(c, p, s)
             \/ CallVerifyStep(c, p, s)
      PROVE  SessionTypeOK' /\ [Next]_vars
  BY <1>2, <1>7, ApplyType, ToolIsNext, SuspendType
  DEF CallStart, CallCompleteStep, CallVerifyStep
<1>8. ASSUME NEW p \in Phases, NEW s \in Steps,
             Apply(c, SkipStepTool(p, s)) \/ Apply(c, FailStepTool(p, s))
      PROVE  SessionTypeOK' /\ [Next]_vars
  BY <1>8, ApplyType, ToolIsNext
<1> QED
  BY <1>3, <1>4, <1>5, <1>6, <1>7, <1>8 DEF Call

\* A call that goes on: it still names a phase and a step, so what it applies is
\* a command of the state machine, however old its guard has become.
LEMMA ContinueStep ==
  ASSUME SessionInv, NEW c \in Slots, Continue(c)
  PROVE  SessionTypeOK' /\ [Next]_vars
<1> USE DEF SessionInv
<1> DEFINE p == calls[c].phase
           s == calls[c].step
<1>1. calls[c] # NoCall => p \in Phases /\ s \in Steps
  BY DEF SessionTypeOK
<1>2. {"judge", "recover"} \subseteq Awaits
  BY DEF Awaits, Dialogs
<1>3. CASE AnswerStuck(c)
  <2>1. p \in Phases /\ s \in Steps
    BY <1>1, <1>3 DEF AnswerStuck, Waits
  <2> QED
    BY <1>3, <2>1, ApplyType, CommandIsNext, FermentCommandIsNext DEF AnswerStuck
<1>4. ASSUME NEW b \in BOOLEAN, VerificationReturns(c, b)
      PROVE  SessionTypeOK' /\ [Next]_vars
  <2>1. p \in Phases /\ s \in Steps
    BY <1>1, <1>4 DEF VerificationReturns, Waits
  <2>2. Next
    BY <1>4, <2>1, CommandIsNext DEF VerificationReturns
  <2> QED
    BY <1>2, <1>4, <2>1, <2>2, EndsType, GoesOnType DEF VerificationReturns
<1>5. CASE JudgeReturns(c)
  <2>1. p \in Phases /\ s \in Steps
    BY <1>1, <1>5 DEF JudgeReturns, Waits
  <2>2. [Next]_vars
    BY <1>5, <2>1, CommandIsNext DEF JudgeReturns
  <2> QED
    BY <1>2, <1>5, <2>1, <2>2, EndsType, GoesOnType DEF JudgeReturns
<1>6. CASE AnswerRecover(c)
  <2>1. p \in Phases /\ s \in Steps
    BY <1>1, <1>6 DEF AnswerRecover, Waits
  <2> QED
    BY <1>6, <2>1, ApplyType, CommandIsNext DEF AnswerRecover
<1>7. ASSUME NEW b \in BOOLEAN, ManualVerificationReturns(c, b)
      PROVE  SessionTypeOK' /\ [Next]_vars
  <2>1. p \in Phases /\ s \in Steps
    BY <1>1, <1>7 DEF ManualVerificationReturns, Waits
  <2> QED
    BY <1>7, <2>1, ApplyType, CommandIsNext DEF ManualVerificationReturns
<1>8. CASE AnswerEscalation(c)
  <2>1. p \in Phases /\ s \in Steps
    BY <1>1, <1>8 DEF AnswerEscalation, Waits
  <2> QED
    BY <1>8, <2>1, ApplyType, CommandIsNext, FermentCommandIsNext
    DEF AnswerEscalation
<1>9. CASE AnswerBoundary(c) \/ JourneyGraded(c)
  BY <1>9, ApplyType, FermentCommandIsNext DEF AnswerBoundary, JourneyGraded
<1>10. CASE Drop(c)
  BY <1>10, EndsType DEF Drop
<1> QED
  BY <1>3, <1>4, <1>5, <1>6, <1>7, <1>8, <1>9, <1>10 DEF Continue

\* What the user types, and what happens to the session as a whole.
LEMMA UserStep ==
  ASSUME SessionInv,
         SlashCommand \/ OpenOverlay \/ ChooseInOverlay \/ SessionEnds
           \/ SweptByOtherSession
  PROVE  SessionTypeOK' /\ [Next]_vars
<1> USE DEF SessionInv
<1>1. CASE SlashCommand
  BY <1>1, FermentCommandIsNext DEF SlashCommand, SessionTypeOK
<1>2. CASE OpenOverlay
  BY <1>2 DEF OpenOverlay, SessionTypeOK, Await
<1>3. CASE ChooseInOverlay
  <2>1. choice.phase \in Phases /\ choice.step \in Steps
    BY <1>3 DEF ChooseInOverlay, SessionTypeOK
  <2>2. Chosen(choice.op, choice.phase, choice.step) => Next
    BY <2>1, CommandIsNext, FermentCommandIsNext DEF Chosen
  <2>3. \/ choice' = NoCall
        \/ \E op \in OverlayOps, p \in Phases, s \in Steps : choice' = Await(op, p, s)
    BY <1>3 DEF ChooseInOverlay
  <2>4. SessionTypeOK'
    BY <1>3, <2>3 DEF ChooseInOverlay, SessionTypeOK, Await
  <2> QED
    BY <1>3, <2>2, <2>4 DEF ChooseInOverlay
<1>4. CASE SessionEnds
  BY <1>4, FermentCommandIsNext DEF SessionEnds, SessionTypeOK
<1>5. CASE SweptByOtherSession
  BY <1>5, FermentCommandIsNext DEF SweptByOtherSession, SessionTypeOK
<1> QED
  BY <1>1, <1>2, <1>3, <1>4, <1>5

\* Every step of a session is a command on the ferment or leaves it alone.
LEMMA SessionStep ==
  SessionInv /\ [SessionNext]_sessionVars => SessionTypeOK' /\ [Next]_vars
<1> SUFFICES ASSUME SessionInv, [SessionNext]_sessionVars
             PROVE  SessionTypeOK' /\ [Next]_vars
  OBVIOUS
<1>1. CASE UNCHANGED sessionVars
  BY <1>1 DEF SessionInv, SessionTypeOK, sessionVars
<1>2. CASE SessionNext
  BY <1>2, CallStep, ContinueStep, UserStep DEF SessionNext
<1> QED
  BY <1>1, <1>2

-----------------------------------------------------------------------------
\* The session's state and the ferment are well typed in every session.
THEOREM SessionTypeCorrect == SessionSpec => []SessionInv
<1>1. SessionInit => SessionInv
  BY InitTypeOK DEF SessionInit, SessionInv, SessionTypeOK
<1>2. SessionInv /\ [SessionNext]_sessionVars => SessionInv'
  BY SessionStep, NextTypeOK DEF SessionInv
<1> QED
  BY <1>1, <1>2, PTL DEF SessionSpec

\* A session implements FermentStateMachine: no dialog, overlay, late judge or
\* interleaving of calls changes the ferment other than by one command.
THEOREM SessionRefines == SessionSpec => RefinesStateMachine
<1>1. SessionInit => Init
  BY DEF SessionInit
<1>2. SessionInv /\ [SessionNext]_sessionVars => [Next]_vars
  BY SessionStep
<1> QED
  BY <1>1, <1>2, SessionTypeCorrect, PTL DEF SessionSpec, RefinesStateMachine, Spec

\* So the invariants of the state machine hold in every session.
THEOREM SessionInvariants == SessionSpec => []IInv
<1> QED
  BY SessionRefines, Invariance, PTL DEF RefinesStateMachine

\* What a session's calls and overlay remember is typed.
THEOREM SessionTypes == SessionSpec => []SessionTypeOK
BY SessionTypeCorrect, PTL DEF SessionInv

-----------------------------------------------------------------------------
(* How an abandoned ferment comes back.                                     *)

\* No call is left that can end in a phase command, and no overlay is open.
SettledAbandoned ==
  /\ status = "abandoned"
  /\ choice = NoCall
  /\ \A c \in Slots :
       calls[c] # NoCall => calls[c].op \in {"stuck", "manual", "journey", "boundary"}

\* The guard table has no row for an abandoned ferment, so no call gets past its
\* guard.
LEMMA AbandonedRefusesCalls ==
  ASSUME status = "abandoned", NEW c \in Slots
  PROVE  ~Call(c)
<1>1. \A e, p, s : ~FsmAccepts(e, p, s)
  BY DEF FsmAccepts, FsmState
<1> QED
  BY <1>1
  DEF Call, Apply, ApplyThenBoundary, ScopeTool, CallCompleteFerment, ActivateTool, RefineTool,
      FailPhaseTool, SkipPhaseTool, CallCompletePhase, CompletePhaseTool, CallStart,
      StartStepTool, CallCompleteStep, CompleteStepTool, CallVerifyStep, SkipStepTool,
      FailStepTool, FsmAcceptsPhase

\* The commands that an abandoned ferment accepts and that leave it abandoned.
LEMMA AbandonedKept ==
  ASSUME status = "abandoned", NEW p, NEW s, NEW b \in BOOLEAN,
         \/ StartStep(p, s) \/ SkipStep(p, s) \/ FailStep(p, s) \/ VerifyStep(p, s, b)
         \/ CompleteFerment \/ Pause \/ Resume \/ Abandon \/ UNCHANGED vars
  PROVE  status' = "abandoned"
BY DEF StartStep, SkipStep, FailStep, VerifyStep, SetStep, CompleteFerment, CanCompleteFerment,
       Pause, Resume, Abandon, vars

\* A call that goes on.
LEMMA AbandonedContinues ==
  ASSUME status = "abandoned", NEW c \in Slots, Continue(c),
         calls[c] # NoCall => calls[c].op \notin {"recover", "escalate"}
  PROVE  status' = "abandoned"
<1>1. ~AnswerRecover(c) /\ ~AnswerEscalation(c)
  BY DEF AnswerRecover, AnswerEscalation, Waits
<1>2. CASE AnswerStuck(c)
  BY <1>2, AbandonedKept DEF AnswerStuck, Apply
<1>3. CASE JudgeReturns(c)
  BY <1>3, AbandonedKept DEF JudgeReturns
<1>4. ASSUME NEW b \in BOOLEAN, VerificationReturns(c, b) \/ ManualVerificationReturns(c, b)
      PROVE  status' = "abandoned"
  BY <1>4, AbandonedKept DEF VerificationReturns, ManualVerificationReturns, Apply
<1>5. CASE AnswerBoundary(c) \/ JourneyGraded(c) \/ Drop(c)
  BY <1>5, AbandonedKept DEF AnswerBoundary, JourneyGraded, Drop, Apply
<1> QED
  BY <1>1, <1>2, <1>3, <1>4, <1>5 DEF Continue

\* What else happens to a session.
LEMMA AbandonedStep ==
  ASSUME status = "abandoned", [SessionNext]_sessionVars,
         ~ChooseInOverlay, \A c \in Slots : ~AnswerRecover(c) /\ ~AnswerEscalation(c)
  PROVE  status' = "abandoned"
<1>1. ASSUME NEW c \in Slots, Continue(c) PROVE status' = "abandoned"
  <2>1. CASE calls[c] # NoCall => calls[c].op \notin {"recover", "escalate"}
    BY <1>1, <2>1, AbandonedContinues
  <2>2. CASE calls[c] # NoCall /\ calls[c].op \in {"recover", "escalate"}
    <3>1. Drop(c)
      BY <1>1, <2>2
      DEF Continue, AnswerStuck, JudgeReturns, VerificationReturns, ManualVerificationReturns,
          AnswerBoundary, JourneyGraded, Waits
    <3> QED
      BY <3>1, AbandonedKept DEF Drop
  <2> QED
    BY <2>1, <2>2
<1>2. CASE SlashCommand \/ OpenOverlay \/ SessionEnds \/ SweptByOtherSession
  BY <1>2, AbandonedKept DEF SlashCommand, OpenOverlay, SessionEnds, SweptByOtherSession
<1> QED
  BY <1>1, <1>2, AbandonedRefusesCalls DEF SessionNext, sessionVars, vars

\* A settled session stays so.
LEMMA SettledKept ==
  ASSUME SessionTypeOK, SettledAbandoned, [SessionNext]_sessionVars
  PROVE  SettledAbandoned'
<1> DEFINE Quiet(call) ==
      call # NoCall => call.op \in {"stuck", "manual", "journey", "boundary"}
<1>1. \A c \in Slots : ~AnswerRecover(c) /\ ~AnswerEscalation(c)
  BY DEF SettledAbandoned, AnswerRecover, AnswerEscalation, Waits
<1>2. status' = "abandoned"
  BY <1>1, AbandonedStep DEF SettledAbandoned, ChooseInOverlay
<1>3. choice' = NoCall /\ \A c \in Slots : calls'[c] = calls[c] \/ calls'[c] = NoCall
  <2>1. CASE UNCHANGED sessionVars
    BY <2>1 DEF sessionVars, SettledAbandoned
  <2>2. ASSUME NEW c \in Slots, Continue(c)
        PROVE  choice' = NoCall /\ \A d \in Slots : calls'[d] = calls[d] \/ calls'[d] = NoCall
    <3>1. Ends(c) /\ UNCHANGED choice
      BY <1>1, <2>2
      DEF SettledAbandoned, Continue, AnswerStuck, JudgeReturns, VerificationReturns,
          ManualVerificationReturns, AnswerBoundary, JourneyGraded, Drop, Waits, Apply
    <3> QED
      BY <3>1 DEF Ends, SessionTypeOK, SettledAbandoned
  <2>3. CASE SlashCommand \/ SessionEnds \/ SweptByOtherSession
    BY <2>3 DEF SlashCommand, SessionEnds, SweptByOtherSession, SettledAbandoned
  <2>4. ~OpenOverlay /\ ~ChooseInOverlay
    BY DEF OpenOverlay, ChooseInOverlay, SettledAbandoned
  <2> QED
    BY <2>1, <2>2, <2>3, <2>4, AbandonedRefusesCalls DEF SessionNext, SettledAbandoned
<1> QED
  BY <1>2, <1>3 DEF SettledAbandoned

\* An abandoned ferment comes back by a phase command of a call that waited when
\* it was abandoned, or of an overlay that was open, and by nothing else; when
\* they are gone it stays abandoned, whatever the agent calls.
THEOREM AbandonedLeftByLateCalls ==
  SessionSpec =>
    /\ [][status = "abandoned" /\ status' # "abandoned" =>
            ChooseInOverlay \/ \E c \in Slots : AnswerRecover(c) \/ AnswerEscalation(c)
         ]_sessionVars
    /\ [][SettledAbandoned => SettledAbandoned']_sessionVars
<1>1. [SessionNext]_sessionVars =>
        [status = "abandoned" /\ status' # "abandoned" =>
           ChooseInOverlay \/ \E c \in Slots : AnswerRecover(c) \/ AnswerEscalation(c)
        ]_sessionVars
  BY AbandonedStep
<1>2. SessionInv /\ [SessionNext]_sessionVars =>
        [SettledAbandoned => SettledAbandoned']_sessionVars
  BY SettledKept DEF SessionInv
<1> QED
  BY <1>1, <1>2, SessionTypeCorrect, PTL DEF SessionSpec

-----------------------------------------------------------------------------
(* A sequential agent: one call at a time, and none on a ferment that it    *)
(* was told is over; no overlay; no groups in the plan.                     *)

Sequential ==
  (\A c, d \in Slots : c = d) /\ ~Overlay /\ StopsWhenTold /\ Groups = {}

Quiet == \A p \in Phases : Running(p) = {}
OnlyRunning(p, s) ==
  \A q \in Phases, t \in Steps : stepStatus[q][t] = "running" => q = p /\ t = s
AtMostOne == \A p \in Phases, s \in Steps : stepStatus[p][s] = "running" => OnlyRunning(p, s)

\* A call that may start its step again waits on a phase that stays active; one
\* that may end its phase waits while nothing runs.
CallOK(k) ==
  k # NoCall =>
    /\ k.op \in {"stuck", "verify", "judge", "recover"} =>
         PhaseActive(k.phase) /\ OnlyRunning(k.phase, k.step)
    /\ k.op \in {"recover", "escalate"} => Quiet

RunsOK == RunningOnlyInActivePhase /\ AtMostOne
SeqInv ==
  /\ SessionInv /\ IInv /\ choice = NoCall
  /\ RunsOK /\ \A c \in Slots : CallOK(calls[c])

\* Steps stop running, phases stay what they are.
Lowers ==
  /\ phaseStatus' = phaseStatus
  /\ \A p \in Phases, s \in Steps : stepStatus'[p][s] = "running" => stepStatus[p][s] = "running"

\* Then no call loses what it relies on.
LEMMA LowersKeeps ==
  ASSUME RunsOK, Lowers
  PROVE  RunsOK' /\ (Quiet => Quiet') /\ \A k : CallOK(k) => CallOK(k)'
<1>1. RunningOnlyInActivePhase'
  BY DEF RunsOK, Lowers, RunningOnlyInActivePhase, Running, PhaseActive
<1>2. Quiet => Quiet'
  BY DEF Lowers, Quiet, Running
<1>3. \A p, s : OnlyRunning(p, s) => OnlyRunning(p, s)'
  BY DEF Lowers, OnlyRunning
<1>4. AtMostOne'
  BY <1>3 DEF RunsOK, Lowers, AtMostOne
<1>5. \A p : PhaseActive(p) => PhaseActive(p)'
  BY DEF Lowers, PhaseActive
<1> QED
  BY <1>1, <1>2, <1>3, <1>4, <1>5 DEF RunsOK, CallOK

\* These commands only lower.
LEMMA LoweringCommands ==
  ASSUME TypeOK
  PROVE  /\ \A p \in Phases, s \in Steps, b \in BOOLEAN :
              CompleteStep(p, s, b) \/ VerifyStep(p, s, b) \/ SkipStep(p, s) \/ FailStep(p, s)
                => Lowers
         /\ Pause \/ Resume \/ Abandon \/ CompleteFerment => Lowers
<1>1. ASSUME NEW p \in Phases, NEW s \in Steps, NEW st \in {"verified", "done", "skipped", "failed"},
             SetStep(p, s, st)
      PROVE  Lowers
  <2>1. \A q \in Phases, t \in Steps :
          stepStatus'[q][t] = IF q = p /\ t = s THEN st ELSE stepStatus[q][t]
    BY <1>1 DEF SetStep, TypeOK
  <2> QED
    BY <1>1, <2>1 DEF SetStep, Lowers
<1>2. CASE Pause
  <2>1. \A q \in Phases, t \in Steps : stepStatus'[q][t] # "running"
    BY <1>2 DEF Pause
  <2> QED
    BY <1>2, <2>1 DEF Pause, Lowers
<1>3. CASE Resume
  BY <1>3 DEF Resume, SettleAfterPhaseTerminal, Lowers
<1>4. CASE Abandon \/ CompleteFerment
  BY <1>4 DEF Abandon, CompleteFerment, Lowers
<1> QED
  BY <1>1, <1>2, <1>3, <1>4 DEF CompleteStep, VerifyStep, SkipStep, FailStep

\* A step may start in an active phase beside nothing else.
LEMMA StartKeeps ==
  ASSUME TypeOK, RunsOK, NEW p \in Phases, NEW s \in Steps, StartStep(p, s), PhaseActive(p),
         OnlyRunning(p, s)
  PROVE  RunsOK'
<1>1. /\ \A q \in Phases, t \in Steps :
           stepStatus'[q][t] = IF q = p /\ t = s THEN "running" ELSE stepStatus[q][t]
      /\ phaseStatus' = phaseStatus
  BY DEF StartStep, SetStep, TypeOK
<1>2. RunningOnlyInActivePhase'
  BY <1>1 DEF RunsOK, RunningOnlyInActivePhase, Running, PhaseActive
<1>3. AtMostOne'
  BY <1>1 DEF AtMostOne, OnlyRunning
<1> QED
  BY <1>2, <1>3 DEF RunsOK

\* Nothing runs, so nothing runs in the wrong place.
LEMMA QuietIsOK ==
  ASSUME Quiet'
  PROVE  RunsOK'
BY DEF Quiet, RunsOK, RunningOnlyInActivePhase, Running, AtMostOne

\* Phases are planned, begun, refined and ended while nothing runs.
LEMMA PhaseCommandsKeepQuiet ==
  ASSUME TypeOK, Quiet, NEW p \in Phases,
         Scope \/ ActivateTool(p) \/ RefinePhase(p) \/ SkipPhase(p) \/ FailPhase(p) \/ CompletePhase(p)
  PROVE  Quiet'
<1>1. \A q \in Phases, t \in Steps : stepStatus[q][t] # "running"
  BY DEF Quiet, Running
<1>2. CASE UNCHANGED stepStatus
  BY <1>1, <1>2 DEF Quiet, Running
<1>3. CASE Scope
  <2>1. \A q \in Phases, t \in Steps : stepStatus'[q][t] # "running"
    BY <1>3 DEF Scope, FreshSteps, Absent
  <2> QED
    BY <2>1 DEF Quiet, Running
<1>4. CASE RefinePhase(p)
  <2>1. \A q \in Phases, t \in Steps : stepStatus'[q][t] # "running"
    BY <1>1, <1>4 DEF RefinePhase, FreshSteps, Absent, TypeOK
  <2> QED
    BY <2>1 DEF Quiet, Running
<1> QED
  BY <1>2, <1>3, <1>4
  DEF ActivateTool, ActivatePhase, ActivatePhaseGroup, SkipPhase, FailPhase, CompletePhase, EndPhase

\* Without groups only the phase of activePhaseId is active.
LEMMA ActiveIsNamed ==
  ASSUME IInv, Groups = {}, NEW p \in Phases, PhaseActive(p)
  PROVE  p = activePhase
<1>1. p \in ActiveIn(phaseStatus)
  BY DEF PhaseActive, ActiveIn
<1>2. activePhase \in ActiveIn(phaseStatus)
  BY <1>1 DEF IInv, ActivePhaseSound, ActiveIn
<1>3. phaseGroup[p] = NoGroup
  BY DEF IInv, TypeOK, Cohorts
<1> QED
  BY <1>1, <1>2, <1>3 DEF IInv, ActivePhasesShareGroup

\* What the guard table lets a sequential agent begin.
LEMMA GuardsAreEnough ==
  ASSUME IInv, RunsOK, Groups = {}, NEW p \in Phases, NEW s \in Steps,
         status \notin {"complete", "abandoned"}
  PROVE  /\ FsmAccepts("START_STEP", p, s) =>
              PhaseActive(p) /\ OnlyRunning(p, s)
         /\ FsmAccepts("COMPLETE_STEP", p, s) =>
              PhaseActive(p) /\ OnlyRunning(p, s)
         /\ \A e \in PhaseEnds \cup {"REFINE_PHASE", "ACTIVATE_PHASE", "SCOPE_FERMENT"} :
              FsmAccepts(e, p, s) => Quiet
<1>1. FsmState # "complete"
  BY DEF FsmState
<1>2. ASSUME FsmAccepts("START_STEP", p, s)
      PROVE  PhaseActive(p) /\ OnlyRunning(p, s)
  <2>1. PhaseActive(p) /\ NoConcurrentStep(s)
    BY <1>1, <1>2 DEF FsmAccepts, StepGuard, StartStepInActivePhase, PhaseEnds
  <2>2. OnlyRunning(p, s)
    <3>1. p = activePhase /\ activePhase # NoPhase
      BY <2>1, ActiveIsNamed, SizesAssumption DEF Phases, NoPhase
    <3>2. ~\E r \in Steps : SameCohort(p, r, s)
      BY DEF SameCohort, IInv, TypeOK, Cohorts
    <3>3. Running(p) \subseteq {s}
      BY <2>1, <3>1, <3>2 DEF NoConcurrentStep
    <3>4. ASSUME NEW q \in Phases, NEW t \in Steps, stepStatus[q][t] = "running"
          PROVE  q = p /\ t = s
      <4>1. PhaseActive(q)
        BY <3>4 DEF RunsOK, RunningOnlyInActivePhase, Running
      <4>2. q = p
        BY <3>1, <4>1, ActiveIsNamed
      <4> QED
        BY <3>3, <3>4, <4>2 DEF Running
    <3> QED
      BY <3>4 DEF OnlyRunning
  <2> QED
    BY <2>1, <2>2
<1>3. ASSUME FsmAccepts("COMPLETE_STEP", p, s)
      PROVE  PhaseActive(p) /\ OnlyRunning(p, s)
  <2>1. stepStatus[p][s] = "running"
    BY <1>1, <1>3 DEF FsmAccepts, StepGuard, StepCompleted, PhaseEnds
  <2> QED
    BY <2>1 DEF RunsOK, RunningOnlyInActivePhase, Running, AtMostOne
<1>4. ASSUME NEW e \in PhaseEnds \cup {"REFINE_PHASE", "ACTIVATE_PHASE", "SCOPE_FERMENT"},
             FsmAccepts(e, p, s)
      PROVE  Quiet
  <2>1. FsmState # "step_running"
    BY <1>4 DEF FsmAccepts, StepGuard, PhaseEnds
  <2>2. FsmState \in {"draft", "planned", "phase_active"}
    BY <1>1, <1>4, <2>1 DEF FsmAccepts
  <2>3. CASE status = "running"
    BY <2>1, <2>3 DEF FsmState, Quiet
  <2>4. CASE status \in {"draft", "planned"}
    <3>1. \A q \in Phases : ~PhaseActive(q)
      BY <2>4 DEF IInv, StatusFollowsPhases, ActiveIn, PhaseActive, Planned, Absent
    <3> QED
      BY <3>1 DEF RunsOK, RunningOnlyInActivePhase, Quiet
  <2>5. status \in {"draft", "planned", "running"}
    BY <2>2 DEF FsmState, IInv, TypeOK, FermentStatuses
  <2> QED
    BY <2>3, <2>4, <2>5
<1> QED
  BY <1>2, <1>3, <1>4

\* A step of a sequential session keeps the invariant if it leaves the running
\* steps in order and the call it belongs to with what it relies on; nothing
\* else waits.
LEMMA SlotKeeps ==
  ASSUME Sequential, SeqInv, SessionInv', IInv', choice' = choice, RunsOK',
         NEW c \in Slots, CallOK(calls[c])'
  PROVE  SeqInv'
<1>1. \A d \in Slots : d = c
  BY DEF Sequential
<1>2. \A d \in Slots : CallOK(calls[d])'
  <2> SUFFICES ASSUME NEW d \in Slots
               PROVE  CallOK(calls[d])'
    OBVIOUS
  <2>1. d = c
    BY <1>1
  <2> QED
    BY <2>1
<1> QED
  BY <1>2 DEF SeqInv

\* A call that applied its command ends, or asks whether to go on.
LEMMA AppliedOK ==
  ASSUME SessionTypeOK, NEW c \in Slots, NEW ACTION C,
         Apply(c, C) \/ ApplyThenBoundary(c, C)
  PROVE  C /\ choice' = choice /\ CallOK(calls[c])'
<1>1. calls' = [calls EXCEPT ![c] = NoCall] \/ calls' = [calls EXCEPT ![c] = Await("boundary", 1, 1)]
  BY DEF Apply, ApplyThenBoundary, Ends, GoesOn
<1>2. calls[c]' = NoCall \/ calls[c]' = Await("boundary", 1, 1)
  BY <1>1 DEF SessionTypeOK
<1>3. CallOK(calls[c])'
  BY <1>2 DEF CallOK, Await
<1> QED
  BY <1>3 DEF Apply, ApplyThenBoundary

\* A call that suspends relies on what its guard found.
LEMMA SuspendedOK ==
  ASSUME SessionTypeOK, RunsOK, NEW c \in Slots, NEW what, NEW p, NEW s, Suspend(c, what, p, s),
         CallOK(Await(what, p, s))
  PROVE  choice' = choice /\ RunsOK' /\ CallOK(calls[c])'
<1>1. calls[c]' = Await(what, p, s) /\ UNCHANGED <<vars, choice>>
  BY DEF Suspend, GoesOn, SessionTypeOK
<1>2. UNCHANGED <<phaseStatus, stepStatus>>
  BY <1>1 DEF vars
<1>3. RunsOK'
  BY <1>2 DEF RunsOK, RunningOnlyInActivePhase, Running, PhaseActive, AtMostOne, OnlyRunning
<1>4. CallOK(calls[c])'
  BY <1>1, <1>2 DEF CallOK, Await, Quiet, Running, PhaseActive, OnlyRunning
<1> QED
  BY <1>1, <1>3, <1>4

\* A new call of the sequential agent.
LEMMA CallKeeps ==
  ASSUME Sequential, SeqInv, NEW c \in Slots, Call(c)
  PROVE  choice' = choice /\ RunsOK' /\ CallOK(calls[c])'
<1>1. /\ TypeOK /\ SessionTypeOK /\ IInv /\ RunsOK
      /\ status \notin {"complete", "abandoned"} /\ Groups = {} /\ 1 \in Phases /\ 1 \in Steps
  BY SizesAssumption DEF SeqInv, SessionInv, Sequential, Call, Phases, Steps
<1>2. ASSUME NEW p \in Phases, NEW ACTION C, Apply(c, C) \/ ApplyThenBoundary(c, C),
             C => \/ ScopeTool \/ ActivateTool(p) \/ RefineTool(p) \/ FailPhaseTool(p)
                  \/ SkipPhaseTool(p) \/ CompletePhaseTool(p)
      PROVE  choice' = choice /\ RunsOK' /\ CallOK(calls[c])'
  <2>1. C /\ choice' = choice /\ CallOK(calls[c])'
    BY <1>1, <1>2, AppliedOK
  <2>2. /\ Quiet
        /\ \/ Scope \/ ActivateTool(p) \/ RefinePhase(p) \/ SkipPhase(p) \/ FailPhase(p)
           \/ CompletePhase(p)
    BY <1>1, <1>2, <2>1, GuardsAreEnough
    DEF ScopeTool, ActivateTool, RefineTool, FailPhaseTool, SkipPhaseTool, CompletePhaseTool,
        FsmAcceptsPhase, PhaseEnds
  <2>3. RunsOK'
    BY <1>1, <2>2, PhaseCommandsKeepQuiet, QuietIsOK
  <2> QED
    BY <2>1, <2>3
<1>3. ASSUME NEW p \in Phases, CallCompletePhase(c, p)
      PROVE  choice' = choice /\ RunsOK' /\ CallOK(calls[c])'
  <2>1. CASE ApplyThenBoundary(c, CompletePhaseTool(p))
    BY <1>2, <2>1
  <2>2. CASE FsmAcceptsPhase("COMPLETE_PHASE", p) /\ Suspend(c, "escalate", p, 1)
    <3>1. Quiet
      BY <1>1, <2>2, GuardsAreEnough DEF FsmAcceptsPhase, PhaseEnds
    <3> QED
      BY <1>1, <2>2, <3>1, SuspendedOK DEF CallOK, Await
  <2> QED
    BY <1>3, <2>1, <2>2 DEF CallCompletePhase
<1>4. ASSUME NEW p \in Phases, NEW s \in Steps, CallStart(c, p, s)
      PROVE  choice' = choice /\ RunsOK' /\ CallOK(calls[c])'
  <2>1. CASE Apply(c, StartStepTool(p, s))
    BY <1>1, <2>1, AppliedOK, GuardsAreEnough, StartKeeps DEF StartStepTool
  <2>2. CASE FsmAccepts("START_STEP", p, s) /\ Suspend(c, "stuck", p, s)
    BY <1>1, <2>2, GuardsAreEnough, SuspendedOK DEF CallOK, Await
  <2> QED
    BY <1>4, <2>1, <2>2 DEF CallStart
<1>5. ASSUME NEW p \in Phases, NEW s \in Steps,
             \/ Apply(c, CompleteStepTool(p, s))
             \/ Apply(c, SkipStepTool(p, s)) \/ Apply(c, FailStepTool(p, s))
      PROVE  choice' = choice /\ RunsOK' /\ CallOK(calls[c])'
  <2>1. CompleteStep(p, s, FALSE) \/ SkipStep(p, s) \/ FailStep(p, s)
    BY <1>1, <1>5, AppliedOK DEF CompleteStepTool, SkipStepTool, FailStepTool
  <2>2. Lowers
    BY <1>1, <2>1, LoweringCommands
  <2> QED
    BY <1>1, <1>5, <2>2, AppliedOK, LowersKeeps
<1>6. ASSUME NEW p \in Phases, NEW s \in Steps,
             FsmAccepts("COMPLETE_STEP", p, s) /\ Suspend(c, "verify", p, s)
      PROVE  choice' = choice /\ RunsOK' /\ CallOK(calls[c])'
  BY <1>1, <1>6, GuardsAreEnough, SuspendedOK DEF CallOK, Await
<1>7. ASSUME NEW p \in Phases, NEW s \in Steps,
             Suspend(c, "manual", p, s) \/ Suspend(c, "journey", p, s)
      PROVE  choice' = choice /\ RunsOK' /\ CallOK(calls[c])'
  BY <1>1, <1>7, SuspendedOK DEF CallOK, Await
<1>8. CASE Apply(c, ScopeTool) \/ CallCompleteFerment(c)
  BY <1>1, <1>2, <1>7, <1>8 DEF CallCompleteFerment
<1>9. ASSUME NEW p \in Phases,
             \/ Apply(c, ActivateTool(p)) \/ Apply(c, RefineTool(p))
             \/ Apply(c, FailPhaseTool(p)) \/ ApplyThenBoundary(c, SkipPhaseTool(p))
             \/ CallCompletePhase(c, p)
      PROVE  choice' = choice /\ RunsOK' /\ CallOK(calls[c])'
  BY <1>2, <1>3, <1>9
<1>10. ASSUME NEW p \in Phases, NEW s \in Steps,
              \/ CallStart(c, p, s) \/ CallCompleteStep(c, p, s) \/ CallVerifyStep(c, p, s)
              \/ Apply(c, SkipStepTool(p, s)) \/ Apply(c, FailStepTool(p, s))
       PROVE  choice' = choice /\ RunsOK' /\ CallOK(calls[c])'
  BY <1>4, <1>5, <1>6, <1>7, <1>10 DEF CallCompleteStep, CallVerifyStep
<1> QED
  BY <1>8, <1>9, <1>10 DEF Call

\* A call that applied a lowering command and waits again, for the same step.
LEMMA WaitsAgain ==
  ASSUME SessionTypeOK, RunsOK, Lowers, NEW c \in Slots, NEW what, NEW p, NEW s,
         Ends(c) \/ GoesOn(c, what, p, s), CallOK(Await(what, p, s))
  PROVE  RunsOK' /\ CallOK(calls[c])'
<1>1. calls[c]' = NoCall \/ calls[c]' = Await(what, p, s)
  BY DEF Ends, GoesOn, SessionTypeOK
<1>2. RunsOK' /\ CallOK(Await(what, p, s))'
  BY LowersKeeps
<1> QED
  BY <1>1, <1>2 DEF CallOK

\* A call that goes on: what it relied on has survived every pause and resume.
LEMMA ContinueKeeps ==
  ASSUME Sequential, SeqInv, NEW c \in Slots, Continue(c)
  PROVE  choice' = choice /\ RunsOK' /\ CallOK(calls[c])'
<1>1. TypeOK /\ SessionTypeOK /\ IInv /\ RunsOK /\ CallOK(calls[c])
  BY DEF SeqInv, SessionInv
<1>2. calls[c] # NoCall
  BY DEF Continue, AnswerStuck, JudgeReturns, AnswerRecover, VerificationReturns,
         ManualVerificationReturns, AnswerEscalation, AnswerBoundary, JourneyGraded, Drop, Waits, Free
<1>3. PICK p \in Phases : p = calls[c].phase
  BY <1>1, <1>2 DEF SessionTypeOK
<1>4. PICK s \in Steps : s = calls[c].step
  BY <1>1, <1>2 DEF SessionTypeOK
<1>5. /\ calls[c].op \in {"stuck", "verify", "judge", "recover"} =>
           PhaseActive(p) /\ OnlyRunning(p, s)
      /\ calls[c].op \in {"recover", "escalate"} => Quiet
  BY <1>1, <1>2, <1>3, <1>4 DEF CallOK
<1>6. ASSUME NEW ACTION C, Apply(c, C), C => Lowers
      PROVE  choice' = choice /\ RunsOK' /\ CallOK(calls[c])'
  BY <1>1, <1>6, AppliedOK, LowersKeeps
<1>7. CASE AnswerStuck(c) \/ AnswerRecover(c)
  <2>1. PhaseActive(p) /\ OnlyRunning(p, s)
    BY <1>5, <1>7 DEF AnswerStuck, AnswerRecover, Waits
  <2>2. CASE Apply(c, StartStep(calls[c].phase, calls[c].step))
    <3>1. StartStep(p, s) /\ choice' = choice /\ CallOK(calls[c])'
      BY <1>1, <1>3, <1>4, <2>2, AppliedOK
    <3> QED
      BY <1>1, <2>1, <3>1, StartKeeps
  <2>3. CASE Apply(c, SkipStep(calls[c].phase, calls[c].step)) \/ Apply(c, Pause)
    <3>1. SkipStep(p, s) \/ Pause
      BY <1>1, <1>3, <1>4, <2>3, AppliedOK
    <3>2. Lowers
      BY <1>1, <3>1, LoweringCommands
    <3> QED
      BY <1>1, <2>3, <3>2, AppliedOK, LowersKeeps
  <2>4. CASE AnswerRecover(c) /\ Apply(c, FailPhase(calls[c].phase))
    <3>1. Quiet
      BY <1>5, <2>4 DEF AnswerRecover, Waits
    <3>2. FailPhase(p)
      BY <1>1, <1>3, <2>4, AppliedOK
    <3>3. RunsOK'
      BY <1>1, <3>1, <3>2, PhaseCommandsKeepQuiet, QuietIsOK
    <3> QED
      BY <1>1, <2>4, <3>3, AppliedOK
  <2> QED
    BY <1>7, <2>2, <2>3, <2>4 DEF AnswerStuck, AnswerRecover
<1>8. ASSUME NEW success \in BOOLEAN, VerificationReturns(c, success)
      PROVE  choice' = choice /\ RunsOK' /\ CallOK(calls[c])'
  <2>1. VerifyStep(p, s, success) /\ (Ends(c) \/ GoesOn(c, "judge", p, s)) /\ choice' = choice
    BY <1>3, <1>4, <1>8 DEF VerificationReturns
  <2>2. CallOK(Await("judge", p, s))
    BY <1>5, <1>8 DEF VerificationReturns, Waits, CallOK, Await
  <2>3. Lowers
    BY <1>1, <2>1, LoweringCommands
  <2> QED
    BY <1>1, <2>1, <2>2, <2>3, WaitsAgain
<1>9. CASE JudgeReturns(c)
  <2>0. PhaseActive(p) /\ OnlyRunning(p, s)
    BY <1>5, <1>9 DEF JudgeReturns, Waits
  <2>1. CASE Ends(c) /\ UNCHANGED vars /\ choice' = choice
    <3>1. Lowers /\ CallOK(Await("judge", p, s))
      BY <2>0, <2>1 DEF Lowers, vars, CallOK, Await
    <3> QED
      BY <1>1, <2>1, <3>1, WaitsAgain
  <2>2. CASE /\ FailStep(p, s) /\ choice' = choice
             /\ Ends(c) \/ GoesOn(c, "recover", p, s)
    <3>1. /\ Lowers
          /\ \A q \in Phases, t \in Steps : q = p /\ t = s => stepStatus'[q][t] # "running"
      BY <1>1, <2>2, LoweringCommands DEF FailStep, SetStep, TypeOK
    <3>2. Quiet'
      BY <2>0, <3>1 DEF Quiet, Running, OnlyRunning, Lowers
    <3>3. RunsOK'
      BY <3>2, QuietIsOK
    <3>4. PhaseActive(p)' /\ OnlyRunning(p, s)'
      BY <2>0, <3>1 DEF PhaseActive, OnlyRunning, Lowers
    <3>5. calls[c]' = NoCall \/ calls[c]' = Await("recover", p, s)
      BY <1>1, <2>2 DEF Ends, GoesOn, SessionTypeOK
    <3> QED
      BY <2>2, <3>2, <3>3, <3>4, <3>5 DEF CallOK, Await
  <2> QED
    BY <1>3, <1>4, <1>9, <2>1, <2>2 DEF JudgeReturns
<1>10. ASSUME NEW success \in BOOLEAN, ManualVerificationReturns(c, success)
       PROVE  choice' = choice /\ RunsOK' /\ CallOK(calls[c])'
  <2>1. Apply(c, VerifyStep(calls[c].phase, calls[c].step, success))
    BY <1>10 DEF ManualVerificationReturns
  <2>2. VerifyStep(p, s, success)
    BY <1>1, <1>3, <1>4, <2>1, AppliedOK
  <2>3. Lowers
    BY <1>1, <2>2, LoweringCommands
  <2> QED
    BY <1>1, <2>1, <2>3, AppliedOK, LowersKeeps
<1>11. CASE AnswerEscalation(c)
  <2>1. CASE ApplyThenBoundary(c, CompletePhase(calls[c].phase))
    <3>1. Quiet
      BY <1>5, <1>11 DEF AnswerEscalation, Waits
    <3>2. CompletePhase(p)
      BY <1>1, <1>3, <2>1, AppliedOK
    <3>3. RunsOK'
      BY <1>1, <3>1, <3>2, PhaseCommandsKeepQuiet, QuietIsOK
    <3> QED
      BY <1>1, <2>1, <3>3, AppliedOK
  <2>2. CASE Apply(c, Pause) \/ Apply(c, Abandon)
    BY <1>1, <1>6, <2>2, LoweringCommands
  <2> QED
    BY <1>11, <2>1, <2>2 DEF AnswerEscalation
<1>12. CASE AnswerBoundary(c) \/ JourneyGraded(c)
  BY <1>1, <1>6, <1>12, LoweringCommands DEF AnswerBoundary, JourneyGraded
<1>13. CASE Drop(c)
  <2>1. Lowers
    BY <1>13 DEF Drop, Lowers, vars
  <2>2. choice' = choice /\ calls[c]' = NoCall
    BY <1>1, <1>13 DEF Drop, Ends, SessionTypeOK
  <2> QED
    BY <1>1, <2>1, <2>2, LowersKeeps DEF CallOK
<1> QED
  BY <1>7, <1>8, <1>9, <1>10, <1>11, <1>12, <1>13 DEF Continue

\* The user, other sessions and the end of this one only pause, resume or abandon.
LEMMA UserKeeps ==
  ASSUME Sequential, SeqInv,
         SlashCommand \/ OpenOverlay \/ ChooseInOverlay \/ SessionEnds \/ SweptByOtherSession
  PROVE  choice' = choice /\ RunsOK' /\ \A c \in Slots : CallOK(calls[c])'
<1>1. TypeOK /\ SessionTypeOK /\ RunsOK /\ choice = NoCall /\ \A c \in Slots : CallOK(calls[c])
  BY DEF SeqInv, SessionInv
<1>2. ~OpenOverlay /\ ~ChooseInOverlay
  BY <1>1 DEF OpenOverlay, ChooseInOverlay, Sequential
<1>3. Pause \/ Resume \/ Abandon
  BY <1>2 DEF SlashCommand, SessionEnds, SweptByOtherSession
<1>4. Lowers
  BY <1>1, <1>3, LoweringCommands
<1>5. choice' = choice /\ \A c \in Slots : calls'[c] = calls[c] \/ calls'[c] = NoCall
  BY <1>1, <1>2 DEF SlashCommand, SessionEnds, SweptByOtherSession
<1>6. RunsOK' /\ \A k : CallOK(k) => CallOK(k)'
  BY <1>1, <1>4, LowersKeeps
<1>7. ASSUME NEW c \in Slots
      PROVE  CallOK(calls[c])'
  <2>1. PICK k : k = calls[c] /\ CallOK(k)'
    BY <1>1, <1>6
  <2> QED
    BY <1>5, <2>1 DEF CallOK
<1> QED
  BY <1>5, <1>6, <1>7

\* Every step of a sequential session keeps the invariant.
LEMMA SequentialStep ==
  ASSUME Sequential, SeqInv, [SessionNext]_sessionVars
  PROVE  SeqInv'
<1>1. SessionInv' /\ IInv'
  BY SessionStep, NextTypeOK, NextIInv DEF SeqInv, SessionInv
<1>2. CASE UNCHANGED sessionVars
  <2>1. UNCHANGED <<phaseStatus, stepStatus, calls, choice>>
    BY <1>2 DEF sessionVars, vars
  <2>2. RunsOK' /\ \A c \in Slots : CallOK(calls[c])'
    BY <2>1 DEF SeqInv, RunsOK, RunningOnlyInActivePhase, Running, PhaseActive, AtMostOne,
                OnlyRunning, CallOK, Quiet
  <2> QED
    BY <1>1, <2>1, <2>2 DEF SeqInv
<1>3. ASSUME NEW c \in Slots, Call(c) \/ Continue(c)
      PROVE  SeqInv'
  BY <1>1, <1>3, CallKeeps, ContinueKeeps, SlotKeeps
<1>4. CASE SlashCommand \/ OpenOverlay \/ ChooseInOverlay \/ SessionEnds \/ SweptByOtherSession
  BY <1>1, <1>4, UserKeeps DEF SeqInv
<1> QED
  BY <1>2, <1>3, <1>4 DEF SessionNext

\* A session begins with nothing running and nothing in flight.
LEMMA SessionStartsSequential == SessionInit => SeqInv
<1> SUFFICES ASSUME SessionInit PROVE SeqInv
  OBVIOUS
<1>1. SessionInv /\ IInv
  BY InitTypeOK, InitIInv DEF SessionInit, SessionInv, SessionTypeOK
<1>2. Quiet
  BY DEF SessionInit, Init, FreshSteps, Absent, Quiet, Running
<1>3. RunsOK
  BY <1>2 DEF Quiet, RunsOK, RunningOnlyInActivePhase, Running, AtMostOne
<1> QED
  BY <1>1, <1>3 DEF SessionInit, SeqInv, CallOK

\* The invariant of sequential sessions, for plans of every size.
THEOREM SequentialInvariant == ASSUME Sequential PROVE SessionSpec => []SeqInv
<1>1. SessionInit => SeqInv
  BY SessionStartsSequential
<1>2. SeqInv /\ [SessionNext]_sessionVars => SeqInv'
  BY SequentialStep
<1> QED
  BY <1>1, <1>2, PTL DEF SessionSpec

\* A sequential agent never leaves a step running in a phase that is over,
\* whatever happens while its call waits, in plans of every size.
THEOREM NoOrphanedStep ==
  ASSUME Sequential PROVE SessionSpec => []RunningOnlyInActivePhase
<1>1. SeqInv => RunningOnlyInActivePhase
  BY DEF SeqInv, RunsOK
<1> QED
  BY <1>1, SequentialInvariant, PTL

\* Of the invariant, one running step in the phase of activePhaseId is left.
LEMMA OneStepNow ==
  ASSUME Sequential, SeqInv
  PROVE  OneStepAtATime
<1> SUFFICES ASSUME NEW p \in Phases, NEW s \in Steps, stepStatus[p][s] = "running"
             PROVE  p = activePhase /\ OnlyRunning(p, s)
  BY DEF OneStepAtATime, OnlyRunning
<1>1. OnlyRunning(p, s) /\ PhaseActive(p)
  BY DEF SeqInv, RunsOK, AtMostOne, RunningOnlyInActivePhase, Running
<1> QED
  BY <1>1, ActiveIsNamed DEF SeqInv, Sequential

\* It runs one step at a time, in the phase that activePhaseId names.
THEOREM OneStepAlways ==
  ASSUME Sequential PROVE SessionSpec => []OneStepAtATime
<1>1. SeqInv => OneStepAtATime
  BY OneStepNow
<1> QED
  BY <1>1, SequentialInvariant, PTL

-----------------------------------------------------------------------------
(* The plan of a draft.                                                     *)

MapsTyped ==
  /\ pending \in Plans \cup {NoPlan}
  /\ review \in Plans \cup {NoPlan}
  /\ dialog \in Plans \cup {NoPlan}

ScopingInv == MapsTyped /\ ReviewHasPlan

\* There is always another plan to propose.
LEMMA NewPlanIsNew ==
  ASSUME MapsTyped
  PROVE  NewPlan \in Plans /\ NewPlan # NoPlan /\ NewPlan \notin {pending, review, dialog}
<1>1. PICK p \in Plans : TRUE
  BY PlansAssumption
<1> DEFINE Named(x) == IF x = NoPlan THEN p ELSE x
<1>2. Named(pending) \in Plans /\ Named(review) \in Plans /\ Named(dialog) \in Plans
  BY DEF MapsTyped
<1>3. PICK q \in Plans : q \notin {Named(pending), Named(review), Named(dialog)}
  <2> HIDE DEF Named
  <2> QED
    BY <1>2, PlansAssumption
<1>4. q \notin {pending, review, dialog}
  BY <1>3, PlansAssumption
<1> QED
  BY <1>4, PlansAssumption DEF NewPlan

\* What a step of scoping is for the session: one of its own steps, the plan
\* applied beside its calls, or the loss of all of them.
PlanApplied == Scope /\ UNCHANGED <<calls, choice>>
CallsLost == calls' = [c \in Slots |-> NoCall] /\ choice' = NoCall /\ UNCHANGED vars

LEMMA ScopingIsSession ==
  ASSUME [ScopingNext]_allVars
  PROVE  [SessionNext]_sessionVars \/ PlanApplied \/ CallsLost
<1>1. CASE UNCHANGED allVars
  BY <1>1 DEF allVars
<1>2. ASSUME NEW c \in Slots, ToolCall(c)
      PROVE  SessionNext
  BY <1>2 DEF ToolCall, SessionNext
<1>3. ASSUME NEW asks \in BOOLEAN, Propose(asks)
      PROVE  UNCHANGED sessionVars
  BY <1>3 DEF Propose
<1>4. CASE ShowReview \/ CloseReview \/ SwitchAway \/ ReturnToDraft
  BY <1>4 DEF ShowReview, CloseReview, SwitchAway, ReturnToDraft
<1>5. CASE StartPlan \/ SaveAfterQuestion
  BY <1>5 DEF StartPlan, SaveAfterQuestion, ScopePending, PlanApplied
<1>6. CASE UserActs
  BY <1>6 DEF UserActs, SessionNext
<1>7. CASE ExitMode
  BY <1>7 DEF ExitMode, SessionNext, SweptByOtherSession, sessionVars
<1>8. CASE Restart
  BY <1>8 DEF Restart, SessionNext, CallsLost
<1>9. CASE SweptByOtherSession
  BY <1>9 DEF SessionNext
<1> QED
  BY <1>1, <1>2, <1>3, <1>4, <1>5, <1>6, <1>7, <1>8, <1>9 DEF ScopingNext

LEMMA ScopingStep ==
  SessionInv /\ [ScopingNext]_allVars => SessionTypeOK' /\ [Next]_vars
<1> SUFFICES ASSUME SessionInv, [ScopingNext]_allVars
             PROVE  SessionTypeOK' /\ [Next]_vars
  OBVIOUS
<1>1. CASE PlanApplied
  BY <1>1, FermentCommandIsNext DEF PlanApplied, SessionInv, SessionTypeOK
<1>2. CASE CallsLost
  BY <1>2 DEF CallsLost, SessionTypeOK
<1> QED
  BY <1>1, <1>2, ScopingIsSession, SessionStep

\* Whatever scoping does, the ferment changes by the commands of
\* FermentStateMachine only.
THEOREM ScopingRefines == ScopingSpec => RefinesStateMachine /\ []SessionInv
<1>1. ScopingInit => Init /\ SessionInv
  BY InitTypeOK DEF ScopingInit, SessionInit, SessionInv, SessionTypeOK
<1>2. SessionInv /\ [ScopingNext]_allVars => SessionInv' /\ [Next]_vars
  BY ScopingStep, NextTypeOK DEF SessionInv
<1> QED
  BY <1>1, <1>2, PTL DEF ScopingSpec, RefinesStateMachine, Spec

-----------------------------------------------------------------------------
\* No command leads back to a draft.
LEMMA DraftIsFirst ==
  ASSUME [Next]_vars, status' = "draft"
  PROVE  status = "draft"
<1>1. CASE UNCHANGED vars
  BY <1>1 DEF vars
<1>2. CASE FermentCommand
  BY <1>2 DEF FermentCommand, Scope, CompleteFerment, Pause, Resume, Abandon,
              SettleAfterPhaseTerminal
<1>3. ASSUME NEW g \in Groups, ActivatePhaseGroup(g)
      PROVE  status = "draft"
  BY <1>3 DEF ActivatePhaseGroup
<1>4. ASSUME NEW p \in Phases, PhaseCommand(p)
      PROVE  status = "draft"
  BY <1>4 DEF PhaseCommand, ActivatePhase, RefinePhase, CompletePhase, SkipPhase, FailPhase,
              EndPhase, SettleAfterPhaseTerminal
<1>5. ASSUME NEW p \in Phases, NEW s \in Steps, StepCommand(p, s)
      PROVE  status = "draft"
  BY <1>5 DEF StepCommand, StartStep, CompleteStep, VerifyStep, SkipStep, FailStep, SetStep
<1> QED
  BY <1>1, <1>2, <1>3, <1>4, <1>5 DEF Next

\* The maps stay typed and a draft's review has its plan.
LEMMA ScopingInvStep ==
  ASSUME ScopingInv, [Next]_vars, [ScopingNext]_allVars
  PROVE  ScopingInv'
<1> USE DEF ScopingInv, MapsTyped, ReviewHasPlan
<1>1. status' = "draft" => status = "draft"
  BY DraftIsFirst
<1>2. ASSUME UNCHANGED <<pending, questions, review>>, dialog' \in {dialog, review, NoPlan}
      PROVE  ScopingInv'
  BY <1>1, <1>2
<1>3. ASSUME review' = NoPlan, pending' \in {pending, NoPlan}, dialog' \in {dialog, NoPlan}
      PROVE  ScopingInv'
  BY <1>3
<1>4. CASE UNCHANGED allVars
  BY <1>2, <1>4 DEF allVars, scopingVars
<1>5. ASSUME MapsFollow
      PROVE  ScopingInv'
  BY <1>2, <1>3, <1>5 DEF MapsFollow, Forget, NoScope
<1>6. ASSUME NEW asks \in BOOLEAN, Propose(asks)
      PROVE  ScopingInv'
  <2>1. NewPlan \in Plans /\ NewPlan # NoPlan
    BY NewPlanIsNew
  <2> QED
    BY <1>6, <2>1 DEF Propose
<1>7. ASSUME NEW c \in Slots, ToolCall(c)
      PROVE  ScopingInv'
  BY <1>5, <1>7 DEF ToolCall
<1>8. CASE ShowReview \/ CloseReview \/ ReturnToDraft
  BY <1>2, <1>8 DEF ShowReview, CloseReview, ReturnToDraft
<1>9. CASE StartPlan \/ SaveAfterQuestion
  BY <1>3, <1>9 DEF StartPlan, SaveAfterQuestion, ScopePending, Forget, NoScope
<1>10. CASE UserActs
  BY <1>5, <1>10 DEF UserActs
<1>11. CASE ExitMode \/ Restart
  BY <1>3, <1>11 DEF ExitMode, Restart, Forget, NoScope
<1>12. CASE SwitchAway
  BY <1>3, <1>12 DEF SwitchAway
<1>13. CASE SweptByOtherSession /\ UNCHANGED scopingVars
  BY <1>2, <1>13 DEF scopingVars
<1> QED
  BY <1>4, <1>6, <1>7, <1>8, <1>9, <1>10, <1>11, <1>12, <1>13 DEF ScopingNext

\* Both invariants, from the steps of the session to those of scoping.
LEMMA ScopingInvariance == ScopingSpec => [](SessionInv /\ ScopingInv)
<1>1. ScopingInit => Init /\ SessionInv
  BY InitTypeOK DEF ScopingInit, SessionInit, SessionInv, SessionTypeOK
<1>2. ScopingInit => ScopingInv
  BY DEF ScopingInit, ScopingInv, MapsTyped, ReviewHasPlan
<1>3. SessionInv /\ [ScopingNext]_allVars => SessionInv' /\ [Next]_vars
  BY ScopingStep, NextTypeOK DEF SessionInv
<1>4. SessionInv /\ ScopingInv /\ [ScopingNext]_allVars => ScopingInv'
  BY <1>3, ScopingInvStep
<1> QED
  BY <1>1, <1>2, <1>3, <1>4, PTL DEF ScopingSpec

\* Every review on offer has its plan, for any number of plans, questions,
\* pauses, switches, exits and restarts.
THEOREM ReviewsHavePlans == ScopingSpec => []ReviewHasPlan
<1>1. ScopingInv => ReviewHasPlan
  BY DEF ScopingInv
<1> QED
  BY <1>1, ScopingInvariance, PTL

\* The dialog closes on a draft that becomes planned only by Start, and only
\* when it shows the review of the moment.
LEMMA StartShows ==
  ASSUME SessionInv, ScopingInv, [ScopingNext]_allVars,
         LeavesDraft, status' = "planned", dialog # NoPlan, dialog' = NoPlan
  PROVE  dialog = pending \/ questions
<1>1. dialog' # dialog /\ status' # status
  BY DEF LeavesDraft
<1>2. CASE StartPlan
  BY <1>2 DEF StartPlan, ScopingInv, ReviewHasPlan, LeavesDraft
<1>3. CASE Restart
  BY <1>3 DEF Restart, SessionEnds, Pause, vars, LeavesDraft
<1>4. \A c \in Slots : ~ToolCall(c)
  BY <1>1 DEF ToolCall, MapsFollow
<1>5. \A asks \in BOOLEAN : ~Propose(asks)
  BY <1>1 DEF Propose
<1>6. ~ShowReview /\ ~CloseReview /\ ~SwitchAway /\ ~ReturnToDraft
  BY <1>1 DEF ShowReview, CloseReview, SwitchAway, ReturnToDraft, sessionVars, vars
<1>7. ~SaveAfterQuestion /\ ~UserActs /\ ~ExitMode
  BY <1>1 DEF SaveAfterQuestion, UserActs, MapsFollow, ExitMode
<1>8. ~UNCHANGED allVars /\ ~UNCHANGED scopingVars
  BY <1>1 DEF allVars, scopingVars
<1> QED
  BY <1>2, <1>3, <1>4, <1>5, <1>6, <1>7, <1>8 DEF ScopingNext

\* What Start applies was in the dialog, or came with questions.
THEOREM ShownPlansStart == ScopingSpec => StartedPlanWasShown
<1>1. SessionInv /\ ScopingInv /\ [ScopingNext]_allVars =>
        [LeavesDraft /\ status' = "planned" /\ dialog # NoPlan /\ dialog' = NoPlan =>
           dialog = pending \/ questions]_allVars
  BY StartShows
<1> QED
  BY <1>1, ScopingInvariance, PTL DEF ScopingSpec, StartedPlanWasShown

-----------------------------------------------------------------------------
\* A plan applied beside a call that waits: nothing of a draft is active, so the
\* call relies on no phase and on no step.
LEMMA PlanAppliedKeeps ==
  ASSUME SeqInv, PlanApplied
  PROVE  RunsOK' /\ \A c \in Slots : CallOK(calls[c])'
<1>1. TypeOK /\ IInv /\ RunsOK /\ 1 \in Phases
  BY SizesAssumption DEF SeqInv, SessionInv, Phases
<1>2. \A p \in Phases : ~PhaseActive(p)
  BY <1>1 DEF PlanApplied, Scope, CanScope, IInv, StatusFollowsPhases, Planned, PhaseActive, Absent
<1>3. Quiet
  BY <1>1, <1>2 DEF RunsOK, RunningOnlyInActivePhase, Quiet
<1>4. Quiet'
  BY <1>1, <1>3, PhaseCommandsKeepQuiet DEF PlanApplied
<1>5. ASSUME NEW c \in Slots, calls[c] # NoCall
      PROVE  calls[c].op \notin {"stuck", "verify", "judge", "recover"}
  <2>1. calls[c].phase \in Phases
    BY <1>5 DEF SeqInv, SessionInv, SessionTypeOK
  <2> QED
    BY <1>2, <1>5, <2>1 DEF SeqInv, CallOK
<1>6. \A c \in Slots : CallOK(calls[c])'
  BY <1>4, <1>5 DEF PlanApplied, CallOK
<1> QED
  BY <1>4, <1>6, QuietIsOK

\* Scoping disturbs nothing that a sequential agent relies on.
LEMMA ScopingKeepsSequential ==
  ASSUME Sequential, SeqInv, [ScopingNext]_allVars
  PROVE  SeqInv'
<1>1. SessionInv' /\ IInv'
  BY ScopingStep, NextTypeOK, NextIInv DEF SeqInv, SessionInv
<1>2. CASE PlanApplied
  BY <1>1, <1>2, PlanAppliedKeeps DEF PlanApplied, SeqInv
<1>3. CASE CallsLost
  <2>1. Lowers
    BY <1>3 DEF CallsLost, Lowers, vars
  <2>2. RunsOK'
    BY <2>1, LowersKeeps DEF SeqInv, SessionInv
  <2> QED
    BY <1>1, <1>3, <2>2 DEF CallsLost, SeqInv, CallOK
<1> QED
  BY <1>2, <1>3, ScopingIsSession, SequentialStep

\* A sequential agent keeps its promise while plans are proposed, reviewed and
\* started: no step runs in a phase that is over, and only one at a time.
THEOREM OneStepWhileScoping ==
  ASSUME Sequential
  PROVE  ScopingSpec => []RunningOnlyInActivePhase /\ []OneStepAtATime
<1>1. ScopingInit => SeqInv
  BY SessionStartsSequential DEF ScopingInit
<1>2. SeqInv /\ [ScopingNext]_allVars => SeqInv'
  BY ScopingKeepsSequential
<1>3. SeqInv => RunningOnlyInActivePhase /\ OneStepAtATime
  BY OneStepNow DEF SeqInv, RunsOK
<1> QED
  BY <1>1, <1>2, <1>3, PTL DEF ScopingSpec
=============================================================================
