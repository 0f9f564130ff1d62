------------------------------ MODULE FermentTurns ------------------------------
(***************************************************************************)
(* What keeps the agent of FermentAutopilot going.  Nothing runs by itself *)
(* in a session: the agent works in turns, a run of turns ends when a turn *)
(* has no tool call left to answer, and what follows depends on messages   *)
(* that the ferment extension queues from its hooks:                       *)
(*   turn_end (events.ts)          nudges with budgets, then compactions;  *)
(*   agent_end (index.ts)          the final action, compactions again;    *)
(*   a compaction that completes   (auto-compaction.ts) the next action;   *)
(*   session start                 (resume.ts) the next action.            *)
(* When none of them queues a message the ferment stands still until the   *)
(* user speaks, although it is neither complete nor paused.                *)
(*                                                                          *)
(* The policy is automated and the session is not a one-shot one, in which *)
(* nothing is compacted.  A turn makes at most one call that changes the    *)
(* ferment: the handlers look at the ferment after the turn only.          *)
(*                                                                          *)
(* The harness is not in the repository.  As its use in src/ implies: a    *)
(* message queued in a run is answered in that run, agent_end is heard at  *)
(* the end of every run, and a compaction stops the run that asked for it  *)
(* ("after compaction the session is idle") and keeps the queue, or is     *)
(* refused and stops nothing.                                               *)
(***************************************************************************)
EXTENDS FermentAutopilot

VARIABLES
  run,            \* "turn": the agent is in a turn; "ending": before agent_end
  mail,           \* a queued message that starts a turn
  textNudges,     \* reactiveNudgeCounts
  stopNudges,     \* stopNudgeCounts
  scopingNudges,  \* scopingStopNudgeCounts, up to the first one suppressed
  finalNudged,    \* finalCompletionNudgedThisRun
  pending,        \* pendingCompactions has an entry of the ferment
  compaction,     \* in flight: "none", "stage", "midTurn" or "refused"
  letGo           \* why the agent was left alone, "no" when it was not

budgets == <<textNudges, stopNudges, scopingNudges>>
hooks == <<finalNudged, pending, compaction, letGo>>
turnsVars == <<autopilotVars, run, mail, budgets, hooks>>

MaxReactiveNudges == 1      \* MAX_CONSECUTIVE_REACTIVE_NUDGES
MaxStopNudges == 2          \* MAX_CONSECUTIVE_STOP_NUDGES
MaxPlanningNudges == 2      \* MAX_PLANNING_STOP_NUDGES
TurnKinds == {"toolUse", "stop", "text"}

\* Values of letGo: why no message was queued.  A nudge suppressed, a question to a user who does
\* not answer, a draft (whose hidden nudges are not sent), the final action
\* already nudged in this run, a compaction that failed, a blocked worktree;
\* "closed" is between two sessions.
LetGoReasons ==
  {"suppressed", "asked", "draft", "final", "compaction", "worktree", "closed"}

-----------------------------------------------------------------------------
(* continuation.ts and scheduler.ts                                         *)

Idles == {"none", "pause"}
Continues(action) == action.kind \notin Idles \cup {"complete_ferment"}
ContinuesToTheEnd(action) == action.kind \notin Idles
Hidden(action) == action.kind = "scope"      \* shouldSuppressHiddenNudge

\* scheduleNextFermentAction sends the message
Schedules(action) == Continues(action) /\ ~Hidden(action)

-----------------------------------------------------------------------------
(* A turn: what the agent does, then turn_end, which reads the ferment      *)
(* after it.  told: a message was queued; why: the reason when none was.    *)

\* findActivePhaseAndStep: only the first active phase is looked at.
ActiveStepRuns ==
  \E p \in Phases : IsFirst(p, ActiveIn(phaseStatus)) /\ Running(p) # {}

\* complete_step and complete_phase ask for a compaction.
Requests == NextAction.kind \in {"complete_step", "complete_phase"}

\* The turn's tool calls reset the budgets.
SpentOnText(kind) == IF kind = "text" THEN textNudges ELSE 0
SpentOnStops(kind) == IF kind = "toolUse" THEN 0 ELSE stopNudges

Spend(kind, texts, stops) ==
  /\ textNudges' = SpentOnText(kind) + texts
  /\ stopNudges' = SpentOnStops(kind) + stops

\* The run goes on with the tool results or the message, or it ends.
RunGoesOn(kind, told, why) ==
  LET more == kind = "toolUse" \/ told IN
  /\ run' = IF more THEN "turn" ELSE "ending"
  /\ letGo' = IF more THEN "no" ELSE why
  /\ mail' = FALSE

\* A compaction aborts the run and keeps the queue.
RunIsStopped(kind, told, why) ==
  /\ run' = "ending"
  /\ letGo' = IF kind = "toolUse" \/ told THEN "no" ELSE why
  /\ mail' = told

\* maybeInjectScopingProgressNudge after eight turns of exploring (the count is
\* left out), maybeInjectScopingStopNudge.  Only a draft reads scopingNudges.
ScopingNudge(kind) ==
  /\ status' = "draft" /\ kind # "text"
  /\ \/ UNCHANGED scopingNudges
     \/ /\ kind = "stop"
        /\ scopingNudges < MaxPlanningNudges
        /\ scopingNudges' = scopingNudges + 1

NoScopingNudge(kind) ==
  /\ status' = "draft" /\ kind = "stop" => scopingNudges >= MaxPlanningNudges
  /\ scopingNudges' = IF status' = "draft" THEN scopingNudges ELSE 0

\* The handler returns after a scoping nudge and after a question to the user,
\* before it looks at the compactions.
Returns(kind, told, why, requested) ==
  /\ RunGoesOn(kind, told, why)
  /\ Spend(kind, 0, 0)
  /\ pending' = requested
  /\ UNCHANGED <<finalNudged, compaction>>

\* maybeTriggerFermentCompaction drains the request unless one is in flight;
\* then, while a step runs, maybeTriggerMidTurnFermentCompaction.
Compacts(kind, told, why, requested) ==
  LET drains == requested /\ compaction = "none"
      fills == kind = "toolUse" /\ status' = "running" /\ ActiveStepRuns'
      stopsRun == IF drains THEN "stage" ELSE "midTurn"
  IN /\ pending' = (requested /\ ~drains)
     /\ \/ /\ ~drains
           /\ RunGoesOn(kind, told, why)
           /\ UNCHANGED compaction
        \/ /\ drains \/ (compaction = "none" /\ fills)
           /\ \/ compaction' = "refused" /\ RunGoesOn(kind, told, why)
              \/ compaction' = stopsRun /\ RunIsStopped(kind, told, why)

\* maybeInjectReactiveContinuationNudge, after a turn without tool calls
ReactiveNudge(requested) ==
  LET next == NextAction'
      spends == Continues(next) /\ textNudges < MaxReactiveNudges
      why == IF Hidden(next) THEN "draft" ELSE IF Continues(next) THEN "suppressed" ELSE "no"
  IN /\ Spend("text", IF spends THEN 1 ELSE 0, 0)
     /\ UNCHANGED finalNudged
     /\ Compacts("text", spends /\ ~Hidden(next), why, requested)

\* maybeInjectFermentStopNudge, after tool calls followed by "stop"
StopNudge(requested) ==
  LET next == NextAction'
      spends == ContinuesToTheEnd(next) /\ stopNudges < MaxStopNudges
      why == IF Hidden(next) THEN "draft" ELSE "suppressed"
  IN /\ Spend("stop", 0, IF spends THEN 1 ELSE 0)
     /\ finalNudged' = (finalNudged \/ (spends /\ next.kind = "complete_ferment"))
     /\ Compacts("stop", spends /\ ~Hidden(next), why, requested)

NoNudge(requested) ==
  /\ Spend("toolUse", 0, 0)
  /\ UNCHANGED finalNudged
  /\ Compacts("toolUse", FALSE, "no", requested)

\* The turn_end hook.  A question at the end of the text is for the user: the
\* reply is queued, and when the dialog is dismissed, or there is no UI to show
\* it, the question counts as handled all the same.
TurnEnd(kind, requested) ==
  \/ ScopingNudge(kind) /\ Returns(kind, TRUE, "no", requested)
  \/ /\ NoScopingNudge(kind)
     /\ \/ \E replied \in BOOLEAN : Returns(kind, replied, "asked", requested)
        \/ kind = "text" /\ ReactiveNudge(requested)
        \/ kind = "stop" /\ StopNudge(requested)
        \/ kind = "toolUse" /\ NoNudge(requested)

RestoreBudgets == textNudges' = 0 /\ stopNudges' = 0 /\ scopingNudges' = 0

Forgets ==
  /\ run' = "idle" /\ mail' = FALSE
  /\ finalNudged' = FALSE /\ pending' = FALSE /\ compaction' = "none"

\* What the session does after complete_ferment is not about the ferment.
FermentIsOver ==
  /\ status' = "complete"
  /\ Forgets
  /\ RestoreBudgets
  /\ letGo' = "no"

\* The agent does something else, makes a mess of its work, or does as told.
Turn(kind) ==
  /\ run = "turn"
  /\ \/ UNCHANGED autopilotVars /\ TurnEnd(kind, pending)
     \/ kind # "text" /\ (StepGoesWrong \/ PhaseGivenUp) /\ TurnEnd(kind, pending)
     \/ /\ kind # "text"
        /\ Follow
        /\ FermentIsOver \/ (status' # "complete" /\ TurnEnd(kind, pending \/ Requests))

-----------------------------------------------------------------------------
(* Between the turns.                                                       *)

\* decideContinuation(..., treatCompleteFermentAsContinue) gives complete_ferment
FinalActionPending == NextAction.kind = "complete_ferment"

\* The agent_end hook.
AgentEnd ==
  LET drains == pending /\ compaction = "none"
      followsUp == FinalActionPending /\ ~finalNudged
  IN
  /\ run = "ending"
  /\ run' = "idle"
  /\ pending' = (pending /\ ~drains)
  /\ IF drains THEN compaction' \in {"stage", "refused"} ELSE UNCHANGED compaction
  /\ mail' = (mail \/ followsUp)
  /\ letGo' = IF mail' THEN "no"
              ELSE IF FinalActionPending THEN "final" ELSE letGo
  /\ finalNudged' = FALSE
  /\ UNCHANGED <<autopilotVars, budgets>>

\* Mutant of ToldAfter: as after a mid-turn compaction, only a running ferment
\* is told what comes next.
ToldWhileRunning(kind) == status = "running" /\ Schedules(NextAction)

\* onComplete of the two compactions
ToldAfter(kind) ==
  /\ \/ kind = "stage" /\ status \in {"running", "planned"}
     \/ kind = "midTurn" /\ status = "running"
  /\ Schedules(NextAction)

\* Completes, or fails: onError tells nobody.
CompactionEnds ==
  /\ compaction # "none"
  /\ compaction' = "none"
  /\ \/ /\ compaction # "refused"
        /\ mail' = (mail \/ ToldAfter(compaction))
        /\ letGo' = IF mail' THEN "no" ELSE letGo
     \/ /\ UNCHANGED mail
        /\ letGo' = IF mail \/ compaction = "refused" THEN letGo ELSE "compaction"
  /\ UNCHANGED <<autopilotVars, run, budgets, finalNudged, pending>>

\* The harness starts a run for the message once the session is idle.
Wake ==
  /\ run = "idle" /\ mail
  /\ compaction \in {"none", "refused"}
  /\ run' = "turn" /\ mail' = FALSE
  /\ UNCHANGED <<autopilotVars, budgets, hooks>>

UserSpeaks ==
  /\ run = "idle" /\ ~mail
  /\ status # "complete" /\ letGo # "closed"
  /\ mail' = TRUE /\ letGo' = "no"
  /\ UNCHANGED <<autopilotVars, run, budgets, finalNudged, pending, compaction>>

\* session_shutdown, or a crash that the next start sweeps.  The counts of nudges
\* belong to the process: another session of it goes on counting.
SessionCloses ==
  /\ Interrupted
  /\ Forgets
  /\ UNCHANGED budgets \/ RestoreBudgets
  /\ letGo' = "closed"

\* resumeFerment; a blocked worktree gets a warning and no instruction.
SessionStarts ==
  /\ Resumed
  /\ mail' \in BOOLEAN
  /\ letGo' = IF mail' THEN "no" ELSE "worktree"
  /\ UNCHANGED <<run, budgets, finalNudged, pending, compaction>>

-----------------------------------------------------------------------------
TurnsInit ==
  /\ AutopilotInit
  /\ run = "turn" /\ mail = FALSE
  /\ textNudges = 0 /\ stopNudges = 0 /\ scopingNudges = 0
  /\ finalNudged = FALSE /\ pending = FALSE
  /\ compaction = "none" /\ letGo = "no"

TurnsNext ==
  \/ \E kind \in TurnKinds : Turn(kind)
  \/ AgentEnd \/ CompactionEnds \/ Wake \/ UserSpeaks
  \/ SessionCloses \/ SessionStarts

\* An agent that is told again and again what to do does it at last.
DoesAsTold ==
  /\ run = "turn"
  /\ Follow
  /\ FermentIsOver \/ (status' # "complete" /\ TurnEnd("toolUse", pending \/ Requests))

\* The hooks run, the harness answers its queue, compactions end, and a paused
\* ferment is resumed by a later session.
TurnsSpec ==
  /\ TurnsInit
  /\ [][TurnsNext]_turnsVars
  /\ SF_turnsVars(DoesAsTold)
  /\ WF_turnsVars(AgentEnd)
  /\ WF_turnsVars(CompactionEnds)
  /\ WF_turnsVars(Wake)
  /\ WF_turnsVars(SessionStarts)

-----------------------------------------------------------------------------
\* The session never falls silent on a ferment that is left to do without one of
\* the reasons for which the code gives up: budgets, flags, hooks and compactions
\* together always leave a message (index.ts:226 "instead of leaving a
\* planned/running ferment to be paused at session shutdown").
StopsOnlyForAReason ==
  /\ run = "idle" /\ ~mail /\ compaction = "none"
  /\ status \in {"planned", "running"}
  => letGo \in LetGoReasons

\* An agent that does what it is told, late, with failures, early stops and
\* interrupted sessions, finishes the ferment unless the session gives it up.
CompletesUnlessLetGo == <>(status = "complete" \/ letGo \in LetGoReasons \ {"closed"})
=============================================================================
