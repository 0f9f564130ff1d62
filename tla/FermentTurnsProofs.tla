-------------------------- MODULE FermentTurnsProofs --------------------------
(***************************************************************************)
(* Theorems about the log of events that the autopilot works on and about  *)
(* the turns of a session, for plans of every size and every set of groups:*)
(*   - the fold of the events of a command is the ferment that the command *)
(*     computed;                                                           *)
(*   - the session falls silent on an open ferment only for a reason;      *)
(*   - a session of turns is a behaviour of the autopilot and of the state *)
(*     machine (TurnsRefine);                                              *)
(*   - what the engine asks for is let through, as long as no phase of a   *)
(*     parallel group fails, and brings the ferment nearer to its end;     *)
(*   - the counts of nudges stay within their limits.                      *)
(***************************************************************************)
EXTENDS FermentTurns, FermentStateMachineProofs

-----------------------------------------------------------------------------
(* The events of a command.                                                 *)

\* The first of a set of phases is unique, so CHOOSE finds the one that the
\* state machine took.
LEMMA FirstIsUnique ==
  ASSUME NEW S \in SUBSET Phases, NEW p \in Phases, IsFirst(p, S)
  PROVE  (CHOOSE q \in S : IsFirst(q, S)) = p
<1>1. \A q \in S : IsFirst(q, S) => q = p
  BY SizesAssumption DEF IsFirst, Phases
<1> QED
  BY <1>1, Zenon DEF IsFirst

\* settleAfterPhaseTerminal in the log and settleAfterPhaseTerminalPatch in the
\* state machine do the same.
LEMMA SettleAgrees ==
  ASSUME TypeOK, NEW ps \in [Phases -> PhaseStatuses \cup {Absent}],
         SettleAfterPhaseTerminal(ps),
         UNCHANGED <<phaseGroup, stepStatus, stepGroup>>
  PROVE  Ferment' = Settled(Ferment, ps)
<1>1. CASE ActiveIn(ps) = {}
  BY <1>1 DEF SettleAfterPhaseTerminal, Settled, Ferment
<1>2. CASE ActiveIn(ps) # {}
  <2>1. /\ phaseStatus' = ps
        /\ status' = "running"
    BY <1>2 DEF SettleAfterPhaseTerminal
  <2>2. activePhase' = CHOOSE p \in ActiveIn(ps) : IsFirst(p, ActiveIn(ps))
    <3>1. PICK q \in Phases : IsFirst(q, ActiveIn(ps)) /\ activePhase' = q
      BY <1>2 DEF SettleAfterPhaseTerminal
    <3> QED
      BY <3>1, FirstIsUnique DEF ActiveIn
  <2> QED
    BY <1>2, <2>1, <2>2 DEF Settled, Ferment
<1> QED
  BY <1>1, <1>2

\* ferment_running is appended just when it changes something.
LEMMA WokenIs ==
  Woken(Ferment) =
    [status |-> "running", activePhase |-> activePhase, phaseStatus |-> phaseStatus,
     phaseGroup |-> phaseGroup, stepStatus |-> stepStatus, stepGroup |-> stepGroup]
<1>1. CASE status = "running"
  BY <1>1 DEF Woken, Ferment
<1>2. CASE status # "running"
  BY <1>2 DEF Woken, FoldRunning, Ferment
<1> QED
  BY <1>1, <1>2

\* Both activations write two fields of the woken ferment.
LEMMA WokenExcept ==
  ASSUME NEW ps, NEW a
  PROVE  [Woken(Ferment) EXCEPT !.phaseStatus = ps, !.activePhase = a] =
           [status |-> "running", activePhase |-> a, phaseStatus |-> ps,
            phaseGroup |-> phaseGroup, stepStatus |-> stepStatus, stepGroup |-> stepGroup]
<1>1. ASSUME NEW f, NEW h,
             f = [status |-> "running", activePhase |-> activePhase,
                  phaseStatus |-> phaseStatus, phaseGroup |-> phaseGroup,
                  stepStatus |-> stepStatus, stepGroup |-> stepGroup],
             h = [f EXCEPT !.phaseStatus = ps, !.activePhase = a]
      PROVE  h = [status |-> "running", activePhase |-> a, phaseStatus |-> ps,
                  phaseGroup |-> phaseGroup, stepStatus |-> stepStatus,
                  stepGroup |-> stepGroup]
  BY <1>1
<1> QED
  BY <1>1, WokenIs, Zenon

\* One phase is activated, out of a ferment that runs or does not.
LEMMA ActivateAgrees ==
  ASSUME TypeOK, NEW p \in Phases, ActivatePhase(p)
  PROVE  Ferment' = FoldPhaseActivated(Woken(Ferment), p)
<1> DEFINE post == [q \in Phases |->
                     IF q = p THEN "active"
                     ELSE IF phaseStatus[q] = "active" THEN "planned" ELSE phaseStatus[q]]
<1>1. /\ phaseStatus' = post
      /\ activePhase' = p /\ status' = "running"
      /\ UNCHANGED <<phaseGroup, stepStatus, stepGroup>>
  BY DEF ActivatePhase
<1>2. FoldPhaseActivated(Woken(Ferment), p) =
        [status |-> "running", activePhase |-> p, phaseStatus |-> post,
         phaseGroup |-> phaseGroup, stepStatus |-> stepStatus, stepGroup |-> stepGroup]
  <2>1. Woken(Ferment).phaseStatus = phaseStatus
    BY WokenIs
  <2>2. FoldPhaseActivated(Woken(Ferment), p) =
          [Woken(Ferment) EXCEPT !.phaseStatus = post, !.activePhase = p]
    BY <2>1, Zenon DEF FoldPhaseActivated
  <2> HIDE DEF post
  <2> QED
    BY <2>2, WokenExcept, Zenon
<1> HIDE DEF post
<1> QED
  BY <1>1, <1>2 DEF Ferment

\* The planned members of a group are activated, while no phase is active.
LEMMA ActivateGroupAgrees ==
  ASSUME TypeOK, NEW g \in Groups, ActiveIn(phaseStatus) = {}, ActivatePhaseGroup(g)
  PROVE  Ferment' = FoldGroupActivated(Woken(Ferment), JustActivated(g, Ferment'))
<1> DEFINE members == {p \in Phases : phaseGroup[p] = g /\ phaseStatus[p] = "planned"}
           post == [q \in Phases |-> IF q \in members THEN "active" ELSE phaseStatus[q]]
<1>1. \A q \in Phases : phaseStatus[q] # "active"
  BY DEF ActiveIn
<1>2. phaseStatus' = post
  BY <1>1 DEF ActivatePhaseGroup, CanActivateGroup, PlannedInGroup
<1>3. JustActivated(g, Ferment') = members
  BY <1>2 DEF JustActivated, Ferment
<1>4. activePhase' = CHOOSE p \in members : IsFirst(p, members)
  <2>1. PICK p \in Phases : IsFirst(p, members) /\ activePhase' = p
    BY DEF ActivatePhaseGroup, CanActivateGroup, PlannedInGroup
  <2> QED
    BY <2>1, FirstIsUnique
<1>5. /\ status' = "running"
      /\ UNCHANGED <<phaseGroup, stepStatus, stepGroup>>
  BY DEF ActivatePhaseGroup
<1>6. FoldGroupActivated(Woken(Ferment), members) =
        [status |-> "running", activePhase |-> CHOOSE p \in members : IsFirst(p, members),
         phaseStatus |-> post,
         phaseGroup |-> phaseGroup, stepStatus |-> stepStatus, stepGroup |-> stepGroup]
  <2>1. post = [q \in Phases |-> IF q \in members THEN "active"
                                 ELSE IF phaseStatus[q] = "active" THEN "planned"
                                 ELSE phaseStatus[q]]
    BY <1>1
  <2>2. Woken(Ferment).phaseStatus = phaseStatus
    BY WokenIs
  <2> HIDE DEF members, post
  <2>3. FoldGroupActivated(Woken(Ferment), members) =
          [Woken(Ferment) EXCEPT !.phaseStatus = post,
                                 !.activePhase = CHOOSE p \in members : IsFirst(p, members)]
    BY <2>1, <2>2, Zenon DEF FoldGroupActivated
  <2> QED
    BY <2>3, WokenExcept, Zenon
<1> HIDE DEF members, post
<1> QED
  BY <1>2, <1>3, <1>4, <1>5, <1>6 DEF Ferment

\* A single step changes its status.
LEMMA StepAgrees ==
  ASSUME NEW p \in Phases, NEW s \in Steps, NEW st, SetStep(p, s, st)
  PROVE  Ferment' = FoldStep(Ferment, p, s, st)
BY DEF SetStep, FoldStep, Ferment

\* A phase ends, one way or the other.
LEMMA EndAgrees ==
  ASSUME TypeOK, NEW p \in Phases, NEW st \in PhaseStatuses, EndPhase(p, st)
  PROVE  Ferment' = FoldPhaseEnded(Ferment, p, st)
<1>1. [phaseStatus EXCEPT ![p] = st] \in [Phases -> PhaseStatuses \cup {Absent}]
  BY DEF TypeOK
<1>2. Ferment' = Settled(Ferment, [phaseStatus EXCEPT ![p] = st])
  BY <1>1, SettleAgrees DEF EndPhase
<1> QED
  BY <1>2 DEF FoldPhaseEnded, Ferment

\* The commands of a phase, one clause of EventsFoldToFerment each.
LEMMA PhaseAgrees ==
  ASSUME TypeOK, NEW p \in Phases
  PROVE  /\ ActivatePhase(p) => Ferment' = FoldPhaseActivated(Woken(Ferment), p)
         /\ RefinePhase(p) => Ferment' = FoldPhaseRefined(Ferment, p, Ferment')
         /\ CompletePhase(p) => Ferment' = FoldPhaseEnded(Ferment, p, "completed")
         /\ SkipPhase(p) => Ferment' = FoldPhaseEnded(Ferment, p, "skipped")
         /\ FailPhase(p) => Ferment' = FoldPhaseEnded(Ferment, p, "failed")
<1>1. ASSUME RefinePhase(p) PROVE Ferment' = FoldPhaseRefined(Ferment, p, Ferment')
  <2>1. PICK n \in 0..NumSteps, g \in [Steps -> Cohorts] :
          /\ stepStatus' = [stepStatus EXCEPT ![p] = FreshSteps(n)]
          /\ stepGroup' = [stepGroup EXCEPT ![p] = StepCohorts(n, g)]
    BY <1>1 DEF RefinePhase
  <2>2. /\ stepStatus' = [stepStatus EXCEPT ![p] = stepStatus'[p]]
        /\ stepGroup' = [stepGroup EXCEPT ![p] = stepGroup'[p]]
    BY <2>1 DEF TypeOK
  <2>3. UNCHANGED <<status, activePhase, phaseStatus, phaseGroup>>
    BY <1>1 DEF RefinePhase
  <2> QED
    <3>1. /\ Ferment.stepStatus = stepStatus /\ Ferment.stepGroup = stepGroup
          /\ Ferment'.stepStatus = stepStatus' /\ Ferment'.stepGroup = stepGroup'
      BY DEF Ferment
    <3>2. FoldPhaseRefined(Ferment, p, Ferment') =
            [Ferment EXCEPT !.stepStatus = [stepStatus EXCEPT ![p] = stepStatus'[p]],
                            !.stepGroup = [stepGroup EXCEPT ![p] = stepGroup'[p]]]
      BY <3>1 DEF FoldPhaseRefined
    <3> QED
      BY <2>2, <2>3, <3>2 DEF Ferment
<1> QED
  BY <1>1, ActivateAgrees, EndAgrees DEF CompletePhase, SkipPhase, FailPhase, PhaseStatuses

\* The commands of a step.
LEMMA StepCommandAgrees ==
  ASSUME NEW p \in Phases, NEW s \in Steps
  PROVE  /\ StartStep(p, s) => Ferment' = FoldStep(Ferment, p, s, "running")
         /\ CompleteStep(p, s, FALSE) => Ferment' = FoldStep(Ferment, p, s, "done")
         /\ VerifyStep(p, s, TRUE) => Ferment' = FoldStep(Ferment, p, s, "verified")
         /\ VerifyStep(p, s, FALSE) => Ferment' = FoldStep(Ferment, p, s, "done")
         /\ SkipStep(p, s) => Ferment' = FoldStep(Ferment, p, s, "skipped")
         /\ FailStep(p, s) => Ferment' = FoldStep(Ferment, p, s, "failed")
BY StepAgrees DEF StartStep, CompleteStep, VerifyStep, SkipStep, FailStep

\* The commands of the ferment.
LEMMA FermentCommandAgrees ==
  ASSUME TypeOK
  PROVE  /\ CompleteFerment => Ferment' = FoldEnded(Ferment, "complete")
         /\ Pause => Ferment' = FoldPaused(Ferment)
         /\ Resume => Ferment' = FoldResumed(Ferment)
         /\ Abandon => Ferment' = FoldEnded(Ferment, "abandoned")
<1>1. CompleteFerment => Ferment' = FoldEnded(Ferment, "complete")
  BY DEF CompleteFerment, FoldEnded, Ferment
<1>2. ASSUME Pause PROVE Ferment' = FoldPaused(Ferment)
  <2> DEFINE post == [p \in Phases |-> [s \in Steps |->
                IF stepStatus[p][s] = "running" THEN "pending" ELSE stepStatus[p][s]]]
  <2>1. /\ status' = "paused" /\ stepStatus' = post
        /\ UNCHANGED <<activePhase, phaseStatus, phaseGroup, stepGroup>>
    BY <1>2 DEF Pause
  <2>2. Ferment.stepStatus = stepStatus
    BY DEF Ferment
  <2>3. FoldPaused(Ferment) = [Ferment EXCEPT !.status = "paused", !.stepStatus = post]
    BY <2>2, Zenon DEF FoldPaused
  <2> HIDE DEF post
  <2> QED
    BY <2>1, <2>3 DEF Ferment
<1>3. ASSUME Resume PROVE Ferment' = FoldResumed(Ferment)
  <2>1. Ferment' = Settled(Ferment, phaseStatus)
    BY <1>3, SettleAgrees DEF Resume, TypeOK
  <2> QED
    BY <2>1 DEF FoldResumed, Ferment
<1>4. Abandon => Ferment' = FoldEnded(Ferment, "abandoned")
  BY DEF Abandon, FoldEnded, Ferment
<1> QED
  BY <1>1, <1>2, <1>3, <1>4

\* EventsFoldToFerment: replaying the log cannot drift from the commands.
THEOREM EventsFold == Spec => EventsFoldToFerment
<1>1. TypeOK /\ [Next]_vars =>
        [/\ \A p \in Phases :
              /\ ActivatePhase(p) => Ferment' = FoldPhaseActivated(Woken(Ferment), p)
              /\ RefinePhase(p) => Ferment' = FoldPhaseRefined(Ferment, p, Ferment')
              /\ CompletePhase(p) => Ferment' = FoldPhaseEnded(Ferment, p, "completed")
              /\ SkipPhase(p) => Ferment' = FoldPhaseEnded(Ferment, p, "skipped")
              /\ FailPhase(p) => Ferment' = FoldPhaseEnded(Ferment, p, "failed")
         /\ \A g \in Groups :
              ActiveIn(phaseStatus) = {} /\ ActivatePhaseGroup(g) =>
                Ferment' = FoldGroupActivated(Woken(Ferment), JustActivated(g, Ferment'))
         /\ \A p \in Phases, s \in Steps :
              /\ StartStep(p, s) => Ferment' = FoldStep(Ferment, p, s, "running")
              /\ CompleteStep(p, s, FALSE) => Ferment' = FoldStep(Ferment, p, s, "done")
              /\ VerifyStep(p, s, TRUE) => Ferment' = FoldStep(Ferment, p, s, "verified")
              /\ VerifyStep(p, s, FALSE) => Ferment' = FoldStep(Ferment, p, s, "done")
              /\ SkipStep(p, s) => Ferment' = FoldStep(Ferment, p, s, "skipped")
              /\ FailStep(p, s) => Ferment' = FoldStep(Ferment, p, s, "failed")
         /\ CompleteFerment => Ferment' = FoldEnded(Ferment, "complete")
         /\ Pause => Ferment' = FoldPaused(Ferment)
         /\ Resume => Ferment' = FoldResumed(Ferment)
         /\ Abandon => Ferment' = FoldEnded(Ferment, "abandoned")]_vars
  BY PhaseAgrees, ActivateGroupAgrees, StepCommandAgrees, FermentCommandAgrees, Zenon
<1> QED
  BY <1>1, TypeCorrect, PTL DEF Spec, EventsFoldToFerment

-----------------------------------------------------------------------------
(* The plan that the engine reads.                                          *)

\* An agent that follows its prompts scopes at least one phase, and no command
\* takes a phase out of the plan.
PlanExists ==
  /\ DOMAIN phaseStatus = Phases
  /\ \/ Planned(1)
     \/ status = "draft" /\ \A p \in Phases : ~Planned(p)

LeftToDo == status \in {"planned", "running"}

\* In an open ferment there is always something to do.
LEMMA SomethingIsNext ==
  PlanExists /\ LeftToDo => NextAction.kind \notin Idles \cup {"scope"}
<1> SUFFICES ASSUME PlanExists, LeftToDo
             PROVE  NextAction.kind \notin Idles \cup {"scope"}
  OBVIOUS
<1>1. Planned(1) /\ 1 \in Phases
  BY SizesAssumption DEF PlanExists, LeftToDo, Phases
<1>2. \A p : NextInPhase(p).kind \notin Idles \cup {"scope"}
  BY DEF NextInPhase, Do, Idles
<1> QED
  BY <1>1, <1>2 DEF NextAction, LeftToDo, Do, Idles

\* The engine reads nothing but the ferment.
LEMMA NextActionIsRead ==
  ASSUME UNCHANGED vars
  PROVE  NextAction' = NextAction
<1>1. \A p : NextInPhase(p)' = NextInPhase(p)
  BY DEF vars, NextInPhase, HasStep, StepsWith, Running, SameCohort, First, IsFirst, Do
<1> QED
  BY <1>1 DEF vars, NextAction, Planned, WithStatus, Do

\* A phase of the plan stays in it when another one is activated or ends.
LEMMA PhaseStays ==
  ASSUME PlanExists, Planned(1), NEW ps, DOMAIN ps = Phases, phaseStatus' = ps,
         ps[1] # Absent
  PROVE  PlanExists'
BY DEF PlanExists, Planned

\* Until the ferment is scoped the engine asks for nothing else.
LEMMA DraftIsScoped ==
  ASSUME PlanExists, ~Planned(1)
  PROVE  NextAction.kind = "scope"
BY DEF PlanExists, NextAction, Do

\* Activating phases keeps them in the plan.
LEMMA ActivationKeepsPlan ==
  ASSUME PlanExists, Planned(1), NEW p, ActivateTool(p)
  PROVE  PlanExists'
<1>1. 1 \in Phases
  BY SizesAssumption DEF Phases
<1>2. "active" # Absent /\ "planned" # Absent
  BY DEF Absent
<1>3. CASE ActivatePhase(p)
  BY <1>1, <1>2, <1>3 DEF ActivatePhase, PlanExists, Planned
<1>4. CASE ActivatePhaseGroup(phaseGroup[p])
  BY <1>1, <1>2, <1>4 DEF ActivatePhaseGroup, PlanExists, Planned
<1> QED
  BY <1>3, <1>4 DEF ActivateTool

\* So does ending one.
LEMMA EndingKeepsPlan ==
  ASSUME PlanExists, Planned(1), NEW p, NEW st \in TerminalPhaseStatuses, EndPhase(p, st)
  PROVE  PlanExists'
<1>1. 1 \in Phases /\ st # Absent
  BY SizesAssumption DEF Phases, TerminalPhaseStatuses, Absent
<1>2. phaseStatus' = [phaseStatus EXCEPT ![p] = st]
  BY DEF EndPhase, SettleAfterPhaseTerminal
<1> QED
  BY <1>1, <1>2 DEF PlanExists, Planned

\* The steps of the agent and of its sessions.
LEMMA PlanKept ==
  ASSUME PlanExists, AutopilotNext
  PROVE  PlanExists'
<1>1. 1 \in Phases /\ TerminalPhaseStatuses = {"completed", "skipped", "failed"}
  BY SizesAssumption DEF Phases, TerminalPhaseStatuses
<1>2. CASE FollowScope
  <2>1. Planned(1)' /\ DOMAIN phaseStatus' = Phases
    BY <1>2 DEF FollowScope, ScopeTool, Scope
  <2> QED
    BY <2>1 DEF PlanExists
<1>3. CASE Follow /\ ~FollowScope
  <2>1. Planned(1)
    BY <1>3, DraftIsScoped
    DEF Follow, FollowRefine, FollowActivate, FollowStart, FollowCompleteStep,
        FollowCompletePhase, FollowCompleteFerment, RecoverStep, RecoverPhase, HasStep, Asked
  <2>2. ASSUME NEW p, ActivateTool(p) PROVE PlanExists'
    BY <2>1, <2>2, ActivationKeepsPlan
  <2>3. ASSUME NEW p, CompletePhaseTool(p) \/ SkipPhaseTool(p) PROVE PlanExists'
    BY <1>1, <2>1, <2>3, EndingKeepsPlan DEF CompletePhaseTool, SkipPhaseTool, CompletePhase, SkipPhase
  <2>4. ASSUME UNCHANGED phaseStatus PROVE PlanExists'
    BY <2>1, <2>4 DEF PlanExists, Planned
  <2>5. ASSUME NEW p, NEW s,
               \/ RefineTool(p) \/ StartStepTool(p, s) \/ SkipStepTool(p, s)
               \/ CompleteStepTool(p, s) \/ CompleteFerment
        PROVE  UNCHANGED phaseStatus
    BY <2>5 DEF RefineTool, RefinePhase, StartStepTool, StartStep, SkipStepTool, SkipStep,
                CompleteStepTool, CompleteStep, SetStep, CompleteFerment
  <2> QED
    BY <1>3, <2>2, <2>3, <2>4, <2>5
    DEF Follow, FollowRefine, FollowActivate, FollowStart, FollowCompleteStep,
        FollowCompletePhase, FollowCompleteFerment, RecoverStep, RecoverPhase, HasStep
<1>4. CASE StepGoesWrong
  <2>1. Planned(1) /\ UNCHANGED phaseStatus
    BY <1>4, DraftIsScoped DEF StepGoesWrong, Asked, FailStep, SetStep
  <2> QED
    BY <2>1 DEF PlanExists, Planned
<1>5. CASE PhaseGivenUp
  <2>1. PICK p \in Phases : EndPhase(p, "failed")
    BY <1>5 DEF PhaseGivenUp, FailPhaseTool, FailPhase
  <2>2. Planned(1)
    BY <2>1 DEF PlanExists, EndPhase, CanEnd
  <2> QED
    BY <1>1, <2>1, <2>2, EndingKeepsPlan
<1>6. CASE Interrupted \/ Resumed
  <2>1. Planned(1) /\ UNCHANGED phaseStatus
    BY <1>6 DEF Interrupted, Resumed, Pause, Resume, SettleAfterPhaseTerminal, PlanExists
  <2> QED
    BY <2>1 DEF PlanExists, Planned
<1> QED
  BY <1>2, <1>3, <1>4, <1>5, <1>6 DEF AutopilotNext

-----------------------------------------------------------------------------
(* The hooks.                                                               *)

\* Why the agent may have been left alone, at the end of a run and afterwards.
\* A compaction that stopped the run tells it what comes next when it ends; the
\* final action is left to agent_end.
HooksInv ==
  /\ run \in {"turn", "ending", "idle"}
  /\ letGo \in LetGoReasons \cup {"no"}
  /\ compaction \in {"none", "refused", "stage", "midTurn"}
  /\ mail \in BOOLEAN
  /\ compaction \in {"stage", "midTurn"} => run # "turn"
  /\ compaction = "midTurn" => status = "running"
  /\ run = "ending" /\ ~mail /\ letGo = "no" /\ LeftToDo =>
       FinalActionPending \/ compaction \in {"stage", "midTurn"}
  /\ run = "idle" /\ ~mail /\ letGo = "no" /\ LeftToDo =>
       ~FinalActionPending /\ compaction \in {"stage", "midTurn"}

\* A run that goes on, or ends with a reason.
LEMMA GoingOnKeeps ==
  ASSUME NEW kind, NEW told \in BOOLEAN, NEW why \in LetGoReasons \cup {"no"},
         RunGoesOn(kind, told, why), compaction' \in {"none", "refused"},
         kind # "toolUse" /\ ~told /\ LeftToDo' => why # "no" \/ FinalActionPending'
  PROVE  HooksInv'
BY DEF RunGoesOn, HooksInv

\* A run that a compaction stops.
LEMMA StoppingKeeps ==
  ASSUME NEW kind, NEW told \in BOOLEAN, NEW why \in LetGoReasons \cup {"no"},
         RunIsStopped(kind, told, why), compaction' \in {"stage", "midTurn"},
         compaction' = "midTurn" => status' = "running"
  PROVE  HooksInv'
BY DEF RunIsStopped, HooksInv

\* A turn that ends in a compaction keeps it.
LEMMA CompactingKeeps ==
  ASSUME HooksInv, run = "turn",
         NEW kind, NEW told \in BOOLEAN, NEW why \in LetGoReasons \cup {"no"}, NEW requested,
         Compacts(kind, told, why, requested),
         kind # "toolUse" /\ ~told /\ LeftToDo' => why # "no" \/ FinalActionPending'
  PROVE  HooksInv'
<1>1. compaction \in {"none", "refused"}
  BY DEF HooksInv
<1>2. CASE RunGoesOn(kind, told, why) /\ compaction' \in {"none", "refused"}
  BY <1>2, GoingOnKeeps
<1>3. CASE /\ RunIsStopped(kind, told, why) /\ compaction' \in {"stage", "midTurn"}
           /\ compaction' = "midTurn" => status' = "running"
  BY <1>3, StoppingKeeps
<1>4. \/ RunGoesOn(kind, told, why) /\ compaction' \in {"none", "refused"}
      \/ /\ RunIsStopped(kind, told, why) /\ compaction' \in {"stage", "midTurn"}
         /\ compaction' = "midTurn" => status' = "running"
  BY <1>1 DEF Compacts
<1> QED
  BY <1>2, <1>3, <1>4

\* turn_end, which reads the ferment as the turn left it.
LEMMA TurnEndKeeps ==
  ASSUME HooksInv, run = "turn", PlanExists', NEW kind \in TurnKinds, NEW requested,
         TurnEnd(kind, requested)
  PROVE  HooksInv'
<1> DEFINE next == NextAction'
<1>1. (PlanExists /\ LeftToDo => NextAction.kind \notin Idles \cup {"scope"})'
  BY SomethingIsNext, PTL
<1>2. LeftToDo' /\ ~Continues(next) => FinalActionPending'
  BY <1>1 DEF Continues, FinalActionPending, Idles
<1>3. {"draft", "suppressed", "asked"} \subseteq LetGoReasons
  BY DEF LetGoReasons
<1>4. compaction \in {"none", "refused"}
  BY DEF HooksInv
<1>5. ASSUME NEW told \in BOOLEAN, NEW why \in {"no", "asked"}, told \/ why = "asked",
             Returns(kind, told, why, requested)
      PROVE  HooksInv'
  BY <1>3, <1>4, <1>5, GoingOnKeeps DEF Returns
<1>6. CASE ReactiveNudge(requested) /\ kind = "text"
  <2> DEFINE spends == Continues(next) /\ textNudges < MaxReactiveNudges
             why == IF Hidden(next) THEN "draft"
                    ELSE IF Continues(next) THEN "suppressed" ELSE "no"
             told == spends /\ ~Hidden(next)
  <2>1. Compacts("text", told, why, requested)
    BY <1>6 DEF ReactiveNudge
  <2>2. told \in BOOLEAN /\ why \in LetGoReasons \cup {"no"}
    BY <1>3
  <2>3. LeftToDo' => why # "no" \/ FinalActionPending'
    BY <1>2
  <2> HIDE DEF told, why
  <2> QED
    BY <2>1, <2>2, <2>3, CompactingKeeps
<1>7. CASE StopNudge(requested) /\ kind = "stop"
  <2> DEFINE spends == ContinuesToTheEnd(next) /\ stopNudges < MaxStopNudges
             why == IF Hidden(next) THEN "draft" ELSE "suppressed"
             told == spends /\ ~Hidden(next)
  <2>1. Compacts("stop", told, why, requested)
    BY <1>7 DEF StopNudge
  <2>2. told \in BOOLEAN /\ why \in LetGoReasons \cup {"no"} /\ why # "no"
    BY <1>3
  <2> HIDE DEF told, why
  <2> QED
    BY <2>1, <2>2, CompactingKeeps
<1>8. CASE NoNudge(requested) /\ kind = "toolUse"
  <2>1. Compacts("toolUse", FALSE, "no", requested)
    BY <1>8 DEF NoNudge
  <2> QED
    BY <2>1, CompactingKeeps
<1> QED
  BY <1>5, <1>6, <1>7, <1>8 DEF TurnEnd

\* A turn of the agent.
LEMMA TurnKeeps ==
  ASSUME HooksInv, PlanExists, NEW kind \in TurnKinds, Turn(kind)
  PROVE  PlanExists' /\ HooksInv'
<1>1. run = "turn"
  BY DEF Turn
<1>2. CASE UNCHANGED autopilotVars /\ TurnEnd(kind, pending)
  <2>1. PlanExists'
    BY <1>2 DEF autopilotVars, vars, PlanExists, Planned
  <2> QED
    BY <1>1, <1>2, <2>1, TurnEndKeeps
<1>3. CASE (StepGoesWrong \/ PhaseGivenUp) /\ TurnEnd(kind, pending)
  <2>1. PlanExists'
    BY <1>3, PlanKept DEF AutopilotNext
  <2> QED
    BY <1>1, <1>3, <2>1, TurnEndKeeps
<1>4. CASE Follow /\ FermentIsOver
  <2>1. PlanExists'
    BY <1>4, PlanKept DEF AutopilotNext
  <2> QED
    BY <1>4, <2>1 DEF FermentIsOver, Forgets, HooksInv, LeftToDo
<1>5. CASE Follow /\ TurnEnd(kind, pending \/ Requests)
  <2>1. PlanExists'
    BY <1>5, PlanKept DEF AutopilotNext
  <2> QED
    BY <1>1, <1>5, <2>1, TurnEndKeeps
<1> QED
  BY <1>2, <1>3, <1>4, <1>5 DEF Turn

\* A ferment that nobody changes is as far as it was.
LEMMA NothingChanges ==
  ASSUME PlanExists, UNCHANGED autopilotVars
  PROVE  /\ PlanExists' /\ status' = status /\ LeftToDo' = LeftToDo
         /\ NextAction' = NextAction /\ FinalActionPending' = FinalActionPending
<1>1. UNCHANGED vars
  BY DEF autopilotVars
<1>2. NextAction' = NextAction
  BY <1>1, NextActionIsRead
<1> QED
  BY <1>1, <1>2 DEF vars, PlanExists, Planned, LeftToDo, FinalActionPending

\* agent_end keeps it.
LEMMA AgentEndKeeps ==
  ASSUME HooksInv, PlanExists, AgentEnd
  PROVE  PlanExists' /\ HooksInv'
<1>1. UNCHANGED autopilotVars
  BY DEF AgentEnd
<1>2. "final" \in LetGoReasons
  BY DEF LetGoReasons
<1>3. /\ run = "ending" /\ run' = "idle"
      /\ mail' = (mail \/ (FinalActionPending /\ ~finalNudged))
      /\ letGo' = IF mail' THEN "no" ELSE IF FinalActionPending THEN "final" ELSE letGo
      /\ \/ compaction = "none" /\ compaction' \in {"stage", "refused"}
         \/ UNCHANGED compaction
  BY DEF AgentEnd
<1> QED
  BY <1>1, <1>2, <1>3, NothingChanges DEF HooksInv

\* A compaction that completes tells the agent what comes next, whatever it is
\* but the final action.
LEMMA CompactionEndsKeeps ==
  ASSUME HooksInv, PlanExists, CompactionEnds
  PROVE  PlanExists' /\ HooksInv'
<1>1. UNCHANGED autopilotVars
  BY DEF CompactionEnds
<1>2. "compaction" \in LetGoReasons
  BY DEF LetGoReasons
<1>3. LeftToDo /\ ~FinalActionPending => Schedules(NextAction)
  BY SomethingIsNext DEF Schedules, Continues, Hidden, FinalActionPending
<1>4. compaction \in {"stage", "midTurn"} /\ LeftToDo /\ ~FinalActionPending
        => ToldAfter(compaction)
  BY <1>3 DEF HooksInv, ToldAfter, LeftToDo
<1>5. compaction # "none" /\ compaction' = "none" /\ run' = run
  BY DEF CompactionEnds
<1>6. /\ PlanExists' /\ LeftToDo' = LeftToDo /\ FinalActionPending' = FinalActionPending
  BY <1>1, NothingChanges
<1>7. CASE /\ compaction # "refused"
           /\ mail' = (mail \/ ToldAfter(compaction))
           /\ letGo' = IF mail' THEN "no" ELSE letGo
  <2>1. compaction \in {"stage", "midTurn"}
    BY <1>5, <1>7 DEF HooksInv
  <2>2. mail' \in BOOLEAN /\ letGo' \in LetGoReasons \cup {"no"}
    BY <1>7 DEF HooksInv
  <2>3. ~mail' /\ LeftToDo => FinalActionPending
    BY <1>4, <1>7, <2>1
  <2>4. ~mail' => ~mail /\ letGo' = letGo
    BY <1>7
  <2> QED
    BY <1>5, <1>6, <2>1, <2>2, <2>3, <2>4 DEF HooksInv
<1>8. CASE /\ mail' = mail
           /\ letGo' = IF mail \/ compaction = "refused" THEN letGo ELSE "compaction"
  BY <1>2, <1>5, <1>6, <1>8 DEF HooksInv
<1> QED
  BY <1>7, <1>8 DEF CompactionEnds

\* What starts a run, and the two ends of a session.
LEMMA SessionKeeps ==
  ASSUME HooksInv, PlanExists, Wake \/ UserSpeaks \/ SessionCloses \/ SessionStarts
  PROVE  PlanExists' /\ HooksInv'
<1>1. {"closed", "worktree"} \subseteq LetGoReasons
  BY DEF LetGoReasons
<1>2. CASE Wake \/ UserSpeaks
  <2>1. UNCHANGED autopilotVars
    BY <1>2 DEF Wake, UserSpeaks
  <2> QED
    BY <1>2, <2>1, NothingChanges DEF Wake, UserSpeaks, hooks, HooksInv
<1>3. CASE SessionCloses
  <2>1. PlanExists'
    BY <1>3, PlanKept DEF SessionCloses, AutopilotNext
  <2> QED
    BY <1>1, <1>3, <2>1 DEF SessionCloses, Forgets, HooksInv
<1>4. CASE SessionStarts
  <2>1. PlanExists'
    BY <1>4, PlanKept DEF SessionStarts, AutopilotNext
  <2>2. status = "paused"
    BY <1>4 DEF SessionStarts, Resumed, Resume
  <2> QED
    BY <1>1, <1>4, <2>1, <2>2 DEF SessionStarts, HooksInv
<1> QED
  BY <1>2, <1>3, <1>4

\* Both hold in every session.
LEMMA TurnsInvariant == TurnsSpec => [](PlanExists /\ HooksInv)
<1>1. TurnsInit => PlanExists /\ HooksInv
  <2> SUFFICES ASSUME TurnsInit PROVE PlanExists /\ HooksInv
    OBVIOUS
  <2>1. PlanExists
    BY DEF TurnsInit, AutopilotInit, Init, PlanExists, Planned
  <2> QED
    BY <2>1 DEF TurnsInit, HooksInv
<1>2. PlanExists /\ HooksInv /\ [TurnsNext]_turnsVars => (PlanExists /\ HooksInv)'
  <2> SUFFICES ASSUME PlanExists, HooksInv, [TurnsNext]_turnsVars
               PROVE  PlanExists' /\ HooksInv'
    OBVIOUS
  <2>1. CASE UNCHANGED turnsVars
    <3>1. UNCHANGED <<autopilotVars, run, mail, letGo, compaction>>
      BY <2>1 DEF turnsVars, hooks
    <3> QED
      BY <3>1, NothingChanges DEF HooksInv
  <2>2. CASE TurnsNext
    BY <2>2, TurnKeeps, AgentEndKeeps, CompactionEndsKeeps, SessionKeeps DEF TurnsNext
  <2> QED
    BY <2>1, <2>2
<1> QED
  BY <1>1, <1>2, PTL DEF TurnsSpec

\* The session never falls silent on a ferment that is left to do without one of
\* the reasons for which the code gives up, for plans of every size, any number
\* of failures and interruptions, and budgets of any state.
THEOREM SilenceHasAReason == TurnsSpec => []StopsOnlyForAReason
<1>1. PlanExists /\ HooksInv => StopsOnlyForAReason
  BY DEF HooksInv, StopsOnlyForAReason, LeftToDo
<1> QED
  BY <1>1, TurnsInvariant, PTL

-----------------------------------------------------------------------------
(* What the engine asks for is let through.                                 *)

\* What an agent that keeps its failures out of the groups and its turns out of
\* finished ferments leaves of the ferment: a failed phase stands alone, next to
\* no active one, and steps run in the phase of activePhaseId only.
EngineInv ==
  /\ IInv
  /\ PlanExists
  /\ \A p \in Phases : phaseStatus[p] = "failed" => phaseGroup[p] = NoGroup
  /\ \A p, q \in Phases :
       phaseStatus[p] = "failed" /\ phaseStatus[q] \in {"active", "failed"} => p = q
  /\ \A p \in Phases : Running(p) # {} => p = activePhase /\ status = "running"

\* Nothing runs before a phase is active.
LEMMA PlannedIsQuiet ==
  ASSUME EngineInv, status # "running"
  PROVE  FsmState = status /\ \A p \in Phases : Running(p) = {}
BY DEF EngineInv, FsmState

\* In a running ferment the engine looks into activePhaseId, and the guard table
\* at whether a step runs in it.
LEMMA RunningLooksInside ==
  ASSUME EngineInv, status = "running"
  PROVE  /\ activePhase \in Phases /\ phaseStatus[activePhase] = "active"
         /\ WithStatus("failed") = {}
         /\ FsmState = IF Running(activePhase) # {} THEN "step_running" ELSE "phase_active"
         /\ NextAction = NextInPhase(activePhase)
<1>1. ActiveIn(phaseStatus) # {}
  BY DEF EngineInv, IInv, StatusFollowsPhases
<1>2. activePhase \in Phases /\ phaseStatus[activePhase] = "active"
  BY <1>1 DEF EngineInv, IInv, ActivePhaseSound, TypeOK
<1>3. WithStatus("failed") = {}
  BY <1>2 DEF EngineInv, WithStatus
<1>4. FsmState = IF Running(activePhase) # {} THEN "step_running" ELSE "phase_active"
  BY <1>2 DEF EngineInv, FsmState
<1>5. Planned(activePhase) /\ phaseStatus[activePhase] \notin TerminalPhaseStatuses
  BY <1>2 DEF Planned, Absent, TerminalPhaseStatuses
<1> QED
  BY <1>2, <1>3, <1>4, <1>5 DEF NextAction

\* What is asked for inside the active phase is let through.
LEMMA InPhaseAccepted ==
  ASSUME EngineInv, status = "running"
  PROVE  Accepted(NextAction)
<1> DEFINE p == activePhase
           running == Running(p)
           failed == StepsWith(p, {"failed"})
           waiting == StepsWith(p, {"pending"})
           siblings == {s \in waiting : SameCohort(p, First(running), s)}
<1>1. /\ p \in Phases /\ phaseStatus[p] = "active"
      /\ FsmState = IF running # {} THEN "step_running" ELSE "phase_active"
      /\ NextAction = NextInPhase(p)
  BY RunningLooksInside
<1>2. /\ running \in SUBSET Steps /\ failed \in SUBSET Steps /\ waiting \in SUBSET Steps
      /\ siblings \in SUBSET waiting
      /\ running \in SUBSET Nat /\ failed \in SUBSET Nat /\ waiting \in SUBSET Nat
      /\ siblings \in SUBSET Nat
  BY Numbered DEF Running, StepsWith
<1>3. NotPaused /\ p # NoPhase
  BY <1>1 DEF NotPaused, Phases, NoPhase
<1>4. \A s \in waiting \cup failed \cup running : HasStep(p, s)
  BY <1>1 DEF Running, StepsWith, HasStep, Absent
<1>5. CASE \A s \in Steps : ~HasStep(p, s)
  <2>1. NextAction = Do("refine", p, 1)
    BY <1>1, <1>5 DEF NextInPhase
  <2>2. running = {}
    BY <1>2, <1>4, <1>5
  <2>3. RefineAccepted(p)
    BY <1>1, <1>3, <2>2 DEF RefineAccepted, FsmAcceptsPhase, FsmAccepts, CanRefine
  <2> QED
    BY <2>1, <2>3 DEF Accepted, Do
<1>6. CASE ~(\A s \in Steps : ~HasStep(p, s)) /\ failed # {}
  <2> DEFINE s == First(failed)
  <2>1. NextAction = Do("recover_step", p, s)
    BY <1>1, <1>6 DEF NextInPhase
  <2>2. s \in failed
    BY <1>2, <1>6, FirstExists
  <2>3. StepAccepted("SKIP_STEP", p, s)
    BY <1>1, <1>3, <1>4, <2>2 DEF StepAccepted, FsmAccepts, StepGuard, StepSkipped, StepsWith
  <2> QED
    BY <2>1, <2>3 DEF Accepted, Do
<1>7. CASE /\ ~(\A s \in Steps : ~HasStep(p, s)) /\ failed = {}
           /\ running # {} /\ siblings # {}
  <2> DEFINE s == First(siblings)
             r == First(running)
  <2>1. NextAction = Do("start_step", p, s)
    BY <1>1, <1>7 DEF NextInPhase
  <2>2. /\ s \in siblings /\ s \in waiting /\ s \in Steps
        /\ r \in running /\ IsFirst(r, running) /\ r \in Steps
        /\ SameCohort(p, r, s)
    BY <1>2, <1>7, FirstExists
  <2>3. running \ {s} = running
    BY <2>2 DEF Running, StepsWith
  <2>4. NoConcurrentStep(s)
    BY <1>4, <2>2, <2>3 DEF NoConcurrentStep
  <2>5. StartAccepted(p, s)
    BY <1>1, <1>3, <1>4, <1>7, <2>2, <2>3, <2>4
    DEF StartAccepted, FsmAccepts, StepGuard, StartStepInActivePhase, PhaseActive, CanStart
  <2> QED
    BY <2>1, <2>5 DEF Accepted, Do
<1>8. CASE /\ ~(\A s \in Steps : ~HasStep(p, s)) /\ failed = {}
           /\ running # {} /\ siblings = {}
  <2> DEFINE s == First(running)
  <2>1. NextAction = Do("complete_step", p, s)
    BY <1>1, <1>8 DEF NextInPhase
  <2>2. s \in running
    BY <1>2, <1>8, FirstExists
  <2>3. StepAccepted("COMPLETE_STEP", p, s)
    BY <1>1, <1>3, <1>4, <1>8, <2>2 DEF StepAccepted, FsmAccepts, StepCompleted, Running
  <2> QED
    BY <2>1, <2>3 DEF Accepted, Do
<1>9. CASE /\ ~(\A s \in Steps : ~HasStep(p, s)) /\ failed = {}
           /\ running = {} /\ waiting # {}
  <2> DEFINE s == First(waiting)
  <2>1. NextAction = Do("start_step", p, s)
    BY <1>1, <1>9 DEF NextInPhase
  <2>2. s \in waiting
    BY <1>2, <1>9, FirstExists
  <2>3. StartAccepted(p, s)
    BY <1>1, <1>3, <1>4, <1>9, <2>2
    DEF StartAccepted, FsmAccepts, StepGuard, StartStepInActivePhase, PhaseActive, CanStart,
        NoConcurrentStep
  <2> QED
    BY <2>1, <2>3 DEF Accepted, Do
<1>10. CASE /\ ~(\A s \in Steps : ~HasStep(p, s)) /\ failed = {}
            /\ running = {} /\ waiting = {}
  <2>1. NextAction = Do("complete_phase", p, 1)
    BY <1>1, <1>10 DEF NextInPhase
  <2>2. PhaseActive(p) /\ EndAccepted("COMPLETE_PHASE", p)
    BY <1>1, <1>3, <1>10
    DEF EndAccepted, FsmAcceptsPhase, FsmAccepts, PhaseEnds, PhaseActive, CanEnd, Planned, Absent
  <2> QED
    BY <2>1, <2>2 DEF Accepted, Do
<1> QED
  BY <1>5, <1>6, <1>7, <1>8, <1>9, <1>10

\* So is what is asked for between two phases.
LEMMA BetweenPhasesAccepted ==
  ASSUME EngineInv, status = "planned"
  PROVE  Accepted(NextAction)
<1>1. Planned(1) /\ 1 \in Phases
  BY Numbered DEF EngineInv, PlanExists
<1>2. FsmState = "planned" /\ NotPaused
  BY PlannedIsQuiet DEF NotPaused
<1>3. \A st : WithStatus(st) \in SUBSET Nat /\ WithStatus(st) \in SUBSET Phases
  BY Numbered DEF WithStatus
<1>4. CASE WithStatus("failed") # {}
  <2> DEFINE p == First(WithStatus("failed"))
  <2>1. NextAction = Do("recover_phase", p, 1)
    BY <1>1, <1>4 DEF NextAction
  <2>2. p \in Phases /\ phaseStatus[p] = "failed"
    BY <1>3, <1>4, FirstExists DEF WithStatus
  <2>3. phaseGroup[p] = NoGroup
    BY <2>2 DEF EngineInv
  <2>4. ActivateAccepted(p)
    BY <1>2, <2>2, <2>3
    DEF ActivateAccepted, FsmAcceptsPhase, FsmAccepts, PhaseExistsAndPlanned, CanActivate
  <2> QED
    BY <2>1, <2>4 DEF Accepted, Do
<1>5. CASE /\ WithStatus("failed") = {}
           /\ \A p \in Phases : Planned(p) => phaseStatus[p] \in TerminalPhaseStatuses
  <2>1. NextAction = Do("complete_ferment", 1, 1)
    BY <1>1, <1>5 DEF NextAction
  <2>2. CanCompleteFerment
    BY <1>2, <1>5 DEF CanCompleteFerment
  <2> QED
    BY <2>1, <2>2 DEF Accepted, Do
<1>6. CASE /\ WithStatus("failed") = {}
           /\ ~(\A p \in Phases : Planned(p) => phaseStatus[p] \in TerminalPhaseStatuses)
  <2> DEFINE p == First(WithStatus("planned"))
  <2>1. NextAction = Do("activate_phase", p, 1)
    BY <1>1, <1>6 DEF NextAction
  <2>2. WithStatus("planned") # {}
    <3>1. PICK q \in Phases : Planned(q) /\ phaseStatus[q] \notin TerminalPhaseStatuses
      BY <1>6
    <3>2. phaseStatus[q] # "active"
      BY DEF EngineInv, IInv, StatusFollowsPhases, ActiveIn
    <3>3. phaseStatus[q] = "planned"
      BY <3>1, <3>2
      DEF EngineInv, IInv, TypeOK, Planned, TerminalPhaseStatuses, PhaseStatuses
    <3> QED
      BY <3>3 DEF WithStatus
  <2>3. p \in Phases /\ phaseStatus[p] = "planned"
    BY <1>3, <2>2, FirstExists DEF WithStatus
  <2>4. ActivateAccepted(p)
    BY <1>2, <2>3
    DEF ActivateAccepted, FsmAcceptsPhase, FsmAccepts, PhaseExistsAndPlanned, CanActivate,
        CanActivateGroup, PlannedInGroup
  <2> QED
    BY <2>1, <2>4 DEF Accepted, Do
<1> QED
  BY <1>4, <1>5, <1>6

\* And the plan of a draft.
LEMMA EngineIsLegal ==
  ASSUME EngineInv
  PROVE  EngineActionLegal
<1>1. CASE status = "draft"
  <2>1. \A p \in Phases : ~Planned(p)
    BY <1>1 DEF EngineInv, IInv, StatusFollowsPhases
  <2>2. NextAction = Do("scope", 1, 1)
    BY <1>1, <2>1 DEF NextAction
  <2>3. FsmAcceptsPhase("SCOPE_FERMENT", 1) /\ CanScope
    BY <1>1 DEF FsmAcceptsPhase, FsmAccepts, FsmState, CanScope, NotPaused
  <2> QED
    BY <2>2, <2>3 DEF EngineActionLegal, Accepted, Do
<1>2. status \in FermentStatuses
  BY DEF EngineInv, IInv, TypeOK
<1> QED
  BY <1>1, <1>2, InPhaseAccepted, BetweenPhasesAccepted DEF EngineActionLegal, FermentStatuses

-----------------------------------------------------------------------------
(* The agent works through the commands of the state machine.               *)

\* Whatever the agent is told, gives up or is interrupted in.
LEMMA AutopilotIsNext ==
  ASSUME IInv, AutopilotNext
  PROVE  Next
<1>1. AskedPhase \in Phases /\ AskedStep \in Steps
  BY NextActionNames DEF AskedPhase, AskedStep
<1>2. TypeOK
  BY DEF IInv
<1>3. CASE Follow
  BY <1>1, <1>2, <1>3, ToolIsNext, FermentCommandIsNext
  DEF Follow, FollowScope, FollowRefine, FollowActivate, FollowStart, FollowCompleteStep,
      FollowCompletePhase, FollowCompleteFerment, RecoverStep, RecoverPhase
<1>4. CASE StepGoesWrong
  BY <1>1, <1>4, CommandIsNext DEF StepGoesWrong
<1>5. CASE PhaseGivenUp
  BY <1>1, <1>2, <1>5, ToolIsNext DEF PhaseGivenUp
<1>6. CASE Interrupted \/ Resumed
  BY <1>6, FermentCommandIsNext DEF Interrupted, Resumed
<1> QED
  BY <1>3, <1>4, <1>5, <1>6 DEF AutopilotNext

\* Turns, hooks and sessions change the ferment as the autopilot does.
LEMMA TurnsAreAutopilot ==
  ASSUME [TurnsNext]_turnsVars
  PROVE  AutopilotNext \/ UNCHANGED autopilotVars
BY DEF TurnsNext, turnsVars, Turn, AutopilotNext, AgentEnd, CompactionEnds, Wake, UserSpeaks,
       SessionCloses, SessionStarts

\* An agent that is told what to do by the engine uses the state machine as any
\* other caller does.
THEOREM AutopilotRefines == AutopilotSpec => Spec
<1>1. AutopilotInit => Init /\ IInv
  BY InitIInv DEF AutopilotInit
<1>2. IInv /\ [AutopilotNext]_autopilotVars => [Next]_vars
  BY AutopilotIsNext DEF autopilotVars
<1>3. IInv /\ [AutopilotNext]_autopilotVars => IInv'
  BY <1>2, NextIInv
<1> QED
  BY <1>1, <1>2, <1>3, PTL DEF AutopilotSpec, Spec

\* A session of turns is a behaviour of the state machine: what is proved of its
\* commands holds of an agent that is nudged, compacted, interrupted and resumed.
THEOREM TurnsRefine == TurnsSpec => AutopilotSpec /\ Spec
<1>1. TurnsInit => AutopilotInit
  BY DEF TurnsInit
<1>2. [TurnsNext]_turnsVars => [AutopilotNext]_autopilotVars
  BY TurnsAreAutopilot
<1> QED
  BY <1>1, <1>2, AutopilotRefines, PTL DEF TurnsSpec, AutopilotSpec

\* So the log and the ferment agree after every turn.
THEOREM EventsFoldInTurns == TurnsSpec => []IInv /\ EventsFoldToFerment
BY TurnsRefine, EventsFold, Invariance, PTL

-----------------------------------------------------------------------------
(* The engine's invariant is inductive.                                     *)

\* The parts of EngineInv that do not hold of every agent.
FailedAlone ==
  /\ \A p \in Phases : phaseStatus[p] = "failed" => phaseGroup[p] = NoGroup
  /\ \A p, q \in Phases :
       phaseStatus[p] = "failed" /\ phaseStatus[q] \in {"active", "failed"} => p = q
RunsInActivePhase ==
  \A p \in Phases : Running(p) # {} => p = activePhase /\ status = "running"

\* What the kind of an action says of the ferment it was computed from.
LEMMA KindSays ==
  ASSUME EngineInv
  PROVE  /\ NextAction.kind \in {"start_step", "recover_step"} =>
              status = "running" /\ NextAction.phase = activePhase
         /\ NextAction.kind = "activate_phase" => WithStatus("failed") = {}
         /\ NextAction.kind = "recover_phase" =>
              NextAction.phase \in WithStatus("failed")
<1>1. \A p : /\ NextInPhase(p).phase = p
             /\ NextInPhase(p).kind \notin {"activate_phase", "recover_phase"}
  BY DEF NextInPhase, Do
<1>2. WithStatus("failed") # {} => First(WithStatus("failed")) \in WithStatus("failed")
  BY Numbered, FirstExists DEF WithStatus
<1>3. status \in FermentStatuses /\ (status = "draft" => \A p \in Phases : ~Planned(p))
  BY DEF EngineInv, IInv, TypeOK, StatusFollowsPhases
<1> QED
  BY <1>1, <1>2, <1>3 DEF NextAction, Do, FermentStatuses

\* While nothing runs, and the phases change so that failures stay alone.
LEMMA QuietKeeps ==
  ASSUME \A p \in Phases : Running(p) = {}, UNCHANGED stepStatus
  PROVE  RunsInActivePhase'
BY DEF RunsInActivePhase, Running

\* Steps change, phases do not, and nothing starts.
LEMMA FewerRunKeeps ==
  ASSUME EngineInv, UNCHANGED <<status, activePhase, phaseStatus, phaseGroup>>,
         \A p \in Phases : Running(p)' \subseteq Running(p)
  PROVE  FailedAlone' /\ RunsInActivePhase'
BY DEF EngineInv, FailedAlone, RunsInActivePhase

\* A step ends or is put back.
LEMMA StepEndKeeps ==
  ASSUME EngineInv, NEW p \in Phases, NEW s \in Steps, NEW st \in StepStatuses \ {"running"},
         SetStep(p, s, st)
  PROVE  FailedAlone' /\ RunsInActivePhase'
<1>1. \A q \in Phases : Running(q)' \subseteq Running(q)
  BY DEF EngineInv, IInv, TypeOK, SetStep, Running
<1> QED
  BY <1>1, FewerRunKeeps DEF SetStep

\* A step starts where the engine looks.
LEMMA StepStartKeeps ==
  ASSUME EngineInv, status = "running", NEW s \in Steps, activePhase \in Phases,
         SetStep(activePhase, s, "running")
  PROVE  FailedAlone' /\ RunsInActivePhase'
<1>1. UNCHANGED <<status, activePhase, phaseStatus, phaseGroup>>
  BY DEF SetStep
<1>2. \A q \in Phases \ {activePhase} : Running(q)' = Running(q)
  BY DEF EngineInv, IInv, TypeOK, SetStep, Running
<1> QED
  BY <1>1, <1>2 DEF EngineInv, FailedAlone, RunsInActivePhase

\* A phase is activated when nothing is active or running and, if there is a
\* failed phase, it is the one that is retried.
LEMMA ActivateKeeps ==
  ASSUME EngineInv, NEW p \in Phases, ActivateTool(p), WithStatus("failed") \subseteq {p}
  PROVE  FailedAlone' /\ RunsInActivePhase'
<1>1. FsmState = "planned"
  BY DEF ActivateTool, FsmAcceptsPhase, FsmAccepts, PhaseEnds, StepGuard
<1>2. status = "planned" /\ \A q \in Phases : Running(q) = {}
  BY <1>1, PlannedIsQuiet DEF FsmState
<1>3. \A q \in Phases : phaseStatus[q] # "active"
  BY <1>2 DEF EngineInv, IInv, StatusFollowsPhases, ActiveIn
<1>4. UNCHANGED <<stepStatus, phaseGroup>>
  BY DEF ActivateTool, ActivatePhase, ActivatePhaseGroup
<1>5. \A q \in Phases : phaseStatus'[q] # "failed"
  <2>1. \A q \in Phases : phaseStatus[q] = "failed" => q = p /\ phaseGroup[p] = NoGroup
    BY DEF WithStatus, EngineInv
  <2>2. CASE phaseGroup[p] = NoGroup
    BY <2>1, <2>2, <1>3 DEF ActivateTool, ActivatePhase
  <2>3. CASE phaseGroup[p] # NoGroup
    BY <2>1, <2>3, <1>3 DEF ActivateTool, ActivatePhaseGroup
  <2> QED
    BY <2>2, <2>3
<1> QED
  BY <1>2, <1>4, <1>5, QuietKeeps DEF FailedAlone

\* A phase ends while nothing runs; a failed one is not grouped and was active,
\* so no other phase is active or failed.
LEMMA EndKeeps ==
  ASSUME EngineInv, status # "complete", NEW p \in Phases, NEW e \in PhaseEnds,
         NEW st \in {"completed", "skipped", "failed"},
         FsmAcceptsPhase(e, p), EndPhase(p, st),
         st = "failed" => e = "FAIL_PHASE" /\ phaseGroup[p] = NoGroup
  PROVE  FailedAlone' /\ RunsInActivePhase'
<1>1. /\ phaseStatus' = [phaseStatus EXCEPT ![p] = st]
      /\ UNCHANGED <<stepStatus, phaseGroup>>
      /\ DOMAIN phaseStatus = Phases
  BY DEF EndPhase, SettleAfterPhaseTerminal, EngineInv, IInv, TypeOK
<1>2. FsmState \in {"planned", "phase_active"} /\ (st = "failed" => PhaseActive(p))
  BY DEF FsmAcceptsPhase, FsmAccepts, PhaseEnds, StepGuard, FsmState
<1>3. \A q \in Phases : Running(q) = {}
  BY <1>2, PlannedIsQuiet DEF FsmState
<1>4. CASE st # "failed"
  BY <1>1, <1>3, <1>4, QuietKeeps DEF EngineInv, FailedAlone
<1>5. CASE st = "failed"
  <2>1. \A q \in Phases \ {p} : phaseStatus[q] \notin {"active", "failed"}
    <3>1. phaseStatus[p] = "active" /\ phaseGroup[p] = NoGroup
      BY <1>2, <1>5 DEF PhaseActive
    <3> QED
      BY <3>1 DEF EngineInv, IInv, ActivePhasesShareGroup, ActiveIn
  <2> QED
    BY <1>1, <1>3, <1>5, <2>1, QuietKeeps DEF EngineInv, FailedAlone
<1> QED
  BY <1>4, <1>5

\* The calls of the agent.
LEMMA FollowKeeps ==
  ASSUME EngineInv, status # "complete", Follow
  PROVE  FailedAlone' /\ RunsInActivePhase'
<1> DEFINE p == AskedPhase
           s == AskedStep
<1>1. p \in Phases /\ s \in Steps
  BY NextActionNames DEF AskedPhase, AskedStep, EngineInv
<1>2. {"done", "skipped"} \subseteq StepStatuses \ {"running"}
  BY DEF StepStatuses
<1>3. CASE FollowScope
  <2>1. PICK n \in 0..NumPhases :
          /\ phaseStatus' = [q \in Phases |-> IF q <= n THEN "planned" ELSE Absent]
          /\ \E len : stepStatus' = [q \in Phases |-> FreshSteps(IF q <= n THEN len[q] ELSE 0)]
    BY <1>3 DEF FollowScope, ScopeTool, Scope
  <2>2. \A q \in Phases : phaseStatus'[q] # "failed" /\ Running(q)' = {}
    BY <2>1, FreshStepsType DEF Absent, Running
  <2> QED
    BY <2>2 DEF FailedAlone, RunsInActivePhase
<1>4. CASE FollowRefine
  <2>1. PICK n : stepStatus' = [stepStatus EXCEPT ![p] = FreshSteps(n)]
    BY <1>4 DEF FollowRefine, RefineTool, RefinePhase
  <2>2. \A q \in Phases : Running(q)' \subseteq Running(q)
    BY <1>1, <2>1, FreshStepsType DEF EngineInv, IInv, TypeOK, Running
  <2> QED
    BY <1>4, <2>2, FewerRunKeeps DEF FollowRefine, RefineTool, RefinePhase
<1>5. CASE FollowActivate \/ (Asked("recover_phase") /\ ActivateTool(p))
  <2>1. WithStatus("failed") \subseteq {p}
    BY <1>5, KindSays DEF FollowActivate, Asked, AskedPhase, EngineInv, WithStatus
  <2> QED
    BY <1>1, <1>5, <2>1, ActivateKeeps DEF FollowActivate
<1>6. CASE FollowStart \/ (Asked("recover_step") /\ StartStepTool(p, s))
  <2>1. status = "running" /\ p = activePhase
    BY <1>6, KindSays DEF FollowStart, Asked, AskedPhase
  <2>2. SetStep(p, s, "running")
    BY <1>6 DEF FollowStart, StartStepTool, StartStep
  <2> QED
    BY <1>1, <2>1, <2>2, StepStartKeeps
<1>7. CASE FollowCompleteStep
  BY <1>1, <1>2, <1>7, StepEndKeeps DEF FollowCompleteStep, CompleteStepTool, CompleteStep
<1>8. CASE Asked("recover_step") /\ SkipStepTool(p, s)
  BY <1>1, <1>2, <1>8, StepEndKeeps DEF SkipStepTool, SkipStep
<1>9. CASE FollowCompletePhase
  BY <1>1, <1>9, EndKeeps DEF FollowCompletePhase, CompletePhaseTool, CompletePhase, PhaseEnds
<1>10. CASE Asked("recover_phase") /\ SkipPhaseTool(p)
  BY <1>1, <1>10, EndKeeps DEF SkipPhaseTool, SkipPhase, PhaseEnds
<1>11. CASE FollowCompleteFerment
  <2>1. status # "running"
    BY <1>11
    DEF FollowCompleteFerment, CompleteFerment, CanCompleteFerment, EngineInv, IInv,
        StatusFollowsPhases, ActiveIn, Planned, Absent, TerminalPhaseStatuses
  <2>2. \A q \in Phases : Running(q) = {}
    BY <2>1, PlannedIsQuiet
  <2> QED
    BY <1>11, <2>2, QuietKeeps
    DEF FollowCompleteFerment, CompleteFerment, EngineInv, FailedAlone
<1> QED
  BY <1>3, <1>4, <1>5, <1>6, <1>7, <1>8, <1>9, <1>10, <1>11 DEF Follow, RecoverStep, RecoverPhase

\* Every step of the autopilot keeps the invariant of the engine.
LEMMA EngineKept ==
  ASSUME ~GroupedPhasesFail, EngineInv, status # "complete", AutopilotNext
  PROVE  EngineInv'
<1>1. IInv' /\ PlanExists'
  BY AutopilotIsNext, NextIInv, PlanKept DEF EngineInv
<1>2. FailedAlone' /\ RunsInActivePhase'
  <2>1. CASE Follow
    BY <2>1, FollowKeeps
  <2>2. CASE StepGoesWrong
    <3>1. AskedPhase \in Phases /\ AskedStep \in Steps
      BY NextActionNames DEF AskedPhase, AskedStep, EngineInv
    <3> QED
      BY <2>2, <3>1, StepEndKeeps DEF StepGoesWrong, FailStep, StepStatuses
  <2>3. CASE PhaseGivenUp
    <3>1. PICK p \in Phases : phaseGroup[p] = NoGroup /\ FailPhaseTool(p)
      BY <2>3 DEF PhaseGivenUp
    <3> QED
      BY <3>1, EndKeeps DEF FailPhaseTool, FailPhase, PhaseEnds
  <2>4. CASE Interrupted
    <3>1. \A p \in Phases : Running(p)' = {}
      BY <2>4 DEF Interrupted, Pause, Running
    <3> QED
      BY <2>4, <3>1 DEF Interrupted, Pause, EngineInv, FailedAlone, RunsInActivePhase
  <2>5. CASE Resumed
    <3>1. \A p \in Phases : Running(p) = {}
      BY <2>5, PlannedIsQuiet DEF Resumed, Resume
    <3>2. UNCHANGED <<phaseStatus, phaseGroup, stepStatus>>
      BY <2>5 DEF Resumed, Resume, SettleAfterPhaseTerminal
    <3> QED
      BY <3>1, <3>2, QuietKeeps DEF EngineInv, FailedAlone
  <2> QED
    BY <2>1, <2>2, <2>3, <2>4, <2>5 DEF AutopilotNext
<1> QED
  BY <1>1, <1>2 DEF EngineInv, FailedAlone, RunsInActivePhase

\* A finished ferment has no turn, no run that ends and no message left.
OverIsOver == status = "complete" => run = "idle" /\ ~mail

\* Only complete_ferment finishes a ferment, and its turn is the last one.
LEMMA OthersDoNotFinish ==
  ASSUME EngineInv, status # "complete",
         StepGoesWrong \/ PhaseGivenUp \/ Interrupted \/ Resumed
  PROVE  status' # "complete"
BY DEF StepGoesWrong, FailStep, SetStep, PhaseGivenUp, FailPhaseTool, FailPhase, EndPhase,
       SettleAfterPhaseTerminal, Interrupted, Pause, Resumed, Resume

\* Nothing starts after it.
LEMMA OverKept ==
  ASSUME EngineInv, OverIsOver, [TurnsNext]_turnsVars
  PROVE  /\ OverIsOver'
         /\ \/ AutopilotNext /\ status # "complete"
            \/ UNCHANGED autopilotVars
<1>1. CASE UNCHANGED turnsVars
  BY <1>1 DEF turnsVars, autopilotVars, vars, OverIsOver
<1>2. ASSUME NEW kind \in TurnKinds, Turn(kind)
      PROVE  /\ OverIsOver'
             /\ \/ AutopilotNext /\ status # "complete"
                \/ UNCHANGED autopilotVars
  <2>1. status # "complete"
    BY <1>2 DEF Turn, OverIsOver
  <2>2. CASE UNCHANGED autopilotVars
    BY <2>1, <2>2 DEF autopilotVars, vars, OverIsOver
  <2>3. CASE StepGoesWrong \/ PhaseGivenUp
    BY <2>1, <2>3, OthersDoNotFinish DEF AutopilotNext, OverIsOver
  <2>4. CASE Follow /\ (FermentIsOver \/ status' # "complete")
    BY <2>1, <2>4 DEF AutopilotNext, FermentIsOver, Forgets, OverIsOver
  <2> QED
    BY <1>2, <2>2, <2>3, <2>4 DEF Turn
<1>3. CASE AgentEnd \/ CompactionEnds \/ Wake \/ UserSpeaks
  <2>1. UNCHANGED autopilotVars /\ status' = status
    BY <1>3 DEF AgentEnd, CompactionEnds, Wake, UserSpeaks, autopilotVars, vars
  <2>2. status = "complete" => run' = run /\ (mail' = mail \/ ~mail')
    BY <1>3 DEF AgentEnd, CompactionEnds, Wake, UserSpeaks, OverIsOver, ToldAfter
  <2> QED
    BY <2>1, <2>2 DEF OverIsOver
<1>4. CASE SessionCloses \/ SessionStarts
  <2>1. status # "complete"
    BY <1>4 DEF SessionCloses, Interrupted, Pause, SessionStarts, Resumed, Resume
  <2>2. Interrupted \/ Resumed
    BY <1>4 DEF SessionCloses, SessionStarts
  <2> QED
    BY <2>1, <2>2, OthersDoNotFinish DEF AutopilotNext, OverIsOver
<1> QED
  BY <1>1, <1>2, <1>3, <1>4 DEF TurnsNext

\* Both hold in every session in which the phases of groups are not given up.
LEMMA EngineInvariance ==
  ASSUME ~GroupedPhasesFail
  PROVE  TurnsSpec => [](EngineInv /\ OverIsOver)
<1>1. TurnsInit => EngineInv /\ OverIsOver
  <2> SUFFICES ASSUME TurnsInit PROVE EngineInv /\ OverIsOver
    OBVIOUS
  <2>1. Init /\ IInv
    BY InitIInv DEF TurnsInit, AutopilotInit
  <2>2. \A p \in Phases : phaseStatus[p] = "absent" /\ Running(p) = {}
    BY <2>1, FreshStepsType DEF Init, Absent, Running
  <2> QED
    BY <2>1, <2>2 DEF EngineInv, OverIsOver, PlanExists, Init, Planned, Absent
<1>2. EngineInv /\ OverIsOver /\ [TurnsNext]_turnsVars => (EngineInv /\ OverIsOver)'
  <2> SUFFICES ASSUME EngineInv, OverIsOver, [TurnsNext]_turnsVars
               PROVE  EngineInv' /\ OverIsOver'
    OBVIOUS
  <2>1. CASE AutopilotNext /\ status # "complete"
    BY <2>1, EngineKept, OverKept
  <2>2. CASE UNCHANGED autopilotVars
    <3>1. UNCHANGED vars
      BY <2>2 DEF autopilotVars
    <3>2. IInv'
      BY <3>1, NextIInv DEF EngineInv
    <3> QED
      BY <3>1, <3>2, OverKept DEF vars, EngineInv, PlanExists, Planned, Running
  <2> QED
    BY <2>1, <2>2, OverKept
<1> QED
  BY <1>1, <1>2, PTL DEF TurnsSpec

\* What the engine asks for is never refused by the guard table or by the state
\* machine, for plans of every size, as long as no phase of a parallel group
\* fails.  The run FermentRecovery shows that this is needed.
THEOREM EngineNeverStuck ==
  ASSUME ~GroupedPhasesFail
  PROVE  TurnsSpec => []EngineActionLegal
BY EngineInvariance, EngineIsLegal, PTL

-----------------------------------------------------------------------------
(* Doing as told gets the ferment nearer to its end.                        *)

\* How often a phase and a step have still to change until they are terminal.
PhaseToDo(st) == IF st \in {"planned", "failed"} THEN 2 ELSE IF st = "active" THEN 1 ELSE 0
StepToDo(st) == IF st \in {"pending", "failed"} THEN 2 ELSE IF st = "running" THEN 1 ELSE 0

NothingBack ==
  \A p \in Phases :
    /\ PhaseToDo(phaseStatus'[p]) <= PhaseToDo(phaseStatus[p])
    /\ \A s \in Steps : StepToDo(stepStatus'[p][s]) <= StepToDo(stepStatus[p][s])

SomethingDone ==
  \E p \in Phases :
    \/ PhaseToDo(phaseStatus'[p]) < PhaseToDo(phaseStatus[p])
    \/ \E s \in Steps : StepToDo(stepStatus'[p][s]) < StepToDo(stepStatus[p][s])

\* A phase gets its steps, which happens once because no step is deleted.
PhaseRefined ==
  \E p \in Phases :
    /\ \A s \in Steps : ~HasStep(p, s)
    /\ HasStep(p, 1)'
    /\ UNCHANGED phaseStatus
    /\ \A q \in Phases \ {p} : stepStatus'[q] = stepStatus[q]

NoStepDeleted ==
  \A p \in Phases, s \in Steps : HasStep(p, s) => stepStatus'[p][s] # Absent

FermentFinished ==
  status # "complete" /\ status' = "complete" /\ UNCHANGED <<phaseStatus, stepStatus>>

Advances ==
  \/ status = "draft" /\ status' = "planned"
  \/ PhaseRefined
  \/ NothingBack /\ SomethingDone
  \/ FermentFinished

\* What the kind of an action says of the phase and the step that it names.
LEMMA TargetSays ==
  ASSUME IInv
  PROVE  LET p == NextAction.phase
             s == NextAction.step
             kind == NextAction.kind
         IN /\ kind = "refine" => \A t \in Steps : ~HasStep(p, t)
            /\ kind = "start_step" => stepStatus[p][s] = "pending"
            /\ kind = "recover_step" => stepStatus[p][s] = "failed"
            /\ kind = "complete_step" => stepStatus[p][s] = "running"
            /\ kind = "recover_phase" => phaseStatus[p] = "failed"
<1> DEFINE Says(a) ==
      /\ a.kind = "refine" => \A t \in Steps : ~HasStep(a.phase, t)
      /\ a.kind = "start_step" => stepStatus[a.phase][a.step] = "pending"
      /\ a.kind = "recover_step" => stepStatus[a.phase][a.step] = "failed"
      /\ a.kind = "complete_step" => stepStatus[a.phase][a.step] = "running"
      /\ a.kind = "recover_phase" => phaseStatus[a.phase] = "failed"
<1>1. \A p : Says(NextInPhase(p))
  <2> SUFFICES ASSUME NEW p PROVE Says(NextInPhase(p))
    OBVIOUS
  <2> DEFINE failed == StepsWith(p, {"failed"})
             waiting == StepsWith(p, {"pending"})
             siblings == {s \in waiting : SameCohort(p, First(Running(p)), s)}
  <2>1. \A S \in SUBSET Steps : S # {} => First(S) \in S
    BY Numbered, FirstExists
  <2>2. /\ failed # {} => stepStatus[p][First(failed)] = "failed"
        /\ waiting # {} => stepStatus[p][First(waiting)] = "pending"
        /\ siblings # {} => stepStatus[p][First(siblings)] = "pending"
        /\ Running(p) # {} => stepStatus[p][First(Running(p))] = "running"
    BY <2>1 DEF StepsWith, Running
  <2>3. NextInPhase(p) =
          IF \A s \in Steps : ~HasStep(p, s) THEN Do("refine", p, 1)
          ELSE IF failed # {} THEN Do("recover_step", p, First(failed))
          ELSE IF Running(p) # {} /\ siblings # {} THEN Do("start_step", p, First(siblings))
          ELSE IF Running(p) # {} THEN Do("complete_step", p, First(Running(p)))
          ELSE IF waiting # {} THEN Do("start_step", p, First(waiting))
          ELSE Do("complete_phase", p, 1)
    BY DEF NextInPhase
  <2> HIDE DEF failed, waiting, siblings
  <2>4. /\ (\A t \in Steps : ~HasStep(p, t)) => Says(Do("refine", p, 1))
        /\ failed # {} => Says(Do("recover_step", p, First(failed)))
        /\ Running(p) # {} => Says(Do("complete_step", p, First(Running(p))))
        /\ siblings # {} => Says(Do("start_step", p, First(siblings)))
        /\ waiting # {} => Says(Do("start_step", p, First(waiting)))
        /\ Says(Do("complete_phase", p, 1))
    BY <2>2 DEF Do
  <2> HIDE DEF Says
  <2> QED
    BY <2>3, <2>4
<1>2. WithStatus("failed") # {} => phaseStatus[First(WithStatus("failed"))] = "failed"
  BY Numbered, FirstExists DEF WithStatus
<1>3. \A kind \in {"none", "pause", "scope", "complete_ferment", "activate_phase"} :
        \A p, s : Says(Do(kind, p, s))
  BY DEF Do
<1>4. WithStatus("failed") # {} => Says(Do("recover_phase", First(WithStatus("failed")), 1))
  BY <1>2 DEF Do
<1>5. Says(NextAction)
  <2> HIDE DEF Says
  <2> QED
    BY <1>1, <1>3, <1>4 DEF NextAction
<1> QED
  BY <1>5

\* One step comes nearer to its end.
LEMMA StepAdvances ==
  ASSUME IInv, NEW p \in Phases, NEW s \in Steps, NEW st, SetStep(p, s, st),
         StepToDo(st) < StepToDo(stepStatus[p][s])
  PROVE  Advances
<1>1. /\ stepStatus' = [stepStatus EXCEPT ![p][s] = st]
      /\ phaseStatus' = phaseStatus
  BY DEF SetStep
<1>2. stepStatus'[p][s] = st
  BY <1>1 DEF IInv, TypeOK
<1>3. \A q \in Phases, t \in Steps :
        StepToDo(stepStatus'[q][t]) <= StepToDo(stepStatus[q][t])
  <2> SUFFICES ASSUME NEW q \in Phases, NEW t \in Steps
               PROVE  StepToDo(stepStatus'[q][t]) <= StepToDo(stepStatus[q][t])
    OBVIOUS
  <2>1. CASE q = p /\ t = s
    BY <1>2, <2>1 DEF StepToDo
  <2>2. CASE ~(q = p /\ t = s)
    <3>1. stepStatus'[q][t] = stepStatus[q][t]
      BY <1>1, <2>2 DEF IInv, TypeOK
    <3> QED
      BY <3>1 DEF StepToDo
  <2> QED
    BY <2>1, <2>2
<1>4. \A q \in Phases : PhaseToDo(phaseStatus'[q]) <= PhaseToDo(phaseStatus[q])
  BY <1>1 DEF PhaseToDo
<1> QED
  BY <1>2, <1>3, <1>4 DEF Advances, NothingBack, SomethingDone

\* So do phases, while the steps stay as they are.
LEMMA PhasesAdvance ==
  ASSUME UNCHANGED stepStatus,
         \A q \in Phases : PhaseToDo(phaseStatus'[q]) <= PhaseToDo(phaseStatus[q]),
         NEW p \in Phases, PhaseToDo(phaseStatus'[p]) < PhaseToDo(phaseStatus[p])
  PROVE  Advances
BY DEF Advances, NothingBack, SomethingDone, StepToDo

\* A phase ends.
LEMMA EndAdvances ==
  ASSUME IInv, NEW p \in Phases, NEW st \in {"completed", "skipped"}, EndPhase(p, st),
         phaseStatus[p] \in {"planned", "active", "failed"}
  PROVE  Advances
<1>1. /\ phaseStatus' = [phaseStatus EXCEPT ![p] = st]
      /\ UNCHANGED stepStatus
  BY DEF EndPhase, SettleAfterPhaseTerminal
<1>2. \A q \in Phases : PhaseToDo(phaseStatus'[q]) <= PhaseToDo(phaseStatus[q])
  BY <1>1 DEF IInv, TypeOK, PhaseToDo
<1>3. PhaseToDo(phaseStatus'[p]) < PhaseToDo(phaseStatus[p])
  BY <1>1 DEF IInv, TypeOK, PhaseToDo
<1> QED
  BY <1>1, <1>2, <1>3, PhasesAdvance

\* The guard table has a phase activated only while none is active, so none is
\* put back.
LEMMA ActivationAdvances ==
  ASSUME IInv, NEW p \in Phases, ActivateTool(p)
  PROVE  Advances
<1>1. status = "planned"
  BY DEF ActivateTool, FsmAcceptsPhase, FsmAccepts, PhaseEnds, StepGuard, FsmState
<1>2. \A q \in Phases : phaseStatus[q] # "active"
  BY <1>1 DEF IInv, StatusFollowsPhases, ActiveIn
<1>3. CASE phaseGroup[p] = NoGroup
  <2>1. /\ phaseStatus[p] \in {"planned", "failed"} /\ UNCHANGED stepStatus
        /\ phaseStatus' = [q \in Phases |-> IF q = p THEN "active" ELSE phaseStatus[q]]
    BY <1>2, <1>3 DEF ActivateTool, ActivatePhase, CanActivate
  <2> QED
    BY <2>1, PhasesAdvance DEF PhaseToDo
<1>4. CASE phaseGroup[p] # NoGroup
  <2> DEFINE members == PlannedInGroup(phaseGroup[p])
  <2>1. /\ members # {} /\ UNCHANGED stepStatus
        /\ phaseStatus' = [q \in Phases |-> IF q \in members THEN "active" ELSE phaseStatus[q]]
    BY <1>2, <1>4 DEF ActivateTool, ActivatePhaseGroup, CanActivateGroup
  <2>2. PICK m \in members : m \in Phases
    BY <2>1 DEF PlannedInGroup
  <2>3. \A q \in members : phaseStatus[q] = "planned"
    BY DEF PlannedInGroup
  <2> HIDE DEF members
  <2> QED
    BY <2>1, <2>2, <2>3, PhasesAdvance DEF PhaseToDo
<1> QED
  BY <1>3, <1>4

\* Each call that the engine asks for, when it is let through.
LEMMA FollowAdvances ==
  ASSUME IInv, Follow
  PROVE  Advances
<1> DEFINE p == AskedPhase
           s == AskedStep
<1>1. p \in Phases /\ s \in Steps
  BY NextActionNames DEF AskedPhase, AskedStep
<1>2. CASE FollowScope
  BY <1>2 DEF FollowScope, ScopeTool, Scope, CanScope, Advances
<1>3. CASE FollowRefine
  <2>1. \A t \in Steps : ~HasStep(p, t)
    BY <1>3, TargetSays DEF FollowRefine, Asked, AskedPhase
  <2>2. \A q \in Phases \ {p} : stepStatus'[q] = stepStatus[q]
    BY <1>3, <1>1 DEF FollowRefine, RefineTool, RefinePhase, IInv, TypeOK
  <2>3. UNCHANGED <<status, activePhase, phaseStatus>>
    BY <1>3 DEF FollowRefine, RefineTool, RefinePhase
  <2>4. p' = p
    <3>1. \A q : NextInPhase(q).phase = q
      BY DEF NextInPhase, Do
    <3>2. (\A q : NextInPhase(q).phase = q)'
      BY DEF NextInPhase, Do
    <3>3. NextAction = NextInPhase(activePhase)
      BY <1>3 DEF FollowRefine, Asked, NextAction, Do
    <3>4. NextAction' = NextInPhase(activePhase)'
      BY <2>3, <1>3 DEF FollowRefine, Asked, NextAction, Do, Planned, WithStatus
    <3> QED
      BY <2>3, <3>1, <3>2, <3>3, <3>4 DEF AskedPhase
  <2>5. HasStep(p, 1)'
    BY <1>3, <2>4 DEF FollowRefine
  <2> QED
    BY <1>1, <2>1, <2>2, <2>3, <2>4, <2>5 DEF PhaseRefined, Advances, HasStep
<1>4. CASE FollowActivate \/ (Asked("recover_phase") /\ ActivateTool(p))
  BY <1>1, <1>4, ActivationAdvances DEF FollowActivate
<1>5. CASE FollowStart \/ (Asked("recover_step") /\ StartStepTool(p, s))
  <2>1. stepStatus[p][s] \in {"pending", "failed"}
    BY <1>5, TargetSays DEF FollowStart, Asked, AskedPhase, AskedStep
  <2>2. SetStep(p, s, "running")
    BY <1>5 DEF FollowStart, StartStepTool, StartStep
  <2> QED
    BY <1>1, <2>1, <2>2, StepAdvances DEF StepToDo
<1>6. CASE FollowCompleteStep \/ (Asked("recover_step") /\ SkipStepTool(p, s))
  <2>1. stepStatus[p][s] \in {"running", "failed"}
    BY <1>6, TargetSays DEF FollowCompleteStep, Asked, AskedPhase, AskedStep
  <2>2. SetStep(p, s, "done") \/ SetStep(p, s, "skipped")
    BY <1>6 DEF FollowCompleteStep, CompleteStepTool, CompleteStep, SkipStepTool, SkipStep
  <2> QED
    BY <1>1, <2>1, <2>2, StepAdvances DEF StepToDo
<1>7. CASE FollowCompletePhase
  BY <1>1, <1>7, EndAdvances DEF FollowCompletePhase, CompletePhaseTool, CompletePhase
<1>8. CASE Asked("recover_phase") /\ SkipPhaseTool(p)
  <2>1. phaseStatus[p] = "failed"
    BY <1>8, TargetSays DEF Asked, AskedPhase
  <2> QED
    BY <1>1, <1>8, <2>1, EndAdvances DEF SkipPhaseTool, SkipPhase
<1>9. CASE FollowCompleteFerment
  BY <1>9
  DEF FollowCompleteFerment, CompleteFerment, CanCompleteFerment, FermentFinished, Advances
<1> QED
  BY <1>2, <1>3, <1>4, <1>5, <1>6, <1>7, <1>8, <1>9 DEF Follow, RecoverStep, RecoverPhase

\* The engine never sends the agent in a circle: whatever it asks for either
\* scopes the draft, refines a phase that has no step yet, finishes the ferment,
\* or brings a phase or a step nearer to its end and puts none back.
THEOREM WorkAdvances == AutopilotSpec => [][Follow => Advances]_autopilotVars
<1>1. AutopilotSpec => []IInv
  BY AutopilotRefines, Invariance, PTL
<1>2. IInv /\ [AutopilotNext]_autopilotVars => [Follow => Advances]_autopilotVars
  BY FollowAdvances
<1> QED
  BY <1>1, <1>2, PTL DEF AutopilotSpec

\* An agent under the engine refines only a phase without steps.
LEMMA StepsStay ==
  ASSUME IInv, AutopilotNext, status # "draft"
  PROVE  NoStepDeleted
<1>1. AskedPhase \in Phases /\ AskedStep \in Steps
  BY NextActionNames DEF AskedPhase, AskedStep
<1>2. ASSUME NEW p \in Phases, NEW s \in Steps, NEW st, st # Absent, SetStep(p, s, st)
      PROVE  NoStepDeleted
  BY <1>2 DEF NoStepDeleted, SetStep, HasStep, IInv, TypeOK
<1>3. ASSUME UNCHANGED stepStatus PROVE NoStepDeleted
  BY <1>3 DEF NoStepDeleted, HasStep
<1>4. CASE FollowScope
  BY <1>4 DEF FollowScope, ScopeTool, Scope, CanScope
<1>5. CASE FollowRefine
  <2>1. \A t \in Steps : ~HasStep(AskedPhase, t)
    BY <1>5, TargetSays DEF FollowRefine, Asked, AskedPhase
  <2>2. \A q \in Phases \ {AskedPhase} : stepStatus'[q] = stepStatus[q]
    BY <1>5, <1>1 DEF FollowRefine, RefineTool, RefinePhase, IInv, TypeOK
  <2> QED
    BY <2>1, <2>2 DEF NoStepDeleted, HasStep
<1>6. CASE \/ FollowStart \/ FollowCompleteStep \/ RecoverStep \/ StepGoesWrong
  BY <1>1, <1>2, <1>6
  DEF FollowStart, FollowCompleteStep, RecoverStep, StepGoesWrong, StartStepTool, StartStep,
      CompleteStepTool, CompleteStep, SkipStepTool, SkipStep, FailStep, Absent
<1>7. CASE \/ FollowActivate \/ FollowCompletePhase \/ FollowCompleteFerment \/ RecoverPhase
           \/ PhaseGivenUp \/ Resumed
  BY <1>3, <1>7
  DEF FollowActivate, FollowCompletePhase, FollowCompleteFerment, RecoverPhase, PhaseGivenUp,
      Resumed, ActivateTool, ActivatePhase, ActivatePhaseGroup, CompletePhaseTool,
      CompletePhase, SkipPhaseTool, SkipPhase, FailPhaseTool, FailPhase, EndPhase,
      CompleteFerment, Resume
<1>8. CASE Interrupted
  BY <1>8 DEF Interrupted, Pause, NoStepDeleted, HasStep, Absent
<1> QED
  BY <1>4, <1>5, <1>6, <1>7, <1>8 DEF AutopilotNext, Follow

\* A scoped plan loses ground only where a failure or an interruption is counted,
\* and never a step, so an agent that neither fails nor is interrupted finishes
\* the ferment after finitely many calls or stops calling.
THEOREM OnlyFailuresGoBack ==
  AutopilotSpec =>
    [][status # "draft" =>
         /\ NoStepDeleted
         /\ \/ PhaseRefined \/ NothingBack
            \/ failures' = failures + 1 \/ pauses' = pauses + 1]_autopilotVars
<1> DEFINE Loses == /\ NoStepDeleted
                    /\ \/ PhaseRefined \/ NothingBack
                       \/ failures' = failures + 1 \/ pauses' = pauses + 1
<1>1. AutopilotSpec => []IInv
  BY AutopilotRefines, Invariance, PTL
<1>2. ASSUME UNCHANGED <<phaseStatus, stepStatus>> PROVE NothingBack
  BY <1>2 DEF NothingBack, PhaseToDo, StepToDo
<1>3. IInv /\ [AutopilotNext]_autopilotVars => [status # "draft" => Loses]_autopilotVars
  <2> SUFFICES ASSUME IInv, AutopilotNext, status # "draft"
               PROVE  Loses
    OBVIOUS
  <2>1. CASE Follow
    BY <1>2, <2>1, FollowAdvances, StepsStay DEF Advances, FermentFinished
  <2>2. CASE StepGoesWrong \/ PhaseGivenUp \/ Interrupted
    BY <2>2, StepsStay DEF StepGoesWrong, PhaseGivenUp, Interrupted
  <2>3. CASE Resumed
    BY <1>2, <2>3, StepsStay DEF Resumed, Resume, SettleAfterPhaseTerminal
  <2> QED
    BY <2>1, <2>2, <2>3 DEF AutopilotNext
<1> QED
  BY <1>1, <1>3, PTL DEF AutopilotSpec

-----------------------------------------------------------------------------
(* The budgets.                                                             *)

\* Every counter stays within its limit.
WithinBudgets ==
  /\ textNudges \in 0..MaxReactiveNudges
  /\ stopNudges \in 0..MaxStopNudges
  /\ scopingNudges \in 0..MaxPlanningNudges
  /\ failures \in 0..MaxFailures /\ pauses \in 0..MaxPauses

\* The hook of a turn spends a nudge only while there is one left.
LEMMA SpendingKeeps ==
  ASSUME WithinBudgets, NEW kind \in TurnKinds, NEW requested, TurnEnd(kind, requested)
  PROVE  /\ textNudges' \in 0..MaxReactiveNudges
         /\ stopNudges' \in 0..MaxStopNudges
         /\ scopingNudges' \in 0..MaxPlanningNudges
<1>1. scopingNudges' \in 0..MaxPlanningNudges
  <2>1. ScopingNudge(kind) \/ NoScopingNudge(kind)
    BY DEF TurnEnd
  <2>2. CASE ScopingNudge(kind)
    BY <2>2 DEF ScopingNudge, WithinBudgets, MaxPlanningNudges
  <2>3. CASE NoScopingNudge(kind)
    BY <2>3 DEF NoScopingNudge, WithinBudgets, MaxPlanningNudges
  <2> QED
    BY <2>1, <2>2, <2>3
<1>2. SpentOnText(kind) \in {0, textNudges} /\ SpentOnStops(kind) \in {0, stopNudges}
  BY DEF SpentOnText, SpentOnStops
<1>3. CASE Spend(kind, 0, 0)
  BY <1>1, <1>2, <1>3 DEF Spend, WithinBudgets, MaxReactiveNudges, MaxStopNudges
<1>4. CASE Spend(kind, 1, 0) /\ textNudges < MaxReactiveNudges
  BY <1>1, <1>2, <1>4 DEF Spend, WithinBudgets, MaxReactiveNudges, MaxStopNudges
<1>5. CASE Spend(kind, 0, 1) /\ stopNudges < MaxStopNudges
  BY <1>1, <1>2, <1>5 DEF Spend, WithinBudgets, MaxReactiveNudges, MaxStopNudges
<1>6. ASSUME kind = "text", ReactiveNudge(requested)
      PROVE  Spend(kind, 0, 0) \/ (Spend(kind, 1, 0) /\ textNudges < MaxReactiveNudges)
  BY <1>6 DEF ReactiveNudge
<1>7. ASSUME kind = "stop", StopNudge(requested)
      PROVE  Spend(kind, 0, 0) \/ (Spend(kind, 0, 1) /\ stopNudges < MaxStopNudges)
  BY <1>7 DEF StopNudge
<1>8. \/ Spend(kind, 0, 0)
      \/ kind = "text" /\ ReactiveNudge(requested)
      \/ kind = "stop" /\ StopNudge(requested)
  BY DEF TurnEnd, Returns, NoNudge
<1> QED
  BY <1>1, <1>3, <1>4, <1>5, <1>6, <1>7, <1>8

\* No session nudges an agent that does not react more often than its limits say,
\* whatever turns, compactions and restarts come between the nudges.
THEOREM NudgesAreBounded == TurnsSpec => []WithinBudgets
<1>1. TurnsInit => WithinBudgets
  BY FailuresAssumption
  DEF TurnsInit, AutopilotInit, WithinBudgets, MaxReactiveNudges, MaxStopNudges,
      MaxPlanningNudges
<1>2. WithinBudgets /\ [TurnsNext]_turnsVars => WithinBudgets'
  <2> SUFFICES ASSUME WithinBudgets, [TurnsNext]_turnsVars PROVE WithinBudgets'
    OBVIOUS
  <2>1. failures' \in 0..MaxFailures /\ pauses' \in 0..MaxPauses
    <3>1. \/ UNCHANGED <<failures, pauses>>
          \/ failures < MaxFailures /\ failures' = failures + 1 /\ pauses' = pauses
          \/ pauses < MaxPauses /\ pauses' = pauses + 1 /\ failures' = failures
      BY TurnsAreAutopilot
      DEF AutopilotNext, autopilotVars, Follow, StepGoesWrong, PhaseGivenUp, Interrupted,
          Resumed
    <3> QED
      BY <3>1, FailuresAssumption DEF WithinBudgets
  <2>2. CASE \E kind \in TurnKinds : \E requested : TurnEnd(kind, requested)
    BY <2>1, <2>2, SpendingKeeps DEF WithinBudgets
  <2>3. CASE UNCHANGED budgets \/ RestoreBudgets
    BY <2>1, <2>3
    DEF budgets, RestoreBudgets, WithinBudgets, MaxReactiveNudges, MaxStopNudges,
        MaxPlanningNudges
  <2>4. \/ \E kind \in TurnKinds : \E requested : TurnEnd(kind, requested)
        \/ UNCHANGED budgets \/ RestoreBudgets
    BY DEF TurnsNext, turnsVars, Turn, FermentIsOver, AgentEnd, CompactionEnds, Wake,
           UserSpeaks, SessionCloses, SessionStarts, budgets
  <2> QED
    BY <2>2, <2>3, <2>4
<1> QED
  BY <1>1, <1>2, PTL DEF TurnsSpec
=============================================================================
