----------------------------- MODULE FermentEvents -----------------------------
(***************************************************************************)
(* The second account of what a command does.  applyCommand computes the   *)
(* ferment after a command, which goes to the snapshot; commandToEvents    *)
(* (src/ferment/event-mapper.ts) names the events of the command, which go *)
(* to the log; and what the next command starts from is the fold of the    *)
(* log (applyFermentEvent, src/ferment/event-store.ts), not the snapshot.  *)
(* Should the fold of a command's events differ from the ferment that      *)
(* applyCommand computed, the program silently goes on from another state. *)
(*                                                                         *)
(* A ferment is a record here, the events are operators on it, and the     *)
(* commands are those of FermentStateMachine.  Events that only write what *)
(* FermentStateMachine leaves out are left out too, and so is scope, whose *)
(* scoping_phases_set carries the very phases of the snapshot.             *)
(***************************************************************************)
EXTENDS FermentStateMachine

Ferment ==
  [status |-> status, activePhase |-> activePhase, phaseStatus |-> phaseStatus,
   phaseGroup |-> phaseGroup, stepStatus |-> stepStatus, stepGroup |-> stepGroup]

-----------------------------------------------------------------------------
(* applyFermentEvent, event by event.                                       *)

\* settleAfterPhaseTerminal and settleAfterResume
Settled(f, ps) ==
  LET active == ActiveIn(ps) IN
  IF active = {}
  THEN [f EXCEPT !.phaseStatus = ps, !.status = "planned", !.activePhase = NoPhase]
  ELSE [f EXCEPT !.phaseStatus = ps, !.status = "running",
                 !.activePhase = CHOOSE p \in active : IsFirst(p, active)]

FoldRunning(f) == [f EXCEPT !.status = "running"]

FoldPhaseActivated(f, p) ==
  [f EXCEPT !.phaseStatus = [q \in Phases |->
                               IF q = p THEN "active"
                               ELSE IF f.phaseStatus[q] = "active" THEN "planned"
                               ELSE f.phaseStatus[q]],
            !.activePhase = p]

\* Mutant of FoldGroupActivated: every listed phase is activated in turn, as N
\* phase_activated events would do it.
FoldActivatedInTurn(f, ids) ==
  LET last == CHOOSE p \in ids : \A q \in ids : q <= p
  IN FoldPhaseActivated([f EXCEPT !.phaseStatus = [q \in Phases |->
       IF q \in ids THEN "active" ELSE f.phaseStatus[q]]], last)

FoldGroupActivated(f, ids) ==
  [f EXCEPT !.phaseStatus = [q \in Phases |->
                               IF q \in ids THEN "active"
                               ELSE IF f.phaseStatus[q] = "active" THEN "planned"
                               ELSE f.phaseStatus[q]],
            !.activePhase = CHOOSE p \in ids : IsFirst(p, ids)]

\* phase_completed, phase_skipped, phase_failed
FoldPhaseEnded(f, p, st) == Settled(f, [f.phaseStatus EXCEPT ![p] = st])

FoldPhaseRefined(f, p, post) ==
  [f EXCEPT !.stepStatus[p] = post.stepStatus[p], !.stepGroup[p] = post.stepGroup[p]]

\* step_started, step_completed, step_skipped, step_failed, step_verified
FoldStep(f, p, s, st) == [f EXCEPT !.stepStatus[p][s] = st]

\* Mutant of FoldPaused: the steps are left as they are.
FoldPausedStatusOnly(f) == [f EXCEPT !.status = "paused"]

FoldPaused(f) ==
  [f EXCEPT !.status = "paused",
            !.stepStatus = [p \in Phases |-> [s \in Steps |->
              IF f.stepStatus[p][s] = "running" THEN "pending" ELSE f.stepStatus[p][s]]]]

FoldResumed(f) == Settled(f, f.phaseStatus)
FoldEnded(f, st) == [f EXCEPT !.status = st]   \* ferment_completed, ferment_abandoned

-----------------------------------------------------------------------------
(* commandToEvents: what each command appends, folded onto the ferment before *)
(* it.  ferment_running precedes an activation that changes the status.       *)

Woken(f) == IF f.status # "running" THEN FoldRunning(f) ELSE f

\* The members of the group that the command made active.
JustActivated(g, post) ==
  {p \in Phases : /\ phaseGroup[p] = g
                  /\ phaseStatus[p] = "planned"
                  /\ post.phaseStatus[p] = "active"}

\* Every step of the ferment is the fold of the events of the command it is.
\* The agent's tool activates a group only while no phase is active, and no
\* caller passes complete_step a verification result: those are the two cases
\* in which the events fold to something else than the command computed.
EventsFoldToFerment ==
  [][/\ \A p \in Phases :
          /\ ActivatePhase(p) => Ferment' = FoldPhaseActivated(Woken(Ferment), p)
          /\ RefinePhase(p) => Ferment' = FoldPhaseRefined(Ferment, p, Ferment')
          /\ CompletePhase(p) => Ferment' = FoldPhaseEnded(Ferment, p, "completed")
          /\ SkipPhase(p) => Ferment' = FoldPhaseEnded(Ferment, p, "skipped")
          /\ FailPhase(p) => Ferment' = FoldPhaseEnded(Ferment, p, "failed")
     /\ \A g \in Groups :
          ActiveIn(phaseStatus) = {} /\ ActivatePhaseGroup(g) =>
            Ferment' = FoldGroupActivated(Woken(Ferment), JustActivated(g, Ferment'))
     /\ \A p \in Phases, s \in Steps :
          /\ StartStep(p, s) => Ferment' = FoldStep(Ferment, p, s, "running")
          /\ CompleteStep(p, s, FALSE) => Ferment' = FoldStep(Ferment, p, s, "done")
          /\ VerifyStep(p, s, TRUE) => Ferment' = FoldStep(Ferment, p, s, "verified")
          /\ VerifyStep(p, s, FALSE) => Ferment' = FoldStep(Ferment, p, s, "done")
          /\ SkipStep(p, s) => Ferment' = FoldStep(Ferment, p, s, "skipped")
          /\ FailStep(p, s) => Ferment' = FoldStep(Ferment, p, s, "failed")
     /\ CompleteFerment => Ferment' = FoldEnded(Ferment, "complete")
     /\ Pause => Ferment' = FoldPaused(Ferment)
     /\ Resume => Ferment' = FoldResumed(Ferment)
     /\ Abandon => Ferment' = FoldEnded(Ferment, "abandoned")]_vars
=============================================================================
