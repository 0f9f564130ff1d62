---------------------------- MODULE FermentScoping ----------------------------
(***************************************************************************)
(* How a draft gets its plan: the agent proposes one, the user reviews it   *)
(* and the host applies it, around everything else a session does.          *)
(* extensions/ferment/tools/lifecycle.ts, index.ts, events.ts, commands.ts, *)
(* scoping.ts, scoping-confirmation.ts, plan-review.ts, state.ts.           *)
(*                                                                          *)
(* The pending scope and the pending review are entries of two maps that    *)
(* are written and deleted on different paths.  A review is an object: a    *)
(* later proposal makes another one, and the dialog compares the two when   *)
(* the user answers.  What Start applies is the pending scope of that       *)
(* moment, not the text in the dialog.                                      *)
(*                                                                          *)
(* The host has a UI with custom dialogs (without one a proposal is applied *)
(* as ScopeTool is).  An empty buffer, seeded before the first proposal,    *)
(* counts as no pending scope: it has no phases, so it is refused likewise. *)
(* Reviews are followed while the ferment is a draft.  One that outlives it *)
(* is shown again, and its Start refused for want of a pending scope.       *)
(***************************************************************************)
EXTENDS FermentSession

CONSTANTS
  Plans,       \* names for the plans that are proposed
  NoPlan,      \* no entry in the map, no dialog
  MaxRounds    \* proposals after which questions are refused

\* Of three plans in use none is the next one.
ASSUME PlansAssumption ==
  /\ NoPlan \notin Plans /\ Plans # {}
  /\ \A a, b, c \in Plans : \E p \in Plans : p \notin {a, b, c}
ASSUME RoundsAssumption == MaxRounds \in Nat

VARIABLES
  gate,      \* scopingInteractive: scope_ferment has to wait for the user
  pending,   \* the plan of pendingScopes
  questions, \* it came with questions: its phases are provisional
  rounds,    \* proposeIterations of the pending scope
  review,    \* the plan of pendingPlanReviews
  dialog     \* the review the user looks at (planReviewRunning)

scopingVars == <<gate, pending, questions, rounds, review, dialog>>
allVars == <<sessionVars, scopingVars>>

NoScope == pending' = NoPlan /\ questions' = FALSE /\ rounds' = 0

\* clearFermentState, and leaving ferment mode.
Forget == gate' = FALSE /\ review' = NoPlan /\ NoScope

Idle == \A c \in Slots : Free(c)

\* A draft that gets its plan, or ends, takes its entries with it.  (After
\* scope_ferment and SaveAfterQuestion the code keeps the review, which changes
\* nothing any more: see above.)
LeavesDraft == status = "draft" /\ status' # "draft"
MapsFollow ==
  /\ IF LeavesDraft THEN Forget
     ELSE UNCHANGED <<gate, pending, questions, rounds, review>>
  /\ UNCHANGED dialog

-----------------------------------------------------------------------------
(* The agent.                                                               *)

NewPlan == CHOOSE p \in Plans : p \notin {pending, review, dialog}

\* propose_ferment_scoping replaces the pending scope.  With questions the user
\* is asked (the answers reach the agent as a message), without them a review
\* is left for the end of the run.
Propose(asks) ==
  /\ \E c \in Slots : Free(c)
  /\ status = "draft"
  /\ asks => rounds < MaxRounds
  /\ pending' = NewPlan /\ questions' = asks
  /\ rounds' = IF rounds < MaxRounds THEN rounds + 1 ELSE rounds
  /\ review' = IF asks THEN review ELSE NewPlan
  /\ UNCHANGED <<sessionVars, gate, dialog>>

\* The other tools.  scope_ferment is refused while the gate is on and discards
\* what is pending; complete_ferment clears the state of the ferment.
ToolCall(c) ==
  /\ Call(c) \/ Continue(c)
  /\ gate => ~(status = "draft" /\ status' = "planned")
  /\ MapsFollow

-----------------------------------------------------------------------------
(* The host and the user.                                                   *)

\* confirmPendingScope
ScopePending ==
  /\ pending # NoPlan
  /\ Scope /\ phaseStatus'[1] # Absent
  /\ Forget
  /\ UNCHANGED <<calls, choice>>

\* agent_end, and the timer it sets: the review is shown unless another one is
\* still open or it was replaced before the timer fired.
ShowReview ==
  /\ Idle /\ dialog = NoPlan /\ review # NoPlan
  /\ dialog' = review
  /\ UNCHANGED <<sessionVars, gate, pending, questions, rounds, review>>

\* Mutant of StartPlan: the answer is taken for the review of the moment.
StartLatestPlan ==
  /\ dialog # NoPlan
  /\ ScopePending
  /\ dialog' = NoPlan

\* "Start execution", in auto mode or not.  A review that is not the current
\* one any more is dropped, whatever the user said (CloseReview).
StartPlan ==
  /\ dialog # NoPlan /\ dialog = review
  /\ ScopePending
  /\ dialog' = NoPlan

\* Cancelled, feedback for the agent, or a start that comes too late.  The
\* review stays, and is shown again after the next run.
CloseReview ==
  /\ dialog # NoPlan /\ dialog' = NoPlan
  /\ UNCHANGED <<sessionVars, gate, pending, questions, rounds, review>>

\* The agent ended a turn with a question in its text instead and the user
\* said yes to it and to the phases.
SaveAfterQuestion == Idle /\ ScopePending /\ UNCHANGED dialog

\* /ferment pause, resume and abandon, which clears the state of the ferment.
UserActs ==
  /\ dialog = NoPlan
  /\ SlashCommand \/ OpenOverlay \/ ChooseInOverlay
  /\ MapsFollow

\* Mutant of ExitMode: only the pending scope is dropped.
ExitKeepingReview ==
  /\ dialog = NoPlan /\ ~UserBusy
  /\ \/ Pause
     \/ status \notin {"running", "planned"} /\ UNCHANGED vars
  /\ gate' = FALSE /\ NoScope
  /\ UNCHANGED <<calls, choice, review, dialog>>

\* /ferment exit, from a draft too, which it leaves as it is.
ExitMode ==
  /\ dialog = NoPlan /\ ~UserBusy
  /\ \/ Pause
     \/ status \notin {"running", "planned"} /\ UNCHANGED vars
  /\ Forget
  /\ UNCHANGED <<calls, choice, dialog>>

\* /ferment switch to another ferment forgets the review but not what is
\* pending; coming back to a draft turns the gate on.
SwitchAway ==
  /\ dialog = NoPlan /\ ~UserBusy
  /\ review' = NoPlan
  /\ UNCHANGED <<sessionVars, gate, pending, questions, rounds, dialog>>

ReturnToDraft ==
  /\ dialog = NoPlan /\ ~UserBusy
  /\ status = "draft" /\ gate' = TRUE
  /\ UNCHANGED <<sessionVars, pending, questions, rounds, review, dialog>>

\* A new session knows nothing of the old one's maps.
Restart ==
  /\ \/ SessionEnds
     \/ /\ calls' = [c \in Slots |-> NoCall] /\ choice' = NoCall
        /\ UNCHANGED vars
  /\ Forget /\ dialog' = NoPlan

-----------------------------------------------------------------------------
\* Made by /ferment new or by the first proposal (gate on), in a one-shot
\* session or left by plan mode (gate off).
ScopingInit ==
  /\ SessionInit
  /\ gate \in BOOLEAN
  /\ pending = NoPlan /\ questions = FALSE /\ rounds = 0
  /\ review = NoPlan /\ dialog = NoPlan

ScopingNext ==
  \/ \E c \in Slots : ToolCall(c)
  \/ \E asks \in BOOLEAN : Propose(asks)
  \/ ShowReview \/ StartPlan \/ CloseReview \/ SaveAfterQuestion
  \/ UserActs \/ ExitMode \/ SwitchAway \/ ReturnToDraft \/ Restart
  \/ SweptByOtherSession /\ UNCHANGED scopingVars

ScopingSpec == ScopingInit /\ [][ScopingNext]_allVars

-----------------------------------------------------------------------------
\* While the ferment is a draft, a review on offer is a review of the pending
\* scope, unless the agent has proposed again with questions since.  Review and
\* scope are forgotten on different paths (pause, switch, exit, abandon,
\* restart, a tool, a question): a review that outlived its scope could only
\* answer "no pending scope" to the user's Start.
ReviewHasPlan ==
  review # NoPlan /\ status = "draft" =>
    /\ pending # NoPlan
    /\ pending = review \/ questions

\* The plan that Start applies is the one the user was looking at, although the
\* agent may be woken and propose while the dialog is open; unless the last
\* proposal came with questions, whose provisional phases replace the pending
\* scope but not the review.
StartedPlanWasShown ==
  [][LeavesDraft /\ status' = "planned" /\ dialog # NoPlan /\ dialog' = NoPlan =>
       dialog = pending \/ questions]_allVars
=============================================================================
