------------------------------ MODULE AcpServer ------------------------------
(***************************************************************************)
(* The sessions that an editor drives over the Agent Client Protocol:       *)
(* opening, prompting, cancelling and closing them, the shutdown of the     *)
(* server, and the events of the agent that answer the prompts.             *)
(* modes/acp/server.ts (VarthAcpAgent), permission-prompter-registry.ts.    *)
(*                                                                          *)
(* One action is one turn of the event loop: a request up to its first      *)
(* await, what follows an await, one event of the agent.  The agent session *)
(* is pi's and outside the repository; what it does is taken from the       *)
(* comments of prompt() and the fakes of server.test.ts: session.prompt     *)
(* either does not run the agent at all, or agent_start comes before it     *)
(* settles and agent_end before or after; it may reject at any time.  Its   *)
(* promise and its run may go on after the answer, into the next prompt.    *)
(*                                                                          *)
(* Left out: what events and transcripts say, models, modes and their       *)
(* values; requests that are refused or change nothing (an unknown session, *)
(* a second prompt, loading a session that is open or being opened).        *)
(***************************************************************************)
EXTENDS Integers

CONSTANTS
  Sessions,   \* session ids
  MaxOpens,   \* bound of the model: times a session id is opened
  MaxPrompts  \* bound of the model: prompts to a session id

ASSUME BoundsAssumption == MaxOpens \in Nat /\ MaxPrompts \in Nat

Opens == 1..MaxOpens        \* the AgentSessions opened for an id, in their order
Prompts == 1..MaxPrompts
None == 0

VARIABLES
  entry,     \* sessions: the AgentSession the map holds for an id
  prompter,  \* whose permission prompter and mode controller are registered
  stage,     \* of an AgentSession
  turn,      \* the prompt of entry.turn
  cancelled, \* turn.cancelled
  active,    \* turn.turnActive
  asked,     \* the AgentSession that a prompt went to
  promise,   \* of session.prompt, for each prompt
  agent,     \* the agent's run for a prompt
  answer,    \* to each prompt
  shut       \* doShutdown

turnVars == <<turn, cancelled, active, answer>>
runVars == <<asked, promise, agent>>
vars == <<entry, prompter, stage, turnVars, runVars, shut>>

Stages == {"none", "loading", "binding", "open", "closing", "ending", "disposed"}
Answers == {"none", "open", "end_turn", "cancelled", "error"}

Each(x) == [s \in Sessions |-> [i \in Opens |-> x]]
EachPrompt(x) == [s \in Sessions |-> [k \in Prompts |-> x]]

Init ==
  /\ entry = [s \in Sessions |-> None] /\ prompter = [s \in Sessions |-> None]
  /\ stage = Each("none")
  /\ turn = Each(None) /\ cancelled = Each(FALSE) /\ active = Each(FALSE)
  /\ asked = EachPrompt(None) /\ promise = EachPrompt("none") /\ agent = EachPrompt("none")
  /\ answer = EachPrompt("none")
  /\ shut = "no"

Becomes(s, i, st) == stage' = [stage EXCEPT ![s][i] = st]

\* finalizeTurn and failTurn: the turn of the session, if any, is answered.
Answered(s, i, a) ==
  IF turn[s][i] = None THEN UNCHANGED turnVars
  ELSE /\ answer' = [answer EXCEPT ![s][turn[s][i]] = a]
       /\ turn' = [turn EXCEPT ![s][i] = None]
       /\ cancelled' = [cancelled EXCEPT ![s][i] = FALSE]
       /\ active' = [active EXCEPT ![s][i] = FALSE]

-----------------------------------------------------------------------------
(* Opening a session *)

\* Mutant of Open: loads under way are not shared.
OpenAgain(s, i) ==
  /\ shut # "over" /\ entry[s] = None
  /\ stage[s][i] = "none" /\ \A j \in 1..(i - 1) : stage[s][j] # "none"
  /\ Becomes(s, i, "loading")
  /\ UNCHANGED <<entry, prompter, turnVars, runVars, shut>>

\* newSession or loadSession; a load of a session that is being opened shares it.
Open(s, i) ==
  /\ shut # "over" /\ entry[s] = None
  /\ stage[s][i] = "none" /\ \A j \in 1..(i - 1) : stage[s][j] # "none"
  /\ \A j \in Opens : stage[s][j] \notin {"loading", "binding"}
  /\ Becomes(s, i, "loading")
  /\ UNCHANGED <<entry, prompter, turnVars, runVars, shut>>

\* The AgentSession is there: prompter and controller are registered before the
\* extensions are bound.  Or it cannot be opened, or not used.
Loaded(s, i) ==
  /\ stage[s][i] = "loading"
  /\ \/ Becomes(s, i, "binding") /\ prompter' = [prompter EXCEPT ![s] = i]
     \/ Becomes(s, i, "disposed") /\ UNCHANGED prompter
  /\ UNCHANGED <<entry, turnVars, runVars, shut>>

Bound(s, i) ==
  /\ stage[s][i] = "binding"
  /\ \/ /\ Becomes(s, i, "open") /\ entry' = [entry EXCEPT ![s] = i]
        /\ UNCHANGED prompter
     \/ /\ Becomes(s, i, "disposed") /\ prompter' = [prompter EXCEPT ![s] = None]
        /\ UNCHANGED entry
  /\ UNCHANGED <<turnVars, runVars, shut>>

-----------------------------------------------------------------------------
(* A turn *)

\* The promise and the run of an answered prompt may not be over yet.
Prompt(s, i, k) ==
  /\ shut # "over" /\ entry[s] = i /\ turn[s][i] = None
  /\ asked[s][k] = None /\ \A j \in 1..(k - 1) : asked[s][j] # None
  /\ turn' = [turn EXCEPT ![s][i] = k]
  /\ asked' = [asked EXCEPT ![s][k] = i]
  /\ answer' = [answer EXCEPT ![s][k] = "open"]
  /\ promise' = [promise EXCEPT ![s][k] = "pending"]
  /\ UNCHANGED <<entry, prompter, stage, cancelled, active, agent, shut>>

\* Mutant of Subscribed: the events of a session are heard until it is disposed of.
SubscribedUntilDisposed(s, i) == stage[s][i] \in {"open", "closing", "ending"}

\* The server hears the events of sessions it has not begun to close; the event
\* is one for the session that the map holds for the id.
Subscribed(s, i) == stage[s][i] = "open"
Hears(s, i) == Subscribed(s, i) /\ entry[s] # None

\* The turn of the session is marked as active.
Marked(s, i) ==
  active' = IF Hears(s, i) /\ turn[s][entry[s]] # None
            THEN [active EXCEPT ![s][entry[s]] = TRUE] ELSE active

\* Mutant of AgentStarts: the event does not mark the turn as active.
AgentStartsUnmarked(s, i, k) ==
  /\ asked[s][k] = i /\ promise[s][k] = "pending" /\ agent[s][k] = "none"
  /\ \A j \in Prompts : asked[s][j] = i => agent[s][j] # "started"
  /\ agent' = [agent EXCEPT ![s][k] = "started"]
  /\ UNCHANGED <<entry, prompter, stage, turnVars, asked, promise, shut>>

AgentStarts(s, i, k) ==
  /\ asked[s][k] = i /\ promise[s][k] = "pending" /\ agent[s][k] = "none"
  /\ \A j \in Prompts : asked[s][j] = i => agent[s][j] # "started"
  /\ agent' = [agent EXCEPT ![s][k] = "started"]
  /\ Marked(s, i)
  /\ UNCHANGED <<entry, prompter, stage, turn, cancelled, answer, asked, promise, shut>>

\* Messages and tools of a run: also of one that an earlier prompt started.
AgentWorks(s, i, k) ==
  /\ asked[s][k] = i /\ agent[s][k] = "started"
  /\ Marked(s, i)
  /\ UNCHANGED <<entry, prompter, stage, turn, cancelled, answer, runVars, shut>>

AgentEnds(s, i, k) ==
  /\ asked[s][k] = i /\ agent[s][k] = "started"
  /\ agent' = [agent EXCEPT ![s][k] = "ended"]
  /\ IF Hears(s, i)
     THEN Answered(s, entry[s], IF cancelled[s][entry[s]] THEN "cancelled" ELSE "end_turn")
     ELSE UNCHANGED turnVars
  /\ UNCHANGED <<entry, prompter, stage, asked, promise, shut>>

\* Without an event before it the prompt never got to the agent.
PromptResolves(s, i, k) ==
  /\ asked[s][k] = i /\ promise[s][k] = "pending"
  /\ promise' = [promise EXCEPT ![s][k] = "settled"]
  /\ IF active[s][i] THEN UNCHANGED turnVars ELSE Answered(s, i, "end_turn")
  /\ UNCHANGED <<entry, prompter, stage, asked, agent, shut>>

\* agent_end may never come then.
PromptRejects(s, i, k) ==
  /\ asked[s][k] = i /\ promise[s][k] = "pending"
  /\ promise' = [promise EXCEPT ![s][k] = "settled"]
  /\ \/ agent' = [agent EXCEPT ![s][k] = IF @ = "started" THEN "ended" ELSE @]
     \/ UNCHANGED agent
  /\ Answered(s, i, IF cancelled[s][i] THEN "cancelled" ELSE "error")
  /\ UNCHANGED <<entry, prompter, stage, asked, shut>>

Cancel(s, i) ==
  /\ shut # "over" /\ entry[s] = i /\ turn[s][i] # None /\ ~cancelled[s][i]
  /\ cancelled' = [cancelled EXCEPT ![s][i] = TRUE]
  /\ UNCHANGED <<entry, prompter, stage, turn, active, answer, runVars, shut>>

-----------------------------------------------------------------------------
(* Closing sessions *)

\* Mutant of Close: the prompter is unregistered after the await.
CloseRegistered(s, i) ==
  /\ shut # "over" /\ entry[s] = i
  /\ entry' = [entry EXCEPT ![s] = None] /\ UNCHANGED prompter
  /\ IF turn[s][i] # None
     THEN cancelled' = [cancelled EXCEPT ![s][i] = TRUE] /\ Becomes(s, i, "closing")
     ELSE UNCHANGED cancelled /\ Becomes(s, i, "ending")
  /\ UNCHANGED <<turn, active, answer, runVars, shut>>

\* The session leaves the map, the registries and its events at once; with a
\* turn it waits for the abort.
Close(s, i) ==
  /\ shut # "over" /\ entry[s] = i
  /\ entry' = [entry EXCEPT ![s] = None] /\ prompter' = [prompter EXCEPT ![s] = None]
  /\ IF turn[s][i] # None
     THEN cancelled' = [cancelled EXCEPT ![s][i] = TRUE] /\ Becomes(s, i, "closing")
     ELSE UNCHANGED cancelled /\ Becomes(s, i, "ending")
  /\ UNCHANGED <<turn, active, answer, runVars, shut>>

\* Mutant of Aborted: the turn is left to the events of the agent.
AbortedUnanswered(s, i) ==
  /\ stage[s][i] = "closing"
  /\ Becomes(s, i, "ending")
  /\ UNCHANGED <<entry, prompter, turnVars, runVars, shut>>

Aborted(s, i) ==
  /\ stage[s][i] = "closing"
  /\ Answered(s, i, "cancelled")
  /\ Becomes(s, i, "ending")
  /\ UNCHANGED <<entry, prompter, runVars, shut>>

\* The handlers of session_shutdown have run.
Disposed(s, i) ==
  /\ stage[s][i] = "ending"
  /\ Becomes(s, i, "disposed")
  /\ UNCHANGED <<entry, prompter, turnVars, runVars, shut>>

Shutdown ==
  /\ shut = "no" /\ shut' = "draining"
  /\ UNCHANGED <<entry, prompter, stage, turnVars, runVars>>

\* Session by session: those that come into the map meanwhile have their turn.
Drained == \A s \in Sessions : entry[s] # None => stage[s][entry[s]] # "ending"

Drain(s, i) ==
  /\ shut = "draining" /\ Drained
  /\ entry[s] = i /\ stage[s][i] = "open"
  /\ Answered(s, i, "error")
  /\ prompter' = [prompter EXCEPT ![s] = None]
  /\ Becomes(s, i, "ending")
  /\ UNCHANGED <<entry, runVars, shut>>

DrainEnds ==
  /\ shut = "draining"
  /\ \A s \in Sessions : entry[s] # None => stage[s][entry[s]] = "disposed"
  /\ entry' = [s \in Sessions |-> None]
  /\ shut' = "over"
  /\ UNCHANGED <<prompter, stage, turnVars, runVars>>

-----------------------------------------------------------------------------
RunEnds(s, i) ==
  \E k \in Prompts : AgentEnds(s, i, k) \/ PromptResolves(s, i, k) \/ PromptRejects(s, i, k)

Next ==
  \/ \E s \in Sessions, i \in Opens :
       \/ Open(s, i) \/ Loaded(s, i) \/ Bound(s, i)
       \/ \E k \in Prompts : Prompt(s, i, k) \/ AgentStarts(s, i, k) \/ AgentWorks(s, i, k)
       \/ RunEnds(s, i)
       \/ Cancel(s, i) \/ Close(s, i) \/ Aborted(s, i) \/ Disposed(s, i) \/ Drain(s, i)
  \/ Shutdown \/ DrainEnds

\* What abort() was asked to end ends, and so do the handlers of session_shutdown.
Fairness ==
  \A s \in Sessions, i \in Opens :
    /\ WF_vars(cancelled[s][i] /\ RunEnds(s, i)) /\ WF_vars(Aborted(s, i))
    /\ WF_vars(Disposed(s, i)) /\ WF_vars(Drain(s, i))

Spec == Init /\ [][Next]_vars /\ Fairness

-----------------------------------------------------------------------------
(* Properties *)

AcpTypeOK ==
  /\ entry \in [Sessions -> Opens \cup {None}] /\ prompter \in [Sessions -> Opens \cup {None}]
  /\ stage \in [Sessions -> [Opens -> Stages]]
  /\ turn \in [Sessions -> [Opens -> Prompts \cup {None}]]
  /\ cancelled \in [Sessions -> [Opens -> BOOLEAN]] /\ active \in [Sessions -> [Opens -> BOOLEAN]]
  /\ asked \in [Sessions -> [Prompts -> Opens \cup {None}]]
  /\ promise \in [Sessions -> [Prompts -> {"none", "pending", "settled"}]]
  /\ agent \in [Sessions -> [Prompts -> {"none", "started", "ended"}]]
  /\ answer \in [Sessions -> [Prompts -> Answers]]
  /\ shut \in {"no", "draining", "over"}

\* An open AgentSession is the one the map holds for its id, where prompts,
\* closing and shutdown find it: no order of loads, closes and shutdown opens
\* two of one transcript and loses one (loadingSessions).
NoSessionLost ==
  \A s \in Sessions, i \in Opens : stage[s][i] = "open" => entry[s] = i

\* The permission requests of an open session go to its own prompter, and no
\* prompter outlives its session, also when the id is loaded again while the
\* close of the last session awaits the abort (the registries are keyed by id).
PrompterFollowsSession ==
  \A s \in Sessions :
    /\ entry[s] # None /\ stage[s][entry[s]] = "open" => prompter[s] = entry[s]
    /\ prompter[s] # None => stage[s][prompter[s]] \in {"binding", "open"}

\* The promise of a prompt settles, or its run ends.
Over(s, j) ==
  \/ promise[s][j] = "pending" /\ promise'[s][j] = "settled"
  \/ agent[s][j] = "started" /\ agent'[s][j] = "ended"

\* A prompt to an open session whose run has started is answered end_turn when
\* that run ends and by nothing else: not by its own promise, by what outlasted
\* an earlier prompt, or by a closed session of the id (turnActive, and the
\* clean-up of closeSessionRecord).  Before its run has started only its own
\* promise does it, or what outlasted an answered prompt of the same session,
\* which the server takes for its own.
EndsWithItsRun ==
  [][\A s \in Sessions, i \in Opens, k \in Prompts :
       asked[s][k] = i /\ stage[s][i] = "open" /\ answer[s][k] = "open" /\ answer'[s][k] = "end_turn" =>
         \/ agent[s][k] = "started" /\ agent'[s][k] = "ended"
         \/ /\ agent[s][k] = "none"
            /\ \E j \in Prompts :
                 asked[s][j] = i /\ (j = k \/ answer[s][j] # "open") /\ Over(s, j)]_vars

\* A prompt whose turn is cancelled is answered, also when its session is closed
\* and no longer heard, and so is one that the shutdown finds.
CancelledIsAnswered ==
  \A s \in Sessions, i \in Opens, k \in Prompts :
    /\ turn[s][i] = k /\ cancelled[s][i] ~> answer[s][k] # "open"
    /\ turn[s][i] = k /\ shut = "draining" /\ stage[s][i] = "open" ~> answer[s][k] # "open"
=============================================================================
