# A TLA+ model of Varth

Varth is a terminal coding agent. Its core is the *ferment*: a long plan of
phases and steps that an agent works through, over many sessions, with the user
pausing, editing and resuming it. This directory holds a model of that core and
of the concurrent parts around it in TLA+, the instances TLC checks, and proofs
checked by TLAPS. Paths are relative to the repository's `src/` directory unless
they begin with `docs/`.

Contents: 1 inventory, 2 modules and how they map to the code, 3 runs and their
bounds, 4 fairness and other assumptions, 5 proofs, 6 observed while modelling,
7 not modelled, 8 plan.

## 1. Inventory

| component | state | operations | who touches it |
|---|---|---|---|
| Ferment state machine (`ferment/state-machine.ts`, `lifecycle.ts`) | status, activePhaseId, status and group of every phase and step | 15 lifecycle commands, each a pure function of the ferment | everything below, through `applyCommand` |
| Transition table and engine (`ferment/fsm.ts`, `engine.ts`, `extensions/ferment/fsm-adapter.ts`) | none; a status computed from the ferment | guard of each tool; "what comes next" | tools, prompts, nudges |
| Ferment events (`ferment/event-mapper.ts`, `event-store.ts`) | none | events of a command, fold of events | the bridge, the store |
| Event store (`ferment/event-store.ts`, `store.ts`) | `<id>.json`, `<id>.events.jsonl`, lock file, cache of each process | create, mutate under the lock, get, delete | every session on the machine |
| Ferment tools and session (`extensions/ferment/tools/*`, `commands.ts`, `progress-overlay.ts`, `events.ts`) | tool calls in flight, dialogs, overlay | one tool per transition; slash commands; session hooks | agent, user, other sessions |
| Ferment autopilot (`scheduler.ts`, `continuation.ts`, `nudge.ts`, `auto-compaction.ts`, `resume.ts`, the hooks in `events.ts` and `index.ts` of `extensions/ferment`) | counts of nudges, a flag of the run, pending compactions and those in flight | tell the agent the next action, after a turn, a run, a compaction, a start | engine, session, harness |
| Planning UI (`scoping.ts`, `scoping-confirmation.ts`, `plan-review.ts`, `state.ts` of `extensions/ferment`, and parts of `tools/lifecycle.ts`, `index.ts`, `events.ts`, `commands.ts`) | the scoping gate, pending scopes and pending reviews by ferment, the open dialog | propose, show, start, give feedback, forget | agent, user, session hooks |
| Agent manager (`extensions/agents/manager/*`, `agents/index.ts`, `resume-tool.ts`) | records, queue, slots, batches, groups, timers | spawn, resume, report, abort, join, tell, shut down | agent, step tools, timers |
| MCP adapter (`extensions/mcp-adapter/*`) | connections, attempts that callers share, calls in flight | connect, call, authenticate, check, close | tools, commands, timers |
| Teleport (`extensions/teleport/*`) | tabs, sockets, backoff timers, keys kept | connect, retry, switch, leave | user, network |
| ACP server (`modes/acp/server.ts`, `permission-prompter-registry.ts`) | sessions by id, their turns, registries of prompters | open, load, prompt, cancel, close, shut down | an editor, the agent's events |
| Others | | see section 7 | |

How the parts of a ferment interact: a tool, slash command, overlay action or
session hook loads the ferment, may ask the transition table, may await something
(a verification command, a judge model, the user), and hands a command to the
bridge (`tool-helpers.ts`, `createApplyAndPersist`). The bridge takes the file
lock, reads the current ferment (a fold of the event log or the snapshot), refuses
everything but resume and abandon on a paused ferment, applies the command and
writes snapshot and events. The engine then names the next action, which every
tool result repeats to the agent, and which the hooks queue as a message when
the agent stops. Steps may be given to sub-agents, whose records, reports and
completions the agent manager keeps. MCP servers, teleport tabs and ACP sessions
are independent of the ferment and of each other: they share only the process.

What is hard about it:

- *awaits*: guards are asked before an await, commands applied after it; several
  tool calls, the overlay, slash commands and another session can act between;
- *three readings of one ferment*: the engine, the transition table and the
  state machine each have their own conditions; they have to agree, or the agent
  is told to do what it is then refused;
- *two accounts of one command*: `applyCommand` computes the ferment,
  `commandToEvents` with `applyFermentEvent` computes it again when it is read;
- *two files*: snapshot and log are written one after the other, read by
  modification time, cached per process, and their writer may die in between;
- *parallel groups*: several phases and several steps may be active at once,
  but there is one activePhaseId and guards that compare with one running step;
- *silence*: nothing runs by itself; when no hook queues a message the ferment
  stands still, and budgets, flags and compactions decide whether one does;
- *promises and timers*: an agent's run, a connection, a token or a load settles
  after its caller moved on, and acts on whatever the maps hold by then;
- *counters kept in two places*: slots of agents and calls in flight are counted
  up by one path and down by another.

What makes each component correct:

- state machine: activePhaseId, status, active group and pause are consistent
  with the phases; running steps belong to one cohort; nothing is lost;
- table and engine: the next action is always legal, and following it ends;
- events: the fold of a command's events is what the command computed;
- store: what was reported done stays, whole; the two files agree;
- session: whatever is in flight, the ferment changes by commands only; a
  sequential agent leaves no orphaned running step and never runs two;
- planning: what Start applies was shown to the user, and a review on offer can be
  started;
- autopilot: the session falls silent only for a reason, and without one the
  ferment completes;
- agent manager: slots are neither exceeded nor leaked, the queue is served, one
  run per session at a time, each result is told once or asked for;
- MCP adapter: no process leaves the map while it lives, one attempt at a time,
  calls are counted on the connection they use, what is unused is closed, what
  is kept alive returns;
- Teleport: a tab has one thing under way or shows its verdict, and settles;
  keys keep their order;
- ACP server: no session is lost, its prompter is its own, an answer belongs to
  its prompt, a cancelled prompt is answered.

## 2. Modules

```
FermentStateMachine ─┬─ FermentFsm ─┬─ FermentSession ─ FermentScoping
                     │              │                     (both refine FermentStateMachine)
                     │              └─ FermentAutopilot ─┬─ FermentTurns
                     └─ FermentEvents ───────────────────┘
FermentEventStore         (a ferment is the sequence of its events)
AgentManager ─ AgentNotifications                         (refines AgentResults)
McpConnections     Teleport     AcpServer
*Proofs                   theorems of the module they are named after
```

**FermentStateMachine** (`state-machine.ts`, `lifecycle.ts`, the pause gate of
`tool-helpers.ts`). One action per lifecycle command. Variables: `status`,
`activePhase` (activePhaseId), `phaseStatus`, `phaseGroup` (groupIndex, or none),
`stepStatus`, `stepGroup`. A phase or step that the plan does not have is
`Absent`; phases are the numbers 1..NumPhases, steps 1..NumSteps, as their ids
are (`phase-1`, `step-1`). Texts, timestamps, grades, budgets and results are
left out, with the commands that only write those. Scope and refine choose any
plan that fits in the bounds.

**FermentEvents** (`event-mapper.ts`, `event-store.ts`). One operator per kind of
event, on a record that holds the whole ferment. `EventsFoldToFerment` says that
every command equals the fold of its events.

**FermentFsm** (`fsm.ts`, `engine.ts`, `fsm-adapter.ts`, the tools of
`extensions/ferment/tools`). `FsmState` and `FsmAccepts` are the transition
table, one operator per guarded tool, `NextAction` is `determineNextAction`.

**FermentSession** composes the tools with what happens around them. A call that
awaits is a record in `calls` (what it waits for, for which phase and step); the
part before the await and the part after it are two actions, with everything
else in between. The overlay holds an action offered for an older ferment.
Whether a step has a verification command, whether the judge passes it, how
often a gate is flagged and what the user answers are choices. It implements
FermentStateMachine (`RefinesStateMachine`), with the identity mapping on the
ferment.

**FermentScoping** is FermentSession with the way a draft gets its plan. `gate` is
scopingInteractive (scope_ferment has to wait for the user); `pending`, `questions`
and `rounds` are the entry of pendingScopes; `review` the entry of
pendingPlanReviews; `dialog` the review on the screen while planReviewRunning. A plan
is a name, since a review is compared as an object; four names are enough for three
places. `Propose` is propose_ferment_scoping, `ShowReview` agent_end with its timer,
`StartPlan` the answer "Start execution" with the whole of confirmPendingScope,
`SaveAfterQuestion` the confirmation at turn_end. Tools and slash commands are those of
the session, with what they clear (`MapsFollow`). A new session forgets every map.

**FermentAutopilot** is FermentFsm driven by its own engine: an agent that does
what it is told, whose steps and phases may fail and whose sessions may end.
`Accepted` says that the tool call for an action passes the guard table and the
handler's own conditions (the `Can...` predicates of FermentStateMachine, the
`...Accepted` ones of FermentFsm); EngineActionLegal asks it of `NextAction`.

**FermentTurns** is FermentAutopilot with what keeps the agent going. `run` says
whether the agent is in a turn, before its agent_end or idle; `mail` whether a
message that starts a turn is queued; `textNudges`, `stopNudges` and
`scopingNudges` are the budgets of `nudge.ts`; `finalNudged` the flag of
`index.ts`; `pending` and `compaction` the two maps of `state.ts`. `Turn` is what
the agent does followed by the whole turn_end handler in its order (budgets
reset, scoping nudges, question to the user, nudge, stage compaction, mid-turn
compaction), with its early returns. `letGo` records why no message was queued.

**FermentEventStore** abstracts a ferment to the sequence of events it is made of
and keeps the files: `snapshot`, `log`, which of the two is newer (`logNewer`),
the `cache` of each session, the `lock`, and what the holder of the lock still
has to write (`work`). A command is one write of the snapshot and one append per
event; a session may crash before each of them.

**AgentManager** (`agent-manager.ts`, the guards of `resume-tool.ts`). Records,
queue and slots; `run` is what became of the promise of an agent's first run,
`resuming` the resumed attempts in flight. Each action is one synchronous turn of
the event loop: the handler of a run that ends frees the slot, reports and starts
what waits, all in one. Starts and callbacks may throw.

**AgentNotifications** (`agents/index.ts`, `group-join.ts`) adds batches, groups,
their timers and the messages to the planner. It implements **AgentResults**, which
says that a result is owed until it is told or asked for, is told in the end, and
is lost only in the turn in which the run ends.

**McpConnections** (`server-manager.ts`, `lifecycle.ts`, `init.ts` and callers).
`entry` is the map, `pending` the attempts that callers share, `conn` what became
of each connection, `calls` what really runs on it, `inFlight` what the manager
counts. Closing, connecting, authenticating and checking continue in later turns.

**Teleport** (`websocket-transport.ts`, `reconnect-supervisor.ts`,
`tab-manager.ts`, `overlay-component.ts`). For each tab the tokens under way, the
socket it holds, sockets it forgot, the timer, the supervisor's count, the status
and verdict shown, the keys typed, kept and sent.

**AcpServer** (`modes/acp/server.ts`). `entry` and `prompter` are the maps by id;
`stage`, `turn`, `cancelled`, `active` the record of each AgentSession; `promise`,
`agent` and `answer` what became of each prompt.

Operators that the modules call mutants stand beside the definitions they would
replace; nothing uses them. Each is a plausible slip in that code which the
property named in PROJECT.json detects.

## 3. Runs

| run | module | instance | states | shows |
|---|---|---|---|---|
| FermentPlans | FermentStateMachine | 3 phases × 1 step and 1 phase × 3 steps, one group | 616,522 | consistency of status, activePhaseId, groups and pause under any commands; cohorts; no lost step |
| FermentSequential | FermentScoping | 2 × 2, no groups, one call at a time, no overlay, 4 plan names, 3 rounds of questions | 804,902 | Start applies what was shown; a review has its plan; no orphaned and no second running step |
| FermentUser | FermentSession | 2 × 1, one call and the overlay | 315,187 | every step is a command of the state machine, with stale overlay actions too |
| FermentTurns | FermentTurns | 1 × 2 and up to 3 × 1, one group, 1 failure, 1 interruption | 228,961 | what the engine asks is legal; silence only for a reason; the ferment completes; commands equal folds |
| FermentStore | FermentEventStore | 2 sessions, 4 commands, 2 crashes | 47,847 | acknowledged commands stay, whole; the files agree |
| BackgroundAgents | AgentNotifications | 2 background agents, a linked foreground worker, limits 1 and 2 | 213,531 | slots, queue and records agree; each result told once or asked for; implements AgentResults |
| McpConnections | McpConnections | 1 server, 3 connections, 3 calls | 251,746 | no lost process, one attempt, true counts, keep-alive and idle close |
| TeleportTabs | Teleport | 2 tabs, 3 retries, 2 keys each | 128,559 | one link, keys in order, every attempt ends |
| AcpSessions | AcpServer | 1 id, opened twice, 2 prompts | 26,031 | no lost session, its own prompter, prompts end with their runs, cancelled ones answered |
| FermentAbandoned | FermentSession | 1 × 1 | | *violated*: docs/ferment.md:50 |
| FermentRecovery | FermentAutopilot | 2 × 2, grouped phases may be given up | | *violated*: the legal next action of resume.ts:50 |
| FermentStoreUnlogged | FermentEventStore | a snapshot without a log | | *violated*: docs/ferment-storage-schema.md:170 |

Why the bounds are enough.

*FermentPlans.* `PlanSize` bounds the steps of a plan together, so one run has the
wide plans and the deep ones. Three phases are what it takes to have two active
members of a group and a phase outside it; one step each, because conditions on
steps look at one phase at a time. Three steps of one phase are two of one cohort
running and one that is not of it.

*FermentSequential, FermentUser.* Two phases of two steps are an orphan in one
phase and a step of another. `StopsWhenTold` (in FermentSequential and
FermentAbandoned) is an agent that makes no call on a ferment it was told is over;
`UserBusy` says that no slash command can be typed while a dialog or the overlay
has the keyboard, as in the terminal UI. FermentUser does without the first.
Three plan names in use are a pending scope, another one under review and a third in
the dialog; three rounds are the program's own limit (`tools/lifecycle.ts:875`).

*FermentTurns.* A group of two phases beside a single one, or a cohort of two
steps in a phase; a failure is a step failing once or a phase given up, and an
interruption comes in any turn, with counts that survive it or not. The budgets
have the program's own values (1, 2 and 2). `GroupedPhasesFail` is FALSE, because
a grouped phase given up is what FermentRecovery shows to be a dead end.

*FermentStore.* Four commands of up to two events let a session start from a cache
that is two commands old, crash half-way and see the next command take over; a
second crash is one during the recovery. A command has at most two events in the
model (scope appends up to seven; the others one or two).

*BackgroundAgents.* Two background agents are the least that form a group and that
share one slot with a queue behind it; the worker is resumed once to continue and
once to report. One agent is `Fragile`: its start or its callback may throw, once
it does the other shows what is left of slots and queue.

*McpConnections.* A third connection is one that is made after a call has
outlived the first and a close the second; servers share nothing, so one is enough.

*TeleportTabs.* A second tab is one connected lazily and left behind; three retries
end the budget, one by hand starts it afresh; two keys have an order.

*AcpSessions.* Opened twice: the second load can meet the first one's load, close
or drain. Two prompts: both of one session, the second one meeting the promise and
the run that outlast the answer to the first, or one of each session, the run of the
closed one meeting the prompt of the other. (With three prompts TLC finds no error
either, in 413,821 states and more time than a run should take.)

`CHECK_DEADLOCK FALSE` is set where a run may end: an abandoned ferment, a complete
one, a store out of commands, a session or server that was shut down. It is not
set in FermentPlans: abandon is accepted in every status.

## 4. Fairness and other assumptions

Safety properties need none. Each liveness property is checked under conditions
on what the code or its surroundings schedule; failing, dropping, closing and
interrupting are never fair.

- *FermentTurns.* Weak fairness of `AgentEnd` and `CompactionEnds` (hooks and
  callbacks run), of `Wake` (the harness starts a run for a queued message when
  the session is idle) and of `SessionStarts` (a paused ferment is resumed by a
  later session); strong fairness of `DoesAsTold`: an agent that is told again and
  again what to do does it at last. The harness is outside the repository; as its
  use implies, a message queued in a run is answered in that run, agent_end is
  heard at the end of every run, and a compaction stops the run and keeps the
  queue, or is refused and stops nothing. If agent_end were not heard after a run
  that a compaction stopped, the final action after the last phase would be lost.
- *BackgroundAgents.* A run ends, by its duration limit at the latest
  (`agent-runner.ts:648`); batch, group and message timers fire.
- *McpConnections.* Checks come every 30 s, requests and closes have time limits;
  strong fairness of `AttemptSucceeds`: a server that is tried again and again can
  be reached at last.
- *TeleportTabs.* A token request has 30 s (`fetchWithTimeout`), a TCP connect the
  limit of the system, timers fire, a socket that is closing closes.
- *AcpSessions.* A run that was asked to abort ends, handlers of session_shutdown
  return. Nothing is assumed of a run or a promise whose prompt was answered: they
  go on or not, also into the next prompt, and `agent_end` may never come.

Bounds in guards: MaxFailures, MaxPauses (FermentAutopilot), MaxRounds
(FermentScoping, a limit of the code), ResumeBound, Fragile
(AgentManager), MaxConnections, MaxCalls (McpConnections), MaxKeys (Teleport),
MaxOpens, MaxPrompts (AcpServer), commands and crashes (FermentEventStore). The
liveness properties of McpConnections say where a bound ends them
(`made[n] = MaxConnections`).

## 5. Proofs

All theorems hold for plans of every size, every set of groups, any number of
calls in flight, sessions, agents, servers and tabs. They rest on the ASSUMEs of
the modules: sizes and bounds are numbers, flags are Booleans, sets of agents are
finite and subsets of each other, and the values that stand for "nothing" differ
from the others; TLC evaluates them in each run. The proofs are inductive: one
lemma per action, one step per conjunct that the action can disturb.

*FermentStateMachineProofs.* The safety invariants are not inductive one by one.
`IInv` joins them to the type invariant and `StepsInPlan` (a step that the phase
lacks is not running): ActivePhaseSound needs the group invariant to settle on a
sibling, StatusFollowsPhases needs ActivePhaseSound, RunningStepsShareCohort
needs itself in the strong form "all running steps of a phase share one cohort",
because `start_step` compares with a single running step. Then `PauseFreezes` and
`RunningStepIsNotLost` as action properties from the same invariant.

*FermentSessionProofs.* `SessionRefines`: every step of the session is a step of
the state machine or leaves the ferment alone; the invariant it needs is that what
calls and overlay remember are phases and steps of the plan. So the invariants of
the state machine hold in every session (`SessionInvariants`). `NoOrphanedStep` and
`OneStepAlways` are about an agent that makes one call at a time on a plan without
groups. Their invariant `SeqInv` says of the waiting call that its phase stays
active and that only its step may run (`CallOK`), or, for a call that ends a phase,
that nothing runs (`Quiet`); slash commands and other sessions only lower what runs
(`Lowers`), so it survives whatever happens while the call waits. Every step of
FermentScoping is a step of the session, the plan of a draft applied beside its calls,
or the loss of them (`ScopingIsSession`), hence `ScopingRefines` and
`OneStepWhileScoping`. `AbandonedLeftByLateCalls` delimits the finding of
FermentAbandoned: the guard table has no row for an abandoned ferment, so only a
dialog that a call awaits, or an overlay that was open, brings it back, and once
those are gone (`SettledAbandoned`) it stays abandoned. `ReviewsHavePlans` is inductive with the typing of the maps and
the fact that no command leads back to a draft (`DraftIsFirst`); `ShownPlansStart`
follows, because of the steps that plan a draft only Start closes the dialog.

*FermentTurnsProofs.* `EventsFold`: each command equals its fold, from IInv (a
resume folds back to "running" only because activePhaseId was sound).
`SilenceHasAReason` needs two invariants. `PlanExists`: a phase of the plan stays in
it, so the engine names something to do in every open ferment. `HooksInv` says why
the agent may have been left alone when a run ends, and when the session is idle:
a compaction that stopped the run tells it what comes next when it ends, and the
final action is left to agent_end.

`TurnsRefine`: a turn is a step of the autopilot, and a step of the autopilot one of
the state machine, so its invariants and the fold hold in a session of turns.
`EngineNeverStuck` states EngineActionLegal of TurnsSpec under `~GroupedPhasesFail`.
Its invariant `EngineInv` says that a failed phase is in no group and stands beside no
active or failed one, and that steps run in the phase of activePhaseId only. The
hypothesis is needed: FermentRecovery is the counterexample without it.

The safety core of CompletesUnlessLetGo is proved in three parts. `WorkAdvances`:
whatever the engine asks for scopes the draft, refines a phase without steps,
finishes the ferment, or lowers what a phase or a step still has to go (`PhaseToDo`,
`StepToDo`) and raises none. `OnlyFailuresGoBack`: otherwise only a counted failure
or interruption raises it, and no step of a scoped plan is deleted.
`NudgesAreBounded`: the budgets are kept. The sum of these measures, and that the
steps are taken, is the part that TLC checks.

*FermentEventStoreProofs.* `LogInv`: the lock's holder is the only writer, and
what it owes determines the end of the log; hence `Acknowledged` and `Contiguous`.
`AgreeInv`: as long as nobody has crashed, the snapshot is the log followed by what
the writer owes, and an unlocked log is the newer file; so every command starts
from the fold, and `SnapshotAgrees`. With both, `NoUpdateIsLost`: the next command,
whoever gives it and whatever its session has cached, starts from all acknowledged
events. The hypothesis `crashes = 0` is needed: a crash between snapshot and log
leaves the log the older file, `get` then answers from the snapshot or a cache, and TLC
finds a cache that lacks an acknowledged command. `OrderInv` does not need it: commands
are numbered under the lock, so neither file and no cache ever has an event twice or
out of order (`EventsStayInOrder`), whatever crashes.

*AgentManagerProofs.* `Consistent` relates status, run, session and place in the
queue of one record, and every action keeps it agent by agent. Slots are a sum:
each promise has a weight (`Balance`), and `slots = Balance(run)` is kept because
an action changes the weights of finitely many agents. The queue has no agent
twice, so taking one off removes it. The theorems are about `Spec` of
AgentNotifications, whose steps are steps of the manager or leave it alone.
`OnePlace` says that an agent is in one place at a time (batch, one group, one
message, sent), enters the first two when it is spawned and the others when its run
has ended; `EndsAreShown` and `AttemptsCounted` tie the statuses that the batch
timer reads to the runs. Hence `ReportedAtMostOnce`, `ResultsTracked` and
`ResultsStaySettled`, the safety part of the refinement of AgentResults.

*McpConnectionsProofs.* NoOrphans, OneAttempt, CallsAreCounted and the type
invariant are inductive together, with what a pending close or attempt may still
do: an attempt under way excludes a connected entry, so its success cannot lose one.
`LifeInv` adds that calls run on connections that are not closed and that whoever
waits has an attempt under way (`NoCallHangsEver`). `EachConnectionLivesOnce`: a
connection passes connected, closing and closed once; a close that somebody awaits in
order to reopen is not overtaken by another; an idle check closes under no call
unless a call was counted on another connection than its own (`crossed`).

*TeleportProofs.* `OneLink` is inductive once "closed transports are those of an
overlay that was left" (`ClosedByExit`) is known. `KeysInOrder` needs that an open
socket has nothing left to flush (`OpenIsFlushed`). `RetriesEnd`: the attempts stay
within the budget, and since a tab with a verdict has nothing under way, the verdict
stands until the user retries, which is offered for a lost connection only.

*AcpServerProofs.* `OpeningAlone` (an id that is being loaded has no other
session opening or open) gives NoSessionLost and PrompterFollowsSession. `WaitInv` (a
prompt without an answer is the turn of its session, and a turn is marked active
while a run is heard) gives `NoPromptEverForgotten` (a close, a promise or the end of
a heard run will still answer every open prompt) and `AnsweredOnceOnly`. With it
`OneRun` (a session has one run at a time, and that of its turn is marked active
from its start) gives EndsWithItsRun. All of them hold for promises and runs that
outlast the answer to their prompt.

Only model-checked: the liveness properties. Fairness is beyond the provers used, and
so is the termination argument, a sum over the phases and steps of a plan. What is
proved of the safety part of each:

| liveness property | proved of it |
|---|---|
| CompletesUnlessLetGo | SilenceHasAReason, EngineNeverStuck, WorkAdvances, OnlyFailuresGoBack, NudgesAreBounded |
| QueuedAgentsLeave | SlotsAccounted, QueueAlwaysServed, RunningWillSettle |
| ResultsReachThePlanner | ReportedAtMostOnce, ResultsTracked, ResultsStaySettled |
| KeepAliveReturns, IdleServersClose | NoCallHangsEver, CallsCountedAlways, EachConnectionLivesOnce |
| LinkSettles | OneLinkAlways (something is under way until a verdict), RetriesEnd |
| CancelledIsAnswered | NoPromptEverForgotten, AnsweredOnceOnly |

The type invariants of FermentStateMachine, FermentSession, FermentEventStore,
AgentManager, McpConnections, Teleport and AcpServer are theorems; no run repeats them.
Nor does a run repeat the invariants that only theorems state (StartsFromAcknowledged,
HistoriesInOrder, NoPromptForgotten, NoCallHangs, WithinBudget, WithinBudgets); TLC found
each of them to hold on the instance of its component's run before it was proved.

## 6. Observed while modelling

The three violated runs are listed as findings. Also seen, without a run:

Ferment:

- `skip_phase` on a complete ferment sets it to planned (`fsm.ts:327`, against
  docs/ferment.md:38-40); a completed phase can be skipped in a planned ferment
  (`fsm.ts:278`); a verified step can be started again (`fsm.ts:192`).
- The overlay completes a phase whose step runs, which the tool's guard forbids
  (`state-machine.ts:741`, `fsm.ts:364`); the orphaned step keeps the transition
  table in STEP_RUNNING.
- On a plan with groups a sequential agent can leave an orphan too: the recovery
  "Abandon phase" (`tools/steps.ts:554`) ends a phase while a sibling of the
  failed step runs (nine steps).
- A failed phase of a group without planned members cannot be retried with
  `activate_ferment_phase` (`tools/phases.ts:537`, docs/ferment.md:502).
- Steps of two parallel phases cannot run together (`fsm.ts:136`), although
  activating the group tells the agent to do so (`tools/phases.ts:573`).
- Two events fold to something else than their command computes, in cases no
  caller produces: complete_step with a verification result, and activating a
  group while members of it are already active.

Autopilot, the reasons of `letGo` that do not look intended:

- The last phase completed in a turn that ends with "stop": the stop nudge sets
  finalCompletionNudgedThisRun; when the run then ends in text, or a compaction
  stops it, agent_end queues nothing and the ferment is left (`index.ts:230`,
  against its comment at :221).
- A compaction that fails tells nobody what comes next (`auto-compaction.ts:332`),
  although its header (:17) says that failures "never block the pipeline".
- An automated agent without UI that ends its text with a question gets no nudge
  (`events.ts:180`; docs/ferment.md:438).
- A text-only turn in a draft spends the reactive budget without a message
  (`scheduler.ts:145`); the counts of nudges are never reset between sessions of
  one process (the functions that reset all have no caller).
- The final nudge at agent_end has no budget; switching the policy to automated
  while the session is idle wakes nobody.

Planning:

- The dialog shows the review, Start applies the pending scope (`index.ts:164`). They
  differ when the agent has proposed again with questions: its provisional phases
  replace the scope and not the review, so the user can start a plan that nobody
  showed (docs/ferment.md:135 and :220; the disjunct `questions` of
  `StartedPlanWasShown` and `ReviewHasPlan`).
- A Start for a review that was replaced while the dialog was open is dropped without
  a word (`index.ts:161`), and the new review waits for the next agent_end, which
  nothing brings about when the agent is idle (`index.ts:208`).
- scope_ferment and the confirmation at turn_end leave the review in its map; it is
  shown again for a planned ferment, and Start then fails for want of a pending scope.
- A new session clears the gates (`events.ts:301`): until it is resumed or proposed
  again an interactive draft can be scoped without the user. markScopingConfirmed,
  the other way past the gate, has no caller outside tests.

Agents:

- The completion handler of a background run frees the slot again when its callback
  throws, and a start that throws loses its slot; `SlotAccounting` states both. In
  practice only `appendEntry` can throw there, since the event bus swallows the
  errors of handlers.
- Timers of groups and batches go on after the shutdown: `GroupJoinManager.dispose`
  has no caller. Neither have bypassQueue and waitForAll.

MCP adapter:

- A keep-alive server whose process dies stays "connected" and is not restarted
  (`lifecycle.ts:59`; `mcp-adapter/README.md:101` and :311).
- closeAll misses attempts under way (`server-manager.ts:276`), whose connection is
  stored after the shutdown, and direct tools can connect then.
- What awaits the initialisation may go on with the state of an earlier session
  (`direct-tools.ts:241`).

Teleport: docs/teleport.md:298 says that the tab of a session that ends closes;
onClose removes only tabs that closeTab marked, and nobody calls it
(`tab-manager.ts:139`). A tab added after the overlay was left throws in a function nobody awaits
(`overlay-component.ts:93`).

ACP server:

- A promise or a run that outlasts the answer to its prompt can end the next prompt
  of the session before the run of that one has started: the handlers look at the
  turn of the moment (`server.ts:523`, `server.ts:534`, `server.ts:709`). The comment
  at `server.ts:705` calls a late agent_end safe to drop, which it is only while no
  new prompt has come. `EndsWithItsRun` exempts this case, by its second disjunct,
  and no other: a prompt whose run has started cannot be ended "end_turn" so, and
  the run of a closed session ends no prompt of another. A late rejection answers the
  next prompt with an error, or "cancelled", at any time.
- A prompt cancelled before agent_start is answered "end_turn", not "cancelled"
  (comment at `server.ts:528`).
- closeSession during a load does nothing; a load that finishes after the shutdown
  is never disposed; a close during the drain disposes twice.

## 7. Not modelled

Most of the repository has no state that several parties change: bundled and
generated code, rendering of tools and of the terminal UI, prompts, parsers,
clients of services that are not in the repository, configuration and files. The
map covers the control of the parts in section 1, which is a small share of all
lines; a model of the rest would restate parsers and layouts line by line.

Of the modelled components, left out (each also in PROJECT.json):

- texts, grades and gates of a ferment; the commands that only write them;
  migration and the hash chain of events; the list of ferments and renames;
- the forms of the scoping questions, the phase editor, hosts without custom dialogs,
  ask-user and the todo mirror;
- the manual policy and the one-shot mode of the autopilot, the count of exploring
  turns;
- budgets, steering, transcripts and worktrees of sub-agents;
- caches, resources, the UI bridge, OAuth and transports of the MCP adapter;
- what a teleported terminal shows, its size, making and naming sandboxes;
- replay, models, permission modes and options of the ACP server.

Permissions and the guards of a turn are sequential decisions over text; planning
and todos are parsers and reducers; sandbox, language-server and web clients speak
to services that are not here; updater, curator, telemetry, tips and surveys are
I/O. A log line torn by a crash (`event-store.ts:430`) would need a model of the
file system's own atomicity.

Further hazards without a property: scoping by the agent is three mutations, and a
failure between them leaves a planned ferment nobody runs (`extensions/permissions/index.ts:646`);
a ferment scoped without phases is told to scope again for ever (`ferment/engine.ts:50`); the
count of starts of a step is in memory and forgotten on retry and session start
(`extensions/ferment/tools/steps.ts:208`).

## 8. Plan

1. The manual policy with its phase boundary, and the one-shot mode.
2. The todo mirror (`todo-sync.ts`) against the ferment it follows.
3. An abstract specification of the autopilot that FermentTurns implements.
4. Several ferments in one session, with switching between them in the middle of
   scoping, and deleting one.
5. The switch of permission modes against calls that wait for an answer.
