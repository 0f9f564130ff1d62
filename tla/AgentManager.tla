----------------------------- MODULE AgentManager -----------------------------
(***************************************************************************)
(* The manager of sub-agents: background agents that share a limited number *)
(* of slots and wait in a queue, foreground agents whose caller waits, and  *)
(* later attempts that resume a finished agent's session.                   *)
(* extensions/agents/manager/agent-manager.ts, with the guards of           *)
(* resume-tool.ts and the callers in extensions/agents/index.ts.            *)
(*                                                                          *)
(* One action is one synchronous turn of the event loop.  A first run and a *)
(* resumed attempt are promises that settle in a turn of their own, and the *)
(* handler of a background run frees a slot, reports, and starts what waits *)
(* in the queue, all in that turn.                                          *)
(*                                                                          *)
(* Left out: budgets of turns, tokens and time (they only choose when and   *)
(* how a run ends), steering, transcripts.  bypassQueue and waitForAll have *)
(* no caller.  Nothing calls abort but the signal of a foreground call and  *)
(* the shutdown, so only those stop an agent.                               *)
(***************************************************************************)
EXTENDS Integers, Sequences, FiniteSets

CONSTANTS
  Agents,         \* identifiers of the agents that may be spawned
  Background,     \* the agents spawned with run_in_background
  Linked,         \* the workers linked to a ferment step
  Limits,         \* limits of concurrency the user may set
  FirstLimit,     \* the limit at the start
  MaxContinuations, MaxFinalizers,   \* resumes of a linked worker, by purpose
  ResumeBound,    \* bound of the model on continuations of other agents
  Fragile         \* bound of the model: agents whose start or callback may throw

ASSUME AgentsAssumption ==
  Background \subseteq Agents /\ Linked \subseteq Agents /\ Fragile \subseteq Agents
ASSUME AgentsFinite == IsFiniteSet(Agents)
ASSUME LimitsAssumption == Limits \subseteq Nat \ {0} /\ FirstLimit \in Limits
ASSUME ResumeAssumption ==
  MaxContinuations \in Nat /\ MaxFinalizers \in Nat /\ ResumeBound \in Nat

VARIABLES
  known,          \* agents whose record is in the map
  status,         \* status of each record
  queue,          \* background agents that wait for a slot
  slots,          \* runningBackground: slots counted as taken
  maxConcurrent,
  run,            \* what became of the first run's promise
  resuming,       \* resumed attempts in flight
  session,        \* whether the record of an ended run holds a session
  continued, finalized,   \* resume attempts made, by purpose
  finished,       \* workers whose current attempt has a report "completed"
  disposed        \* the session was shut down

managerVars == <<known, status, queue, slots, maxConcurrent, run, resuming,
                 session, continued, finalized, finished, disposed>>
attemptVars == <<resuming, session, continued, finalized, finished>>

\* "ended" stands for completed, steered, aborted and error, which no guard
\* tells apart; "none" is an agent without a record in the map.
Statuses == {"none", "queued", "running", "ended", "stopped"}

\* pending: the promise has not settled.  failed: starting from the queue
\* threw, the slot was given back.  leaked: starting in spawn threw, it was
\* not.  recounted, lost: recording the completion threw once, or again in
\* the handler of that error, and the slot was given back twice.  unserved:
\* recording the completion of a run that had failed threw.
Unrecorded == {"lost", "unserved"}
Runs == {"none", "pending", "settled", "failed", "leaked", "recounted"} \cup Unrecorded

WithRun(r) == {a \in Background : run[a] = r}
Queued == {queue[i] : i \in 1..Len(queue)}
Heads(n) == {queue[i] : i \in 1..n}

ManagerInit ==
  /\ known = {} /\ queue = <<>> /\ slots = 0 /\ maxConcurrent = FirstLimit
  /\ status = [a \in Agents |-> "none"]
  /\ run = [a \in Agents |-> "none"]
  /\ resuming = [a \in Agents |-> 0]
  /\ session = [a \in Agents |-> FALSE]
  /\ continued = [a \in Agents |-> 0] /\ finalized = [a \in Agents |-> 0]
  /\ finished = {}
  /\ disposed = FALSE

-----------------------------------------------------------------------------
(* Slots and the queue *)

\* Mutant of DrainQueue: the slot of an agent that cannot be started is kept.
DrainQueueLeaking(st, rn, s, limit) ==
  \E n \in 0..Len(queue) : \E broken \in SUBSET (Heads(n) \cap Fragile) :
    /\ \A i \in 1..n : s + Cardinality(Heads(i - 1)) < limit
    /\ n < Len(queue) => s + Cardinality(Heads(n)) >= limit
    /\ queue' = SubSeq(queue, n + 1, Len(queue))
    /\ slots' = s + Cardinality(Heads(n))
    /\ status' = [x \in Agents |-> IF x \in Heads(n) \ broken THEN "running"
                                   ELSE IF x \in broken THEN "ended" ELSE st[x]]
    /\ run' = [x \in Agents |-> IF x \in Heads(n) \ broken THEN "pending"
                                ELSE IF x \in broken THEN "failed" ELSE rn[x]]

\* Mutant of DrainQueue: an agent that cannot be started is left "running".
DrainQueueAsRunning(st, rn, s, limit) ==
  \E n \in 0..Len(queue) : \E broken \in SUBSET (Heads(n) \cap Fragile) :
    LET begun == Heads(n) \ broken IN
    /\ \A i \in 1..n : s + Cardinality(begun \cap Heads(i - 1)) < limit
    /\ n < Len(queue) => s + Cardinality(begun) >= limit
    /\ queue' = SubSeq(queue, n + 1, Len(queue))
    /\ slots' = s + Cardinality(begun)
    /\ status' = [x \in Agents |-> IF x \in Heads(n) THEN "running" ELSE st[x]]
    /\ run' = [x \in Agents |-> IF x \in begun THEN "pending"
                                ELSE IF x \in broken THEN "failed" ELSE rn[x]]

\* The first n entries leave the queue while fewer than limit slots are taken,
\* counting from s; those in broken throw when they are started.  What the
\* turn did before, to the status and the run of agents, is in st and rn.
DrainQueue(st, rn, s, limit) ==
  \E n \in 0..Len(queue) : \E broken \in SUBSET (Heads(n) \cap Fragile) :
    LET begun == Heads(n) \ broken IN
    /\ \A i \in 1..n : s + Cardinality(begun \cap Heads(i - 1)) < limit
    /\ n < Len(queue) => s + Cardinality(begun) >= limit
    /\ queue' = SubSeq(queue, n + 1, Len(queue))
    /\ slots' = s + Cardinality(begun)
    /\ status' = [x \in Agents |-> IF x \in begun THEN "running"
                                   ELSE IF x \in broken THEN "ended" ELSE st[x]]
    /\ run' = [x \in Agents |-> IF x \in begun THEN "pending"
                                ELSE IF x \in broken THEN "failed" ELSE rn[x]]

Taken(a) == IF a \in Background THEN 1 ELSE 0
MayStart(a) == a \in Background => slots < maxConcurrent
Unborn(a) == ~disposed /\ run[a] = "none" /\ a \notin known

SpawnQueued(a) ==
  /\ Unborn(a) /\ ~MayStart(a)
  /\ known' = known \cup {a}
  /\ status' = [status EXCEPT ![a] = "queued"]
  /\ queue' = Append(queue, a)
  /\ UNCHANGED <<slots, maxConcurrent, run, attemptVars, disposed>>

SpawnStarted(a) ==
  /\ Unborn(a) /\ MayStart(a)
  /\ known' = known \cup {a}
  /\ status' = [status EXCEPT ![a] = "running"]
  /\ run' = [run EXCEPT ![a] = "pending"]
  /\ slots' = slots + Taken(a)
  /\ UNCHANGED <<queue, maxConcurrent, attemptVars, disposed>>

\* startAgent throws: the record is deleted, the slot it took is not given back.
SpawnThrows(a) ==
  /\ a \in Fragile /\ Unborn(a) /\ MayStart(a)
  /\ run' = [run EXCEPT ![a] = "leaked"]
  /\ slots' = slots + Taken(a)
  /\ UNCHANGED <<known, status, queue, maxConcurrent, attemptVars, disposed>>

\* Mutant of SetMaxConcurrent: a raised limit waits for the next completion.
SetMaxConcurrentLater(limit) ==
  /\ ~disposed
  /\ maxConcurrent' = limit
  /\ UNCHANGED <<known, status, queue, slots, run, attemptVars, disposed>>

SetMaxConcurrent(limit) ==
  /\ ~disposed
  /\ maxConcurrent' = limit
  /\ DrainQueue(status, run, slots, limit)
  /\ UNCHANGED <<known, attemptVars, disposed>>

-----------------------------------------------------------------------------
(* The first run *)

\* A stop stays; what a removed record says is read by nobody.
AfterEnd(a) == [status EXCEPT ![a] = IF @ \in {"none", "stopped"} THEN @ ELSE "ended"]

\* Mutant of RunEnds: the handler frees the slot and does not serve the queue.
RunEndsOnly(a) ==
  /\ run[a] = "pending"
  /\ \E made \in BOOLEAN : session' = [session EXCEPT ![a] = made /\ a \in known]
  /\ status' = AfterEnd(a)
  /\ run' = [run EXCEPT ![a] = "settled"]
  /\ slots' = slots - Taken(a)
  /\ UNCHANGED <<known, queue, maxConcurrent, resuming, continued, finalized,
                 finished, disposed>>

\* The promise settles: the then-handler, or if the run threw the catch-handler.
\* A run that did not throw leaves its session in the record; one that threw
\* does so if it came to create it, which nobody asks before the run ends.
RunEnds(a) ==
  /\ run[a] = "pending"
  /\ \E made \in BOOLEAN : session' = [session EXCEPT ![a] = made /\ a \in known]
  /\ LET rn == [run EXCEPT ![a] = "settled"] IN
     IF a \in Background
     THEN DrainQueue(AfterEnd(a), rn, slots - 1, maxConcurrent)
     ELSE status' = AfterEnd(a) /\ run' = rn /\ UNCHANGED <<queue, slots>>
  /\ UNCHANGED <<known, maxConcurrent, resuming, continued, finalized, finished, disposed>>

\* The callback that records the completion throws in the then-handler; the
\* catch-handler gives the slot back again and reports the run as an error.
RecordThrows(a) ==
  /\ run[a] = "pending" /\ a \in Background \cap Fragile
  /\ session' = [session EXCEPT ![a] = a \in known]
  /\ DrainQueue(AfterEnd(a), [run EXCEPT ![a] = "recounted"], slots - 2, maxConcurrent)
  /\ UNCHANGED <<known, maxConcurrent, resuming, continued, finalized, finished, disposed>>

\* It throws in the catch-handler, which is the end of it: the promise rejects,
\* nothing is started or reported.  The then-handler may have run before.
RecordThrowsLast(a) ==
  /\ run[a] = "pending" /\ a \in Background \cap Fragile
  /\ status' = AfterEnd(a)
  /\ \/ /\ session' = [session EXCEPT ![a] = a \in known]
        /\ run' = [run EXCEPT ![a] = "lost"]
        /\ slots' = slots - 2
     \/ /\ \E made \in BOOLEAN : session' = [session EXCEPT ![a] = made /\ a \in known]
        /\ run' = [run EXCEPT ![a] = "unserved"]
        /\ slots' = slots - 1
  /\ UNCHANGED <<known, queue, maxConcurrent, resuming, continued, finalized,
                 finished, disposed>>

\* The signal of the foreground call that spawned the agent.
Abort(a) ==
  /\ a \in known \ Background
  /\ run[a] = "pending" /\ status[a] = "running"
  /\ status' = [status EXCEPT ![a] = "stopped"]
  /\ UNCHANGED <<known, queue, slots, maxConcurrent, run, attemptVars, disposed>>

-----------------------------------------------------------------------------
(* Later attempts and reports *)

\* The planner has the identifier: a foreground call returns it at its end.
Answered(a) == a \in Background \/ run[a] # "pending"
Idle(a) == status[a] \notin {"queued", "running"}

\* Another continuation or report finalization is within its limit.
MayContinue(a) ==
  IF a \in Linked THEN continued[a] < MaxContinuations ELSE continued[a] < ResumeBound
MayFinalize(a) == a \in Linked /\ finalized[a] < MaxFinalizers

\* Mutant of Resumable: the tool does not refuse a running agent.
ResumableAnyway(a) == a \in known /\ session[a] /\ Answered(a) /\ a \notin finished

Resumable(a) ==
  /\ a \in known /\ session[a] /\ Answered(a) /\ Idle(a)
  /\ a \notin finished

Resumed(a) ==
  /\ status' = [status EXCEPT ![a] = "running"]
  /\ resuming' = [resuming EXCEPT ![a] = @ + 1]
  /\ finished' = finished \ {a}
  /\ UNCHANGED <<known, queue, slots, maxConcurrent, run, session, disposed>>

Resume(a) ==
  /\ Resumable(a)
  /\ \/ /\ MayContinue(a)
        /\ continued' = [continued EXCEPT ![a] = @ + 1]
        /\ UNCHANGED finalized
     \/ /\ MayFinalize(a)
        /\ finalized' = [finalized EXCEPT ![a] = @ + 1]
        /\ UNCHANGED continued
  /\ Resumed(a)

ResumeEnds(a) ==
  /\ resuming[a] > 0
  /\ resuming' = [resuming EXCEPT ![a] = @ - 1]
  /\ status' = AfterEnd(a)
  /\ UNCHANGED <<known, queue, slots, maxConcurrent, run, session, continued,
                 finalized, finished, disposed>>

\* submit_agent_report, which only the worker's own session offers; a later
\* report replaces an earlier one.
SubmitReport(a) ==
  /\ a \in known \cap Linked
  /\ run[a] = "pending" \/ resuming[a] > 0
  /\ finished' \in {finished \cup {a}, finished \ {a}}
  /\ UNCHANGED <<known, status, queue, slots, maxConcurrent, run, resuming,
                 session, continued, finalized, disposed>>

-----------------------------------------------------------------------------
(* The map of records *)

\* A record that left the map, and what it held.
Forget(gone) ==
  /\ known' = known \ gone
  /\ status' = [a \in Agents |-> IF a \in gone THEN "none" ELSE status[a]]
  /\ session' = [a \in Agents |-> session[a] /\ a \notin gone]
  /\ finished' = finished \ gone
  /\ continued' = [a \in Agents |-> IF a \in gone THEN 0 ELSE continued[a]]
  /\ finalized' = [a \in Agents |-> IF a \in gone THEN 0 ELSE finalized[a]]

\* cleanup removes the records that ended long ago, clearCompleted all that
\* ended; both dispose of the sessions.
Remove(gone) ==
  /\ gone # {} /\ gone \subseteq {a \in known : Idle(a)}
  /\ Forget(gone)
  /\ UNCHANGED <<queue, slots, maxConcurrent, run, resuming, disposed>>

\* Mutant of Shutdown: the queue is left as it is.
ShutdownKeepingQueue ==
  /\ ~disposed /\ disposed' = TRUE
  /\ Forget(known)
  /\ UNCHANGED <<queue, slots, maxConcurrent, run, resuming>>

\* session_shutdown: abortAll, then dispose.  The promises settle later.
Shutdown ==
  /\ ~disposed /\ disposed' = TRUE
  /\ queue' = <<>>
  /\ Forget(known)
  /\ UNCHANGED <<slots, maxConcurrent, run, resuming>>

\* What starts no agent and calls no callback.
Quiet(a) ==
  \/ SpawnThrows(a) \/ Abort(a) \/ RecordThrowsLast(a)
  \/ Resume(a) \/ ResumeEnds(a) \/ SubmitReport(a)

ManagerNext ==
  \/ \E a \in Agents : \/ SpawnQueued(a) \/ SpawnStarted(a)
                       \/ RunEnds(a) \/ RecordThrows(a)
                       \/ Quiet(a)
  \/ \E limit \in Limits : SetMaxConcurrent(limit)
  \/ \E gone \in SUBSET known : Remove(gone)
  \/ Shutdown

ManagerSpec == ManagerInit /\ [][ManagerNext]_managerVars

-----------------------------------------------------------------------------
(* Properties *)

ManagerTypeOK ==
  /\ known \subseteq Agents /\ disposed \in BOOLEAN
  /\ status \in [Agents -> Statuses] /\ run \in [Agents -> Runs]
  /\ queue \in Seq(Agents)
  /\ slots \in Int /\ maxConcurrent \in Limits
  /\ resuming \in [Agents -> Nat] /\ session \in [Agents -> BOOLEAN]
  /\ continued \in [Agents -> Nat] /\ finalized \in [Agents -> Nat]
  /\ finished \subseteq Linked

\* The counter of taken slots equals the background runs that have not
\* settled, plus one for every spawn that threw, minus one for every
\* completion that could not be recorded: nothing else, no queueing, no change
\* of the limit, no shutdown, makes it drift (startAgent's ++ against the
\* -- of two handlers and of drainQueue).
SlotAccounting ==
  slots = Cardinality(WithRun("pending")) + Cardinality(WithRun("leaked"))
          - Cardinality(WithRun("recounted")) - Cardinality(WithRun("lost"))

\* No agent waits while a slot is free, unless a completion handler died
\* before it came to drainQueue.
QueueServed ==
  Len(queue) > 0 /\ (\A a \in Agents : run[a] \notin Unrecorded)
    => slots >= maxConcurrent

\* The records shown as queued are exactly the entries of the queue, each once,
\* so drainQueue never meets a stale entry and abortAll forgets none.
QueueMatchesRecords ==
  /\ {a \in known : status[a] = "queued"} = Queued
  /\ \A i, j \in 1..Len(queue) : queue[i] = queue[j] => i = j

\* An agent shown as running has a promise that will settle: no record is left
\* "running" by a stop, a resume or an error.
RunningHasRun ==
  \A a \in known : status[a] = "running" => run[a] = "pending" \/ resuming[a] > 0

\* A session is driven by one run at a time: no resume starts beside a first
\* run that was stopped but has not settled, or beside another resume.
OneRunPerSession ==
  \A a \in Agents : resuming[a] <= 1 /\ (run[a] = "pending" => resuming[a] = 0)

=============================================================================
