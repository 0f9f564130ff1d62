-------------------------- MODULE AgentNotifications --------------------------
(***************************************************************************)
(* How the planner learns of the background agents it spawned: agents       *)
(* spawned within 100 ms of each other form a batch, a batch of several is  *)
(* a group whose completions are joined until all are there or a timer      *)
(* fires, and what is to be said waits 200 ms in case the planner asks for  *)
(* it first.  extensions/agents/index.ts, manager/group-join.ts.            *)
(*                                                                          *)
(* Each action is the manager's, together with what its callbacks do here   *)
(* in the same turn, or one of the timers.  The join mode is the default    *)
(* "smart".  The widget and the texts are left out, and the agents of       *)
(* visibility "system", which are never reported.                           *)
(***************************************************************************)
EXTENDS AgentManager

VARIABLES
  batch,      \* currentBatchAgents; its timer runs while there are any
  groups,     \* the groups of GroupJoinManager that are not delivered
  nudges,     \* pendingNudges, each with its timer
  consumed,   \* agents whose result the planner asked for
  sent        \* how often a message about the agent was sent

noticeVars == <<batch, groups, nudges, consumed, sent>>
allVars == <<managerVars, noticeVars>>

\* agentToGroup says which group an agent belongs to: the one it is a member of.
\* A group's timer runs from the first completion it holds.
Group(members, done) == [members |-> members, done |-> done, timer |-> done # {}]
AgentNudge(a) == [key |-> "agent", about |-> {a}]
GroupNudge(g) == [key |-> "group", about |-> g.members]

Init ==
  /\ ManagerInit
  /\ batch = {} /\ groups = {} /\ nudges = {} /\ consumed = {}
  /\ sent = [a \in Agents |-> 0]

-----------------------------------------------------------------------------
(* Completions *)

Member(a) == \E g \in groups : a \in g.members

\* Mutant of JoinGroup: no timer is started for what the group holds.
JoinGroupUntimed(g, ended) == [g EXCEPT !.done = @ \cup (g.members \cap ended)]

\* onAgentComplete for several agents at once: a group holds what has ended
\* and is delivered, and forgotten, with its last member.
JoinGroup(g, ended) ==
  IF g.members \cap ended = {} THEN g
  ELSE [g EXCEPT !.done = @ \cup (g.members \cap ended), !.timer = TRUE]
Complete(g) == g.done = g.members

\* Mutant of OnComplete: agents of the current batch are not left to its timer.
OnCompleteAtOnce(ended) ==
  LET told == ended \ consumed
      joined == {JoinGroup(g, told) : g \in groups}
  IN /\ groups' = {g \in joined : ~Complete(g)}
     /\ nudges' = nudges \cup {GroupNudge(g) : g \in {j \in joined : Complete(j)}}
                         \cup {AgentNudge(a) : a \in {x \in told : ~Member(x)}}

\* The callback of the manager, for the agents that ended in this turn.
OnComplete(ended) ==
  LET told == ended \ (consumed \cup batch)
      joined == {JoinGroup(g, told) : g \in groups}
  IN /\ groups' = {g \in joined : ~Complete(g)}
     /\ nudges' = nudges \cup {GroupNudge(g) : g \in {j \in joined : Complete(j)}}
                         \cup {AgentNudge(a) : a \in {x \in told : ~Member(x)}}

\* completedAt is set.
Ended(a) == status[a] \in {"ended", "stopped"}
Unasked(a) == a \in known /\ Ended(a) /\ a \notin consumed

\* Mutant of FinalizeBatch: the new group does not hear of earlier completions.
FinalizeBatchForgetful ==
  /\ batch # {}
  /\ batch' = {}
  /\ IF Cardinality(batch) >= 2
     THEN groups' = groups \cup {Group(batch, {})} /\ UNCHANGED nudges
     ELSE /\ nudges' = nudges \cup {AgentNudge(a) : a \in {x \in batch : Unasked(x)}}
          /\ UNCHANGED groups
  /\ UNCHANGED <<managerVars, consumed, sent>>

\* The batch timer: several agents become a group that holds the members that
\* have ended, a single one is reported by itself.
FinalizeBatch ==
  /\ batch # {}
  /\ batch' = {}
  /\ LET ended == {a \in batch : Unasked(a)}
         group == Group(batch, ended)
     IN IF Cardinality(batch) >= 2
        THEN IF Complete(group)
             THEN nudges' = nudges \cup {GroupNudge(group)} /\ UNCHANGED groups
             ELSE groups' = groups \cup {group} /\ UNCHANGED nudges
        ELSE nudges' = nudges \cup {AgentNudge(a) : a \in ended} /\ UNCHANGED groups
  /\ UNCHANGED <<managerVars, consumed, sent>>

\* The timer of a group: what it holds is delivered, the stragglers stay.
GroupTimeout(g) ==
  /\ g.timer
  /\ groups' = (groups \ {g}) \cup {Group(g.members \ g.done, {})}
  /\ nudges' = nudges \cup {[key |-> "group", about |-> g.done]}
  /\ UNCHANGED <<managerVars, batch, consumed, sent>>

\* The message goes out, about those the planner has not asked for meanwhile.
SendNudge(n) ==
  /\ nudges' = nudges \ {n}
  /\ sent' = [a \in Agents |-> IF a \in n.about \ consumed THEN sent[a] + 1 ELSE sent[a]]
  /\ UNCHANGED <<managerVars, batch, groups, consumed>>

\* get_subagent_result, of an agent that ended, or with wait: true of one that
\* runs.  (For a foreground agent nothing reads the mark.)
GetResult(a) ==
  /\ a \in (known \cap Background) \ consumed
  /\ status[a] # "queued"
  /\ consumed' = consumed \cup {a}
  /\ nudges' = nudges \ {AgentNudge(a)}
  /\ UNCHANGED <<managerVars, batch, groups, sent>>

-----------------------------------------------------------------------------
(* The manager's actions with their callbacks *)

Spawns(a) ==
  /\ SpawnQueued(a) \/ SpawnStarted(a)
  /\ batch' = IF a \in Background THEN batch \cup {a} ELSE batch
  /\ UNCHANGED <<groups, nudges, consumed, sent>>

\* What drainQueue could not start has ended as well.
Failed == {x \in Agents : run[x] # "failed" /\ run'[x] = "failed"}
Reported(a) == {a} \cap Background

Ends(a) ==
  /\ RunEnds(a) \/ RecordThrows(a)
  /\ OnComplete(Reported(a) \cup Failed)
  /\ UNCHANGED <<batch, consumed, sent>>

Limits_(limit) ==
  /\ SetMaxConcurrent(limit)
  /\ OnComplete(Failed)
  /\ UNCHANGED <<batch, consumed, sent>>

Quietly(a) == Quiet(a) /\ UNCHANGED noticeVars
RemoveQuietly == (\E gone \in SUBSET known : Remove(gone)) /\ UNCHANGED noticeVars

\* The pending messages are dropped; the timers of batch and groups go on.
ShutdownAll == Shutdown /\ nudges' = {} /\ UNCHANGED <<batch, groups, consumed, sent>>

Next ==
  \/ \E a \in Agents : Spawns(a) \/ Ends(a) \/ Quietly(a) \/ GetResult(a)
  \/ \E limit \in Limits : Limits_(limit)
  \/ RemoveQuietly \/ ShutdownAll
  \/ FinalizeBatch
  \/ \E g \in groups : GroupTimeout(g)
  \/ \E n \in nudges : SendNudge(n)

\* Every run ends, by its duration limit at the latest (agent-runner.ts:648), and
\* timers fire.  As runs, timers and messages are finitely many, one condition
\* for each kind is enough.
Fairness ==
  /\ WF_allVars(\E a \in Background : Ends(a))
  /\ WF_allVars(FinalizeBatch)
  /\ WF_allVars(\E g \in groups : GroupTimeout(g))
  /\ WF_allVars(\E n \in nudges : SendNudge(n))

Spec == Init /\ [][Next]_allVars /\ Fairness

-----------------------------------------------------------------------------
(* Properties *)

NoticeTypeOK ==
  /\ batch \subseteq Background /\ consumed \subseteq Background
  /\ \A g \in groups : /\ g.members \subseteq Background /\ g.done \subseteq g.members
                       /\ g.timer \in BOOLEAN
  /\ \A n \in nudges : n.about \subseteq Background
  /\ sent \in [Agents -> Nat]

\* A result the planner has not asked for, nor had from a resumed attempt, is
\* always on its way: its agent waits in the batch, is held by a group whose
\* timer runs, is in a message about to be sent, or was in one that was.
ResultsAreTracked ==
  \A a \in known \cap Background :
    run[a] \in {"settled", "recounted", "failed"} /\ a \notin consumed
      /\ continued[a] + finalized[a] = 0
    => \/ a \in batch \/ sent[a] > 0
       \/ \E g \in groups : a \in g.done /\ g.timer
       \/ \E n \in nudges : a \in n.about

\* No agent is reported twice, by a group and by itself, by a timer and by the
\* last completion, or by the batch and by the callback.
ReportedOnce == \A a \in Agents : sent[a] <= 1

\* An agent in the queue leaves it, unless a slot leaked or a completion handler
\* died before it served the queue.
QueuedAgentsLeave ==
  \A a \in Background :
    status[a] = "queued" ~>
      (status[a] # "queued" \/ \E b \in Agents : run[b] \in Unrecorded \cup {"leaked"})

\* The manager, the batches, the groups and the timers implement AgentResults.
Result(a) ==
  IF run[a] \in {"none", "pending", "leaked"} THEN "working"
  ELSE IF run[a] \in Unrecorded THEN "lost"
  ELSE IF a \in consumed \/ a \notin known \/ sent[a] > 0 \/ continued[a] + finalized[a] > 0
       THEN "settled" ELSE "owed"

Promise == INSTANCE AgentResults
             WITH Agents <- Background, result <- [a \in Background |-> Result(a)]
ResultsReachThePlanner == Promise!Spec
=============================================================================
