----------------------------- MODULE AgentResults -----------------------------
(***************************************************************************)
(* What a background agent promises its planner, whatever the manager, the  *)
(* batches, the groups and the timers do: the result of a run that ended is *)
(* owed to the planner until it is told or asks for it, it is told in the   *)
(* end, and once settled a result is never owed again.  A result is lost    *)
(* only in the turn in which the run ends.                                  *)
(***************************************************************************)
CONSTANT Agents

VARIABLE result

Changes == {<<"working", "owed">>, <<"working", "settled">>, <<"working", "lost">>,
            <<"owed", "settled">>}

Init == result = [a \in Agents |-> "working"]

\* Several results may change in one turn.
Next ==
  /\ DOMAIN result' = Agents
  /\ \A a \in Agents : result'[a] = result[a] \/ <<result[a], result'[a]>> \in Changes

Told == \A a \in Agents : result[a] = "owed" ~> result[a] = "settled"

Spec == Init /\ [][Next]_result /\ Told
=============================================================================
