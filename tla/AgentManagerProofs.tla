------------------------- MODULE AgentManagerProofs --------------------------
(***************************************************************************)
(* Theorems about AgentManager, alone and under AgentNotifications: for any *)
(* agents, limits and numbers of attempts.                                  *)
(*                                                                          *)
(* Consistent says which records, promises and queue entries go together;   *)
(* it makes a queued agent one that has not run, and so keeps completions,  *)
(* resumes and the queue apart.  Balance is what the slot counter ought to  *)
(* be for what became of the runs.                                          *)
(*                                                                          *)
(* OnePlace says that an agent is in one of batch, groups, messages and     *)
(* what was sent at a time, in that order; with the tracking of results it  *)
(* gives that each is reported, and once.                                   *)
(***************************************************************************)
EXTENDS AgentNotifications, FiniteSetTheorems, TLAPS

\* Of an agent: is it in the map, its status, run and session, the resumes in
\* flight, and whether it is in the queue.
Consistent(inMap, st, rn, ses, res, waits) ==
  /\ ~inMap => st = "none" /\ ~ses
  /\ inMap => st # "none"
  /\ waits <=> inMap /\ st = "queued"
  /\ waits => rn = "none"
  /\ ses => rn \notin {"none", "pending"}
  /\ res <= 1
  /\ res > 0 => rn \notin {"none", "pending"} /\ (inMap => st = "running")
  /\ inMap /\ st = "running" => rn = "pending" \/ res > 0

Once(q) == \A i, j \in 1..Len(q) : q[i] = q[j] => i = j

RecordInv ==
  /\ ManagerTypeOK /\ Queued \subseteq Background /\ Once(queue)
  /\ \A a \in Agents :
       Consistent(a \in known, status[a], run[a], session[a], resuming[a], a \in Queued)

Count(rn, r) == Cardinality({a \in Background : rn[a] = r})
Balance(rn) == Count(rn, "pending") + Count(rn, "leaked") - Count(rn, "recounted") - Count(rn, "lost")

-----------------------------------------------------------------------------
(* Counting runs *)

\* The agents of a set whose run is r can be counted.
LEMMA CountType ==
  ASSUME NEW rn, NEW r
  PROVE  IsFiniteSet({a \in Background : rn[a] = r}) /\ Count(rn, r) \in Nat
<1>1. {a \in Background : rn[a] = r} \subseteq Agents
  BY AgentsAssumption
<1> QED
  BY <1>1, AgentsFinite, FS_Subset, FS_CardinalityType DEF Count

\* One background agent whose run becomes v is counted there instead.
LEMMA CountMoves ==
  ASSUME NEW rn, NEW rn2, NEW b \in Background, NEW v, NEW r, rn[b] # v,
         \A a \in Background : rn2[a] = IF a = b THEN v ELSE rn[a]
  PROVE  Count(rn2, r) =
           IF r = v THEN Count(rn, r) + 1
           ELSE IF r = rn[b] THEN Count(rn, r) - 1 ELSE Count(rn, r)
<1> DEFINE S == {a \in Background : rn[a] = r}
           T == {a \in Background : rn2[a] = r}
<1>1. IsFiniteSet(S)
  BY CountType
<1>3. CASE r = v
  <2>1. T = S \cup {b} /\ b \notin S
    BY <1>3
  <2>2. Cardinality(T) = Cardinality(S) + 1
    BY <1>1, <2>1, FS_AddElement
  <2> QED
    BY <1>3, <2>2 DEF Count
<1>4. CASE r # v /\ r = rn[b]
  <2>1. T = S \ {b} /\ b \in S
    BY <1>4
  <2>2. Cardinality(T) = Cardinality(S) - 1
    BY <1>1, <2>1, FS_RemoveElement
  <2> QED
    BY <1>4, <2>2 DEF Count
<1>5. CASE r # v /\ r # rn[b]
  <2>1. T = S
    BY <1>5
  <2> QED
    BY <1>5, <2>1 DEF Count
<1> QED
  BY <1>3, <1>4, <1>5

\* What a run counts for in the balance.
Weight(r) == IF r \in {"pending", "leaked"} THEN 1 ELSE IF r \in {"recounted", "lost"} THEN -1 ELSE 0

\* The balance moves by the difference of the weights.
LEMMA BalanceMoves ==
  ASSUME NEW rn, NEW rn2, NEW b \in Background, NEW v, rn[b] # v,
         \A a \in Background : rn2[a] = IF a = b THEN v ELSE rn[a]
  PROVE  Balance(rn2) = Balance(rn) + Weight(v) - Weight(rn[b])
<1> DEFINE Moved(r) == IF r = v THEN Count(rn, r) + 1
                       ELSE IF r = rn[b] THEN Count(rn, r) - 1 ELSE Count(rn, r)
<1>1. Count(rn2, "pending") = Moved("pending")
  BY CountMoves
<1>2. Count(rn2, "leaked") = Moved("leaked")
  BY CountMoves
<1>3. Count(rn2, "recounted") = Moved("recounted")
  BY CountMoves
<1>4. Count(rn2, "lost") = Moved("lost")
  BY CountMoves
<1>5. \A r : Count(rn, r) \in Nat
  BY CountType
<1> QED
  BY <1>1, <1>2, <1>3, <1>4, <1>5 DEF Balance, Weight

\* A foreground agent takes no slot.
LEMMA CountForeground ==
  ASSUME NEW rn, NEW rn2, NEW b \in Agents \ Background,
         \A a \in Background : a # b => rn2[a] = rn[a]
  PROVE  Balance(rn2) = Balance(rn)
<1>1. \A r : {a \in Background : rn2[a] = r} = {a \in Background : rn[a] = r}
  OBVIOUS
<1> QED
  BY <1>1 DEF Count, Balance

\* Agents that had not run are counted where their runs are now.
LEMMA CountBegun ==
  ASSUME NEW rn, NEW rn2, NEW begun \in SUBSET Background, NEW broken \in SUBSET Background,
         begun \cap broken = {}, \A a \in begun \cup broken : rn[a] = "none",
         \A a \in Background : rn2[a] = IF a \in begun THEN "pending"
                                        ELSE IF a \in broken THEN "failed" ELSE rn[a]
  PROVE  Balance(rn2) = Balance(rn) + Cardinality(begun)
<1>1. IsFiniteSet(begun)
  BY AgentsAssumption, AgentsFinite, FS_Subset
<1>2. \A r \in {"leaked", "recounted", "lost"} : Count(rn2, r) = Count(rn, r)
  <2>1. \A r \in {"leaked", "recounted", "lost"} :
          {a \in Background : rn2[a] = r} = {a \in Background : rn[a] = r}
    OBVIOUS
  <2> QED
    BY <2>1 DEF Count
<1>3. Count(rn2, "pending") = Count(rn, "pending") + Cardinality(begun)
  <2> DEFINE S == {a \in Background : rn[a] = "pending"}
             T == {a \in Background : rn2[a] = "pending"}
  <2>1. T = S \cup begun /\ S \cap begun = {}
    OBVIOUS
  <2>2. IsFiniteSet(S) /\ Cardinality(S) \in Nat /\ Cardinality(begun) \in Nat
    BY <1>1, CountType, FS_CardinalityType
  <2>3. Cardinality(S \cup begun) = Cardinality(S) + Cardinality(begun) - Cardinality(S \cap begun)
    BY <1>1, <2>2, FS_Union
  <2>4. Cardinality(S \cap begun) = 0
    BY <2>1, FS_EmptySet
  <2> HIDE DEF S, T
  <2>5. Cardinality(T) = Cardinality(S) + Cardinality(begun)
    BY <2>1, <2>2, <2>3, <2>4
  <2> QED
    BY <2>5 DEF Count, S, T
<1>4. \A r : Count(rn, r) \in Nat
  BY CountType
<1>5. Cardinality(begun) \in Nat
  BY <1>1, FS_CardinalityType
<1> QED
  BY <1>2, <1>3, <1>4, <1>5 DEF Balance

-----------------------------------------------------------------------------
(* The queue *)

\* What leaves the queue, and what drainQueue does to the agents it takes.
DrainedTo(begun, broken, st, rn, sl, limit) ==
  /\ begun \cap broken = {}
  /\ queue' \in Seq(Agents) /\ Once(queue') /\ Queued' = Queued \ (begun \cup broken)
  /\ slots' = sl + Cardinality(begun)
  /\ Len(queue') > 0 => slots' >= limit
  /\ status' \in [Agents -> Statuses] /\ run' \in [Agents -> Runs]
  /\ \A x \in Agents :
       /\ status'[x] = IF x \in begun THEN "running"
                       ELSE IF x \in broken THEN "ended" ELSE st[x]
       /\ run'[x] = IF x \in begun THEN "pending"
                    ELSE IF x \in broken THEN "failed" ELSE rn[x]

\* drainQueue does it to the first entries of the queue.
LEMMA DrainEffect ==
  ASSUME queue \in Seq(Agents), Queued \subseteq Background, Once(queue),
         NEW st \in [Agents -> Statuses], NEW rn \in [Agents -> Runs], NEW sl \in Int, NEW limit \in Nat,
         DrainQueue(st, rn, sl, limit)
  PROVE  \E begun, broken \in SUBSET Queued : DrainedTo(begun, broken, st, rn, sl, limit)
<1> DEFINE Drained(n, broken) ==
        /\ \A i \in 1..n : sl + Cardinality((Heads(n) \ broken) \cap Heads(i - 1)) < limit
        /\ n < Len(queue) => sl + Cardinality(Heads(n) \ broken) >= limit
        /\ queue' = SubSeq(queue, n + 1, Len(queue))
        /\ slots' = sl + Cardinality(Heads(n) \ broken)
        /\ status' = [x \in Agents |-> IF x \in Heads(n) \ broken THEN "running"
                                       ELSE IF x \in broken THEN "ended" ELSE st[x]]
        /\ run' = [x \in Agents |-> IF x \in Heads(n) \ broken THEN "pending"
                                    ELSE IF x \in broken THEN "failed" ELSE rn[x]]
<1>0. PICK n \in 0..Len(queue) : \E broken \in SUBSET (Heads(n) \cap Fragile) : Drained(n, broken)
  BY Zenon DEF DrainQueue
<1>1. PICK broken \in SUBSET (Heads(n) \cap Fragile) : Drained(n, broken)
  BY <1>0
<1> DEFINE begun == Heads(n) \ broken
<1>2. Len(queue) \in Nat /\ n \in Nat /\ n <= Len(queue)
  OBVIOUS
<1>3. /\ queue' \in Seq(Agents) /\ Len(queue') = Len(queue) - n
      /\ \A i \in 1..Len(queue') : queue'[i] = queue[n + i]
  BY <1>1, <1>2
<1>4. Heads(n) \subseteq Queued
  BY <1>2 DEF Heads, Queued
<1>5. Once(queue')
  <2> SUFFICES ASSUME NEW i \in 1..Len(queue'), NEW j \in 1..Len(queue'), queue'[i] = queue'[j]
               PROVE  i = j
    BY DEF Once
  <2>1. n + i \in 1..Len(queue) /\ n + j \in 1..Len(queue)
    BY <1>2, <1>3
  <2>2. queue[n + i] = queue[n + j]
    BY <1>3
  <2>3. n + i = n + j
    BY <2>1, <2>2 DEF Once
  <2> QED
    BY <2>3
<1>6. Queued' = Queued \ Heads(n)
  <2>1. ASSUME NEW x \in Queued' PROVE x \in Queued \ Heads(n)
    <3>1. PICK i \in 1..Len(queue') : x = queue'[i]
      BY DEF Queued
    <3>2. x = queue[n + i] /\ n + i \in 1..Len(queue)
      BY <1>2, <1>3, <3>1
    <3>3. \A j \in 1..n : queue[j] # queue[n + i]
      BY <1>2, <3>2 DEF Once
    <3> QED
      BY <3>2, <3>3 DEF Queued, Heads
  <2>2. ASSUME NEW x \in Queued, x \notin Heads(n) PROVE x \in Queued'
    <3>1. PICK i \in 1..Len(queue) : x = queue[i]
      BY DEF Queued
    <3>2. i \notin 1..n
      BY <2>2, <3>1 DEF Heads
    <3>3. i - n \in 1..Len(queue') /\ queue'[i - n] = x
      BY <1>2, <1>3, <3>1, <3>2
    <3> QED
      BY <3>3 DEF Queued
  <2> QED
    BY <2>1, <2>2
<1>7. begun \in SUBSET Queued /\ broken \in SUBSET Queued /\ begun \cap broken = {}
      /\ begun \cup broken = Heads(n)
  BY <1>1, <1>4
<1>8. Len(queue') > 0 => slots' >= limit
  BY <1>1, <1>2, <1>3
<1>9. status' \in [Agents -> Statuses] /\ run' \in [Agents -> Runs]
  BY <1>1 DEF Statuses, Runs
<1>10. \A x \in Agents :
         /\ status'[x] = IF x \in begun THEN "running"
                         ELSE IF x \in broken THEN "ended" ELSE st[x]
         /\ run'[x] = IF x \in begun THEN "pending"
                      ELSE IF x \in broken THEN "failed" ELSE rn[x]
  BY <1>1
<1>11. slots' = sl + Cardinality(begun) /\ Queued' = Queued \ (begun \cup broken)
  BY <1>1, <1>6, <1>7
<1> HIDE DEF Drained, begun
<1>12. DrainedTo(begun, broken, st, rn, sl, limit)
  BY <1>3, <1>5, <1>7, <1>8, <1>9, <1>10, <1>11, Zenon DEF DrainedTo
<1> QED
  BY <1>7, <1>12, Zenon

-----------------------------------------------------------------------------
(* The invariant of the manager *)

ManagerInv == RecordInv /\ slots = Balance(run) /\ QueueServed

\* Serving the queue keeps the invariant if what was done before it in the turn
\* left records that are consistent.
LEMMA DrainKeeps ==
  ASSUME RecordInv, NEW st \in [Agents -> Statuses], NEW rn \in [Agents -> Runs],
         NEW sl \in Int, sl = Balance(rn), NEW limit \in Limits, DrainQueue(st, rn, sl, limit),
         maxConcurrent' = limit, session' \in [Agents -> BOOLEAN],
         UNCHANGED <<known, resuming, continued, finalized, finished, disposed>>,
         \A a \in Agents :
           Consistent(a \in known, st[a], rn[a], session'[a], resuming[a], a \in Queued)
  PROVE  ManagerInv'
<1>1. queue \in Seq(Agents) /\ Queued \subseteq Background /\ Once(queue) /\ limit \in Nat
  BY LimitsAssumption DEF RecordInv, ManagerTypeOK
<1>2. PICK begun \in SUBSET Queued, broken \in SUBSET Queued : DrainedTo(begun, broken, st, rn, sl, limit)
  BY <1>1, DrainEffect
<1> USE DEF DrainedTo
<1>3. begun \subseteq Background /\ broken \subseteq Background /\ Background \subseteq Agents
  BY <1>1, <1>2, AgentsAssumption
<1>4. \A a \in begun \cup broken : rn[a] = "none"
  BY <1>2, <1>3 DEF Consistent
<1>5. slots' = Balance(run')
  <2>1. Balance(run') = Balance(rn) + Cardinality(begun)
    <3>1. \A a \in Background : run'[a] = IF a \in begun THEN "pending"
                                         ELSE IF a \in broken THEN "failed" ELSE rn[a]
      BY <1>2, <1>3
    <3>2. begun \cap broken = {}
      BY <1>2
    <3> QED
      BY <1>3, <1>4, <3>1, <3>2, CountBegun
  <2> QED
    BY <1>2, <2>1
<1>6. Cardinality(begun) \in Nat
  BY <1>3, AgentsFinite, FS_Subset, FS_CardinalityType
<1>7. ManagerTypeOK'
  BY <1>2, <1>6 DEF ManagerTypeOK, RecordInv
<1>8. \A a \in Agents :
        Consistent(a \in known, status[a], run[a], session[a], resuming[a], a \in Queued)'
  <2> SUFFICES ASSUME NEW a \in Agents
               PROVE  Consistent(a \in known, status'[a], run'[a], session'[a], resuming[a], a \in Queued')
    OBVIOUS
  <2>1. Consistent(a \in known, st[a], rn[a], session'[a], resuming[a], a \in Queued)
    OBVIOUS
  <2>2. resuming[a] \in Nat
    BY DEF RecordInv, ManagerTypeOK
  <2>3. CASE a \in begun
    <3>1. status'[a] = "running" /\ run'[a] = "pending" /\ a \in Queued /\ a \notin Queued'
      BY <1>2, <2>3
    <3> QED
      BY <2>1, <2>2, <3>1 DEF Consistent
  <2>4. CASE a \in broken
    <3>1. status'[a] = "ended" /\ run'[a] = "failed" /\ a \in Queued /\ a \notin Queued'
      BY <1>2, <2>4
    <3> QED
      BY <2>1, <2>2, <3>1 DEF Consistent
  <2>5. CASE a \notin begun \cup broken
    <3>1. status'[a] = st[a] /\ run'[a] = rn[a] /\ (a \in Queued <=> a \in Queued')
      BY <1>2, <2>5
    <3> QED
      BY <2>1, <3>1 DEF Consistent
  <2> QED
    BY <2>3, <2>4, <2>5
<1>9. Queued' \subseteq Background /\ Once(queue)' /\ QueueServed'
  BY <1>1, <1>2 DEF QueueServed, Once
<1> QED
  BY <1>5, <1>7, <1>8, <1>9 DEF ManagerInv, RecordInv

\* Spawning keeps it.
LEMMA SpawnKeeps ==
  ASSUME ManagerInv, NEW a \in Agents, SpawnQueued(a) \/ SpawnStarted(a) \/ SpawnThrows(a)
  PROVE  ManagerInv'
<1>0. /\ ManagerTypeOK /\ Queued \subseteq Background /\ Once(queue)
      /\ \A x \in Agents :
           Consistent(x \in known, status[x], run[x], session[x], resuming[x], x \in Queued)
      /\ slots = Balance(run) /\ QueueServed
  BY DEF ManagerInv, RecordInv
<1>1. a \notin known /\ run[a] = "none" /\ a \notin Queued
  BY <1>0 DEF SpawnQueued, SpawnStarted, SpawnThrows, Unborn, Consistent
<1>2. CASE SpawnQueued(a)
  <2>1. /\ a \in Background /\ slots >= maxConcurrent
        /\ queue' = Append(queue, a) /\ known' = known \cup {a}
        /\ UNCHANGED <<slots, maxConcurrent, run, resuming, session>>
    BY <1>0, <1>2, LimitsAssumption DEF SpawnQueued, MayStart, ManagerTypeOK, attemptVars
  <2>2. \A x \in Agents : status'[x] = IF x = a THEN "queued" ELSE status[x]
    BY <1>0, <1>2 DEF SpawnQueued, ManagerTypeOK
  <2>3. ManagerTypeOK'
    BY <1>0, <1>2 DEF SpawnQueued, ManagerTypeOK, Statuses, attemptVars
  <2>4. /\ queue \in Seq(Agents) /\ Len(queue') = Len(queue) + 1 /\ queue'[Len(queue) + 1] = a
        /\ \A k \in 1..Len(queue) : queue'[k] = queue[k]
    BY <1>0, <2>1 DEF ManagerTypeOK
  <2>5. Queued' = Queued \cup {a}
    <3>1. \A k \in 1..Len(queue') : queue'[k] \in Queued \cup {a}
      BY <2>4 DEF Queued
    <3>2. \A k \in 1..Len(queue) : queue[k] \in Queued'
      BY <2>4 DEF Queued
    <3>3. a \in Queued'
      BY <2>4 DEF Queued
    <3> QED
      BY <3>1, <3>2, <3>3 DEF Queued
  <2>6. Once(queue)'
    <3> SUFFICES ASSUME NEW j \in 1..Len(queue'), NEW k \in 1..Len(queue'), queue'[j] = queue'[k]
                 PROVE  j = k
      BY DEF Once
    <3>1. \A l \in 1..Len(queue) : queue[l] # a
      BY <1>1 DEF Queued
    <3>2. CASE j \in 1..Len(queue) /\ k \in 1..Len(queue)
      BY <1>0, <2>4, <3>2 DEF Once
    <3>3. CASE j = Len(queue) + 1 \/ k = Len(queue) + 1
      BY <2>4, <3>1, <3>3
    <3> QED
      BY <2>4, <3>2, <3>3
  <2>7. \A x \in Agents :
          Consistent(x \in known, status[x], run[x], session[x], resuming[x], x \in Queued)'
    <3> SUFFICES ASSUME NEW x \in Agents
                 PROVE  Consistent(x \in known', status'[x], run[x], session[x], resuming[x], x \in Queued')
      BY <2>1
    <3>1. Consistent(x \in known, status[x], run[x], session[x], resuming[x], x \in Queued)
      BY <1>0
    <3> QED
      BY <1>1, <2>1, <2>2, <2>5, <3>1 DEF Consistent
  <2> QED
    BY <1>0, <2>1, <2>3, <2>5, <2>6, <2>7 DEF ManagerInv, RecordInv, QueueServed
<1>3. ASSUME NEW r \in {"pending", "leaked"}, run' = [run EXCEPT ![a] = r],
             slots' = slots + Taken(a), UNCHANGED <<queue, maxConcurrent, resuming, session>>,
             ManagerTypeOK',
             \A x \in Agents \ {a} : status'[x] = status[x] /\ (x \in known <=> x \in known'),
             IF r = "pending" THEN a \in known' /\ status'[a] = "running"
             ELSE a \notin known' /\ status'[a] = status[a]
      PROVE  ManagerInv'
  <2>1. run \in [Agents -> Runs]
    BY <1>0 DEF ManagerTypeOK
  <2>2. slots' = Balance(run')
    <3>1. CASE a \in Background
      <4>1. run[a] # r /\ run[a] = "none"
        BY <1>1, <1>3
      <4>2. \A x \in Background : run'[x] = IF x = a THEN r ELSE run[x]
        BY <1>3, <2>1, AgentsAssumption
      <4>3. Balance(run') = Balance(run) + Weight(r) - Weight("none")
        BY <3>1, <4>1, <4>2, BalanceMoves
      <4> QED
        BY <1>0, <1>3, <3>1, <4>3 DEF Weight, Taken, ManagerTypeOK
    <3>2. CASE a \notin Background
      <4>1. \A x \in Background : x # a => run'[x] = run[x]
        BY <1>3, <2>1, AgentsAssumption
      <4>2. Balance(run') = Balance(run)
        BY <3>2, <4>1, CountForeground
      <4> QED
        BY <1>0, <1>3, <3>2, <4>2 DEF Taken, ManagerTypeOK
    <3> QED
      BY <3>1, <3>2
  <2>3. \A x \in Agents : run'[x] = IF x = a THEN r ELSE run[x]
    BY <1>3, <2>1
  <2>4. \A x \in Agents :
          Consistent(x \in known, status[x], run[x], session[x], resuming[x], x \in Queued)'
    <3> SUFFICES ASSUME NEW x \in Agents
                 PROVE  Consistent(x \in known', status'[x], run'[x], session[x], resuming[x], x \in Queued)
      BY <1>3 DEF Queued
    <3>1. Consistent(x \in known, status[x], run[x], session[x], resuming[x], x \in Queued)
      BY <1>0
    <3>2. resuming[x] \in Nat
      BY <1>0 DEF ManagerTypeOK
    <3>3. CASE x = a
      BY <1>1, <1>3, <2>3, <3>1, <3>2, <3>3 DEF Consistent
    <3>4. CASE x # a
      BY <1>3, <2>3, <3>1, <3>4 DEF Consistent
    <3> QED
      BY <3>3, <3>4
  <2>5. QueueServed'
    <3>1. slots' >= slots
      BY <1>0, <1>3 DEF Taken, ManagerTypeOK
    <3>2. ASSUME \A x \in Agents : run'[x] \notin Unrecorded
          PROVE  \A x \in Agents : run[x] \notin Unrecorded
      BY <1>1, <2>3, <3>2 DEF Unrecorded
    <3>3. slots \in Int /\ slots' \in Int /\ maxConcurrent \in Int
      BY <1>0, <1>3, LimitsAssumption DEF ManagerTypeOK
    <3> QED
      BY <1>0, <1>3, <3>1, <3>2, <3>3 DEF QueueServed
  <2> QED
    BY <1>0, <1>3, <2>2, <2>4, <2>5 DEF ManagerInv, RecordInv, Queued, Once
<1>4. CASE SpawnStarted(a)
  <2>1. ManagerTypeOK'
    BY <1>0, <1>4 DEF SpawnStarted, ManagerTypeOK, Statuses, Runs, Taken, attemptVars
  <2>2. /\ \A x \in Agents \ {a} : status'[x] = status[x] /\ (x \in known <=> x \in known')
        /\ a \in known' /\ status'[a] = "running"
    BY <1>0, <1>4 DEF SpawnStarted, ManagerTypeOK
  <2> QED
    BY <1>3, <1>4, <2>1, <2>2 DEF SpawnStarted, attemptVars
<1>5. CASE SpawnThrows(a)
  <2>1. ManagerTypeOK'
    BY <1>0, <1>5 DEF SpawnThrows, ManagerTypeOK, Runs, Taken, attemptVars
  <2> QED
    BY <1>1, <1>3, <1>5, <2>1 DEF SpawnThrows, attemptVars
<1> QED
  BY <1>2, <1>4, <1>5

\* So does a turn that starts and ends no run, if its records are consistent.
LEMMA RecordsKeep ==
  ASSUME ManagerInv, ManagerTypeOK', UNCHANGED <<run, slots, maxConcurrent>>,
         queue' = queue \/ queue' = <<>>,
         \A x \in Agents :
           Consistent(x \in known', status'[x], run[x], session'[x], resuming'[x], x \in Queued')
  PROVE  ManagerInv'
<1>1. slots' = Balance(run')
  BY DEF ManagerInv
<1>2. CASE queue' = queue
  <2>1. Queued' \subseteq Background /\ Once(queue)' /\ QueueServed'
    BY <1>2 DEF ManagerInv, RecordInv, Queued, Once, QueueServed
  <2> QED
    BY <1>1, <2>1 DEF ManagerInv, RecordInv
<1>3. CASE queue' = <<>>
  <2>1. Len(queue') = 0
    BY <1>3
  <2>2. Queued' = {}
    BY <2>1 DEF Queued
  <2>3. Queued' \subseteq Background /\ Once(queue)' /\ QueueServed'
    BY <2>1, <2>2 DEF Once, QueueServed
  <2> QED
    BY <1>1, <2>3 DEF ManagerInv, RecordInv
<1> QED
  BY <1>2, <1>3

\* The end of a run leaves its record consistent, whatever the handlers do.
LEMMA EndConsistent ==
  ASSUME RecordInv, NEW a \in Agents, run[a] = "pending",
         NEW v \in Runs \ {"none", "pending"}, NEW made \in BOOLEAN,
         session' = [session EXCEPT ![a] = made /\ a \in known]
  PROVE  /\ AfterEnd(a) \in [Agents -> Statuses] /\ session' \in [Agents -> BOOLEAN]
         /\ [run EXCEPT ![a] = v] \in [Agents -> Runs]
         /\ \A x \in Agents :
              Consistent(x \in known, AfterEnd(a)[x], [run EXCEPT ![a] = v][x],
                         session'[x], resuming[x], x \in Queued)
<1>1. ManagerTypeOK /\ \A x \in Agents :
        Consistent(x \in known, status[x], run[x], session[x], resuming[x], x \in Queued)
  BY DEF RecordInv
<1>2. AfterEnd(a) \in [Agents -> Statuses] /\ [run EXCEPT ![a] = v] \in [Agents -> Runs]
  BY <1>1 DEF AfterEnd, ManagerTypeOK, Statuses
<1>3. session' \in [Agents -> BOOLEAN]
  <2>1. (made /\ a \in known) \in BOOLEAN /\ session \in [Agents -> BOOLEAN]
    BY <1>1 DEF ManagerTypeOK
  <2> QED
    BY <2>1
<1>4. ASSUME NEW x \in Agents
      PROVE  Consistent(x \in known, AfterEnd(a)[x], [run EXCEPT ![a] = v][x],
                        session'[x], resuming[x], x \in Queued)
  <2>1. Consistent(x \in known, status[x], run[x], session[x], resuming[x], x \in Queued)
    BY <1>1
  <2>2. resuming[x] \in Nat
    BY <1>1 DEF ManagerTypeOK
  <2>3. CASE x = a
    <3>1. AfterEnd(a)[a] = IF status[a] \in {"none", "stopped"} THEN status[a] ELSE "ended"
      BY <1>1 DEF AfterEnd, ManagerTypeOK
    <3>2. [run EXCEPT ![a] = v][a] = v /\ (session'[a] => a \in known)
      BY <1>1 DEF ManagerTypeOK
    <3>3. v \notin {"none", "pending"} /\ run[a] = "pending"
      OBVIOUS
    <3> HIDE DEF AfterEnd
    <3> QED
      BY <2>1, <2>2, <2>3, <3>1, <3>2, <3>3 DEF Consistent
  <2>4. CASE x # a
    <3>1. AfterEnd(a)[x] = status[x] /\ [run EXCEPT ![a] = v][x] = run[x]
      BY <1>1, <2>4 DEF AfterEnd, ManagerTypeOK
    <3>2. session'[x] = session[x]
      BY <1>1, <2>4 DEF ManagerTypeOK
    <3> QED
      BY <2>1, <3>1, <3>2 DEF Consistent
  <2> QED
    BY <2>3, <2>4
<1> QED
  BY <1>2, <1>3, <1>4

\* A background run that ends serves the queue, with the slots that are counted.
LEMMA EndServes ==
  ASSUME ManagerInv, NEW a \in Background, run[a] = "pending",
         NEW v \in {"settled", "recounted"}, NEW made \in BOOLEAN,
         session' = [session EXCEPT ![a] = made /\ a \in known],
         NEW sl, sl = slots - 1 + Weight(v),
         DrainQueue(AfterEnd(a), [run EXCEPT ![a] = v], sl, maxConcurrent),
         UNCHANGED <<known, maxConcurrent, resuming, continued, finalized, finished, disposed>>
  PROVE  ManagerInv'
<1> DEFINE rn == [run EXCEPT ![a] = v]
<1>1. RecordInv /\ ManagerTypeOK /\ slots = Balance(run) /\ a \in Agents /\ v \in Runs \ {"none", "pending"}
  BY AgentsAssumption DEF ManagerInv, RecordInv, Runs
<1>2. /\ AfterEnd(a) \in [Agents -> Statuses] /\ session' \in [Agents -> BOOLEAN]
      /\ rn \in [Agents -> Runs]
      /\ \A x \in Agents :
           Consistent(x \in known, AfterEnd(a)[x], rn[x], session'[x], resuming[x], x \in Queued)
  BY <1>1, EndConsistent
<1>3. \A x \in Background : rn[x] = IF x = a THEN v ELSE run[x]
  BY <1>1, AgentsAssumption DEF ManagerTypeOK
<1>4. maxConcurrent' = maxConcurrent /\ maxConcurrent \in Limits /\ run[a] # v
      /\ UNCHANGED <<known, resuming, continued, finalized, finished, disposed>>
  BY <1>1 DEF ManagerTypeOK
<1>5. DrainQueue(AfterEnd(a), rn, sl, maxConcurrent)
  OBVIOUS
<1>6. Balance(rn) = Balance(run) + Weight(v) - Weight(run[a])
  <2> HIDE DEF rn
  <2> QED
    BY ONLY a \in Background, <1>3, <1>4, BalanceMoves
<1>7. sl = Balance(rn) /\ sl \in Int
  BY <1>1, <1>6 DEF Weight, ManagerTypeOK
<1> QED
  BY <1>1, <1>2, <1>4, <1>5, <1>7, DrainKeeps

\* The end of a run keeps the invariant.
LEMMA RunEndsKeeps ==
  ASSUME ManagerInv, NEW a \in Agents, RunEnds(a) \/ RecordThrows(a) \/ RecordThrowsLast(a)
  PROVE  ManagerInv'
<1>1. /\ RecordInv /\ ManagerTypeOK /\ slots = Balance(run) /\ QueueServed
      /\ Queued \subseteq Background /\ Once(queue)
  BY DEF ManagerInv, RecordInv
<1>2. ASSUME NEW v \in Runs \ {"none", "pending"}, NEW made \in BOOLEAN, run[a] = "pending",
             session' = [session EXCEPT ![a] = made /\ a \in known],
             status' = AfterEnd(a), run' = [run EXCEPT ![a] = v],
             slots' = IF a \in Background THEN slots - 1 + Weight(v) ELSE slots,
             v \in Unrecorded \/ a \notin Background,
             UNCHANGED <<known, queue, maxConcurrent, resuming, continued, finalized, finished,
                         disposed>>
      PROVE  ManagerInv'
  <2>1. /\ status' \in [Agents -> Statuses] /\ session' \in [Agents -> BOOLEAN]
        /\ run' \in [Agents -> Runs]
        /\ \A x \in Agents :
             Consistent(x \in known, status'[x], run'[x], session'[x], resuming[x], x \in Queued)
    BY <1>1, <1>2, EndConsistent
  <2>2. \A x \in Agents : run'[x] = IF x = a THEN v ELSE run[x]
    BY <1>1, <1>2 DEF ManagerTypeOK
  <2>3. slots' = Balance(run') /\ slots' \in Int
    <3>1. CASE a \in Background
      <4>1. \A x \in Background : run'[x] = IF x = a THEN v ELSE run[x]
        BY <2>2, AgentsAssumption
      <4>2. run[a] # v
        BY <1>2
      <4>3. Balance(run') = Balance(run) + Weight(v) - Weight(run[a])
        BY ONLY <3>1, <4>1, <4>2, BalanceMoves
      <4> QED
        BY <1>1, <1>2, <3>1, <4>3 DEF Weight, ManagerTypeOK
    <3>2. CASE a \notin Background
      <4>1. \A x \in Background : a # x => run'[x] = run[x]
        BY <2>2, AgentsAssumption
      <4>2. Balance(run') = Balance(run)
        BY <3>2, <4>1, CountForeground
      <4> QED
        BY <1>1, <1>2, <3>2, <4>2 DEF ManagerTypeOK
    <3> QED
      BY <3>1, <3>2
  <2>4. ManagerTypeOK'
    BY <1>1, <1>2, <2>1, <2>3 DEF ManagerTypeOK
  <2>5. QueueServed'
    <3>1. CASE v \in Unrecorded
      BY <2>2, <3>1 DEF QueueServed
    <3>2. CASE a \notin Background /\ v \notin Unrecorded
      <4>1. (\A x \in Agents : run'[x] \notin Unrecorded) => \A x \in Agents : run[x] \notin Unrecorded
        BY <1>2, <2>2 DEF Unrecorded
      <4> QED
        BY <1>1, <1>2, <3>2, <4>1 DEF QueueServed
    <3> QED
      BY <1>2, <3>1, <3>2
  <2> QED
    BY <1>1, <1>2, <2>1, <2>3, <2>4, <2>5 DEF ManagerInv, RecordInv, Queued, Once
<1>3. CASE RunEnds(a)
  <2>1. PICK made \in BOOLEAN : session' = [session EXCEPT ![a] = made /\ a \in known]
    BY <1>3 DEF RunEnds
  <2>2. CASE a \in Background
    <3>1. slots - 1 = slots - 1 + Weight("settled")
      BY <1>1 DEF Weight, ManagerTypeOK
    <3> QED
      BY <1>3, <2>1, <2>2, <3>1, EndServes DEF RunEnds
  <2>3. CASE a \notin Background
    <3>1. "settled" \in Runs \ {"none", "pending"}
      BY DEF Runs
    <3> QED
      BY <1>2, <1>3, <2>1, <2>3, <3>1 DEF RunEnds
  <2> QED
    BY <2>2, <2>3
<1>4. CASE RecordThrows(a)
  <2>1. slots - 2 = slots - 1 + Weight("recounted")
    BY <1>1 DEF Weight, ManagerTypeOK
  <2>2. a \in Background /\ session' = [session EXCEPT ![a] = TRUE /\ a \in known]
    BY <1>4 DEF RecordThrows
  <2> QED
    BY <1>4, <2>1, <2>2, EndServes DEF RecordThrows
<1>5. CASE RecordThrowsLast(a)
  <2>1. /\ run[a] = "pending" /\ a \in Background /\ status' = AfterEnd(a)
        /\ UNCHANGED <<known, queue, maxConcurrent, resuming, continued, finalized, finished,
                       disposed>>
    BY <1>5 DEF RecordThrowsLast
  <2>2. /\ slots - 2 = slots - 1 + Weight("lost") /\ slots - 1 = slots - 1 + Weight("unserved")
        /\ {"lost", "unserved"} \subseteq Unrecorded \cap (Runs \ {"none", "pending"})
    BY <1>1 DEF Weight, ManagerTypeOK, Unrecorded, Runs
  <2>3. CASE /\ session' = [session EXCEPT ![a] = a \in known]
             /\ run' = [run EXCEPT ![a] = "lost"] /\ slots' = slots - 2
    <3>1. session' = [session EXCEPT ![a] = TRUE /\ a \in known]
      BY <2>3
    <3> QED
      BY <1>2, <2>1, <2>2, <2>3, <3>1
  <2>4. ASSUME NEW made \in BOOLEAN, session' = [session EXCEPT ![a] = made /\ a \in known],
               run' = [run EXCEPT ![a] = "unserved"], slots' = slots - 1
        PROVE  ManagerInv'
    BY <1>2, <2>1, <2>2, <2>4
  <2> QED
    BY <1>5, <2>3, <2>4 DEF RecordThrowsLast
<1> QED
  BY <1>3, <1>4, <1>5

\* So do an abort, the later attempts and the reports.
LEMMA AttemptKeeps ==
  ASSUME ManagerInv, NEW a \in Agents,
         Abort(a) \/ Resume(a) \/ ResumeEnds(a) \/ SubmitReport(a)
  PROVE  ManagerInv'
<1>1. /\ ManagerTypeOK
      /\ \A x \in Agents :
           Consistent(x \in known, status[x], run[x], session[x], resuming[x], x \in Queued)
  BY DEF ManagerInv, RecordInv
<1>2. Consistent(a \in known, status[a], run[a], session[a], resuming[a], a \in Queued)
      /\ resuming[a] \in Nat
  BY <1>1 DEF ManagerTypeOK
<1>3. ASSUME UNCHANGED <<known, queue, slots, maxConcurrent, run, session>>, ManagerTypeOK',
             \A x \in Agents \ {a} : status'[x] = status[x] /\ resuming'[x] = resuming[x],
             Consistent(a \in known, status'[a], run[a], session[a], resuming'[a], a \in Queued)
      PROVE  ManagerInv'
  <2>1. Queued' = Queued
    BY <1>3 DEF Queued
  <2>2. \A x \in Agents :
          Consistent(x \in known', status'[x], run[x], session'[x], resuming'[x], x \in Queued')
    BY <1>1, <1>3, <2>1
  <2> QED
    BY <1>3, <2>2, RecordsKeep
<1>4. CASE Abort(a)
  <2>1. ManagerTypeOK'
    BY <1>1, <1>4 DEF Abort, ManagerTypeOK, Statuses, attemptVars
  <2>2. /\ status'[a] = "stopped" /\ a \in known /\ status[a] = "running" /\ run[a] = "pending"
        /\ resuming' = resuming /\ \A x \in Agents \ {a} : status'[x] = status[x]
        /\ UNCHANGED <<known, queue, slots, maxConcurrent, run, session>>
    BY <1>1, <1>4 DEF Abort, ManagerTypeOK, attemptVars
  <2>3. Consistent(a \in known, status'[a], run[a], session[a], resuming'[a], a \in Queued)
    BY <1>2, <2>2 DEF Consistent
  <2> QED
    BY <1>3, <2>1, <2>2, <2>3
<1>5. CASE Resume(a)
  <2>1. ManagerTypeOK'
    <3>1. continued' \in [Agents -> Nat] /\ finalized' \in [Agents -> Nat]
      BY <1>1, <1>5 DEF Resume, ManagerTypeOK
    <3> QED
      BY <1>1, <1>5, <3>1 DEF Resume, Resumed, ManagerTypeOK, Statuses
  <2>2. /\ a \in known /\ session[a] /\ status[a] \notin {"queued", "running"}
        /\ status'[a] = "running" /\ resuming'[a] = resuming[a] + 1
        /\ \A x \in Agents \ {a} : status'[x] = status[x] /\ resuming'[x] = resuming[x]
        /\ UNCHANGED <<known, queue, slots, maxConcurrent, run, session>>
    BY <1>1, <1>5 DEF Resume, Resumed, Resumable, Idle, ManagerTypeOK
  <2>3. resuming[a] = 0
    BY <1>2, <2>2 DEF Consistent
  <2>4. Consistent(a \in known, status'[a], run[a], session[a], resuming'[a], a \in Queued)
    BY <1>2, <2>2, <2>3 DEF Consistent
  <2> QED
    BY <1>3, <2>1, <2>2, <2>4
<1>6. CASE ResumeEnds(a)
  <2>1. /\ resuming[a] > 0 /\ resuming'[a] = resuming[a] - 1
        /\ status'[a] = IF status[a] \in {"none", "stopped"} THEN status[a] ELSE "ended"
        /\ \A x \in Agents \ {a} : status'[x] = status[x] /\ resuming'[x] = resuming[x]
        /\ UNCHANGED <<known, queue, slots, maxConcurrent, run, session>>
    BY <1>1, <1>6 DEF ResumeEnds, AfterEnd, ManagerTypeOK
  <2>2. ManagerTypeOK'
    <3>1. resuming' \in [Agents -> Nat]
      BY <1>1, <1>6 DEF ResumeEnds, ManagerTypeOK
    <3> QED
      BY <1>1, <1>6, <3>1 DEF ResumeEnds, AfterEnd, ManagerTypeOK, Statuses
  <2>3. Consistent(a \in known, status'[a], run[a], session[a], resuming'[a], a \in Queued)
    BY <1>2, <2>1 DEF Consistent
  <2> QED
    BY <1>3, <2>1, <2>2, <2>3
<1>7. CASE SubmitReport(a)
  <2>1. ManagerTypeOK'
    BY <1>1, <1>7 DEF SubmitReport, ManagerTypeOK
  <2>2. UNCHANGED <<known, status, queue, slots, maxConcurrent, run, resuming, session>>
    BY <1>7 DEF SubmitReport
  <2> QED
    BY <1>2, <1>3, <2>1, <2>2
<1> QED
  BY <1>4, <1>5, <1>6, <1>7

\* So do the removal of records and the shutdown.
LEMMA ForgetKeeps ==
  ASSUME ManagerInv, Shutdown \/ \E gone \in SUBSET known : Remove(gone)
  PROVE  ManagerInv'
<1>1. /\ ManagerTypeOK /\ known \subseteq Agents
      /\ \A x \in Agents :
           Consistent(x \in known, status[x], run[x], session[x], resuming[x], x \in Queued)
  BY DEF ManagerInv, RecordInv, ManagerTypeOK
<1>0. ASSUME NEW gone \in SUBSET known, (Shutdown /\ gone = known) \/ Remove(gone)
      PROVE  ManagerInv'
  <2>0. /\ Forget(gone) /\ disposed' \in BOOLEAN /\ UNCHANGED <<slots, maxConcurrent, run, resuming>>
        /\ \/ queue' = <<>> /\ gone = known
           \/ queue' = queue /\ \A x \in gone : status[x] # "queued"
    <3>1. CASE Shutdown /\ gone = known
      BY <3>1 DEF Shutdown
    <3>2. CASE Remove(gone)
      BY <1>1, <3>2 DEF Remove, Idle, ManagerTypeOK
    <3> QED
      BY <1>0, <3>1, <3>2
  <2>1. \A x \in Agents :
          /\ status'[x] = IF x \in gone THEN "none" ELSE status[x]
          /\ session'[x] <=> session[x] /\ x \notin gone
          /\ x \in known' <=> x \in known \ gone
    BY <2>0 DEF Forget
  <2>2. ManagerTypeOK'
    <3>1. status' \in [Agents -> Statuses]
      BY <1>1, <2>0 DEF Forget, ManagerTypeOK, Statuses
    <3>2. session' \in [Agents -> BOOLEAN]
      BY <2>0 DEF Forget
    <3>3. continued' \in [Agents -> Nat] /\ finalized' \in [Agents -> Nat]
      BY <1>1, <2>0 DEF Forget, ManagerTypeOK
    <3>4. finished' \subseteq Linked /\ known' \subseteq Agents
      BY <1>1, <2>0 DEF Forget, ManagerTypeOK
    <3>5. queue' \in Seq(Agents)
      <4>1. queue \in Seq(Agents) /\ <<>> \in Seq(Agents)
        BY <1>1 DEF ManagerTypeOK
      <4>2. queue' = queue \/ queue' = <<>>
        BY <2>0
      <4> QED
        BY ONLY <4>1, <4>2
    <3> QED
      BY <1>1, <2>0, <3>1, <3>2, <3>3, <3>4, <3>5 DEF ManagerTypeOK
  <2>3. ASSUME NEW x \in Agents
        PROVE  Consistent(x \in known', status'[x], run[x], session'[x], resuming'[x], x \in Queued')
    <3>1. Consistent(x \in known, status[x], run[x], session[x], resuming[x], x \in Queued)
      BY <1>1
    <3>2. resuming'[x] = resuming[x] /\ resuming[x] \in Nat
      BY <1>1, <2>0 DEF ManagerTypeOK
    <3>3. CASE queue' = <<>> /\ gone = known
      <4>1. Len(queue') = 0
        BY <3>3
      <4>2. x \notin Queued' /\ x \notin known' /\ status'[x] = IF x \in known THEN "none" ELSE status[x]
        BY <2>1, <3>3, <4>1 DEF Queued
      <4>3. session'[x] => session[x] /\ x \notin known
        BY <2>1, <3>3
      <4> QED
        BY <3>1, <3>2, <4>2, <4>3 DEF Consistent
    <3>4. CASE queue' = queue /\ \A y \in gone : status[y] # "queued"
      <4>1. Queued' = Queued
        BY <3>4 DEF Queued
      <4>2. CASE x \in gone
        BY <2>1, <3>1, <3>2, <3>4, <4>1, <4>2 DEF Consistent
      <4>3. CASE x \notin gone
        BY <2>1, <3>1, <3>2, <4>1, <4>3 DEF Consistent
      <4> QED
        BY <4>2, <4>3
    <3> QED
      BY <2>0, <3>3, <3>4
  <2> QED
    BY <2>0, <2>2, <2>3, RecordsKeep
<1>2. \E gone \in SUBSET known : (Shutdown /\ gone = known) \/ Remove(gone)
  OBVIOUS
<1> QED
  BY <1>0, <1>2

\* A change of the limit serves the queue at once.
LEMMA LimitKeeps ==
  ASSUME ManagerInv, NEW limit \in Limits, SetMaxConcurrent(limit)
  PROVE  ManagerInv'
<1>1. RecordInv /\ ManagerTypeOK /\ slots = Balance(run)
  BY DEF ManagerInv, RecordInv
<1>2. /\ status \in [Agents -> Statuses] /\ run \in [Agents -> Runs] /\ slots \in Int
      /\ session \in [Agents -> BOOLEAN]
  BY <1>1 DEF ManagerTypeOK
<1>3. /\ DrainQueue(status, run, slots, limit) /\ maxConcurrent' = limit /\ session' = session
      /\ UNCHANGED <<known, resuming, continued, finalized, finished, disposed>>
  BY DEF SetMaxConcurrent, attemptVars
<1>4. \A a \in Agents :
        Consistent(a \in known, status[a], run[a], session'[a], resuming[a], a \in Queued)
  BY <1>1, <1>3 DEF RecordInv
<1> QED
  BY <1>1, <1>2, <1>3, <1>4, DrainKeeps

-----------------------------------------------------------------------------
(* The manager by itself *)

\* The manager starts with no records, no slot taken and nothing waiting.
LEMMA ManagerInitInv ==
  ASSUME ManagerInit
  PROVE  ManagerInv
<1> USE DEF ManagerInit
<1>1. ManagerTypeOK
  <2>1. queue \in Seq(Agents) /\ slots \in Int /\ maxConcurrent \in Limits
    BY LimitsAssumption
  <2>2. status \in [Agents -> Statuses] /\ run \in [Agents -> Runs]
    BY DEF Statuses, Runs
  <2>3. /\ resuming \in [Agents -> Nat] /\ session \in [Agents -> BOOLEAN]
        /\ continued \in [Agents -> Nat] /\ finalized \in [Agents -> Nat]
    OBVIOUS
  <2> QED
    BY <2>1, <2>2, <2>3 DEF ManagerTypeOK
<1>2. Len(queue) = 0 /\ Queued = {}
  BY DEF Queued
<1>3. \A x \in Agents :
        Consistent(x \in known, status[x], run[x], session[x], resuming[x], x \in Queued)
  BY <1>2 DEF Consistent
<1>4. \A r \in {"pending", "leaked", "recounted", "lost"} : Count(run, r) = 0
  <2>1. \A r \in {"pending", "leaked", "recounted", "lost"} : {a \in Background : run[a] = r} = {}
    BY AgentsAssumption
  <2> QED
    BY <2>1, FS_EmptySet DEF Count
<1>5. slots = Balance(run)
  BY <1>4 DEF Balance
<1> QED
  <2>1. Queued \subseteq Background /\ Once(queue) /\ QueueServed
    BY <1>2 DEF Once, QueueServed
  <2>2. RecordInv
    BY <1>1, <1>3, <2>1 DEF RecordInv
  <2> QED
    BY <1>5, <2>1, <2>2 DEF ManagerInv

\* Every turn keeps the invariant.
LEMMA ManagerNextInv ==
  ASSUME ManagerInv, [ManagerNext]_managerVars
  PROVE  ManagerInv'
<1>1. CASE UNCHANGED managerVars
  <2>1. UNCHANGED <<known, status, queue, slots, maxConcurrent, run, resuming,
                    session, continued, finalized, finished, disposed>>
    BY <1>1 DEF managerVars
  <2> QED
    BY <2>1 DEF ManagerInv, RecordInv, ManagerTypeOK, Queued, Once, QueueServed, Balance, Count
<1>2. ASSUME NEW a \in Agents,
             SpawnQueued(a) \/ SpawnStarted(a) \/ RunEnds(a) \/ RecordThrows(a) \/ Quiet(a)
      PROVE  ManagerInv'
  BY <1>2, SpawnKeeps, RunEndsKeeps, AttemptKeeps DEF Quiet
<1>3. ASSUME NEW limit \in Limits, SetMaxConcurrent(limit)
      PROVE  ManagerInv'
  BY <1>3, LimitKeeps
<1>4. CASE Shutdown \/ \E gone \in SUBSET known : Remove(gone)
  BY <1>4, ForgetKeeps
<1> QED
  BY <1>1, <1>2, <1>3, <1>4 DEF ManagerNext

\* What the invariant says of slots, queue, records and sessions.
LEMMA ManagerInvImplies ==
  ASSUME ManagerInv
  PROVE  /\ ManagerTypeOK /\ SlotAccounting /\ QueueServed
         /\ QueueMatchesRecords /\ RunningHasRun /\ OneRunPerSession
<1>1. /\ ManagerTypeOK /\ known \subseteq Agents /\ Queued \subseteq Background /\ Once(queue)
      /\ Background \subseteq Agents /\ slots = Balance(run)
      /\ \A x \in Agents :
           Consistent(x \in known, status[x], run[x], session[x], resuming[x], x \in Queued)
  BY AgentsAssumption DEF ManagerInv, RecordInv, ManagerTypeOK
<1>2. SlotAccounting
  BY <1>1 DEF SlotAccounting, Balance, Count, WithRun
<1>3. QueueMatchesRecords
  <2>1. {a \in known : status[a] = "queued"} = Queued
    BY <1>1 DEF Consistent
  <2> QED
    BY <1>1, <2>1 DEF QueueMatchesRecords, Once
<1>4. RunningHasRun
  BY <1>1 DEF RunningHasRun, Consistent
<1>5. OneRunPerSession
  <2>1. \A a \in Agents : resuming[a] \in Nat
    BY <1>1 DEF ManagerTypeOK
  <2> QED
    BY <1>1, <2>1 DEF OneRunPerSession, Consistent
<1> QED
  BY <1>1, <1>2, <1>3, <1>4, <1>5 DEF ManagerInv

\* The manager keeps all of it under any caller, for any agents and limits.
THEOREM ManagerInvariant == ManagerSpec => []ManagerInv
<1>1. ManagerInit => ManagerInv
  BY ManagerInitInv
<1>2. ManagerInv /\ [ManagerNext]_managerVars => ManagerInv'
  BY ManagerNextInv
<1> QED
  BY <1>1, <1>2, PTL DEF ManagerSpec

-----------------------------------------------------------------------------
(* The manager with its callbacks, timers and the planner *)

\* A step with notifications is a step of the manager, or leaves it alone.
LEMMA NextIsManagerNext ==
  ASSUME Next
  PROVE  [ManagerNext]_managerVars
<1>1. ASSUME NEW a \in Agents, Spawns(a) \/ Ends(a) \/ Quietly(a)
      PROVE  ManagerNext
  BY <1>1 DEF Spawns, Ends, Quietly, ManagerNext
<1>2. ASSUME NEW a \in Agents, GetResult(a)
      PROVE  UNCHANGED managerVars
  BY <1>2 DEF GetResult
<1>3. ASSUME NEW limit \in Limits, Limits_(limit)
      PROVE  ManagerNext
  BY <1>3 DEF Limits_, ManagerNext
<1>4. CASE RemoveQuietly \/ ShutdownAll
  BY <1>4 DEF RemoveQuietly, ShutdownAll, ManagerNext
<1>5. CASE FinalizeBatch
  BY <1>5 DEF FinalizeBatch
<1>6. ASSUME NEW g \in groups, GroupTimeout(g)
      PROVE  UNCHANGED managerVars
  BY <1>6 DEF GroupTimeout
<1>7. ASSUME NEW n \in nudges, SendNudge(n)
      PROVE  UNCHANGED managerVars
  BY <1>7 DEF SendNudge
<1> QED
  BY <1>1, <1>2, <1>3, <1>4, <1>5, <1>6, <1>7 DEF Next

\* The invariant of the manager under the callbacks and timers.
THEOREM AgentsInvariant == Spec => []ManagerInv
<1>1. Init => ManagerInv
  BY ManagerInitInv DEF Init
<1>2. ManagerInv /\ [Next]_allVars => ManagerInv'
  BY NextIsManagerNext, ManagerNextInv DEF allVars
<1> QED
  BY <1>1, <1>2, PTL DEF Spec

\* The types of records, queue, slots and attempts.
THEOREM AgentTypes == Spec => []ManagerTypeOK
BY AgentsInvariant, ManagerInvImplies, PTL

\* The slot counter drifts by a start that throws in spawn and by a completion
\* that cannot be recorded, and by nothing else.
THEOREM SlotsAccounted == Spec => []SlotAccounting
BY AgentsInvariant, ManagerInvImplies, PTL

\* No agent waits while a slot is free, unless a completion handler died.
THEOREM QueueAlwaysServed == Spec => []QueueServed
BY AgentsInvariant, ManagerInvImplies, PTL

\* The queue holds the agents shown as queued, each once.
THEOREM QueueIsWhatIsShown == Spec => []QueueMatchesRecords
BY AgentsInvariant, ManagerInvImplies, PTL

\* What is shown as running has a promise that will settle.
THEOREM RunningWillSettle == Spec => []RunningHasRun
BY AgentsInvariant, ManagerInvImplies, PTL

\* Two runs never drive one session.
THEOREM SessionsNotShared == Spec => []OneRunPerSession
BY AgentsInvariant, ManagerInvImplies, PTL


-----------------------------------------------------------------------------
(* Results *)

\* Runs that have not come to an end, and the steps that a turn in which the
\* agents of a set end takes.
Fresh == {"none", "pending"}

Moves(ended) ==
  /\ ended \subseteq Background
  /\ UNCHANGED <<known, continued, finalized, disposed>>
  /\ \A x \in ended : run[x] \in Fresh /\ run'[x] \notin Fresh
  /\ \A x \in Background \ ended : run'[x] = run[x] \/ (run[x] = "none" /\ run'[x] = "pending")

\* What the queue gives a slot begins, what it cannot start has failed.
LEMMA DrainMoves ==
  ASSUME ManagerInv, NEW S \in SUBSET Background, NEW v \in Runs \ Fresh, v # "failed",
         \A x \in S : run[x] = "pending",
         NEW st \in [Agents -> Statuses], NEW rn \in [Agents -> Runs], NEW sl \in Int,
         NEW limit \in Limits, DrainQueue(st, rn, sl, limit),
         \A x \in Agents : rn[x] = IF x \in S THEN v ELSE run[x],
         UNCHANGED <<known, continued, finalized, disposed>>
  PROVE  Moves(S \cup Failed)
<1>1. queue \in Seq(Agents) /\ Queued \subseteq Background /\ Once(queue) /\ limit \in Nat
  BY LimitsAssumption DEF ManagerInv, RecordInv, ManagerTypeOK
<1>2. PICK begun \in SUBSET Queued, broken \in SUBSET Queued : DrainedTo(begun, broken, st, rn, sl, limit)
  BY <1>1, DrainEffect
<1>3. begun \subseteq Background /\ broken \subseteq Background /\ Background \subseteq Agents
  BY <1>1, <1>2, AgentsAssumption
<1>4. \A x \in begun \cup broken : run[x] = "none"
  BY <1>2, <1>3 DEF ManagerInv, RecordInv, Consistent
<1>5. \A x \in Agents : run'[x] = IF x \in begun THEN "pending" ELSE IF x \in broken THEN "failed"
                                  ELSE IF x \in S THEN v ELSE run[x]
  BY <1>2 DEF DrainedTo
<1>6. begun \cap broken = {}
  BY <1>2 DEF DrainedTo
<1>7. Failed = broken
  BY <1>3, <1>4, <1>5, <1>6 DEF Failed
<1>8. \A x \in S \cup broken : run[x] \in Fresh /\ run'[x] \notin Fresh
  BY <1>3, <1>4, <1>5, <1>6 DEF Fresh
<1> QED
  BY <1>3, <1>4, <1>5, <1>7, <1>8 DEF Moves

\* A completion moves the run that ended and what drainQueue took.
LEMMA EndsMoves ==
  ASSUME ManagerInv, NEW a \in Agents, Ends(a)
  PROVE  Moves(Reported(a) \cup Failed)
<1>1. RunEnds(a) \/ RecordThrows(a)
  BY DEF Ends
<1>2. RecordInv /\ ManagerTypeOK /\ run[a] = "pending"
  BY <1>1 DEF ManagerInv, RecordInv, RunEnds, RecordThrows
<1>3. UNCHANGED <<known, continued, finalized, disposed>>
  BY <1>1 DEF RunEnds, RecordThrows
<1>4. ASSUME NEW v \in {"settled", "recounted"}, NEW sl \in Int, a \in Background,
             DrainQueue(AfterEnd(a), [run EXCEPT ![a] = v], sl, maxConcurrent)
      PROVE  Moves(Reported(a) \cup Failed)
  <2>1. v \in Runs \ Fresh /\ v # "failed" /\ maxConcurrent \in Limits
    BY <1>2 DEF Runs, Fresh, ManagerTypeOK
  <2>2. AfterEnd(a) \in [Agents -> Statuses] /\ [run EXCEPT ![a] = v] \in [Agents -> Runs]
    BY <1>2, <2>1 DEF AfterEnd, ManagerTypeOK, Statuses
  <2>3. \A x \in Agents : [run EXCEPT ![a] = v][x] = IF x \in {a} THEN v ELSE run[x]
    BY <1>2 DEF ManagerTypeOK
  <2>4. {a} \in SUBSET Background /\ Reported(a) = {a} /\ \A x \in {a} : run[x] = "pending"
    BY <1>2, <1>4 DEF Reported
  <2> QED
    BY ONLY <1>3, <1>4, <2>1, <2>2, <2>3, <2>4, ManagerInv, DrainMoves
<1>5. CASE a \in Background
  <2>1. slots - 1 \in Int /\ slots - 2 \in Int
    BY <1>2 DEF ManagerTypeOK
  <2> QED
    BY <1>1, <1>4, <1>5, <2>1 DEF RunEnds, RecordThrows
<1>6. CASE a \notin Background
  <2>1. \A x \in Agents : run'[x] = IF x = a THEN "settled" ELSE run[x]
    BY <1>1, <1>2, <1>6 DEF RunEnds, RecordThrows, ManagerTypeOK
  <2>2. Failed = {} /\ Reported(a) = {}
    BY <1>6, <2>1 DEF Failed, Reported
  <2> QED
    BY <1>3, <1>6, <2>1, <2>2, AgentsAssumption DEF Moves
<1> QED
  BY <1>5, <1>6

\* So does a change of the limit.
LEMMA LimitMoves ==
  ASSUME ManagerInv, NEW limit \in Limits, Limits_(limit)
  PROVE  Moves(Failed)
<1>1. /\ status \in [Agents -> Statuses] /\ run \in [Agents -> Runs] /\ slots \in Int
  BY DEF ManagerInv, RecordInv, ManagerTypeOK
<1>2. DrainQueue(status, run, slots, limit) /\ UNCHANGED <<known, continued, finalized, disposed>>
  BY DEF Limits_, SetMaxConcurrent, attemptVars
<1>3. "settled" \in Runs \ Fresh
  BY DEF Runs, Fresh
<1>4. Moves({} \cup Failed)
  BY <1>1, <1>2, <1>3, DrainMoves
<1> QED
  BY <1>4

\* The other turns of the manager end no run that is reported.
Stays(x) ==
  \/ run'[x] = run[x]
  \/ run[x] = "none" /\ run'[x] = "leaked"
  \/ run[x] = "pending" /\ run'[x] \in Unrecorded

\* So it is with starts that throw, stops, resumes and reports.
LEMMA QuietStays ==
  ASSUME ManagerInv, NEW a \in Agents, Quiet(a)
  PROVE  /\ UNCHANGED <<known, disposed>> /\ \A x \in Agents : Stays(x)
         /\ \A x \in Agents : continued'[x] + finalized'[x] >= continued[x] + finalized[x]
<1>1. /\ run \in [Agents -> Runs] /\ continued \in [Agents -> Nat] /\ finalized \in [Agents -> Nat]
  BY DEF ManagerInv, RecordInv, ManagerTypeOK
<1>2. UNCHANGED <<known, disposed>>
  BY DEF Quiet, SpawnThrows, Abort, RecordThrowsLast, Resume, Resumed, ResumeEnds, SubmitReport, attemptVars
<1>3. \A x \in Agents : Stays(x)
  <2>1. CASE SpawnThrows(a)
    BY <1>1, <2>1 DEF SpawnThrows, Unborn, Stays
  <2>2. CASE RecordThrowsLast(a)
    BY <1>1, <2>2 DEF RecordThrowsLast, Unrecorded, Stays
  <2>3. CASE Abort(a) \/ Resume(a) \/ ResumeEnds(a) \/ SubmitReport(a)
    BY <2>3 DEF Abort, Resume, Resumed, ResumeEnds, SubmitReport, Stays
  <2> QED
    BY <2>1, <2>2, <2>3 DEF Quiet
<1>4. \A x \in Agents : continued'[x] + finalized'[x] >= continued[x] + finalized[x]
  <2>1. CASE Resume(a)
    BY <1>1, <2>1 DEF Resume
  <2>2. CASE UNCHANGED <<continued, finalized>>
    BY <1>1, <2>2
  <2> QED
    BY <2>1, <2>2 DEF Quiet, SpawnThrows, Abort, RecordThrowsLast, ResumeEnds, SubmitReport, attemptVars
<1> QED
  BY <1>2, <1>3, <1>4

\* Every resume in flight has been counted, as long as the record is there.
AttemptsCounted == \A a \in known : resuming[a] <= continued[a] + finalized[a]

\* A resume counts its attempt; a record that is forgotten never returns.
LEMMA AttemptsStayCounted ==
  ASSUME ManagerInv, AttemptsCounted, [ManagerNext]_managerVars
  PROVE  AttemptsCounted'
<1>1. /\ ManagerTypeOK /\ known \subseteq Agents
      /\ \A x \in Agents :
           Consistent(x \in known, status[x], run[x], session[x], resuming[x], x \in Queued)
  BY DEF ManagerInv, RecordInv, ManagerTypeOK
<1>2. /\ resuming \in [Agents -> Nat] /\ continued \in [Agents -> Nat] /\ finalized \in [Agents -> Nat]
  BY <1>1 DEF ManagerTypeOK
<1>3. CASE /\ UNCHANGED <<resuming, continued, finalized>>
           /\ known' \subseteq known \cup {x \in Agents : run[x] = "none"}
  <2>1. \A x \in Agents : run[x] = "none" => resuming[x] = 0
    BY <1>1, <1>2 DEF Consistent
  <2> QED
    BY <1>2, <1>3, <2>1 DEF AttemptsCounted
<1>4. ASSUME NEW a \in Agents, SpawnQueued(a) \/ SpawnStarted(a) \/ RunEnds(a) \/ RecordThrows(a)
      PROVE  AttemptsCounted'
  <2>1. /\ UNCHANGED <<resuming, continued, finalized>>
        /\ known' \subseteq known \cup {x \in Agents : run[x] = "none"}
    BY <1>4 DEF SpawnQueued, SpawnStarted, RunEnds, RecordThrows, Unborn, attemptVars
  <2> QED
    BY <1>3, <2>1
<1>5. ASSUME NEW a \in Agents, Quiet(a)
      PROVE  AttemptsCounted'
  <2>1. CASE Resume(a)
    BY <1>1, <1>2, <2>1 DEF Resume, Resumed, AttemptsCounted
  <2>2. CASE ResumeEnds(a)
    BY <1>1, <1>2, <2>2 DEF ResumeEnds, AttemptsCounted
  <2>3. CASE SpawnThrows(a) \/ Abort(a) \/ RecordThrowsLast(a) \/ SubmitReport(a)
    BY <1>3, <2>3 DEF SpawnThrows, Abort, RecordThrowsLast, SubmitReport, attemptVars
  <2> QED
    BY <1>5, <2>1, <2>2, <2>3 DEF Quiet
<1>6. ASSUME NEW limit \in Limits, SetMaxConcurrent(limit)
      PROVE  AttemptsCounted'
  BY <1>3, <1>6 DEF SetMaxConcurrent, attemptVars
<1>7. ASSUME NEW gone \in SUBSET known, Forget(gone), resuming' = resuming
      PROVE  AttemptsCounted'
  BY <1>1, <1>2, <1>7 DEF Forget, AttemptsCounted
<1>8. CASE Shutdown \/ \E gone \in SUBSET known : Remove(gone)
  BY <1>7, <1>8 DEF Shutdown, Remove
<1>9. CASE UNCHANGED managerVars
  BY <1>3, <1>9 DEF managerVars
<1> QED
  BY <1>4, <1>5, <1>6, <1>8, <1>9 DEF ManagerNext

\* A background agent that is shown as ended is one whose run has ended: only
\* the signal of a foreground call stops a run that goes on.
EndsAreShown == \A a \in known \cap Background : Ended(a) => run[a] \notin Fresh

\* Every turn of the manager keeps it.
LEMMA EndsStayShown ==
  ASSUME ManagerInv, EndsAreShown, [ManagerNext]_managerVars
  PROVE  EndsAreShown'
<1>1. /\ ManagerTypeOK /\ known \subseteq Agents /\ Background \subseteq Agents
      /\ \A x \in Agents :
           Consistent(x \in known, status[x], run[x], session[x], resuming[x], x \in Queued)
  BY AgentsAssumption DEF ManagerInv, RecordInv, ManagerTypeOK
<1>2. /\ status \in [Agents -> Statuses] /\ run \in [Agents -> Runs] /\ slots \in Int
      /\ maxConcurrent \in Limits
      /\ queue \in Seq(Agents) /\ Queued \subseteq Background /\ Once(queue)
  BY <1>1 DEF ManagerTypeOK, ManagerInv, RecordInv
<1>3. ASSUME \A x \in Background :
               /\ x \in known' => x \in known \/ status'[x] \notin {"ended", "stopped"}
               /\ run[x] \notin Fresh => run'[x] \notin Fresh
               /\ status'[x] = status[x] \/ status'[x] \notin {"ended", "stopped"}
                  \/ run'[x] \notin Fresh
      PROVE  EndsAreShown'
  BY <1>3 DEF EndsAreShown, Ended
<1>4. ASSUME NEW st \in [Agents -> Statuses], NEW rn \in [Agents -> Runs], NEW sl \in Int,
             NEW limit \in Limits, DrainQueue(st, rn, sl, limit), known' = known,
             \A x \in Background :
               \/ st[x] = status[x] /\ rn[x] = run[x]
               \/ rn[x] \notin Fresh /\ run[x] = "pending"
      PROVE  EndsAreShown'
  <2>1. PICK begun \in SUBSET Queued, broken \in SUBSET Queued : DrainedTo(begun, broken, st, rn, sl, limit)
    <3>1. limit \in Nat
      BY LimitsAssumption
    <3> QED
      BY <1>2, <1>4, <3>1, DrainEffect
  <2>2. \A x \in begun \cup broken : run[x] = "none"
    BY <1>1, <1>2, <2>1 DEF Consistent
  <2>3. \A x \in Background :
          /\ status'[x] = IF x \in begun THEN "running" ELSE IF x \in broken THEN "ended" ELSE st[x]
          /\ run'[x] = IF x \in begun THEN "pending" ELSE IF x \in broken THEN "failed" ELSE rn[x]
    BY <1>1, <2>1 DEF DrainedTo
  <2> QED
    BY <1>3, <1>4, <2>2, <2>3 DEF Fresh
<1>5. ASSUME NEW a \in Agents, SpawnQueued(a) \/ SpawnStarted(a)
      PROVE  EndsAreShown'
  <2>1. /\ \A x \in Agents \ {a} : status'[x] = status[x] /\ run'[x] = run[x]
        /\ run[a] = "none" /\ status'[a] \in {"queued", "running"}
        /\ known' = known \cup {a}
    BY <1>2, <1>5 DEF SpawnQueued, SpawnStarted, Unborn
  <2> QED
    BY <1>1, <1>3, <2>1 DEF Fresh
<1>6. ASSUME NEW a \in Agents, RunEnds(a) \/ RecordThrows(a)
      PROVE  EndsAreShown'
  <2>1. run[a] = "pending" /\ known' = known
    BY <1>6 DEF RunEnds, RecordThrows
  <2>2. AfterEnd(a) \in [Agents -> Statuses]
        /\ \A x \in Agents \ {a} : AfterEnd(a)[x] = status[x]
    BY <1>2 DEF AfterEnd, Statuses
  <2>3. ASSUME NEW v \in {"settled", "recounted"}, NEW sl \in Int,
               DrainQueue(AfterEnd(a), [run EXCEPT ![a] = v], sl, maxConcurrent)
        PROVE  EndsAreShown'
    <3>1. [run EXCEPT ![a] = v] \in [Agents -> Runs]
      BY <1>2 DEF Runs
    <3>2. \A x \in Background :
            \/ AfterEnd(a)[x] = status[x] /\ [run EXCEPT ![a] = v][x] = run[x]
            \/ [run EXCEPT ![a] = v][x] \notin Fresh /\ run[x] = "pending"
      BY <1>1, <1>2, <2>1, <2>2 DEF Fresh
    <3> QED
      BY <1>2, <1>4, <2>1, <2>2, <2>3, <3>1, <3>2
  <2>4. CASE a \in Background
    <3>1. slots - 1 \in Int /\ slots - 2 \in Int
      BY <1>2
    <3> QED
      BY <1>6, <2>3, <2>4, <3>1 DEF RunEnds, RecordThrows
  <2>5. CASE a \notin Background
    <3>1. \A x \in Background : status'[x] = status[x] /\ run'[x] = run[x]
      BY <1>1, <1>2, <1>6, <2>2, <2>5 DEF RunEnds, RecordThrows
    <3> QED
      BY <1>3, <2>1, <3>1
  <2> QED
    BY <2>4, <2>5
<1>7. ASSUME NEW a \in Agents, Quiet(a)
      PROVE  EndsAreShown'
  <2>1. known' = known /\ \A x \in Agents : Stays(x)
    BY <1>7, QuietStays
  <2>2. \A x \in Background : run[x] \notin Fresh => run'[x] \notin Fresh
    BY <1>1, <2>1 DEF Stays, Fresh
  <2>3. \A x \in Background : status'[x] = status[x] \/ status'[x] \notin {"ended", "stopped"}
                              \/ run'[x] \notin Fresh
    <3>1. CASE SpawnThrows(a) \/ SubmitReport(a)
      BY <3>1 DEF SpawnThrows, SubmitReport
    <3>2. CASE Abort(a)
      BY <1>1, <1>2, <3>2 DEF Abort
    <3>3. CASE RecordThrowsLast(a)
      BY <1>1, <1>2, <3>3 DEF RecordThrowsLast, AfterEnd, Fresh
    <3>4. CASE Resume(a)
      BY <1>1, <1>2, <3>4 DEF Resume, Resumed
    <3>5. CASE ResumeEnds(a)
      <4>1. run[a] \notin Fresh /\ run' = run
        BY <1>1, <3>5 DEF ResumeEnds, Consistent, Fresh
      <4>2. \A x \in Background \ {a} : status'[x] = status[x]
        BY <1>1, <1>2, <3>5 DEF ResumeEnds, AfterEnd
      <4> QED
        BY <4>1, <4>2
    <3> QED
      BY <1>7, <3>1, <3>2, <3>3, <3>4, <3>5 DEF Quiet
  <2> QED
    BY <1>3, <2>1, <2>2, <2>3
<1>8. ASSUME NEW limit \in Limits, SetMaxConcurrent(limit)
      PROVE  EndsAreShown'
  BY <1>2, <1>4, <1>8 DEF SetMaxConcurrent
<1>9. ASSUME NEW gone \in SUBSET known, Forget(gone), run' = run
      PROVE  EndsAreShown'
  BY <1>1, <1>3, <1>9 DEF Forget
<1>10. CASE Shutdown \/ \E gone \in SUBSET known : Remove(gone)
  BY <1>9, <1>10 DEF Shutdown, Remove
<1>11. CASE UNCHANGED managerVars
  BY <1>3, <1>11 DEF managerVars
<1> QED
  BY <1>5, <1>6, <1>7, <1>8, <1>10, <1>11 DEF ManagerNext

-----------------------------------------------------------------------------
(* The batch, the groups and the messages *)

GroupShapes == [members : SUBSET Background, done : SUBSET Background, timer : BOOLEAN]

NoticeShapes ==
  /\ batch \subseteq Background /\ consumed \subseteq Background
  /\ groups \subseteq GroupShapes /\ \A g \in groups : g.done \subseteq g.members
  /\ nudges \subseteq [key : {"agent", "group"}, about : SUBSET Background]
  /\ sent \in [Agents -> Nat]

About(a) == \E n \in nudges : a \in n.about

\* An agent is in one place at a time: it waits in the batch, belongs to one
\* group, is in one message that waits, or was in one that was sent.  It comes
\* into the first two by its spawn, and into the others by its end.
OnePlace ==
  /\ \A a \in batch : ~Member(a) /\ ~About(a) /\ sent[a] = 0
  /\ \A a \in Background : Member(a) => ~About(a) /\ sent[a] = 0
  /\ \A n \in nudges : \A a \in n.about : sent[a] = 0
  /\ \A g, h \in groups : g # h => g.members \cap h.members = {}
  /\ \A m, n \in nudges : m # n => m.about \cap n.about = {}
  /\ \A a \in Agents : sent[a] <= 1
  /\ \A a \in Background : run[a] \in Fresh =>
       ~About(a) /\ sent[a] = 0 /\ \A g \in groups : a \notin g.done
  /\ \A a \in Background : Unborn(a) => a \notin batch /\ ~Member(a)

NoticeInv == NoticeShapes /\ OnePlace /\ ResultsAreTracked

\* What joining does to a group.
LEMMA Joined ==
  ASSUME NEW g \in GroupShapes, NEW E \in SUBSET Background
  PROVE  /\ JoinGroup(g, E) \in GroupShapes
         /\ JoinGroup(g, E).members = g.members
         /\ JoinGroup(g, E).done = g.done \cup (g.members \cap E)
         /\ JoinGroup(g, E).timer <=> g.timer \/ g.members \cap E # {}
<1>1. CASE g.members \cap E = {}
  BY <1>1 DEF JoinGroup, GroupShapes
<1>2. CASE g.members \cap E # {}
  BY <1>2 DEF JoinGroup, GroupShapes
<1> QED
  BY <1>1, <1>2

\* Where the groups and the messages after some completions come from.
Completed(told, g) == g.done \cup (g.members \cap told) = g.members

CompletesFrom(told) ==
  /\ \A h \in groups' : \E g \in groups :
       /\ ~Completed(told, g) /\ h \in GroupShapes /\ h.members = g.members
       /\ h.done = g.done \cup (g.members \cap told)
  /\ \A n \in nudges' :
       \/ n \in nudges
       \/ \E g \in groups : Completed(told, g) /\ n = GroupNudge(g)
       \/ \E x \in told : ~Member(x) /\ n = AgentNudge(x)
  /\ nudges \subseteq nudges'
  /\ \A g \in groups :
       \/ Completed(told, g) /\ GroupNudge(g) \in nudges'
       \/ \E h \in groups' : /\ h.done = g.done \cup (g.members \cap told)
                             /\ h.timer <=> (g.timer \/ g.members \cap told # {})
  /\ \A x \in told : Member(x) \/ AgentNudge(x) \in nudges'

\* The callback of the manager does that.
LEMMA CompletionEffect ==
  ASSUME NoticeShapes, NEW ended \in SUBSET Background, OnComplete(ended)
  PROVE  CompletesFrom(ended \ (consumed \cup batch))
<1> DEFINE told == ended \ (consumed \cup batch)
           joined == {JoinGroup(g, told) : g \in groups}
<1>1. told \in SUBSET Background
  OBVIOUS
<1>2. /\ groups' = {g \in joined : ~Complete(g)}
      /\ nudges' = nudges \cup {GroupNudge(g) : g \in {j \in joined : Complete(j)}}
                          \cup {AgentNudge(a) : a \in {x \in told : ~Member(x)}}
  BY DEF OnComplete
<1>3. \A g \in groups :
        /\ JoinGroup(g, told) \in GroupShapes
        /\ JoinGroup(g, told).members = g.members
        /\ JoinGroup(g, told).done = g.done \cup (g.members \cap told)
        /\ JoinGroup(g, told).timer <=> g.timer \/ g.members \cap told # {}
  BY <1>1, Joined DEF NoticeShapes
<1>4. \A g \in groups : /\ Complete(JoinGroup(g, told)) <=> Completed(told, g)
                        /\ GroupNudge(JoinGroup(g, told)) = GroupNudge(g)
  BY <1>3 DEF Complete, Completed, GroupNudge
<1> HIDE DEF told
<1>5. \A h \in groups' : \E g \in groups :
        /\ ~Completed(told, g) /\ h \in GroupShapes /\ h.members = g.members
        /\ h.done = g.done \cup (g.members \cap told)
  BY <1>2, <1>3, <1>4
<1>6. \A n \in nudges' :
        \/ n \in nudges
        \/ \E g \in groups : Completed(told, g) /\ n = GroupNudge(g)
        \/ \E x \in told : ~Member(x) /\ n = AgentNudge(x)
  <2> SUFFICES ASSUME NEW n \in nudges', n \notin nudges,
                      ~\E x \in told : ~Member(x) /\ n = AgentNudge(x)
               PROVE  \E g \in groups : Completed(told, g) /\ n = GroupNudge(g)
    OBVIOUS
  <2>1. PICK j \in joined : Complete(j) /\ n = GroupNudge(j)
    BY <1>2
  <2>2. PICK g \in groups : j = JoinGroup(g, told)
    BY <2>1
  <2> QED
    BY <1>4, <2>1, <2>2
<1>7. \A g \in groups :
        \/ Completed(told, g) /\ GroupNudge(g) \in nudges'
        \/ \E h \in groups' : /\ h.done = g.done \cup (g.members \cap told)
                              /\ h.timer <=> (g.timer \/ g.members \cap told # {})
  <2> SUFFICES ASSUME NEW g \in groups
               PROVE  \/ Completed(told, g) /\ GroupNudge(g) \in nudges'
                      \/ \E h \in groups' : /\ h.done = g.done \cup (g.members \cap told)
                                            /\ h.timer <=> (g.timer \/ g.members \cap told # {})
    OBVIOUS
  <2>1. CASE Completed(told, g)
    <3>1. JoinGroup(g, told) \in {j \in joined : Complete(j)}
      BY <1>4, <2>1
    <3>2. GroupNudge(JoinGroup(g, told)) \in nudges'
      BY <1>2, <3>1
    <3> QED
      BY <1>4, <2>1, <3>2
  <2>2. CASE ~Completed(told, g)
    <3>1. JoinGroup(g, told) \in groups'
      BY <1>2, <1>4, <2>2
    <3> QED
      BY <1>3, <3>1
  <2> QED
    BY <2>1, <2>2
<1>8. nudges \subseteq nudges' /\ \A x \in told : Member(x) \/ AgentNudge(x) \in nudges'
  BY <1>2
<1>9. CompletesFrom(told)
  BY <1>5, <1>6, <1>7, <1>8 DEF CompletesFrom
<1> QED
  BY <1>9 DEF told

\* Completions keep the invariant.
LEMMA CompletionKeeps ==
  ASSUME ManagerInv, NoticeInv, NEW ended, Moves(ended), OnComplete(ended),
         UNCHANGED <<batch, consumed, sent>>
  PROVE  NoticeInv'
<1> DEFINE told == ended \ (consumed \cup batch)
<1>0. /\ ended \in SUBSET Background /\ told \in SUBSET Background
      /\ Background \subseteq Agents
  BY AgentsAssumption DEF Moves
<1>1. NoticeShapes /\ OnePlace /\ ResultsAreTracked
  BY DEF NoticeInv
<1>2. CompletesFrom(told)
  BY <1>0, <1>1, CompletionEffect
<1>3. \A a \in Background : run'[a] \in Fresh => run[a] \in Fresh /\ a \notin ended
  BY DEF Moves, Fresh
<1>4. /\ \A g \in groups : g \in GroupShapes /\ g.members \subseteq Background /\ g.done \subseteq g.members
      /\ \A n \in nudges : n.about \subseteq Background
  BY <1>1 DEF NoticeShapes, GroupShapes
<1>5. /\ \A g : GroupNudge(g) = [key |-> "group", about |-> g.members]
      /\ \A a : AgentNudge(a) = [key |-> "agent", about |-> {a}]
  BY DEF GroupNudge, AgentNudge
<1>t. told \cap (batch \cup consumed) = {} /\ told \subseteq ended
  OBVIOUS
<1> HIDE DEF told
<1>6. NoticeShapes'
  <2>1. groups' \subseteq GroupShapes /\ \A h \in groups' : h.done \subseteq h.members
    BY <1>2, <1>4 DEF CompletesFrom
  <2>2. nudges' \subseteq [key : {"agent", "group"}, about : SUBSET Background]
    <3> SUFFICES ASSUME NEW n \in nudges'
                 PROVE  n \in [key : {"agent", "group"}, about : SUBSET Background]
      OBVIOUS
    <3>1. CASE n \in nudges
      BY <1>1, <3>1 DEF NoticeShapes
    <3>2. ASSUME NEW g \in groups, n = GroupNudge(g)
          PROVE  n \in [key : {"agent", "group"}, about : SUBSET Background]
      BY <1>4, <1>5, <3>2
    <3>3. ASSUME NEW x \in told, n = AgentNudge(x)
          PROVE  n \in [key : {"agent", "group"}, about : SUBSET Background]
      BY <1>0, <1>5, <3>3
    <3> QED
      BY <1>2, <3>1, <3>2, <3>3 DEF CompletesFrom
  <2> QED
    BY <1>1, <2>1, <2>2 DEF NoticeShapes
<1>7. \A a \in Background : Member(a)' =>
        \E g \in groups : a \in g.members /\ ~Completed(told, g)
  BY <1>2 DEF Member, CompletesFrom
<1>8. \A n \in nudges' : \A a \in n.about :
        \/ n \in nudges
        \/ \E g \in groups : a \in g.members /\ Completed(told, g) /\ n = GroupNudge(g)
        \/ a \in told /\ ~Member(a) /\ n = AgentNudge(a)
  BY <1>2, <1>5 DEF CompletesFrom
<1>9. \A a : About(a)' =>
        \/ About(a)
        \/ \E g \in groups : a \in g.members /\ Completed(told, g)
        \/ a \in told /\ ~Member(a)
  BY <1>8 DEF About
<1>10. OnePlace'
  <2>1. \A a \in batch : ~Member(a)' /\ ~About(a)' /\ sent[a] = 0
    BY <1>1, <1>7, <1>9, <1>t DEF OnePlace, Member, NoticeShapes
  <2>2. \A a \in Background : Member(a)' => ~About(a)' /\ sent[a] = 0
    <3> SUFFICES ASSUME NEW a \in Background, Member(a)'
                 PROVE  ~About(a)' /\ sent[a] = 0
      OBVIOUS
    <3>1. PICK g \in groups : a \in g.members /\ ~Completed(told, g)
      BY <1>7
    <3>2. Member(a) /\ ~About(a) /\ sent[a] = 0
      BY <1>1, <3>1 DEF OnePlace, Member
    <3>3. \A h \in groups : a \in h.members => h = g
      BY <1>1, <3>1 DEF OnePlace
    <3> QED
      BY <1>9, <3>1, <3>2, <3>3
  <2>3. \A n \in nudges' : \A a \in n.about : sent[a] = 0
    <3> SUFFICES ASSUME NEW n \in nudges', NEW a \in n.about
                 PROVE  sent[a] = 0
      OBVIOUS
    <3>1. CASE n \in nudges
      BY <1>1, <3>1 DEF OnePlace
    <3>2. CASE \E g \in groups : a \in g.members
      BY <1>1, <1>4, <3>2 DEF OnePlace, Member
    <3>3. CASE a \in told
      BY <1>0, <1>1, <1>t, <3>3 DEF OnePlace, Moves
    <3> QED
      BY <1>8, <3>1, <3>2, <3>3
  <2>4. \A g, h \in groups' : g # h => g.members \cap h.members = {}
    <3> SUFFICES ASSUME NEW g \in groups', NEW h \in groups', NEW a \in g.members \cap h.members
                 PROVE  g = h
      OBVIOUS
    <3>1. g \in {j \in {JoinGroup(x, told) : x \in groups} : ~Complete(j)}
          /\ h \in {j \in {JoinGroup(x, told) : x \in groups} : ~Complete(j)}
      BY DEF OnComplete, told
    <3>2. PICK x \in groups, y \in groups : g = JoinGroup(x, told) /\ h = JoinGroup(y, told)
      BY <3>1
    <3>3. g.members = x.members /\ h.members = y.members
      BY <1>0, <1>4, <3>2, Joined
    <3>4. x = y
      BY <1>1, <3>3 DEF OnePlace
    <3> QED
      BY <3>2, <3>4
  <2>5. \A m, n \in nudges' : m # n => m.about \cap n.about = {}
    <3> SUFFICES ASSUME NEW m \in nudges', NEW n \in nudges', NEW a \in m.about \cap n.about
                 PROVE  m = n
      OBVIOUS
    <3>1. CASE m \in nudges \/ n \in nudges
      <4>1. a \in Background /\ About(a)
        BY <1>4, <3>1 DEF About
      <4>2. ~Member(a) /\ ~(a \in told)
        BY <1>0, <1>1, <1>t, <4>1 DEF OnePlace, Moves
      <4>3. m \in nudges /\ n \in nudges
        BY <1>8, <4>2 DEF Member
      <4> QED
        BY <1>1, <4>3 DEF OnePlace
    <3>2. CASE m \notin nudges /\ n \notin nudges
      <4>1. CASE Member(a)
        <5>1. PICK g \in groups : a \in g.members /\ m = GroupNudge(g)
          BY <1>8, <3>2, <4>1
        <5>2. PICK h \in groups : a \in h.members /\ n = GroupNudge(h)
          BY <1>8, <3>2, <4>1
        <5>3. g = h
          BY <1>1, <5>1, <5>2 DEF OnePlace
        <5> QED
          BY <5>1, <5>2, <5>3
      <4>2. CASE ~Member(a)
        BY <1>8, <3>2, <4>2 DEF Member
      <4> QED
        BY <4>1, <4>2
    <3> QED
      BY <3>1, <3>2
  <2>6. \A a \in Background : run'[a] \in Fresh =>
          ~About(a)' /\ sent[a] = 0 /\ \A g \in groups' : a \notin g.done
    <3> SUFFICES ASSUME NEW a \in Background, run'[a] \in Fresh
                 PROVE  ~About(a)' /\ sent[a] = 0 /\ \A g \in groups' : a \notin g.done
      OBVIOUS
    <3>1. /\ ~About(a) /\ sent[a] = 0 /\ \A g \in groups : a \notin g.done
          /\ a \notin told
      BY <1>1, <1>3, <1>t DEF OnePlace
    <3>2. \A g \in groups : a \in g.members => ~Completed(told, g)
      BY <3>1 DEF Completed
    <3>3. \A g \in groups' : a \notin g.done
      BY <1>2, <3>1 DEF CompletesFrom
    <3> QED
      BY <1>9, <3>1, <3>2, <3>3
  <2>7. \A a \in Background : Unborn(a)' => a \notin batch /\ ~Member(a)'
    <3>1. \A a \in Background : Unborn(a)' => Unborn(a)
      BY <1>0 DEF Moves, Unborn, Fresh
    <3> QED
      BY <1>1, <1>7, <3>1 DEF OnePlace, Member
  <2>8. \A a \in Agents : sent[a] <= 1
    BY <1>1 DEF OnePlace
  <2> QED
    BY <2>1, <2>2, <2>3, <2>4, <2>5, <2>6, <2>7, <2>8 DEF OnePlace
<1>11. ResultsAreTracked'
  <2> SUFFICES ASSUME NEW a \in known' \cap Background,
                      run'[a] \in {"settled", "recounted", "failed"}, a \notin consumed',
                      continued'[a] + finalized'[a] = 0
               PROVE  \/ a \in batch' \/ sent'[a] > 0
                      \/ \E g \in groups' : a \in g.done /\ g.timer
                      \/ \E n \in nudges' : a \in n.about
    BY DEF ResultsAreTracked
  <2>1. CASE a \in told
    <3>1. CASE Member(a)
      <4>1. PICK g \in groups : a \in g.members
        BY <3>1 DEF Member
      <4> QED
        BY <1>2, <1>5, <2>1, <4>1 DEF CompletesFrom
    <3>2. CASE ~Member(a)
      <4>1. AgentNudge(a) \in nudges'
        BY <1>2, <2>1, <3>2 DEF CompletesFrom
      <4> QED
        BY <1>5, <4>1
    <3> QED
      BY <3>1, <3>2
  <2>2. CASE a \in ended /\ a \notin told
    BY <2>2 DEF told
  <2>3. CASE a \notin ended
    <3>1. run'[a] = run[a] /\ UNCHANGED <<known, continued, finalized>>
      BY <2>3 DEF Moves
    <3>2. \/ a \in batch \/ sent[a] > 0
          \/ \E g \in groups : a \in g.done /\ g.timer
          \/ \E n \in nudges : a \in n.about
      BY <1>1, <3>1 DEF ResultsAreTracked
    <3>3. ASSUME NEW g \in groups, a \in g.done, g.timer
          PROVE  \/ \E h \in groups' : a \in h.done /\ h.timer
                 \/ \E n \in nudges' : a \in n.about
      BY <1>2, <1>4, <1>5, <3>3 DEF CompletesFrom
    <3> QED
      BY <1>2, <3>2, <3>3 DEF CompletesFrom
  <2> QED
    BY <2>1, <2>2, <2>3
<1> QED
  BY <1>6, <1>10, <1>11 DEF NoticeInv

\* What a turn leaves of the invariant when it ends no run that is reported and
\* touches neither batch, groups nor messages.
LEMMA SilentKeeps ==
  ASSUME ManagerInv, NoticeInv, UNCHANGED noticeVars, \A x \in Background : Stays(x),
         \A x \in Background : Unborn(x)' => Unborn(x),
         \A x \in known' \cap Background :
           run'[x] \in {"settled", "recounted", "failed"} =>
             x \in known /\ (continued'[x] + finalized'[x] = 0 => continued[x] + finalized[x] = 0)
  PROVE  NoticeInv'
<1>0. UNCHANGED <<batch, groups, nudges, consumed, sent>>
  BY DEF noticeVars
<1>1. NoticeShapes'
  BY <1>0 DEF NoticeInv, NoticeShapes
<1>2. \A a \in Background : run'[a] \in Fresh => run[a] \in Fresh
  BY DEF Stays, Fresh, Unrecorded
<1>3. OnePlace'
  BY <1>0, <1>2 DEF NoticeInv, OnePlace, Member, About
<1>4. \A a \in Background :
        run'[a] \in {"settled", "recounted", "failed"} => run'[a] = run[a]
  BY DEF Stays, Unrecorded
<1>5. ResultsAreTracked'
  BY <1>0, <1>4 DEF NoticeInv, ResultsAreTracked
<1> QED
  BY <1>1, <1>3, <1>5 DEF NoticeInv

\* Agents that are spawned wait in the batch.
LEMMA SpawnsKeep ==
  ASSUME ManagerInv, NoticeInv, NEW a \in Agents, Spawns(a)
  PROVE  NoticeInv'
<1>1. /\ Unborn(a) /\ known' = known \cup {a} /\ UNCHANGED <<continued, finalized, disposed>>
      /\ \A x \in Agents : run'[x] = run[x] \/ (x = a /\ run[x] = "none" /\ run'[x] = "pending")
  BY DEF Spawns, SpawnQueued, SpawnStarted, Unborn, attemptVars, ManagerInv, RecordInv, ManagerTypeOK
<1>2. /\ batch' = IF a \in Background THEN batch \cup {a} ELSE batch
      /\ UNCHANGED <<groups, nudges, consumed, sent>>
  BY DEF Spawns
<1>3. NoticeShapes /\ OnePlace /\ ResultsAreTracked /\ Background \subseteq Agents
  BY AgentsAssumption DEF NoticeInv
<1>4. NoticeShapes'
  BY <1>2, <1>3 DEF NoticeShapes
<1>5. OnePlace'
  <2>1. \A x \in batch' : ~Member(x) /\ ~About(x) /\ sent[x] = 0
    BY <1>1, <1>2, <1>3 DEF OnePlace, Unborn, Fresh
  <2>2. \A x \in Background : run'[x] \in Fresh => run[x] \in Fresh
    BY <1>1, <1>3 DEF Fresh
  <2>3. \A x \in Background : Unborn(x)' => Unborn(x) /\ x # a
    BY <1>1, <1>3 DEF Unborn
  <2> QED
    BY <1>2, <1>3, <2>1, <2>2, <2>3 DEF OnePlace, Member, About
<1>6. ResultsAreTracked'
  <2>1. \A x \in known' \cap Background :
          run'[x] \in {"settled", "recounted", "failed"} => x \in known /\ run'[x] = run[x]
    BY <1>1, <1>3 DEF Unborn
  <2> QED
    BY <1>1, <1>2, <1>3, <2>1 DEF ResultsAreTracked
<1> QED
  BY <1>4, <1>5, <1>6 DEF NoticeInv

\* The timer of the batch moves its agents into a group or a message.
LEMMA FinalizeKeeps ==
  ASSUME ManagerInv, AttemptsCounted, EndsAreShown, NoticeInv, FinalizeBatch
  PROVE  NoticeInv'
<1> DEFINE ended == {a \in batch : Unasked(a)}
           group == Group(batch, ended)
<1>1. batch' = {} /\ UNCHANGED <<managerVars, consumed, sent>>
  BY DEF FinalizeBatch
<1>2. UNCHANGED <<known, status, run, continued, finalized, disposed>>
  BY <1>1 DEF managerVars
<1>3. NoticeShapes /\ OnePlace /\ ResultsAreTracked /\ Background \subseteq Agents
  BY AgentsAssumption DEF NoticeInv
<1>4. \A a \in ended : a \in Background /\ run[a] \notin Fresh
  BY <1>3 DEF Unasked, EndsAreShown, NoticeShapes
<1>5. \A a \in batch :
        a \in known /\ run[a] \in {"settled", "recounted", "failed"} /\ a \notin consumed
          /\ continued[a] + finalized[a] = 0 => a \in ended
  <2> SUFFICES ASSUME NEW a \in batch, a \in known, run[a] \in {"settled", "recounted", "failed"},
                      a \notin consumed, continued[a] + finalized[a] = 0
               PROVE  Ended(a)
    BY DEF Unasked
  <2>1. /\ Consistent(a \in known, status[a], run[a], session[a], resuming[a], a \in Queued)
        /\ status[a] \in Statuses /\ resuming[a] \in Nat
    BY <1>3 DEF ManagerInv, RecordInv, ManagerTypeOK, NoticeShapes
  <2>2. resuming[a] <= 0
    BY DEF AttemptsCounted
  <2> QED
    BY <2>1, <2>2 DEF Consistent, Statuses, Ended
<1>6. ended \subseteq batch /\ batch \subseteq Background
  BY <1>3 DEF NoticeShapes
<1> HIDE DEF ended
<1>7. /\ group \in GroupShapes /\ group.members = batch /\ group.done = ended
      /\ group.timer <=> ended # {}
  BY <1>6 DEF Group, GroupShapes
<1>8. /\ Complete(group) <=> ended = batch
      /\ GroupNudge(group) = [key |-> "group", about |-> batch]
      /\ \A a : AgentNudge(a) = [key |-> "agent", about |-> {a}]
  BY <1>7 DEF GroupNudge, AgentNudge, Complete
<1>9. IF Cardinality(batch) >= 2
      THEN IF Complete(group)
           THEN nudges' = nudges \cup {GroupNudge(group)} /\ UNCHANGED groups
           ELSE groups' = groups \cup {group} /\ UNCHANGED nudges
      ELSE nudges' = nudges \cup {AgentNudge(a) : a \in ended} /\ UNCHANGED groups
  BY DEF FinalizeBatch, ended
<1>10. \A a \in batch : a \in Background /\ ~Member(a) /\ ~About(a) /\ sent[a] = 0
  BY <1>3, <1>6 DEF OnePlace
<1> HIDE DEF group
<1>11. CASE ended = batch /\ nudges' = nudges \cup {GroupNudge(group)} /\ UNCHANGED groups
  <2>1. NoticeShapes'
    BY <1>1, <1>3, <1>6, <1>8, <1>11 DEF NoticeShapes
  <2>2. \A a : About(a)' => About(a) \/ a \in batch
    BY <1>8, <1>11 DEF About
  <2>3. \A m, n \in nudges' : m # n => m.about \cap n.about = {}
    BY <1>3, <1>8, <1>10, <1>11 DEF OnePlace, About
  <2>4. \A n \in nudges' : \A a \in n.about : sent[a] = 0
    BY <1>3, <1>8, <1>10, <1>11 DEF OnePlace
  <2>5. OnePlace'
    BY <1>1, <1>2, <1>3, <1>4, <1>10, <1>11, <2>2, <2>3, <2>4 DEF OnePlace, Member, Unborn
  <2>6. ResultsAreTracked'
    BY <1>1, <1>2, <1>3, <1>8, <1>11 DEF ResultsAreTracked
  <2> QED
    BY <2>1, <2>5, <2>6 DEF NoticeInv
<1>12. CASE groups' = groups \cup {group} /\ UNCHANGED nudges
  <2>1. NoticeShapes'
    BY <1>1, <1>3, <1>6, <1>7, <1>12 DEF NoticeShapes
  <2>2. \A a : Member(a)' => Member(a) \/ a \in batch
    BY <1>7, <1>12 DEF Member
  <2>3. \A g, h \in groups' : g # h => g.members \cap h.members = {}
    BY <1>3, <1>7, <1>10, <1>12 DEF OnePlace, Member
  <2>4. \A a \in Background : run[a] \in Fresh => \A g \in groups' : a \notin g.done
    BY <1>3, <1>4, <1>7, <1>12 DEF OnePlace
  <2>5. OnePlace'
    BY <1>1, <1>2, <1>3, <1>10, <1>12, <2>2, <2>3, <2>4 DEF OnePlace, About, Unborn
  <2>6. ResultsAreTracked'
    BY <1>1, <1>2, <1>3, <1>5, <1>7, <1>12 DEF ResultsAreTracked
  <2> QED
    BY <2>1, <2>5, <2>6 DEF NoticeInv
<1>13. CASE nudges' = nudges \cup {AgentNudge(a) : a \in ended} /\ UNCHANGED groups
  <2>0. \A n \in nudges' : n \in nudges \/ \E a \in ended : n = [key |-> "agent", about |-> {a}]
    BY <1>8, <1>13
  <2>1. NoticeShapes'
    <3>1. \A a \in ended : [key |-> "agent", about |-> {a}]
                             \in [key : {"agent", "group"}, about : SUBSET Background]
      BY <1>6
    <3>2. nudges' \subseteq [key : {"agent", "group"}, about : SUBSET Background]
      BY <1>3, <2>0, <3>1 DEF NoticeShapes
    <3> QED
      BY <1>1, <1>3, <1>13, <3>2 DEF NoticeShapes
  <2>2. \A a : About(a)' => About(a) \/ a \in ended
    BY <2>0 DEF About
  <2>3. \A m, n \in nudges' : m # n => m.about \cap n.about = {}
    <3>1. \A n \in nudges' : n \notin nudges => \E a \in batch : n = [key |-> "agent", about |-> {a}]
      BY <1>6, <2>0
    <3>2. \A a \in batch : \A n \in nudges : a \notin n.about
      BY <1>10 DEF About
    <3> SUFFICES ASSUME NEW m \in nudges', NEW n \in nudges', NEW a \in m.about, a \in n.about
                 PROVE  m = n
      OBVIOUS
    <3>3. CASE m \in nudges /\ n \in nudges
      BY <1>3, <3>3 DEF OnePlace
    <3>4. CASE m \notin nudges \/ n \notin nudges
      <4>1. a \in batch
        BY <3>1, <3>4
      <4>2. m = [key |-> "agent", about |-> {a}] /\ n = [key |-> "agent", about |-> {a}]
        BY <3>1, <3>2, <4>1
      <4> QED
        BY <4>2
    <3> QED
      BY <3>3, <3>4
  <2>4. \A n \in nudges' : \A a \in n.about : sent[a] = 0
    BY <1>3, <1>6, <1>10, <2>0 DEF OnePlace
  <2>5. OnePlace'
    BY <1>1, <1>2, <1>3, <1>4, <1>6, <1>10, <1>13, <2>2, <2>3, <2>4 DEF OnePlace, Member, Unborn
  <2>6. \A a \in ended : \E n \in nudges' : a \in n.about
    BY <1>8, <1>13
  <2>7. nudges \subseteq nudges'
    BY <1>13
  <2>8. ResultsAreTracked'
    BY <1>1, <1>2, <1>3, <1>5, <1>13, <2>6, <2>7 DEF ResultsAreTracked
  <2> QED
    BY <2>1, <2>5, <2>8 DEF NoticeInv
<1> QED
  BY <1>8, <1>9, <1>11, <1>12, <1>13

\* The timer of a group delivers what it holds and leaves the stragglers.
LEMMA TimeoutKeeps ==
  ASSUME NoticeInv, NEW g \in groups, GroupTimeout(g)
  PROVE  NoticeInv'
<1> DEFINE rest == Group(g.members \ g.done, {})
           said == [key |-> "group", about |-> g.done]
<1>1. NoticeShapes /\ OnePlace /\ ResultsAreTracked
  BY DEF NoticeInv
<1>2. /\ groups' = (groups \ {g}) \cup {rest} /\ nudges' = nudges \cup {said}
      /\ UNCHANGED <<managerVars, batch, consumed, sent>>
  BY DEF GroupTimeout
<1>3. UNCHANGED <<known, run, continued, finalized, disposed>>
  BY <1>2 DEF managerVars
<1>4. /\ g \in GroupShapes /\ g.members \subseteq Background /\ g.done \subseteq g.members
      /\ rest \in GroupShapes /\ rest.members = g.members \ g.done /\ rest.done = {}
      /\ said.about = g.done /\ said \in [key : {"agent", "group"}, about : SUBSET Background]
  BY <1>1 DEF NoticeShapes, GroupShapes, Group
<1> HIDE DEF rest, said
<1>5. NoticeShapes'
  BY <1>1, <1>2, <1>4 DEF NoticeShapes
<1>6. \A a \in g.members : ~About(a) /\ sent[a] = 0 /\ a \notin batch
                           /\ \A h \in groups : a \in h.members => h = g
  BY <1>1, <1>4 DEF OnePlace, Member
<1>7. OnePlace'
  <2>1. \A a : Member(a)' => Member(a) /\ a \notin g.done
    BY <1>2, <1>4, <1>6 DEF Member
  <2>2. \A a : About(a)' => About(a) \/ a \in g.done
    BY <1>2, <1>4 DEF About
  <2>3. \A x, y \in groups' : x # y => x.members \cap y.members = {}
    BY <1>1, <1>2, <1>4, <1>6 DEF OnePlace
  <2>4. \A m, n \in nudges' : m # n => m.about \cap n.about = {}
    BY <1>1, <1>2, <1>4, <1>6 DEF OnePlace, About
  <2>5. \A n \in nudges' : \A a \in n.about : sent[a] = 0
    BY <1>1, <1>2, <1>4, <1>6 DEF OnePlace
  <2>6. \A a \in Background : run[a] \in Fresh => a \notin g.done /\ \A h \in groups' : a \notin h.done
    BY <1>1, <1>2, <1>4 DEF OnePlace
  <2> QED
    BY <1>1, <1>2, <1>3, <1>4, <1>6, <2>1, <2>2, <2>3, <2>4, <2>5, <2>6 DEF OnePlace, Unborn
<1>8. ResultsAreTracked'
  BY <1>1, <1>2, <1>3, <1>4 DEF ResultsAreTracked
<1> QED
  BY <1>5, <1>7, <1>8 DEF NoticeInv

\* A message that is sent is about agents in no other place.
LEMMA SendKeeps ==
  ASSUME NoticeInv, NEW n \in nudges, SendNudge(n)
  PROVE  NoticeInv'
<1>1. NoticeShapes /\ OnePlace /\ ResultsAreTracked
  BY DEF NoticeInv
<1>2. /\ nudges' = nudges \ {n} /\ UNCHANGED <<managerVars, batch, groups, consumed>>
      /\ sent' = [a \in Agents |-> IF a \in n.about \ consumed THEN sent[a] + 1 ELSE sent[a]]
  BY DEF SendNudge
<1>3. UNCHANGED <<known, run, continued, finalized, disposed>>
  BY <1>2 DEF managerVars
<1>4. n.about \subseteq Background /\ Background \subseteq Agents /\ sent \in [Agents -> Nat]
  BY <1>1, AgentsAssumption DEF NoticeShapes
<1>5. NoticeShapes'
  <2>1. sent' \in [Agents -> Nat]
    BY <1>2, <1>4
  <2> QED
    BY <1>1, <1>2, <2>1 DEF NoticeShapes
<1>6. \A a \in n.about : /\ sent[a] = 0 /\ a \notin batch /\ ~Member(a) /\ run[a] \notin Fresh
                         /\ \A m \in nudges' : a \notin m.about
  BY <1>1, <1>2, <1>4 DEF OnePlace, About
<1>7. \A a \in Agents : sent'[a] = IF a \in n.about \ consumed THEN 1 ELSE sent[a]
  BY <1>2, <1>6
<1>8. OnePlace'
  <2>1. \A a : About(a)' => About(a) /\ a \notin n.about
    BY <1>2, <1>6 DEF About
  <2>2. \A m \in nudges' : m \in nudges /\ m.about \subseteq Background
    BY <1>1, <1>2 DEF NoticeShapes
  <2>3. \A a \in batch : a \in Agents /\ a \notin n.about
    BY <1>1, <1>4, <1>6 DEF NoticeShapes
  <2>4. \A m \in nudges' : \A a \in m.about : sent'[a] = 0
    BY <1>1, <1>4, <1>6, <1>7, <2>2 DEF OnePlace
  <2>5. \A a \in batch : sent'[a] = 0
    BY <1>1, <1>7, <2>3 DEF OnePlace
  <2>6. \A a \in Background : Member(a) \/ run[a] \in Fresh => a \notin n.about
    BY <1>6
  <2>7. \A a \in Agents : sent'[a] <= 1
    BY <1>1, <1>7 DEF OnePlace
  <2>8. \A a \in Agents \ n.about : sent'[a] = sent[a]
    BY <1>7
  <2> QED
    BY <1>1, <1>2, <1>3, <1>4, <2>1, <2>2, <2>4, <2>5, <2>6, <2>7, <2>8 DEF OnePlace, Member, Unborn
<1>9. ResultsAreTracked'
  <2>1. \A a \in Background : sent[a] > 0 => sent'[a] > 0
    BY <1>4, <1>7
  <2>2. \A a \in Background \ consumed :
          (\E m \in nudges : a \in m.about) => sent'[a] > 0 \/ \E m \in nudges' : a \in m.about
    BY <1>2, <1>4, <1>7
  <2> QED
    BY <1>1, <1>2, <1>3, <2>1, <2>2 DEF ResultsAreTracked
<1> QED
  BY <1>5, <1>8, <1>9 DEF NoticeInv

\* What the planner asks for is dropped from the messages only if it stands alone.
LEMMA AskingKeeps ==
  ASSUME NoticeInv, NEW a \in Agents, GetResult(a)
  PROVE  NoticeInv'
<1>1. NoticeShapes /\ OnePlace /\ ResultsAreTracked
  BY DEF NoticeInv
<1>2. /\ a \in Background /\ consumed' = consumed \cup {a} /\ nudges' = nudges \ {AgentNudge(a)}
      /\ UNCHANGED <<managerVars, batch, groups, sent>>
  BY DEF GetResult
<1>3. UNCHANGED <<known, run, continued, finalized, disposed>>
  BY <1>2 DEF managerVars
<1>4. NoticeShapes'
  BY <1>1, <1>2 DEF NoticeShapes
<1>5. OnePlace'
  BY <1>1, <1>2, <1>3 DEF OnePlace, Member, About, Unborn
<1>6. ResultsAreTracked'
  BY <1>1, <1>2, <1>3 DEF ResultsAreTracked, AgentNudge
<1> QED
  BY <1>4, <1>5, <1>6 DEF NoticeInv

\* Removing records and shutting down leave results that nobody can ask for.
LEMMA ForgettingKeeps ==
  ASSUME ManagerInv, EndsAreShown, NoticeInv, RemoveQuietly \/ ShutdownAll
  PROVE  NoticeInv'
<1>1. NoticeShapes /\ OnePlace /\ ResultsAreTracked
  BY DEF NoticeInv
<1>2. /\ known \subseteq Agents /\ Background \subseteq Agents
      /\ \A x \in Agents :
           Consistent(x \in known, status[x], run[x], session[x], resuming[x], x \in Queued)
  BY AgentsAssumption DEF ManagerInv, RecordInv, ManagerTypeOK
<1>3. ASSUME NEW gone \in SUBSET known, Remove(gone), UNCHANGED noticeVars
      PROVE  NoticeInv'
  <2>1. /\ known' = known \ gone /\ run' = run /\ disposed' = disposed
        /\ \A x \in gone : status[x] \notin {"queued", "running"}
        /\ \A x \in Agents \ gone : continued'[x] = continued[x] /\ finalized'[x] = finalized[x]
    BY <1>2, <1>3 DEF Remove, Idle, Forget
  <2>2. \A x \in Agents : Stays(x)
    BY <2>1 DEF Stays
  <2>3. \A x \in Background \cap gone : run[x] # "none"
    <3>1. \A x \in gone : status[x] \in {"ended", "stopped"}
      BY <1>2, <2>1 DEF ManagerInv, RecordInv, ManagerTypeOK, Statuses, Consistent
    <3> QED
      BY <3>1 DEF EndsAreShown, Ended, Fresh
  <2>4. \A x \in Background : Unborn(x)' => Unborn(x)
    BY <2>1, <2>3 DEF Unborn
  <2>5. \A x \in known' \cap Background :
          x \in known /\ continued'[x] = continued[x] /\ finalized'[x] = finalized[x]
    BY <1>2, <2>1
  <2> QED
    BY <1>2, <1>3, <2>2, <2>4, <2>5, SilentKeeps
<1>4. CASE ShutdownAll
  <2>1. /\ known' = {} /\ disposed' = TRUE /\ run' = run /\ nudges' = {}
        /\ UNCHANGED <<batch, groups, consumed, sent>>
    BY <1>4 DEF ShutdownAll, Shutdown, Forget
  <2>2. NoticeShapes'
    BY <1>1, <2>1 DEF NoticeShapes
  <2>3. OnePlace'
    BY <1>1, <2>1 DEF OnePlace, Member, About, Unborn
  <2>4. ResultsAreTracked'
    BY <2>1 DEF ResultsAreTracked
  <2> QED
    BY <2>2, <2>3, <2>4 DEF NoticeInv
<1> QED
  BY <1>3, <1>4 DEF RemoveQuietly

-----------------------------------------------------------------------------
(* The invariant of the results *)

NoticesInv == ManagerInv /\ AttemptsCounted /\ EndsAreShown /\ NoticeInv

\* Agents that start, end, fail, are stopped, resumed and removed, timers and
\* the questions of the planner keep it.
LEMMA NoticesNextInv ==
  ASSUME NoticesInv, [Next]_allVars
  PROVE  NoticesInv'
<1>1. ManagerInv /\ AttemptsCounted /\ EndsAreShown /\ NoticeInv
  BY DEF NoticesInv
<1>2. [ManagerNext]_managerVars
  BY NextIsManagerNext DEF allVars
<1>3. ManagerInv' /\ AttemptsCounted' /\ EndsAreShown'
  BY <1>1, <1>2, ManagerNextInv, AttemptsStayCounted, EndsStayShown
<1>4. CASE UNCHANGED allVars
  <2>1. UNCHANGED <<known, run, continued, finalized, disposed>> /\ UNCHANGED noticeVars
    BY <1>4 DEF allVars, managerVars
  <2>2. \A x \in Background : Stays(x) /\ (Unborn(x)' => Unborn(x))
    BY <2>1 DEF Stays, Unborn
  <2> QED
    BY <1>1, <1>3, <2>1, <2>2, SilentKeeps DEF NoticesInv
<1>5. ASSUME NEW a \in Agents, Spawns(a)
      PROVE  NoticeInv'
  BY <1>1, <1>5, SpawnsKeep
<1>6. ASSUME NEW a \in Agents, Ends(a)
      PROVE  NoticeInv'
  <2>1. Moves(Reported(a) \cup Failed)
    BY <1>1, <1>6, EndsMoves
  <2>2. OnComplete(Reported(a) \cup Failed) /\ UNCHANGED <<batch, consumed, sent>>
    BY <1>6 DEF Ends
  <2> QED
    BY <1>1, <2>1, <2>2, CompletionKeeps
<1>7. ASSUME NEW limit \in Limits, Limits_(limit)
      PROVE  NoticeInv'
  <2>1. Moves(Failed)
    BY <1>1, <1>7, LimitMoves
  <2>2. OnComplete(Failed) /\ UNCHANGED <<batch, consumed, sent>>
    BY <1>7 DEF Limits_
  <2> QED
    BY <1>1, <2>1, <2>2, CompletionKeeps
<1>8. ASSUME NEW a \in Agents, Quietly(a)
      PROVE  NoticeInv'
  <2>1. /\ UNCHANGED <<known, disposed>> /\ UNCHANGED noticeVars
        /\ \A x \in Agents : Stays(x)
        /\ \A x \in Agents : continued'[x] + finalized'[x] >= continued[x] + finalized[x]
    BY <1>1, <1>8, QuietStays DEF Quietly
  <2>2. Background \subseteq Agents /\ \A x \in Agents : continued[x] \in Nat /\ finalized[x] \in Nat
    BY <1>1, AgentsAssumption DEF ManagerInv, RecordInv, ManagerTypeOK
  <2>3. \A x \in Background : Unborn(x)' => Unborn(x)
    BY <2>1, <2>2 DEF Unborn, Stays, Unrecorded
  <2>4. \A x \in Background : continued'[x] + finalized'[x] = 0 => continued[x] + finalized[x] = 0
    BY <2>1, <2>2
  <2> QED
    BY <1>1, <2>1, <2>2, <2>3, <2>4, SilentKeeps
<1>9. ASSUME NEW a \in Agents, GetResult(a)
      PROVE  NoticeInv'
  BY <1>1, <1>9, AskingKeeps
<1>10. ASSUME RemoveQuietly \/ ShutdownAll
       PROVE  NoticeInv'
  BY <1>1, <1>10, ForgettingKeeps
<1>11. ASSUME FinalizeBatch
       PROVE  NoticeInv'
  BY <1>1, <1>11, FinalizeKeeps
<1>12. ASSUME NEW g \in groups, GroupTimeout(g)
       PROVE  NoticeInv'
  BY <1>1, <1>12, TimeoutKeeps
<1>13. ASSUME NEW n \in nudges, SendNudge(n)
       PROVE  NoticeInv'
  BY <1>1, <1>13, SendKeeps
<1> QED
  BY <1>3, <1>4, <1>5, <1>6, <1>7, <1>8, <1>9, <1>10, <1>11, <1>12, <1>13 DEF Next, NoticesInv

\* The records, the places and the tracking hold together, for any agents.
THEOREM NoticesInvariant == Spec => []NoticesInv
<1>1. Init => NoticesInv
  <2> SUFFICES ASSUME Init PROVE NoticesInv
    OBVIOUS
  <2>1. /\ ManagerInit /\ batch = {} /\ groups = {} /\ nudges = {} /\ consumed = {}
        /\ sent = [a \in Agents |-> 0] /\ known = {}
    BY DEF Init, ManagerInit
  <2>2. NoticeShapes /\ AttemptsCounted /\ EndsAreShown /\ ResultsAreTracked
    BY <2>1 DEF NoticeShapes, AttemptsCounted, EndsAreShown, ResultsAreTracked
  <2>3. OnePlace
    BY <2>1, AgentsAssumption DEF OnePlace, About, Member
  <2> QED
    BY <2>1, <2>2, <2>3, ManagerInitInv DEF NoticesInv, NoticeInv
<1>2. NoticesInv /\ [Next]_allVars => NoticesInv'
  BY NoticesNextInv
<1> QED
  BY <1>1, <1>2, PTL DEF Spec

\* A result that the planner neither asked for nor was told is always on its
\* way to it, for any agents, limits, batches and groups.
THEOREM ResultsTracked == Spec => []ResultsAreTracked
<1>1. NoticesInv => ResultsAreTracked
  BY DEF NoticesInv, NoticeInv
<1> QED
  BY <1>1, NoticesInvariant, PTL

\* No agent is reported twice, whichever of its timers and completions come first.
THEOREM ReportedAtMostOnce == Spec => []ReportedOnce
<1>1. NoticesInv => ReportedOnce
  BY DEF NoticesInv, NoticeInv, OnePlace, ReportedOnce
<1> QED
  BY <1>1, NoticesInvariant, PTL

-----------------------------------------------------------------------------
(* The promise *)

\* What a step leaves of a run that came to an end.
Settling(x) ==
  run[x] \notin Fresh =>
    /\ run'[x] = run[x]
    /\ x \in known' => /\ x \in known
                       /\ continued'[x] + finalized'[x] >= continued[x] + finalized[x]
    /\ x \in consumed => x \in consumed'
    /\ sent[x] > 0 => sent'[x] > 0

\* Every step does.
LEMMA StepsSettle ==
  ASSUME NoticesInv, [Next]_allVars, NEW x \in Background
  PROVE  Settling(x)
<1>1. ManagerInv /\ NoticeShapes /\ x \in Agents
  BY AgentsAssumption DEF NoticesInv, NoticeInv
<1>2. /\ continued[x] + finalized[x] >= continued[x] + finalized[x] /\ sent[x] \in Nat
  BY <1>1 DEF ManagerInv, RecordInv, ManagerTypeOK, NoticeShapes, Fresh
<1>3. CASE UNCHANGED allVars
  BY <1>2, <1>3 DEF allVars, managerVars, noticeVars, Settling
<1>4. ASSUME NEW a \in Agents, Spawns(a)
      PROVE  Settling(x)
  <2>1. /\ run[a] = "none" /\ known' = known \cup {a} /\ UNCHANGED <<continued, finalized>>
        /\ UNCHANGED <<consumed, sent>>
        /\ \A y \in Agents \ {a} : run'[y] = run[y]
    BY <1>1, <1>4 DEF Spawns, SpawnQueued, SpawnStarted, Unborn, attemptVars, ManagerInv, RecordInv, ManagerTypeOK
  <2> QED
    BY <1>1, <1>2, <2>1 DEF Settling, Fresh
<1>5. ASSUME NEW ended, Moves(ended), UNCHANGED <<consumed, sent>>
      PROVE  Settling(x)
  BY <1>2, <1>5 DEF Moves, Settling, Fresh
<1>6. ASSUME NEW a \in Agents, Ends(a)
      PROVE  Settling(x)
  <2>1. Moves(Reported(a) \cup Failed) /\ UNCHANGED <<consumed, sent>>
    BY <1>1, <1>6, EndsMoves DEF Ends
  <2> QED
    BY <1>5, <2>1
<1>7. ASSUME NEW limit \in Limits, Limits_(limit)
      PROVE  Settling(x)
  <2>1. Moves(Failed) /\ UNCHANGED <<consumed, sent>>
    BY <1>1, <1>7, LimitMoves DEF Limits_
  <2> QED
    BY <1>5, <2>1
<1>8. ASSUME NEW a \in Agents, Quietly(a)
      PROVE  Settling(x)
  <2>1. /\ UNCHANGED <<known, consumed, sent>> /\ Stays(x)
        /\ continued'[x] + finalized'[x] >= continued[x] + finalized[x]
    BY <1>1, <1>8, QuietStays DEF Quietly, noticeVars
  <2> QED
    BY <2>1 DEF Settling, Stays, Fresh
<1>9. ASSUME UNCHANGED managerVars, consumed \subseteq consumed', sent[x] > 0 => sent'[x] > 0
      PROVE  Settling(x)
  BY <1>2, <1>9 DEF managerVars, Settling
<1>10. ASSUME NEW a \in Agents, GetResult(a)
       PROVE  Settling(x)
  BY <1>9, <1>10 DEF GetResult
<1>11. ASSUME FinalizeBatch \/ \E g \in groups : GroupTimeout(g)
       PROVE  Settling(x)
  BY <1>9, <1>11 DEF FinalizeBatch, GroupTimeout
<1>12. ASSUME NEW n \in nudges, SendNudge(n)
       PROVE  Settling(x)
  <2>1. sent[x] > 0 => sent'[x] > 0
    BY <1>1, <1>2, <1>12 DEF SendNudge
  <2> QED
    BY <1>9, <1>12, <2>1 DEF SendNudge
<1>13. ASSUME RemoveQuietly \/ ShutdownAll
       PROVE  Settling(x)
  <2>1. PICK gone \in SUBSET known : Forget(gone) /\ UNCHANGED <<run, consumed, sent>>
    BY <1>13 DEF RemoveQuietly, ShutdownAll, Remove, Shutdown, noticeVars
  <2>2. x \in known' => x \in known /\ continued'[x] = continued[x] /\ finalized'[x] = finalized[x]
    BY <1>1, <2>1 DEF Forget
  <2> QED
    BY <1>2, <2>1, <2>2 DEF Settling
<1> QED
  BY <1>3, <1>4, <1>6, <1>7, <1>8, <1>10, <1>11, <1>12, <1>13 DEF Next

PromisedResult == [a \in Background |-> Result(a)]

\* The manager, the batches, the groups and the timers take only the steps that
\* AgentResults allows: once told, asked for or lost, a result never changes.
THEOREM ResultsStaySettled == Spec => Promise!Init /\ [][Promise!Next]_PromisedResult
<1>1. Init => Promise!Init
  BY AgentsAssumption DEF Init, ManagerInit, Promise!Init, Result
<1>2. NoticesInv /\ [Next]_allVars => [Promise!Next]_PromisedResult
  <2> SUFFICES ASSUME NoticesInv, [Next]_allVars
               PROVE  Promise!Next
    OBVIOUS
  <2>1. ASSUME NEW x \in Background
        PROVE  Result(x)' = Result(x) \/ <<Result(x), Result(x)'>> \in Promise!Changes
    <3>1. Settling(x)
      BY StepsSettle
    <3>2. /\ run[x] \in Runs /\ run'[x] \in Runs /\ continued[x] + finalized[x] \in Nat
          /\ continued'[x] + finalized'[x] \in Nat
      <4>1. ManagerTypeOK /\ ManagerTypeOK'
        BY NoticesNextInv DEF NoticesInv, ManagerInv, RecordInv
      <4> QED
        BY <4>1, AgentsAssumption DEF ManagerTypeOK
    <3>3. CASE run[x] \in Fresh
      <4>1. Result(x) = "working" /\ Result(x)' \in {"working", "lost", "settled", "owed"}
        BY <3>3 DEF Result, Fresh
      <4> QED
        BY <4>1 DEF Promise!Changes
    <3>4. CASE run[x] \notin Fresh
      <4>1. CASE run[x] \in Unrecorded \cup {"leaked"}
        BY <3>1, <3>4, <4>1 DEF Settling, Result, Unrecorded
      <4>2. CASE run[x] \notin Unrecorded \cup {"leaked"}
        <5>1. /\ Result(x) \in {"settled", "owed"} /\ Result(x)' \in {"settled", "owed"}
              /\ Result(x) = "settled" => Result(x)' = "settled"
          BY <3>1, <3>2, <3>4, <4>2 DEF Settling, Result, Fresh
        <5> QED
          BY <5>1 DEF Promise!Changes
      <4> QED
        BY <4>1, <4>2
    <3> QED
      BY <3>3, <3>4
  <2> QED
    BY <2>1 DEF Promise!Next
<1> QED
  BY <1>1, <1>2, NoticesInvariant, PTL DEF Spec
=============================================================================
