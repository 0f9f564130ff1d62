-------------------------- MODULE AcpServerProofs ---------------------------
(***************************************************************************)
(* Theorems about AcpServer, for any sessions and any number of opens and   *)
(* prompts.                                                                 *)
(*                                                                          *)
(* While a session id is being opened nothing else is registered under it   *)
(* (OpeningAlone); with that the map and the registry follow the open       *)
(* session.                                                                 *)
(*                                                                          *)
(* Promises and runs may outlast the answer to their prompt.  Every prompt  *)
(* is answered once all the same, and until then something will answer it:  *)
(* a prompt is the turn of its session exactly as long as it has no answer  *)
(* (WaitInv).  That a prompt whose run has started ends with that run rests *)
(* on it and on turnActive: an AgentSession has one run at a time, and that *)
(* of its turn is marked (OneRun).                                          *)
(***************************************************************************)
EXTENDS AcpServer, TLAPS

Opening == {"loading", "binding"}

\* An id that is being opened is opened once, is not in the map, and from the
\* binding on its prompter is the one registered.
OpeningAlone ==
  \A s \in Sessions, i \in Opens : stage[s][i] \in Opening =>
    /\ entry[s] = None
    /\ \A j \in Opens : stage[s][j] \in Opening => j = i
    /\ stage[s][i] = "binding" => prompter[s] = i

SessionInv == NoSessionLost /\ PrompterFollowsSession /\ OpeningAlone

\* No session and no prompt is None.
LEMMA NoneApart == None \notin Opens /\ None \notin Prompts
BY DEF None, Opens, Prompts

\* A function of two arguments keeps its type when it is changed at one place.
LEMMA ExceptType ==
  ASSUME NEW A, NEW B, NEW C, NEW f \in [A -> [B -> C]], NEW a \in A, NEW b \in B, NEW c \in C
  PROVE  [f EXCEPT ![a][b] = c] \in [A -> [B -> C]]
<1>1. [f[a] EXCEPT ![b] = c] \in [B -> C]
  OBVIOUS
<1> QED
  BY <1>1

\* Elsewhere it stays as it is.
LEMMA ExceptElsewhere ==
  ASSUME NEW B, NEW C, NEW f \in [B -> C], NEW b \in B, NEW c, NEW x \in B, x # b
  PROVE  [f EXCEPT ![b] = c][x] = f[x]
OBVIOUS

\* A session becomes one of the stages.
LEMMA BecomesType ==
  ASSUME stage \in [Sessions -> [Opens -> Stages]], NEW s \in Sessions, NEW i \in Opens,
         NEW st \in Stages, Becomes(s, i, st)
  PROVE  stage' \in [Sessions -> [Opens -> Stages]]
<1>1. [stage EXCEPT ![s][i] = st] \in [Sessions -> [Opens -> Stages]]
  BY ExceptType
<1> QED
  BY <1>1 DEF Becomes

\* Answering a turn keeps the types.
LEMMA AnsweredType ==
  ASSUME AcpTypeOK, NEW s \in Sessions, NEW i \in Opens, NEW a \in Answers, Answered(s, i, a)
  PROVE  /\ turn' \in [Sessions -> [Opens -> Prompts \cup {None}]]
         /\ cancelled' \in [Sessions -> [Opens -> BOOLEAN]]
         /\ active' \in [Sessions -> [Opens -> BOOLEAN]]
         /\ answer' \in [Sessions -> [Prompts -> Answers]]
<1>1. CASE turn[s][i] = None
  BY <1>1 DEF Answered, turnVars, AcpTypeOK
<1>2. CASE turn[s][i] # None
  <2>1. turn[s][i] \in Prompts
    BY <1>2 DEF AcpTypeOK
  <2>2. turn' \in [Sessions -> [Opens -> Prompts \cup {None}]]
    <3>1. [turn EXCEPT ![s][i] = None] \in [Sessions -> [Opens -> Prompts \cup {None}]]
      BY ExceptType DEF AcpTypeOK
    <3> QED
      BY <1>2, <3>1 DEF Answered
  <2>3. cancelled' \in [Sessions -> [Opens -> BOOLEAN]] /\ active' \in [Sessions -> [Opens -> BOOLEAN]]
    <3>1. [cancelled EXCEPT ![s][i] = FALSE] \in [Sessions -> [Opens -> BOOLEAN]]
      BY ExceptType DEF AcpTypeOK
    <3>2. [active EXCEPT ![s][i] = FALSE] \in [Sessions -> [Opens -> BOOLEAN]]
      BY ExceptType DEF AcpTypeOK
    <3> QED
      BY <1>2, <3>1, <3>2 DEF Answered
  <2>4. answer' \in [Sessions -> [Prompts -> Answers]]
    <3>1. [answer EXCEPT ![s][turn[s][i]] = a] \in [Sessions -> [Prompts -> Answers]]
      BY <2>1, ExceptType DEF AcpTypeOK
    <3> QED
      BY <1>2, <3>1 DEF Answered
  <2> QED
    BY <2>2, <2>3, <2>4
<1> QED
  BY <1>1, <1>2

\* The server is well typed.
THEOREM AcpTypeInvariant == Spec => []AcpTypeOK
<1>1. Init => AcpTypeOK
  BY BoundsAssumption DEF Init, AcpTypeOK, Each, EachPrompt, Stages, Answers
<1>2. AcpTypeOK /\ [Next]_vars => AcpTypeOK'
  <2> SUFFICES ASSUME AcpTypeOK, [Next]_vars PROVE AcpTypeOK'
    OBVIOUS
  <2> USE DEF AcpTypeOK
  <2> {"loading", "binding", "open", "closing", "ending", "disposed"} \subseteq Stages
    BY DEF Stages
  <2>0. {"cancelled", "end_turn", "error"} \subseteq Answers
    BY DEF Answers
  <2>1. ASSUME NEW s \in Sessions, NEW i \in Opens,
               Open(s, i) \/ Loaded(s, i) \/ Bound(s, i)
        PROVE AcpTypeOK'
    <3>1. CASE Open(s, i)
      BY <3>1, BecomesType DEF Open, turnVars, runVars
    <3>2. CASE Loaded(s, i)
      <4>1. stage' \in [Sessions -> [Opens -> Stages]]
        BY <3>2, BecomesType DEF Loaded
      <4>2. prompter' \in [Sessions -> Opens \cup {None}]
        BY <3>2 DEF Loaded
      <4>3. UNCHANGED <<entry, turn, cancelled, active, asked, promise, agent, answer, shut>>
        BY <3>2 DEF Loaded, turnVars, runVars
      <4> QED
        BY <4>1, <4>2, <4>3
    <3>3. CASE Bound(s, i)
      <4>1. stage' \in [Sessions -> [Opens -> Stages]]
        BY <3>3, BecomesType DEF Bound
      <4>2. prompter' \in [Sessions -> Opens \cup {None}] /\ entry' \in [Sessions -> Opens \cup {None}]
        <5> entry \in [Sessions -> Opens \cup {None}] /\ prompter \in [Sessions -> Opens \cup {None}]
          OBVIOUS
        <5> HIDE DEF AcpTypeOK
        <5>1. entry' = entry \/ entry' = [entry EXCEPT ![s] = i]
          BY <3>3 DEF Bound
        <5>2. prompter' = prompter \/ prompter' = [prompter EXCEPT ![s] = None]
          BY <3>3 DEF Bound
        <5> QED
          BY <5>1, <5>2
      <4>3. UNCHANGED <<turn, cancelled, active, asked, promise, agent, answer, shut>>
        BY <3>3 DEF Bound, turnVars, runVars
      <4> QED
        BY <4>1, <4>2, <4>3
    <3> QED
      BY <2>1, <3>1, <3>2, <3>3
  <2>2. ASSUME NEW s \in Sessions, NEW i \in Opens, NEW k \in Prompts, Prompt(s, i, k)
        PROVE AcpTypeOK'
    BY <2>2 DEF Prompt, Answers
  <2>3. ASSUME NEW s \in Sessions, NEW i \in Opens, NEW k \in Prompts,
               AgentStarts(s, i, k) \/ AgentWorks(s, i, k)
        PROVE AcpTypeOK'
    <3>1. CASE AgentStarts(s, i, k)
      BY <3>1 DEF AgentStarts, Marked
    <3>2. CASE AgentWorks(s, i, k)
      BY <3>2 DEF AgentWorks, Marked, runVars
    <3> QED
      BY <2>3, <3>1, <3>2
  <2>4. ASSUME NEW s \in Sessions, NEW i \in Opens, NEW k \in Prompts, AgentEnds(s, i, k)
        PROVE AcpTypeOK'
    <3>1. CASE Hears(s, i)
      <4>1. entry[s] \in Opens
        BY <3>1 DEF Hears
      <4> QED
        BY <2>0, <2>4, <3>1, <4>1, AnsweredType DEF AgentEnds
    <3>2. CASE ~Hears(s, i)
      BY <2>4, <3>2 DEF AgentEnds, turnVars
    <3> QED
      BY <3>1, <3>2
  <2>5. ASSUME NEW s \in Sessions, NEW i \in Opens, NEW k \in Prompts, PromptResolves(s, i, k)
        PROVE AcpTypeOK'
    <3>1. CASE active[s][i]
      BY <2>5, <3>1 DEF PromptResolves, turnVars
    <3>2. CASE ~active[s][i]
      BY <2>0, <2>5, <3>2, AnsweredType DEF PromptResolves
    <3> QED
      BY <3>1, <3>2
  <2>6. ASSUME NEW s \in Sessions, NEW i \in Opens, NEW k \in Prompts, PromptRejects(s, i, k)
        PROVE AcpTypeOK'
    <3>1. agent' \in [Sessions -> [Prompts -> {"none", "started", "ended"}]]
      <4>1. CASE UNCHANGED agent
        BY <4>1
      <4>2. CASE agent' = [agent EXCEPT ![s][k] = IF @ = "started" THEN "ended" ELSE @]
        <5>1. (IF agent[s][k] = "started" THEN "ended" ELSE agent[s][k]) \in {"none", "started", "ended"}
          OBVIOUS
        <5> QED
          BY <4>2, <5>1, ExceptType
      <4> QED
        BY <2>6, <4>1, <4>2 DEF PromptRejects
    <3> QED
      BY <2>0, <2>6, <3>1, AnsweredType DEF PromptRejects
  <2>7. ASSUME NEW s \in Sessions, NEW i \in Opens, Cancel(s, i) \/ Close(s, i) \/ Disposed(s, i)
        PROVE AcpTypeOK'
    <3>1. CASE Cancel(s, i)
      BY <3>1 DEF Cancel, runVars
    <3>2. CASE Close(s, i)
      <4>1. stage' \in [Sessions -> [Opens -> Stages]]
        BY <3>2, BecomesType DEF Close
      <4>2. cancelled' \in [Sessions -> [Opens -> BOOLEAN]]
        <5>1. [cancelled EXCEPT ![s][i] = TRUE] \in [Sessions -> [Opens -> BOOLEAN]]
          BY ExceptType
        <5> QED
          BY <3>2, <5>1 DEF Close
      <4> QED
        BY <3>2, <4>1, <4>2 DEF Close, runVars
    <3>3. CASE Disposed(s, i)
      BY <3>3, BecomesType DEF Disposed, turnVars, runVars
    <3> QED
      BY <2>7, <3>1, <3>2, <3>3
  <2>8. ASSUME NEW s \in Sessions, NEW i \in Opens, Aborted(s, i) \/ Drain(s, i)
        PROVE AcpTypeOK'
    <3>1. CASE Aborted(s, i)
      BY <2>0, <3>1, AnsweredType, BecomesType DEF Aborted, runVars
    <3>2. CASE Drain(s, i)
      BY <2>0, <3>2, AnsweredType, BecomesType DEF Drain, runVars
    <3> QED
      BY <2>8, <3>1, <3>2
  <2>9. CASE Shutdown \/ DrainEnds \/ UNCHANGED vars
    BY <2>9 DEF Shutdown, DrainEnds, turnVars, runVars, vars
  <2> QED
    BY <2>1, <2>2, <2>3, <2>4, <2>5, <2>6, <2>7, <2>8, <2>9 DEF Next, RunEnds
<1> QED
  BY <1>1, <1>2, PTL DEF Spec

-----------------------------------------------------------------------------
(* The map and the registry of prompters                                    *)

\* What becomes of one session leaves the others alone.
LEMMA BecomesAt ==
  ASSUME AcpTypeOK, NEW s \in Sessions, NEW i \in Opens, NEW st, Becomes(s, i, st)
  PROVE  \A x \in Sessions, y \in Opens :
           stage'[x][y] = IF x = s /\ y = i THEN st ELSE stage[x][y]
<1>1. stage \in [Sessions -> [Opens -> Stages]]
  BY DEF AcpTypeOK
<1> QED
  BY <1>1 DEF Becomes

\* The steps that open, close or dispose of a session keep the invariant.
LEMMA SessionInvStep ==
  ASSUME AcpTypeOK, SessionInv, NEW s \in Sessions, NEW i \in Opens,
         Open(s, i) \/ Loaded(s, i) \/ Bound(s, i) \/ Close(s, i)
           \/ Aborted(s, i) \/ Disposed(s, i) \/ Drain(s, i)
  PROVE  SessionInv'
<1> USE NoneApart DEF SessionInv, NoSessionLost, PrompterFollowsSession, OpeningAlone, Opening
<1>0. entry \in [Sessions -> Opens \cup {None}] /\ prompter \in [Sessions -> Opens \cup {None}]
  BY DEF AcpTypeOK
<1>1. CASE Open(s, i)
  BY <1>0, <1>1, BecomesAt DEF Open
<1>2. CASE Loaded(s, i)
  <2>1. CASE Becomes(s, i, "binding") /\ prompter' = [prompter EXCEPT ![s] = i]
    BY <1>0, <1>2, <2>1, BecomesAt DEF Loaded
  <2>2. CASE Becomes(s, i, "disposed") /\ UNCHANGED prompter
    BY <1>0, <1>2, <2>2, BecomesAt DEF Loaded
  <2> QED
    BY <1>2, <2>1, <2>2 DEF Loaded
<1>3. CASE Bound(s, i)
  <2>1. CASE Becomes(s, i, "open") /\ entry' = [entry EXCEPT ![s] = i] /\ UNCHANGED prompter
    BY <1>0, <1>3, <2>1, BecomesAt DEF Bound
  <2>2. CASE Becomes(s, i, "disposed") /\ prompter' = [prompter EXCEPT ![s] = None] /\ UNCHANGED entry
    BY <1>0, <1>3, <2>2, BecomesAt DEF Bound
  <2> QED
    BY <1>3, <2>1, <2>2 DEF Bound
<1>4. CASE Close(s, i)
  <2>1. PICK st \in {"closing", "ending"} : Becomes(s, i, st)
    BY <1>4 DEF Close
  <2> QED
    BY <1>0, <1>4, <2>1, BecomesAt DEF Close
<1>5. CASE Aborted(s, i) \/ Disposed(s, i)
  <2>1. PICK st \in {"ending", "disposed"} : Becomes(s, i, st)
    BY <1>5 DEF Aborted, Disposed
  <2>2. stage[s][i] \in {"closing", "ending"} /\ UNCHANGED <<entry, prompter>>
    BY <1>5 DEF Aborted, Disposed
  <2> QED
    BY <1>0, <2>1, <2>2, BecomesAt
<1>6. CASE Drain(s, i)
  BY <1>0, <1>6, BecomesAt DEF Drain
<1> QED
  BY <1>1, <1>2, <1>3, <1>4, <1>5, <1>6

\* So do all steps.
LEMMA SessionInvNext == AcpTypeOK /\ SessionInv /\ [Next]_vars => SessionInv'
<1> SUFFICES ASSUME AcpTypeOK, SessionInv, [Next]_vars PROVE SessionInv'
  OBVIOUS
<1>1. CASE UNCHANGED <<entry, prompter, stage>>
  BY <1>1 DEF SessionInv, NoSessionLost, PrompterFollowsSession, OpeningAlone
<1>2. CASE DrainEnds
  <2>1. entry' = [x \in Sessions |-> None] /\ UNCHANGED <<prompter, stage>>
    BY <1>2 DEF DrainEnds
  <2>2. \A s \in Sessions, i \in Opens : stage[s][i] # "open"
    BY <1>2, NoneApart DEF DrainEnds, SessionInv, NoSessionLost
  <2> QED
    BY <2>1, <2>2 DEF SessionInv, NoSessionLost, PrompterFollowsSession, OpeningAlone
<1>3. ASSUME NEW s \in Sessions, NEW i \in Opens, NEW k \in Prompts,
             Prompt(s, i, k) \/ AgentStarts(s, i, k) \/ AgentWorks(s, i, k) \/ AgentEnds(s, i, k)
               \/ PromptResolves(s, i, k) \/ PromptRejects(s, i, k) \/ Cancel(s, i)
      PROVE  SessionInv'
  <2>1. UNCHANGED <<entry, prompter, stage>>
    BY <1>3 DEF Prompt, AgentStarts, AgentWorks, AgentEnds, PromptResolves, PromptRejects, Cancel
  <2> QED
    BY <1>1, <2>1
<1>4. ASSUME NEW s \in Sessions, NEW i \in Opens, Cancel(s, i)
      PROVE  SessionInv'
  BY <1>1, <1>4 DEF Cancel
<1>5. CASE Shutdown \/ UNCHANGED vars
  BY <1>1, <1>5 DEF Shutdown, vars
<1> QED
  BY <1>2, <1>3, <1>4, <1>5, SessionInvStep DEF Next, RunEnds

\* It holds when the server starts.
LEMMA SessionInvInit == Init => SessionInv
BY NoneApart DEF Init, Each, SessionInv, NoSessionLost, PrompterFollowsSession, OpeningAlone, Opening

\* It is an invariant.
LEMMA SessionInvariant == Spec => []SessionInv
<1>1. Spec => []AcpTypeOK
  BY AcpTypeInvariant
<1> QED
  BY <1>1, SessionInvInit, SessionInvNext, PTL DEF Spec

\* No order of loads, closes and the shutdown opens a session that the map does
\* not hold.
THEOREM NoSessionEverLost == Spec => []NoSessionLost
<1>1. SessionInv => NoSessionLost
  BY DEF SessionInv
<1> QED
  BY <1>1, SessionInvariant, PTL

\* The prompter of an id is always that of its open session.
THEOREM PrompterAlwaysFollows == Spec => []PrompterFollowsSession
<1>1. SessionInv => PrompterFollowsSession
  BY DEF SessionInv
<1> QED
  BY <1>1, SessionInvariant, PTL

-----------------------------------------------------------------------------
(* Every prompt is answered once, and until then something will answer it   *)

\* A turn is of a prompt to its own session, which is open by then.
TurnAsked ==
  \A s \in Sessions, i \in Opens :
    /\ turn[s][i] # None => asked[s][turn[s][i]] = i
    /\ turn[s][i] = None => ~active[s][i]
    /\ stage[s][i] \in {"none", "loading", "binding"} => turn[s][i] = None /\ entry[s] # i

\* What answering a turn does to each session and each prompt.
LEMMA AnsweredAt ==
  ASSUME AcpTypeOK, TurnAsked, NEW s \in Sessions, NEW i \in Opens, NEW a, Answered(s, i, a)
  PROVE  \A x \in Sessions :
           /\ \A y \in Opens :
                /\ turn'[x][y] = IF x = s /\ y = i THEN None ELSE turn[x][y]
                /\ (active'[x][y] <=> active[x][y] /\ ~(x = s /\ y = i))
           /\ \A k \in Prompts :
                answer'[x][k] = IF x = s /\ k = turn[s][i] THEN a ELSE answer[x][k]
<1>1. CASE turn[s][i] = None
  <2>1. UNCHANGED turnVars
    BY <1>1 DEF Answered
  <2>2. \A x \in Sessions, y \in Opens : turn'[x][y] = IF x = s /\ y = i THEN None ELSE turn[x][y]
    BY <1>1, <2>1 DEF turnVars
  <2>3. \A x \in Sessions, y \in Opens : (active'[x][y] <=> active[x][y] /\ ~(x = s /\ y = i))
    <3>1. active' = active /\ ~active[s][i]
      BY <1>1, <2>1 DEF turnVars, TurnAsked
    <3> QED
      BY <3>1
  <2>4. \A x \in Sessions, k \in Prompts :
          answer'[x][k] = IF x = s /\ k = turn[s][i] THEN a ELSE answer[x][k]
    BY <1>1, <2>1, NoneApart DEF turnVars
  <2> QED
    BY <2>2, <2>3, <2>4
<1>2. CASE turn[s][i] # None
  <2>1. /\ answer \in [Sessions -> [Prompts -> Answers]] /\ turn[s][i] \in Prompts
        /\ turn \in [Sessions -> [Opens -> Prompts \cup {None}]]
        /\ active \in [Sessions -> [Opens -> BOOLEAN]]
    BY <1>2 DEF AcpTypeOK
  <2>2. \A x \in Sessions, y \in Opens : turn'[x][y] = IF x = s /\ y = i THEN None ELSE turn[x][y]
    BY <1>2, <2>1 DEF Answered
  <2>3. \A x \in Sessions, y \in Opens : (active'[x][y] <=> active[x][y] /\ ~(x = s /\ y = i))
    <3>1. active' = [active EXCEPT ![s][i] = FALSE]
      BY <1>2 DEF Answered
    <3>2. TAKE x \in Sessions, y \in Opens
    <3>3. CASE x = s /\ y = i
      BY <2>1, <3>1, <3>3
    <3>4. CASE ~(x = s /\ y = i)
      <4>1. active'[x][y] = active[x][y]
        BY <2>1, <3>1, <3>4
      <4> QED
        BY <3>4, <4>1
    <3> QED
      BY <3>3, <3>4
  <2>4. \A x \in Sessions, k \in Prompts :
          answer'[x][k] = IF x = s /\ k = turn[s][i] THEN a ELSE answer[x][k]
    BY <1>2, <2>1 DEF Answered
  <2> QED
    BY <2>2, <2>3, <2>4
<1> QED
  BY <1>1, <1>2

\* An answer that was given stays.
AnsweredOnce ==
  [][\A s \in Sessions, k \in Prompts :
       answer[s][k] \notin {"none", "open"} => answer'[s][k] = answer[s][k]]_vars

\* A run of the session that the server hears and has marked as active.
HeardRun(s, i) ==
  /\ stage[s][i] = "open" /\ active[s][i]
  /\ \E j \in Prompts : asked[s][j] = i /\ agent[s][j] = "started"

\* What still answers prompt k to AgentSession i: the abort that the close
\* awaits, the promise of session.prompt, or the agent_end of a heard run.
WillAnswer(s, i, k) ==
  stage[s][i] = "closing" \/ promise[s][k] = "pending" \/ HeardRun(s, i)

\* A prompt without an answer is the turn of the AgentSession it went to, and
\* not given up: no close, abort, shutdown, rejection or event in any order
\* drops it (finalizeTurn, failTurn, turnActive).
NoPromptForgotten ==
  \A s \in Sessions, k \in Prompts : answer[s][k] = "open" =>
    \E i \in Opens : asked[s][k] = i /\ turn[s][i] = k /\ WillAnswer(s, i, k)

\* A prompt is the turn of its AgentSession as long as it has no answer.
OneAnswer ==
  \A s \in Sessions, k \in Prompts :
    /\ asked[s][k] = None <=> answer[s][k] = "none"
    /\ asked[s][k] = None => agent[s][k] = "none"
    /\ \A i \in Opens : asked[s][k] = i => (answer[s][k] = "open" <=> turn[s][i] = k)

\* A turn is marked as active while the run that will end it is heard.
TurnsWait ==
  \A s \in Sessions, i \in Opens :
    /\ active[s][i] => stage[s][i] = "closing" \/ HeardRun(s, i)
    /\ turn[s][i] # None => WillAnswer(s, i, turn[s][i])

WaitInv == TurnAsked /\ OneAnswer /\ TurnsWait

\* A flag that is set at one place.
LEMMA SetFlag ==
  ASSUME NEW A, NEW B, NEW f \in [A -> [B -> BOOLEAN]], NEW a \in A, NEW b \in B
  PROVE  \A x \in A, y \in B :
           [f EXCEPT ![a][b] = TRUE][x][y] <=> (f[x][y] \/ (x = a /\ y = b))
<1> SUFFICES ASSUME NEW x \in A, NEW y \in B
             PROVE  [f EXCEPT ![a][b] = TRUE][x][y] <=> (f[x][y] \/ (x = a /\ y = b))
  OBVIOUS
<1> DEFINE g == [f EXCEPT ![a][b] = TRUE]
<1>1. g[a] = [f[a] EXCEPT ![b] = TRUE] /\ f[a] \in [B -> BOOLEAN]
  OBVIOUS
<1>2. CASE x # a
  <2>1. g[x] = f[x]
    BY <1>2
  <2> QED
    BY <1>2, <2>1
<1>3. CASE x = a /\ y # b
  <2>1. g[a][y] = f[a][y]
    BY <1>1, <1>3, ExceptElsewhere
  <2> QED
    BY <1>3, <2>1
<1>4. CASE x = a /\ y = b
  <2>1. g[a][b]
    BY <1>1
  <2> QED
    BY <1>4, <2>1
<1> QED
  BY <1>2, <1>3, <1>4

\* What a message of a run does to the flags of the turns.
LEMMA MarkedAt ==
  ASSUME AcpTypeOK, SessionInv, NEW s \in Sessions, NEW i \in Opens, Marked(s, i)
  PROVE  \A x \in Sessions, y \in Opens :
           active'[x][y] <=> \/ active[x][y]
                             \/ x = s /\ y = i /\ stage[s][i] = "open" /\ turn[s][i] # None
<1>1. stage[s][i] = "open" => entry[s] = i
  BY DEF SessionInv, NoSessionLost
<1>2. CASE stage[s][i] = "open" /\ turn[s][i] # None
  <2>1. active' = [active EXCEPT ![s][i] = TRUE] /\ active \in [Sessions -> [Opens -> BOOLEAN]]
    BY <1>1, <1>2, NoneApart DEF Marked, Hears, Subscribed, AcpTypeOK
  <2> QED
    BY <1>2, <2>1, SetFlag
<1>3. CASE ~(stage[s][i] = "open" /\ turn[s][i] # None)
  <2>1. active' = active
    BY <1>1, <1>3 DEF Marked, Hears, Subscribed
  <2> QED
    BY <1>3, <2>1
<1> QED
  BY <1>2, <1>3

\* Answering a turn keeps the part of the invariant that is about answers.
LEMMA AnsweredWaits ==
  ASSUME AcpTypeOK, WaitInv, NEW s \in Sessions, NEW i \in Opens,
         NEW a \in {"end_turn", "cancelled", "error"}, Answered(s, i, a), UNCHANGED asked,
         \A x \in Sessions, k \in Prompts : asked[x][k] = None => agent'[x][k] = "none"
  PROVE  OneAnswer'
<1>1. /\ \A x \in Sessions : \A y \in Opens : turn'[x][y] = IF x = s /\ y = i THEN None ELSE turn[x][y]
      /\ \A x \in Sessions : \A k \in Prompts :
           answer'[x][k] = IF x = s /\ k = turn[s][i] THEN a ELSE answer[x][k]
  BY AnsweredAt DEF WaitInv
<1>2. turn[s][i] # None => asked[s][turn[s][i]] = i
  BY DEF WaitInv, TurnAsked
<1> SUFFICES ASSUME NEW x \in Sessions, NEW k \in Prompts
             PROVE  /\ asked[x][k] = None <=> answer'[x][k] = "none"
                    /\ asked[x][k] = None => agent'[x][k] = "none"
                    /\ \A y \in Opens : asked[x][k] = y => (answer'[x][k] = "open" <=> turn'[x][y] = k)
  BY DEF OneAnswer
<1>3. CASE x = s /\ k = turn[s][i]
  BY <1>1, <1>2, <1>3, NoneApart DEF WaitInv, OneAnswer
<1>4. CASE ~(x = s /\ k = turn[s][i])
  BY <1>1, <1>2, <1>4, NoneApart DEF WaitInv, OneAnswer
<1> QED
  BY <1>3, <1>4

\* The steps of a prompt and its run keep it.
LEMMA WaitInvStep ==
  ASSUME AcpTypeOK, SessionInv, WaitInv, NEW s \in Sessions, NEW i \in Opens, NEW k \in Prompts,
         Prompt(s, i, k) \/ AgentStarts(s, i, k) \/ AgentWorks(s, i, k) \/ AgentEnds(s, i, k)
           \/ PromptResolves(s, i, k) \/ PromptRejects(s, i, k)
  PROVE  WaitInv'
<1> USE NoneApart
<1>0. /\ asked \in [Sessions -> [Prompts -> Opens \cup {None}]]
      /\ promise \in [Sessions -> [Prompts -> {"none", "pending", "settled"}]]
      /\ agent \in [Sessions -> [Prompts -> {"none", "started", "ended"}]]
      /\ turn \in [Sessions -> [Opens -> Prompts \cup {None}]]
      /\ active \in [Sessions -> [Opens -> BOOLEAN]]
      /\ answer \in [Sessions -> [Prompts -> Answers]]
  BY DEF AcpTypeOK
<1>1. CASE Prompt(s, i, k)
  <2>1. /\ asked[s][k] = None /\ turn[s][i] = None /\ entry[s] = i
        /\ UNCHANGED <<entry, stage, active, agent>>
    BY <1>1 DEF Prompt
  <2>2. \A x \in Sessions, y \in Opens : turn'[x][y] = IF x = s /\ y = i THEN k ELSE turn[x][y]
    BY <1>0, <1>1 DEF Prompt
  <2>3. \A x \in Sessions, j \in Prompts : asked'[x][j] = IF x = s /\ j = k THEN i ELSE asked[x][j]
    BY <1>0, <1>1 DEF Prompt
  <2>4. \A x \in Sessions, j \in Prompts :
          promise'[x][j] = IF x = s /\ j = k THEN "pending" ELSE promise[x][j]
    BY <1>0, <1>1 DEF Prompt
  <2>5. \A x \in Sessions, j \in Prompts :
          answer'[x][j] = IF x = s /\ j = k THEN "open" ELSE answer[x][j]
    BY <1>0, <1>1 DEF Prompt
  <2>6. ASSUME NEW x \in Sessions, NEW y \in Opens
        PROVE  /\ turn'[x][y] # None => asked'[x][turn'[x][y]] = y
               /\ turn'[x][y] = None => ~active'[x][y]
               /\ stage'[x][y] \in {"none", "loading", "binding"} =>
                    turn'[x][y] = None /\ entry'[x] # y
    <3>1. CASE x = s /\ y = i
      BY <2>1, <2>2, <2>3, <3>1 DEF WaitInv, TurnAsked
    <3>2. CASE ~(x = s /\ y = i)
      <4>1. turn'[x][y] = turn[x][y] /\ turn[x][y] \in Prompts \cup {None}
        BY <1>0, <2>2, <3>2
      <4>2. turn[x][y] # None => asked[x][turn[x][y]] = y
        BY DEF WaitInv, TurnAsked
      <4>3. turn[x][y] # None => asked'[x][turn[x][y]] = asked[x][turn[x][y]]
        BY <2>1, <2>3, <4>1, <4>2
      <4> QED
        BY <2>1, <4>1, <4>2, <4>3 DEF WaitInv, TurnAsked
    <3> QED
      BY <3>1, <3>2
  <2>7. OneAnswer'
    <3> SUFFICES ASSUME NEW x \in Sessions, NEW j \in Prompts
                 PROVE  /\ asked'[x][j] = None <=> answer'[x][j] = "none"
                        /\ asked'[x][j] = None => agent'[x][j] = "none"
                        /\ \A y \in Opens :
                             asked'[x][j] = y => (answer'[x][j] = "open" <=> turn'[x][y] = j)
      BY DEF OneAnswer
    <3>1. CASE x = s /\ j = k
      BY <2>2, <2>3, <2>5, <3>1
    <3>2. CASE ~(x = s /\ j = k)
      BY <2>1, <2>2, <2>3, <2>5, <3>2 DEF WaitInv, OneAnswer
    <3> QED
      BY <3>1, <3>2
  <2>8. ASSUME NEW x \in Sessions, NEW y \in Opens, HeardRun(x, y)
        PROVE  HeardRun(x, y)'
    BY <2>1, <2>3, <2>8 DEF HeardRun
  <2>9. ASSUME NEW x \in Sessions, NEW y \in Opens
        PROVE  /\ active'[x][y] => stage'[x][y] = "closing" \/ HeardRun(x, y)'
               /\ turn'[x][y] # None => WillAnswer(x, y, turn[x][y])'
    <3>1. active'[x][y] => stage'[x][y] = "closing" \/ HeardRun(x, y)'
      BY <2>1, <2>8 DEF WaitInv, TurnsWait
    <3>2. CASE x = s /\ y = i
      BY <2>2, <2>4, <3>1, <3>2 DEF WillAnswer
    <3>3. CASE ~(x = s /\ y = i)
      <4>1. turn'[x][y] = turn[x][y] /\ turn[x][y] \in Prompts \cup {None}
        BY <1>0, <2>2, <3>3
      <4>2. turn[x][y] # None => promise'[x][turn[x][y]] = promise[x][turn[x][y]]
        BY <2>1, <2>4, <4>1 DEF WaitInv, TurnAsked
      <4> QED
        BY <2>1, <2>8, <3>1, <4>1, <4>2 DEF WaitInv, TurnsWait, WillAnswer
    <3> QED
      BY <3>1, <3>2, <3>3
  <2> QED
    BY <2>6, <2>7, <2>9 DEF WaitInv, TurnAsked, TurnsWait
<1>2. CASE AgentStarts(s, i, k) \/ AgentWorks(s, i, k)
  <2>1. /\ asked[s][k] = i /\ Marked(s, i)
        /\ UNCHANGED <<entry, stage, turn, asked, promise, answer>>
    BY <1>2 DEF AgentStarts, AgentWorks, runVars
  <2>2. \A x \in Sessions, j \in Prompts : agent'[x][j] = IF x = s /\ j = k THEN "started" ELSE agent[x][j]
    BY <1>0, <1>2 DEF AgentStarts, AgentWorks, runVars
  <2>3. \A x \in Sessions, y \in Opens :
          active'[x][y] <=> \/ active[x][y]
                            \/ x = s /\ y = i /\ stage[s][i] = "open" /\ turn[s][i] # None
    BY <2>1, MarkedAt
  <2>4. TurnAsked'
    BY <2>1, <2>3 DEF WaitInv, TurnAsked
  <2>5. OneAnswer'
    BY <2>1, <2>2 DEF WaitInv, OneAnswer
  <2>6. ASSUME NEW x \in Sessions, NEW y \in Opens, HeardRun(x, y)
        PROVE  HeardRun(x, y)'
    BY <2>1, <2>2, <2>3, <2>6 DEF HeardRun
  <2>7. stage[s][i] = "open" /\ active'[s][i] => HeardRun(s, i)'
    BY <2>1, <2>2 DEF HeardRun
  <2>8. TurnsWait'
    BY <2>1, <2>3, <2>6, <2>7 DEF WaitInv, TurnsWait, WillAnswer
  <2> QED
    BY <2>4, <2>5, <2>8 DEF WaitInv
<1>3. ASSUME NEW a \in {"end_turn", "cancelled", "error"}, Answered(s, i, a),
             UNCHANGED <<entry, stage, asked>>, asked[s][k] = i,
             \A x \in Sessions, j \in Prompts : ~(x = s /\ j = k) =>
                 agent'[x][j] = agent[x][j] /\ promise'[x][j] = promise[x][j]
      PROVE  WaitInv'
  <2>1. \A x \in Sessions : \A y \in Opens :
          /\ turn'[x][y] = IF x = s /\ y = i THEN None ELSE turn[x][y]
          /\ (active'[x][y] <=> active[x][y] /\ ~(x = s /\ y = i))
    BY <1>3, AnsweredAt DEF WaitInv
  <2>2. TurnAsked'
    BY <1>3, <2>1 DEF WaitInv, TurnAsked
  <2>3. \A x \in Sessions, j \in Prompts : asked[x][j] = None => agent'[x][j] = "none"
    BY <1>3 DEF WaitInv, OneAnswer
  <2>4. OneAnswer'
    BY <1>3, <2>3, AnsweredWaits
  <2>5. ASSUME NEW x \in Sessions, NEW y \in Opens
        PROVE  /\ active'[x][y] => stage'[x][y] = "closing" \/ HeardRun(x, y)'
               /\ turn'[x][y] # None => WillAnswer(x, y, turn[x][y])'
    <3>1. CASE x = s /\ y = i
      BY <2>1, <3>1
    <3>2. CASE ~(x = s /\ y = i)
      <4>1. /\ turn'[x][y] = turn[x][y] /\ turn[x][y] \in Prompts \cup {None}
            /\ (active'[x][y] <=> active[x][y])
        BY <1>0, <2>1, <3>2
      <4>2. HeardRun(x, y) => HeardRun(x, y)'
        BY <1>3, <3>2, <4>1 DEF HeardRun
      <4>3. turn[x][y] # None => promise'[x][turn[x][y]] = promise[x][turn[x][y]]
        BY <1>3, <3>2, <4>1 DEF WaitInv, TurnAsked
      <4> QED
        BY <1>3, <4>1, <4>2, <4>3 DEF WaitInv, TurnsWait, WillAnswer
    <3> QED
      BY <3>1, <3>2
  <2> QED
    BY <2>2, <2>4, <2>5 DEF WaitInv, TurnsWait
<1>4. CASE AgentEnds(s, i, k)
  <2>1. /\ asked[s][k] = i /\ agent[s][k] = "started"
        /\ UNCHANGED <<entry, stage, asked, promise>>
    BY <1>4 DEF AgentEnds
  <2>2. \A x \in Sessions, j \in Prompts : agent'[x][j] = IF x = s /\ j = k THEN "ended" ELSE agent[x][j]
    BY <1>0, <1>4 DEF AgentEnds
  <2>3. CASE stage[s][i] = "open"
    <3>1. entry[s] = i
      BY <2>3 DEF SessionInv, NoSessionLost
    <3>2. PICK a \in {"end_turn", "cancelled", "error"} : Answered(s, i, a)
      BY <1>4, <2>3, <3>1 DEF AgentEnds, Hears, Subscribed
    <3> QED
      BY <1>3, <2>1, <2>2, <3>2
  <2>4. CASE stage[s][i] # "open"
    <3>1. UNCHANGED <<turn, active, answer>>
      BY <1>4, <2>4 DEF AgentEnds, Hears, Subscribed, turnVars
    <3>2. TurnAsked' /\ OneAnswer'
      BY <2>1, <2>2, <3>1 DEF WaitInv, TurnAsked, OneAnswer
    <3>3. ASSUME NEW x \in Sessions, NEW y \in Opens, HeardRun(x, y)
          PROVE  HeardRun(x, y)'
      BY <2>1, <2>2, <2>4, <3>1, <3>3 DEF HeardRun
    <3>4. TurnsWait'
      BY <2>1, <3>1, <3>3 DEF WaitInv, TurnsWait, WillAnswer
    <3> QED
      BY <3>2, <3>4 DEF WaitInv
  <2> QED
    BY <2>3, <2>4
<1>5. CASE PromptResolves(s, i, k)
  <2>1. asked[s][k] = i /\ UNCHANGED <<entry, stage, asked, agent>>
    BY <1>5 DEF PromptResolves
  <2>2. \A x \in Sessions, j \in Prompts :
          promise'[x][j] = IF x = s /\ j = k THEN "settled" ELSE promise[x][j]
    BY <1>0, <1>5 DEF PromptResolves
  <2>3. CASE active[s][i]
    <3>1. UNCHANGED <<turn, active, answer>>
      BY <1>5, <2>3 DEF PromptResolves, turnVars
    <3>2. TurnAsked' /\ OneAnswer'
      BY <2>1, <3>1 DEF WaitInv, TurnAsked, OneAnswer
    <3>3. \A x \in Sessions, y \in Opens : HeardRun(x, y)' <=> HeardRun(x, y)
      BY <2>1, <3>1 DEF HeardRun
    <3>4. ASSUME NEW x \in Sessions, NEW y \in Opens, turn[x][y] # None
          PROVE  WillAnswer(x, y, turn[x][y])'
      <4>1. CASE x = s /\ y = i
        BY <2>1, <2>3, <3>3, <4>1 DEF WaitInv, TurnsWait, WillAnswer
      <4>2. CASE ~(x = s /\ y = i)
        <5>1. turn[x][y] \in Prompts /\ promise'[x][turn[x][y]] = promise[x][turn[x][y]]
          BY <1>0, <2>1, <2>2, <3>4, <4>2 DEF WaitInv, TurnAsked
        <5> QED
          BY <2>1, <3>1, <3>3, <3>4, <5>1 DEF WaitInv, TurnsWait, WillAnswer
      <4> QED
        BY <4>1, <4>2
    <3>5. TurnsWait'
      BY <2>1, <3>1, <3>3, <3>4 DEF WaitInv, TurnsWait
    <3> QED
      BY <3>2, <3>5 DEF WaitInv
  <2>4. CASE ~active[s][i]
    <3>1. Answered(s, i, "end_turn")
      BY <1>5, <2>4 DEF PromptResolves
    <3> QED
      BY <1>3, <2>1, <2>2, <3>1
  <2> QED
    BY <2>3, <2>4
<1>6. CASE PromptRejects(s, i, k)
  <2>1. asked[s][k] = i /\ UNCHANGED <<entry, stage, asked>>
    BY <1>6 DEF PromptRejects
  <2>2. \A x \in Sessions, j \in Prompts : ~(x = s /\ j = k) =>
          agent'[x][j] = agent[x][j] /\ promise'[x][j] = promise[x][j]
    BY <1>0, <1>6 DEF PromptRejects
  <2>3. PICK a \in {"end_turn", "cancelled", "error"} : Answered(s, i, a)
    BY <1>6 DEF PromptRejects
  <2> QED
    BY <1>3, <2>1, <2>2, <2>3
<1> QED
  BY <1>1, <1>2, <1>4, <1>5, <1>6

\* Every step keeps it.
LEMMA WaitInvNext == AcpTypeOK /\ SessionInv /\ WaitInv /\ [Next]_vars => WaitInv'
<1> SUFFICES ASSUME AcpTypeOK, SessionInv, WaitInv, [Next]_vars PROVE WaitInv'
  OBVIOUS
<1> USE NoneApart
<1>0. entry \in [Sessions -> Opens \cup {None}]
  BY DEF AcpTypeOK
<1>1. ASSUME NEW s \in Sessions, NEW i \in Opens, NEW st \in Stages, Becomes(s, i, st),
             UNCHANGED <<turn, active, answer, runVars>>,
             turn[s][i] # None => st = "closing" \/ stage[s][i] \notin {"open", "closing"},
             \A x \in Sessions : entry'[x] \in {entry[x], None} \/ (x = s /\ entry'[x] = i),
             st \in {"none", "loading", "binding"} => turn[s][i] = None /\ entry'[s] # i
      PROVE  WaitInv'
  <2>1. \A x \in Sessions, y \in Opens : stage'[x][y] = IF x = s /\ y = i THEN st ELSE stage[x][y]
    BY <1>1, BecomesAt
  <2>2. OneAnswer'
    BY <1>1 DEF WaitInv, OneAnswer, runVars
  <2>3. TurnAsked'
    <3> SUFFICES ASSUME NEW x \in Sessions, NEW y \in Opens
                 PROVE  /\ turn[x][y] # None => asked[x][turn[x][y]] = y
                        /\ turn[x][y] = None => ~active[x][y]
                        /\ stage'[x][y] \in {"none", "loading", "binding"} =>
                             turn[x][y] = None /\ entry'[x] # y
      BY <1>1 DEF TurnAsked, runVars
    <3>1. CASE x = s /\ y = i
      BY <1>1, <2>1, <3>1 DEF WaitInv, TurnAsked
    <3>2. CASE ~(x = s /\ y = i)
      BY <1>1, <2>1, <3>2 DEF WaitInv, TurnAsked
    <3> QED
      BY <3>1, <3>2
  <2>4. ASSUME NEW x \in Sessions, NEW y \in Opens
        PROVE  /\ active[x][y] => stage'[x][y] = "closing" \/ HeardRun(x, y)'
               /\ turn[x][y] # None => WillAnswer(x, y, turn[x][y])'
    <3>1. CASE x = s /\ y = i
      <4>1. turn[s][i] = None => ~active[s][i]
        BY DEF WaitInv, TurnAsked
      <4>2. CASE turn[s][i] # None /\ st = "closing"
        BY <2>1, <3>1, <4>2 DEF WillAnswer
      <4>3. CASE turn[s][i] # None /\ stage[s][i] \notin {"open", "closing"}
        <5>1. ~active[s][i] /\ promise[s][turn[s][i]] = "pending"
          BY <1>1, <4>3 DEF WaitInv, TurnsWait, WillAnswer, HeardRun
        <5> QED
          BY <1>1, <3>1, <5>1 DEF WillAnswer, runVars
      <4> QED
        BY <1>1, <3>1, <4>1, <4>2, <4>3
    <3>2. CASE ~(x = s /\ y = i)
      <4>1. stage'[x][y] = stage[x][y]
        BY <2>1, <3>2
      <4> QED
        BY <1>1, <4>1 DEF WaitInv, TurnsWait, WillAnswer, HeardRun, runVars
    <3> QED
      BY <3>1, <3>2
  <2>5. TurnsWait'
    <3>1. turn' = turn /\ active' = active
      BY <1>1
    <3> QED
      BY <2>4, <3>1 DEF TurnsWait
  <2> QED
    BY <2>2, <2>3, <2>5 DEF WaitInv
<1>2. CASE UNCHANGED <<stage, turn, active, answer, runVars>> /\
           \A x \in Sessions : entry'[x] \in {entry[x], None}
  BY <1>2 DEF WaitInv, TurnAsked, OneAnswer, TurnsWait, WillAnswer, HeardRun, runVars
<1>3. ASSUME NEW s \in Sessions, NEW i \in Opens, Open(s, i) \/ Loaded(s, i) \/ Bound(s, i)
      PROVE  WaitInv'
  <2>1. PICK st \in {"loading", "binding", "open", "disposed"} :
          Becomes(s, i, st) /\ (st \in {"loading", "binding"} => entry' = entry)
    BY <1>3 DEF Open, Loaded, Bound
  <2>2. stage[s][i] \in {"none", "loading", "binding"} /\ UNCHANGED <<turnVars, runVars>>
    BY <1>3 DEF Open, Loaded, Bound
  <2>3. \A x \in Sessions : entry'[x] \in {entry[x], None} \/ (x = s /\ entry'[x] = i)
    BY <1>0, <1>3 DEF Open, Loaded, Bound
  <2>4. turn[s][i] = None /\ entry[s] # i
    BY <2>2 DEF WaitInv, TurnAsked
  <2>5. st \in Stages
    BY DEF Stages
  <2> QED
    BY <1>1, <2>1, <2>2, <2>3, <2>4, <2>5 DEF turnVars
<1>4. ASSUME NEW s \in Sessions, NEW i \in Opens, Close(s, i)
      PROVE  WaitInv'
  <2>1. PICK st \in {"closing", "ending"} : Becomes(s, i, st) /\ (turn[s][i] # None => st = "closing")
    BY <1>4 DEF Close
  <2>2. /\ \A x \in Sessions : entry'[x] \in {entry[x], None}
        /\ UNCHANGED <<turn, active, answer, runVars>>
    BY <1>0, <1>4 DEF Close
  <2>3. st \in Stages
    BY DEF Stages
  <2> QED
    BY <1>1, <2>1, <2>2, <2>3
<1>5. ASSUME NEW s \in Sessions, NEW i \in Opens, Disposed(s, i)
      PROVE  WaitInv'
  <2>1. "disposed" \in Stages
    BY DEF Stages
  <2> QED
    BY <1>1, <1>5, <2>1 DEF Disposed, turnVars
<1>6. ASSUME NEW s \in Sessions, NEW i \in Opens, Aborted(s, i) \/ Drain(s, i)
      PROVE  WaitInv'
  <2>1. PICK a \in {"end_turn", "cancelled", "error"} : Answered(s, i, a)
    BY <1>6 DEF Aborted, Drain
  <2>2. UNCHANGED <<entry, runVars>> /\ Becomes(s, i, "ending")
    BY <1>6 DEF Aborted, Drain
  <2>3. \A x \in Sessions : \A y \in Opens :
          /\ turn'[x][y] = IF x = s /\ y = i THEN None ELSE turn[x][y]
          /\ (active'[x][y] <=> active[x][y] /\ ~(x = s /\ y = i))
    BY <2>1, AnsweredAt DEF WaitInv
  <2>4. \A x \in Sessions, y \in Opens : stage'[x][y] = IF x = s /\ y = i THEN "ending" ELSE stage[x][y]
    BY <2>2, BecomesAt
  <2>5. TurnAsked'
    BY <2>2, <2>3, <2>4 DEF WaitInv, TurnAsked, runVars
  <2>6. OneAnswer'
    <3>1. \A x \in Sessions, j \in Prompts : asked[x][j] = None => agent'[x][j] = "none"
      BY <2>2 DEF WaitInv, OneAnswer, runVars
    <3> QED
      BY <2>1, <2>2, <3>1, AnsweredWaits DEF runVars
  <2>7. ASSUME NEW x \in Sessions, NEW y \in Opens
        PROVE  /\ active'[x][y] => stage'[x][y] = "closing" \/ HeardRun(x, y)'
               /\ turn'[x][y] # None => WillAnswer(x, y, turn[x][y])'
    <3>1. CASE x = s /\ y = i
      BY <2>3, <3>1
    <3>2. CASE ~(x = s /\ y = i)
      <4>1. turn'[x][y] = turn[x][y] /\ (active'[x][y] <=> active[x][y]) /\ stage'[x][y] = stage[x][y]
        BY <2>3, <2>4, <3>2
      <4> QED
        BY <2>2, <4>1 DEF WaitInv, TurnsWait, WillAnswer, HeardRun, runVars
    <3> QED
      BY <3>1, <3>2
  <2> QED
    BY <2>5, <2>6, <2>7 DEF WaitInv, TurnsWait
<1>7. ASSUME NEW s \in Sessions, NEW i \in Opens, Cancel(s, i)
      PROVE  WaitInv'
  BY <1>2, <1>7 DEF Cancel
<1>8. CASE Shutdown \/ DrainEnds \/ UNCHANGED vars
  BY <1>2, <1>8 DEF Shutdown, DrainEnds, turnVars, vars
<1> QED
  BY <1>3, <1>4, <1>5, <1>6, <1>7, <1>8, WaitInvStep DEF Next, RunEnds

\* It holds when the server starts, and always.
LEMMA WaitInvariant == Spec => []WaitInv
<1>1. Init => WaitInv
  BY NoneApart DEF Init, Each, EachPrompt, WaitInv, TurnAsked, OneAnswer, TurnsWait
<1>2. Spec => []AcpTypeOK /\ []SessionInv
  BY AcpTypeInvariant, SessionInvariant, PTL
<1> QED
  BY <1>1, <1>2, WaitInvNext, PTL DEF Spec

\* Whatever the order of promises, events, cancels, closes and the shutdown, a
\* prompt that has no answer is one that something will still answer.
THEOREM NoPromptEverForgotten == Spec => []NoPromptForgotten
<1>1. AcpTypeOK /\ WaitInv => NoPromptForgotten
  <2> SUFFICES ASSUME AcpTypeOK, WaitInv, NEW s \in Sessions, NEW k \in Prompts, answer[s][k] = "open"
               PROVE  \E i \in Opens : asked[s][k] = i /\ turn[s][i] = k /\ WillAnswer(s, i, k)
    BY DEF NoPromptForgotten
  <2>1. asked[s][k] \in Opens
    BY DEF AcpTypeOK, WaitInv, OneAnswer
  <2>2. turn[s][asked[s][k]] = k
    BY <2>1 DEF WaitInv, OneAnswer
  <2>3. WillAnswer(s, asked[s][k], k)
    BY <2>1, <2>2, NoneApart DEF WaitInv, TurnsWait
  <2> QED
    BY <2>1, <2>2, <2>3
<1> QED
  BY <1>1, AcpTypeInvariant, WaitInvariant, PTL

\* What a step does to an answer.
LEMMA AnswerStep ==
  ASSUME AcpTypeOK, SessionInv, WaitInv, [Next]_vars,
         NEW s \in Sessions, NEW k \in Prompts, answer[s][k] \notin {"none", "open"}
  PROVE  answer'[s][k] = answer[s][k]
<1>1. ASSUME NEW x \in Sessions, NEW i \in Opens, NEW a, Answered(x, i, a)
      PROVE  answer'[s][k] = answer[s][k]
  <2>1. answer'[s][k] = IF s = x /\ k = turn[x][i] THEN a ELSE answer[s][k]
    BY <1>1, AnsweredAt DEF WaitInv
  <2>2. ~(s = x /\ k = turn[x][i])
    BY NoneApart DEF WaitInv, TurnAsked, OneAnswer
  <2> QED
    BY <2>1, <2>2
<1>2. ASSUME NEW x \in Sessions, NEW i \in Opens, NEW j \in Prompts,
             PromptResolves(x, i, j) \/ PromptRejects(x, i, j)
      PROVE  answer'[s][k] = answer[s][k]
  <2>1. answer' = answer \/ \E a : Answered(x, i, a)
    BY <1>2 DEF PromptResolves, PromptRejects, turnVars
  <2> QED
    BY <1>1, <2>1
<1>3. ASSUME NEW x \in Sessions, NEW i \in Opens, NEW j \in Prompts, AgentEnds(x, i, j)
      PROVE  answer'[s][k] = answer[s][k]
  <2>1. answer' = answer \/ (entry[x] = i /\ \E a : Answered(x, i, a))
    BY <1>3 DEF AgentEnds, Hears, Subscribed, turnVars, SessionInv, NoSessionLost
  <2> QED
    BY <1>1, <2>1
<1>4. ASSUME NEW x \in Sessions, NEW i \in Opens, Aborted(x, i) \/ Drain(x, i)
      PROVE  answer'[s][k] = answer[s][k]
  <2>1. \E a : Answered(x, i, a)
    BY <1>4 DEF Aborted, Drain
  <2> QED
    BY <1>1, <2>1
<1>5. ASSUME NEW x \in Sessions, NEW i \in Opens, NEW j \in Prompts, Prompt(x, i, j)
      PROVE  answer'[s][k] = answer[s][k]
  <2>1. /\ asked[x][j] = None /\ answer[x][j] = "none"
        /\ answer' = [answer EXCEPT ![x][j] = "open"]
    BY <1>5 DEF Prompt, WaitInv, OneAnswer
  <2>2. ~(s = x /\ k = j) /\ answer \in [Sessions -> [Prompts -> Answers]]
    BY <2>1 DEF AcpTypeOK
  <2> QED
    BY <2>1, <2>2
<1>6. ASSUME NEW x \in Sessions, NEW i \in Opens,
             Open(x, i) \/ Loaded(x, i) \/ Bound(x, i) \/ Cancel(x, i) \/ Close(x, i)
               \/ Disposed(x, i) \/ \E j \in Prompts : AgentStarts(x, i, j) \/ AgentWorks(x, i, j)
      PROVE  answer'[s][k] = answer[s][k]
  BY <1>6 DEF Open, Loaded, Bound, Cancel, Close, Disposed, AgentStarts, AgentWorks, turnVars
<1>7. CASE Shutdown \/ DrainEnds \/ UNCHANGED vars
  BY <1>7 DEF Shutdown, DrainEnds, turnVars, vars
<1> QED
  BY <1>2, <1>3, <1>4, <1>5, <1>6, <1>7 DEF Next, RunEnds

\* No prompt is answered twice, though a promise, an event, an abort and a
\* shutdown may all answer it.
THEOREM AnsweredOnceOnly == Spec => AnsweredOnce
<1>1. AcpTypeOK /\ SessionInv /\ WaitInv /\ [Next]_vars =>
        [\A s \in Sessions, k \in Prompts :
           answer[s][k] \notin {"none", "open"} => answer'[s][k] = answer[s][k]]_vars
  BY AnswerStep
<1> QED
  BY <1>1, AcpTypeInvariant, SessionInvariant, WaitInvariant, PTL DEF Spec, AnsweredOnce

-----------------------------------------------------------------------------
(* A prompt whose run has started ends with that run                        *)

\* An AgentSession has one run at a time.  The run of the turn of an open one
\* has not ended, and once it has started the turn is marked.
OneRun ==
  /\ \A s \in Sessions, j \in Prompts, k \in Prompts :
       asked[s][j] = asked[s][k] /\ agent[s][j] = "started" /\ agent[s][k] = "started" => j = k
  /\ \A s \in Sessions, i \in Opens, k \in Prompts : stage[s][i] = "open" /\ turn[s][i] = k =>
       agent[s][k] # "ended" /\ (agent[s][k] = "started" => active[s][i])

\* The steps of a prompt and its run keep it.
LEMMA OneRunStep ==
  ASSUME AcpTypeOK, SessionInv, WaitInv, OneRun, NEW s \in Sessions, NEW i \in Opens, NEW k \in Prompts,
         Prompt(s, i, k) \/ AgentStarts(s, i, k) \/ AgentWorks(s, i, k) \/ AgentEnds(s, i, k)
           \/ PromptResolves(s, i, k) \/ PromptRejects(s, i, k)
  PROVE  OneRun'
<1> USE NoneApart
<1>0. /\ asked \in [Sessions -> [Prompts -> Opens \cup {None}]]
      /\ agent \in [Sessions -> [Prompts -> {"none", "started", "ended"}]]
      /\ turn \in [Sessions -> [Opens -> Prompts \cup {None}]]
      /\ TurnAsked
  BY DEF AcpTypeOK, WaitInv
<1>1. CASE Prompt(s, i, k)
  <2>1. /\ agent[s][k] = "none" /\ UNCHANGED <<stage, active, agent>>
    BY <1>1 DEF Prompt, WaitInv, OneAnswer
  <2>2. \A x \in Sessions, y \in Opens : turn'[x][y] = IF x = s /\ y = i THEN k ELSE turn[x][y]
    BY <1>0, <1>1 DEF Prompt
  <2>3. \A x \in Sessions, j \in Prompts : asked'[x][j] = IF x = s /\ j = k THEN i ELSE asked[x][j]
    BY <1>0, <1>1 DEF Prompt
  <2> QED
    BY <2>1, <2>2, <2>3 DEF OneRun
<1>2. CASE AgentStarts(s, i, k)
  <2>1. /\ asked[s][k] = i /\ Marked(s, i) /\ UNCHANGED <<stage, turn, asked>>
        /\ \A j \in Prompts : asked[s][j] = i => agent[s][j] # "started"
    BY <1>2 DEF AgentStarts
  <2>2. \A x \in Sessions, j \in Prompts : agent'[x][j] = IF x = s /\ j = k THEN "started" ELSE agent[x][j]
    BY <1>0, <1>2 DEF AgentStarts
  <2>3. \A x \in Sessions, y \in Opens : turn[x][y] # None => asked[x][turn[x][y]] = y
    BY <1>0 DEF TurnAsked
  <2> QED
    BY <2>1, <2>2, <2>3, MarkedAt DEF OneRun
<1>3. CASE AgentWorks(s, i, k)
  <2>1. Marked(s, i) /\ UNCHANGED <<stage, turn, asked, agent>>
    BY <1>3 DEF AgentWorks, runVars
  <2> QED
    BY <2>1, MarkedAt DEF OneRun
<1>4. ASSUME NEW a, Answered(s, i, a), UNCHANGED <<stage, asked>>, asked[s][k] = i,
             agent'[s][k] \in {agent[s][k], "ended"},
             \A x \in Sessions, j \in Prompts : ~(x = s /\ j = k) => agent'[x][j] = agent[x][j]
      PROVE  OneRun'
  <2>1. \A x \in Sessions : \A y \in Opens :
          /\ turn'[x][y] = IF x = s /\ y = i THEN None ELSE turn[x][y]
          /\ (active'[x][y] <=> active[x][y] /\ ~(x = s /\ y = i))
    BY <1>0, <1>4, AnsweredAt
  <2>2. \A x \in Sessions, y \in Opens : turn[x][y] # None => asked[x][turn[x][y]] = y
    BY <1>0 DEF TurnAsked
  <2> QED
    BY <1>4, <2>1, <2>2 DEF OneRun
<1>5. CASE AgentEnds(s, i, k)
  <2>1. asked[s][k] = i /\ UNCHANGED <<stage, asked>>
    BY <1>5 DEF AgentEnds
  <2>2. \A x \in Sessions, j \in Prompts : agent'[x][j] = IF x = s /\ j = k THEN "ended" ELSE agent[x][j]
    BY <1>0, <1>5 DEF AgentEnds
  <2>3. CASE stage[s][i] = "open"
    <3>1. \E a : Answered(s, i, a)
      BY <1>5, <2>3 DEF AgentEnds, Hears, Subscribed, SessionInv, NoSessionLost
    <3> QED
      BY <1>4, <2>1, <2>2, <3>1
  <2>4. CASE stage[s][i] # "open"
    <3>1. UNCHANGED <<turn, active>>
      BY <1>5, <2>4 DEF AgentEnds, Hears, Subscribed, turnVars
    <3>2. \A x \in Sessions, y \in Opens : turn[x][y] # None => asked[x][turn[x][y]] = y
      BY <1>0 DEF TurnAsked
    <3> QED
      BY <2>1, <2>2, <2>4, <3>1, <3>2 DEF OneRun
  <2> QED
    BY <2>3, <2>4
<1>6. CASE PromptResolves(s, i, k)
  <2>1. asked[s][k] = i /\ UNCHANGED <<stage, asked, agent>>
    BY <1>6 DEF PromptResolves
  <2>2. CASE active[s][i]
    BY <1>6, <2>1, <2>2 DEF PromptResolves, turnVars, OneRun
  <2>3. CASE ~active[s][i]
    <3>1. Answered(s, i, "end_turn")
      BY <1>6, <2>3 DEF PromptResolves
    <3> QED
      BY <1>4, <2>1, <3>1
  <2> QED
    BY <2>2, <2>3
<1>7. CASE PromptRejects(s, i, k)
  <2>1. asked[s][k] = i /\ UNCHANGED <<stage, asked>> /\ \E a : Answered(s, i, a)
    BY <1>7 DEF PromptRejects
  <2>2. /\ agent'[s][k] \in {agent[s][k], "ended"}
        /\ \A x \in Sessions, j \in Prompts : ~(x = s /\ j = k) => agent'[x][j] = agent[x][j]
    BY <1>0, <1>7 DEF PromptRejects
  <2> QED
    BY <1>4, <2>1, <2>2
<1> QED
  BY <1>1, <1>2, <1>3, <1>5, <1>6, <1>7

\* Every step keeps it.
LEMMA OneRunNext == AcpTypeOK /\ SessionInv /\ WaitInv /\ OneRun /\ [Next]_vars => OneRun'
<1> SUFFICES ASSUME AcpTypeOK, SessionInv, WaitInv, OneRun, [Next]_vars PROVE OneRun'
  OBVIOUS
<1> USE NoneApart
<1>0. TurnAsked
  BY DEF WaitInv
<1>1. CASE UNCHANGED <<stage, turn, active, runVars>>
  BY <1>1 DEF OneRun, runVars
<1>2. ASSUME NEW s \in Sessions, NEW i \in Opens, Open(s, i) \/ Loaded(s, i) \/ Bound(s, i)
      PROVE  OneRun'
  <2>1. PICK st : Becomes(s, i, st)
    BY <1>2 DEF Open, Loaded, Bound
  <2>2. turn[s][i] = None /\ UNCHANGED <<turnVars, runVars>>
    BY <1>0, <1>2 DEF TurnAsked, Open, Loaded, Bound
  <2> QED
    BY <2>1, <2>2, BecomesAt DEF OneRun, turnVars, runVars
<1>3. ASSUME NEW s \in Sessions, NEW i \in Opens, Close(s, i) \/ Disposed(s, i)
      PROVE  OneRun'
  <2>1. PICK st \in {"closing", "ending", "disposed"} : Becomes(s, i, st)
    BY <1>3 DEF Close, Disposed
  <2>2. UNCHANGED <<turn, active, runVars>>
    BY <1>3 DEF Close, Disposed, turnVars
  <2> QED
    BY <2>1, <2>2, BecomesAt DEF OneRun, runVars
<1>4. ASSUME NEW s \in Sessions, NEW i \in Opens, Aborted(s, i) \/ Drain(s, i)
      PROVE  OneRun'
  <2>1. Becomes(s, i, "ending") /\ UNCHANGED runVars /\ \E a : Answered(s, i, a)
    BY <1>4 DEF Aborted, Drain
  <2> QED
    BY <1>0, <2>1, BecomesAt, AnsweredAt DEF OneRun, runVars
<1>5. ASSUME NEW s \in Sessions, NEW i \in Opens, Cancel(s, i)
      PROVE  OneRun'
  BY <1>1, <1>5 DEF Cancel
<1>6. CASE Shutdown \/ DrainEnds \/ UNCHANGED vars
  BY <1>1, <1>6 DEF Shutdown, DrainEnds, turnVars, vars
<1> QED
  BY <1>2, <1>3, <1>4, <1>5, <1>6, OneRunStep DEF Next, RunEnds

\* Where an answer of end_turn comes from.
LEMMA EndTurnStep ==
  ASSUME AcpTypeOK, SessionInv, WaitInv, OneRun, [Next]_vars,
         NEW s \in Sessions, NEW i \in Opens, NEW k \in Prompts,
         asked[s][k] = i, stage[s][i] = "open", answer[s][k] = "open", answer'[s][k] = "end_turn"
  PROVE  \/ agent[s][k] = "started" /\ agent'[s][k] = "ended"
         \/ /\ agent[s][k] = "none"
            /\ \E j \in Prompts :
                 asked[s][j] = i /\ (j = k \/ answer[s][j] # "open") /\ Over(s, j)
<1> USE NoneApart
<1>0. /\ promise \in [Sessions -> [Prompts -> {"none", "pending", "settled"}]]
      /\ agent \in [Sessions -> [Prompts -> {"none", "started", "ended"}]]
      /\ entry[s] = i /\ TurnAsked
  BY DEF AcpTypeOK, WaitInv, SessionInv, NoSessionLost
<1>1. turn[s][i] = k /\ \A j \in Prompts : asked[s][j] = i /\ j # k => answer[s][j] # "open"
  BY DEF WaitInv, OneAnswer
<1>2. agent[s][k] # "ended" /\ (agent[s][k] = "started" => active[s][i])
  BY <1>1 DEF OneRun
<1>3. ASSUME NEW x \in Sessions, NEW j \in Opens, NEW a, Answered(x, j, a)
      PROVE  a = "end_turn" /\ x = s /\ j = i
  <2>1. a = "end_turn" /\ x = s /\ turn[x][j] = k
    BY <1>0, <1>3, AnsweredAt
  <2>2. j = i
    BY <1>0, <2>1 DEF TurnAsked
  <2> QED
    BY <2>1, <2>2
<1>4. answer' # answer
  OBVIOUS
<1>5. ASSUME NEW x \in Sessions, NEW j \in Opens, NEW l \in Prompts, AgentEnds(x, j, l)
      PROVE  x = s /\ asked[s][l] = i /\ agent[s][l] = "started" /\ agent'[s][l] = "ended"
  <2>1. Hears(x, j) /\ stage[x][j] = "open" /\ entry[x] = j
    BY <1>4, <1>5 DEF AgentEnds, turnVars, Hears, Subscribed, SessionInv, NoSessionLost
  <2>2. x = s /\ j = i
    BY <1>3, <1>5, <2>1 DEF AgentEnds
  <2> QED
    BY <1>0, <1>5, <2>2 DEF AgentEnds
<1>6. ASSUME NEW x \in Sessions, NEW j \in Opens, NEW l \in Prompts, PromptResolves(x, j, l)
      PROVE  /\ x = s /\ asked[s][l] = i /\ ~active[s][i]
             /\ promise[s][l] = "pending" /\ promise'[s][l] = "settled"
  <2>1. ~active[x][j] /\ Answered(x, j, "end_turn")
    BY <1>4, <1>6 DEF PromptResolves, turnVars
  <2>2. x = s /\ j = i
    BY <1>3, <2>1
  <2> QED
    BY <1>0, <1>6, <2>1, <2>2 DEF PromptResolves
<1>7. ASSUME NEW x \in Sessions, NEW j \in Opens, NEW l \in Prompts, PromptRejects(x, j, l)
      PROVE  FALSE
  BY <1>3, <1>7 DEF PromptRejects
<1>8. ASSUME NEW x \in Sessions, NEW j \in Opens, Aborted(x, j) \/ Drain(x, j)
      PROVE  FALSE
  BY <1>3, <1>8 DEF Aborted, Drain
<1>9. ASSUME NEW x \in Sessions, NEW j \in Opens, NEW l \in Prompts, Prompt(x, j, l)
      PROVE  FALSE
  <2>1. \A y \in Sessions, m \in Prompts : answer'[y][m] = IF y = x /\ m = l THEN "open" ELSE answer[y][m]
    BY <1>9 DEF Prompt, AcpTypeOK
  <2> QED
    BY <2>1
<1>10. ASSUME NEW x \in Sessions, NEW j \in Opens,
             Open(x, j) \/ Loaded(x, j) \/ Bound(x, j) \/ Cancel(x, j) \/ Close(x, j) \/ Disposed(x, j)
               \/ \E l \in Prompts : AgentStarts(x, j, l) \/ AgentWorks(x, j, l)
      PROVE  FALSE
  BY <1>4, <1>10 DEF Open, Loaded, Bound, Cancel, Close, Disposed, AgentStarts, AgentWorks, turnVars
<1>11. ~(Shutdown \/ DrainEnds \/ UNCHANGED vars)
  BY <1>4 DEF Shutdown, DrainEnds, vars, turnVars
<1>12. CASE \E x \in Sessions, j \in Opens, l \in Prompts : AgentEnds(x, j, l)
  <2>1. PICK l \in Prompts : asked[s][l] = i /\ agent[s][l] = "started" /\ agent'[s][l] = "ended"
    BY <1>5, <1>12
  <2>2. CASE agent[s][k] = "started"
    BY <2>1, <2>2 DEF OneRun
  <2>3. CASE agent[s][k] = "none"
    BY <1>1, <2>1, <2>3 DEF Over
  <2> QED
    BY <1>0, <1>2, <2>2, <2>3
<1>13. CASE \E x \in Sessions, j \in Opens, l \in Prompts : PromptResolves(x, j, l)
  <2>1. PICK l \in Prompts : /\ asked[s][l] = i /\ ~active[s][i]
                             /\ promise[s][l] = "pending" /\ promise'[s][l] = "settled"
    BY <1>6, <1>13
  <2>2. agent[s][k] = "none"
    BY <1>0, <1>2, <2>1
  <2> QED
    BY <1>1, <2>1, <2>2 DEF Over
<1> QED
  BY <1>7, <1>8, <1>9, <1>10, <1>11, <1>12, <1>13 DEF Next, RunEnds

\* A prompt to an open session whose run has started is answered end_turn when
\* that run ends and by nothing else; before, only by its own promise or what
\* outlasted an answered prompt of the same session.
THEOREM EndsWithItsRunAlways == Spec => EndsWithItsRun
<1>1. Init => OneRun
  BY NoneApart DEF Init, Each, EachPrompt, OneRun
<1>2. AcpTypeOK /\ SessionInv /\ WaitInv /\ [Next]_vars /\ OneRun =>
        [\A s \in Sessions, i \in Opens, k \in Prompts :
           asked[s][k] = i /\ stage[s][i] = "open" /\ answer[s][k] = "open" /\ answer'[s][k] = "end_turn" =>
             \/ agent[s][k] = "started" /\ agent'[s][k] = "ended"
             \/ /\ agent[s][k] = "none"
                /\ \E j \in Prompts :
                     asked[s][j] = i /\ (j = k \/ answer[s][j] # "open") /\ Over(s, j)]_vars
  BY EndTurnStep
<1>3. Spec => []AcpTypeOK /\ []SessionInv /\ []WaitInv
  BY AcpTypeInvariant, SessionInvariant, WaitInvariant, PTL
<1>4. Spec => []OneRun
  BY <1>1, <1>3, OneRunNext, PTL DEF Spec
<1> QED
  BY <1>2, <1>3, <1>4, PTL DEF Spec, EndsWithItsRun
=============================================================================
