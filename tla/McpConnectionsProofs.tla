------------------------- MODULE McpConnectionsProofs -------------------------
(***************************************************************************)
(* What the connection manager keeps for any number of servers, connections *)
(* and calls.  The four invariants of the run are inductive together: that  *)
(* an attempt is only under way while the map holds no connection is what   *)
(* makes it safe to put a new one there, and a connection leaves the map in *)
(* the turn in which it begins to close.  LifeInv adds what calls and their *)
(* waiting callers rely on: a connection passes its states once, in order.  *)
(***************************************************************************)
EXTENDS McpConnections, TLAPS

\* The invariants of one server.
Mapped(n) == \A c \in Ids : conn[n][c] = "connected" => entry[n] = c
Shared(n) == pending[n] => ~Connected(n)
Counted(n) ==
  Connected(n) => /\ inFlight[n] <= calls[n][entry[n]]
                  /\ ~crossed[n] => inFlight[n] = calls[n][entry[n]]
ServerInv(n) == Mapped(n) /\ Shared(n) /\ Counted(n)

McpInv == McpTypeOK /\ \A n \in Servers : ServerInv(n)

\* A step of one server leaves the others alone.
Others(n) ==
  \A m \in Servers \ {n} :
    /\ entry'[m] = entry[m] /\ pending'[m] = pending[m] /\ conn'[m] = conn[m]
    /\ calls'[m] = calls[m] /\ inFlight'[m] = inFlight[m] /\ crossed'[m] = crossed[m]

\* A step of one server that keeps its part keeps the invariant.
LEMMA StepOfOneServer ==
  ASSUME McpInv, McpTypeOK', NEW n \in Servers, Others(n), ServerInv(n)'
  PROVE  McpInv'
<1>1. ASSUME NEW m \in Servers \ {n} PROVE ServerInv(m)'
  BY <1>1 DEF McpInv, Others, ServerInv, Mapped, Shared, Counted, Connected
<1> QED
  BY <1>1 DEF McpInv

-----------------------------------------------------------------------------
(* What the parts of the actions do *)

\* What asking for a connection does.
LEMMA AsksEffect ==
  ASSUME McpTypeOK, NEW n \in Servers, NEW k \in Nat, Asks(n, k)
  PROVE  /\ calls' \in [Servers -> [Ids -> Nat]] /\ inFlight' \in [Servers -> Nat]
         /\ stale' \in [Servers -> BOOLEAN] /\ crossed' \in [Servers -> BOOLEAN]
         /\ pending' \in [Servers -> BOOLEAN] /\ waiting' \in [Servers -> Nat]
         /\ \A m \in Servers \ {n} : /\ pending'[m] = pending[m] /\ calls'[m] = calls[m]
                                     /\ inFlight'[m] = inFlight[m] /\ crossed'[m] = crossed[m]
         /\ Connected(n) => /\ pending' = pending /\ crossed' = crossed
                            /\ calls'[n][entry[n]] = calls[n][entry[n]] + k
                            /\ inFlight'[n] = inFlight[n] + k
<1>1. CASE Connected(n)
  <2>1. /\ calls' = [calls EXCEPT ![n][entry[n]] = @ + k]
        /\ inFlight' = [inFlight EXCEPT ![n] = @ + k]
        /\ stale' = [stale EXCEPT ![n] = FALSE]
        /\ pending' = pending /\ waiting' = waiting /\ crossed' = crossed
    BY <1>1 DEF Asks
  <2>2. entry[n] \in Ids /\ calls \in [Servers -> [Ids -> Nat]] /\ inFlight \in [Servers -> Nat]
    BY <1>1 DEF Connected, McpTypeOK
  <2>3. calls' \in [Servers -> [Ids -> Nat]] /\ inFlight' \in [Servers -> Nat]
    BY <2>1, <2>2
  <2>4. /\ calls'[n][entry[n]] = calls[n][entry[n]] + k /\ inFlight'[n] = inFlight[n] + k
        /\ \A m \in Servers \ {n} : calls'[m] = calls[m] /\ inFlight'[m] = inFlight[m]
    BY <2>1, <2>2
  <2> QED
    BY <2>1, <2>3, <2>4 DEF McpTypeOK
<1>2. CASE ~Connected(n)
  <2>1. /\ pending' = [pending EXCEPT ![n] = TRUE] /\ waiting' = [waiting EXCEPT ![n] = @ + k]
        /\ calls' = calls /\ inFlight' = inFlight /\ stale' = stale /\ crossed' = crossed
    BY <1>2 DEF Asks, useVars
  <2> QED
    BY <1>2, <2>1 DEF McpTypeOK
<1> QED
  BY <1>1, <1>2

\* What close does before its first await.
LEMMA CloseEffect ==
  ASSUME McpTypeOK, NEW n \in Servers, Connected(n), NEW what \in {"nothing", "connect", "call"},
         Close(n, what)
  PROVE  /\ entry' \in [Servers -> Ids \cup {None, NeedsAuth}]
         /\ conn' \in [Servers -> [Ids -> Conns]]
         /\ next' \in [Servers -> [Ids -> {"nothing", "connect", "call"}]]
         /\ \A m \in Servers \ {n} : entry'[m] = entry[m] /\ conn'[m] = conn[m]
         /\ entry'[n] = None /\ conn'[n][entry[n]] = "closing"
         /\ \A c \in Ids \ {entry[n]} : conn'[n][c] = conn[n][c]
<1>1. /\ entry' = [entry EXCEPT ![n] = None] /\ conn' = [conn EXCEPT ![n][entry[n]] = "closing"]
      /\ next' = [next EXCEPT ![n][entry[n]] = what]
  BY DEF Close
<1>2. /\ entry[n] \in Ids /\ conn \in [Servers -> [Ids -> Conns]]
      /\ entry \in [Servers -> Ids \cup {None, NeedsAuth}]
      /\ next \in [Servers -> [Ids -> {"nothing", "connect", "call"}]] /\ "closing" \in Conns
  BY DEF Connected, McpTypeOK, Conns
<1>3. entry' \in [Servers -> Ids \cup {None, NeedsAuth}] /\ entry'[n] = None
  BY <1>1, <1>2
<1>4. conn' \in [Servers -> [Ids -> Conns]] /\ conn'[n][entry[n]] = "closing"
  BY <1>1, <1>2
<1>5. next' \in [Servers -> [Ids -> {"nothing", "connect", "call"}]]
  BY <1>1, <1>2
<1> QED
  BY <1>1, <1>2, <1>3, <1>4, <1>5

\* It keeps the part of its server.
LEMMA CloseKeeps ==
  ASSUME McpInv, NEW n \in Servers, Connected(n), NEW what \in {"nothing", "connect", "call"},
         Close(n, what)
  PROVE  ServerInv(n)'
<1>1. Mapped(n)'
  BY CloseEffect DEF McpInv, ServerInv, Mapped
<1>2. ~Connected(n)'
  BY CloseEffect DEF McpInv, Connected, None, Ids
<1> QED
  BY <1>1, <1>2 DEF ServerInv, Shared, Counted

\* What the end of calls does to the counts.
LEMMA CallsEndEffect ==
  ASSUME McpTypeOK, NEW n \in Servers, NEW c \in Ids, NEW left \in 0..calls[n][c],
         CallsEnd(n, c, left)
  PROVE  /\ calls' \in [Servers -> [Ids -> Nat]] /\ inFlight' \in [Servers -> Nat]
         /\ stale' \in [Servers -> BOOLEAN] /\ crossed' \in [Servers -> BOOLEAN]
         /\ \A m \in Servers \ {n} : /\ calls'[m] = calls[m] /\ inFlight'[m] = inFlight[m]
                                     /\ crossed'[m] = crossed[m]
         /\ Counted(n) /\ entry' = entry => Counted(n)'
<1> DEFINE ended == calls[n][c] - left
           counted == IF ended < inFlight[n] THEN ended ELSE inFlight[n]
<1>0. /\ calls \in [Servers -> [Ids -> Nat]] /\ inFlight \in [Servers -> Nat]
      /\ stale \in [Servers -> BOOLEAN] /\ crossed \in [Servers -> BOOLEAN]
      /\ left \in Nat /\ calls[n][c] \in Nat /\ inFlight[n] \in Nat
  BY DEF McpTypeOK
<1>1. ended \in Nat /\ counted \in Nat /\ counted <= inFlight[n]
  BY <1>0
<1>2. calls' = [calls EXCEPT ![n][c] = left]
  BY DEF CallsEnd
<1>3. /\ calls' \in [Servers -> [Ids -> Nat]] /\ calls'[n][c] = left
      /\ \A d \in Ids \ {c} : calls'[n][d] = calls[n][d]
      /\ \A m \in Servers \ {n} : calls'[m] = calls[m]
  BY <1>0, <1>2
<1>4. CASE Connected(n) /\ ended > 0
  <2>1. /\ inFlight' = [inFlight EXCEPT ![n] = @ - counted]
        /\ stale' = [stale EXCEPT ![n] = FALSE]
        /\ crossed' = [crossed EXCEPT ![n] = @ \/ (c # entry[n] /\ counted > 0)]
    BY <1>4 DEF CallsEnd
  <2> HIDE DEF counted
  <2>2. inFlight[n] - counted \in Nat
    BY <1>0, <1>1
  <2>3. inFlight' \in [Servers -> Nat] /\ inFlight'[n] = inFlight[n] - counted
    BY <1>0, <2>1, <2>2
  <2>4. stale' \in [Servers -> BOOLEAN] /\ crossed' \in [Servers -> BOOLEAN]
    BY <1>0, <2>1
  <2>5. crossed'[n] = (crossed[n] \/ (c # entry[n] /\ counted > 0))
    BY <1>0, <2>1
  <2>6. \A m \in Servers \ {n} : inFlight'[m] = inFlight[m] /\ crossed'[m] = crossed[m]
    BY <1>0, <2>1
  <2>7. ASSUME Counted(n), entry' = entry PROVE Counted(n)'
    <3>1. entry[n] \in Ids /\ calls[n][entry[n]] \in Nat
      BY <1>0, <1>4 DEF Connected
    <3>2. CASE c = entry[n]
      BY <1>0, <1>1, <1>3, <1>4, <2>3, <2>5, <2>7, <3>1, <3>2 DEF Counted, Connected, counted
    <3>3. CASE c # entry[n]
      <4>1. ~crossed'[n] => ~crossed[n] /\ ~(counted > 0)
        BY <2>5, <3>3
      <4>2. ~crossed'[n] => ~crossed[n] /\ counted = 0
        BY <1>1, <4>1
      <4>3. calls'[n][entry[n]] = calls[n][entry[n]]
        BY <1>3, <3>1, <3>3
      <4>4. inFlight[n] <= calls[n][entry[n]]
        BY <1>4, <2>7 DEF Counted
      <4>5. inFlight'[n] <= calls'[n][entry[n]]
        BY <1>0, <1>1, <2>3, <3>1, <4>3, <4>4
      <4>6. ~crossed'[n] => inFlight'[n] = calls'[n][entry[n]]
        BY <1>0, <1>4, <2>3, <2>7, <4>2, <4>3 DEF Counted
      <4> QED
        BY <2>7, <4>5, <4>6 DEF Counted, Connected
    <3> QED
      BY <3>2, <3>3
  <2> QED
    BY <1>3, <2>3, <2>4, <2>6, <2>7
<1>5. CASE ~(Connected(n) /\ ended > 0)
  <2>1. inFlight' = inFlight /\ stale' = stale /\ crossed' = crossed
    BY <1>5 DEF CallsEnd
  <2>2. ASSUME Counted(n), entry' = entry PROVE Counted(n)'
    <3>1. Connected(n) => calls'[n][entry[n]] = calls[n][entry[n]]
      <4>1. Connected(n) => ~(ended > 0)
        BY <1>5
      <4>2. ~(ended > 0) => left = calls[n][c]
        <5>1. \A e, f, g \in Nat : g \in 0..f /\ ~(f - g > 0) => g = f
          OBVIOUS
        <5> QED
          BY <1>0, <5>1
      <4> QED
        BY <1>3, <4>1, <4>2 DEF Connected
    <3> QED
      BY <2>1, <2>2, <3>1 DEF Counted, Connected
  <2> QED
    BY <1>0, <1>3, <2>1, <2>2
<1> QED
  BY <1>4, <1>5

-----------------------------------------------------------------------------
\* The invariant holds at the start.
LEMMA InitMcpInv == Init => McpInv
<1> SUFFICES ASSUME Init PROVE McpInv
  OBVIOUS
<1>1. /\ entry \in [Servers -> Ids \cup {None, NeedsAuth}]
      /\ conn \in [Servers -> [Ids -> Conns]]
      /\ calls \in [Servers -> [Ids -> Nat]]
      /\ next \in [Servers -> [Ids -> {"nothing", "connect", "call"}]]
  BY DEF Init, Conns
<1>2. /\ made \in [Servers -> 0..MaxConnections] /\ begun \in [Servers -> 0..MaxCalls]
      /\ inFlight \in [Servers -> Nat] /\ waiting \in [Servers -> Nat]
      /\ authing \in [Servers -> Nat]
      /\ pending \in [Servers -> BOOLEAN] /\ stale \in [Servers -> BOOLEAN]
      /\ crossed \in [Servers -> BOOLEAN]
  BY BoundsAssumption DEF Init
<1>3. lifecycle \in [Servers -> Lifecycles] /\ phase \in Phases /\ checking \in BOOLEAN
  BY DEF Init, Phases
<1>4. McpTypeOK
  BY <1>1, <1>2, <1>3 DEF McpTypeOK
<1>5. ASSUME NEW n \in Servers PROVE ServerInv(n)
  BY DEF Init, ServerInv, Mapped, Shared, Counted, Connected, None, Ids
<1> QED
  BY <1>4, <1>5 DEF McpInv

\* Actions that ask for a connection, and change neither map nor connections.
LEMMA AsksKeeps ==
  ASSUME McpInv, NEW n \in Servers, NEW k \in Nat, Asks(n, k),
         \/ entry' = entry
         \/ ~Connected(n) /\ entry' = [entry EXCEPT ![n] = None],
         conn' = conn
  PROVE  Others(n) /\ ServerInv(n)'
<1>0. McpTypeOK /\ ServerInv(n)
  BY DEF McpInv
<1>1. Others(n)
  BY <1>0, AsksEffect DEF Others, McpTypeOK
<1>2. CASE Connected(n)
  <2>1. entry' = entry
    BY <1>2
  <2>2. Mapped(n)' /\ Shared(n)'
    BY <1>0, <1>2, <2>1, AsksEffect DEF ServerInv, Mapped, Shared, Connected
  <2>3. Counted(n)'
    <3>1. /\ calls'[n][entry[n]] = calls[n][entry[n]] + k /\ inFlight'[n] = inFlight[n] + k
          /\ crossed' = crossed
      BY <1>0, <1>2, AsksEffect
    <3>2. calls[n][entry[n]] \in Nat /\ inFlight[n] \in Nat
      BY <1>0, <1>2 DEF McpTypeOK, Connected
    <3> QED
      BY <1>0, <1>2, <2>1, <3>1, <3>2 DEF ServerInv, Counted
  <2> QED
    BY <1>1, <2>2, <2>3 DEF ServerInv
<1>3. CASE ~Connected(n)
  <2>1. ~Connected(n)' /\ entry'[n] \in {entry[n], None}
    BY <1>0, <1>3 DEF McpTypeOK, Connected, None, Ids
  <2>2. \A c \in Ids : conn[n][c] # "connected"
    BY <1>0, <1>3 DEF ServerInv, Mapped, Connected
  <2> QED
    BY <1>1, <2>1, <2>2 DEF ServerInv, Mapped, Shared, Counted
<1> QED
  BY <1>2, <1>3

\* Actions that begin to close the connection, and maybe another attempt.
LEMMA CloseStep ==
  ASSUME McpInv, McpTypeOK', NEW n \in Servers, Connected(n),
         NEW what \in {"nothing", "connect", "call"}, Close(n, what),
         pending' = pending \/ (\E b \in BOOLEAN : pending' = [pending EXCEPT ![n] = b]),
         UNCHANGED useVars
  PROVE  McpInv'
<1>1. Others(n)
  BY CloseEffect DEF McpInv, McpTypeOK, Others, useVars
<1> QED
  BY <1>1, CloseKeeps, StepOfOneServer

\* Closing all.
LEMMA CloseAllKeeps ==
  ASSUME McpInv, McpTypeOK', CloseAll
  PROVE  McpInv'
<1>1. ASSUME NEW n \in Servers PROVE ServerInv(n)'
  <2>1. entry'[n] = None
    BY DEF CloseAll
  <2>2. ~Connected(n)'
    BY <2>1 DEF Connected, None, Ids
  <2>3. ASSUME NEW c \in Ids PROVE conn'[n][c] # "connected"
    <3>1. conn'[n][c] = IF c = entry[n] THEN "closing" ELSE conn[n][c]
      BY DEF CloseAll
    <3> QED
      BY <3>1 DEF McpInv, ServerInv, Mapped
  <2> QED
    BY <2>2, <2>3 DEF ServerInv, Mapped, Shared, Counted
<1> QED
  BY <1>1 DEF McpInv

-----------------------------------------------------------------------------
(* The steps *)

\* Every step keeps the types.
LEMMA TypeStep == McpTypeOK /\ [Next]_vars => McpTypeOK'
<1> SUFFICES ASSUME McpTypeOK, [Next]_vars PROVE McpTypeOK'
  OBVIOUS
<1> USE DEF sessionVars, useVars, askVars
<1>1. ASSUME NEW n \in Servers, StartupConnect(n) \/ ConnectTool(n) \/ KeepAliveCheck(n)
      PROVE  McpTypeOK'
  <2>1. PICK k \in {0, 1} : Asks(n, k)
    BY <1>1 DEF StartupConnect, ConnectTool, KeepAliveCheck
  <2>2. UNCHANGED <<sessionVars, entry, made, conn, authing, next>>
    BY <1>1 DEF StartupConnect, ConnectTool, KeepAliveCheck
  <2>3. begun' \in [Servers -> 0..MaxCalls]
    <3>1. begun \in [Servers -> 0..MaxCalls] /\ MaxCalls \in Nat
      BY BoundsAssumption DEF McpTypeOK
    <3>2. begun' = begun \/ (begun[n] < MaxCalls /\ begun' = [begun EXCEPT ![n] = @ + 1])
      BY <1>1 DEF StartupConnect, ConnectTool, KeepAliveCheck
    <3> QED
      BY <3>1, <3>2
  <2> QED
    BY <2>1, <2>2, <2>3, AsksEffect DEF McpTypeOK, Lifecycles
<1>2. ASSUME NEW n \in Servers, CallTool(n) PROVE McpTypeOK'
  <2>1. begun' \in [Servers -> 0..MaxCalls]
    BY <1>2, BoundsAssumption DEF CallTool, McpTypeOK
  <2>2. CASE entry[n] = NeedsAuth
    <3>1. authing' \in [Servers -> Nat]
      <4>1. authing' = [authing EXCEPT ![n] = @ + 1]
        BY <1>2, <2>2 DEF CallTool
      <4>2. authing \in [Servers -> Nat]
        BY DEF McpTypeOK
      <4> QED
        BY <4>1, <4>2
    <3>2. UNCHANGED <<sessionVars, entry, made, conn, next, pending, waiting, useVars>>
      BY <1>2, <2>2 DEF CallTool
    <3> QED
      BY <2>1, <3>1, <3>2 DEF McpTypeOK
  <2>3. CASE entry[n] # NeedsAuth
    <3>1. Asks(n, 1) /\ UNCHANGED <<sessionVars, entry, made, conn, next, authing>>
      BY <1>2, <2>3 DEF CallTool
    <3> QED
      BY <2>1, <3>1, AsksEffect DEF McpTypeOK
  <2> QED
    BY <2>2, <2>3
<1>3. ASSUME NEW n \in Servers, AttemptSucceeds(n) PROVE McpTypeOK'
  <2> DEFINE c == made[n] + 1
  <2>1. c \in Ids /\ c \in 0..MaxConnections /\ "connected" \in Conns
    BY <1>3, BoundsAssumption DEF AttemptSucceeds, McpTypeOK, Ids, Conns
  <2>2. PICK k \in 0..waiting[n] : /\ calls' = [calls EXCEPT ![n][c] = k]
                                   /\ inFlight' = [inFlight EXCEPT ![n] = k]
    BY <1>3 DEF AttemptSucceeds
  <2>3. k \in Nat
    BY <2>2 DEF McpTypeOK
  <2>4. /\ made' = [made EXCEPT ![n] = c] /\ entry' = [entry EXCEPT ![n] = c]
        /\ conn' = [conn EXCEPT ![n][c] = "connected"]
        /\ pending' = [pending EXCEPT ![n] = FALSE] /\ waiting' = [waiting EXCEPT ![n] = 0]
        /\ stale' = [stale EXCEPT ![n] = FALSE] /\ crossed' = [crossed EXCEPT ![n] = FALSE]
        /\ UNCHANGED <<sessionVars, askVars>>
    BY <1>3 DEF AttemptSucceeds
  <2> HIDE DEF c
  <2>5. made' \in [Servers -> 0..MaxConnections] /\ entry' \in [Servers -> Ids \cup {None, NeedsAuth}]
    BY <2>1, <2>4 DEF McpTypeOK
  <2>6. conn' \in [Servers -> [Ids -> Conns]]
    BY <2>1, <2>4 DEF McpTypeOK
  <2>7. calls' \in [Servers -> [Ids -> Nat]] /\ inFlight' \in [Servers -> Nat]
    BY <2>1, <2>2, <2>3 DEF McpTypeOK
  <2>8. /\ pending' \in [Servers -> BOOLEAN] /\ waiting' \in [Servers -> Nat]
        /\ stale' \in [Servers -> BOOLEAN] /\ crossed' \in [Servers -> BOOLEAN]
    BY <2>4 DEF McpTypeOK
  <2> QED
    BY <2>4, <2>5, <2>6, <2>7, <2>8 DEF McpTypeOK
<1>4. ASSUME NEW n \in Servers, AttemptRefused(n) PROVE McpTypeOK'
  <2>1. entry' \in [Servers -> Ids \cup {None, NeedsAuth}]
    BY <1>4 DEF AttemptRefused, McpTypeOK
  <2>2. authing' \in [Servers -> Nat]
    <3>1. PICK k \in 0..waiting[n] : authing' = [authing EXCEPT ![n] = @ + k]
      BY <1>4 DEF AttemptRefused
    <3>2. k \in Nat /\ authing \in [Servers -> Nat]
      BY <3>1 DEF McpTypeOK
    <3> QED
      BY <3>1, <3>2
  <2>3. pending' \in [Servers -> BOOLEAN] /\ waiting' \in [Servers -> Nat]
    BY <1>4 DEF AttemptRefused, McpTypeOK
  <2> QED
    BY <1>4, <2>1, <2>2, <2>3 DEF AttemptRefused, McpTypeOK
<1>5. ASSUME NEW n \in Servers, AttemptFails(n) PROVE McpTypeOK'
  <2>1. pending' \in [Servers -> BOOLEAN] /\ waiting' \in [Servers -> Nat]
    BY <1>5 DEF AttemptFails, McpTypeOK
  <2> QED
    BY <1>5, <2>1 DEF AttemptFails, McpTypeOK
<1>6. ASSUME NEW n \in Servers, NEW c \in Ids, CallEnds(n, c) PROVE McpTypeOK'
  <2>1. CallsEnd(n, c, calls[n][c] - 1) /\ calls[n][c] - 1 \in 0..calls[n][c]
    BY <1>6 DEF CallEnds, McpTypeOK
  <2>2. /\ calls' \in [Servers -> [Ids -> Nat]] /\ inFlight' \in [Servers -> Nat]
        /\ stale' \in [Servers -> BOOLEAN] /\ crossed' \in [Servers -> BOOLEAN]
    BY <2>1, CallsEndEffect
  <2> QED
    BY <1>6, <2>2 DEF CallEnds, McpTypeOK
<1>7. ASSUME NEW n \in Servers, NEW c \in Ids, CloseEnds(n, c) PROVE McpTypeOK'
  <2>1. CallsEnd(n, c, 0) /\ 0 \in 0..calls[n][c]
    BY <1>7 DEF CloseEnds, McpTypeOK
  <2>2. /\ calls' \in [Servers -> [Ids -> Nat]] /\ inFlight' \in [Servers -> Nat]
        /\ stale' \in [Servers -> BOOLEAN] /\ crossed' \in [Servers -> BOOLEAN]
    BY <2>1, CallsEndEffect
  <2>3. conn' \in [Servers -> [Ids -> Conns]]
    BY <1>7 DEF CloseEnds, McpTypeOK, Conns
  <2> QED
    BY <1>7, <2>2, <2>3 DEF CloseEnds, McpTypeOK
<1>8. ASSUME NEW n \in Servers, NEW c \in Ids, Reopen(n, c) PROVE McpTypeOK'
  <2>1. PICK k \in Nat : Asks(n, k)
    BY <1>8 DEF Reopen
  <2>2. next' \in [Servers -> [Ids -> {"nothing", "connect", "call"}]]
    BY <1>8 DEF Reopen, McpTypeOK
  <2> QED
    BY <1>8, <2>1, <2>2, AsksEffect DEF Reopen, McpTypeOK
<1>9. ASSUME NEW n \in Servers, Reconnect(n) PROVE McpTypeOK'
  <2>1. CASE Connected(n)
    <3>1. Close(n, "connect") /\ UNCHANGED <<pending, waiting, useVars, sessionVars, made, begun, authing>>
      BY <1>9, <2>1 DEF Reconnect
    <3> QED
      BY <2>1, <3>1, CloseEffect DEF McpTypeOK
  <2>2. CASE ~Connected(n)
    <3>1. /\ entry' = [entry EXCEPT ![n] = None] /\ Asks(n, 0)
          /\ UNCHANGED <<conn, next, sessionVars, made, begun, authing>>
      BY <1>9, <2>2 DEF Reconnect
    <3>2. entry' \in [Servers -> Ids \cup {None, NeedsAuth}]
      BY <3>1 DEF McpTypeOK
    <3> QED
      BY <3>1, <3>2, AsksEffect DEF McpTypeOK
  <2> QED
    BY <2>1, <2>2
<1>10. ASSUME NEW n \in Servers, AuthEnds(n) PROVE McpTypeOK'
  <2>0. /\ authing' \in [Servers -> Nat] /\ authing[n] - 1 \in Nat
        /\ UNCHANGED <<sessionVars, made, useVars, begun>>
    BY <1>10 DEF AuthEnds, McpTypeOK
  <2>1. CASE UNCHANGED <<entry, conn, next, pending, waiting>>
    BY <2>0, <2>1 DEF McpTypeOK
  <2>2. CASE /\ Connected(n) /\ \E what \in {"call", "connect"} : Close(n, what)
             /\ pending' = [pending EXCEPT ![n] = authing[n] > 1]
             /\ waiting' = [waiting EXCEPT ![n] = authing[n] - 1]
    <3>1. pending' \in [Servers -> BOOLEAN] /\ waiting' \in [Servers -> Nat]
      BY <2>0, <2>2 DEF McpTypeOK
    <3> QED
      BY <2>0, <2>2, <3>1, CloseEffect DEF McpTypeOK
  <2>3. CASE /\ entry' = [entry EXCEPT ![n] = None]
             /\ pending' = [pending EXCEPT ![n] = TRUE]
             /\ waiting' = [waiting EXCEPT ![n] = @ + authing[n]]
             /\ UNCHANGED <<conn, next>>
    <3>1. pending' \in [Servers -> BOOLEAN] /\ waiting' \in [Servers -> Nat]
      BY <2>3 DEF McpTypeOK
    <3>2. entry' \in [Servers -> Ids \cup {None, NeedsAuth}]
      BY <2>3 DEF McpTypeOK
    <3> QED
      BY <2>0, <2>3, <3>1, <3>2 DEF McpTypeOK
  <2> QED
    BY <1>10, <2>1, <2>2, <2>3 DEF AuthEnds
<1>11. ASSUME NEW n \in Servers, TimePasses(n) PROVE McpTypeOK'
  <2>1. stale' \in [Servers -> BOOLEAN]
    BY <1>11 DEF TimePasses, McpTypeOK
  <2> QED
    BY <1>11, <2>1 DEF TimePasses, McpTypeOK
<1>12. ASSUME NEW n \in Servers, IdleCheck(n) PROVE McpTypeOK'
  <2>1. /\ Connected(n) /\ Close(n, "nothing")
        /\ UNCHANGED <<sessionVars, pending, made, useVars, waiting, begun, authing>>
    BY <1>12 DEF IdleCheck
  <2> QED
    BY <2>1, CloseEffect DEF McpTypeOK
<1>13. ASSUME CloseAll PROVE /\ entry' \in [Servers -> Ids \cup {None, NeedsAuth}]
                             /\ conn' \in [Servers -> [Ids -> Conns]]
                             /\ UNCHANGED <<lifecycle, pending, made, useVars, waiting, askVars>>
  BY <1>13 DEF CloseAll, McpTypeOK, Conns
<1>14. CASE StartEnds
  <2>1. CASE UNCHANGED <<lifecycle, entry, pending, made, conn, useVars, waiting, askVars>>
    BY <1>14, <2>1 DEF StartEnds, McpTypeOK, Phases
  <2>2. CASE CloseAll
    BY <1>13, <1>14, <2>2 DEF StartEnds, McpTypeOK, Phases
  <2> QED
    BY <1>14, <2>1, <2>2 DEF StartEnds
<1>15. CASE SessionEnds
  <2>1. CASE UNCHANGED <<lifecycle, checking, entry, pending, made, conn, useVars, waiting, askVars>>
    BY <1>15, <2>1 DEF SessionEnds, McpTypeOK, Phases
  <2>2. CASE CloseAll
    BY <1>13, <1>15, <2>2 DEF SessionEnds, McpTypeOK, Phases
  <2> QED
    BY <1>15, <2>1, <2>2 DEF SessionEnds
<1>16. CASE LastCheckEnds
  BY <1>16 DEF LastCheckEnds, McpTypeOK
<1>17. CASE UNCHANGED vars
  BY <1>17 DEF vars, McpTypeOK
<1> QED
  BY <1>1, <1>2, <1>3, <1>4, <1>5, <1>6, <1>7, <1>8, <1>9, <1>10, <1>11, <1>12, <1>14, <1>15,
     <1>16, <1>17 DEF Next, AttemptEnds

\* Every step keeps the invariant.
LEMMA McpStep == McpInv /\ [Next]_vars => McpInv'
<1> SUFFICES ASSUME McpInv, [Next]_vars PROVE McpInv'
  OBVIOUS
<1>0. McpTypeOK /\ McpTypeOK' /\ \A n \in Servers : ServerInv(n)
  BY TypeStep DEF McpInv
<1>1. ASSUME NEW n \in Servers, NEW k \in Nat, Asks(n, k), entry' = entry, conn' = conn
      PROVE  McpInv'
  BY <1>0, <1>1, AsksKeeps, StepOfOneServer
<1>2. ASSUME UNCHANGED <<entry, pending, conn, calls, inFlight, crossed>> PROVE McpInv'
  BY <1>0, <1>2 DEF McpInv, ServerInv, Mapped, Shared, Counted, Connected
<1>3. ASSUME NEW n \in Servers, StartupConnect(n) \/ ConnectTool(n) \/ KeepAliveCheck(n)
      PROVE  McpInv'
  <2>1. entry' = entry /\ conn' = conn /\ \E k \in {0, 1} : Asks(n, k)
    BY <1>3 DEF StartupConnect, ConnectTool, KeepAliveCheck
  <2> QED
    BY <1>1, <2>1
<1>4. ASSUME NEW n \in Servers, CallTool(n) PROVE McpInv'
  <2>1. CASE entry[n] = NeedsAuth
    BY <1>2, <1>4, <2>1 DEF CallTool, useVars
  <2>2. CASE entry[n] # NeedsAuth
    <3>1. Asks(n, 1) /\ entry' = entry /\ conn' = conn
      BY <1>4, <2>2 DEF CallTool
    <3> QED
      BY <1>1, <3>1
  <2> QED
    BY <2>1, <2>2
<1>5. ASSUME NEW n \in Servers, NEW c \in Ids, Reopen(n, c) PROVE McpInv'
  <2>1. PICK k \in Nat : Asks(n, k)
    BY <1>5 DEF Reopen
  <2>2. entry' = entry /\ conn' = conn
    BY <1>5 DEF Reopen
  <2> QED
    BY <1>1, <2>1, <2>2
<1>6. ASSUME NEW n \in Servers, AttemptSucceeds(n) PROVE McpInv'
  <2> DEFINE c == made[n] + 1
  <2>1. /\ pending[n] /\ pending' = [pending EXCEPT ![n] = FALSE]
        /\ entry' = [entry EXCEPT ![n] = c] /\ conn' = [conn EXCEPT ![n][c] = "connected"]
        /\ crossed' = [crossed EXCEPT ![n] = FALSE] /\ made[n] < MaxConnections
    BY <1>6 DEF AttemptSucceeds
  <2>2. PICK k \in 0..waiting[n] : /\ calls' = [calls EXCEPT ![n][c] = k]
                                   /\ inFlight' = [inFlight EXCEPT ![n] = k]
    BY <1>6 DEF AttemptSucceeds
  <2>3. c \in Ids /\ k \in Nat
    BY <1>0, <2>1, BoundsAssumption DEF McpTypeOK, Ids
  <2> HIDE DEF c
  <2>4. /\ entry'[n] = c /\ ~pending'[n] /\ calls'[n][c] = k /\ inFlight'[n] = k
        /\ \A d \in Ids \ {c} : conn'[n][d] = conn[n][d]
    BY <1>0, <2>1, <2>2, <2>3 DEF McpTypeOK
  <2>5. Others(n)
    BY <1>0, <2>1, <2>2 DEF McpTypeOK, Others
  <2>6. \A d \in Ids : conn[n][d] # "connected"
    BY <1>0, <2>1 DEF ServerInv, Mapped, Shared, Connected
  <2>7. Mapped(n)' /\ Shared(n)'
    BY <2>4, <2>6 DEF Mapped, Shared
  <2>8. Counted(n)'
    BY <2>3, <2>4 DEF Counted
  <2> QED
    BY <1>0, <2>5, <2>7, <2>8, StepOfOneServer DEF ServerInv
<1>7. ASSUME NEW n \in Servers, AttemptRefused(n) \/ AttemptFails(n) PROVE McpInv'
  <2>1. /\ pending[n] /\ pending' = [pending EXCEPT ![n] = FALSE]
        /\ entry' = entry \/ entry' = [entry EXCEPT ![n] = NeedsAuth]
        /\ UNCHANGED <<conn, calls, inFlight, crossed>>
    BY <1>7 DEF AttemptRefused, AttemptFails, useVars
  <2>2. Others(n)
    BY <1>0, <2>1 DEF McpTypeOK, Others
  <2>3. ~Connected(n)
    BY <1>0, <2>1 DEF ServerInv, Shared
  <2>4. ~Connected(n)'
    BY <1>0, <2>1, <2>3 DEF McpTypeOK, Connected, NeedsAuth, Ids
  <2>5. Mapped(n)'
    BY <1>0, <2>1, <2>3 DEF ServerInv, Mapped, Connected
  <2> QED
    BY <1>0, <2>2, <2>4, <2>5, StepOfOneServer DEF ServerInv, Shared, Counted
<1>8. ASSUME NEW n \in Servers, NEW c \in Ids, CallEnds(n, c) PROVE McpInv'
  <2>1. CallsEnd(n, c, calls[n][c] - 1) /\ calls[n][c] - 1 \in 0..calls[n][c]
    BY <1>0, <1>8 DEF CallEnds, McpTypeOK
  <2>2. entry' = entry /\ pending' = pending /\ conn' = conn
    BY <1>8 DEF CallEnds
  <2>3. Counted(n)' /\ Others(n)
    BY <1>0, <2>1, <2>2, CallsEndEffect DEF ServerInv, Others
  <2> QED
    BY <1>0, <2>2, <2>3, StepOfOneServer DEF ServerInv, Mapped, Shared, Connected
<1>9. ASSUME NEW n \in Servers, NEW c \in Ids, CloseEnds(n, c) PROVE McpInv'
  <2>1. CallsEnd(n, c, 0) /\ 0 \in 0..calls[n][c]
    BY <1>0, <1>9 DEF CloseEnds, McpTypeOK
  <2>2. /\ entry' = entry /\ pending' = pending
        /\ conn' = [conn EXCEPT ![n][c] = "closed"]
    BY <1>9 DEF CloseEnds
  <2>3. Counted(n)' /\ Others(n)
    BY <1>0, <2>1, <2>2, CallsEndEffect DEF ServerInv, Others, McpTypeOK
  <2>4. Mapped(n)'
    <3>1. ASSUME NEW d \in Ids, conn'[n][d] = "connected" PROVE conn[n][d] = "connected"
      BY <1>0, <2>2, <3>1 DEF McpTypeOK
    <3> QED
      BY <1>0, <2>2, <3>1 DEF ServerInv, Mapped
  <2> QED
    BY <1>0, <2>2, <2>3, <2>4, StepOfOneServer DEF ServerInv, Shared, Connected
<1>10. ASSUME NEW n \in Servers, Reconnect(n) PROVE McpInv'
  <2>1. CASE Connected(n)
    <3>1. Close(n, "connect") /\ pending' = pending /\ UNCHANGED useVars
      BY <1>10, <2>1 DEF Reconnect
    <3> QED
      BY <1>0, <2>1, <3>1, CloseStep
  <2>2. CASE ~Connected(n)
    <3>1. entry' = [entry EXCEPT ![n] = None] /\ Asks(n, 0) /\ conn' = conn
      BY <1>10, <2>2 DEF Reconnect
    <3> QED
      BY <1>0, <2>2, <3>1, AsksKeeps, StepOfOneServer
  <2> QED
    BY <2>1, <2>2
<1>11. ASSUME NEW n \in Servers, AuthEnds(n) PROVE McpInv'
  <2>0. UNCHANGED useVars
    BY <1>11 DEF AuthEnds
  <2>1. CASE UNCHANGED <<entry, conn, next, pending, waiting>>
    BY <1>2, <2>0, <2>1 DEF useVars
  <2>2. CASE /\ Connected(n) /\ \E what \in {"call", "connect"} : Close(n, what)
             /\ pending' = [pending EXCEPT ![n] = authing[n] > 1]
    <3>1. \E b \in BOOLEAN : pending' = [pending EXCEPT ![n] = b]
      <4>1. (authing[n] > 1) \in BOOLEAN
        OBVIOUS
      <4> QED
        BY <2>2, <4>1, Zenon
    <3> QED
      BY <1>0, <2>0, <2>2, <3>1, CloseStep
  <2>3. CASE /\ ~Connected(n) /\ entry' = [entry EXCEPT ![n] = None]
             /\ pending' = [pending EXCEPT ![n] = TRUE] /\ conn' = conn
    <3>1. Others(n)
      BY <1>0, <2>0, <2>3 DEF McpTypeOK, Others, useVars
    <3>2. ~Connected(n)'
      BY <1>0, <2>3 DEF McpTypeOK, Connected, None, Ids
    <3>3. Mapped(n)'
      BY <1>0, <2>3 DEF ServerInv, Mapped, Connected
    <3> QED
      BY <1>0, <3>1, <3>2, <3>3, StepOfOneServer DEF ServerInv, Shared, Counted
  <2> QED
    BY <1>11, <2>1, <2>2, <2>3 DEF AuthEnds
<1>12. ASSUME NEW n \in Servers, IdleCheck(n) PROVE McpInv'
  <2>1. Connected(n) /\ Close(n, "nothing") /\ pending' = pending /\ UNCHANGED useVars
    BY <1>12 DEF IdleCheck
  <2> QED
    BY <1>0, <2>1, CloseStep
<1>13. ASSUME StartEnds \/ SessionEnds \/ LastCheckEnds PROVE McpInv'
  <2>1. CASE CloseAll
    BY <1>0, <2>1, CloseAllKeeps
  <2>2. CASE UNCHANGED <<entry, pending, made, conn, useVars, waiting, askVars>>
    BY <1>2, <2>2 DEF useVars
  <2> QED
    BY <1>13, <2>1, <2>2 DEF StartEnds, SessionEnds, LastCheckEnds
<1>14. ASSUME NEW n \in Servers, TimePasses(n) PROVE McpInv'
  BY <1>2, <1>14 DEF TimePasses
<1>15. CASE UNCHANGED vars
  BY <1>2, <1>15 DEF vars, useVars
<1> QED
  BY <1>3, <1>4, <1>5, <1>6, <1>7, <1>8, <1>9, <1>10, <1>11, <1>12, <1>13, <1>14, <1>15
     DEF Next, AttemptEnds

\* It is an invariant.
LEMMA McpInvAlways == Spec => []McpInv
BY InitMcpInv, McpStep, PTL DEF Spec

-----------------------------------------------------------------------------
(* Theorems *)

\* Type correctness, for every set of servers and every bound.
THEOREM McpTypeCorrect == Spec => []McpTypeOK
<1>1. McpInv => McpTypeOK
  BY DEF McpInv
<1> QED
  BY <1>1, McpInvAlways, PTL

\* No order of connecting, closing, authenticating, checking and ending the
\* session leaves a server process that was started outside the map.
THEOREM NoOrphansEver == Spec => []NoOrphans
<1>1. McpInv => NoOrphans
  BY DEF McpInv, ServerInv, Mapped, NoOrphans
<1> QED
  BY <1>1, McpInvAlways, PTL

\* No attempt is under way beside a connection: no server is started twice.
THEOREM OneAttemptAlways == Spec => []OneAttempt
<1>1. McpInv => OneAttempt
  BY DEF McpInv, ServerInv, Shared, OneAttempt
<1> QED
  BY <1>1, McpInvAlways, PTL

\* The calls in flight are those on the connection in the map; never too many,
\* and too few only after a call on an earlier connection was taken from them.
THEOREM CallsCountedAlways == Spec => []CallsAreCounted
<1>1. McpInv => CallsAreCounted
  BY DEF McpInv, ServerInv, Counted, CallsAreCounted
<1> QED
  BY <1>1, McpInvAlways, PTL

-----------------------------------------------------------------------------
(* The life of a connection                                                 *)

\* Every call in progress is on a connection that is not closed, and every call
\* that waits has an attempt under way: close rejects what runs on the client,
\* and an attempt that ends leaves nobody behind (connectPromises).
NoCallHangs ==
  \A n \in Servers :
    /\ \A c \in Ids : calls[n][c] > 0 => conn[n][c] \in {"connected", "closing"}
    /\ waiting[n] > 0 => pending[n]

\* The connections made are those that are known, the one in the map is
\* connected, and only who closed a connection waits for its close.
Life(n) ==
  /\ \A c \in Ids : conn[n][c] = "none" <=> c > made[n]
  /\ \A c \in Ids : next[n][c] # "nothing" => conn[n][c] \in {"closing", "closed"}
  /\ Connected(n) => conn[n][entry[n]] = "connected"

LifeInv == NoCallHangs /\ \A n \in Servers : Life(n)

Succession == {<<"none", "connected">>, <<"connected", "closing">>, <<"closing", "closed">>}

\* A connection is connected, closed and never used again; no second close
\* takes the place of one that somebody waits for in order to connect again; and
\* unless calls were confounded an idle check closes it under no call.
LivesOnce(n, c) ==
  /\ conn'[n][c] = conn[n][c] \/ <<conn[n][c], conn'[n][c]>> \in Succession
  /\ next[n][c] # "nothing" => next'[n][c] = next[n][c] \/ Reopen(n, c)
  /\ IdleCheck(n) /\ ~crossed[n] => conn'[n][c] = conn[n][c] \/ calls[n][c] = 0

ConnectionsLiveOnce == [][\A n \in Servers, c \in Ids : LivesOnce(n, c)]_vars

\* Asking for a connection keeps the invariant.
LEMMA AsksLife ==
  ASSUME McpTypeOK, LifeInv, NEW n \in Servers, NEW k \in Nat, Asks(n, k), conn' = conn, made' = made,
         \A m \in Servers, d \in Ids : next'[m][d] \in {next[m][d], "nothing"},
         entry' = entry \/ (~Connected(n) /\ entry' = [entry EXCEPT ![n] = None])
  PROVE  LifeInv'
<1>0. /\ calls \in [Servers -> [Ids -> Nat]] /\ waiting \in [Servers -> Nat]
      /\ pending \in [Servers -> BOOLEAN] /\ entry \in [Servers -> Ids \cup {None, NeedsAuth}]
  BY DEF McpTypeOK
<1>1. \A m \in Servers : Connected(m)' => Connected(m) /\ entry'[m] = entry[m]
  <2>1. CASE entry' = entry
    BY <2>1 DEF Connected
  <2>2. CASE entry' = [entry EXCEPT ![n] = None]
    <3>1. \A m \in Servers : entry'[m] = IF m = n THEN None ELSE entry[m]
      BY <1>0, <2>2
    <3> QED
      BY <3>1 DEF Connected, None, Ids
  <2> QED
    BY <2>1, <2>2
<1>2. \A m \in Servers, d \in Ids :
        calls'[m][d] = calls[m][d] \/ (m = n /\ Connected(n) /\ d = entry[n])
  <2>1. CASE Connected(n)
    <3>1. calls' = [calls EXCEPT ![n][entry[n]] = @ + k] /\ entry[n] \in Ids
      BY <2>1 DEF Asks, Connected
    <3> QED
      BY <1>0, <2>1, <3>1
  <2>2. CASE ~Connected(n)
    BY <2>2 DEF Asks, useVars
  <2> QED
    BY <2>1, <2>2
<1>3. \A m \in Servers : waiting'[m] > 0 => pending'[m]
  <2>1. CASE Connected(n)
    BY <2>1 DEF Asks, LifeInv, NoCallHangs
  <2>2. CASE ~Connected(n)
    BY <1>0, <2>2 DEF Asks, LifeInv, NoCallHangs
  <2> QED
    BY <2>1, <2>2
<1>4. NoCallHangs'
  <2> SUFFICES ASSUME NEW m \in Servers, NEW d \in Ids, calls'[m][d] > 0
               PROVE  conn[m][d] \in {"connected", "closing"}
    BY <1>3 DEF NoCallHangs
  <2>1. CASE calls'[m][d] = calls[m][d]
    BY <2>1 DEF LifeInv, NoCallHangs
  <2>2. CASE m = n /\ Connected(n) /\ d = entry[n]
    BY <2>2 DEF LifeInv, Life
  <2> QED
    BY <1>2, <2>1, <2>2
<1>5. ASSUME NEW m \in Servers PROVE Life(m)'
  BY <1>1 DEF LifeInv, Life
<1> QED
  BY <1>4, <1>5 DEF LifeInv

\* So does closing the connection in the map.
LEMMA CloseLife ==
  ASSUME McpInv, LifeInv, NEW n \in Servers, Connected(n), NEW what \in {"nothing", "connect", "call"},
         Close(n, what), made' = made, calls' = calls,
         \A m \in Servers : waiting'[m] > 0 => pending'[m]
  PROVE  /\ LifeInv'
         /\ \A m \in Servers, d \in Ids :
              \/ conn'[m][d] = conn[m][d] /\ next'[m][d] = next[m][d]
              \/ /\ m = n /\ d = entry[n]
                 /\ conn[m][d] = "connected" /\ conn'[m][d] = "closing" /\ next[m][d] = "nothing"
<1>0. /\ McpTypeOK /\ entry[n] \in Ids /\ conn[n][entry[n]] = "connected"
      /\ next[n][entry[n]] = "nothing"
  BY DEF McpInv, Connected, LifeInv, Life
<1>1. \A m \in Servers, d \in Ids : next'[m][d] = IF m = n /\ d = entry[n] THEN what ELSE next[m][d]
  BY <1>0 DEF Close, McpTypeOK
<1>2. \A m \in Servers, d \in Ids : conn'[m][d] = IF m = n /\ d = entry[n] THEN "closing" ELSE conn[m][d]
  BY <1>0, CloseEffect
<1>3. \A m \in Servers : entry'[m] = IF m = n THEN None ELSE entry[m]
  BY <1>0, CloseEffect
<1>4. NoCallHangs'
  BY <1>2 DEF LifeInv, NoCallHangs
<1>5. ASSUME NEW m \in Servers PROVE Life(m)'
  <2>1. Connected(m)' => m # n /\ Connected(m) /\ entry'[m] = entry[m]
    BY <1>3 DEF Connected, None, Ids
  <2>2. Connected(m)' => conn'[m][entry'[m]] = "connected"
    BY <1>2, <2>1 DEF Connected, LifeInv, Life
  <2>3. \A c \in Ids : conn'[m][c] = "none" <=> c > made'[m]
    BY <1>0, <1>2 DEF LifeInv, Life
  <2>4. \A c \in Ids : next'[m][c] # "nothing" => conn'[m][c] \in {"closing", "closed"}
    BY <1>1, <1>2 DEF LifeInv, Life
  <2> QED
    BY <2>2, <2>3, <2>4 DEF Life
<1> QED
  BY <1>0, <1>1, <1>2, <1>4, <1>5 DEF LifeInv

\* And closing all.
LEMMA CloseAllLife ==
  ASSUME McpInv, LifeInv, CloseAll
  PROVE  /\ LifeInv'
         /\ \A m \in Servers, d \in Ids :
              /\ conn'[m][d] = conn[m][d] \/ (conn[m][d] = "connected" /\ conn'[m][d] = "closing")
              /\ next'[m][d] = next[m][d]
<1>1. \A m \in Servers, d \in Ids : conn'[m][d] = IF d = entry[m] THEN "closing" ELSE conn[m][d]
  BY DEF CloseAll
<1>2. \A m \in Servers : ~Connected(m)'
  BY DEF CloseAll, Connected, None, Ids
<1>3. UNCHANGED <<made, calls, pending, waiting, next>>
  BY DEF CloseAll, useVars, askVars
<1>4. \A m \in Servers, d \in Ids : d = entry[m] => conn[m][d] = "connected"
  BY DEF LifeInv, Life, Connected
<1>5. NoCallHangs'
  BY <1>1, <1>3 DEF LifeInv, NoCallHangs
<1>6. ASSUME NEW m \in Servers PROVE Life(m)'
  BY <1>1, <1>2, <1>3, <1>4 DEF LifeInv, Life
<1> QED
  BY <1>1, <1>3, <1>4, <1>5, <1>6 DEF LifeInv

\* What one step does to the life of the connections.
LEMMA LifeStep ==
  ASSUME McpInv, LifeInv, Next
  PROVE  LifeInv' /\ \A m \in Servers, d \in Ids : LivesOnce(m, d)
<1>0. McpTypeOK
  BY DEF McpInv
<1>1. ASSUME NEW n \in Servers, NEW k \in Nat, Asks(n, k), UNCHANGED <<conn, made, next>>,
             entry' = entry \/ (~Connected(n) /\ entry' = [entry EXCEPT ![n] = None])
      PROVE  LifeInv' /\ \A m \in Servers, d \in Ids : LivesOnce(m, d)
  BY <1>0, <1>1, AsksLife DEF LivesOnce
<1>2. ASSUME UNCHANGED <<conn, made, next, calls>>,
             \A m \in Servers : waiting'[m] > 0 => pending'[m],
             \A m \in Servers : Connected(m)' => entry'[m] = entry[m]
      PROVE  LifeInv' /\ \A m \in Servers, d \in Ids : LivesOnce(m, d)
  BY <1>2 DEF LifeInv, NoCallHangs, Life, Connected, LivesOnce
<1>3. ASSUME NEW n \in Servers, StartupConnect(n) \/ ConnectTool(n) \/ KeepAliveCheck(n)
      PROVE  LifeInv' /\ \A m \in Servers, d \in Ids : LivesOnce(m, d)
  <2>1. UNCHANGED <<entry, conn, made, next>> /\ \E k \in {0, 1} : Asks(n, k)
    BY <1>3 DEF StartupConnect, ConnectTool, KeepAliveCheck, askVars
  <2> QED
    BY <1>1, <2>1
<1>4. ASSUME NEW n \in Servers, CallTool(n)
      PROVE  LifeInv' /\ \A m \in Servers, d \in Ids : LivesOnce(m, d)
  <2>1. CASE entry[n] = NeedsAuth
    BY <1>2, <1>4, <2>1 DEF CallTool, useVars, LifeInv, NoCallHangs
  <2>2. CASE entry[n] # NeedsAuth
    <3>1. Asks(n, 1) /\ UNCHANGED <<entry, conn, made, next>>
      BY <1>4, <2>2 DEF CallTool
    <3> QED
      BY <1>1, <3>1
  <2> QED
    BY <2>1, <2>2
<1>5. ASSUME NEW n \in Servers, AttemptSucceeds(n)
      PROVE  LifeInv' /\ \A m \in Servers, d \in Ids : LivesOnce(m, d)
  <2> DEFINE c == made[n] + 1
  <2>1. /\ made' = [made EXCEPT ![n] = c] /\ made[n] < MaxConnections
        /\ entry' = [entry EXCEPT ![n] = c] /\ conn' = [conn EXCEPT ![n][c] = "connected"]
        /\ pending' = [pending EXCEPT ![n] = FALSE] /\ waiting' = [waiting EXCEPT ![n] = 0]
        /\ next' = next
    BY <1>5 DEF AttemptSucceeds, askVars
  <2>2. PICK k \in Nat : calls' = [calls EXCEPT ![n][c] = k]
    <3>1. PICK j \in 0..waiting[n] : calls' = [calls EXCEPT ![n][c] = j]
      BY <1>5 DEF AttemptSucceeds
    <3>2. j \in Nat
      BY <1>0, <3>1 DEF McpTypeOK
    <3> QED
      BY <3>1, <3>2, Zenon
  <2>3. c \in Ids /\ conn[n][c] = "none"
    BY <1>0, <2>1, BoundsAssumption DEF McpTypeOK, Ids, LifeInv, Life
  <2>4. \A d \in Ids : d > c <=> d > made[n] /\ d # c
    BY <1>0 DEF McpTypeOK, Ids
  <2> HIDE DEF c
  <2>5. \A m \in Servers : /\ made'[m] = IF m = n THEN c ELSE made[m]
                           /\ entry'[m] = IF m = n THEN c ELSE entry[m]
    BY <1>0, <2>1 DEF McpTypeOK
  <2>6. \A m \in Servers, d \in Ids :
          /\ conn'[m][d] = IF m = n /\ d = c THEN "connected" ELSE conn[m][d]
          /\ calls'[m][d] = IF m = n /\ d = c THEN k ELSE calls[m][d]
    BY <1>0, <2>1, <2>2, <2>3 DEF McpTypeOK
  <2>7. \A m \in Servers : waiting'[m] > 0 => pending'[m]
    BY <1>0, <2>1 DEF McpTypeOK, LifeInv, NoCallHangs
  <2>8. NoCallHangs'
    BY <2>6, <2>7 DEF LifeInv, NoCallHangs
  <2>9. ASSUME NEW m \in Servers PROVE Life(m)'
    <3>1. \A d \in Ids : conn'[m][d] = "none" <=> d > made'[m]
      BY <2>4, <2>5, <2>6 DEF LifeInv, Life
    <3>2. \A d \in Ids : next'[m][d] # "nothing" => conn'[m][d] \in {"closing", "closed"}
      BY <2>1, <2>3, <2>6 DEF LifeInv, Life
    <3>3. Connected(m)' => conn'[m][entry'[m]] = "connected"
      BY <2>5, <2>6 DEF LifeInv, Life, Connected
    <3> QED
      BY <3>1, <3>2, <3>3 DEF Life
  <2>10. ~\E m \in Servers : IdleCheck(m)
    <3>1. entry'[n] \in Ids /\ pending[n] /\ conn'[n][c] = "connected"
      BY <1>5, <2>3, <2>5, <2>6 DEF AttemptSucceeds
    <3>2. made'[n] # made[n]
      BY <1>0, <2>5 DEF McpTypeOK, c
    <3> QED
      BY <3>2 DEF IdleCheck
  <2> QED
    BY <2>1, <2>3, <2>6, <2>8, <2>9, <2>10 DEF LifeInv, LivesOnce, Succession
<1>6. ASSUME NEW n \in Servers, AttemptRefused(n) \/ AttemptFails(n)
      PROVE  LifeInv' /\ \A m \in Servers, d \in Ids : LivesOnce(m, d)
  <2>1. /\ pending' = [pending EXCEPT ![n] = FALSE] /\ waiting' = [waiting EXCEPT ![n] = 0]
        /\ entry' = entry \/ entry' = [entry EXCEPT ![n] = NeedsAuth]
        /\ UNCHANGED <<conn, made, next, calls>>
    BY <1>6 DEF AttemptRefused, AttemptFails, useVars, askVars
  <2>2. \A m \in Servers : waiting'[m] > 0 => pending'[m]
    BY <1>0, <2>1 DEF McpTypeOK, LifeInv, NoCallHangs
  <2>3. \A m \in Servers : Connected(m)' => entry'[m] = entry[m]
    BY <1>0, <2>1 DEF McpTypeOK, Connected, NeedsAuth, Ids
  <2> QED
    BY <1>2, <2>1, <2>2, <2>3
<1>7. ASSUME NEW n \in Servers, NEW c \in Ids, CallEnds(n, c) \/ CloseEnds(n, c)
      PROVE  LifeInv' /\ \A m \in Servers, d \in Ids : LivesOnce(m, d)
  <2>1. PICK left \in 0..calls[n][c] : /\ calls' = [calls EXCEPT ![n][c] = left]
                                       /\ CloseEnds(n, c) => left = 0
    <3>0. calls[n][c] \in Nat
      BY <1>0 DEF McpTypeOK
    <3>1. CASE CallEnds(n, c) /\ ~CloseEnds(n, c)
      <4>1. calls[n][c] - 1 \in 0..calls[n][c]
        BY <3>0, <3>1 DEF CallEnds
      <4>2. calls' = [calls EXCEPT ![n][c] = calls[n][c] - 1]
        BY <3>1 DEF CallEnds, CallsEnd
      <4> QED
        BY <3>1, <4>1, <4>2
    <3>2. CASE CloseEnds(n, c)
      <4>1. 0 \in 0..calls[n][c] /\ calls' = [calls EXCEPT ![n][c] = 0]
        BY <3>0, <3>2 DEF CloseEnds, CallsEnd
      <4> QED
        BY <4>1
    <3> QED
      BY <1>7, <3>1, <3>2
  <2>2. UNCHANGED <<entry, made, next, pending, waiting>>
    BY <1>7 DEF CallEnds, CloseEnds, askVars
  <2>3. \A m \in Servers, d \in Ids : calls'[m][d] = IF m = n /\ d = c THEN left ELSE calls[m][d]
    BY <1>0, <2>1 DEF McpTypeOK
  <2>4. \A m \in Servers, d \in Ids :
          \/ conn'[m][d] = conn[m][d]
          \/ m = n /\ d = c /\ conn[m][d] = "closing" /\ conn'[m][d] = "closed" /\ left = 0
    BY <1>0, <1>7, <2>1 DEF CallEnds, CloseEnds, McpTypeOK
  <2>5. NoCallHangs'
    <3> SUFFICES ASSUME NEW m \in Servers, NEW d \in Ids, calls'[m][d] > 0
                 PROVE  conn'[m][d] \in {"connected", "closing"}
      BY <2>2 DEF LifeInv, NoCallHangs
    <3>1. calls[m][d] > 0
      <4>1. calls[n][c] \in Nat
        BY <1>0 DEF McpTypeOK
      <4>2. CASE m = n /\ d = c
        BY <2>1, <2>3, <4>1, <4>2
      <4>3. CASE ~(m = n /\ d = c)
        BY <2>3, <4>3
      <4> QED
        BY <4>2, <4>3
    <3>2. conn'[m][d] = conn[m][d]
      BY <2>3, <2>4
    <3> QED
      BY <3>1, <3>2 DEF LifeInv, NoCallHangs
  <2>6. ASSUME NEW m \in Servers PROVE Life(m)'
    BY <2>2, <2>4 DEF LifeInv, Life, Connected
  <2>7. ~\E m \in Servers : IdleCheck(m)
    BY <1>0, <2>2 DEF IdleCheck, Close, Connected, McpTypeOK, None, Ids
  <2> QED
    BY <2>2, <2>4, <2>5, <2>6, <2>7 DEF LifeInv, LivesOnce, Succession
<1>8. ASSUME NEW n \in Servers, NEW c \in Ids, Reopen(n, c)
      PROVE  LifeInv' /\ \A m \in Servers, d \in Ids : LivesOnce(m, d)
  <2>1. PICK k \in Nat : Asks(n, k)
    BY <1>8 DEF Reopen
  <2>2. UNCHANGED <<entry, conn, made>> /\ next' = [next EXCEPT ![n][c] = "nothing"]
    BY <1>8 DEF Reopen
  <2>3. \A m \in Servers, d \in Ids : next'[m][d] = IF m = n /\ d = c THEN "nothing" ELSE next[m][d]
    BY <1>0, <2>2 DEF McpTypeOK
  <2> QED
    BY <1>0, <1>8, <2>1, <2>2, <2>3, AsksLife DEF LivesOnce
<1>9. ASSUME NEW n \in Servers, NEW what \in {"connect", "call"}, Connected(n), Close(n, what),
             made' = made, calls' = calls, \A m \in Servers : waiting'[m] > 0 => pending'[m]
      PROVE  LifeInv' /\ \A m \in Servers, d \in Ids : LivesOnce(m, d)
  <2>1. next'[n][entry[n]] = what
    BY <1>0, <1>9 DEF Close, Connected, McpTypeOK
  <2>2. \A m \in Servers, d \in Ids :
          \/ conn'[m][d] = conn[m][d] /\ next'[m][d] = next[m][d]
          \/ /\ m = n /\ d = entry[n]
             /\ conn[m][d] = "connected" /\ conn'[m][d] = "closing" /\ next[m][d] = "nothing"
    BY <1>9, CloseLife
  <2>3. ASSUME NEW m \in Servers, IdleCheck(m) PROVE FALSE
    <3>1. entry[m] \in Ids /\ entry'[m] = None /\ next'[m][entry[m]] = "nothing"
      BY <1>0, <2>3 DEF IdleCheck, Close, Connected, McpTypeOK
    <3>2. m = n
      BY <1>0, <1>9, <3>1 DEF Close, McpTypeOK, None, Ids
    <3> QED
      BY <2>1, <3>1, <3>2
  <2> QED
    BY <1>9, <2>2, <2>3, CloseLife DEF LivesOnce, Succession
<1>10. ASSUME NEW n \in Servers, Reconnect(n)
       PROVE  LifeInv' /\ \A m \in Servers, d \in Ids : LivesOnce(m, d)
  <2>1. CASE Connected(n)
    <3>1. Close(n, "connect") /\ UNCHANGED <<pending, waiting, calls, made>>
      BY <1>10, <2>1 DEF Reconnect, useVars
    <3>2. \A m \in Servers : waiting'[m] > 0 => pending'[m]
      BY <3>1 DEF LifeInv, NoCallHangs
    <3> QED
      BY <1>9, <2>1, <3>1, <3>2
  <2>2. CASE ~Connected(n)
    <3>1. entry' = [entry EXCEPT ![n] = None] /\ Asks(n, 0) /\ UNCHANGED <<conn, made, next>>
      BY <1>10, <2>2 DEF Reconnect
    <3> QED
      BY <1>1, <2>2, <3>1
  <2> QED
    BY <2>1, <2>2
<1>11. ASSUME NEW n \in Servers, AuthEnds(n)
       PROVE  LifeInv' /\ \A m \in Servers, d \in Ids : LivesOnce(m, d)
  <2>0. UNCHANGED <<made, calls>> /\ authing[n] \in Nat
    BY <1>0, <1>11 DEF AuthEnds, useVars, McpTypeOK
  <2>1. CASE UNCHANGED <<entry, conn, next, pending, waiting>>
    BY <1>2, <2>0, <2>1 DEF LifeInv, NoCallHangs
  <2>2. CASE /\ Connected(n) /\ \E what \in {"call", "connect"} : Close(n, what)
             /\ pending' = [pending EXCEPT ![n] = authing[n] > 1]
             /\ waiting' = [waiting EXCEPT ![n] = authing[n] - 1]
    <3>1. ASSUME NEW m \in Servers, waiting'[m] > 0 PROVE pending'[m]
      <4>1. CASE m = n
        <5>1. waiting'[n] = authing[n] - 1
          BY <1>0, <2>2 DEF McpTypeOK
        <5>2. authing[n] > 1
          BY <2>0, <3>1, <4>1, <5>1
        <5>3. pending'[n] = (authing[n] > 1)
          BY <1>0, <2>2 DEF McpTypeOK
        <5> QED
          BY <4>1, <5>2, <5>3
      <4>2. CASE m # n
        BY <1>0, <2>2, <3>1, <4>2 DEF McpTypeOK, LifeInv, NoCallHangs
      <4> QED
        BY <4>1, <4>2
    <3> QED
      BY <1>9, <2>0, <2>2, <3>1
  <2>3. CASE /\ ~Connected(n) /\ entry' = [entry EXCEPT ![n] = None]
             /\ pending' = [pending EXCEPT ![n] = TRUE]
             /\ waiting' = [waiting EXCEPT ![n] = @ + authing[n]]
             /\ UNCHANGED <<conn, next>>
    <3>1. \A m \in Servers : waiting'[m] > 0 => pending'[m]
      BY <1>0, <2>3 DEF McpTypeOK, LifeInv, NoCallHangs
    <3>2. \A m \in Servers : Connected(m)' => entry'[m] = entry[m]
      BY <1>0, <2>3 DEF McpTypeOK, Connected, None, Ids
    <3> QED
      BY <1>2, <2>0, <2>3, <3>1, <3>2
  <2> QED
    BY <1>11, <2>1, <2>2, <2>3 DEF AuthEnds
<1>12. ASSUME NEW n \in Servers, IdleCheck(n)
       PROVE  LifeInv' /\ \A m \in Servers, d \in Ids : LivesOnce(m, d)
  <2>1. /\ Connected(n) /\ inFlight[n] = 0 /\ Close(n, "nothing")
        /\ UNCHANGED <<pending, waiting, calls, made>>
    BY <1>12 DEF IdleCheck, useVars
  <2>2. \A m \in Servers : waiting'[m] > 0 => pending'[m]
    BY <2>1 DEF LifeInv, NoCallHangs
  <2>3. ~crossed[n] => calls[n][entry[n]] = 0
    BY <2>1 DEF McpInv, ServerInv, Counted
  <2>4. LifeInv' /\ \A m \in Servers, d \in Ids :
          \/ conn'[m][d] = conn[m][d] /\ next'[m][d] = next[m][d]
          \/ /\ m = n /\ d = entry[n]
             /\ conn[m][d] = "connected" /\ conn'[m][d] = "closing" /\ next[m][d] = "nothing"
    BY <2>1, <2>2, CloseLife
  <2> QED
    BY <2>3, <2>4 DEF LivesOnce, Succession
<1>13. ASSUME StartEnds \/ SessionEnds \/ LastCheckEnds
       PROVE  LifeInv' /\ \A m \in Servers, d \in Ids : LivesOnce(m, d)
  <2>1. CASE CloseAll
    <3>1. ASSUME NEW m \in Servers, IdleCheck(m) PROVE FALSE
      <4>1. phase' = phase /\ checking /\ checking'
        BY <3>1 DEF IdleCheck, sessionVars
      <4>2. ~StartEnds /\ ~SessionEnds /\ ~LastCheckEnds
        BY <4>1 DEF StartEnds, SessionEnds, LastCheckEnds
      <4> QED
        BY <1>13, <4>2
    <3> QED
      BY <2>1, <3>1, CloseAllLife DEF LivesOnce, Succession
  <2>2. CASE UNCHANGED <<entry, pending, made, conn, useVars, waiting, askVars>>
    BY <1>2, <2>2 DEF useVars, askVars, LifeInv, NoCallHangs
  <2> QED
    BY <1>13, <2>1, <2>2 DEF StartEnds, SessionEnds, LastCheckEnds
<1>14. ASSUME NEW n \in Servers, TimePasses(n)
       PROVE  LifeInv' /\ \A m \in Servers, d \in Ids : LivesOnce(m, d)
  BY <1>2, <1>14 DEF TimePasses, askVars, LifeInv, NoCallHangs
<1> QED
  BY <1>3, <1>4, <1>5, <1>6, <1>7, <1>8, <1>10, <1>11, <1>12, <1>13, <1>14 DEF Next, AttemptEnds

LEMMA LifeInvAlways == Spec => []LifeInv
<1>1. Init => LifeInv
  BY DEF Init, LifeInv, NoCallHangs, Life, Connected, None, Ids
<1>2. McpInv /\ LifeInv /\ [Next]_vars => LifeInv'
  <2>1. ASSUME LifeInv, UNCHANGED vars PROVE LifeInv'
    BY <2>1 DEF vars, useVars, askVars, LifeInv, NoCallHangs, Life, Connected
  <2> QED
    BY <2>1, LifeStep
<1> QED
  BY <1>1, <1>2, McpInvAlways, PTL DEF Spec

\* No call stays on a closed connection or waits for an attempt that is over.
THEOREM NoCallHangsEver == Spec => []NoCallHangs
<1>1. LifeInv => NoCallHangs
  BY DEF LifeInv
<1> QED
  BY <1>1, LifeInvAlways, PTL

\* Every connection lives once, whatever closes and reopens it.
THEOREM EachConnectionLivesOnce == Spec => ConnectionsLiveOnce
<1>1. McpInv /\ LifeInv /\ [Next]_vars => [\A n \in Servers, c \in Ids : LivesOnce(n, c)]_vars
  BY LifeStep
<1> QED
  BY <1>1, McpInvAlways, LifeInvAlways, PTL DEF Spec, ConnectionsLiveOnce
=============================================================================
