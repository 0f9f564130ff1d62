---------------------------- MODULE McpConnections ----------------------------
(***************************************************************************)
(* The connections of one session to its MCP servers: attempts that callers *)
(* share, connections that are closed while calls run on them, servers that *)
(* ask for authentication, health checks that reconnect or close, and the   *)
(* end of the session.  extensions/mcp-adapter: server-manager.ts,          *)
(* lifecycle.ts, init.ts, and their callers in index.ts, direct-tools.ts,   *)
(* proxy-modes.ts and commands.ts.                                          *)
(*                                                                          *)
(* One action is one turn of the event loop; what awaits a connection, an   *)
(* authentication or a close goes on in a later one.  Time is abstract: a   *)
(* connection becomes stale when nobody has touched it for its idle         *)
(* timeout.  Left out: tools, resources and their caches, the backoff after *)
(* a failed attempt (it only keeps a call from asking), the OAuth flow      *)
(* behind "the user authenticates", which its callers share.  A server      *)
(* process that dies is no step: nothing listens for it, its connection     *)
(* stays in the map with the status "connected", and only calls fail.       *)
(***************************************************************************)
EXTENDS Integers

CONSTANTS
  Servers,
  MaxConnections, \* bound of the model: connections ever made to a server
  MaxCalls        \* bound of the model: calls ever made to a server

ASSUME BoundsAssumption == MaxConnections \in Nat /\ MaxCalls \in Nat

Ids == 1..MaxConnections      \* the connections to a server, in their order
None == 0
NeedsAuth == -1

VARIABLES
  lifecycle,  \* of each server, as configured
  phase,      \* of the session: starting, ready, over; or over while it started
  checking,   \* a health check may be under way
  entry,      \* connections: what the map holds for a server
  pending,    \* connectPromises has the server
  made,       \* connections made
  conn,       \* what became of each connection
  calls,      \* calls in progress on each connection
  inFlight,   \* inFlight of the connection in the map
  stale,      \* the connection in the map was not touched for its idle timeout
  crossed,    \* a call on an earlier connection was taken from inFlight
  begun,      \* calls made
  waiting,    \* calls that wait for the attempt
  authing,    \* calls that wait for the user to authenticate
  next        \* what waits for a connection to be closed

sessionVars == <<lifecycle, phase, checking>>
useVars == <<calls, inFlight, stale, crossed>>
askVars == <<begun, authing, next>>
vars == <<sessionVars, entry, pending, made, conn, useVars, waiting, askVars>>

\* "expiring" are the servers not kept alive that have an idle timeout.
Lifecycles == {"keep-alive", "expiring", "unlimited"}
KeepAlive == {n \in Servers : lifecycle[n] = "keep-alive"}
Expiring == {n \in Servers : lifecycle[n] = "expiring"}
Phases == {"starting", "abandoned", "ready", "over"}
Conns == {"none", "connected", "closing", "closed"}

Connected(n) == entry[n] \in Ids

Init ==
  /\ lifecycle \in [Servers -> Lifecycles]
  /\ phase = "starting" /\ checking = FALSE
  /\ entry = [n \in Servers |-> None] /\ pending = [n \in Servers |-> FALSE]
  /\ made = [n \in Servers |-> 0]
  /\ conn = [n \in Servers |-> [c \in Ids |-> "none"]]
  /\ calls = [n \in Servers |-> [c \in Ids |-> 0]]
  /\ inFlight = [n \in Servers |-> 0]
  /\ stale = [n \in Servers |-> FALSE] /\ crossed = [n \in Servers |-> FALSE]
  /\ begun = [n \in Servers |-> 0] /\ waiting = [n \in Servers |-> 0]
  /\ authing = [n \in Servers |-> 0]
  /\ next = [n \in Servers |-> [c \in Ids |-> "nothing"]]

-----------------------------------------------------------------------------
(* Connecting *)

\* k calls, or with k = 0 nobody but the caller, ask for the connection: they
\* use the one in the map, or wait for the attempt, which is begun if there is
\* none.
Asks(n, k) ==
  IF Connected(n)
  THEN /\ calls' = [calls EXCEPT ![n][entry[n]] = @ + k]
       /\ inFlight' = [inFlight EXCEPT ![n] = @ + k]
       /\ stale' = [stale EXCEPT ![n] = FALSE]
       /\ UNCHANGED <<pending, waiting, crossed>>
  ELSE /\ pending' = [pending EXCEPT ![n] = TRUE]
       /\ waiting' = [waiting EXCEPT ![n] = @ + k]
       /\ UNCHANGED useVars

\* Servers connected at startup, before calls and checks.
StartupConnect(n) ==
  /\ phase \in {"starting", "abandoned"} /\ ~Connected(n)
  /\ Asks(n, 0)
  /\ UNCHANGED <<sessionVars, entry, made, conn, askVars>>

\* The mcp tool's "connect".  It may start an authentication as a call does.
ConnectTool(n) ==
  /\ phase = "ready" /\ ~Connected(n)
  /\ \/ Asks(n, 0) /\ UNCHANGED begun
     \/ begun[n] < MaxCalls /\ begun' = [begun EXCEPT ![n] = @ + 1] /\ Asks(n, 1)
  /\ UNCHANGED <<sessionVars, entry, made, conn, authing, next>>

\* A tool is called.  A call that began before the session ended may come here
\* after its end: it waited for the start, an authentication, another server.
CallTool(n) ==
  /\ phase \in {"ready", "over"} /\ begun[n] < MaxCalls
  /\ begun' = [begun EXCEPT ![n] = @ + 1]
  /\ IF entry[n] = NeedsAuth
     THEN authing' = [authing EXCEPT ![n] = @ + 1] /\ UNCHANGED <<pending, waiting, useVars>>
     ELSE Asks(n, 1) /\ UNCHANGED authing
  /\ UNCHANGED <<sessionVars, entry, made, conn, next>>

\* Mutant of AttemptSucceeds: the promise stays in connectPromises.
AttemptSucceedsKept(n) ==
  /\ pending[n] /\ made[n] < MaxConnections
  /\ LET c == made[n] + 1 IN
     /\ made' = [made EXCEPT ![n] = c]
     /\ entry' = [entry EXCEPT ![n] = c]
     /\ conn' = [conn EXCEPT ![n][c] = "connected"]
     /\ \E k \in 0..waiting[n] : /\ calls' = [calls EXCEPT ![n][c] = k]
                                 /\ inFlight' = [inFlight EXCEPT ![n] = k]
  /\ waiting' = [waiting EXCEPT ![n] = 0]
  /\ stale' = [stale EXCEPT ![n] = FALSE] /\ crossed' = [crossed EXCEPT ![n] = FALSE]
  /\ UNCHANGED <<sessionVars, pending, askVars>>

\* Mutant of AttemptSucceeds: the count of the last connection is carried on.
AttemptSucceedsCounting(n) ==
  /\ pending[n] /\ made[n] < MaxConnections
  /\ pending' = [pending EXCEPT ![n] = FALSE]
  /\ LET c == made[n] + 1 IN
     /\ made' = [made EXCEPT ![n] = c]
     /\ entry' = [entry EXCEPT ![n] = c]
     /\ conn' = [conn EXCEPT ![n][c] = "connected"]
     /\ \E k \in 0..waiting[n] : /\ calls' = [calls EXCEPT ![n][c] = k]
                                 /\ inFlight' = [inFlight EXCEPT ![n] = @ + k]
  /\ waiting' = [waiting EXCEPT ![n] = 0]
  /\ stale' = [stale EXCEPT ![n] = FALSE] /\ crossed' = [crossed EXCEPT ![n] = FALSE]
  /\ UNCHANGED <<sessionVars, askVars>>

\* The connection is put into the map, and those who waited go on: they make
\* their calls, unless they find that the server has no such tool.
AttemptSucceeds(n) ==
  /\ pending[n] /\ made[n] < MaxConnections
  /\ pending' = [pending EXCEPT ![n] = FALSE]
  /\ LET c == made[n] + 1 IN
     /\ made' = [made EXCEPT ![n] = c]
     /\ entry' = [entry EXCEPT ![n] = c]
     /\ conn' = [conn EXCEPT ![n][c] = "connected"]
     /\ \E k \in 0..waiting[n] : /\ calls' = [calls EXCEPT ![n][c] = k]
                                 /\ inFlight' = [inFlight EXCEPT ![n] = k]
  /\ waiting' = [waiting EXCEPT ![n] = 0]
  /\ stale' = [stale EXCEPT ![n] = FALSE] /\ crossed' = [crossed EXCEPT ![n] = FALSE]
  /\ UNCHANGED <<sessionVars, askVars>>

\* The server wants authentication; those who waited start it, or give up.
AttemptRefused(n) ==
  /\ pending[n]
  /\ pending' = [pending EXCEPT ![n] = FALSE]
  /\ entry' = [entry EXCEPT ![n] = NeedsAuth]
  /\ \E k \in 0..waiting[n] : authing' = [authing EXCEPT ![n] = @ + k]
  /\ waiting' = [waiting EXCEPT ![n] = 0]
  /\ UNCHANGED <<sessionVars, made, conn, useVars, begun, next>>

AttemptFails(n) ==
  /\ pending[n]
  /\ pending' = [pending EXCEPT ![n] = FALSE]
  /\ waiting' = [waiting EXCEPT ![n] = 0]
  /\ UNCHANGED <<sessionVars, entry, made, conn, useVars, askVars>>

-----------------------------------------------------------------------------
(* Closing *)

\* The connection leaves the map at once; what is to come next waits until its
\* client and transport are closed.
Close(n, what) ==
  /\ entry' = [entry EXCEPT ![n] = None]
  /\ conn' = [conn EXCEPT ![n][entry[n]] = "closing"]
  /\ next' = [next EXCEPT ![n][entry[n]] = what]

\* Calls on connection c end: each is taken from the count of the connection
\* that is in the map by now, and touches it.
CallsEnd(n, c, left) ==
  LET ended == calls[n][c] - left
      counted == IF ended < inFlight[n] THEN ended ELSE inFlight[n]
  IN /\ calls' = [calls EXCEPT ![n][c] = left]
     /\ IF Connected(n) /\ ended > 0
        THEN /\ inFlight' = [inFlight EXCEPT ![n] = @ - counted]
             /\ stale' = [stale EXCEPT ![n] = FALSE]
             /\ crossed' = [crossed EXCEPT ![n] = @ \/ (c # entry[n] /\ counted > 0)]
        ELSE UNCHANGED <<inFlight, stale, crossed>>

\* Mutant of CallEnds: a call that fails is not taken from the count.
CallEndsWell(n, c) ==
  /\ calls[n][c] > 0
  /\ \/ CallsEnd(n, c, calls[n][c] - 1)
     \/ /\ calls' = [calls EXCEPT ![n][c] = @ - 1]
        /\ UNCHANGED <<inFlight, stale, crossed>>
  /\ UNCHANGED <<sessionVars, entry, pending, made, conn, waiting, askVars>>

\* A call returns, fails or times out.
CallEnds(n, c) ==
  /\ calls[n][c] > 0
  /\ CallsEnd(n, c, calls[n][c] - 1)
  /\ UNCHANGED <<sessionVars, entry, pending, made, conn, waiting, askVars>>

\* Mutant of CloseEnds: the server is deleted from the map after the await.
CloseEndsDeleting(n, c) ==
  /\ conn[n][c] = "closing"
  /\ conn' = [conn EXCEPT ![n][c] = "closed"]
  /\ entry' = [entry EXCEPT ![n] = None]
  /\ CallsEnd(n, c, 0)
  /\ UNCHANGED <<sessionVars, pending, made, waiting, askVars>>

\* Client and transport are closed, which rejects the calls left on them.
CloseEnds(n, c) ==
  /\ conn[n][c] = "closing"
  /\ conn' = [conn EXCEPT ![n][c] = "closed"]
  /\ CallsEnd(n, c, 0)
  /\ UNCHANGED <<sessionVars, entry, pending, made, waiting, askVars>>

\* Who closed the connection in order to connect again goes on.
Reopen(n, c) ==
  /\ conn[n][c] = "closed" /\ next[n][c] # "nothing"
  /\ next' = [next EXCEPT ![n][c] = "nothing"]
  /\ Asks(n, IF next[n][c] = "call" THEN 1 ELSE 0)
  /\ UNCHANGED <<sessionVars, entry, made, conn, begun, authing>>

\* /mcp reconnect: close, then connect.
Reconnect(n) ==
  /\ phase = "ready"
  /\ IF Connected(n)
     THEN Close(n, "connect") /\ UNCHANGED <<pending, waiting, useVars>>
     ELSE /\ entry' = [entry EXCEPT ![n] = None]
          /\ Asks(n, 0)
          /\ UNCHANGED <<conn, next>>
  /\ UNCHANGED <<sessionVars, made, begun, authing>>

\* The authentication ends, for all calls that wait for it.  If it succeeded
\* the first of them closes what the map holds now, the others find nothing to
\* close; all connect and make their call, if it was a call that asked.
AuthEnds(n) ==
  /\ authing[n] > 0
  /\ authing' = [authing EXCEPT ![n] = 0]
  /\ \/ UNCHANGED <<entry, conn, next, pending, waiting>>
     \/ /\ Connected(n)
        /\ \E what \in {"call", "connect"} : Close(n, what)
        /\ pending' = [pending EXCEPT ![n] = authing[n] > 1]
        /\ waiting' = [waiting EXCEPT ![n] = authing[n] - 1]
     \/ /\ ~Connected(n)
        /\ entry' = [entry EXCEPT ![n] = None]
        /\ pending' = [pending EXCEPT ![n] = TRUE]
        /\ waiting' = [waiting EXCEPT ![n] = @ + authing[n]]
        /\ UNCHANGED <<conn, next>>
  /\ UNCHANGED <<sessionVars, made, useVars, begun>>

-----------------------------------------------------------------------------
(* Health checks and the session *)

TimePasses(n) ==
  /\ n \in Expiring /\ Connected(n) /\ ~stale[n]
  /\ stale' = [stale EXCEPT ![n] = TRUE]
  /\ UNCHANGED <<sessionVars, entry, pending, made, conn, calls, inFlight, crossed,
                 waiting, askVars>>

\* Mutant of KeepAliveCheck: only a server that is not in the map is connected.
KeepAliveCheckAbsent(n) ==
  /\ checking /\ n \in KeepAlive /\ entry[n] = None
  /\ Asks(n, 0)
  /\ UNCHANGED <<sessionVars, entry, made, conn, askVars>>

\* A check comes to a keep-alive server that is not connected.
KeepAliveCheck(n) ==
  /\ checking /\ n \in KeepAlive /\ ~Connected(n)
  /\ Asks(n, 0)
  /\ UNCHANGED <<sessionVars, entry, made, conn, askVars>>

\* A check comes to a server that is idle.
IdleCheck(n) ==
  /\ checking /\ n \in Expiring /\ Connected(n)
  /\ inFlight[n] = 0 /\ stale[n]
  /\ Close(n, "nothing")
  /\ UNCHANGED <<sessionVars, pending, made, useVars, waiting, begun, authing>>

\* gracefulShutdown: what is in the map is closed, attempts go on.
CloseAll ==
  /\ UNCHANGED lifecycle
  /\ entry' = [n \in Servers |-> None]
  /\ conn' = [n \in Servers |-> [c \in Ids |-> IF c = entry[n] THEN "closing" ELSE conn[n][c]]]
  /\ UNCHANGED <<pending, made, useVars, waiting, askVars>>

\* initializeMcp returns when its attempts have ended.
StartEnds ==
  /\ phase \in {"starting", "abandoned"} /\ \A n \in Servers : ~pending[n]
  /\ IF phase = "starting"
     THEN /\ phase' = "ready" /\ checking' = TRUE
          /\ UNCHANGED <<lifecycle, entry, pending, made, conn, useVars, waiting, askVars>>
     ELSE phase' = "over" /\ UNCHANGED checking /\ CloseAll

\* Another session starts or this one is shut down.  A session that is still
\* starting is shut down when it has started.  The last check may be under way.
SessionEnds ==
  \/ /\ phase = "starting" /\ phase' = "abandoned"
     /\ UNCHANGED <<lifecycle, checking, entry, pending, made, conn, useVars, waiting, askVars>>
  \/ /\ phase = "ready" /\ phase' = "over"
     /\ checking' \in BOOLEAN
     /\ CloseAll

LastCheckEnds ==
  /\ phase = "over" /\ checking
  /\ checking' = FALSE
  /\ UNCHANGED <<lifecycle, phase, entry, pending, made, conn, useVars, waiting, askVars>>

AttemptEnds(n) == AttemptSucceeds(n) \/ AttemptRefused(n) \/ AttemptFails(n)

Next ==
  \/ \E n \in Servers :
       \/ StartupConnect(n) \/ ConnectTool(n) \/ CallTool(n) \/ AttemptEnds(n)
       \/ Reconnect(n) \/ AuthEnds(n)
       \/ TimePasses(n) \/ KeepAliveCheck(n) \/ IdleCheck(n)
       \/ \E c \in Ids : CallEnds(n, c) \/ CloseEnds(n, c) \/ Reopen(n, c)
  \/ StartEnds \/ SessionEnds \/ LastCheckEnds

\* Checks come every 30 s, requests and closes have time limits.  A server that
\* is tried again and again can be reached at last: the strong fairness.
Fairness ==
  \A n \in Servers :
    /\ WF_vars(AttemptEnds(n)) /\ SF_vars(AttemptSucceeds(n))
    /\ WF_vars(TimePasses(n)) /\ WF_vars(KeepAliveCheck(n)) /\ WF_vars(IdleCheck(n))
    /\ \A c \in Ids : WF_vars(CallEnds(n, c))

Spec == Init /\ [][Next]_vars /\ Fairness

-----------------------------------------------------------------------------
(* Properties *)

McpTypeOK ==
  /\ lifecycle \in [Servers -> Lifecycles] /\ phase \in Phases /\ checking \in BOOLEAN
  /\ entry \in [Servers -> Ids \cup {None, NeedsAuth}]
  /\ pending \in [Servers -> BOOLEAN] /\ made \in [Servers -> 0..MaxConnections]
  /\ conn \in [Servers -> [Ids -> Conns]] /\ calls \in [Servers -> [Ids -> Nat]]
  /\ inFlight \in [Servers -> Nat]
  /\ stale \in [Servers -> BOOLEAN] /\ crossed \in [Servers -> BOOLEAN]
  /\ begun \in [Servers -> 0..MaxCalls]
  /\ waiting \in [Servers -> Nat] /\ authing \in [Servers -> Nat]
  /\ next \in [Servers -> [Ids -> {"nothing", "connect", "call"}]]

\* A server process that was started is in the map, where closing, checking
\* and shutting down find it: no order of closing and connecting loses one
\* (connect's set, and close's delete before its awaits).
NoOrphans ==
  \A n \in Servers, c \in Ids : conn[n][c] = "connected" => entry[n] = c

\* No second process of a server is started beside a connected one, although
\* calls, checks, /mcp reconnect and re-authentication all connect (the sharing
\* of attempts in connect).
OneAttempt == \A n \in Servers : pending[n] => ~Connected(n)

\* The calls in flight that an idle check reads are the calls on the connection
\* in the map; after a call on an earlier connection was taken from them they
\* are too few, and never too many: a call that is over keeps no server alive
\* (incrementInFlight, decrementInFlight, which name the server only).
CallsAreCounted ==
  \A n \in Servers : Connected(n) =>
    /\ inFlight[n] <= calls[n][entry[n]]
    /\ ~crossed[n] => inFlight[n] = calls[n][entry[n]]

\* A keep-alive server that is not in the map, or there as one that needs
\* authentication, is connected again (checkConnections).
KeepAliveReturns ==
  \A n \in Servers :
    n \in KeepAlive /\ phase = "ready" /\ ~Connected(n) ~>
      Connected(n) \/ phase # "ready" \/ made[n] = MaxConnections

\* A connection that has an idle timeout and is no longer used is closed
\* (isIdle, and the counts it reads).  The calls of the model are finitely many.
IdleServersClose ==
  \A n \in Servers, c \in Ids :
    n \in Expiring /\ phase = "ready" /\ entry[n] = c ~> entry[n] # c \/ phase # "ready"
=============================================================================
