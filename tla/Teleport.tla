------------------------------- MODULE Teleport -------------------------------
(***************************************************************************)
(* The overlay on remote terminal sessions: a tab for each session, that    *)
(* connects when it is first shown, reconnects with a growing delay when    *)
(* its socket drops, gives up when the budget of time is spent or the       *)
(* server says so, and keeps what is typed while it is not connected.       *)
(* extensions/teleport/pty/websocket-transport.ts,                          *)
(* pty/reconnect-supervisor.ts, overlay/tab-manager.ts and                  *)
(* overlay/overlay-component.ts.                                            *)
(*                                                                          *)
(* One action is one turn of the event loop: a key, a timer, a token that   *)
(* arrives, an event of a socket.  Left out: what the terminal shows and    *)
(* its size, closeTab and deleteTab (they have no caller), the credentials  *)
(* that the token requests of all tabs share (they only choose whether a    *)
(* token is at hand or asked for).                                          *)
(***************************************************************************)
EXTENDS Integers, Sequences

CONSTANTS
  Sessions,       \* the sessions of the workspace; each has one tab at most
  Initial,        \* the session the overlay is opened with
  MaxAttempts,    \* delays after which the retry budget is spent for certain
  MaxKeys         \* bound of the model: keys typed into a tab

ASSUME InitialAssumption == Initial \in Sessions
ASSUME AttemptsAssumption == MaxAttempts \in Nat \ {0} /\ MaxKeys \in Nat

VARIABLES
  disposed,       \* the overlay was left
  listing,        \* the list of the other sessions is on its way
  tabs, active,   \* the tabs of the overlay and the one that is shown
  transport,      \* the tabs that have a transport
  token,          \* requests for a token under way, for each tab
  ws,             \* the socket the transport holds
  orphans,        \* sockets that live although the transport holds another
  timer,          \* tabs whose backoff timer runs
  closed,         \* tabs whose transport is closed, its supervisor cancelled
  retrying, attempt,   \* of the supervisor of each tab
  status,         \* connectionStatus of each tab
  verdict,        \* fatalInfo: none, recoverable ("lost") or fatal
  typed, buffer, sent  \* keys typed; kept; handed to a socket

overlayVars == <<disposed, listing, tabs, active, transport>>
linkVars == <<token, ws, orphans>>
retryVars == <<timer, retrying, attempt>>
keyVars == <<typed, buffer, sent>>
vars == <<overlayVars, linkVars, retryVars, closed, status, verdict, keyVars>>

Sockets == {"none", "connecting", "open", "closing", "closed"}
Statuses == {"disconnected", "connecting", "open", "reconnecting", "fatal"}
Live == {"connecting", "open", "closing"}

Init ==
  /\ disposed = FALSE /\ listing = TRUE
  /\ tabs = {Initial} /\ active = Initial /\ transport = {Initial}
  /\ token = [t \in Sessions |-> IF t = Initial THEN 1 ELSE 0]
  /\ ws = [t \in Sessions |-> "none"] /\ orphans = [t \in Sessions |-> 0]
  /\ timer = {} /\ closed = {} /\ retrying = {}
  /\ attempt = [t \in Sessions |-> 0]
  /\ status = [t \in Sessions |-> IF t = Initial THEN "connecting" ELSE "disconnected"]
  /\ verdict = [t \in Sessions |-> "none"]
  /\ typed = [t \in Sessions |-> 0]
  /\ buffer = [t \in Sessions |-> <<>>] /\ sent = [t \in Sessions |-> <<>>]

-----------------------------------------------------------------------------
(* Connecting *)

\* connect: a token is asked for; the socket comes with it.
Connect(t) ==
  /\ closed' = closed \ {t}
  /\ status' = [status EXCEPT ![t] = "connecting"]
  /\ token' = [token EXCEPT ![t] = @ + 1]
  /\ UNCHANGED <<ws, orphans>>

\* A transport that was closed meanwhile opens no socket.
TokenArrives(t) ==
  /\ token[t] > 0
  /\ token' = [token EXCEPT ![t] = @ - 1]
  /\ IF t \in closed
     THEN UNCHANGED <<ws, orphans>>
     ELSE /\ ws' = [ws EXCEPT ![t] = "connecting"]
          /\ orphans' = [orphans EXCEPT ![t] = IF ws[t] \in Live THEN @ + 1 ELSE @]
  /\ UNCHANGED <<overlayVars, retryVars, closed, status, verdict, keyVars>>

\* Mutant of SocketOpens: what was typed meanwhile is not flushed.
SocketOpensUnflushed(t) ==
  /\ ws[t] = "connecting"
  /\ ws' = [ws EXCEPT ![t] = "open"]
  /\ retrying' = retrying \ {t} /\ attempt' = [attempt EXCEPT ![t] = 0] /\ timer' = timer \ {t}
  /\ status' = [status EXCEPT ![t] = "open"] /\ verdict' = [verdict EXCEPT ![t] = "none"]
  /\ UNCHANGED <<overlayVars, token, orphans, closed, keyVars>>

\* The budget of retries is whole again, and what was typed meanwhile is sent.
SocketOpens(t) ==
  /\ ws[t] = "connecting"
  /\ ws' = [ws EXCEPT ![t] = "open"]
  /\ retrying' = retrying \ {t} /\ attempt' = [attempt EXCEPT ![t] = 0] /\ timer' = timer \ {t}
  /\ status' = [status EXCEPT ![t] = "open"] /\ verdict' = [verdict EXCEPT ![t] = "none"]
  /\ sent' = [sent EXCEPT ![t] = @ \o buffer[t]] /\ buffer' = [buffer EXCEPT ![t] = <<>>]
  /\ UNCHANGED <<overlayVars, token, orphans, closed, typed>>

-----------------------------------------------------------------------------
(* Losing the connection *)

\* A close code that ends the session, or the end of the retries.
End(t, how) ==
  /\ retrying' = retrying \ {t}
  /\ status' = [status EXCEPT ![t] = "fatal"] /\ verdict' = [verdict EXCEPT ![t] = how]
  /\ UNCHANGED <<timer, attempt>>

\* The delay before the next attempt begins.
Wait(t) ==
  /\ retrying' = retrying \cup {t}
  /\ attempt' = [attempt EXCEPT ![t] = IF t \in retrying THEN @ + 1 ELSE 1]
  /\ timer' = timer \cup {t}
  /\ status' = [status EXCEPT ![t] = "reconnecting"]
  /\ UNCHANGED verdict

\* handleClose: the budget counts time from the first close, so it may be spent
\* after any delay, and is spent after the last one.
HandleClose(t, code) ==
  IF t \in closed THEN UNCHANGED <<retryVars, status, verdict>>
  ELSE IF code = "fatal" THEN End(t, "fatal")
  ELSE \/ t \in retrying /\ End(t, "lost")
       \/ (t \in retrying => attempt[t] < MaxAttempts) /\ Wait(t)

TokenFails(t) ==
  /\ token[t] > 0
  /\ token' = [token EXCEPT ![t] = @ - 1]
  /\ HandleClose(t, "transient")
  /\ UNCHANGED <<overlayVars, ws, orphans, closed, keyVars>>

\* The transport closes a socket that reports an error.
SocketFails(t) ==
  /\ ws[t] \in {"connecting", "open"}
  /\ ws' = [ws EXCEPT ![t] = "closing"]
  /\ UNCHANGED <<overlayVars, token, orphans, retryVars, closed, status, verdict, keyVars>>

\* The socket closes: by the server, by the network, after an error or at last.
SocketCloses(t, code) ==
  /\ ws[t] \in {"open", "closing"}
  /\ ws' = [ws EXCEPT ![t] = "closed"]
  /\ HandleClose(t, code)
  /\ UNCHANGED <<overlayVars, token, orphans, closed, keyVars>>

\* Mutant of TimerFires: each attempt has the whole budget.
TimerFiresAfresh(t) ==
  /\ t \in timer
  /\ timer' = timer \ {t}
  /\ retrying' = retrying \ {t}
  /\ Connect(t)
  /\ UNCHANGED <<overlayVars, attempt, verdict, keyVars>>

\* (A supervisor that is cancelled has cleared its timer.)
TimerFires(t) ==
  /\ t \in timer
  /\ timer' = timer \ {t}
  /\ Connect(t)
  /\ UNCHANGED <<overlayVars, retrying, attempt, verdict, keyVars>>

-----------------------------------------------------------------------------
(* The user *)

\* The other sessions get a tab, that does not connect.  (If the overlay was
\* left meanwhile addTab throws, in a promise nobody awaits.)
SessionsListed ==
  /\ listing /\ listing' = FALSE
  /\ IF disposed THEN UNCHANGED tabs ELSE \E s \in SUBSET Sessions : tabs' = tabs \cup s
  /\ UNCHANGED <<disposed, active, transport, linkVars, retryVars, closed, status, verdict,
                 keyVars>>

\* A tab gets its transport once.
EnsureConnected(t) ==
  /\ transport' = transport \cup {t}
  /\ IF t \in transport THEN UNCHANGED <<linkVars, closed, status>> ELSE Connect(t)

SwitchTo(t) ==
  /\ t \in tabs /\ t # active /\ ~disposed
  /\ active' = t
  /\ EnsureConnected(t)
  /\ UNCHANGED <<disposed, listing, tabs, retryVars, verdict, keyVars>>

\* A key for the session that is shown; the banner of a lost one takes no other
\* key than those of ManualRetry and Exit.
Type(t) ==
  /\ t = active /\ ~disposed /\ typed[t] < MaxKeys
  /\ LET key == typed[t] + 1 IN
     /\ typed' = [typed EXCEPT ![t] = key]
     /\ IF ws[t] = "open"
        THEN sent' = [sent EXCEPT ![t] = Append(@, key)] /\ UNCHANGED buffer
        ELSE buffer' = [buffer EXCEPT ![t] = Append(@, key)] /\ UNCHANGED sent
  /\ UNCHANGED <<overlayVars, linkVars, retryVars, closed, status, verdict>>

\* forceRetry: the timer is dropped, the budget is whole again.
ForceRetry(t) ==
  /\ retrying' = retrying \ {t} /\ attempt' = [attempt EXCEPT ![t] = 0] /\ timer' = timer \ {t}
  /\ Connect(t)

\* Mutant of ManualRetry: ctrl+r is taken from a tab that waits to reconnect too.
ManualRetryEarly(t) ==
  /\ t = active /\ ~disposed
  /\ status[t] \in {"reconnecting", "connecting"} \/ verdict[t] = "lost"
  /\ verdict' = [verdict EXCEPT ![t] = "none"]
  /\ ForceRetry(t)
  /\ UNCHANGED <<overlayVars, keyVars>>

\* ctrl+r, when the banner says that the connection is lost.
ManualRetry(t) ==
  /\ t = active /\ ~disposed
  /\ status[t] # "open" /\ verdict[t] = "lost"
  /\ verdict' = [verdict EXCEPT ![t] = "none"]
  /\ ForceRetry(t)
  /\ UNCHANGED <<overlayVars, keyVars>>

\* ctrl+d: every transport is closed.
Exit ==
  /\ ~disposed /\ disposed' = TRUE
  /\ tabs' = {}
  /\ closed' = closed \cup transport /\ timer' = timer \ transport
  /\ ws' = [t \in Sessions |->
              IF t \in transport /\ ws[t] \in {"connecting", "open"} THEN "closing" ELSE ws[t]]
  /\ UNCHANGED <<listing, active, transport, token, orphans, retrying, attempt, status, verdict,
                 keyVars>>

Next ==
  \/ \E t \in Sessions :
       \/ TokenArrives(t) \/ TokenFails(t) \/ TimerFires(t)
       \/ SocketOpens(t) \/ SocketFails(t)
       \/ \E code \in {"transient", "fatal"} : SocketCloses(t, code)
       \/ SwitchTo(t) \/ Type(t) \/ ManualRetry(t)
  \/ SessionsListed \/ Exit

\* Token requests and connection attempts end (a request has 30 s, a TCP connect
\* the limit of the system), timers fire, a socket that is closing closes.
Fairness ==
  \A t \in Sessions :
    /\ WF_vars(TokenArrives(t) \/ TokenFails(t))
    /\ WF_vars(ws[t] = "connecting" /\ (SocketOpens(t) \/ SocketFails(t)))
    /\ WF_vars(ws[t] = "closing" /\ \E code \in {"transient", "fatal"} : SocketCloses(t, code))
    /\ WF_vars(TimerFires(t))

Spec == Init /\ [][Next]_vars /\ Fairness

-----------------------------------------------------------------------------
(* Properties *)

TeleportTypeOK ==
  /\ disposed \in BOOLEAN /\ listing \in BOOLEAN
  /\ tabs \subseteq Sessions /\ active \in Sessions /\ transport \subseteq Sessions
  /\ token \in [Sessions -> Nat] /\ ws \in [Sessions -> Sockets]
  /\ orphans \in [Sessions -> Nat]
  /\ timer \subseteq Sessions /\ closed \subseteq Sessions /\ retrying \subseteq Sessions
  /\ attempt \in [Sessions -> Nat] /\ status \in [Sessions -> Statuses]
  /\ verdict \in [Sessions -> {"none", "lost", "fatal"}]
  /\ typed \in [Sessions -> Nat]
  /\ buffer \in [Sessions -> Seq(Nat)] /\ sent \in [Sessions -> Seq(Nat)]

Links(t) ==
  token[t] + orphans[t] + (IF ws[t] \in Live THEN 1 ELSE 0) + (IF t \in timer THEN 1 ELSE 0)

\* What a tab that was shown has under way.
Linked(t) ==
  IF disposed THEN t \notin timer /\ ws[t] \notin {"connecting", "open"} /\ orphans[t] = 0
  ELSE /\ Links(t) = IF status[t] = "fatal" THEN 0 ELSE 1
       /\ status[t] = "fatal" <=> verdict[t] # "none"

\* A tab that was shown has exactly one thing under way, a token request, a
\* socket or a timer, or else its verdict is shown: no retry, by hand or by
\* timer, opens a socket beside another, and no order of failures leaves a tab
\* that waits for nothing.  Once the overlay was left no timer runs and no
\* socket opens, not even for a token that comes later (forceRetry, cancel, and
\* _openSocket's look at _closed).
OneLink == \A t \in transport : Linked(t)

\* What was sent to the session and what is still kept is what was typed, in
\* its order, over any number of reconnects (write, _flushBuffer).
KeysInOrder ==
  \A t \in Sessions : sent[t] \o buffer[t] = [i \in 1..typed[t] |-> i]

\* A tab that connects or reconnects is connected in the end, or says that its
\* connection is lost or its session over (the budget of the supervisor).
LinkSettles ==
  \A t \in Sessions :
    status[t] \in {"connecting", "reconnecting"} ~> status[t] \in {"open", "fatal"} \/ disposed
=============================================================================
