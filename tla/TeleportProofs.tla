---------------------------- MODULE TeleportProofs ----------------------------
(***************************************************************************)
(* What the overlay keeps for any number of sessions, retries and keys.     *)
(* The argument counts what each tab has under way: as long as the overlay  *)
(* is open no transport is closed, so a token, a socket or a timer that     *)
(* ends is followed by another or by a verdict; once it was left, all its   *)
(* transports are closed, and what still arrives starts nothing.  A verdict *)
(* therefore stands: a tab that shows one has nothing under way.            *)
(***************************************************************************)
EXTENDS Teleport, TLAPS

\* A tab that was never shown has nothing under way.
Untouched(t) ==
  /\ token[t] = 0 /\ ws[t] = "none" /\ t \notin timer
  /\ status[t] = "disconnected" /\ verdict[t] = "none"

\* Leaving the overlay closes its transports, and nothing else closes one.
ClosedByExit == closed = IF disposed THEN transport ELSE {}

TabInv(t) ==
  /\ orphans[t] = 0
  /\ IF t \in transport THEN Linked(t) ELSE Untouched(t)

LinkInv ==
  /\ TeleportTypeOK
  /\ ClosedByExit
  /\ \A t \in Sessions : TabInv(t)

\* The socket that is open has been given all that was kept.
OpenIsFlushed == \A t \in Sessions : ws[t] = "open" => buffer[t] = <<>>

KeyInv == TeleportTypeOK /\ OpenIsFlushed /\ KeysInOrder

-----------------------------------------------------------------------------
\* The types hold at the start.
LEMMA InitTypeOK == Init => TeleportTypeOK
<1> SUFFICES ASSUME Init PROVE TeleportTypeOK
  OBVIOUS
<1>1. /\ token \in [Sessions -> Nat] /\ orphans \in [Sessions -> Nat]
      /\ attempt \in [Sessions -> Nat] /\ typed \in [Sessions -> Nat]
  BY DEF Init
<1>2. ws \in [Sessions -> Sockets] /\ status \in [Sessions -> Statuses]
  BY DEF Init, Sockets, Statuses
<1>3. buffer \in [Sessions -> Seq(Nat)] /\ sent \in [Sessions -> Seq(Nat)]
  BY DEF Init
<1> QED
  BY <1>1, <1>2, <1>3, InitialAssumption DEF Init, TeleportTypeOK

\* The invariant of the links holds at the start.
LEMMA InitLinkInv == Init => LinkInv
<1> SUFFICES ASSUME Init PROVE LinkInv
  OBVIOUS
<1>1. ASSUME NEW t \in Sessions PROVE TabInv(t)
  <2>1. CASE t = Initial
    BY <2>1 DEF Init, TabInv, Linked, Links, Live
  <2>2. CASE t # Initial
    BY <2>2 DEF Init, TabInv, Untouched
  <2> QED
    BY <2>1, <2>2
<1>2. ClosedByExit
  BY DEF Init, ClosedByExit
<1> QED
  BY <1>1, <1>2, InitTypeOK DEF LinkInv

\* The types of what handleClose changes.
LEMMA HandleCloseType ==
  ASSUME TeleportTypeOK, NEW t \in Sessions, NEW code, HandleClose(t, code)
  PROVE  /\ timer' \subseteq Sessions /\ retrying' \subseteq Sessions
         /\ attempt' \in [Sessions -> Nat] /\ status' \in [Sessions -> Statuses]
         /\ verdict' \in [Sessions -> {"none", "lost", "fatal"}]
<1>1. CASE UNCHANGED <<retryVars, status, verdict>>
  BY <1>1 DEF TeleportTypeOK, retryVars
<1>2. ASSUME NEW how \in {"lost", "fatal"}, End(t, how)
      PROVE  /\ timer' \subseteq Sessions /\ retrying' \subseteq Sessions
             /\ attempt' \in [Sessions -> Nat] /\ status' \in [Sessions -> Statuses]
             /\ verdict' \in [Sessions -> {"none", "lost", "fatal"}]
  <2>1. "fatal" \in Statuses
    BY DEF Statuses
  <2> QED
    BY <1>2, <2>1 DEF End, TeleportTypeOK
<1>3. CASE Wait(t)
  <2>1. "reconnecting" \in Statuses
    BY DEF Statuses
  <2>2. attempt' \in [Sessions -> Nat]
    <3>1. attempt \in [Sessions -> Nat]
      BY DEF TeleportTypeOK
    <3>2. attempt' = [attempt EXCEPT ![t] = IF t \in retrying THEN @ + 1 ELSE 1]
      BY <1>3 DEF Wait
    <3> QED
      BY <3>1, <3>2
  <2> QED
    BY <1>3, <2>1, <2>2 DEF Wait, TeleportTypeOK
<1> QED
  BY <1>1, <1>2, <1>3 DEF HandleClose

\* The types of what connect changes.
LEMMA ConnectType ==
  ASSUME TeleportTypeOK, NEW t \in Sessions, Connect(t)
  PROVE  /\ closed' \subseteq Sessions /\ token' \in [Sessions -> Nat]
         /\ status' \in [Sessions -> Statuses]
<1>1. "connecting" \in Statuses
  BY DEF Statuses
<1> QED
  BY <1>1 DEF Connect, TeleportTypeOK

\* Every step keeps the types.
LEMMA TypeStep == TeleportTypeOK /\ [Next]_vars => TeleportTypeOK'
<1> SUFFICES ASSUME TeleportTypeOK, [Next]_vars PROVE TeleportTypeOK'
  OBVIOUS
<1> USE DEF overlayVars, linkVars, retryVars, keyVars
<1>0. {"connecting", "open", "closing", "closed"} \subseteq Sockets /\ "open" \in Statuses
  BY DEF Sockets, Statuses
<1>1. ASSUME NEW t \in Sessions, TokenArrives(t) PROVE TeleportTypeOK'
  <2>1. token' \in [Sessions -> Nat]
    BY <1>1 DEF TokenArrives, TeleportTypeOK
  <2>2. ws' = ws \/ ws' = [ws EXCEPT ![t] = "connecting"]
    BY <1>1 DEF TokenArrives
  <2>3. ws' \in [Sessions -> Sockets]
    BY <1>0, <2>2 DEF TeleportTypeOK
  <2>4. orphans' \in [Sessions -> Nat]
    <3>1. orphans \in [Sessions -> Nat]
      BY DEF TeleportTypeOK
    <3>2. orphans' = orphans \/ orphans' = [orphans EXCEPT ![t] = IF ws[t] \in Live THEN @ + 1 ELSE @]
      BY <1>1 DEF TokenArrives
    <3> QED
      BY <3>1, <3>2
  <2> QED
    BY <1>1, <2>1, <2>3, <2>4 DEF TokenArrives, TeleportTypeOK
<1>2. ASSUME NEW t \in Sessions, TokenFails(t) PROVE TeleportTypeOK'
  <2>1. token' \in [Sessions -> Nat]
    BY <1>2 DEF TokenFails, TeleportTypeOK
  <2>2. HandleClose(t, "transient")
    BY <1>2 DEF TokenFails
  <2> QED
    BY <1>2, <2>1, <2>2, HandleCloseType DEF TokenFails, TeleportTypeOK
<1>3. ASSUME NEW t \in Sessions, TimerFires(t) PROVE TeleportTypeOK'
  <2>1. Connect(t)
    BY <1>3 DEF TimerFires
  <2> QED
    BY <1>3, <2>1, ConnectType DEF TimerFires, Connect, TeleportTypeOK
<1>4. ASSUME NEW t \in Sessions, SocketOpens(t) PROVE TeleportTypeOK'
  <2>1. sent[t] \o buffer[t] \in Seq(Nat) /\ <<>> \in Seq(Nat)
    BY DEF TeleportTypeOK
  <2>2. sent' \in [Sessions -> Seq(Nat)] /\ buffer' \in [Sessions -> Seq(Nat)]
    BY <1>4, <2>1 DEF SocketOpens, TeleportTypeOK
  <2>3. ws' \in [Sessions -> Sockets] /\ status' \in [Sessions -> Statuses]
    BY <1>0, <1>4 DEF SocketOpens, TeleportTypeOK
  <2>4. /\ attempt' \in [Sessions -> Nat] /\ retrying' \subseteq Sessions
        /\ timer' \subseteq Sessions /\ verdict' \in [Sessions -> {"none", "lost", "fatal"}]
    BY <1>4 DEF SocketOpens, TeleportTypeOK
  <2> QED
    BY <1>4, <2>2, <2>3, <2>4 DEF SocketOpens, TeleportTypeOK
<1>5. ASSUME NEW t \in Sessions, SocketFails(t) PROVE TeleportTypeOK'
  <2>1. ws' \in [Sessions -> Sockets]
    BY <1>0, <1>5 DEF SocketFails, TeleportTypeOK
  <2> QED
    BY <1>5, <2>1 DEF SocketFails, TeleportTypeOK
<1>6. ASSUME NEW t \in Sessions, NEW code, SocketCloses(t, code) PROVE TeleportTypeOK'
  <2>1. ws' \in [Sessions -> Sockets]
    BY <1>0, <1>6 DEF SocketCloses, TeleportTypeOK
  <2>2. HandleClose(t, code)
    BY <1>6 DEF SocketCloses
  <2> QED
    BY <1>6, <2>1, <2>2, HandleCloseType DEF SocketCloses, TeleportTypeOK
<1>7. ASSUME NEW t \in Sessions, SwitchTo(t) PROVE TeleportTypeOK'
  <2>1. UNCHANGED <<linkVars, closed, status>> \/ Connect(t)
    BY <1>7 DEF SwitchTo, EnsureConnected
  <2>2. /\ closed' \subseteq Sessions /\ token' \in [Sessions -> Nat]
        /\ status' \in [Sessions -> Statuses] /\ UNCHANGED <<ws, orphans>>
    BY <2>1, ConnectType DEF TeleportTypeOK, Connect
  <2> QED
    BY <1>7, <2>2 DEF SwitchTo, EnsureConnected, TeleportTypeOK
<1>8. ASSUME NEW t \in Sessions, Type(t) PROVE TeleportTypeOK'
  <2>1. /\ Append(sent[t], typed[t] + 1) \in Seq(Nat)
        /\ Append(buffer[t], typed[t] + 1) \in Seq(Nat)
    BY DEF TeleportTypeOK
  <2>2. typed' \in [Sessions -> Nat]
    BY <1>8 DEF Type, TeleportTypeOK
  <2>3. /\ sent' = sent \/ sent' = [sent EXCEPT ![t] = Append(@, typed[t] + 1)]
        /\ buffer' = buffer \/ buffer' = [buffer EXCEPT ![t] = Append(@, typed[t] + 1)]
    BY <1>8 DEF Type
  <2>4. sent' \in [Sessions -> Seq(Nat)] /\ buffer' \in [Sessions -> Seq(Nat)]
    BY <2>1, <2>3 DEF TeleportTypeOK
  <2> QED
    BY <1>8, <2>2, <2>4 DEF Type, TeleportTypeOK
<1>9. ASSUME NEW t \in Sessions, ManualRetry(t) PROVE TeleportTypeOK'
  <2>1. Connect(t)
    BY <1>9 DEF ManualRetry, ForceRetry
  <2>2. /\ attempt' \in [Sessions -> Nat] /\ retrying' \subseteq Sessions
        /\ timer' \subseteq Sessions /\ verdict' \in [Sessions -> {"none", "lost", "fatal"}]
    BY <1>9 DEF ManualRetry, ForceRetry, TeleportTypeOK
  <2> QED
    BY <1>9, <2>1, <2>2, ConnectType DEF ManualRetry, ForceRetry, Connect, TeleportTypeOK
<1>10. CASE SessionsListed
  BY <1>10 DEF SessionsListed, TeleportTypeOK
<1>11. CASE Exit
  <2>1. ws' \in [Sessions -> Sockets]
    BY <1>0, <1>11 DEF Exit, TeleportTypeOK
  <2> QED
    BY <1>11, <2>1 DEF Exit, TeleportTypeOK
<1>12. CASE UNCHANGED vars
  BY <1>12 DEF vars, TeleportTypeOK
<1> QED
  BY <1>1, <1>2, <1>3, <1>4, <1>5, <1>6, <1>7, <1>8, <1>9, <1>10, <1>11, <1>12 DEF Next

-----------------------------------------------------------------------------
\* A step that changes one tab has to be looked at there only.
Elsewhere(t) ==
  /\ UNCHANGED disposed
  /\ \A u \in Sessions \ {t} :
       /\ u \in transport' <=> u \in transport
       /\ u \in timer' <=> u \in timer
       /\ token'[u] = token[u] /\ ws'[u] = ws[u] /\ orphans'[u] = orphans[u]
       /\ status'[u] = status[u] /\ verdict'[u] = verdict[u]

\* A step of one tab that keeps its part keeps the invariant.
LEMMA StepOfOneTab ==
  ASSUME LinkInv, TeleportTypeOK', ClosedByExit', NEW t \in Sessions, Elsewhere(t), TabInv(t)'
  PROVE  LinkInv'
<1>1. ASSUME NEW u \in Sessions \ {t} PROVE TabInv(u)'
  BY <1>1 DEF LinkInv, Elsewhere, TabInv, Untouched, Linked, Links, Live
<1> QED
  BY <1>1 DEF LinkInv

\* What handleClose does to the tab, and to no other.
LEMMA HandleCloseEffect ==
  ASSUME TeleportTypeOK, NEW t \in Sessions, NEW code, HandleClose(t, code)
  PROVE  /\ \A u \in Sessions \ {t} :
              (u \in timer' <=> u \in timer) /\ status'[u] = status[u] /\ verdict'[u] = verdict[u]
         /\ t \in closed => timer' = timer /\ status'[t] = status[t] /\ verdict'[t] = verdict[t]
         /\ t \notin closed =>
              \/ status'[t] = "fatal" /\ verdict'[t] # "none" /\ timer' = timer
              \/ status'[t] = "reconnecting" /\ verdict'[t] = verdict[t] /\ t \in timer'
<1>1. CASE t \in closed
  BY <1>1 DEF HandleClose, retryVars
<1>2. ASSUME t \notin closed, NEW how \in {"lost", "fatal"}, End(t, how)
      PROVE  /\ status'[t] = "fatal" /\ verdict'[t] # "none" /\ timer' = timer
             /\ \A u \in Sessions \ {t} : status'[u] = status[u] /\ verdict'[u] = verdict[u]
  BY <1>2 DEF End, TeleportTypeOK
<1>3. ASSUME t \notin closed, Wait(t)
      PROVE  /\ status'[t] = "reconnecting" /\ verdict' = verdict /\ timer' = timer \cup {t}
             /\ \A u \in Sessions \ {t} : status'[u] = status[u]
  BY <1>3 DEF Wait, TeleportTypeOK
<1> QED
  BY <1>1, <1>2, <1>3 DEF HandleClose

\* Every step keeps the invariant of the links.
LEMMA LinkStep == LinkInv /\ [Next]_vars => LinkInv'
<1> SUFFICES ASSUME LinkInv, [Next]_vars PROVE LinkInv'
  OBVIOUS
<1>0. TeleportTypeOK /\ TeleportTypeOK'
  BY TypeStep DEF LinkInv
<1> USE DEF overlayVars, linkVars, retryVars, keyVars
<1>1. ASSUME NEW t \in Sessions, TokenArrives(t) PROVE LinkInv'
  <2>1. TabInv(t) /\ ClosedByExit
    BY DEF LinkInv
  <2>2. /\ UNCHANGED <<disposed, transport, closed, timer, status, verdict>>
        /\ token[t] > 0 /\ token'[t] = token[t] - 1
        /\ \A u \in Sessions \ {t} : token'[u] = token[u]
    BY <1>0, <1>1 DEF TokenArrives, TeleportTypeOK
  <2>3. /\ t \in closed => ws' = ws /\ orphans' = orphans
        /\ t \notin closed =>
             ws'[t] = "connecting" /\ (ws[t] \notin Live => orphans'[t] = orphans[t])
        /\ \A u \in Sessions \ {t} : ws'[u] = ws[u] /\ orphans'[u] = orphans[u]
    BY <1>0, <1>1 DEF TokenArrives, TeleportTypeOK
  <2>4. Elsewhere(t) /\ ClosedByExit'
    BY <2>1, <2>2, <2>3 DEF Elsewhere, ClosedByExit
  <2>5. token[t] \in Nat /\ orphans[t] = 0 /\ t \in transport
    BY <1>0, <2>1, <2>2 DEF TeleportTypeOK, TabInv, Untouched
  <2>6. ASSUME disposed PROVE TabInv(t)'
    BY <2>1, <2>2, <2>3, <2>5, <2>6 DEF TabInv, Linked, ClosedByExit
  <2>7. ASSUME ~disposed PROVE TabInv(t)'
    <3>1. token[t] = 1 /\ ws[t] \notin Live /\ t \notin timer /\ status[t] # "fatal"
      BY <2>1, <2>2, <2>5, <2>7 DEF TabInv, Linked, Links
    <3> QED
      BY <2>1, <2>2, <2>3, <2>5, <2>7, <3>1 DEF TabInv, Linked, Links, Live, ClosedByExit
  <2> QED
    BY <1>0, <2>4, <2>6, <2>7, StepOfOneTab
<1>2. ASSUME NEW t \in Sessions, TokenFails(t) PROVE LinkInv'
  <2>1. TabInv(t) /\ ClosedByExit /\ HandleClose(t, "transient")
    BY <1>2 DEF LinkInv, TokenFails
  <2>2. /\ UNCHANGED <<disposed, transport, closed, ws, orphans>>
        /\ token[t] > 0 /\ token'[t] = token[t] - 1
        /\ \A u \in Sessions \ {t} : token'[u] = token[u]
    BY <1>0, <1>2 DEF TokenFails, TeleportTypeOK
  <2>3. Elsewhere(t) /\ ClosedByExit'
    BY <1>0, <2>1, <2>2, HandleCloseEffect DEF Elsewhere, ClosedByExit
  <2>4. token[t] \in Nat /\ orphans[t] = 0 /\ t \in transport
    BY <1>0, <2>1, <2>2 DEF TeleportTypeOK, TabInv, Untouched
  <2>5. ASSUME disposed PROVE TabInv(t)'
    BY <1>0, <2>1, <2>2, <2>4, <2>5, HandleCloseEffect DEF TabInv, Linked, ClosedByExit
  <2>6. ASSUME ~disposed PROVE TabInv(t)'
    <3>1. token[t] = 1 /\ ws[t] \notin Live /\ t \notin timer /\ verdict[t] = "none" /\ t \notin closed
      BY <2>1, <2>2, <2>4, <2>6 DEF TabInv, Linked, Links, ClosedByExit
    <3> QED
      BY <1>0, <2>1, <2>2, <2>4, <2>6, <3>1, HandleCloseEffect DEF TabInv, Linked, Links
  <2> QED
    BY <1>0, <2>3, <2>5, <2>6, StepOfOneTab
<1>3. ASSUME NEW t \in Sessions, TimerFires(t) PROVE LinkInv'
  <2>1. TabInv(t) /\ ClosedByExit
    BY DEF LinkInv
  <2>2. /\ UNCHANGED <<disposed, transport, ws, orphans, verdict>>
        /\ t \in timer /\ timer' = timer \ {t} /\ closed' = closed \ {t}
        /\ token'[t] = token[t] + 1 /\ status'[t] = "connecting"
        /\ \A u \in Sessions \ {t} : token'[u] = token[u] /\ status'[u] = status[u]
    BY <1>0, <1>3 DEF TimerFires, Connect, TeleportTypeOK
  <2>3. token[t] \in Nat /\ orphans[t] = 0 /\ t \in transport /\ ~disposed
    BY <1>0, <2>1, <2>2 DEF TeleportTypeOK, TabInv, Untouched, Linked
  <2>4. token[t] = 0 /\ ws[t] \notin Live /\ verdict[t] = "none"
    BY <2>1, <2>2, <2>3 DEF TabInv, Linked, Links
  <2>5. TabInv(t)'
    BY <2>1, <2>2, <2>3, <2>4 DEF TabInv, Linked, Links
  <2>6. Elsewhere(t) /\ ClosedByExit'
    BY <2>1, <2>2, <2>3 DEF Elsewhere, ClosedByExit
  <2> QED
    BY <1>0, <2>5, <2>6, StepOfOneTab
<1>4. ASSUME NEW t \in Sessions, SocketOpens(t) PROVE LinkInv'
  <2>1. TabInv(t) /\ ClosedByExit
    BY DEF LinkInv
  <2>2. Elsewhere(t) /\ ClosedByExit'
    BY <1>0, <1>4, <2>1 DEF SocketOpens, TeleportTypeOK, Elsewhere, ClosedByExit
  <2>3. TabInv(t)'
    BY <1>0, <1>4, <2>1 DEF SocketOpens, TeleportTypeOK, ClosedByExit, TabInv, Untouched,
       Linked, Links, Live, Sockets, Statuses
  <2> QED
    BY <1>0, <2>2, <2>3, StepOfOneTab
<1>5. ASSUME NEW t \in Sessions, SocketFails(t) PROVE LinkInv'
  <2>1. TabInv(t) /\ ClosedByExit
    BY DEF LinkInv
  <2>2. Elsewhere(t) /\ ClosedByExit'
    BY <1>0, <1>5, <2>1 DEF SocketFails, TeleportTypeOK, Elsewhere, ClosedByExit
  <2>3. TabInv(t)'
    BY <1>0, <1>5, <2>1 DEF SocketFails, TeleportTypeOK, ClosedByExit, TabInv, Untouched,
       Linked, Links, Live, Sockets, Statuses
  <2> QED
    BY <1>0, <2>2, <2>3, StepOfOneTab
<1>6. ASSUME NEW t \in Sessions, NEW code, SocketCloses(t, code) PROVE LinkInv'
  <2>1. TabInv(t) /\ ClosedByExit /\ HandleClose(t, code)
    BY <1>6 DEF LinkInv, SocketCloses
  <2>2. /\ UNCHANGED <<disposed, transport, closed, token, orphans>>
        /\ ws[t] \in {"open", "closing"} /\ ws'[t] = "closed"
        /\ \A u \in Sessions \ {t} : ws'[u] = ws[u]
    BY <1>0, <1>6 DEF SocketCloses, TeleportTypeOK
  <2>3. Elsewhere(t) /\ ClosedByExit'
    BY <1>0, <2>1, <2>2, HandleCloseEffect DEF Elsewhere, ClosedByExit
  <2>4. token[t] \in Nat /\ orphans[t] = 0 /\ t \in transport
    BY <1>0, <2>1, <2>2 DEF TeleportTypeOK, TabInv, Untouched
  <2>5. ASSUME disposed PROVE TabInv(t)'
    BY <1>0, <2>1, <2>2, <2>4, <2>5, HandleCloseEffect DEF TabInv, Linked, ClosedByExit
  <2>6. ASSUME ~disposed PROVE TabInv(t)'
    <3>1. token[t] = 0 /\ t \notin timer /\ verdict[t] = "none" /\ t \notin closed
      BY <2>1, <2>2, <2>4, <2>6 DEF TabInv, Linked, Links, Live, ClosedByExit
    <3> QED
      BY <1>0, <2>1, <2>2, <2>4, <2>6, <3>1, HandleCloseEffect DEF TabInv, Linked, Links, Live
  <2> QED
    BY <1>0, <2>3, <2>5, <2>6, StepOfOneTab
<1>7. ASSUME NEW t \in Sessions, SwitchTo(t) PROVE LinkInv'
  <2>1. TabInv(t) /\ ClosedByExit
    BY DEF LinkInv
  <2>2. Elsewhere(t) /\ ClosedByExit'
    BY <1>0, <1>7, <2>1 DEF SwitchTo, EnsureConnected, Connect, TeleportTypeOK, Elsewhere, ClosedByExit
  <2>3. TabInv(t)'
    BY <1>0, <1>7, <2>1 DEF SwitchTo, EnsureConnected, Connect, TeleportTypeOK, ClosedByExit, TabInv, Untouched,
       Linked, Links, Live, Sockets, Statuses
  <2> QED
    BY <1>0, <2>2, <2>3, StepOfOneTab
<1>8. ASSUME NEW t \in Sessions, Type(t) PROVE LinkInv'
  <2>1. TabInv(t) /\ ClosedByExit
    BY DEF LinkInv
  <2>2. Elsewhere(t) /\ ClosedByExit'
    BY <1>0, <1>8, <2>1 DEF Type, TeleportTypeOK, Elsewhere, ClosedByExit
  <2>3. TabInv(t)'
    BY <1>0, <1>8, <2>1 DEF Type, TeleportTypeOK, ClosedByExit, TabInv, Untouched,
       Linked, Links, Live, Sockets, Statuses
  <2> QED
    BY <1>0, <2>2, <2>3, StepOfOneTab
<1>9. ASSUME NEW t \in Sessions, ManualRetry(t) PROVE LinkInv'
  <2>1. TabInv(t) /\ ClosedByExit
    BY DEF LinkInv
  <2>2. Elsewhere(t) /\ ClosedByExit'
    BY <1>0, <1>9, <2>1 DEF ManualRetry, ForceRetry, Connect, TeleportTypeOK, Elsewhere, ClosedByExit
  <2>3. TabInv(t)'
    BY <1>0, <1>9, <2>1 DEF ManualRetry, ForceRetry, Connect, TeleportTypeOK, ClosedByExit, TabInv, Untouched,
       Linked, Links, Live, Sockets, Statuses
  <2> QED
    BY <1>0, <2>2, <2>3, StepOfOneTab
<1>10. CASE SessionsListed
  BY <1>0, <1>10 DEF SessionsListed, LinkInv, ClosedByExit, TabInv, Untouched, Linked, Links, Live
<1>11. CASE Exit
  <2>1. ClosedByExit'
    BY <1>11 DEF Exit, LinkInv, ClosedByExit
  <2>2. ASSUME NEW t \in Sessions PROVE TabInv(t)'
    BY <1>0, <1>11, <2>2 DEF Exit, LinkInv, TeleportTypeOK, TabInv, Untouched, Linked, Links, Live
  <2> QED
    BY <1>0, <2>1, <2>2 DEF LinkInv
<1>12. CASE UNCHANGED vars
  BY <1>0, <1>12 DEF vars, LinkInv, ClosedByExit, TabInv, Untouched, Linked, Links, Live
<1> QED
  BY <1>1, <1>2, <1>3, <1>4, <1>5, <1>6, <1>7, <1>8, <1>9, <1>10, <1>11, <1>12 DEF Next

\* It is an invariant.
LEMMA LinkAlways == Spec => []LinkInv
BY InitLinkInv, LinkStep, PTL DEF Spec

\* Tokens, sockets, timers, statuses and keys are of their types, for any
\* number of sessions and retries.
THEOREM TeleportTypeCorrect == Spec => []TeleportTypeOK
<1>1. LinkInv => TeleportTypeOK
  BY DEF LinkInv
<1> QED
  BY LinkAlways, <1>1, PTL

\* No tab ever has two sockets, or is left with nothing under way and no
\* verdict, and after the overlay was left nothing opens again.
THEOREM OneLinkAlways == Spec => []OneLink
<1>1. LinkInv => OneLink
  BY DEF LinkInv, TabInv, OneLink, TeleportTypeOK
<1> QED
  BY LinkAlways, <1>1, PTL

-----------------------------------------------------------------------------
\* The invariant of the keys holds at the start.
LEMMA InitKeyInv == Init => KeyInv
<1> SUFFICES ASSUME Init PROVE KeyInv
  OBVIOUS
<1>1. TeleportTypeOK
  BY InitTypeOK
<1>2. OpenIsFlushed
  BY DEF Init, OpenIsFlushed
<1>3. ASSUME NEW t \in Sessions PROVE sent[t] \o buffer[t] = [i \in 1..typed[t] |-> i]
  <2>1. sent[t] = <<>> /\ buffer[t] = <<>> /\ typed[t] = 0
    BY DEF Init
  <2> QED
    BY <2>1
<1> QED
  BY <1>1, <1>2, <1>3 DEF KeyInv, KeysInOrder

\* Where a key is appended does not matter.
LEMMA AppendAfter ==
  ASSUME NEW s \in Seq(Nat), NEW b \in Seq(Nat), NEW k \in Nat
  PROVE  /\ s \o Append(b, k) = Append(s \o b, k)
         /\ Append(s, k) \o <<>> = Append(s \o <<>>, k)
OBVIOUS

\* Every step keeps the invariant of the keys.
LEMMA KeyStep == KeyInv /\ [Next]_vars => KeyInv'
<1> SUFFICES ASSUME KeyInv, [Next]_vars PROVE KeyInv'
  OBVIOUS
<1>0. TeleportTypeOK /\ TeleportTypeOK'
  BY TypeStep DEF KeyInv
<1> USE DEF KeyInv, OpenIsFlushed, overlayVars, linkVars, retryVars, keyVars
<1>1. ASSUME UNCHANGED keyVars, \A t \in Sessions : ws'[t] = "open" => ws[t] = "open"
      PROVE  KeyInv'
  BY <1>0, <1>1 DEF KeysInOrder
<1>2. ASSUME NEW t \in Sessions, TokenArrives(t) PROVE KeyInv'
  BY <1>0, <1>1, <1>2 DEF TokenArrives, TeleportTypeOK
<1>3. ASSUME NEW t \in Sessions, TokenFails(t) \/ TimerFires(t) \/ SwitchTo(t) \/ ManualRetry(t)
      PROVE  KeyInv'
  <2>1. UNCHANGED <<keyVars, ws>>
    BY <1>3 DEF TokenFails, TimerFires, SwitchTo, EnsureConnected, ManualRetry, ForceRetry, Connect
  <2> QED
    BY <1>1, <2>1
<1>4. ASSUME NEW t \in Sessions, SocketOpens(t) PROVE KeyInv'
  <2>1. sent'[t] = sent[t] \o buffer[t] /\ buffer'[t] = <<>>
    BY <1>0, <1>4 DEF SocketOpens, TeleportTypeOK
  <2>2. sent'[t] \o buffer'[t] = sent[t] \o buffer[t]
    <3>1. sent[t] \o buffer[t] \in Seq(Nat)
      BY <1>0 DEF TeleportTypeOK
    <3> QED
      BY <2>1, <3>1
  <2>3. UNCHANGED typed /\ \A u \in Sessions \ {t} : sent'[u] = sent[u] /\ buffer'[u] = buffer[u]
    BY <1>0, <1>4 DEF SocketOpens, TeleportTypeOK
  <2>4. KeysInOrder'
    BY <2>2, <2>3 DEF KeysInOrder
  <2>5. OpenIsFlushed'
    BY <1>0, <1>4, <2>1, <2>3 DEF SocketOpens, TeleportTypeOK
  <2> QED
    BY <1>0, <2>4, <2>5
<1>5. ASSUME NEW t \in Sessions, SocketFails(t) PROVE KeyInv'
  BY <1>0, <1>1, <1>5 DEF SocketFails, TeleportTypeOK
<1>6. ASSUME NEW t \in Sessions, NEW code, SocketCloses(t, code) PROVE KeyInv'
  BY <1>0, <1>1, <1>6 DEF SocketCloses, TeleportTypeOK
<1>7. ASSUME NEW t \in Sessions, Type(t) PROVE KeyInv'
  <2> DEFINE key == typed[t] + 1
  <2>1. /\ typed[t] \in Nat /\ sent[t] \in Seq(Nat) /\ buffer[t] \in Seq(Nat) /\ key \in Nat
        /\ typed'[t] = key /\ UNCHANGED ws
    BY <1>0, <1>7 DEF Type, TeleportTypeOK, linkVars
  <2>2. sent[t] \o buffer[t] = [i \in 1..typed[t] |-> i]
    BY DEF KeysInOrder
  <2>3. Append(sent[t] \o buffer[t], key) = [i \in 1..key |-> i]
    BY <2>1, <2>2
  <2>4. sent'[t] \o buffer'[t] = Append(sent[t] \o buffer[t], key)
    <3>1. CASE ws[t] = "open"
      <4>1. buffer[t] = <<>> /\ sent'[t] = Append(sent[t], key) /\ buffer'[t] = <<>>
        BY <1>0, <1>7, <3>1 DEF Type, TeleportTypeOK
      <4> QED
        BY <2>1, <4>1
    <3>2. CASE ws[t] # "open"
      <4>1. sent'[t] = sent[t] /\ buffer'[t] = Append(buffer[t], key)
        BY <1>0, <1>7, <3>2 DEF Type, TeleportTypeOK
      <4>2. sent[t] \o Append(buffer[t], key) = Append(sent[t] \o buffer[t], key)
        BY <2>1, AppendAfter
      <4> QED
        BY <4>1, <4>2
    <3> QED
      BY <3>1, <3>2
  <2>5. \A u \in Sessions \ {t} :
          sent'[u] = sent[u] /\ buffer'[u] = buffer[u] /\ typed'[u] = typed[u]
    <3> HIDE DEF KeyInv, OpenIsFlushed
    <3>1. /\ sent \in [Sessions -> Seq(Nat)] /\ buffer \in [Sessions -> Seq(Nat)]
          /\ typed \in [Sessions -> Nat]
      BY <1>0 DEF TeleportTypeOK
    <3>2. typed' = [typed EXCEPT ![t] = key]
      BY <1>7 DEF Type
    <3>3. \/ sent' = [sent EXCEPT ![t] = Append(@, key)] /\ buffer' = buffer
          \/ buffer' = [buffer EXCEPT ![t] = Append(@, key)] /\ sent' = sent
      BY <1>7 DEF Type
    <3> HIDE DEF key
    <3> QED
      BY <3>1, <3>2, <3>3, Zenon
  <2>6. KeysInOrder'
    BY <2>1, <2>3, <2>4, <2>5 DEF KeysInOrder
  <2>7. OpenIsFlushed'
    <3>1. ws[t] = "open" => UNCHANGED buffer
      BY <1>7 DEF Type
    <3> QED
      BY <2>1, <2>5, <3>1
  <2> QED
    BY <1>0, <2>6, <2>7
<1>8. CASE SessionsListed
  BY <1>1, <1>8 DEF SessionsListed
<1>9. CASE Exit
  BY <1>0, <1>1, <1>9 DEF Exit, TeleportTypeOK
<1>10. CASE UNCHANGED vars
  BY <1>1, <1>10 DEF vars
<1> QED
  BY <1>2, <1>3, <1>4, <1>5, <1>6, <1>7, <1>8, <1>9, <1>10 DEF Next

\* What is typed reaches the session once and in order, or is kept for the next
\* socket, over any number of reconnects.
THEOREM KeysStayInOrder == Spec => []KeysInOrder
<1>1. KeyInv => KeysInOrder
  BY DEF KeyInv
<1> QED
  BY InitKeyInv, KeyStep, <1>1, PTL DEF Spec

-----------------------------------------------------------------------------
(* The retries and the verdict                                              *)

\* A tab that has a verdict keeps it and opens nothing, until the user retries
\* a connection that was lost; a session that the server ended is never
\* connected again (forceRetry, and the banner's ctrl+r).
Stands(t) ==
  verdict[t] # "none" =>
    \/ /\ verdict'[t] = verdict[t]
       /\ token'[t] <= token[t] /\ ws'[t] \notin {"connecting", "open"}
       /\ t \notin timer'
    \/ verdict[t] = "lost" /\ ManualRetry(t)

VerdictStands == [][\A t \in Sessions : Stands(t)]_vars

\* A timer belongs to a retry, and a retry has made no more attempts than the
\* budget has delays.
WithinBudget ==
  \A t \in Sessions :
    /\ attempt[t] <= MaxAttempts
    /\ t \in timer => t \in retrying
    /\ t \in retrying => attempt[t] > 0

\* A tab that has a verdict has nothing under way that could change it.
LEMMA NothingToCome ==
  ASSUME LinkInv, NEW t \in Sessions, verdict[t] # "none"
  PROVE  /\ t \in transport /\ t \notin timer /\ ws[t] \notin {"connecting", "open"}
         /\ ~disposed => token[t] = 0 /\ ws[t] \notin Live
         /\ disposed => t \in closed
<1>1. t \in transport /\ Linked(t) /\ orphans[t] = 0 /\ ClosedByExit /\ token[t] \in Nat
  BY DEF LinkInv, TabInv, Untouched, TeleportTypeOK
<1>2. CASE disposed
  BY <1>1, <1>2 DEF Linked, ClosedByExit
<1>3. CASE ~disposed
  BY <1>1, <1>3 DEF Linked, Links, Live
<1> QED
  BY <1>1, <1>2, <1>3

\* No step but a retry by hand changes the verdict of a tab or opens anything.
LEMMA VerdictStep ==
  ASSUME LinkInv, [Next]_vars, NEW t \in Sessions
  PROVE  Stands(t)
<1> SUFFICES ASSUME verdict[t] # "none" PROVE Stands(t)
  BY DEF Stands
<1>0. TeleportTypeOK /\ token[t] \in Nat
  BY DEF LinkInv, TeleportTypeOK
<1>1. /\ t \in transport /\ t \notin timer /\ ws[t] \notin {"connecting", "open"}
      /\ ~disposed => token[t] = 0 /\ ws[t] \notin Live
      /\ disposed => t \in closed
  BY NothingToCome
<1>2. ASSUME verdict'[t] = verdict[t], token'[t] = token[t], ws'[t] = ws[t],
             t \in timer' => t \in timer
      PROVE  Stands(t)
  BY <1>0, <1>1, <1>2 DEF Stands
<1> USE DEF overlayVars, linkVars, retryVars, keyVars
<1>3. ASSUME NEW u \in Sessions, TokenArrives(u) PROVE Stands(t)
  <2>1. CASE u # t
    BY <1>0, <1>2, <1>3, <2>1 DEF TokenArrives, TeleportTypeOK
  <2>2. CASE u = t
    <3>1. token[t] > 0 /\ token'[t] = token[t] - 1 /\ disposed
      BY <1>0, <1>1, <1>3, <2>2 DEF TokenArrives, TeleportTypeOK
    <3> QED
      BY <1>0, <1>1, <1>3, <2>2, <3>1 DEF TokenArrives, Stands
  <2> QED
    BY <2>1, <2>2
<1>4. ASSUME NEW u \in Sessions, TokenFails(u) PROVE Stands(t)
  <2>1. HandleClose(u, "transient") /\ UNCHANGED ws
    BY <1>4 DEF TokenFails
  <2>2. CASE u # t
    BY <1>0, <1>2, <1>4, <2>1, <2>2, HandleCloseEffect DEF TokenFails, TeleportTypeOK
  <2>3. CASE u = t
    <3>1. token[t] > 0 /\ token'[t] = token[t] - 1 /\ disposed
      BY <1>0, <1>1, <1>4, <2>3 DEF TokenFails, TeleportTypeOK
    <3> QED
      BY <1>0, <1>1, <2>1, <2>3, <3>1, HandleCloseEffect DEF Stands
  <2> QED
    BY <2>2, <2>3
<1>5. ASSUME NEW u \in Sessions, TimerFires(u) PROVE Stands(t)
  <2>1. u # t
    BY <1>1, <1>5 DEF TimerFires
  <2> QED
    BY <1>0, <1>2, <1>5, <2>1 DEF TimerFires, Connect, TeleportTypeOK
<1>6. ASSUME NEW u \in Sessions, SocketOpens(u) PROVE Stands(t)
  <2>1. u # t
    BY <1>1, <1>6 DEF SocketOpens
  <2> QED
    BY <1>0, <1>2, <1>6, <2>1 DEF SocketOpens, TeleportTypeOK
<1>7. ASSUME NEW u \in Sessions, SocketFails(u) PROVE Stands(t)
  <2>1. u # t
    BY <1>1, <1>7 DEF SocketFails
  <2> QED
    BY <1>0, <1>2, <1>7, <2>1 DEF SocketFails, TeleportTypeOK
<1>8. ASSUME NEW u \in Sessions, NEW code, SocketCloses(u, code) PROVE Stands(t)
  <2>1. HandleClose(u, code) /\ UNCHANGED token
    BY <1>8 DEF SocketCloses
  <2>2. CASE u # t
    BY <1>0, <1>2, <1>8, <2>1, <2>2, HandleCloseEffect DEF SocketCloses, TeleportTypeOK
  <2>3. CASE u = t
    <3>1. ws[t] = "closing" /\ ws'[t] = "closed" /\ disposed
      BY <1>0, <1>1, <1>8, <2>3 DEF SocketCloses, TeleportTypeOK, Live
    <3> QED
      BY <1>0, <1>1, <2>1, <2>3, <3>1, HandleCloseEffect DEF Stands
  <2> QED
    BY <2>2, <2>3
<1>9. ASSUME NEW u \in Sessions, SwitchTo(u) PROVE Stands(t)
  <2>1. CASE u # t
    BY <1>0, <1>2, <1>9, <2>1 DEF SwitchTo, EnsureConnected, Connect, TeleportTypeOK
  <2>2. CASE u = t
    BY <1>1, <1>2, <1>9, <2>2 DEF SwitchTo, EnsureConnected
  <2> QED
    BY <2>1, <2>2
<1>10. ASSUME NEW u \in Sessions, ManualRetry(u) PROVE Stands(t)
  <2>1. CASE u # t
    BY <1>0, <1>2, <1>10, <2>1 DEF ManualRetry, ForceRetry, Connect, TeleportTypeOK
  <2>2. CASE u = t
    <3>1. verdict[t] = "lost"
      BY <1>10, <2>2 DEF ManualRetry
    <3> QED
      BY <1>10, <2>2, <3>1 DEF Stands
  <2> QED
    BY <2>1, <2>2
<1>11. CASE Exit
  BY <1>0, <1>1, <1>11 DEF Exit, Stands
<1>12. ASSUME NEW u \in Sessions, Type(u) PROVE Stands(t)
  BY <1>2, <1>12 DEF Type
<1>13. CASE SessionsListed \/ UNCHANGED vars
  BY <1>2, <1>13 DEF SessionsListed, vars
<1> QED
  BY <1>3, <1>4, <1>5, <1>6, <1>7, <1>8, <1>9, <1>10, <1>11, <1>12, <1>13 DEF Next

\* What handleClose does to the budget of a tab whose timer does not run.
LEMMA HandleCloseBudget ==
  ASSUME TeleportTypeOK, WithinBudget, NEW t \in Sessions, NEW code, HandleClose(t, code),
         t \in closed \/ t \notin timer
  PROVE  WithinBudget'
<1>1. CASE t \in closed
  BY <1>1 DEF HandleClose, retryVars, WithinBudget
<1>2. ASSUME t \notin timer, NEW how, End(t, how) PROVE WithinBudget'
  BY <1>2 DEF End, WithinBudget
<1>3. ASSUME Wait(t), t \in retrying => attempt[t] < MaxAttempts PROVE WithinBudget'
  <2> DEFINE n == IF t \in retrying THEN attempt[t] + 1 ELSE 1
  <2>1. attempt' = [attempt EXCEPT ![t] = n] /\ attempt \in [Sessions -> Nat]
    BY <1>3 DEF Wait, TeleportTypeOK
  <2>2. n > 0 /\ n <= MaxAttempts
    BY <1>3, <2>1, AttemptsAssumption
  <2> HIDE DEF n
  <2>3. \A u \in Sessions : attempt'[u] = IF u = t THEN n ELSE attempt[u]
    BY <2>1
  <2> QED
    BY <1>3, <2>2, <2>3 DEF Wait, WithinBudget
<1> QED
  BY <1>1, <1>2, <1>3 DEF HandleClose

\* Every step keeps the retries within the budget.
LEMMA BudgetStep == LinkInv /\ WithinBudget /\ [Next]_vars => WithinBudget'
<1> SUFFICES ASSUME LinkInv, WithinBudget, [Next]_vars PROVE WithinBudget'
  OBVIOUS
<1>0. TeleportTypeOK
  BY DEF LinkInv
<1> USE DEF overlayVars, linkVars, retryVars, keyVars
<1>1. ASSUME UNCHANGED <<retrying, attempt>>, timer' \subseteq timer PROVE WithinBudget'
  BY <1>1 DEF WithinBudget
<1>2. ASSUME NEW t \in Sessions, retrying' = retrying \ {t}, attempt' = [attempt EXCEPT ![t] = 0],
             timer' = timer \ {t}
      PROVE  WithinBudget'
  BY <1>0, <1>2, AttemptsAssumption DEF WithinBudget, TeleportTypeOK
<1>3. ASSUME NEW t \in Sessions, NEW code, TokenFails(t) \/ SocketCloses(t, code)
      PROVE  WithinBudget'
  <2>1. PICK c : HandleClose(t, c)
    BY <1>3 DEF TokenFails, SocketCloses
  <2>2. token[t] > 0 \/ ws[t] \in Live
    BY <1>3 DEF TokenFails, SocketCloses, Live
  <2>3. /\ TabInv(t) /\ ClosedByExit /\ token[t] \in Nat /\ orphans[t] = 0
        /\ t \in transport
    BY <1>0, <2>2 DEF LinkInv, TabInv, Untouched, TeleportTypeOK, Live
  <2>4. t \in closed \/ t \notin timer
    BY <2>2, <2>3 DEF TabInv, Linked, Links, ClosedByExit
  <2> QED
    BY <1>0, <2>1, <2>4, HandleCloseBudget
<1>4. ASSUME NEW t \in Sessions, SocketOpens(t) \/ ManualRetry(t)
      PROVE  WithinBudget'
  BY <1>2, <1>4 DEF SocketOpens, ManualRetry, ForceRetry
<1>5. ASSUME NEW t \in Sessions,
             TokenArrives(t) \/ TimerFires(t) \/ SocketFails(t) \/ SwitchTo(t) \/ Type(t)
      PROVE  WithinBudget'
  <2>1. UNCHANGED <<retrying, attempt>> /\ timer' \subseteq timer
    BY <1>5 DEF TokenArrives, TimerFires, SocketFails, SwitchTo, Type
  <2> QED
    BY <1>1, <2>1
<1>6. CASE SessionsListed \/ Exit \/ UNCHANGED vars
  <2>1. UNCHANGED <<retrying, attempt>> /\ timer' \subseteq timer
    BY <1>6 DEF SessionsListed, Exit, vars
  <2> QED
    BY <1>1, <2>1
<1> QED
  BY <1>3, <1>4, <1>5, <1>6 DEF Next

\* No tab retries more often than its budget allows, and once it has given up
\* or was told that its session is over, it stays so until the user asks for
\* another attempt, which is offered for a lost connection alone.
THEOREM RetriesEnd == Spec => []WithinBudget /\ VerdictStands
<1>1. ASSUME Init PROVE WithinBudget
  <2>1. \A t \in Sessions : attempt[t] = 0 /\ t \notin timer /\ t \notin retrying
    BY <1>1 DEF Init
  <2>2. \A n \in Nat : n = 0 => n <= MaxAttempts
    BY AttemptsAssumption
  <2>3. \A t \in Sessions : attempt[t] <= MaxAttempts
    BY <2>1, <2>2
  <2> QED
    BY <2>1, <2>3 DEF WithinBudget
<1>2. Spec => []WithinBudget
  BY <1>1, BudgetStep, LinkAlways, PTL DEF Spec
<1>3. LinkInv /\ [Next]_vars => [\A t \in Sessions : Stands(t)]_vars
  BY VerdictStep
<1> QED
  BY <1>2, <1>3, LinkAlways, PTL DEF Spec, VerdictStands
=============================================================================
