------------------------ MODULE FermentEventStoreProofs ------------------------
(***************************************************************************)
(* What the event store keeps, for any number of sessions, commands and    *)
(* crashes.  The lock makes its holder the only writer; what that writer   *)
(* still owes the log determines the last event of the log, and, as long   *)
(* as nobody has crashed, how far the snapshot is ahead of the log.        *)
(* Commands are numbered as they are issued, which orders the events of    *)
(* both files and of every cache, whatever crashes (OrderInv).             *)
(***************************************************************************)
EXTENDS FermentEventStore, TLAPS

\* Only the holder of the lock has something to write.
OneWriter == \A p \in Sessions : work[p] # Idle <=> lock = p

\* A writer owes the log the events of its command from the next one on, and the
\* log ends with the event before that.
OwedFollowsLog ==
  \A p \in Sessions : work[p] \in Appends =>
    /\ work[p].next <= work[p].of.parts
    /\ work[p].next = 2 =>
         log # Nothing /\ log # << >> /\ log[Len(log)] = EventOf(work[p].of, 1)

\* There is a log wherever a command was acknowledged.
AcknowledgedHasLog == acked # {} => log # Nothing

\* A log file is never empty.
LogNotEmpty == log # Nothing => log # << >>

LogInv ==
  /\ StoreTypeOK
  /\ OneWriter
  /\ LogNotEmpty
  /\ OwedFollowsLog
  /\ AcknowledgedHasLog
  /\ AcknowledgedIsLogged
  /\ CommandsAreContiguous

-----------------------------------------------------------------------------
\* The history after a command is a history.
LEMMA EventsType ==
  ASSUME NEW c \in Commands
  PROVE  /\ EventsOf(c) \in Histories
         /\ \A k \in 1..c.parts : EventOf(c, k) \in Events /\ k \in {1, 2}
<1>1. c.parts \in {1, 2} /\ c.cmd \in 0..MaxCommands
  BY BoundsAssumption DEF Commands
<1>2. \A k \in 1..c.parts : EventOf(c, k) \in Events /\ k \in {1, 2}
  BY <1>1 DEF EventOf, Events
<1> QED
  BY <1>1, <1>2 DEF EventsOf, Histories

\* The invariant of the log holds at the start.
LEMMA InitLogInv == StoreInit => LogInv
<1> SUFFICES ASSUME StoreInit PROVE LogInv
  OBVIOUS
<1>1. Created \in Events
  BY BoundsAssumption DEF Created, Events
<1>2. <<Created>> \in Histories
  BY <1>1 DEF Histories
<1>3. StoreTypeOK
  BY <1>2, BoundsAssumption DEF StoreInit, StoreTypeOK
<1>4. OneWriter
  BY NothingAssumption DEF StoreInit, OneWriter
<1>5. LogNotEmpty /\ AcknowledgedHasLog /\ AcknowledgedIsLogged
  BY DEF StoreInit, LogNotEmpty, AcknowledgedHasLog, AcknowledgedIsLogged
<1>6. OwedFollowsLog
  BY IdleAssumption DEF StoreInit, OwedFollowsLog
<1>7. CommandsAreContiguous
  BY DEF StoreInit, CommandsAreContiguous, Created
<1> QED
  BY <1>3, <1>4, <1>5, <1>6, <1>7 DEF LogInv

\* A command is derived and its snapshot written; the log is as it was.
LEMMA BeginLogInv ==
  ASSUME LogInv, NEW p \in Sessions, BeginCommand(p)
  PROVE  LogInv'
<1> USE DEF LogInv
<1>1. PICK n \in {1, 2} :
        /\ snapshot' = Current(p) \o EventsOf([cmd |-> issued + 1, parts |-> n])
        /\ cache' = [cache EXCEPT ![p] = Current(p) \o EventsOf([cmd |-> issued + 1, parts |-> n])]
        /\ work' = [work EXCEPT ![p] = Appending([cmd |-> issued + 1, parts |-> n], 1)]
  BY DEF BeginCommand
<1> DEFINE c == [cmd |-> issued + 1, parts |-> n]
<1>2. /\ work[p] = Idle /\ lock = Nothing /\ issued < MaxCommands /\ Current(p) # Nothing
      /\ lock' = p /\ issued' = issued + 1 /\ logNewer' \in BOOLEAN
      /\ UNCHANGED <<log, acked, crashes>>
  BY DEF BeginCommand, LockFree
<1>3. c \in Commands /\ Appending(c, 1) \in Appends
  BY <1>2, BoundsAssumption DEF StoreTypeOK, Commands, Appending, Appends
<1>4. StoreTypeOK'
  <2>1. Current(p) \in Histories
    BY <1>2 DEF StoreTypeOK, Current, StorageGet, ShouldUseEvents
  <2>2. snapshot' \in Histories /\ cache' \in [Sessions -> Histories \cup {Nothing}]
    BY <1>1, <1>3, <2>1, EventsType DEF StoreTypeOK, Histories
  <2> QED
    BY <1>1, <1>2, <1>3, <2>2, BoundsAssumption DEF StoreTypeOK
<1>5. OneWriter'
  BY <1>1, <1>2, <1>3, IdleAssumption, NothingAssumption DEF OneWriter, StoreTypeOK
<1>6. OwedFollowsLog'
  <2> SUFFICES ASSUME NEW q \in Sessions, work'[q] \in Appends
               PROVE  /\ work'[q].next <= work'[q].of.parts
                      /\ work'[q].next = 2 =>
                           /\ log' # Nothing /\ log' # << >>
                           /\ log'[Len(log')] = EventOf(work'[q].of, 1)
    BY DEF OwedFollowsLog
  <2>1. CASE q = p
    BY <1>1, <2>1 DEF StoreTypeOK, Appending
  <2>2. CASE q # p
    BY <1>1, <1>2, <2>2 DEF StoreTypeOK, OwedFollowsLog
  <2> QED
    BY <2>1, <2>2
<1>7. LogNotEmpty' /\ AcknowledgedHasLog' /\ AcknowledgedIsLogged' /\ CommandsAreContiguous'
  BY <1>2 DEF LogNotEmpty, AcknowledgedHasLog, AcknowledgedIsLogged, CommandsAreContiguous
<1> QED
  BY <1>4, <1>5, <1>6, <1>7

\* The log after an append is the log before it with the event at its end; this
\* is what both cases of AppendEvent come to.
LEMMA AppendedLog ==
  ASSUME LogInv, NEW p \in Sessions, AppendEvent(p)
  PROVE  LET c == work[p].of
             k == work[p].next
         IN /\ work[p] \in Appends /\ c \in Commands /\ k \in 1..c.parts
            /\ EventOf(c, k) \in Events
            /\ log' \in Histories /\ log' # << >> /\ log' # Nothing
            /\ log'[Len(log')] = EventOf(c, k)
            /\ k = 2 => log # Nothing
            /\ log = Nothing => Len(log') = 1
            /\ log # Nothing =>
                 /\ log \in Histories
                 /\ Len(log') = Len(log) + 1
                 /\ \A i \in DOMAIN log : i \in DOMAIN log' /\ log'[i] = log[i]
<1> DEFINE c == work[p].of
           k == work[p].next
<1>1. work[p] \in Appends
  <2>1. work[p] \in {Idle, Deleting} \cup Appends
    BY DEF LogInv, StoreTypeOK
  <2>2. work[p] # Idle /\ work[p] # Deleting
    BY DEF AppendEvent, Deleting
  <2> QED
    BY <2>1, <2>2
<1>2. c \in Commands /\ k \in {1, 2} /\ k <= c.parts /\ c.parts \in {1, 2}
  BY <1>1 DEF LogInv, OwedFollowsLog, Appends, Commands
<1>3. k \in 1..c.parts /\ EventOf(c, k) \in Events
  BY <1>2, EventsType
<1>4. k = 2 => log # Nothing
  BY <1>1 DEF LogInv, OwedFollowsLog
<1>5. log' = IF log = Nothing THEN <<EventOf(c, k)>> ELSE Append(log, EventOf(c, k))
  BY DEF AppendEvent
<1>6. log # Nothing => log \in Seq(Events)
  BY DEF LogInv, StoreTypeOK, Histories
<1>7. CASE log = Nothing
  <2> DEFINE single == <<EventOf(c, k)>>
  <2>1. log' = single /\ single \in Seq(Events) /\ Len(single) = 1 /\ single[1] = EventOf(c, k)
    BY <1>3, <1>5, <1>7
  <2>2. log' # << >> /\ log' # Nothing
    BY <2>1, NothingAssumption DEF Histories
  <2> QED
    BY <1>1, <1>2, <1>3, <1>4, <1>7, <2>1, <2>2 DEF Histories
<1>8. CASE log # Nothing
  <2> DEFINE longer == Append(log, EventOf(c, k))
  <2>1. log' = longer /\ longer \in Seq(Events) /\ Len(longer) = Len(log) + 1
    BY <1>3, <1>5, <1>6, <1>8
  <2>2. longer[Len(longer)] = EventOf(c, k)
        /\ \A i \in DOMAIN log : i \in DOMAIN longer /\ longer[i] = log[i]
    BY <1>3, <1>6, <1>8, <2>1
  <2>3. log' # << >> /\ log' # Nothing
    BY <1>6, <1>8, <2>1, NothingAssumption DEF Histories
  <2> QED
    BY <1>1, <1>2, <1>3, <1>4, <1>6, <1>8, <2>1, <2>2, <2>3 DEF Histories
<1> QED
  BY <1>7, <1>8

\* An append: its writer goes on with the next event or is done.
LEMMA AppendLogInv ==
  ASSUME LogInv, NEW p \in Sessions, AppendEvent(p)
  PROVE  LogInv'
<1> DEFINE c == work[p].of
           k == work[p].next
<1> HIDE DEF c, k
<1>1. /\ work[p] \in Appends /\ c \in Commands /\ k \in 1..c.parts
      /\ EventOf(c, k) \in Events
      /\ log' \in Histories /\ log' # << >> /\ log' # Nothing
      /\ log'[Len(log')] = EventOf(c, k)
      /\ k = 2 => log # Nothing
      /\ log = Nothing => Len(log') = 1
      /\ log # Nothing =>
           /\ log \in Histories
           /\ Len(log') = Len(log) + 1
           /\ \A i \in DOMAIN log : i \in DOMAIN log' /\ log'[i] = log[i]
  BY AppendedLog DEF c, k
<1>2. /\ logNewer' = TRUE
      /\ acked' = IF k = c.parts THEN acked \cup {c} ELSE acked
      /\ IF k = c.parts
         THEN work' = [work EXCEPT ![p] = Idle] /\ lock' = Nothing
         ELSE work' = [work EXCEPT ![p] = Appending(c, k + 1)] /\ lock' = lock
      /\ UNCHANGED <<snapshot, cache, issued, crashes>>
  BY DEF AppendEvent, Done, c, k
<1>3. c.parts \in {1, 2} /\ k \in {1, 2}
  BY <1>1 DEF Commands
<1>4. k < c.parts => Appending(c, k + 1) \in Appends /\ k = 1
  BY <1>1, <1>3 DEF Appending, Appends
<1>5. k = 2 => log[Len(log)] = EventOf(c, 1) /\ log # << >>
  BY <1>1 DEF LogInv, OwedFollowsLog, c, k
<1>6. work \in [Sessions -> {Idle, Deleting} \cup Appends] /\ acked \subseteq Commands
  BY DEF LogInv, StoreTypeOK
<1>7. lock = p
  BY <1>1, IdleAssumption DEF LogInv, OneWriter
<1>8. StoreTypeOK'
  BY <1>1, <1>2, <1>3, <1>4 DEF LogInv, StoreTypeOK
<1>9. OneWriter'
  BY <1>1, <1>2, <1>3, <1>4, <1>6, <1>7, IdleAssumption, NothingAssumption DEF LogInv, OneWriter
<1>10. OwedFollowsLog'
  <2> SUFFICES ASSUME NEW q \in Sessions, work'[q] \in Appends
               PROVE  /\ work'[q].next <= work'[q].of.parts
                      /\ work'[q].next = 2 =>
                           /\ log' # Nothing /\ log' # << >>
                           /\ log'[Len(log')] = EventOf(work'[q].of, 1)
    BY DEF OwedFollowsLog
  <2>1. q = p /\ k < c.parts
    BY <1>1, <1>2, <1>3, <1>6, <1>7, IdleAssumption DEF LogInv, OneWriter
  <2>2. work'[q] = Appending(c, k + 1) /\ k = 1
    BY <1>2, <1>3, <1>4, <1>6, <2>1
  <2> QED
    BY <1>1, <1>3, <2>1, <2>2 DEF Appending
<1>11. AcknowledgedIsLogged'
  <2> SUFFICES ASSUME NEW d \in acked', NEW j \in 1..d.parts
               PROVE  \E i \in DOMAIN log' : log'[i] = EventOf(d, j)
    BY DEF AcknowledgedIsLogged
  <2>1. CASE d \in acked
    <3>1. PICK i \in DOMAIN log : log[i] = EventOf(d, j)
      BY <2>1 DEF LogInv, AcknowledgedIsLogged
    <3>2. log # Nothing
      BY <2>1 DEF LogInv, AcknowledgedHasLog
    <3> QED
      BY <1>1, <3>1, <3>2
  <2>2. CASE d \notin acked
    <3>1. d = c /\ k = c.parts
      BY <1>2, <2>2
    <3>2. Len(log') \in DOMAIN log'
      BY <1>1 DEF Histories
    <3>3. CASE j = k
      BY <1>1, <3>1, <3>2, <3>3
    <3>4. CASE j # k
      <4>1. j = 1 /\ k = 2
        BY <1>3, <3>1, <3>4
      <4>2. Len(log) \in DOMAIN log
        BY <1>1, <1>5, <4>1 DEF Histories
      <4> QED
        BY <1>1, <1>5, <3>1, <4>1, <4>2
    <3> QED
      BY <3>3, <3>4
  <2> QED
    BY <2>1, <2>2
<1>12. CommandsAreContiguous'
  <2> SUFFICES ASSUME NEW i \in DOMAIN log', log'[i].part = 2
               PROVE  i > 1 /\ log'[i - 1] = [log'[i] EXCEPT !.part = 1]
    BY <1>1 DEF CommandsAreContiguous
  <2>1. i \in 1..Len(log')
    BY <1>1 DEF Histories
  <2>2. CASE i = Len(log')
    <3> DEFINE e == EventOf(c, k)
    <3>1. log'[i] = e /\ e.part = k
      BY <1>1, <2>2 DEF EventOf
    <3>2. k = 2
      BY <3>1
    <3>3. Len(log) \in Nat \ {0} /\ i = Len(log) + 1 /\ log[Len(log)] = EventOf(c, 1)
      BY <1>1, <1>5, <2>2, <3>2 DEF Histories
    <3>4. log'[i - 1] = EventOf(c, 1)
      <4>1. Len(log) \in DOMAIN log /\ i - 1 = Len(log)
        BY <1>1, <3>2, <3>3 DEF Histories
      <4> QED
        BY <1>1, <3>2, <3>3, <4>1
    <3>5. [e EXCEPT !.part = 1] = EventOf(c, 1)
      BY DEF EventOf
    <3> QED
      BY <3>1, <3>3, <3>4, <3>5
  <2>3. CASE i # Len(log')
    <3>1. log # Nothing /\ log \in Seq(Events) /\ i \in 1..Len(log)
      BY <1>1, <2>1, <2>3 DEF Histories
    <3>2. log'[i] = log[i]
      BY <1>1, <3>1
    <3>3. i > 1 /\ log[i - 1] = [log[i] EXCEPT !.part = 1]
      BY <3>1, <3>2 DEF LogInv, CommandsAreContiguous
    <3>4. i - 1 \in DOMAIN log
      BY <3>1, <3>3
    <3> QED
      BY <1>1, <3>1, <3>2, <3>3, <3>4
  <2> QED
    BY <2>2, <2>3
<1> QED
  BY <1>1, <1>2, <1>8, <1>9, <1>10, <1>11, <1>12 DEF LogInv, LogNotEmpty, AcknowledgedHasLog

\* Reading touches only the cache.
LEMMA GetLogInv ==
  ASSUME LogInv, NEW p \in Sessions, Get(p)
  PROVE  LogInv'
<1>1. StoreTypeOK'
  BY DEF LogInv, StoreTypeOK, Get, StorageGet
<1> QED
  BY <1>1 DEF LogInv, Get, OneWriter, LogNotEmpty, OwedFollowsLog, AcknowledgedHasLog,
              AcknowledgedIsLogged, CommandsAreContiguous

\* A delete takes the log and every acknowledgement of the ferment with it.
LEMMA DeleteLogLogInv ==
  ASSUME LogInv, NEW p \in Sessions, DeleteLog(p)
  PROVE  LogInv'
<1>1. /\ work[p] = Idle /\ lock = Nothing /\ log' = Nothing /\ lock' = p /\ acked' = {}
      /\ work' = [work EXCEPT ![p] = Deleting]
      /\ UNCHANGED <<snapshot, logNewer, cache, issued, crashes>>
  BY DEF DeleteLog, LockFree
<1>2. StoreTypeOK'
  BY <1>1 DEF LogInv, StoreTypeOK
<1>3. OneWriter'
  BY <1>1, IdleAssumption, NothingAssumption DEF LogInv, StoreTypeOK, OneWriter
<1>4. OwedFollowsLog'
  <2>1. Deleting \notin Appends
    BY DEF Deleting, Appends
  <2>2. \A q \in Sessions : work'[q] \notin Appends
    BY <1>1, <2>1, IdleAssumption, NothingAssumption DEF LogInv, StoreTypeOK, OneWriter
  <2> QED
    BY <2>2 DEF OwedFollowsLog
<1> QED
  BY <1>1, <1>2, <1>3, <1>4
     DEF LogInv, LogNotEmpty, AcknowledgedHasLog, AcknowledgedIsLogged, CommandsAreContiguous

\* Deleting the snapshot keeps it.
LEMMA DeleteSnapshotLogInv ==
  ASSUME LogInv, NEW p \in Sessions, DeleteSnapshot(p)
  PROVE  LogInv'
<1>1. /\ work[p] = Deleting /\ lock' = Nothing
      /\ snapshot' = Nothing /\ cache' = [cache EXCEPT ![p] = Nothing]
      /\ work' = [work EXCEPT ![p] = Idle]
      /\ UNCHANGED <<log, logNewer, issued, acked, crashes>>
  BY DEF DeleteSnapshot
<1>2. StoreTypeOK'
  BY <1>1 DEF LogInv, StoreTypeOK
<1>3. OneWriter'
  BY <1>1, IdleAssumption, NothingAssumption DEF LogInv, StoreTypeOK, OneWriter
<1>4. OwedFollowsLog'
  BY <1>1, IdleAssumption DEF LogInv, StoreTypeOK, OwedFollowsLog
<1> QED
  BY <1>1, <1>2, <1>3, <1>4
     DEF LogInv, LogNotEmpty, AcknowledgedHasLog, AcknowledgedIsLogged, CommandsAreContiguous

\* Whoever crashes owes nothing any more: a torn command stays torn, with its
\* first event, and no second event will ever follow it.
LEMMA CrashLogInv ==
  ASSUME LogInv, NEW p \in Sessions, Crash(p)
  PROVE  LogInv'
<1>1. /\ crashes < MaxCrashes /\ crashes' = crashes + 1
      /\ cache' = [cache EXCEPT ![p] = Nothing]
      /\ work' = [work EXCEPT ![p] = Idle]
      /\ lock' = IF lock = p THEN Nothing ELSE lock
      /\ UNCHANGED <<snapshot, log, logNewer, issued, acked>>
  BY DEF Crash
<1>2. StoreTypeOK'
  BY <1>1, BoundsAssumption DEF LogInv, StoreTypeOK
<1>3. OneWriter'
  BY <1>1, IdleAssumption, NothingAssumption DEF LogInv, StoreTypeOK, OneWriter
<1>4. OwedFollowsLog'
  BY <1>1, IdleAssumption DEF LogInv, StoreTypeOK, OwedFollowsLog
<1> QED
  BY <1>1, <1>2, <1>3, <1>4
     DEF LogInv, LogNotEmpty, AcknowledgedHasLog, AcknowledgedIsLogged, CommandsAreContiguous

\* Every step keeps it.
LEMMA NextLogInv == LogInv /\ [StoreNext]_storeVars => LogInv'
<1>1. ASSUME LogInv, StoreNext PROVE LogInv'
  <2>1. PICK p \in Sessions : SessionStep(p)
    BY <1>1 DEF StoreNext
  <2> QED
    BY <1>1, <2>1, BeginLogInv, AppendLogInv, GetLogInv, DeleteLogLogInv,
       DeleteSnapshotLogInv, CrashLogInv DEF SessionStep
<1>2. ASSUME LogInv, UNCHANGED storeVars PROVE LogInv'
  BY <1>2 DEF storeVars, LogInv, StoreTypeOK, OneWriter, LogNotEmpty, OwedFollowsLog,
              AcknowledgedHasLog, AcknowledgedIsLogged, CommandsAreContiguous
<1> QED
  BY <1>1, <1>2

\* The inductive invariant of the store.
THEOREM LogInvariant == StoreSpec => []LogInv
<1> QED
  BY InitLogInv, NextLogInv, PTL DEF StoreSpec

\* The files, the caches and the calls in progress are well typed.
THEOREM StoreTypeCorrect == StoreSpec => []StoreTypeOK
<1>1. LogInv => StoreTypeOK
  BY DEF LogInv
<1> QED
  BY <1>1, LogInvariant, PTL

\* A command that was reported done is in the log with all its events, for any
\* number of sessions, crashes and stale caches (appendEvent, withLock).
THEOREM Acknowledged == StoreSpec => []AcknowledgedIsLogged
<1>1. LogInv => AcknowledgedIsLogged
  BY DEF LogInv
<1> QED
  BY <1>1, LogInvariant, PTL

\* The two events of a command are never separated in the log (emit under
\* withLock).
THEOREM Contiguous == StoreSpec => []CommandsAreContiguous
<1>1. LogInv => CommandsAreContiguous
  BY DEF LogInv
<1> QED
  BY <1>1, LogInvariant, PTL

-----------------------------------------------------------------------------
(* Without a crash, the snapshot is ahead of the log by what the writer     *)
(* owes, and whenever nobody writes the log counts as the newer file; so    *)
(* every command starts from the fold.                                      *)

LogIsWhole == log # Nothing /\ log[1] = Created

SnapshotAhead ==
  \A p \in Sessions : work[p] \in Appends /\ LogIsWhole =>
    LET c == work[p].of
        k == work[p].next
    IN snapshot = IF k = c.parts
                  THEN Append(log, EventOf(c, k))
                  ELSE Append(Append(log, EventOf(c, 1)), EventOf(c, 2))

AgreeInv ==
  crashes = 0 =>
    /\ lock = Nothing /\ log # Nothing => logNewer
    /\ lock = Nothing /\ LogIsWhole => snapshot = log
    /\ SnapshotAhead
    /\ \A p \in Sessions : work[p] = Deleting => log = Nothing

\* The snapshot after a command, event by event.
LEMMA WithEvents ==
  ASSUME NEW h \in Histories, NEW c \in Commands
  PROVE  h \o EventsOf(c) = IF 1 = c.parts
                            THEN Append(h, EventOf(c, 1))
                            ELSE Append(Append(h, EventOf(c, 1)), EventOf(c, 2))
<1>1. c.parts \in {1, 2} /\ h \in Seq(Events)
  BY DEF Commands, Histories
<1>2. EventOf(c, 1) \in Events /\ (c.parts = 2 => EventOf(c, 2) \in Events)
  BY <1>1, EventsType
<1>3. EventsOf(c) \in Seq(Events) /\ Len(EventsOf(c)) = c.parts
      /\ \A k \in 1..c.parts : EventsOf(c)[k] = EventOf(c, k)
  BY <1>1, EventsType DEF EventsOf, Histories
<1>4. CASE c.parts = 1
  <2>1. EventsOf(c) = <<EventOf(c, 1)>>
    BY <1>2, <1>3, <1>4
  <2> QED
    BY <1>1, <1>2, <1>4, <2>1
<1>5. CASE c.parts = 2
  <2>1. EventsOf(c) = <<EventOf(c, 1), EventOf(c, 2)>>
    BY <1>2, <1>3, <1>5
  <2> QED
    BY <1>1, <1>2, <1>5, <2>1
<1> QED
  BY <1>1, <1>4, <1>5

\* The files agree at the start.
LEMMA InitAgree == StoreInit => AgreeInv
<1> SUFFICES ASSUME StoreInit PROVE AgreeInv
  OBVIOUS
<1>1. SnapshotAhead
  BY IdleAssumption DEF StoreInit, SnapshotAhead
<1>2. logNewer /\ (LogIsWhole => snapshot = log)
  BY DEF StoreInit, LogIsWhole
<1> QED
  BY <1>1, <1>2, IdleAssumption DEF AgreeInv, StoreInit

\* A command starts from the fold, so its snapshot is the log and the events owed.
LEMMA BeginAgree ==
  ASSUME LogInv, AgreeInv, NEW p \in Sessions, BeginCommand(p)
  PROVE  AgreeInv'
<1> SUFFICES ASSUME crashes' = 0 PROVE AgreeInv'
  BY DEF AgreeInv
<1>1. PICK n \in {1, 2} :
        /\ snapshot' = Current(p) \o EventsOf([cmd |-> issued + 1, parts |-> n])
        /\ work' = [work EXCEPT ![p] = Appending([cmd |-> issued + 1, parts |-> n], 1)]
  BY DEF BeginCommand
<1> DEFINE c == [cmd |-> issued + 1, parts |-> n]
<1>2. /\ work[p] = Idle /\ lock = Nothing /\ issued < MaxCommands
      /\ lock' = p /\ log' = log /\ crashes = 0
  BY DEF BeginCommand, LockFree
<1>3. c \in Commands /\ Appending(c, 1) \in Appends
  BY <1>2, BoundsAssumption DEF LogInv, StoreTypeOK, Commands, Appending, Appends
<1>4. \A q \in Sessions : q # p => work'[q] = Idle
  BY <1>1, <1>2, NothingAssumption DEF LogInv, StoreTypeOK, OneWriter
<1>5. SnapshotAhead'
  <2> SUFFICES ASSUME NEW q \in Sessions, work'[q] \in Appends, LogIsWhole'
               PROVE  snapshot' = IF work'[q].next = work'[q].of.parts
                                  THEN Append(log', EventOf(work'[q].of, work'[q].next))
                                  ELSE Append(Append(log', EventOf(work'[q].of, 1)),
                                              EventOf(work'[q].of, 2))
    BY DEF SnapshotAhead
  <2>1. q = p
    BY <1>4, IdleAssumption
  <2>2. work'[p] = Appending(c, 1)
    BY <1>1 DEF LogInv, StoreTypeOK
  <2>3. work'[q].of = c /\ work'[q].next = 1
    BY <2>1, <2>2 DEF Appending
  <2>4. log # Nothing /\ log \in Histories
    BY <1>2 DEF LogIsWhole, LogInv, StoreTypeOK
  <2>5. Current(p) = log
    BY <1>2, <2>4 DEF AgreeInv, Current, ShouldUseEvents
  <2>6. snapshot' = IF 1 = c.parts
                    THEN Append(log, EventOf(c, 1))
                    ELSE Append(Append(log, EventOf(c, 1)), EventOf(c, 2))
    BY <1>1, <1>3, <2>4, <2>5, WithEvents
  <2> HIDE DEF c
  <2> QED
    BY <1>2, <2>3, <2>6
<1>6. lock' # Nothing
  BY <1>2, NothingAssumption
<1>7. \A q \in Sessions : work'[q] # Deleting
  <2>1. work'[p] = Appending(c, 1)
    BY <1>1 DEF LogInv, StoreTypeOK
  <2> QED
    BY <1>4, <2>1, IdleAssumption DEF Appending, Deleting
<1> QED
  BY <1>5, <1>6, <1>7 DEF AgreeInv

\* An append closes the gap between log and snapshot by one event.
LEMMA AppendAgree ==
  ASSUME LogInv, AgreeInv, NEW p \in Sessions, AppendEvent(p)
  PROVE  AgreeInv'
<1> SUFFICES ASSUME crashes' = 0 PROVE AgreeInv'
  BY DEF AgreeInv
<1> DEFINE c == work[p].of
           k == work[p].next
<1> HIDE DEF c, k
<1>1. /\ work[p] \in Appends /\ c \in Commands /\ k \in 1..c.parts
      /\ EventOf(c, k) \in Events
      /\ log' \in Histories /\ log' # << >>
      /\ log'[Len(log')] = EventOf(c, k)
      /\ log = Nothing => Len(log') = 1
      /\ log # Nothing =>
           /\ log \in Histories
           /\ \A i \in DOMAIN log : log'[i] = log[i]
  BY AppendedLog DEF c, k
<1>2. /\ logNewer' = TRUE /\ crashes = 0 /\ snapshot' = snapshot
      /\ log # Nothing => log' = Append(log, EventOf(c, k))
      /\ IF k = c.parts
         THEN work' = [work EXCEPT ![p] = Idle] /\ lock' = Nothing
         ELSE work' = [work EXCEPT ![p] = Appending(c, k + 1)] /\ lock' = lock
  BY DEF AppendEvent, c, k
<1>3. c.parts \in {1, 2} /\ k \in {1, 2}
  BY <1>1 DEF Commands
<1>4. lock = p
  BY <1>1, IdleAssumption DEF LogInv, OneWriter
<1>5. LogIsWhole' => LogIsWhole
  <2>1. CASE log = Nothing
    <3>1. log'[1] = EventOf(c, k) /\ c.cmd # 0
      BY <1>1, <2>1 DEF Commands
    <3>2. EventOf(c, k).cmd # Created.cmd
      BY <3>1 DEF EventOf, Created
    <3> QED
      BY <3>1, <3>2 DEF LogIsWhole
  <2>2. CASE log # Nothing
    <3>1. 1 \in DOMAIN log
      BY <1>1, <2>2 DEF LogInv, LogNotEmpty, Histories
    <3> QED
      BY <1>1, <2>2, <3>1 DEF LogIsWhole
  <2> QED
    BY <2>1, <2>2
<1>6. LogIsWhole' =>
        snapshot = IF k = c.parts
                   THEN Append(log, EventOf(c, k))
                   ELSE Append(Append(log, EventOf(c, 1)), EventOf(c, 2))
  BY <1>1, <1>2, <1>5 DEF AgreeInv, SnapshotAhead, c, k
<1>7. LogIsWhole' => log' = Append(log, EventOf(c, k))
  BY <1>2, <1>5 DEF LogIsWhole
<1>8. LogIsWhole' /\ lock' = Nothing => snapshot' = log'
  <2>1. lock' = Nothing => k = c.parts
    BY <1>2, <1>4, NothingAssumption
  <2> QED
    BY <1>2, <1>6, <1>7, <2>1
<1>9. SnapshotAhead'
  <2> SUFFICES ASSUME NEW q \in Sessions, work'[q] \in Appends, LogIsWhole'
               PROVE  snapshot' = IF work'[q].next = work'[q].of.parts
                                  THEN Append(log', EventOf(work'[q].of, work'[q].next))
                                  ELSE Append(Append(log', EventOf(work'[q].of, 1)),
                                              EventOf(work'[q].of, 2))
    BY DEF SnapshotAhead
  <2>1. q = p /\ k # c.parts
    BY <1>1, <1>2, <1>3, <1>4, IdleAssumption DEF LogInv, OneWriter, StoreTypeOK
  <2>2. k = 1 /\ c.parts = 2 /\ work'[q] = Appending(c, 2)
    BY <1>1, <1>2, <1>3, <2>1 DEF LogInv, StoreTypeOK
  <2>3. work'[q].of = c /\ work'[q].next = 2
    BY <2>2 DEF Appending
  <2> QED
    BY <1>2, <1>6, <1>7, <2>2, <2>3
<1>10. \A q \in Sessions : work'[q] # Deleting
  <2>1. \A q \in Sessions : q # p => work[q] = Idle
    BY <1>4 DEF LogInv, OneWriter
  <2>2. work'[p] = Idle \/ work'[p].op = "append"
    BY <1>2 DEF Appending, LogInv, StoreTypeOK
  <2>3. \A q \in Sessions : q # p => work'[q] = Idle
    BY <1>2, <2>1 DEF LogInv, StoreTypeOK
  <2> QED
    BY <2>2, <2>3, IdleAssumption DEF Deleting
<1> QED
  BY <1>2, <1>8, <1>9, <1>10 DEF AgreeInv

\* Reading, deleting and crashing keep that.
LEMMA OtherAgree ==
  ASSUME LogInv, AgreeInv, NEW p \in Sessions,
         Get(p) \/ DeleteLog(p) \/ DeleteSnapshot(p) \/ Crash(p)
  PROVE  AgreeInv'
<1>1. CASE Get(p)
  BY <1>1 DEF Get, AgreeInv, SnapshotAhead, LogIsWhole
<1>2. CASE DeleteLog(p)
  <2>1. log' = Nothing /\ lock' = p
    BY <1>2 DEF DeleteLog
  <2> QED
    BY <2>1, NothingAssumption DEF AgreeInv, SnapshotAhead, LogIsWhole
<1>3. CASE DeleteSnapshot(p)
  <2> SUFFICES ASSUME crashes' = 0 PROVE AgreeInv'
    BY DEF AgreeInv
  <2>1. log = Nothing /\ log' = log
    BY <1>3 DEF DeleteSnapshot, AgreeInv
  <2> QED
    BY <2>1 DEF AgreeInv, SnapshotAhead, LogIsWhole
<1>4. CASE Crash(p)
  <2>1. crashes' # 0
    BY <1>4 DEF Crash, LogInv, StoreTypeOK
  <2> QED
    BY <2>1 DEF AgreeInv
<1> QED
  BY <1>1, <1>2, <1>3, <1>4

\* Every step keeps that.
LEMMA NextAgree == LogInv /\ AgreeInv /\ [StoreNext]_storeVars => AgreeInv'
<1>1. ASSUME LogInv, AgreeInv, StoreNext PROVE AgreeInv'
  <2>1. PICK p \in Sessions : SessionStep(p)
    BY <1>1 DEF StoreNext
  <2> QED
    BY <1>1, <2>1, BeginAgree, AppendAgree, OtherAgree DEF SessionStep
<1>2. ASSUME AgreeInv, UNCHANGED storeVars PROVE AgreeInv'
  BY <1>2 DEF storeVars, AgreeInv, SnapshotAhead, LogIsWhole
<1> QED
  BY <1>1, <1>2

\* Without a crash the snapshot and the fold of the log agree whenever no session
\* is writing, however many sessions there are and however stale their caches
\* (mutateWithEvents, shouldUseEvents).
THEOREM SnapshotAgrees == StoreSpec => []SnapshotIsFold
<1>1. AgreeInv => SnapshotIsFold
  BY DEF AgreeInv, SnapshotIsFold, FoldIsDefined, LogIsWhole
<1>2. StoreSpec => []AgreeInv
  BY InitAgree, NextAgree, LogInvariant, PTL DEF StoreSpec
<1> QED
  BY <1>1, <1>2, PTL

\* As long as no session crashes, a command starts from a ferment that has all
\* the changes whose callers were told that they are done: no update is lost to
\* a stale cache or an old snapshot.
StartsFromAcknowledged ==
  crashes = 0 /\ lock = Nothing /\ (ShouldUseEvents => FoldIsDefined) =>
    \A p \in Sessions, c \in acked : \A k \in 1..c.parts :
      \E i \in DOMAIN Current(p) : Current(p)[i] = EventOf(c, k)

\* Whichever session comes next and whatever it has cached.
THEOREM NoUpdateIsLost == StoreSpec => []StartsFromAcknowledged
<1>1. LogInv /\ AgreeInv => StartsFromAcknowledged
  <2> SUFFICES ASSUME LogInv, AgreeInv, crashes = 0, lock = Nothing,
                      NEW p \in Sessions, NEW c \in acked, NEW k \in 1..c.parts
               PROVE  \E i \in DOMAIN Current(p) : Current(p)[i] = EventOf(c, k)
    BY DEF StartsFromAcknowledged
  <2>1. log # Nothing /\ logNewer
    BY DEF LogInv, AcknowledgedHasLog, AgreeInv
  <2>2. Current(p) = log
    BY <2>1 DEF Current, ShouldUseEvents
  <2> QED
    BY <2>2 DEF LogInv, AcknowledgedIsLogged
<1>2. StoreSpec => []AgreeInv
  BY InitAgree, NextAgree, LogInvariant, PTL DEF StoreSpec
<1> QED
  BY <1>1, <1>2, LogInvariant, PTL

-----------------------------------------------------------------------------
(* The order of the events, across any crashes.                             *)

Before(e, f) == e.cmd < f.cmd \/ (e.cmd = f.cmd /\ e.part < f.part)

\* The events of a history are in the order of the commands, and none is twice.
Sorted(h) == \A i, j \in DOMAIN h : i < j => Before(h[i], h[j])
SortedUpTo(h, n) == Sorted(h) /\ \A i \in DOMAIN h : h[i].cmd <= n

\* That is so of both files and of every cache, however stale.
HistoriesInOrder ==
  /\ log # Nothing => Sorted(log)
  /\ snapshot # Nothing => Sorted(snapshot)
  /\ \A p \in Sessions : cache[p] # Nothing => Sorted(cache[p])

\* The command that is being written is the last one, and what the log still
\* lacks of it comes after all that the log has.
OrderInv ==
  /\ log # Nothing => SortedUpTo(log, issued)
  /\ snapshot # Nothing => SortedUpTo(snapshot, issued)
  /\ \A p \in Sessions : cache[p] # Nothing => SortedUpTo(cache[p], issued)
  /\ \A p \in Sessions : work[p] \in Appends =>
       /\ work[p].of.cmd = issued
       /\ log # Nothing =>
            \A i \in DOMAIN log : Before(log[i], EventOf(work[p].of, work[p].next))

LEMMA EventsNumbered ==
  \A h \in Histories : \A i \in DOMAIN h : h[i].cmd \in Nat
<1>1. \A e \in Events : e.cmd \in Nat
  BY BoundsAssumption DEF Events
<1>2. \A h \in Histories : \A i \in DOMAIN h : h[i] \in Events
  BY DEF Histories
<1> QED
  BY <1>1, <1>2

\* A later event keeps a history in order.
LEMMA SortedAppend ==
  ASSUME NEW h \in Histories, NEW e \in Events, NEW n \in Nat, Sorted(h), e.cmd <= n,
         \A i \in DOMAIN h : h[i].cmd <= n /\ Before(h[i], e)
  PROVE  Append(h, e) \in Histories /\ SortedUpTo(Append(h, e), n)
<1> DEFINE longer == Append(h, e)
<1>1. /\ longer \in Seq(Events) /\ Len(longer) = Len(h) + 1 /\ longer[Len(longer)] = e
      /\ DOMAIN longer = 1..(Len(h) + 1) /\ DOMAIN h = 1..Len(h) /\ Len(h) \in Nat
      /\ \A i \in DOMAIN h : longer[i] = h[i]
  BY DEF Histories
<1>2. \A i \in DOMAIN longer : i \in DOMAIN h \/ i = Len(longer)
  BY <1>1
<1>3. \A i \in DOMAIN longer : longer[i].cmd <= n
  BY <1>1, <1>2
<1>4. ASSUME NEW i \in DOMAIN longer, NEW j \in DOMAIN longer, i < j
      PROVE  Before(longer[i], longer[j])
  <2>1. i \in DOMAIN h
    BY <1>1, <1>2, <1>4
  <2> QED
    BY <1>1, <1>2, <1>4, <2>1 DEF Sorted
<1> QED
  BY <1>1, <1>3, <1>4 DEF SortedUpTo, Sorted, Histories

\* A command adds its events after all that was issued before it.
LEMMA BeginSorted ==
  ASSUME NEW h \in Histories, NEW n \in Nat, SortedUpTo(h, n),
         NEW c \in Commands, c.cmd = n + 1
  PROVE  SortedUpTo(h \o EventsOf(c), n + 1)
<1>1. /\ c.parts \in {1, 2}
      /\ EventOf(c, 1) \in Events /\ (c.parts = 2 => EventOf(c, 2) \in Events)
      /\ \A k : EventOf(c, k).cmd = n + 1 /\ EventOf(c, k).part = k
  BY EventsType DEF Commands, EventOf
<1>2. \A i \in DOMAIN h : h[i] \in Events
  BY DEF Histories
<1>3. \A i \in DOMAIN h : h[i].cmd \in Nat /\ h[i].cmd <= n
  BY <1>2, BoundsAssumption DEF SortedUpTo, Events
<1>4. \A i \in DOMAIN h : \A k : h[i].cmd <= n + 1 /\ Before(h[i], EventOf(c, k))
  BY <1>1, <1>3 DEF Before
<1>5. Append(h, EventOf(c, 1)) \in Histories /\ SortedUpTo(Append(h, EventOf(c, 1)), n + 1)
  BY <1>1, <1>4, SortedAppend DEF SortedUpTo
<1>6. CASE c.parts = 1
  BY <1>5, <1>6, WithEvents
<1>7. CASE c.parts = 2
  <2> DEFINE first == Append(h, EventOf(c, 1))
  <2>1. \A i \in DOMAIN first : first[i] = EventOf(c, 1) \/ \E j \in DOMAIN h : first[i] = h[j]
    BY <1>1 DEF Histories
  <2>2. Before(EventOf(c, 1), EventOf(c, 2)) /\ EventOf(c, 1).cmd <= n + 1
    BY <1>1 DEF Before
  <2>3. \A i \in DOMAIN first : first[i].cmd <= n + 1 /\ Before(first[i], EventOf(c, 2))
    BY <1>4, <2>1, <2>2
  <2>4. first \in Histories /\ Sorted(first)
    BY <1>5 DEF SortedUpTo
  <2>5. h \o EventsOf(c) = Append(first, EventOf(c, 2))
    BY <1>7, WithEvents
  <2>6. EventOf(c, 2) \in Events /\ EventOf(c, 2).cmd <= n + 1 /\ n + 1 \in Nat
    BY <1>1, <1>7
  <2> HIDE DEF first
  <2> QED
    BY <2>3, <2>4, <2>5, <2>6, SortedAppend
<1> QED
  BY <1>1, <1>6, <1>7

\* The histories of the start.
LEMMA InitOrder == StoreInit => OrderInv
<1> SUFFICES ASSUME StoreInit PROVE OrderInv
  OBVIOUS
<1>1. SortedUpTo(<<Created>>, 0)
  BY DEF SortedUpTo, Sorted, Created
<1> QED
  BY <1>1, IdleAssumption DEF StoreInit, OrderInv

\* A command that begins.
LEMMA BeginOrder ==
  ASSUME LogInv, OrderInv, NEW p \in Sessions, BeginCommand(p)
  PROVE  OrderInv'
<1>1. PICK n \in {1, 2} :
        /\ snapshot' = Current(p) \o EventsOf([cmd |-> issued + 1, parts |-> n])
        /\ cache' = [cache EXCEPT ![p] = Current(p) \o EventsOf([cmd |-> issued + 1, parts |-> n])]
        /\ work' = [work EXCEPT ![p] = Appending([cmd |-> issued + 1, parts |-> n], 1)]
  BY DEF BeginCommand
<1> DEFINE c == [cmd |-> issued + 1, parts |-> n]
<1>2. /\ work[p] = Idle /\ lock = Nothing /\ issued < MaxCommands /\ Current(p) # Nothing
      /\ issued' = issued + 1 /\ log' = log /\ issued \in Nat
  BY DEF BeginCommand, LockFree, LogInv, StoreTypeOK
<1>3. c \in Commands /\ c.cmd = issued + 1
  BY <1>2, BoundsAssumption DEF LogInv, StoreTypeOK, Commands
<1>4. Current(p) \in Histories /\ SortedUpTo(Current(p), issued)
  BY <1>2 DEF LogInv, StoreTypeOK, OrderInv, Current, StorageGet, ShouldUseEvents
<1>5. SortedUpTo(Current(p) \o EventsOf(c), issued + 1)
  BY <1>2, <1>3, <1>4, BeginSorted
<1>6. \A h \in Histories : SortedUpTo(h, issued) => SortedUpTo(h, issued + 1)
  <2>1. \A h \in Histories : \A i \in DOMAIN h : h[i].cmd \in Nat
    BY EventsNumbered
  <2> QED
    BY <1>2, <2>1 DEF SortedUpTo
<1>7. log' # Nothing => SortedUpTo(log', issued')
  BY <1>2, <1>6 DEF OrderInv, LogInv, StoreTypeOK
<1>8. SortedUpTo(snapshot', issued')
  BY <1>1, <1>2, <1>5
<1>9. \A q \in Sessions : cache'[q] # Nothing => SortedUpTo(cache'[q], issued')
  BY <1>1, <1>2, <1>5, <1>6 DEF OrderInv, LogInv, StoreTypeOK
<1>10. ASSUME NEW q \in Sessions, work'[q] \in Appends
       PROVE  /\ work'[q].of.cmd = issued'
              /\ log' # Nothing =>
                   \A i \in DOMAIN log' : Before(log'[i], EventOf(work'[q].of, work'[q].next))
  <2>1. q = p
    BY <1>1, <1>2, <1>10, NothingAssumption, IdleAssumption DEF LogInv, StoreTypeOK, OneWriter
  <2>2. work'[q].of = c /\ work'[q].next = 1
    BY <1>1, <2>1 DEF LogInv, StoreTypeOK, Appending
  <2>3. log # Nothing => \A i \in DOMAIN log : log[i].cmd \in Nat /\ log[i].cmd <= issued
    BY EventsNumbered DEF OrderInv, SortedUpTo, LogInv, StoreTypeOK
  <2> QED
    BY <1>2, <1>3, <2>2, <2>3 DEF Before, EventOf
<1> QED
  BY <1>7, <1>8, <1>9, <1>10 DEF OrderInv

\* An append: the event was to come after all that the log has.
LEMMA AppendOrder ==
  ASSUME LogInv, OrderInv, NEW p \in Sessions, AppendEvent(p)
  PROVE  OrderInv'
<1> DEFINE c == work[p].of
           k == work[p].next
<1> HIDE DEF c, k
<1>1. /\ work[p] \in Appends /\ c \in Commands /\ k \in 1..c.parts
      /\ EventOf(c, k) \in Events
  BY AppendedLog DEF c, k
<1>2. /\ log' = IF log = Nothing THEN <<EventOf(c, k)>> ELSE Append(log, EventOf(c, k))
      /\ IF k = c.parts
         THEN work' = [work EXCEPT ![p] = Idle] /\ lock' = Nothing
         ELSE work' = [work EXCEPT ![p] = Appending(c, k + 1)] /\ lock' = lock
      /\ UNCHANGED <<snapshot, cache, issued>>
  BY DEF AppendEvent, c, k
<1>3. /\ c.cmd = issued /\ issued \in Nat /\ c.parts \in {1, 2} /\ k \in {1, 2}
      /\ log # Nothing => \A i \in DOMAIN log : Before(log[i], EventOf(c, k))
  BY <1>1 DEF OrderInv, LogInv, StoreTypeOK, Commands, c, k
<1>4. EventOf(c, k).cmd = issued
  BY <1>3 DEF EventOf
<1>5. SortedUpTo(log', issued)
  <2>1. CASE log = Nothing
    BY <1>2, <1>3, <1>4, <2>1 DEF SortedUpTo, Sorted
  <2>2. CASE log # Nothing
    BY <1>1, <1>2, <1>3, <1>4, <2>2, SortedAppend
    DEF OrderInv, LogInv, StoreTypeOK, SortedUpTo
  <2> QED
    BY <2>1, <2>2
<1>6. ASSUME NEW q \in Sessions, work'[q] \in Appends
      PROVE  /\ work'[q].of.cmd = issued
             /\ \A i \in DOMAIN log' : Before(log'[i], EventOf(work'[q].of, work'[q].next))
  <2>1. lock = p
    BY <1>1, IdleAssumption DEF LogInv, OneWriter
  <2>2. q = p /\ k # c.parts
    BY <1>1, <1>2, <1>6, <2>1, IdleAssumption DEF LogInv, OneWriter, StoreTypeOK
  <2>3. k = 1 /\ work'[q].of = c /\ work'[q].next = 2
    BY <1>1, <1>2, <1>3, <2>2 DEF LogInv, StoreTypeOK, Appending
  <2>4. Before(EventOf(c, 1), EventOf(c, 2))
    BY <1>3 DEF Before, EventOf
  <2>5. \A e \in Events : Before(e, EventOf(c, 1)) => Before(e, EventOf(c, 2))
    BY <1>3, BoundsAssumption DEF Before, EventOf, Events
  <2>6. \A i \in DOMAIN log' :
          log'[i] = EventOf(c, 1) \/ (log # Nothing /\ \E j \in DOMAIN log : log'[i] = log[j])
    BY <1>1, <1>2, <2>3 DEF LogInv, StoreTypeOK, Histories
  <2>7. log # Nothing => \A j \in DOMAIN log : log[j] \in Events
    BY DEF LogInv, StoreTypeOK, Histories
  <2> QED
    BY <1>3, <2>3, <2>4, <2>5, <2>6, <2>7
<1> QED
  BY <1>2, <1>5, <1>6 DEF OrderInv

\* Whatever is read, deleted or lost was in order.
LEMMA OtherOrder ==
  ASSUME LogInv, OrderInv, NEW p \in Sessions,
         Get(p) \/ DeleteLog(p) \/ DeleteSnapshot(p) \/ Crash(p)
  PROVE  OrderInv'
<1>1. CASE Get(p)
  BY <1>1 DEF Get, StorageGet, OrderInv, LogInv, StoreTypeOK
<1>2. CASE DeleteLog(p)
  <2>1. Deleting \notin Appends
    BY DEF Deleting, Appends
  <2> QED
    BY <1>2, <2>1 DEF DeleteLog, OrderInv, LogInv, StoreTypeOK
<1>3. CASE DeleteSnapshot(p)
  BY <1>3, IdleAssumption DEF DeleteSnapshot, OrderInv, LogInv, StoreTypeOK
<1>4. CASE Crash(p)
  BY <1>4, IdleAssumption DEF Crash, OrderInv, LogInv, StoreTypeOK
<1> QED
  BY <1>1, <1>2, <1>3, <1>4

\* No event is ever logged twice or out of order, for any number of sessions,
\* stale caches and crashes between any two writes; nor does a snapshot or a
\* cache hold one so.
THEOREM EventsStayInOrder == StoreSpec => []HistoriesInOrder
<1>1. LogInv /\ OrderInv /\ [StoreNext]_storeVars => OrderInv'
  <2>1. ASSUME LogInv, OrderInv, StoreNext PROVE OrderInv'
    <3>1. PICK p \in Sessions : SessionStep(p)
      BY <2>1 DEF StoreNext
    <3> QED
      BY <2>1, <3>1, BeginOrder, AppendOrder, OtherOrder DEF SessionStep
  <2>2. ASSUME OrderInv, UNCHANGED storeVars PROVE OrderInv'
    BY <2>2 DEF storeVars, OrderInv
  <2> QED
    BY <2>1, <2>2
<1>2. OrderInv => HistoriesInOrder
  BY DEF OrderInv, HistoriesInOrder, SortedUpTo
<1> QED
  BY <1>1, <1>2, InitOrder, LogInvariant, PTL DEF StoreSpec
=============================================================================
