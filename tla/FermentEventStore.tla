--------------------------- MODULE FermentEventStore ---------------------------
(***************************************************************************)
(* How one ferment is kept on disk (src/ferment/event-store.ts and the     *)
(* per-process cache of src/ferment/store.ts): a snapshot file and an      *)
(* append-only event log, written one after the other under a lock file,   *)
(* by several sessions, each of which may crash between any two writes.    *)
(*                                                                         *)
(* A ferment is the sequence of the events it is made of, whatever they do *)
(* to it (FermentEvents.tla says that); so a snapshot and a fold are equal *)
(* when they are made of the same events.  A command has one or two        *)
(* events, each an append of its own.                                      *)
(*                                                                         *)
(* Left out: addDecision, addMemory, updateWorktree, writeWithEvents and   *)
(* migrateLegacy, which nothing calls; reading by an id prefix.            *)
(* Bounded here: MaxCommands commands, MaxCrashes crashes.                 *)
(***************************************************************************)
EXTENDS Integers, Sequences, FiniteSets

CONSTANTS
  Sessions,      \* processes that work on the ferment
  MaxCommands,
  MaxCrashes,
  Unlogged,      \* the ferment may start with a snapshot and no log
  Nothing,       \* the file is absent, nothing is cached, nobody holds the lock
  Idle           \* the session is between two calls

ASSUME BoundsAssumption == MaxCommands \in Nat /\ MaxCrashes \in Nat
ASSUME UnloggedAssumption == Unlogged \in BOOLEAN

VARIABLES
  snapshot,      \* <id>.json
  log,           \* <id>.events.jsonl
  logNewer,      \* the log's mtime is not before the snapshot's
  cache,         \* fermentCache of each session
  lock,          \* the session that holds the lock of the ferment
  work,          \* what the holder of the lock still has to write
  issued,        \* commands issued so far
  acked,         \* commands whose caller was told so, of a ferment not deleted since
  crashes

storeVars ==
  <<snapshot, log, logNewer, cache, lock, work, issued, acked, crashes>>

Created == [cmd |-> 0, part |-> 1, parts |-> 1]          \* ferment_created
EventOf(c, k) == [cmd |-> c.cmd, part |-> k, parts |-> c.parts]
EventsOf(c) == [k \in 1..c.parts |-> EventOf(c, k)]

\* A call on the store: it appends the events of a command from the next one on,
\* or it deletes the snapshot, having deleted the log.
Commands == [cmd : 1..MaxCommands, parts : {1, 2}]
Events == [cmd : 0..MaxCommands, part : {1, 2}, parts : {1, 2}]
Histories == Seq(Events)
Deleting == [op |-> "delete"]
Appends == [op : {"append"}, of : Commands, next : {1, 2}]

Appending(c, k) == [op |-> "append", of |-> c, next |-> k]

ASSUME NothingAssumption == Nothing \notin Histories /\ Nothing \notin Sessions
ASSUME IdleAssumption == Idle # Deleting /\ Idle \notin Appends

-----------------------------------------------------------------------------
(* Reading.                                                                 *)

ShouldUseEvents == log # Nothing /\ (snapshot = Nothing \/ logNewer)

\* The fold throws unless the log begins with ferment_created.
FoldIsDefined == log # Nothing => log[1] = Created

\* FermentStorage.get: the cache of the process, or else the file.
StorageGet(p) == IF cache[p] # Nothing THEN cache[p] ELSE snapshot

\* Mutant of Current: the snapshot is always fresh enough.
CurrentSnapshot(p) == StorageGet(p)

Current(p) == IF ShouldUseEvents THEN log ELSE StorageGet(p)

-----------------------------------------------------------------------------
(* Writing.                                                                 *)

\* Mutant of LockFree: a session does not wait for the lock of another.
LockIgnored == TRUE

LockFree == lock = Nothing

\* mutateWithEvents: a command is derived from the current ferment, and its
\* result is written to the snapshot.  When the last append was within a tick of
\* the clock, the log still counts as the newer file.
BeginCommand(p) ==
  /\ work[p] = Idle
  /\ LockFree
  /\ ShouldUseEvents => FoldIsDefined
  /\ Current(p) # Nothing
  /\ issued < MaxCommands
  /\ \E n \in {1, 2} :
       LET c == [cmd |-> issued + 1, parts |-> n]
           post == Current(p) \o EventsOf(c)
       IN /\ snapshot' = post
          /\ cache' = [cache EXCEPT ![p] = post]
          /\ work' = [work EXCEPT ![p] = Appending(c, 1)]
  /\ logNewer' \in BOOLEAN
  /\ lock' = p
  /\ issued' = issued + 1
  /\ UNCHANGED <<log, acked, crashes>>

\* Mutant of Done: the caller is told as soon as anything is logged.
DoneAfterFirst(c, k) == TRUE

Done(c, k) == k = c.parts

\* The next event of the command; the last one ends the call.
AppendEvent(p) ==
  /\ work[p] # Idle /\ work[p].op = "append"
  /\ LET c == work[p].of
         k == work[p].next
         e == EventOf(c, k)
     IN /\ log' = IF log = Nothing THEN <<e>> ELSE Append(log, e)
        /\ logNewer' = TRUE
        /\ acked' = IF Done(c, k) THEN acked \cup {c} ELSE acked
        /\ IF k = c.parts
           THEN work' = [work EXCEPT ![p] = Idle] /\ lock' = Nothing
           ELSE work' = [work EXCEPT ![p] = Appending(c, k + 1)] /\ UNCHANGED lock
  /\ UNCHANGED <<snapshot, cache, issued, crashes>>

\* get, outside the lock; only what it leaves in the cache matters here.
Get(p) ==
  /\ work[p] = Idle
  /\ ~ShouldUseEvents
  /\ cache' = [cache EXCEPT ![p] = StorageGet(p)]
  /\ UNCHANGED <<snapshot, log, logNewer, lock, work, issued, acked, crashes>>

\* delete removes the log first and then the snapshot.
DeleteLog(p) ==
  /\ work[p] = Idle
  /\ LockFree
  /\ snapshot # Nothing
  /\ log' = Nothing
  /\ lock' = p
  /\ work' = [work EXCEPT ![p] = Deleting]
  /\ acked' = {}
  /\ UNCHANGED <<snapshot, logNewer, cache, issued, crashes>>

DeleteSnapshot(p) ==
  /\ work[p] = Deleting
  /\ snapshot' = Nothing
  /\ cache' = [cache EXCEPT ![p] = Nothing]
  /\ lock' = Nothing
  /\ work' = [work EXCEPT ![p] = Idle]
  /\ UNCHANGED <<log, logNewer, issued, acked, crashes>>

\* The process dies; its lock goes stale and is taken over.
Crash(p) ==
  /\ crashes < MaxCrashes
  /\ crashes' = crashes + 1
  /\ cache' = [cache EXCEPT ![p] = Nothing]
  /\ work' = [work EXCEPT ![p] = Idle]
  /\ lock' = IF lock = p THEN Nothing ELSE lock
  /\ UNCHANGED <<snapshot, log, logNewer, issued, acked>>

-----------------------------------------------------------------------------
\* create has written the snapshot and the first event; without that event the
\* ferment is one from before the event log, or its creator crashed.
StoreInit ==
  /\ snapshot = <<Created>>
  /\ log = <<Created>> \/ (Unlogged /\ log = Nothing)
  /\ logNewer = TRUE
  /\ cache = [p \in Sessions |-> Nothing]
  /\ lock = Nothing
  /\ work = [p \in Sessions |-> Idle]
  /\ issued = 0
  /\ acked = {}
  /\ crashes = 0

SessionStep(p) ==
  \/ BeginCommand(p) \/ AppendEvent(p) \/ Get(p)
  \/ DeleteLog(p) \/ DeleteSnapshot(p) \/ Crash(p)

StoreNext == \E p \in Sessions : SessionStep(p)

StoreSpec == StoreInit /\ [][StoreNext]_storeVars

-----------------------------------------------------------------------------
\* Type invariant of the files, the caches and the calls.
StoreTypeOK ==
  /\ snapshot \in Histories \cup {Nothing}
  /\ log \in Histories \cup {Nothing}
  /\ logNewer \in BOOLEAN
  /\ cache \in [Sessions -> Histories \cup {Nothing}]
  /\ lock \in Sessions \cup {Nothing}
  /\ work \in [Sessions -> {Idle, Deleting} \cup Appends]
  /\ issued \in 0..MaxCommands
  /\ acked \subseteq Commands
  /\ crashes \in 0..MaxCrashes

\* A command whose caller was told that it is done is in the log for good, with
\* all its events, whichever sessions crash later and whatever stale cache the
\* next command starts from.
AcknowledgedIsLogged ==
  \A c \in acked : \A k \in 1..c.parts :
    \E i \in DOMAIN log : log[i] = EventOf(c, k)

\* The events of a command stand next to each other in the log: a second event
\* never follows another session's, also when its writer took over the lock of
\* one that crashed.
CommandsAreContiguous ==
  log # Nothing =>
    \A i \in DOMAIN log : log[i].part = 2 =>
      i > 1 /\ log[i - 1] = [log[i] EXCEPT !.part = 1]

\* As long as no session crashes, the two files agree whenever no session is
\* writing: no command starts from a ferment that lacks another's changes, and
\* the session list, which reads the snapshots, shows what get folds.
SnapshotIsFold ==
  crashes = 0 /\ lock = Nothing /\ log # Nothing /\ FoldIsDefined =>
    snapshot = log

\* docs/ferment-storage-schema.md:170, "If no events exist but legacy JSON exists,
\* migrate: parse JSON, generate synthetic events, write both."  So a log that
\* is read begins with the creation of the ferment.
ReadLogIsComplete == ShouldUseEvents => FoldIsDefined
=============================================================================
