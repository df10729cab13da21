---------------------------- MODULE LogCollection ----------------------------
(***************************************************************************)
(* Log collection for one game instance (src-tauri/src/modules/logs and    *)
(* its callers in game_connections and lib.rs).  The game numbers its log  *)
(* events, keeps what is not acknowledged and sends batches; each of its   *)
(* connections is a task that looks up the log session, enters the session *)
(* registry, ingests batches and cleans up.  Every database access is a    *)
(* step of its own.  How a connection gets and loses its place in the      *)
(* registry is the subject of GameSessions and is kept short here.         *)
(***************************************************************************)
EXTENDS Integers, Sequences, FiniteSets, SequencesExt, FiniteSetsExt

CONSTANTS
  Conns,      \* bound: connections served at one time
  Logs,       \* bound: identifiers for rows of log_sessions
  MaxEvents,  \* bound: events of the game, fewer than the retention limits
  MaxFlight,  \* bound: batches on their way on one connection
  MaxOps,     \* bound: operations of the user (pause, resume, delete, repair)
  MaxLosses,  \* bound: connections and gateways that go away
  Pipelined,  \* the game sends a batch before the last one is acknowledged
  None

ASSUME DistinctIds == None \notin Conns \cup Logs
ASSUME BoundsAreNatural ==
  /\ MaxEvents \in Nat /\ MaxFlight \in Nat /\ MaxOps \in Nat /\ MaxLosses \in Nat
  /\ Pipelined \in BOOLEAN

VARIABLES
  \* database
  table,     \* log_sessions: status and latest_sequence, "absent" without a row
  order,     \* its rows by started_at, the latest last
  stored,    \* log_events of each session
  \* APP
  current,   \* the connection in the registry, or None
  conn,      \* the task of each connection
  swept,     \* a gateway stop took the session and has not reported it yet
  command,   \* the log command in progress: "start" or "stop" sent,
             \* "repair" with the gateway stopped, or "none"
  \* game
  emitted,   \* events written so far, numbered from 1
  acked,     \* events the game no longer keeps
  sent,      \* the last event sent on the connection of the game
  allowed,   \* the game may send
  link,      \* the game's connection, or None
  \* messages to the game, the later supersedes the earlier
  ack,       \* log_ack not yet received
  told,      \* logs_control not yet received
  \* history
  persisted, \* every event ever stored
  ops,       \* operations of the user so far
  losses     \* connections and gateways lost so far

db   == <<table, order, stored, persisted>>
app  == <<current, conn, swept, command>>
game == <<emitted, acked, sent, allowed, link>>
wire == <<ack, told>>
vars == <<db, app, game, wire, ops, losses>>
-----------------------------------------------------------------------------
Absent    == [status |-> "absent", cursor |-> 0]
NoConn    == [phase |-> "idle", log |-> None, enabled |-> TRUE, cursor |-> 0, batches |-> <<>>]
Exists(l) == l # None /\ table[l] # Absent
Latest    == IF order = <<>> THEN None ELSE Last(order)
Hung      == link' = None /\ allowed' = FALSE /\ ack' = 0 /\ told' = None

Init ==
  /\ table = [l \in Logs |-> Absent] /\ order = <<>> /\ stored = [l \in Logs |-> {}]
  /\ current = None /\ conn = [c \in Conns |-> NoConn] /\ swept = FALSE /\ command = "none"
  /\ emitted = 0 /\ acked = 0 /\ sent = 0 /\ allowed = FALSE /\ link = None
  /\ ack = 0 /\ told = None
  /\ persisted = {} /\ ops = 0 /\ losses = 0
-----------------------------------------------------------------------------
(* The game, from what docs/ABYA_GAME_RUNTIME_CONTRACT.md asks of it.      *)

Emit ==
  /\ emitted < MaxEvents
  /\ emitted' = emitted + 1
  /\ UNCHANGED <<db, app, acked, sent, allowed, link, wire, ops, losses>>

\* The first event of the next batch: the oldest one kept, or the one after
\* the last batch when the game does not wait for acknowledgements.
NextEvent == IF Pipelined THEN sent + 1 ELSE acked + 1

Send ==
  /\ link # None /\ allowed /\ Len(conn[link].batches) < MaxFlight
  /\ Pipelined \/ conn[link].batches = <<>>
  /\ \E k \in NextEvent..emitted :
       /\ conn' = [conn EXCEPT ![link].batches = Append(@, NextEvent..k)]
       /\ sent' = IF Pipelined THEN k ELSE 0
  /\ UNCHANGED <<db, current, swept, command, emitted, acked, allowed, link, wire, ops, losses>>

\* log_ack and logs_control arrive
HearAck ==
  /\ ack > acked
  /\ acked' = ack
  /\ UNCHANGED <<db, app, emitted, sent, allowed, link, wire, ops, losses>>

HearControl ==
  /\ told # None /\ link # None
  /\ allowed' = told /\ told' = None
  /\ UNCHANGED <<db, app, emitted, acked, sent, link, ack, ops, losses>>

\* The game gives up its connection; what it sent may still be read.
Abandon ==
  /\ link # None /\ losses < MaxLosses
  /\ losses' = losses + 1
  /\ Hung
  /\ UNCHANGED <<db, app, emitted, acked, sent, ops>>
-----------------------------------------------------------------------------
(* handle_socket and connection_started.                                   *)

\* Mistaken: the next sequence instead of the last one.
ResumeAfterNext(l) == IF l = None THEN 0 ELSE table[l].cursor + 1

\* resumeAfterSequence of the session found
ResumeAfter(l)     == IF l = None THEN 0 ELSE table[l].cursor

\* Mistaken: a session that was cut off counts as paused.
EnabledIfStreaming(l) == l # None => table[l].status = "streaming"

\* logsEnabled: a paused session stays paused
Enabled(l)            == l # None => table[l].status # "paused"

\* Mistaken: a status of its own for a resumed session.
ConnectingStatus(enabled) == IF enabled THEN "connecting" ELSE "paused"

ResumedStatus(enabled)    == IF enabled THEN "streaming" ELSE "paused"

\* hello: SELECT the latest log session of the instance
LookUp(c) ==
  /\ conn[c] = NoConn /\ link = None
  /\ conn' = [conn EXCEPT ![c] =
       [phase |-> "looked", log |-> Latest, enabled |-> Enabled(Latest),
        cursor |-> ResumeAfter(Latest), batches |-> <<>>]]
  /\ link' = c
  /\ UNCHANGED <<db, current, swept, command, emitted, acked, sent, allowed, wire, ops, losses>>

\* UPDATE with the status that follows from the one the SELECT found
Resume(c) ==
  /\ conn[c].phase = "looked" /\ conn[c].log # None
  /\ table' = IF ~Exists(conn[c].log) THEN table
              ELSE [table EXCEPT ![conn[c].log].status = ResumedStatus(conn[c].enabled)]
  /\ conn' = [conn EXCEPT ![c].phase = "started"]
  /\ UNCHANGED <<order, stored, persisted, current, swept, command, game, wire, ops, losses>>

Create(c) ==
  /\ conn[c].phase = "looked" /\ conn[c].log = None
  /\ \E l \in Logs :
       /\ table[l] = Absent /\ \A d \in Conns : conn[d].log # l
       /\ table' = [table EXCEPT ![l] = [status |-> "streaming", cursor |-> 0]]
       /\ order' = Append(order, l)
       /\ conn' = [conn EXCEPT ![c].phase = "started", ![c].log = l]
  /\ UNCHANGED <<stored, persisted, current, swept, command, game, wire, ops, losses>>

\* sessions.insert and welcome: the game goes on after resumeAfterSequence
Welcome(c) ==
  /\ conn[c].phase = "started"
  /\ current' = c
  /\ conn' = [conn EXCEPT ![c].phase = "open"]
  /\ IF link = c
     THEN /\ acked' = Max({acked, conn[c].cursor})
          /\ sent' = IF Pipelined THEN acked' ELSE 0
          /\ allowed' = conn[c].enabled
     ELSE UNCHANGED <<acked, sent, allowed>>
  /\ UNCHANGED <<db, swept, command, emitted, link, wire, ops, losses>>

\* The loop ends: the peer is gone, or the session is no longer its own.
Quit(c) ==
  /\ conn[c].phase = "open" /\ (link # c \/ current # c)
  /\ conn' = [conn EXCEPT ![c] = IF current = c THEN [NoConn EXCEPT !.phase = "left"] ELSE NoConn]
  /\ current' = IF current = c THEN None ELSE current
  /\ IF link = c THEN Hung ELSE UNCHANGED <<link, allowed, wire>>
  /\ UNCHANGED <<db, swept, command, emitted, acked, sent, ops, losses>>

\* connection_stopped
Stopped == table' = [l \in Logs |-> IF table[l].status = "streaming"
                                    THEN [table[l] EXCEPT !.status = "disconnected"] ELSE table[l]]

Report(c) ==
  /\ conn[c].phase = "left"
  /\ Stopped
  /\ conn' = [conn EXCEPT ![c] = NoConn]
  /\ UNCHANGED <<order, stored, persisted, current, swept, command, game, wire, ops, losses>>

\* disconnect_all takes the session, and reports it when it had listed it.
Swept == ~swept /\ current' = None /\ swept' \in {FALSE, current # None}

Sweep ==
  /\ losses < MaxLosses /\ losses' = losses + 1
  /\ current # None /\ Swept
  /\ UNCHANGED <<db, conn, command, game, wire, ops>>

ReportSweep ==
  /\ swept
  /\ swept' = FALSE
  /\ Stopped
  /\ UNCHANGED <<order, stored, persisted, current, conn, command, game, wire, ops, losses>>
\* The APP dies and opens its database again: mark_interrupted_instances.
Reopen ==
  /\ losses < MaxLosses
  /\ losses' = losses + 1
  /\ table' = [l \in Logs |-> IF table[l].status = "streaming"
                             THEN [table[l] EXCEPT !.status = "interrupted"] ELSE table[l]]
  /\ conn' = [c \in Conns |-> NoConn]
  /\ current' = None /\ swept' = FALSE /\ command' = "none"
  /\ Hung
  /\ UNCHANGED <<order, stored, persisted, emitted, acked, sent, ops>>
-----------------------------------------------------------------------------
(* ingest_batch                                                            *)

\* An error is answered, or the batch is done; the next one is read.
Done(c) == conn' = [conn EXCEPT ![c].phase = "open", ![c].batches = Tail(@)]

\* latest_session, outside the transaction
Read(c) ==
  /\ conn[c].phase = "open" /\ conn[c].batches # <<>>
  /\ IF Latest = None \/ table[Latest].status = "paused" THEN Done(c)
     ELSE conn' = [conn EXCEPT ![c].phase = "ingesting", ![c].log = Latest,
                               ![c].cursor = table[Latest].cursor]
  /\ UNCHANGED <<db, current, swept, command, game, wire, ops, losses>>

\* Mistaken: off by one.
FreshAfterNext(batch, cursor) == {e \in batch : e > cursor + 1}

\* Events at or below the cursor are skipped, the others inserted or ignored.
Fresh(batch, cursor)          == {e \in batch : e > cursor}
Refused(l) == ~Exists(l) \/ table[l].status = "paused"

\* Mistaken: the cursor in the transaction is not looked at.
CursorAsRead(c, batch) == Max(batch \cup {conn[c].cursor})

\* latest_sequence: the cursor read before the transaction, the one in it, the batch
NewCursor(c, batch)    == Max(batch \cup {table[conn[c].log].cursor, conn[c].cursor})

\* the transaction, and log_ack after its commit
Ingest(c) ==
  LET l     == conn[c].log
      batch == Head(conn[c].batches)
      top   == NewCursor(c, batch)
  IN
  /\ conn[c].phase = "ingesting" /\ ~Refused(l)
  /\ table' = [table EXCEPT ![l] = [status |-> "streaming", cursor |-> top]]
  /\ stored' = [stored EXCEPT ![l] = @ \cup Fresh(batch, table[l].cursor)]
  /\ persisted' = persisted \cup Fresh(batch, table[l].cursor)
  /\ ack' = IF link = c THEN top ELSE ack
  /\ Done(c)
  /\ UNCHANGED <<order, current, swept, command, game, told, ops, losses>>

IngestRefused(c) ==
  /\ conn[c].phase = "ingesting" /\ Refused(conn[c].log)
  /\ Done(c)
  /\ UNCHANGED <<db, current, swept, command, game, wire, ops, losses>>
-----------------------------------------------------------------------------
(* Commands of the user.                                                   *)

Operation == ops < MaxOps /\ ops' = ops + 1

\* set_logs_enabled: needs a session, sends logs_control
Control(what) ==
  /\ Operation /\ command = "none" /\ current # None
  /\ command' = what
  /\ told' = IF link = current THEN (what = "start") ELSE told
  /\ UNCHANGED <<db, current, conn, swept, game, ack, losses>>

\* The UPDATE of the latest session; a pause leaves an interrupted one alone.
MarkControl ==
  /\ command \in {"start", "stop"}
  /\ command' = "none"
  /\ table' = IF Latest = None \/ (command = "stop" /\ table[Latest].status = "interrupted")
              THEN table
              ELSE [table EXCEPT ![Latest].status = IF command = "start" THEN "streaming" ELSE "paused"]
  /\ UNCHANGED <<order, stored, persisted, current, conn, swept, game, wire, ops, losses>>

DeleteSession(l) ==
  /\ Operation /\ Exists(l) /\ table[l].status # "streaming"
  /\ table' = [table EXCEPT ![l] = Absent]
  /\ \E i \in DOMAIN order : order[i] = l /\ order' = RemoveAt(order, i)
  /\ stored' = [stored EXCEPT ![l] = {}]
  /\ UNCHANGED <<persisted, app, game, wire, losses>>

\* storage repair stops the gateway first
BeginRepair ==
  /\ Operation /\ command = "none"
  /\ command' = "repair"
  /\ Swept
  /\ UNCHANGED <<db, conn, game, wire, losses>>

\* repair_storage: pauses every session and deletes every event
Repair ==
  /\ command = "repair" /\ ~swept
  /\ command' = "none"
  /\ table' = [l \in Logs |-> IF Exists(l) THEN [table[l] EXCEPT !.status = "paused"] ELSE Absent]
  /\ stored' = [l \in Logs |-> {}]
  /\ UNCHANGED <<order, persisted, current, conn, swept, game, wire, ops, losses>>
-----------------------------------------------------------------------------
Connection(c) ==
  \/ LookUp(c) \/ Resume(c) \/ Create(c) \/ Welcome(c) \/ Quit(c) \/ Report(c)
  \/ Read(c) \/ Ingest(c) \/ IngestRefused(c)

Next ==
  \/ \E c \in Conns : Connection(c)
  \/ Emit \/ Send \/ HearAck \/ HearControl \/ Abandon
  \/ Sweep \/ ReportSweep \/ Reopen
  \/ Control("start") \/ Control("stop") \/ MarkControl
  \/ \E l \in Logs : DeleteSession(l)
  \/ BeginRepair \/ Repair

Spec == Init /\ [][Next]_vars

\* Tasks run on; the game connects again, sends what it keeps and hears answers.
FairSpec ==
  /\ Spec
  /\ \A c \in Conns : WF_vars(Connection(c))
  /\ SF_vars(Send) /\ WF_vars(HearAck)
-----------------------------------------------------------------------------
TypeOK ==
  /\ table \in [Logs -> [status : {"absent", "streaming", "paused", "disconnected", "interrupted"},
                         cursor : 0..MaxEvents]]
  /\ order \in Seq(Logs) /\ stored \in [Logs -> SUBSET (1..MaxEvents)]
  /\ current \in Conns \cup {None} /\ swept \in BOOLEAN /\ command \in {"none", "start", "stop", "repair"}
  /\ conn \in [Conns -> [phase : {"idle", "looked", "started", "open", "ingesting", "left"},
                        log : Logs \cup {None}, enabled : BOOLEAN, cursor : 0..MaxEvents,
                        batches : Seq(SUBSET (1..MaxEvents))]]
  /\ {emitted, acked, sent, ack} \subseteq 0..MaxEvents
  /\ allowed \in BOOLEAN /\ link \in Conns \cup {None} /\ told \in BOOLEAN \cup {None}
  /\ persisted \subseteq 1..MaxEvents /\ ops \in 0..MaxOps /\ losses \in 0..MaxLosses

\* docs/ABYA_GAME_RUNTIME_CONTRACT.md: what is not acknowledged is replayed
\* after resumeAfterSequence; so an acknowledgement, and the cursor of a log
\* session, cover nothing that was not stored.
NothingSkipped ==
  /\ 1..Max({ack, acked}) \subseteq persisted
  /\ \A l \in Logs : 1..table[l].cursor \subseteq persisted

\* Two connections may ingest at a time from what each read before its
\* transaction; the cursor of a session never moves back.
CursorNeverBack == [][\A l \in Logs :
  Exists(l) /\ table'[l] # Absent => table'[l].cursor >= table[l].cursor]_vars

\* Whatever connections, batches and acknowledgements are lost or repeated,
\* the desktop stores the events of a game that waits for acknowledgements
\* in order and the game forgets only stored ones.
Log == INSTANCE ReliableLog
ImplementsReliableLog == Log!Spec

\* An event is stored in the end: the game's retries meet a desktop that
\* neither loses its place nor drops a batch for ever.
EventsArrive == \A e \in 1..MaxEvents : emitted >= e ~> e \in persisted
=============================================================================
