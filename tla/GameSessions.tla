---------------------------- MODULE GameSessions ----------------------------
(***************************************************************************)
(* The game gateway (src-tauri/src/modules/game_connections), the registry *)
(* of live sessions and the connection column of the game_instances table  *)
(* (src-tauri/src/modules/instances).  Every WebSocket is served by a task *)
(* of its own that registers the game, enters the registry, loops, and     *)
(* cleans up; a gateway stop and the tail of a server task clean up every  *)
(* session at once.  The registry lock and the database lock are held for  *)
(* one step each, so all of these interleave.                              *)
(***************************************************************************)
EXTENDS Sequences, FiniteSets, SequencesExt

CONSTANTS
  Managed,   \* identifiers that launched instances may be given
  External,  \* row identifiers that games started by the user may be given
  Runtimes,  \* persistent runtime ids of games started by the user
  Conns,     \* bound: connections served at one time
  Servers,   \* bound: server tasks alive at one time
  Ports,     \* gateway ports the settings may hold
  UI,        \* the command thread that starts the gateway
  Worker,    \* the thread of storage repair or of the APP's exit: only stops it
  None

Callers   == {UI, Worker}
Sweepers  == Callers \cup Servers
Instances == Managed \cup External

ASSUME DistinctNames ==
  /\ Managed \cap External = {}
  /\ UI # Worker /\ Servers \cap (Callers \cup {"idle", "stopping", "restarting", "binding"}) = {}
  /\ None \notin Instances \cup Runtimes \cup Conns \cup Sweepers \cup Ports

VARIABLES
  rows,      \* connection_state of every instance, "absent" without a row
  runtimeOf, \* runtime_instance_id of the external rows
  recent,    \* the external rows by connected_at, each once, the latest last
  active,    \* managed instances whose process is launching, running or stopping
  sessions,  \* SessionRegistry.sessions: the connection of each live session
  conn,      \* the tasks of handle_socket, one per connection
  server,    \* the tasks spawned by start and the listener each was given
  running,   \* control.state.running
  shutdown,  \* control.shutdown: the server it would signal
  lock,      \* who holds the control lock
  caller,    \* where the two command threads are
  sweep      \* disconnect_all: what each of its callers has still to do

rowVars  == <<rows, runtimeOf, recent, active>>
gateVars == <<server, running, shutdown, lock, caller>>
vars     == <<rowVars, sessions, conn, gateVars, sweep>>
-----------------------------------------------------------------------------
NoConn    == [phase |-> "idle", inst |-> None, runtime |-> None]
NoServer  == [phase |-> "none", port |-> None]
NoSweep   == [phase |-> "none", left |-> {}]
LiveIds   == {i \in Instances : sessions[i] # None}
Exists(i) == rows[i] # "absent"

Init ==
  /\ rows = [i \in Instances |-> "absent"]
  /\ runtimeOf = [i \in External |-> None]
  /\ recent = <<>>
  /\ active = {}
  /\ sessions = [i \in Instances |-> None]
  /\ conn = [c \in Conns |-> NoConn]
  /\ server = [s \in Servers |-> NoServer]
  /\ running = FALSE
  /\ shutdown = None
  /\ lock = None
  /\ caller = [p \in Callers |-> IF p = UI THEN "binding" ELSE "idle"]
  /\ sweep = [p \in Sweepers |-> NoSweep]
-----------------------------------------------------------------------------
(* handle_socket: one action per use of a lock.                            *)

Goto(c, phase) == conn' = [conn EXCEPT ![c].phase = phase]
Close(c)       == conn' = [conn EXCEPT ![c] = NoConn]

Accepting == \E s \in Servers : server[s].phase \in {"serving", "signalled"}

\* upgrade_websocket; the first message has HELLO_TIMEOUT_MS to arrive, and may
\* be missing, unfit or refused
Accept(c) ==
  /\ Accepting /\ conn[c] = NoConn
  /\ Goto(c, "accepted")
  /\ UNCHANGED <<rowVars, sessions, gateVars, sweep>>

Unwelcome(c) ==
  /\ conn[c].phase = "accepted"
  /\ Close(c)
  /\ UNCHANGED <<rowVars, sessions, gateVars, sweep>>

\* SELECT ... WHERE origin='external' AND runtime_instance_id ORDER BY connected_at DESC
Known(r)     == SelectSeq(recent, LAMBDA i : runtimeOf[i] = r)
\* Uuid::new_v4 is never an identifier in use
Fresh(i)     == /\ ~Exists(i) /\ sessions[i] = None
                /\ \A c \in Conns : conn[c].inst # i
                /\ \A p \in Sweepers : i \notin sweep[p].left
RowFor(i, r) == IF Known(r) = <<>> THEN Fresh(i) ELSE i = Last(Known(r))

\* The hello of a game started by the user: find its row or choose an identifier.
HelloExternal(c, r) ==
  /\ conn[c].phase = "accepted"
  /\ \E i \in External :
       /\ RowFor(i, r)
       /\ conn' = [conn EXCEPT ![c] = [phase |-> "found", inst |-> i, runtime |-> r]]
  /\ UNCHANGED <<rowVars, sessions, gateVars, sweep>>

\* The hello of a launched game that names its instance: the row must exist.
HelloManaged(c, i) ==
  /\ conn[c].phase = "accepted" /\ Exists(i)
  /\ conn' = [conn EXCEPT ![c] = [phase |-> "found", inst |-> i, runtime |-> None]]
  /\ UNCHANGED <<rowVars, sessions, gateVars, sweep>>

\* INSERT ... ON CONFLICT DO UPDATE of an external row, UPDATE of a managed one.
Register(c) ==
  LET i == conn[c].inst IN
  /\ conn[c].phase = "found"
  /\ Goto(c, "registered")
  /\ IF i \in External
     THEN /\ rows' = [rows EXCEPT ![i] = "connected"]
          /\ runtimeOf' = [runtimeOf EXCEPT ![i] = conn[c].runtime]
          /\ recent' = Append(RemoveFirst(recent, i), i)
     ELSE /\ rows' = [rows EXCEPT ![i] = IF Exists(i) THEN "connected" ELSE "absent"]
          /\ UNCHANGED <<runtimeOf, recent>>
  /\ UNCHANGED <<active, sessions, gateVars, sweep>>

\* logs.connection_started: its foreign key refuses an instance without a row.
StartLog(c) ==
  /\ conn[c].phase = "registered"
  /\ IF Exists(conn[c].inst) THEN Goto(c, "admitted") ELSE Close(c)
  /\ UNCHANGED <<rowVars, sessions, gateVars, sweep>>

\* sessions.insert, then welcome: a newer connection replaces the session.
Admit(c) ==
  /\ conn[c].phase = "admitted"
  /\ sessions' = [sessions EXCEPT ![conn[c].inst] = c]
  /\ Goto(c, "open")
  /\ UNCHANGED <<rowVars, gateVars, sweep>>

IsCurrent(c) == sessions[conn[c].inst] = c

\* Mistaken: the loop returns without its cleanup.
HangupUnclean(c) ==
  /\ conn[c].phase = "open"
  /\ Close(c)
  /\ UNCHANGED <<rowVars, sessions, gateVars, sweep>>

\* The peer closes, says goodbye, or is silent for DISCONNECT_TIMEOUT_MS.
Hangup(c) ==
  /\ conn[c].phase = "open"
  /\ Goto(c, "leaving")
  /\ UNCHANGED <<rowVars, sessions, gateVars, sweep>>

\* Mistaken: an entry of another connection counts as its own.
ExpireIfTaken(c) ==
  /\ conn[c].phase = "open" /\ sessions[conn[c].inst] = None
  /\ Goto(c, "leaving")
  /\ UNCHANGED <<rowVars, sessions, gateVars, sweep>>

\* The heartbeat tick of a connection whose session was replaced or taken.
Expire(c) ==
  /\ conn[c].phase = "open" /\ ~IsCurrent(c)
  /\ Goto(c, "leaving")
  /\ UNCHANGED <<rowVars, sessions, gateVars, sweep>>

\* Mistaken: the entry is removed whoever holds it.
LeaveAnyway(c) ==
  /\ conn[c].phase = "leaving"
  /\ sessions' = [sessions EXCEPT ![conn[c].inst] = None]
  /\ Goto(c, "removed")
  /\ UNCHANGED <<rowVars, gateVars, sweep>>

\* remove_if_current
Leave(c) ==
  /\ conn[c].phase = "leaving"
  /\ IF IsCurrent(c)
     THEN /\ sessions' = [sessions EXCEPT ![conn[c].inst] = None]
          /\ Goto(c, "removed")
     ELSE Close(c) /\ UNCHANGED sessions
  /\ UNCHANGED <<rowVars, gateVars, sweep>>

\* mark_disconnected: an UPDATE, which finds no row after a deletion
Disconnected(i) == rows' = [rows EXCEPT ![i] = IF Exists(i) THEN "disconnected" ELSE "absent"]

\* handler.disconnected, after the registry lock was released
ReportLeft(c) ==
  /\ conn[c].phase = "removed"
  /\ Disconnected(conn[c].inst)
  /\ Close(c)
  /\ UNCHANGED <<runtimeOf, recent, active, sessions, gateVars, sweep>>
-----------------------------------------------------------------------------
(* disconnect_all, run by a stop and by the tail of a server task.         *)

\* instance_ids
ListSessions(p) == sweep' = [sweep EXCEPT ![p] = [phase |-> "listed", left |-> LiveIds]]

\* sessions.stop_all: everything in the registry by now, listed or not
TakeSessions(p) ==
  /\ sweep[p].phase = "listed"
  /\ sessions' = [i \in Instances |-> None]
  /\ sweep' = [sweep EXCEPT ![p].phase = "reporting"]
  /\ UNCHANGED <<rowVars, conn, gateVars>>

\* handler.disconnected for one of the listed instances
ReportSwept(p) ==
  /\ sweep[p].phase = "reporting"
  /\ \E i \in sweep[p].left :
       /\ Disconnected(i)
       /\ sweep' = [sweep EXCEPT ![p].left = @ \ {i}]
  /\ UNCHANGED <<runtimeOf, recent, active, sessions, conn, gateVars>>

Swept(p) == sweep[p].phase = "reporting" /\ sweep[p].left = {}
-----------------------------------------------------------------------------
(* stop and start.                                                         *)

\* The shutdown signal, or the end of the control channel of a task that gave up.
Signalled(v) ==
  CASE v.phase = "starting"               -> [v EXCEPT !.phase = "aborted"]
    [] v.phase = "serving"                -> [v EXCEPT !.phase = "signalled"]
    [] v.phase \in {"failed", "stillborn"} -> NoServer
    [] OTHER                              -> v

\* stop, up to instance_ids: the control lock stays held until the sweep is done.
BeginStop(p, next) ==
  /\ caller[p] = "idle" /\ lock = None
  /\ lock' = p
  /\ caller' = [caller EXCEPT ![p] = next]
  /\ server' = IF shutdown = None THEN server
               ELSE [server EXCEPT ![shutdown] = Signalled(@)]
  /\ shutdown' = None
  /\ running' = FALSE
  /\ ListSessions(p)
  /\ UNCHANGED <<rowVars, sessions, conn>>

\* storage repair and exit stop the gateway; settings and restart start it again
Stop    == BeginStop(Worker, "stopping")
Restart == BeginStop(UI, "restarting")

EndStop(p) ==
  /\ lock = p /\ Swept(p)
  /\ lock' = None
  /\ sweep' = [sweep EXCEPT ![p] = NoSweep]
  /\ caller' = [caller EXCEPT ![p] = IF caller[p] = "restarting" THEN "binding" ELSE "idle"]
  /\ UNCHANGED <<rowVars, sessions, conn, server, running, shutdown>>

\* "aborted" was signalled before it adopted its listener.
Listening(q) == \E s \in Servers :
  server[s].port = q /\ server[s].phase \in {"starting", "aborted", "serving", "signalled"}

\* TcpListener::bind and the spawn of the server task
Bind(q) ==
  /\ caller[UI] = "binding" /\ ~Listening(q)
  /\ \E s \in Servers :
       /\ server[s] = NoServer
       /\ server' = [server EXCEPT ![s] = [phase |-> "starting", port |-> q]]
       /\ caller' = [caller EXCEPT ![UI] = s]
  /\ UNCHANGED <<rowVars, sessions, conn, running, shutdown, lock, sweep>>

\* Mistaken: running is set before the listener is bound.
BindFailsReported ==
  /\ caller[UI] = "binding"
  /\ caller' = [caller EXCEPT ![UI] = "idle"]
  /\ running' = TRUE
  /\ UNCHANGED <<rowVars, sessions, conn, server, shutdown, lock, sweep>>

\* gameGatewayBindFailed: the port is taken, by another program or by the
\* listener of the server stopped a moment ago
BindFails ==
  /\ caller[UI] = "binding"
  /\ caller' = [caller EXCEPT ![UI] = "idle"]
  /\ UNCHANGED <<rowVars, sessions, conn, server, running, shutdown, lock, sweep>>

\* control.state = running, control.shutdown = Some(..)
Publish ==
  /\ caller[UI] \in Servers /\ lock = None
  /\ running' = TRUE
  /\ shutdown' = caller[UI]
  /\ caller' = [caller EXCEPT ![UI] = "idle"]
  /\ UNCHANGED <<rowVars, sessions, conn, server, lock, sweep>>

\* TcpListener::from_std, then axum::serve
Adopt(s) ==
  /\ server[s].phase \in {"starting", "aborted"}
  /\ server' = [server EXCEPT ![s].phase = IF @ = "starting" THEN "serving" ELSE "signalled"]
  /\ UNCHANGED <<rowVars, sessions, conn, running, shutdown, lock, caller, sweep>>

\* from_std fails: the listener is dropped
AdoptFails(s) ==
  /\ server[s].phase \in {"starting", "aborted"}
  /\ server' = [server EXCEPT ![s].phase = "failing"]
  /\ UNCHANGED <<rowVars, sessions, conn, running, shutdown, lock, caller, sweep>>

\* The task returns without a server.  It clears `running` as it does, before
\* `start` sets it ("stillborn") or after ("failed"); the control may still
\* hold its shutdown channel.
GiveUp(s) ==
  /\ server[s].phase = "failing" /\ lock = None
  /\ running' = FALSE
  /\ server' = [server EXCEPT ![s] = IF caller[UI] = s THEN [@ EXCEPT !.phase = "stillborn"]
                                    ELSE IF shutdown = s THEN [@ EXCEPT !.phase = "failed"]
                                    ELSE NoServer]
  /\ UNCHANGED <<rowVars, sessions, conn, shutdown, lock, caller, sweep>>

\* axum sees the shutdown signal: the port is free again
Unlisten(s) ==
  /\ server[s].phase = "signalled"
  /\ server' = [server EXCEPT ![s].phase = "draining"]
  /\ UNCHANGED <<rowVars, sessions, conn, running, shutdown, lock, caller, sweep>>

\* axum returns and the tail of the server task lists the sessions
Drain(s) ==
  /\ server[s].phase = "draining"
  /\ server' = [server EXCEPT ![s].phase = "drained"]
  /\ ListSessions(s)
  /\ UNCHANGED <<rowVars, sessions, conn, running, shutdown, lock, caller>>

\* The end of the server task: it clears `running`, whoever set it.
EndServer(s) ==
  /\ server[s].phase = "drained" /\ Swept(s) /\ lock = None
  /\ running' = FALSE
  /\ server' = [server EXCEPT ![s] = NoServer]
  /\ sweep' = [sweep EXCEPT ![s] = NoSweep]
  /\ UNCHANGED <<rowVars, sessions, conn, shutdown, lock, caller>>
-----------------------------------------------------------------------------
(* game_instances from outside the gateway.                                *)

\* launch is told the endpoint of a running gateway and inserts its row.
Launch(i) ==
  /\ i \in Managed /\ Fresh(i)
  /\ running /\ lock = None
  /\ rows' = [rows EXCEPT ![i] = "waiting"]
  /\ active' = active \cup {i}
  /\ UNCHANGED <<runtimeOf, recent, sessions, conn, gateVars, sweep>>

\* monitor: a launched game's process has ended
ProcessEnds(i) ==
  /\ active' = active \ {i}
  /\ i \in active
  /\ UNCHANGED <<rows, runtimeOf, recent, sessions, conn, gateVars, sweep>>

\* InstanceService::delete
Delete(i) ==
  /\ rows[i] \in {"waiting", "disconnected"} /\ i \notin active
  /\ rows' = [rows EXCEPT ![i] = "absent"]
  /\ recent' = RemoveFirst(recent, i)
  /\ runtimeOf' = IF i \in External THEN [runtimeOf EXCEPT ![i] = None] ELSE runtimeOf
  /\ UNCHANGED <<active, sessions, conn, gateVars, sweep>>

\* Mistaken: the process state is written to the connection column.
InterruptedRow(i) == IF Exists(i) THEN "interrupted" ELSE "absent"

\* The APP dies or exits and is started again: mark_interrupted_instances, then start.
ReopenedRow(i)    == IF Exists(i) THEN "disconnected" ELSE "absent"

Reopen ==
  /\ rows' = [i \in Instances |-> ReopenedRow(i)]
  /\ active' = {}
  /\ sessions' = [i \in Instances |-> None]
  /\ conn' = [c \in Conns |-> NoConn]
  /\ server' = [s \in Servers |-> NoServer]
  /\ running' = FALSE /\ shutdown' = None /\ lock' = None
  /\ caller' = [p \in Callers |-> IF p = UI THEN "binding" ELSE "idle"]
  /\ sweep' = [p \in Sweepers |-> NoSweep]
  /\ UNCHANGED <<runtimeOf, recent>>
-----------------------------------------------------------------------------
ServerTask(s) == Adopt(s) \/ AdoptFails(s) \/ GiveUp(s) \/ Unlisten(s) \/ Drain(s) \/ EndServer(s)

Connection(c) ==
  \/ Accept(c) \/ Unwelcome(c)
  \/ \E r \in Runtimes : HelloExternal(c, r)
  \/ \E i \in Managed : HelloManaged(c, i)
  \/ Register(c) \/ StartLog(c) \/ Admit(c)
  \/ Hangup(c) \/ Expire(c) \/ Leave(c) \/ ReportLeft(c)

Next ==
  \/ \E c \in Conns : Connection(c)
  \/ \E p \in Sweepers : TakeSessions(p) \/ ReportSwept(p)
  \/ \E p \in Callers : EndStop(p)
  \/ \E s \in Servers : ServerTask(s)
  \/ \E q \in Ports : Bind(q)
  \/ Stop \/ Restart \/ BindFails \/ Publish \/ Reopen
  \/ \E i \in Instances : Launch(i) \/ ProcessEnds(i) \/ Delete(i)

Spec == Init /\ [][Next]_vars

\* Tasks on the runtime make progress; games and users owe nothing.
FairSpec == Spec /\ \A c \in Conns : WF_vars(Expire(c)) /\ WF_vars(Leave(c)) /\ WF_vars(ReportLeft(c))
-----------------------------------------------------------------------------
TypeOK ==
  /\ rows \in [Instances -> {"absent", "waiting", "connected", "disconnected"}]
  /\ runtimeOf \in [External -> Runtimes \cup {None}]
  /\ recent \in Seq(External)
  /\ active \subseteq Managed
  /\ sessions \in [Instances -> Conns \cup {None}]
  /\ conn \in [Conns -> [phase : {"idle", "accepted", "found", "registered", "admitted", "open", "leaving", "removed"},
                         inst : Instances \cup {None}, runtime : Runtimes \cup {None}]]
  /\ server \in [Servers -> [phase : {"none", "starting", "aborted", "failing", "failed", "stillborn",
                                      "serving", "signalled", "draining", "drained"},
                             port : Ports \cup {None}]]
  /\ running \in BOOLEAN
  /\ shutdown \in Servers \cup {None}
  /\ lock \in Callers \cup {None}
  /\ caller \in [Callers -> {"idle", "stopping", "restarting", "binding"} \cup Servers]
  /\ sweep \in [Sweepers -> [phase : {"none", "listed", "reporting"}, left : SUBSET Instances]]

\* The registry never holds a session whose task has ended: nothing else
\* would ever remove it, and the game would look connected for ever.
NoGhostSession == \A i \in Instances : sessions[i] # None =>
  /\ conn[sessions[i]].phase \in {"open", "leaving"}
  /\ conn[sessions[i]].inst = i

\* The gateway calls itself running, and hands its endpoint to launched
\* games, only while the server it would shut down serves, is about to, or has
\* just failed and is about to clear the flag; a server that was signalled, or
\* that failed after `start` returned, never leaves the flag behind, however
\* stops, restarts and the ends of older servers overlap.  Only a server that
\* gave up before `start` set the flag does.
RunningMeansServing ==
  running => /\ shutdown \in Servers
             /\ server[shutdown].phase \in {"starting", "serving", "failing", "stillborn"}

\* A live session ends by the cleanup of its own connection, by a newer
\* connection of the same game, by a gateway stop or with the APP; the cleanup of a
\* replaced connection never takes the newer one down.
CleanupSparesNewer == [][\A i \in Instances, c \in Conns :
  sessions[i] = c /\ sessions'[i] # c =>
    \/ conn'[c].phase = "removed"
    \/ sessions'[i] # None /\ conn'[sessions'[i]].phase = "open"
    \/ \E p \in Sweepers : sweep[p].phase = "listed" /\ sweep'[p].phase = "reporting"
    \/ conn' = [d \in Conns |-> NoConn]]_vars

\* A connection that lost its place in the registry, replaced by a newer one
\* or taken by a gateway stop, closes.
ReplacedCloses == \A c \in Conns : (conn[c].phase = "open" /\ ~IsCurrent(c)) ~> conn[c] = NoConn
=============================================================================
