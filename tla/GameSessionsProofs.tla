------------------------ MODULE GameSessionsProofs ------------------------
(* Proofs about GameSessions: the registry holds only sessions whose task  *)
(* still has to clean up, and the gateway does not say it is running over  *)
(* a server that was stopped or that failed after start returned.          *)
EXTENDS GameSessions, TLAPS

-----------------------------------------------------------------------------
(* Sessions.                                                               *)

ConnType == [phase : {"idle", "accepted", "found", "registered", "admitted", "open", "leaving", "removed"},
             inst : Instances \cup {None}, runtime : Runtimes \cup {None}]

SessionTypes ==
  /\ conn \in [Conns -> ConnType]
  /\ sessions \in [Instances -> Conns \cup {None}]

\* A connection past its hello has an instance.
Named == \A c \in Conns : conn[c].phase \notin {"idle", "accepted"} => conn[c].inst \in Instances

SessionInv == SessionTypes /\ Named /\ NoGhostSession

\* A connection that has no session, or keeps what a session needs, may change freely.
LEMMA ConnChanges ==
  ASSUME SessionInv, NEW c \in Conns, NEW r \in ConnType, UNCHANGED sessions,
         conn' = [conn EXCEPT ![c] = r],
         r.phase \notin {"idle", "accepted"} => r.inst \in Instances,
         \A i \in Instances : sessions[i] = c => r.phase \in {"open", "leaving"} /\ r.inst = i
  PROVE  SessionInv'
<1>1. SessionTypes'
  BY DEF SessionInv, SessionTypes
<1>2. Named'
  BY DEF SessionInv, SessionTypes, Named
<1>3. NoGhostSession'
  BY DEF SessionInv, SessionTypes, NoGhostSession
<1> QED
  BY <1>1, <1>2, <1>3 DEF SessionInv

\* Goto is such a change when the phase before had no session, or the phase after has one.
LEMMA GotoChanges ==
  ASSUME SessionInv, NEW c \in Conns, UNCHANGED sessions,
         conn[c].phase \notin {"idle", "accepted"},
         NEW phase \in {"found", "registered", "admitted", "open", "leaving", "removed"},
         Goto(c, phase),
         phase \in {"open", "leaving"} \/ conn[c].phase \notin {"open", "leaving"}
  PROVE  SessionInv'
<1> DEFINE r == [conn[c] EXCEPT !.phase = phase]
<1>1. conn[c] \in ConnType
  BY DEF SessionInv, SessionTypes
<1>2. /\ r \in ConnType
      /\ r.phase = phase
      /\ r.inst = conn[c].inst
  BY <1>1 DEF ConnType
<1>3. conn' = [conn EXCEPT ![c] = r]
  BY DEF Goto
<1>4. conn[c].inst \in Instances
  BY DEF SessionInv, Named
<1>5. \A i \in Instances : sessions[i] = c => conn[c].inst = i /\ conn[c].phase \in {"open", "leaving"}
  BY DistinctNames DEF SessionInv, NoGhostSession
<1>6. \A i \in Instances : sessions[i] = c => r.phase \in {"open", "leaving"} /\ r.inst = i
  BY <1>2, <1>5
<1> HIDE DEF r
<1> QED
  BY <1>2, <1>3, <1>4, <1>6, ConnChanges

\* So is Close when the connection has no session.
LEMMA CloseChanges ==
  ASSUME SessionInv, NEW c \in Conns, UNCHANGED sessions, Close(c),
         \A i \in Instances : sessions[i] # c
  PROVE  SessionInv'
<1>1. NoConn \in ConnType /\ NoConn.phase = "idle"
  BY DEF NoConn, ConnType
<1>2. conn' = [conn EXCEPT ![c] = NoConn]
  BY DEF Close
<1> QED
  BY <1>1, <1>2, ConnChanges

\* Only a connection in its loop or its cleanup has a session, its own.
LEMMA SessionOf ==
  ASSUME SessionInv, NEW c \in Conns, NEW i \in Instances, sessions[i] = c
  PROVE  conn[c].phase \in {"open", "leaving"} /\ conn[c].inst = i
BY DistinctNames DEF SessionInv, NoGhostSession

\* Every step of handle_socket keeps the registry free of ghosts.
LEMMA ConnectionSessions ==
  ASSUME SessionInv, NEW c \in Conns, Connection(c)
  PROVE  SessionInv'
<1>1. ASSUME NEW r \in Runtimes, HelloExternal(c, r) PROVE SessionInv'
  <2>1. PICK i \in External : conn' = [conn EXCEPT ![c] = [phase |-> "found", inst |-> i, runtime |-> r]]
    BY <1>1 DEF HelloExternal
  <2>2. [phase |-> "found", inst |-> i, runtime |-> r] \in ConnType /\ i \in Instances
    BY DEF ConnType, Instances
  <2>3. conn[c].phase = "accepted" /\ UNCHANGED sessions
    BY <1>1 DEF HelloExternal
  <2>4. \A j \in Instances : sessions[j] # c
    BY <2>3, SessionOf
  <2> QED
    BY <2>1, <2>2, <2>3, <2>4, ConnChanges
<1>2. ASSUME NEW i \in Managed, HelloManaged(c, i) PROVE SessionInv'
  <2>1. [phase |-> "found", inst |-> i, runtime |-> None] \in ConnType /\ i \in Instances
    BY DEF ConnType, Instances
  <2>2. conn[c].phase = "accepted" /\ UNCHANGED sessions
    BY <1>2 DEF HelloManaged
  <2>3. \A j \in Instances : sessions[j] # c
    BY <2>2, SessionOf
  <2> QED
    BY <1>2, <2>1, <2>2, <2>3, ConnChanges DEF HelloManaged
<1>3. CASE Register(c)
  BY <1>3, GotoChanges DEF Register
<1>4. CASE StartLog(c)
  BY <1>4, GotoChanges, CloseChanges, SessionOf DEF StartLog
<1>5. CASE Admit(c)
  <2> DEFINE i == conn[c].inst
  <2>1. i \in Instances /\ conn[c].phase = "admitted" /\ conn[c] \in ConnType
    BY <1>5 DEF Admit, SessionInv, SessionTypes, Named
  <2>2. sessions' = [sessions EXCEPT ![i] = c] /\ conn' = [conn EXCEPT ![c].phase = "open"]
    BY <1>5 DEF Admit, Goto
  <2>3. \A j \in Instances : sessions[j] # c
    BY <2>1, SessionOf
  <2>4. SessionTypes'
    BY <2>1, <2>2 DEF SessionInv, SessionTypes, ConnType
  <2>5. Named'
    BY <2>1, <2>2 DEF SessionInv, SessionTypes, Named, ConnType
  <2>6. \A j \in Instances : j # i => sessions'[j] = sessions[j]
    BY <2>1, <2>2 DEF SessionInv, SessionTypes
  <2>7. \A d \in Conns : d # c => conn'[d] = conn[d]
    BY <2>2 DEF SessionInv, SessionTypes
  <2>8. sessions'[i] = c /\ conn'[c].phase = "open" /\ conn'[c].inst = i
    BY <2>1, <2>2 DEF SessionInv, SessionTypes, ConnType
  <2>9. ASSUME NEW j \in Instances, sessions'[j] # None
        PROVE  conn'[sessions'[j]].phase \in {"open", "leaving"} /\ conn'[sessions'[j]].inst = j
    <3>1. CASE j = i
      BY <2>8, <3>1
    <3>2. CASE j # i
      <4>1. sessions'[j] = sessions[j] /\ sessions[j] # c /\ sessions[j] \in Conns
        BY <2>1, <2>3, <2>6, <2>9, <3>2 DEF SessionInv, SessionTypes
      <4> QED
        BY <2>7, <2>9, <4>1, SessionOf
    <3> QED
      BY <3>1, <3>2
  <2> QED
    BY <2>4, <2>5, <2>9 DEF SessionInv, NoGhostSession
<1>6. CASE Hangup(c)
  BY <1>6, GotoChanges DEF Hangup
<1>7. CASE Expire(c)
  BY <1>7, GotoChanges DEF Expire
<1>8. CASE Leave(c)
  <2>1. CASE ~IsCurrent(c)
    <3>1. \A i \in Instances : sessions[i] # c
      BY <2>1, SessionOf DEF IsCurrent
    <3> QED
      BY <1>8, <2>1, <3>1, CloseChanges DEF Leave
  <2>2. CASE IsCurrent(c)
    <3> DEFINE i == conn[c].inst
    <3>1. i \in Instances /\ conn[c].phase = "leaving" /\ conn[c] \in ConnType
      BY <1>8 DEF Leave, SessionInv, SessionTypes, Named
    <3>2. sessions' = [sessions EXCEPT ![i] = None] /\ conn' = [conn EXCEPT ![c].phase = "removed"]
      BY <1>8, <2>2 DEF Leave, Goto
    <3>3. SessionTypes'
      BY <3>1, <3>2 DEF SessionInv, SessionTypes, ConnType
    <3>4. Named'
      BY <3>1, <3>2 DEF SessionInv, SessionTypes, Named, ConnType
    <3>5. ASSUME NEW j \in Instances, sessions'[j] # None
          PROVE  conn'[sessions'[j]].phase \in {"open", "leaving"} /\ conn'[sessions'[j]].inst = j
      <4>1. j # i /\ sessions'[j] = sessions[j] /\ sessions[j] \in Conns
        BY <3>1, <3>2, <3>5 DEF SessionInv, SessionTypes
      <4>2. sessions[j] # c
        BY <4>1, SessionOf
      <4>3. conn'[sessions[j]] = conn[sessions[j]]
        BY <3>2, <4>1, <4>2 DEF SessionInv, SessionTypes
      <4> QED
        BY <4>1, <4>3, SessionOf
    <3> QED
      BY <3>3, <3>4, <3>5 DEF SessionInv, NoGhostSession
  <2> QED
    BY <2>1, <2>2
<1>9. CASE ReportLeft(c)
  BY <1>9, CloseChanges, SessionOf DEF ReportLeft
<1>10. CASE Accept(c)
  <2> DEFINE r == [NoConn EXCEPT !.phase = "accepted"]
  <2>1. r \in ConnType /\ r.phase = "accepted"
    BY DEF NoConn, ConnType
  <2>2. conn[c] = NoConn /\ conn' = [conn EXCEPT ![c] = r] /\ UNCHANGED sessions
    BY <1>10 DEF Accept, Goto
  <2>3. \A i \in Instances : sessions[i] # c
    BY <2>2, SessionOf DEF NoConn
  <2> HIDE DEF r
  <2> QED
    BY <2>1, <2>2, <2>3, ConnChanges
<1>11. CASE Unwelcome(c)
  BY <1>11, CloseChanges, SessionOf DEF Unwelcome
<1> QED
  BY <1>1, <1>2, <1>3, <1>4, <1>5, <1>6, <1>7, <1>8, <1>9, <1>10, <1>11 DEF Connection

\* The registry may be emptied at any time.
LEMMA EmptySessions ==
  ASSUME SessionInv, UNCHANGED conn, sessions' = [i \in Instances |-> None]
  PROVE  SessionInv'
BY DEF SessionInv, SessionTypes, Named, NoGhostSession

\* A step that touches neither connections nor the registry changes nothing here.
LEMMA SameSessions ==
  ASSUME SessionInv, UNCHANGED <<sessions, conn>>
  PROVE  SessionInv'
BY DEF SessionInv, SessionTypes, Named, NoGhostSession

LEMMA SweepSessions ==
  ASSUME SessionInv, NEW p \in Sweepers, TakeSessions(p) \/ ReportSwept(p)
  PROVE  SessionInv'
BY EmptySessions, SameSessions DEF TakeSessions, ReportSwept

LEMMA GatewaySessions ==
  ASSUME SessionInv,
         \/ \E p \in Callers : EndStop(p)
         \/ \E s \in Servers : ServerTask(s)
         \/ \E q \in Ports : Bind(q)
         \/ Stop \/ Restart \/ BindFails \/ Publish
  PROVE  SessionInv'
<1>1. UNCHANGED <<sessions, conn>>
  BY DEF EndStop, ServerTask, Adopt, AdoptFails, GiveUp, Unlisten, Drain, EndServer, Bind, Stop, Restart, BeginStop, BindFails, Publish
<1> QED
  BY <1>1, SameSessions

\* Every connection past its hello has an instance, and every session a task
\* that will clean it up.
THEOREM SessionInvariant == Spec => []SessionInv
<1>1. Init => SessionInv
  BY DEF Init, SessionInv, SessionTypes, Named, NoGhostSession, ConnType, NoConn
<1>2. SessionInv /\ [Next]_vars => SessionInv'
  <2> SUFFICES ASSUME SessionInv, [Next]_vars PROVE SessionInv'
    OBVIOUS
  <2>1. ASSUME NEW c \in Conns, Connection(c) PROVE SessionInv'
    BY <2>1, ConnectionSessions
  <2>2. ASSUME NEW p \in Sweepers, TakeSessions(p) \/ ReportSwept(p) PROVE SessionInv'
    BY <2>2, SweepSessions
  <2>3. ASSUME \/ \E p \in Callers : EndStop(p)
               \/ \E s \in Servers : ServerTask(s)
               \/ \E q \in Ports : Bind(q)
               \/ Stop \/ Restart \/ BindFails \/ Publish
        PROVE  SessionInv'
    BY <2>3, GatewaySessions
  <2>4. ASSUME NEW i \in Instances, Launch(i) \/ ProcessEnds(i) \/ Delete(i) PROVE SessionInv'
    BY <2>4, SameSessions DEF Launch, ProcessEnds, Delete
  <2>5. CASE Reopen
    BY <2>5 DEF Reopen, SessionInv, SessionTypes, Named, NoGhostSession, ConnType, NoConn
  <2>6. CASE UNCHANGED vars
    BY <2>6, SameSessions DEF vars
  <2> QED
    BY <2>1, <2>2, <2>3, <2>4, <2>5, <2>6 DEF Next
<1> QED
  BY <1>1, <1>2, PTL DEF Spec

\* Nothing that is in the registry is without a task that will take it out
\* again, whatever connections, stops and server tails overlap.
THEOREM NoGhosts == Spec => []NoGhostSession
<1>1. SessionInv => NoGhostSession
  BY DEF SessionInv
<1> QED
  BY <1>1, SessionInvariant, PTL
-----------------------------------------------------------------------------
(* Cleanups.                                                               *)

SweepTypes ==
  sweep \in [Sweepers -> [phase : {"none", "listed", "reporting"}, left : SUBSET Instances]]

\* disconnect_all goes through its phases for each of its callers.
LEMMA SweepIsTyped == Spec => []SweepTypes
<1>1. Init => SweepTypes
  BY DEF Init, SweepTypes, NoSweep
<1>2. SweepTypes /\ [Next]_vars => SweepTypes'
  <2> SUFFICES ASSUME SweepTypes, [Next]_vars PROVE SweepTypes'
    OBVIOUS
  <2>1. ASSUME NEW p \in Sweepers, ListSessions(p) PROVE SweepTypes'
    BY <2>1 DEF ListSessions, SweepTypes, LiveIds
  <2>2. ASSUME NEW p \in Sweepers, TakeSessions(p) \/ ReportSwept(p) PROVE SweepTypes'
    BY <2>2 DEF TakeSessions, ReportSwept, SweepTypes
  <2>3. ASSUME NEW p \in Sweepers, sweep' = [sweep EXCEPT ![p] = NoSweep] PROVE SweepTypes'
    BY <2>3 DEF NoSweep, SweepTypes
  <2>4. CASE UNCHANGED sweep
    BY <2>4 DEF SweepTypes
  <2>5. ASSUME NEW c \in Conns, Connection(c) PROVE UNCHANGED sweep
    BY <2>5 DEF Connection, Accept, Unwelcome, HelloExternal, HelloManaged, Register, StartLog, Admit,
                Hangup, Expire, Leave, ReportLeft
  <2>6. ASSUME NEW p \in Callers, EndStop(p) PROVE SweepTypes'
    BY <2>3, <2>6 DEF EndStop, Sweepers
  <2>7. ASSUME NEW s \in Servers, ServerTask(s) PROVE SweepTypes'
    BY <2>1, <2>3, <2>4, <2>7 DEF ServerTask, Adopt, AdoptFails, GiveUp, Unlisten, Drain, EndServer, Sweepers
  <2>8. ASSUME (\E q \in Ports : Bind(q)) \/ BindFails \/ Publish PROVE UNCHANGED sweep
    BY <2>8 DEF Bind, BindFails, Publish
  <2>9. CASE Stop \/ Restart
    BY <2>1, <2>9 DEF Stop, Restart, BeginStop, Callers, Sweepers
  <2>10. CASE Reopen
    BY <2>10 DEF Reopen, NoSweep, SweepTypes
  <2>11. ASSUME NEW i \in Instances, Launch(i) \/ ProcessEnds(i) \/ Delete(i) PROVE UNCHANGED sweep
    BY <2>11 DEF Launch, ProcessEnds, Delete
  <2>12. CASE UNCHANGED vars
    BY <2>4, <2>12 DEF vars
  <2> QED
    BY <2>2, <2>4, <2>5, <2>6, <2>7, <2>8, <2>9, <2>10, <2>11, <2>12 DEF Next
<1> QED
  BY <1>1, <1>2, PTL DEF Spec

\* How the session of c for instance i may end.
Spared(i, c) ==
  \/ conn'[c].phase = "removed"
  \/ sessions'[i] # None /\ conn'[sessions'[i]].phase = "open"
  \/ \E p \in Sweepers : sweep[p].phase = "listed" /\ sweep'[p].phase = "reporting"
  \/ conn' = [d \in Conns |-> NoConn]

\* Only Admit, Leave, a gateway stop and the end of the APP write the registry.
LEMMA StepSpares ==
  ASSUME SessionInv, SweepTypes, Next,
         NEW i \in Instances, NEW c \in Conns, sessions[i] = c, sessions'[i] # c
  PROVE  Spared(i, c)
<1>1. ASSUME NEW d \in Conns, Connection(d) PROVE Spared(i, c)
  <2>1. CASE Admit(d)
    <3>1. conn[d].inst \in Instances /\ d # None
      BY <2>1, DistinctNames DEF Admit, SessionInv, Named
    <3>2. i = conn[d].inst /\ sessions'[i] = d
      BY <2>1, <3>1 DEF Admit, SessionInv, SessionTypes
    <3>3. conn'[d].phase = "open"
      BY <2>1 DEF Admit, Goto, SessionInv, SessionTypes, ConnType
    <3> QED
      BY <3>1, <3>2, <3>3 DEF Spared
  <2>2. CASE Leave(d)
    <3>1. IsCurrent(d) /\ i = conn[d].inst /\ Goto(d, "removed")
      BY <2>2 DEF Leave, SessionInv, SessionTypes
    <3>2. c = d
      BY <3>1 DEF IsCurrent
    <3> QED
      BY <3>1, <3>2 DEF Spared, Goto, SessionInv, SessionTypes, ConnType
  <2>3. CASE ~Admit(d) /\ ~Leave(d)
    <3>1. UNCHANGED sessions
      BY <1>1, <2>3 DEF Connection, Accept, Unwelcome, HelloExternal, HelloManaged, Register, StartLog,
                        Hangup, Expire, ReportLeft
    <3> QED
      BY <3>1
  <2> QED
    BY <2>1, <2>2, <2>3
<1>2. ASSUME NEW p \in Sweepers, TakeSessions(p) \/ ReportSwept(p) PROVE Spared(i, c)
  <2>1. TakeSessions(p)
    BY <1>2 DEF ReportSwept
  <2> QED
    BY <2>1 DEF TakeSessions, SweepTypes, Spared
<1>3. CASE Reopen
  BY <1>3 DEF Reopen, Spared
<1>4. ASSUME \/ \E p \in Callers : EndStop(p)
             \/ \E s \in Servers : ServerTask(s)
             \/ \E q \in Ports : Bind(q)
             \/ Stop \/ Restart \/ BindFails \/ Publish
             \/ \E j \in Instances : Launch(j) \/ ProcessEnds(j) \/ Delete(j)
      PROVE  UNCHANGED sessions
  BY <1>4 DEF EndStop, ServerTask, Adopt, AdoptFails, GiveUp, Unlisten, Drain, EndServer, Bind, Stop, Restart, BeginStop, BindFails,
              Publish, Launch, ProcessEnds, Delete
<1> QED
  BY <1>1, <1>2, <1>3, <1>4 DEF Next

\* The cleanup of a replaced connection never takes the newer session down.
THEOREM NewerIsSpared == Spec => CleanupSparesNewer
<1>1. SessionInv /\ SweepTypes /\ [Next]_vars =>
        [\A i \in Instances, c \in Conns : sessions[i] = c /\ sessions'[i] # c =>
           \/ conn'[c].phase = "removed"
           \/ sessions'[i] # None /\ conn'[sessions'[i]].phase = "open"
           \/ \E p \in Sweepers : sweep[p].phase = "listed" /\ sweep'[p].phase = "reporting"
           \/ conn' = [d \in Conns |-> NoConn]]_vars
  BY StepSpares DEF Spared
<1> QED
  BY <1>1, SessionInvariant, SweepIsTyped, PTL DEF Spec, CleanupSparesNewer
-----------------------------------------------------------------------------
(* The gateway.                                                            *)

ServerType == [phase : {"none", "starting", "aborted", "failing", "failed", "stillborn",
                        "serving", "signalled", "draining", "drained"},
               port : Ports \cup {None}]

GateTypes ==
  /\ server \in [Servers -> ServerType]
  /\ caller \in [Callers -> {"idle", "stopping", "restarting", "binding"} \cup Servers]
  /\ shutdown \in Servers \cup {None}

\* The server that start has spawned and not yet published was not signalled
\* and has not ended unnoticed, nor has the one that a stop would signal: if
\* that one failed after start returned, it has cleared the flag.  They are
\* never the same one.
Hopeful == {"starting", "serving", "failing", "stillborn"}

Up(s) == server[s].phase \in Hopeful

GateInv ==
  /\ GateTypes
  /\ shutdown # None => Up(shutdown) \/ server[shutdown].phase = "failed"
  /\ caller[UI] \in Servers => Up(caller[UI]) /\ caller[UI] # shutdown
  /\ running => shutdown # None /\ Up(shutdown)

\* Steps that leave the servers and the callers alone.
LEMMA SameGate ==
  ASSUME GateInv, UNCHANGED <<server, caller, shutdown, running>>
  PROVE  GateInv'
BY DEF GateInv, GateTypes, Up

\* A stop signals the published server and forgets it in the same step.
LEMMA StopGate ==
  ASSUME GateInv, NEW p \in Callers, NEW next \in {"stopping", "restarting"}, BeginStop(p, next)
  PROVE  GateInv'
<1> USE DistinctNames DEF GateInv
<1>1. GateTypes'
  BY DEF BeginStop, Signalled, NoServer, GateTypes, ServerType
<1>2. shutdown' = None /\ running' = FALSE
  BY DEF BeginStop
<1>3. ASSUME caller'[UI] \in Servers PROVE server'[caller'[UI]].phase \in Hopeful
  <2>1. caller'[UI] = caller[UI]
    <3>1. caller' = [caller EXCEPT ![p] = next] /\ caller \in [Callers -> {"idle", "stopping", "restarting", "binding"} \cup Servers]
      BY DEF BeginStop, GateTypes
    <3>2. UI \in Callers /\ next \notin Servers
      BY DEF Callers
    <3>3. p # UI
      BY <1>3, <3>1, <3>2
    <3> QED
      BY <3>1, <3>3
  <2>2. Up(caller[UI]) /\ caller[UI] # shutdown
    BY <1>3, <2>1
  <2>3. server'[caller[UI]] = server[caller[UI]]
    BY <1>3, <2>1, <2>2 DEF BeginStop, GateTypes
  <2> QED
    BY <2>1, <2>2, <2>3 DEF Up
<1>4. caller'[UI] \in Servers => caller'[UI] # None
  BY DEF Sweepers
<1> QED
  BY <1>1, <1>2, <1>3, <1>4 DEF Up

\* start binds a server task that is not in use, and publishes it afterwards.
LEMMA StartGate ==
  ASSUME GateInv, (\E q \in Ports : Bind(q)) \/ BindFails \/ Publish
  PROVE  GateInv'
<1> USE DistinctNames DEF GateInv, Callers, Sweepers
<1>1. CASE \E q \in Ports : Bind(q)
  <2>1. PICK q \in Ports, s \in Servers :
          /\ server[s] = NoServer
          /\ server' = [server EXCEPT ![s] = [phase |-> "starting", port |-> q]]
          /\ caller' = [caller EXCEPT ![UI] = s]
          /\ UNCHANGED <<running, shutdown>>
    BY <1>1 DEF Bind
  <2>2. GateTypes'
    BY <2>1 DEF GateTypes, ServerType
  <2>3. ~Up(s) /\ server[s].phase # "failed"
    BY <2>1 DEF NoServer, Up, Hopeful
  <2>4. s # shutdown
    BY <2>3
  <2>5. caller'[UI] = s /\ server'[s].phase \in Hopeful
    BY <2>1 DEF GateTypes, Hopeful
  <2>6. shutdown # None => server'[shutdown] = server[shutdown]
    BY <2>1, <2>4 DEF GateTypes
  <2> QED
    BY <2>1, <2>2, <2>4, <2>5, <2>6 DEF Up
<1>2. CASE BindFails
  <2>1. GateTypes' /\ caller'[UI] = "idle"
    BY <1>2 DEF BindFails, GateTypes
  <2> QED
    BY <1>2, <2>1 DEF BindFails, Up
<1>3. CASE Publish
  <2>1. GateTypes' /\ caller'[UI] = "idle"
    BY <1>3 DEF Publish, GateTypes
  <2> QED
    BY <1>3, <2>1 DEF Publish, Up
<1> QED
  BY <1>1, <1>2, <1>3

\* A server that was signalled, stops listening and ends, and one that gives
\* up clears the flag.
LEMMA TailGate ==
  ASSUME GateInv, NEW s \in Servers, ServerTask(s)
  PROVE  GateInv'
<1> USE DistinctNames DEF GateInv, Hopeful
<1>1. \A t \in Servers : t # s => server'[t] = server[t]
  BY DEF ServerTask, Adopt, AdoptFails, GiveUp, Unlisten, Drain, EndServer, GateTypes
<1>2. UNCHANGED <<caller, shutdown>> /\ (running' => running)
  BY DEF ServerTask, Adopt, AdoptFails, GiveUp, Unlisten, Drain, EndServer
<1>3. CASE Adopt(s)
  <2>1. GateTypes' /\ (Up(s) => Up(s)')
    BY <1>3 DEF Adopt, GateTypes, ServerType, Up
  <2>2. server[s].phase # "failed"
    BY <1>3 DEF Adopt
  <2> QED
    BY <1>1, <1>2, <2>1, <2>2 DEF GateTypes, Up
<1>4. CASE AdoptFails(s)
  <2>1. GateTypes' /\ (Up(s) => Up(s)')
    BY <1>4 DEF AdoptFails, GateTypes, ServerType, Up
  <2>2. server[s].phase # "failed"
    BY <1>4 DEF AdoptFails
  <2> QED
    BY <1>1, <1>2, <2>1, <2>2 DEF GateTypes, Up
<1>5. CASE GiveUp(s)
  <2>1. GateTypes'
    BY <1>5 DEF GiveUp, GateTypes, ServerType, NoServer
  <2>2. /\ caller[UI] = s => server'[s].phase = "stillborn"
        /\ caller[UI] # s /\ shutdown = s => server'[s].phase = "failed"
    BY <1>5 DEF GiveUp, GateTypes, ServerType
  <2>3. ~running'
    BY <1>5 DEF GiveUp
  <2> QED
    BY <1>1, <1>2, <2>1, <2>2, <2>3 DEF GateTypes, Up
<1>6. CASE Unlisten(s) \/ Drain(s) \/ EndServer(s)
  <2>1. GateTypes'
    BY <1>6 DEF Unlisten, Drain, EndServer, GateTypes, ServerType, NoServer
  <2>2. ~Up(s) /\ server[s].phase # "failed"
    BY <1>6 DEF Unlisten, Drain, EndServer, Up
  <2> QED
    BY <1>1, <1>2, <2>1, <2>2 DEF GateTypes, Up
<1> QED
  BY <1>3, <1>4, <1>5, <1>6 DEF ServerTask

LEMMA EndStopGate ==
  ASSUME GateInv, NEW p \in Callers, EndStop(p)
  PROVE  GateInv'
<1> USE DistinctNames DEF GateInv
<1>1. GateTypes'
  BY DEF EndStop, GateTypes
<1>2. caller'[UI] \in Servers => caller'[UI] = caller[UI]
  BY DEF EndStop, GateTypes, Callers
<1> QED
  BY <1>1, <1>2 DEF EndStop, Up

LEMMA GateInvariant == Spec => []GateInv
<1>1. Init => GateInv
  BY DistinctNames DEF Init, GateInv, GateTypes, ServerType, NoServer, Callers
<1>2. GateInv /\ [Next]_vars => GateInv'
  <2> SUFFICES ASSUME GateInv, [Next]_vars PROVE GateInv'
    OBVIOUS
  <2>1. ASSUME NEW c \in Conns, Connection(c) PROVE GateInv'
    <3>1. UNCHANGED gateVars
      BY <2>1 DEF Connection, Accept, Unwelcome, HelloExternal, HelloManaged, Register, StartLog, Admit,
                  Hangup, Expire, Leave, ReportLeft
    <3> QED
      BY <3>1, SameGate DEF gateVars
  <2>2. ASSUME NEW p \in Sweepers, TakeSessions(p) \/ ReportSwept(p) PROVE GateInv'
    BY <2>2, SameGate DEF TakeSessions, ReportSwept, gateVars
  <2>3. ASSUME NEW p \in Callers, EndStop(p) PROVE GateInv'
    BY <2>3, EndStopGate
  <2>4. ASSUME NEW s \in Servers, ServerTask(s) PROVE GateInv'
    BY <2>4, TailGate
  <2>5. CASE (\E q \in Ports : Bind(q)) \/ BindFails \/ Publish
    BY <2>5, StartGate
  <2>6. CASE Stop \/ Restart
    BY <2>6, StopGate DEF Stop, Restart, Callers
  <2>7. CASE Reopen
    BY <2>7, DistinctNames DEF Reopen, GateInv, GateTypes, ServerType, NoServer, Callers
  <2>8. ASSUME NEW i \in Instances, Launch(i) \/ ProcessEnds(i) \/ Delete(i) PROVE GateInv'
    BY <2>8, SameGate DEF Launch, ProcessEnds, Delete, gateVars
  <2>9. CASE UNCHANGED vars
    BY <2>9, SameGate DEF vars, gateVars
  <2> QED
    BY <2>1, <2>2, <2>3, <2>4, <2>5, <2>6, <2>7, <2>8, <2>9 DEF Next
<1> QED
  BY <1>1, <1>2, PTL DEF Spec

\* Whatever stops, restarts, failures and ends of old server tasks overlap, the
\* gateway calls itself running only over a server that a stop has not signalled
\* and that did not fail after start returned.
THEOREM RunningServes == Spec => []RunningMeansServing
<1>1. GateInv => RunningMeansServing
  BY DEF GateInv, GateTypes, Up, Hopeful, RunningMeansServing
<1> QED
  BY <1>1, GateInvariant, PTL
-----------------------------------------------------------------------------
(* The rows of the games.                                                  *)

RowTypes ==
  /\ rows \in [Instances -> {"absent", "waiting", "connected", "disconnected"}]
  /\ runtimeOf \in [External -> Runtimes \cup {None}]
  /\ recent \in Seq(External)
  /\ active \subseteq Managed

Distinct(s)  == \A m, n \in DOMAIN s : s[m] = s[n] => m = n
Listed(s, e) == \E n \in DOMAIN s : s[n] = e

\* The rows a hello can find are the external rows there are, each once.
RecentIsRows ==
  /\ Distinct(recent)
  /\ \A i \in External : Exists(i) <=> Listed(recent, i)

RowInv == RowTypes /\ RecentIsRows

\* An entry that is there once is gone when it is removed, and no other is.
LEMMA RemovedOnce ==
  ASSUME NEW S, NEW s \in Seq(S), NEW e, Distinct(s)
  PROVE  LET t == RemoveFirst(s, e)
         IN t \in Seq(S) /\ Distinct(t) /\ \A x : Listed(t, x) <=> Listed(s, x) /\ x # e
<1> DEFINE t == RemoveFirst(s, e)
<1>1. CASE ~Listed(s, e)
  <2>1. t = s
    BY <1>1 DEF RemoveFirst, Listed
  <2> QED BY <1>1, <2>1
<1>2. CASE Listed(s, e)
  <2>1. PICK n \in DOMAIN s : s[n] = e
    BY <1>2 DEF Listed
  <2>2. SelectInSeq(s, LAMBDA v : v = e) = n
    <3> DEFINE I == {i \in 1..Len(s) : s[i] = e}
    <3>1. I = {n} /\ n \in Nat
      BY <2>1 DEF Distinct
    <3>2. Min({n}) = n
      BY <3>1 DEF Min
    <3>3. I # {} /\ Min(I) = n
      BY <3>1, <3>2
    <3> QED BY <3>3 DEF SelectInSeq
  <2>3. t = RemoveAt(s, n)
    BY <2>1, <2>2 DEF RemoveFirst
  <2>4. n \in 1..Len(s) /\ Len(s) \in Nat /\ DOMAIN s = 1..Len(s)
    BY <2>1
  <2>5. /\ SubSeq(s, 1, n - 1) \in Seq(S) /\ SubSeq(s, n + 1, Len(s)) \in Seq(S)
        /\ Len(SubSeq(s, 1, n - 1)) = n - 1 /\ Len(SubSeq(s, n + 1, Len(s))) = Len(s) - n
        /\ \A j \in 1..(n - 1) : SubSeq(s, 1, n - 1)[j] = s[j]
        /\ \A j \in 1..(Len(s) - n) : SubSeq(s, n + 1, Len(s))[j] = s[j + n]
    <3>1. /\ SubSeq(s, 1, n - 1) \in Seq(S) /\ Len(SubSeq(s, 1, n - 1)) = n - 1
          /\ \A j \in 1..(n - 1) : SubSeq(s, 1, n - 1)[j] = s[j]
      BY <2>4
    <3>2. SubSeq(s, n + 1, Len(s)) \in Seq(S) /\ Len(SubSeq(s, n + 1, Len(s))) = Len(s) - n
      BY <2>4
    <3>3. \A j \in 1..(Len(s) - n) : SubSeq(s, n + 1, Len(s))[j] = s[j + n]
      BY <2>4
    <3> QED BY <3>1, <3>2, <3>3
  <2>6. /\ t \in Seq(S) /\ Len(t) = Len(s) - 1 /\ DOMAIN t = 1..(Len(s) - 1)
        /\ \A j \in 1..(Len(s) - 1) : t[j] = IF j < n THEN s[j] ELSE s[j + 1]
    <3> DEFINE u == SubSeq(s, 1, n - 1)
               w == SubSeq(s, n + 1, Len(s))
    <3>1. t = u \o w
      BY <2>3 DEF RemoveAt
    <3> HIDE DEF t
    <3>2. /\ u \in Seq(S) /\ w \in Seq(S) /\ Len(u) = n - 1 /\ Len(w) = Len(s) - n
          /\ \A j \in 1..(n - 1) : u[j] = s[j]
          /\ \A j \in 1..(Len(s) - n) : w[j] = s[j + n]
      BY <2>5
    <3> HIDE DEF u, w
    <3>3. t \in Seq(S) /\ Len(t) = Len(s) - 1
      <4>1. u \in Seq(S) /\ w \in Seq(S) /\ Len(u) = n - 1 /\ Len(w) = Len(s) - n
        BY <3>2
      <4>2. t \in Seq(S) /\ Len(t) = Len(u) + Len(w)
        BY <3>1, <4>1
      <4> QED BY <2>4, <4>1, <4>2
    <3>4. \A j \in 1..(Len(s) - 1) : t[j] = IF j <= n - 1 THEN u[j] ELSE w[j - (n - 1)]
      BY <2>4, <3>1, <3>2
    <3>5. ASSUME NEW j \in 1..(Len(s) - 1) PROVE t[j] = IF j < n THEN s[j] ELSE s[j + 1]
      <4>1. CASE j < n
        BY <2>4, <3>2, <3>4, <4>1
      <4>2. CASE ~(j < n)
        <5>1. j - (n - 1) \in 1..(Len(s) - n) /\ (j - (n - 1)) + n = j + 1 /\ ~(j <= n - 1)
          BY <2>4, <4>2
        <5>2. t[j] = w[j - (n - 1)]
          BY <3>4, <5>1
        <5>3. w[j - (n - 1)] = s[j + 1]
          BY <3>2, <5>1
        <5> QED BY <4>2, <5>2, <5>3
      <4> QED BY <4>1, <4>2
    <3> QED BY <3>3, <3>5
  <2> HIDE DEF t
  <2>7. Distinct(t)
    <3> SUFFICES ASSUME NEW i \in DOMAIN t, NEW j \in DOMAIN t, t[i] = t[j] PROVE i = j
      BY DEF Distinct
    <3> DEFINE at(k) == IF k < n THEN k ELSE k + 1
    <3>1. at(i) \in DOMAIN s /\ at(j) \in DOMAIN s /\ t[i] = s[at(i)] /\ t[j] = s[at(j)]
      BY <2>4, <2>6
    <3>2. at(i) = at(j)
      BY <3>1 DEF Distinct
    <3> QED BY <2>4, <2>6, <3>2
  <2>8. ASSUME NEW x, Listed(t, x) PROVE Listed(s, x) /\ x # e
    <3>1. PICK j \in DOMAIN t : t[j] = x
      BY <2>8 DEF Listed
    <3>2. PICK k \in DOMAIN s : k # n /\ s[k] = x
      BY <2>4, <2>6, <3>1
    <3> QED BY <2>1, <3>2 DEF Listed, Distinct
  <2>9. ASSUME NEW x, Listed(s, x), x # e PROVE Listed(t, x)
    <3>1. PICK k \in DOMAIN s : s[k] = x /\ k # n
      BY <2>1, <2>9 DEF Listed
    <3>2. CASE k < n
      <4>1. k \in DOMAIN t /\ t[k] = x
        BY <2>4, <2>6, <3>1, <3>2
      <4> QED BY <4>1 DEF Listed
    <3>3. CASE k > n
      <4>1. k - 1 \in 1..(Len(s) - 1) /\ ~(k - 1 < n) /\ (k - 1) + 1 = k
        BY <2>4, <3>1, <3>3
      <4>2. k - 1 \in DOMAIN t /\ t[k - 1] = x
        BY <2>6, <3>1, <4>1
      <4> QED BY <4>2 DEF Listed
    <3> QED BY <2>4, <3>1, <3>2, <3>3
  <2> QED BY <2>6, <2>7, <2>8, <2>9 DEF t
<1> QED BY <1>1, <1>2

\* One row changes, and not whether it exists.
LEMMA RowChanges ==
  ASSUME RowInv, NEW i, NEW s \in {"waiting", "connected", "disconnected"},
         rows' = [rows EXCEPT ![i] = IF Exists(i) THEN s ELSE "absent"],
         UNCHANGED <<runtimeOf, recent, active>>
  PROVE  RowInv'
<1>1. RowTypes'
  BY DEF RowInv, RowTypes
<1>2. \A j \in External : Exists(j) <=> rows'[j] # "absent"
  BY DEF RowInv, RowTypes, Exists, Instances
<1>3. RecentIsRows'
  BY <1>2 DEF RowInv, RecentIsRows, Exists, Distinct, Listed
<1> QED BY <1>1, <1>3 DEF RowInv

LEMMA SameRows ==
  ASSUME RowInv, UNCHANGED rowVars
  PROVE  RowInv'
BY DEF RowInv, RowTypes, RecentIsRows, Exists, Distinct, Listed, rowVars

LEMMA RegisterRows ==
  ASSUME RowInv, SessionInv, NEW c \in Conns, Register(c)
  PROVE  RowInv'
<1> DEFINE i == conn[c].inst
<1>1. i \in Instances /\ conn[c].runtime \in Runtimes \cup {None} /\ UNCHANGED active
  BY DEF Register, SessionInv, SessionTypes, Named, ConnType
<1>2. CASE i \notin External
  BY <1>2, RowChanges DEF Register
<1>3. CASE i \in External
  <2> DEFINE t == RemoveFirst(recent, i)
  <2>1. /\ rows' = [rows EXCEPT ![i] = "connected"] /\ recent' = Append(t, i)
        /\ runtimeOf' = [runtimeOf EXCEPT ![i] = conn[c].runtime]
    BY <1>3 DEF Register
  <2>2. t \in Seq(External) /\ Distinct(t) /\ \A x : Listed(t, x) <=> Listed(recent, x) /\ x # i
    BY RemovedOnce DEF RowInv, RowTypes, RecentIsRows
  <2> HIDE DEF t, i
  <2>3. RowTypes'
    BY <1>1, <1>3, <2>1, <2>2 DEF RowInv, RowTypes
  <2>4. Distinct(recent')
    <3> SUFFICES ASSUME NEW m \in DOMAIN recent', NEW n \in DOMAIN recent', recent'[m] = recent'[n]
                 PROVE  m = n
      BY DEF Distinct
    <3>1. /\ Len(t) \in Nat /\ DOMAIN t = 1..Len(t) /\ DOMAIN recent' = 1..(Len(t) + 1)
          /\ recent'[Len(t) + 1] = i
      BY <1>3, <2>1, <2>2
    <3>2. \A k \in 1..Len(t) : recent'[k] = t[k] /\ t[k] # i
      <4> TAKE k \in 1..Len(t)
      <4>1. recent'[k] = t[k]
        BY <1>3, <2>1, <2>2
      <4>2. t[k] # i
        BY <2>2, <3>1 DEF Listed
      <4> QED BY <4>1, <4>2
    <3> QED BY <2>2, <3>1, <3>2 DEF Distinct
  <2>5. \A x : Listed(recent', x) <=> Listed(t, x) \/ x = i
    <3>1. /\ Len(t) \in Nat /\ DOMAIN t = 1..Len(t) /\ DOMAIN recent' = 1..(Len(t) + 1)
          /\ recent'[Len(t) + 1] = i
      BY <1>3, <2>1, <2>2
    <3>2. \A n \in DOMAIN t : n \in DOMAIN recent' /\ recent'[n] = t[n]
      BY <1>3, <2>1, <2>2
    <3>3. \A n \in DOMAIN recent' : recent'[n] = i \/ n \in DOMAIN t
      BY <3>1
    <3>4. \E n \in DOMAIN recent' : recent'[n] = i
      BY <3>1
    <3> QED BY <3>2, <3>3, <3>4 DEF Listed
  <2>6. \A j \in External : rows'[j] # "absent" <=> Exists(j) \/ j = i
    BY <1>1, <2>1 DEF RowInv, RowTypes, Exists, Instances
  <2>7. \A j \in External : rows'[j] # "absent" <=> Listed(recent', j)
    BY <2>2, <2>5, <2>6 DEF RowInv, RecentIsRows
  <2>8. RecentIsRows'
    BY <2>4, <2>7 DEF RecentIsRows, Distinct, Listed, Exists
  <2> QED BY <2>3, <2>8 DEF RowInv
<1> QED BY <1>2, <1>3

LEMMA DeleteRows ==
  ASSUME RowInv, NEW i \in Instances, Delete(i)
  PROVE  RowInv'
<1> DEFINE t == RemoveFirst(recent, i)
<1>1. /\ rows' = [rows EXCEPT ![i] = "absent"] /\ recent' = t /\ UNCHANGED active
      /\ runtimeOf' = IF i \in External THEN [runtimeOf EXCEPT ![i] = None] ELSE runtimeOf
  BY DEF Delete
<1>2. t \in Seq(External) /\ Distinct(t) /\ \A x : Listed(t, x) <=> Listed(recent, x) /\ x # i
  BY RemovedOnce DEF RowInv, RowTypes, RecentIsRows
<1> HIDE DEF t
<1>3. RowTypes'
  BY <1>1, <1>2 DEF RowInv, RowTypes
<1>4. \A j \in External : rows'[j] # "absent" <=> Exists(j) /\ j # i
  BY <1>1 DEF RowInv, RowTypes, Exists, Instances
<1>5. \A j \in External : rows'[j] # "absent" <=> Listed(recent', j)
  BY <1>1, <1>2, <1>4 DEF RowInv, RecentIsRows
<1>6. RecentIsRows'
  BY <1>1, <1>2, <1>5 DEF RecentIsRows, Distinct, Listed, Exists
<1> QED BY <1>3, <1>6 DEF RowInv

\* A hello is looked up among the external rows the gateway registered and
\* nobody deleted, each once and in the order of its last registration: what
\* the SELECT with ORDER BY connected_at DESC relies on.
THEOREM RowInvariant == Spec => []RowInv
<1>1. Init => RowInv
  <2> SUFFICES ASSUME Init PROVE RowInv
    OBVIOUS
  <2>1. RowTypes
    BY DEF Init, RowTypes
  <2> QED BY <2>1 DEF Init, RowInv, RecentIsRows, Distinct, Listed, Exists, Instances
<1>2. RowInv /\ SessionInv /\ SweepTypes /\ [Next]_vars => RowInv'
  <2> SUFFICES ASSUME RowInv, SessionInv, SweepTypes, [Next]_vars PROVE RowInv'
    OBVIOUS
  <2>1. ASSUME NEW c \in Conns, Connection(c) PROVE RowInv'
    <3>1. CASE Register(c)
      BY <3>1, RegisterRows
    <3>2. CASE ReportLeft(c)
      BY <3>2, RowChanges DEF ReportLeft, Disconnected
    <3>3. CASE ~Register(c) /\ ~ReportLeft(c)
      <4>1. UNCHANGED rowVars
        BY <2>1, <3>3 DEF Connection, Accept, Unwelcome, HelloExternal, HelloManaged, StartLog, Admit,
                          Hangup, Expire, Leave
      <4> QED BY <4>1, SameRows
    <3> QED BY <3>1, <3>2, <3>3
  <2>2. ASSUME NEW p \in Sweepers, TakeSessions(p) \/ ReportSwept(p) PROVE RowInv'
    BY <2>2, RowChanges, SameRows DEF TakeSessions, ReportSwept, Disconnected
  <2>3. ASSUME \/ \E p \in Callers : EndStop(p)
               \/ \E s \in Servers : ServerTask(s)
               \/ \E q \in Ports : Bind(q)
               \/ Stop \/ Restart \/ BindFails \/ Publish \/ UNCHANGED vars
        PROVE  RowInv'
    <3>1. UNCHANGED rowVars
      BY <2>3 DEF EndStop, ServerTask, Adopt, AdoptFails, GiveUp, Unlisten, Drain, EndServer, Bind, Stop, Restart, BeginStop, BindFails, Publish, vars
    <3> QED BY <3>1, SameRows
  <2>4. ASSUME NEW i \in Instances, Launch(i) PROVE RowInv'
    <3>1. RowTypes'
      BY <2>4 DEF Launch, RowInv, RowTypes
    <3>2. \A j \in External : rows'[j] = rows[j]
      BY <2>4, DistinctNames DEF Launch, RowInv, RowTypes, Instances
    <3>3. UNCHANGED recent
      BY <2>4 DEF Launch
    <3>4. RecentIsRows'
      BY <3>2, <3>3 DEF RowInv, RecentIsRows, Distinct, Listed, Exists
    <3> QED BY <3>1, <3>4 DEF RowInv
  <2>5. ASSUME NEW i \in Instances, ProcessEnds(i) PROVE RowInv'
    BY <2>5 DEF ProcessEnds, RowInv, RowTypes, RecentIsRows, Distinct, Listed, Exists
  <2>6. ASSUME NEW i \in Instances, Delete(i) PROVE RowInv'
    BY <2>6, DeleteRows
  <2>7. CASE Reopen
    <3>1. RowTypes'
      BY <2>7 DEF Reopen, ReopenedRow, RowInv, RowTypes
    <3>2. \A j \in External : rows'[j] # "absent" <=> Exists(j)
      BY <2>7 DEF Reopen, ReopenedRow, Instances
    <3>3. UNCHANGED recent
      BY <2>7 DEF Reopen
    <3>4. RecentIsRows'
      BY <3>2, <3>3 DEF RowInv, RecentIsRows, Distinct, Listed, Exists
    <3> QED BY <3>1, <3>4 DEF RowInv
  <2> QED BY <2>1, <2>2, <2>3, <2>4, <2>5, <2>6, <2>7 DEF Next
<1> QED BY <1>1, <1>2, SessionInvariant, SweepIsTyped, PTL DEF Spec

FlagTypes == running \in BOOLEAN /\ lock \in Callers \cup {None}

LEMMA FlagsAreTyped == Spec => []FlagTypes
<1>1. Init => FlagTypes
  BY DEF Init, FlagTypes
<1>2. FlagTypes /\ [Next]_vars => FlagTypes'
  <2> SUFFICES ASSUME FlagTypes, [Next]_vars PROVE FlagTypes'
    OBVIOUS
  <2>1. ASSUME NEW c \in Conns, Connection(c) PROVE UNCHANGED <<running, lock>>
    BY <2>1 DEF Connection, Accept, Unwelcome, HelloExternal, HelloManaged, Register, StartLog, Admit,
                Hangup, Expire, Leave, ReportLeft, gateVars
  <2>2. ASSUME NEW p \in Sweepers, TakeSessions(p) \/ ReportSwept(p) PROVE UNCHANGED <<running, lock>>
    BY <2>2 DEF TakeSessions, ReportSwept, gateVars
  <2>3. ASSUME NEW i \in Instances, Launch(i) \/ ProcessEnds(i) \/ Delete(i) PROVE UNCHANGED <<running, lock>>
    BY <2>3 DEF Launch, ProcessEnds, Delete, gateVars
  <2>4. CASE UNCHANGED <<running, lock>>
    BY <2>4 DEF FlagTypes
  <2>5. CASE \/ \E p \in Callers : EndStop(p)
             \/ \E s \in Servers : ServerTask(s)
             \/ \E q \in Ports : Bind(q)
             \/ Stop \/ Restart \/ BindFails \/ Publish \/ Reopen \/ UNCHANGED vars
    BY <2>5 DEF EndStop, ServerTask, Adopt, AdoptFails, GiveUp, Unlisten, Drain, EndServer, Bind, Stop, Restart, BeginStop, BindFails, Publish,
                Reopen, FlagTypes, Callers, vars, gateVars
  <2> QED BY <2>1, <2>2, <2>3, <2>4, <2>5 DEF Next
<1> QED BY <1>1, <1>2, PTL DEF Spec

\* The database, the registry, the tasks and the control state of the gateway
\* are well formed in whatever order their locks are taken.
THEOREM TypeCorrect == Spec => []TypeOK
<1>1. SessionInv /\ SweepTypes /\ GateInv /\ RowInv /\ FlagTypes => TypeOK
  BY DEF SessionInv, SessionTypes, ConnType, SweepTypes, GateInv, GateTypes, ServerType, RowInv, RowTypes,
         FlagTypes, TypeOK
<1> QED BY <1>1, SessionInvariant, SweepIsTyped, GateInvariant, RowInvariant, FlagsAreTyped, PTL
=============================================================================
