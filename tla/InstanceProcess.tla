-------------------------- MODULE InstanceProcess --------------------------
(***************************************************************************)
(* Launched game processes (src-tauri/src/modules/instances/service.rs):   *)
(* launch, stop, the monitor thread and the deletion of instances and of   *)
(* their task.  A launched process is known twice, by its child in the     *)
(* `live` map and by its row in game_instances; launch, stop, monitor and  *)
(* delete touch the two one after the other, each on a thread of its own.  *)
(***************************************************************************)
EXTENDS FiniteSets

CONSTANTS
  Hosts,      \* instances launched in mode lan-host
  Clients,    \* instances launched in mode lan-client
  Stoppers,   \* bound: calls of stop in progress at one time
  LogFails,   \* the instance log file may fail to open
  None

Instances == Hosts \cup Clients

ASSUME DistinctInstances == Hosts \cap Clients = {} /\ None \notin Instances
ASSUME FaultsAreBoolean  == LogFails \in BOOLEAN

VARIABLES
  task,      \* the task of the instances: "active", "closed" or "deleted"
  deleting,  \* TaskService::delete has passed ensure_deletable
  state,     \* process_state of each row, "absent" without a row
  connected, \* rows whose connection_state is connected
  live,      \* InstanceService.live
  proc,      \* the operating-system process: "none", "alive", "dead", or
             \* "orphan" when it outlived the APP, or its monitor, that owned it
  launch,    \* where launch is, per instance; each identifier is used once
  monitor,   \* the monitor thread of each instance
  stopper,   \* the calls of stop
  remover    \* InstanceService::delete has seen that this one is not live

rowVars == <<task, state, connected>>
vars    == <<rowVars, deleting, live, proc, launch, monitor, stopper, remover>>
-----------------------------------------------------------------------------
Open       == {"launching", "running", "stopping"}
Final      == {"exited", "failed", "interrupted"}
Exists(i)  == state[i] # "absent"
\* UPDATE game_instances SET process_state: no row, no effect
Put(i, s)  == state' = [state EXCEPT ![i] = IF Exists(i) THEN s ELSE "absent"]
NoStop     == [phase |-> "idle", inst |-> None]
Refused(i) == [phase |-> "refused", inst |-> i]

Init ==
  /\ task = "active" /\ deleting = FALSE
  /\ state = [i \in Instances |-> "absent"]
  /\ connected = {} /\ live = {}
  /\ proc = [i \in Instances |-> "none"]
  /\ launch = [i \in Instances |-> "new"]
  /\ monitor = [i \in Instances |-> "none"]
  /\ stopper = [s \in Stoppers |-> NoStop]
  /\ remover = None
-----------------------------------------------------------------------------
(* launch                                                                  *)

At(i, from, to) == launch[i] = from /\ launch' = [launch EXCEPT ![i] = to]

RunningHost == \E h \in Hosts : state[h] = "running" /\ h \in live

\* ensure_active_task, and a client needs a running host of the task
Check(i) ==
  /\ At(i, "new", "checked")
  /\ task = "active"
  /\ i \in Clients => RunningHost
  /\ UNCHANGED <<rowVars, deleting, live, proc, monitor, stopper, remover>>

\* INSERT: the foreign key refuses it once the task is deleted
Insert(i) ==
  /\ task # "deleted"
  /\ At(i, "checked", "inserted")
  /\ state' = [state EXCEPT ![i] = "launching"]
  /\ UNCHANGED <<task, connected, deleting, live, proc, monitor, stopper, remover>>

InsertRefused(i) ==
  /\ task = "deleted"
  /\ At(i, "checked", "done")
  /\ UNCHANGED <<rowVars, deleting, live, proc, monitor, stopper, remover>>

\* The log file cannot be opened: launch returns, the row keeps its state.
LogRefused(i) ==
  /\ LogFails
  /\ At(i, "inserted", "done")
  /\ UNCHANGED <<rowVars, deleting, live, proc, monitor, stopper, remover>>

Spawn(i) ==
  /\ At(i, "inserted", "spawned")
  /\ proc' = [proc EXCEPT ![i] = "alive"]
  /\ UNCHANGED <<rowVars, deleting, live, monitor, stopper, remover>>

SpawnFails(i) ==
  /\ At(i, "inserted", "failing")
  /\ UNCHANGED <<rowVars, deleting, live, proc, monitor, stopper, remover>>

\* Mistaken: the child is left running.
WindowFailsUnkilled(i) ==
  /\ At(i, "spawned", "failing")
  /\ UNCHANGED <<rowVars, deleting, live, proc, monitor, stopper, remover>>

\* The window controller does not start: the child is killed first.
WindowFails(i) ==
  /\ At(i, "spawned", "failing")
  /\ proc' = [proc EXCEPT ![i] = "dead"]
  /\ UNCHANGED <<rowVars, deleting, live, monitor, stopper, remover>>

\* mark_launch_failed
MarkLaunchFailed(i) ==
  /\ At(i, "failing", "done")
  /\ Put(i, "failed")
  /\ connected' = connected \ {i}
  /\ UNCHANGED <<task, deleting, live, proc, monitor, stopper, remover>>

GoLive(i) ==
  /\ At(i, "spawned", "live")
  /\ live' = live \cup {i}
  /\ UNCHANGED <<rowVars, deleting, proc, monitor, stopper, remover>>

\* UPDATE running, then the monitor thread
MarkRunning(i) ==
  /\ At(i, "live", "done")
  /\ Put(i, "running")
  /\ monitor' = [monitor EXCEPT ![i] = "watching"]
  /\ UNCHANGED <<task, connected, deleting, live, proc, stopper, remover>>
-----------------------------------------------------------------------------
(* The process and its monitor thread.                                     *)

\* It ends by itself, on request of taskkill, or by stop_all of the APP's exit.
Dies(i) ==
  /\ proc[i] \in {"alive", "orphan"}
  /\ proc' = [proc EXCEPT ![i] = "dead"]
  /\ UNCHANGED <<rowVars, deleting, live, launch, monitor, stopper, remover>>

\* try_wait has a status: the child leaves `live` before its row is updated
Reap(i) ==
  /\ monitor[i] = "watching" /\ proc[i] = "dead"
  /\ live' = live \ {i}
  /\ monitor' = [monitor EXCEPT ![i] = "exited"]
  /\ UNCHANGED <<rowVars, deleting, proc, launch, stopper, remover>>

\* try_wait reports an error: the monitor drops the child, dead or not.
WaitError(i) ==
  /\ monitor[i] = "watching"
  /\ live' = live \ {i}
  /\ proc' = [proc EXCEPT ![i] = IF @ = "alive" THEN "orphan" ELSE @]
  /\ monitor' = [monitor EXCEPT ![i] = "failed"]
  /\ UNCHANGED <<rowVars, deleting, launch, stopper, remover>>

MarkEnded(i) ==
  /\ monitor[i] \in {"exited", "failed"}
  /\ Put(i, monitor[i])
  /\ monitor' = [monitor EXCEPT ![i] = "none"]
  /\ UNCHANGED <<task, connected, deleting, live, proc, launch, stopper, remover>>
-----------------------------------------------------------------------------
(* stop                                                                    *)

\* The row exists and `live` has a child, whose handle stop keeps.
StopBegin(s, i) ==
  /\ stopper[s] = NoStop /\ Exists(i) /\ i \in live
  /\ stopper' = [stopper EXCEPT ![s] = [phase |-> "child", inst |-> i]]
  /\ UNCHANGED <<rowVars, deleting, live, proc, launch, monitor, remover>>

\* UPDATE stopping, whatever the row says by now; then taskkill
StopMark(s) ==
  /\ stopper[s].phase = "child"
  /\ Put(stopper[s].inst, "stopping")
  /\ stopper' = [stopper EXCEPT ![s].phase = "asked"]
  /\ UNCHANGED <<task, connected, deleting, live, proc, launch, monitor, remover>>

\* graceful_exit_observed, within five seconds
StopObserved(s) ==
  /\ stopper[s].phase = "asked" /\ stopper[s].inst \notin live
  /\ stopper' = [stopper EXCEPT ![s] = NoStop]
  /\ UNCHANGED <<rowVars, deleting, live, proc, launch, monitor, remover>>

\* Mistaken: the child is never killed.
KilledNot(i) == UNCHANGED proc

Killed(i)    == proc' = [proc EXCEPT ![i] = IF @ = "none" THEN @ ELSE "dead"]

StopForce(s) ==
  /\ stopper[s].phase = "asked"
  /\ Killed(stopper[s].inst)
  /\ stopper' = [stopper EXCEPT ![s].phase = "killed"]
  /\ UNCHANGED <<rowVars, deleting, live, launch, monitor, remover>>

\* child.kill() reports an error, with the process still running
KillFails(s) ==
  /\ stopper[s].phase = "asked" /\ proc[stopper[s].inst] \in {"alive", "orphan"}
  /\ stopper' = [stopper EXCEPT ![s].phase = "refused"]
  /\ UNCHANGED <<rowVars, deleting, live, proc, launch, monitor, remover>>

\* the process is gone, or ten seconds have passed, or the error is returned
StopReturn(s) ==
  /\ stopper[s].phase \in {"killed", "refused"}
  /\ stopper' = [stopper EXCEPT ![s] = NoStop]
  /\ UNCHANGED <<rowVars, deleting, live, proc, launch, monitor, remover>>
-----------------------------------------------------------------------------
(* Deletion, the task, the connection and the APP.                         *)

DeleteBegin(i) ==
  /\ remover = None /\ i \notin live
  /\ remover' = i
  /\ UNCHANGED <<rowVars, deleting, live, proc, launch, monitor, stopper>>

\* Mistaken: the process state is not looked at.
DeletableIfSilent(i) == Exists(i) /\ i \notin connected

Deletable(i)         == state[i] \in Final /\ i \notin connected

\* the states are read and the row is deleted under one database lock
Delete ==
  /\ remover # None
  /\ IF Deletable(remover)
     THEN state' = [state EXCEPT ![remover] = "absent"]
     ELSE UNCHANGED state
  /\ remover' = None
  /\ UNCHANGED <<task, connected, deleting, live, proc, launch, monitor, stopper>>

\* set_status: completed, archived, active again
SetStatus ==
  /\ task # "deleted"
  /\ task' \in {"active", "closed"} \ {task}
  /\ UNCHANGED <<state, connected, deleting, live, proc, launch, monitor, stopper, remover>>

\* ensure_deletable reads the rows under a database lock of its own
TaskDeleteBegin ==
  /\ task # "deleted" /\ ~deleting
  /\ \A i \in Instances : state[i] \notin Open
  /\ deleting' = TRUE
  /\ UNCHANGED <<rowVars, live, proc, launch, monitor, stopper, remover>>

\* DELETE FROM development_tasks cascades to the rows of its instances.
TaskDelete ==
  /\ deleting
  /\ deleting' = FALSE
  /\ task' = "deleted"
  /\ state' = [i \in Instances |-> "absent"]
  /\ connected' = {}
  /\ UNCHANGED <<live, proc, launch, monitor, stopper, remover>>

\* register_connection and mark_disconnected, see GameSessions
Connection(i) ==
  /\ Exists(i)
  /\ connected' = IF i \in connected THEN connected \ {i} ELSE connected \cup {i}
  /\ UNCHANGED <<task, state, deleting, live, proc, launch, monitor, stopper, remover>>

\* The APP ends, with or without stop_all, and opens its database again:
\* mark_interrupted_instances.
Reopen ==
  /\ state' = [i \in Instances |-> IF state[i] \in Open THEN "interrupted" ELSE state[i]]
  /\ connected' = {} /\ live' = {} /\ deleting' = FALSE /\ remover' = None
  /\ proc' \in {[i \in Instances |-> IF proc[i] = "alive" THEN left ELSE proc[i]] :
                  left \in {"dead", "orphan"}}
  /\ launch' = [i \in Instances |-> IF launch[i] = "new" THEN "new" ELSE "done"]
  /\ monitor' = [i \in Instances |-> "none"]
  /\ stopper' = [s \in Stoppers |-> NoStop]
  /\ UNCHANGED task
-----------------------------------------------------------------------------
Launch(i) ==
  \/ Check(i) \/ Insert(i) \/ InsertRefused(i) \/ LogRefused(i) \/ Spawn(i) \/ SpawnFails(i)
  \/ WindowFails(i) \/ MarkLaunchFailed(i) \/ GoLive(i) \/ MarkRunning(i)

Monitor(i) == Reap(i) \/ WaitError(i) \/ MarkEnded(i)

Stop(s) ==
  \/ \E i \in Instances : StopBegin(s, i)
  \/ StopMark(s) \/ StopObserved(s) \/ StopForce(s) \/ KillFails(s) \/ StopReturn(s)

Next ==
  \/ \E i \in Instances : Launch(i) \/ Monitor(i) \/ Dies(i) \/ Connection(i) \/ DeleteBegin(i)
  \/ \E s \in Stoppers : Stop(s)
  \/ Delete \/ SetStatus \/ TaskDeleteBegin \/ TaskDelete \/ Reopen

Spec == Init /\ [][Next]_vars

\* Threads of the APP run on; games, users and the APP's exit owe nothing, and
\* try_wait and kill need not fail.
Forced(s)   == StopMark(s) \/ StopObserved(s) \/ StopForce(s) \/ KillFails(s) \/ StopReturn(s)
Launched(i) == GoLive(i) \/ WindowFails(i) \/ MarkRunning(i)
FairSpec ==
  /\ Spec
  /\ \A i \in Instances : WF_vars(Launched(i)) /\ WF_vars(Reap(i) \/ MarkEnded(i))
  /\ \A s \in Stoppers : WF_vars(Forced(s))
-----------------------------------------------------------------------------
TypeOK ==
  /\ task \in {"active", "closed", "deleted"}
  /\ deleting \in BOOLEAN
  /\ state \in [Instances -> {"absent"} \cup Open \cup Final]
  /\ connected \subseteq Instances /\ live \subseteq Instances
  /\ proc \in [Instances -> {"none", "alive", "dead", "orphan"}]
  /\ launch \in [Instances -> {"new", "checked", "inserted", "spawned", "failing", "live", "done"}]
  /\ monitor \in [Instances -> {"none", "watching", "exited", "failed"}]
  /\ stopper \in [Stoppers -> [phase : {"idle", "child", "asked", "killed", "refused"},
                               inst : Instances \cup {None}]]
  /\ remover \in Instances \cup {None}

\* A child in `live` has a row that says so, so that delete, the task's
\* deletion and the user see it, unless the task was deleted under it.
LiveIsRecorded == \A i \in live : state[i] \in Open \/ task = "deleted"

\* So has every process the APP owns, from the spawn before `live` knows it
\* to the end that the monitor has not seen.
OwnedIsRecorded == \A i \in Instances : proc[i] = "alive" => state[i] \in Open \/ task = "deleted"

\* A call of stop whose instance is in `live` ends with the process gone from it,
\* unless the system refused to kill it.
StopStops == \A s \in Stoppers, i \in Instances :
  (stopper[s].inst = i /\ i \in live) ~> (i \notin live \/ stopper[s] = Refused(i))
=============================================================================
