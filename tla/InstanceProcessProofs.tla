---------------------- MODULE InstanceProcessProofs ----------------------
(* Proofs about InstanceProcess: its types, and that a child in `live` and *)
(* a process the APP owns are always recorded by a row that delete sees.   *)
EXTENDS InstanceProcess, TLAPS

-----------------------------------------------------------------------------
(* Types.                                                                  *)

\* UPDATE game_instances keeps every row a row with a process state.
LEMMA PutType ==
  ASSUME TypeOK, NEW i, NEW s \in Open \cup Final, Put(i, s)
  PROVE  state' \in [Instances -> {"absent"} \cup Open \cup Final]
BY DEF TypeOK, Put

\* Each step of launch, of the row it inserts to the monitor it starts, keeps the types.
LEMMA LaunchTypes ==
  ASSUME TypeOK, NEW i \in Instances, Launch(i)
  PROVE  TypeOK'
<1>1. CASE Check(i)
  BY <1>1 DEF TypeOK, Check, At, rowVars
<1>2. CASE Insert(i)
  BY <1>2 DEF TypeOK, Insert, At, Open
<1>3. CASE InsertRefused(i)
  BY <1>3 DEF TypeOK, InsertRefused, At, rowVars
<1>4. CASE LogRefused(i)
  BY <1>4 DEF TypeOK, LogRefused, At, rowVars
<1>5. CASE Spawn(i)
  BY <1>5 DEF TypeOK, Spawn, At, rowVars
<1>6. CASE SpawnFails(i)
  BY <1>6 DEF TypeOK, SpawnFails, At, rowVars
<1>7. CASE WindowFails(i)
  BY <1>7 DEF TypeOK, WindowFails, At, rowVars
<1>8. CASE MarkLaunchFailed(i)
  <2>1. state' \in [Instances -> {"absent"} \cup Open \cup Final]
    BY <1>8, PutType DEF MarkLaunchFailed, Final
  <2> QED
    BY <1>8, <2>1 DEF TypeOK, MarkLaunchFailed, At
<1>9. CASE GoLive(i)
  BY <1>9 DEF TypeOK, GoLive, At, rowVars
<1>10. CASE MarkRunning(i)
  <2>1. state' \in [Instances -> {"absent"} \cup Open \cup Final]
    BY <1>10, PutType DEF MarkRunning, Open
  <2> QED
    BY <1>10, <2>1 DEF TypeOK, MarkRunning, At
<1> QED
  BY <1>1, <1>2, <1>3, <1>4, <1>5, <1>6, <1>7, <1>8, <1>9, <1>10 DEF Launch

\* The monitor thread, the process and the connection of an instance keep the types.
LEMMA InstanceTypes ==
  ASSUME TypeOK, NEW i \in Instances,
         Monitor(i) \/ Dies(i) \/ Connection(i) \/ DeleteBegin(i)
  PROVE  TypeOK'
<1>1. CASE Reap(i)
  BY <1>1 DEF TypeOK, Reap, rowVars
<1>2. CASE WaitError(i)
  BY <1>2 DEF TypeOK, WaitError, rowVars
<1>3. CASE MarkEnded(i)
  <2>1. state' \in [Instances -> {"absent"} \cup Open \cup Final]
    BY <1>3, PutType DEF MarkEnded, Final
  <2> QED
    BY <1>3, <2>1 DEF TypeOK, MarkEnded
<1>4. CASE Dies(i)
  BY <1>4 DEF TypeOK, Dies, rowVars
<1>5. CASE Connection(i)
  BY <1>5 DEF TypeOK, Connection
<1>6. CASE DeleteBegin(i)
  BY <1>6 DEF TypeOK, DeleteBegin, rowVars
<1> QED
  BY <1>1, <1>2, <1>3, <1>4, <1>5, <1>6 DEF Monitor

\* Each step of stop keeps the types.
LEMMA StopTypes ==
  ASSUME TypeOK, NEW s \in Stoppers, Stop(s)
  PROVE  TypeOK'
<1>1. ASSUME NEW i \in Instances, StopBegin(s, i) PROVE TypeOK'
  BY <1>1 DEF TypeOK, StopBegin, rowVars
<1>2. CASE StopMark(s)
  <2>1. state' \in [Instances -> {"absent"} \cup Open \cup Final]
    BY <1>2, PutType DEF StopMark, Open
  <2> QED
    BY <1>2, <2>1 DEF TypeOK, StopMark
<1>3. CASE StopObserved(s)
  BY <1>3 DEF TypeOK, StopObserved, NoStop, rowVars
<1>4. CASE StopForce(s)
  BY <1>4 DEF TypeOK, StopForce, Killed, rowVars
<1>5. CASE KillFails(s)
  BY <1>5 DEF TypeOK, KillFails, rowVars
<1>6. CASE StopReturn(s)
  BY <1>6 DEF TypeOK, StopReturn, NoStop, rowVars
<1> QED
  BY <1>1, <1>2, <1>3, <1>4, <1>5, <1>6 DEF Stop

\* Opening the database again leaves no instance with an open process state.
LEMMA ReopenTypes ==
  ASSUME TypeOK, Reopen
  PROVE  TypeOK'
<1>1. state' \in [Instances -> {"absent"} \cup Open \cup Final]
  BY DEF TypeOK, Reopen, Final
<1>2. proc' \in [Instances -> {"none", "alive", "dead", "orphan"}]
  BY DEF TypeOK, Reopen
<1>3. stopper' \in [Stoppers -> [phase : {"idle", "child", "asked", "killed", "refused"},
                                 inst : Instances \cup {None}]]
  BY DEF Reopen, NoStop
<1> QED
  BY <1>1, <1>2, <1>3 DEF TypeOK, Reopen

\* An APP that has launched nothing is well typed.
LEMMA InitTypes == Init => TypeOK
<1> SUFFICES ASSUME Init PROVE TypeOK
  OBVIOUS
<1>1. state \in [Instances -> {"absent"} \cup Open \cup Final]
  BY DEF Init
<1>2. proc \in [Instances -> {"none", "alive", "dead", "orphan"}]
  BY DEF Init
<1>3. launch \in [Instances -> {"new", "checked", "inserted", "spawned", "failing", "live", "done"}]
  BY DEF Init
<1>4. monitor \in [Instances -> {"none", "watching", "exited", "failed"}]
  BY DEF Init
<1>5. stopper \in [Stoppers -> [phase : {"idle", "child", "asked", "killed", "refused"},
                                inst : Instances \cup {None}]]
  BY DEF Init, NoStop
<1> QED
  BY <1>1, <1>2, <1>3, <1>4, <1>5 DEF Init, TypeOK

\* The variables that launch, stop and the monitor write are well typed in
\* every reachable state, for every set of instances and calls.
THEOREM TypeCorrect == Spec => []TypeOK
<1>1. Init => TypeOK
  BY InitTypes
<1>2. TypeOK /\ [Next]_vars => TypeOK'
  <2> SUFFICES ASSUME TypeOK, [Next]_vars PROVE TypeOK'
    OBVIOUS
  <2>1. ASSUME NEW i \in Instances,
               Launch(i) \/ Monitor(i) \/ Dies(i) \/ Connection(i) \/ DeleteBegin(i)
        PROVE  TypeOK'
    BY <2>1, LaunchTypes, InstanceTypes
  <2>2. ASSUME NEW s \in Stoppers, Stop(s) PROVE TypeOK'
    BY <2>2, StopTypes
  <2>3. CASE Delete
    BY <2>3 DEF TypeOK, Delete
  <2>4. CASE SetStatus
    BY <2>4 DEF TypeOK, SetStatus
  <2>5. CASE TaskDeleteBegin
    BY <2>5 DEF TypeOK, TaskDeleteBegin, rowVars
  <2>6. CASE TaskDelete
    BY <2>6 DEF TypeOK, TaskDelete
  <2>7. CASE Reopen
    BY <2>7, ReopenTypes
  <2>8. CASE UNCHANGED vars
    BY <2>8 DEF TypeOK, vars, rowVars
  <2> QED
    BY <2>1, <2>2, <2>3, <2>4, <2>5, <2>6, <2>7, <2>8 DEF Next
<1> QED
  BY <1>1, <1>2, PTL DEF Spec
-----------------------------------------------------------------------------
(* Every owned process is recorded.                                        *)

Recorded(i) == state[i] \in Open \/ task = "deleted"

\* Who answers for an instance: its launch until the monitor is spawned, then
\* the monitor until it takes the child out of `live`.
Launching(i) == launch[i] \in {"inserted", "spawned", "live"}
Watched(i)   == monitor[i] = "watching"

Answerable(i) ==
  /\ monitor[i] # "none" => launch[i] = "done"
  /\ i \in live => launch[i] = "live" \/ Watched(i)
  /\ proc[i] = "alive" => launch[i] \in {"spawned", "live"} \/ Watched(i)
  /\ Launching(i) \/ Watched(i) => Recorded(i)

ProcessInv == TypeOK /\ \A i \in Instances : Answerable(i)

\* A row whose launch and monitor have nothing to do with the step stays answered for.
LEMMA OthersStay ==
  ASSUME ProcessInv, NEW j \in Instances,
         launch'[j] = launch[j], monitor'[j] = monitor[j],
         proc'[j] = proc[j] \/ proc'[j] # "alive",
         j \in live' => j \in live,
         Recorded(j) => Recorded(j)'
  PROVE  Answerable(j)'
BY DEF ProcessInv, Answerable, Launching, Watched

\* An UPDATE that finds its row with an open state, or no row, leaves an open state or no row.
LEMMA OpenPut ==
  ASSUME TypeOK, NEW i, NEW s \in Open, Put(i, s), UNCHANGED task,
         NEW j \in Instances, Recorded(j)
  PROVE  Recorded(j)'
BY DEF TypeOK, Put, Recorded, Open, Exists

\* A final state is written only for an instance nobody answers for any more.
LEMMA OtherPut ==
  ASSUME TypeOK, NEW i, NEW s, Put(i, s), UNCHANGED task,
         NEW j \in Instances, j # i, Recorded(j)
  PROVE  Recorded(j)'
BY DEF TypeOK, Put, Recorded

\* Launch: the row precedes the process, and the process precedes the monitor.
LEMMA LaunchAnswers ==
  ASSUME ProcessInv, NEW i \in Instances, Launch(i), NEW j \in Instances
  PROVE  Answerable(j)'
<1> USE DEF ProcessInv, TypeOK, At
<1>1. CASE Check(i)
  BY <1>1 DEF Check, Answerable, Launching, Watched, Recorded, rowVars
<1>2. CASE Insert(i)
  BY <1>2 DEF Insert, Answerable, Launching, Watched, Recorded, Open
<1>3. CASE InsertRefused(i)
  BY <1>3 DEF InsertRefused, Answerable, Launching, Watched, Recorded, rowVars
<1>4. CASE LogRefused(i)
  BY <1>4 DEF LogRefused, Answerable, Launching, Watched, Recorded, rowVars
<1>5. CASE Spawn(i)
  BY <1>5 DEF Spawn, Answerable, Launching, Watched, Recorded, rowVars
<1>6. CASE SpawnFails(i)
  BY <1>6 DEF SpawnFails, Answerable, Launching, Watched, Recorded, rowVars
<1>7. CASE WindowFails(i)
  BY <1>7 DEF WindowFails, Answerable, Launching, Watched, Recorded, rowVars
<1>8. CASE MarkLaunchFailed(i)
  <2>1. CASE j = i
    BY <1>8, <2>1 DEF MarkLaunchFailed, Answerable, Launching, Watched
  <2>2. CASE j # i
    BY <1>8, <2>2, OtherPut, OthersStay DEF MarkLaunchFailed
  <2> QED
    BY <2>1, <2>2
<1>9. CASE GoLive(i)
  BY <1>9 DEF GoLive, Answerable, Launching, Watched, Recorded, rowVars
<1>10. CASE MarkRunning(i)
  <2>1. Recorded(j) => Recorded(j)'
    BY <1>10, OpenPut DEF MarkRunning, Open
  <2> QED
    BY <1>10, <2>1 DEF MarkRunning, Answerable, Launching, Watched
<1> QED
  BY <1>1, <1>2, <1>3, <1>4, <1>5, <1>6, <1>7, <1>8, <1>9, <1>10 DEF Launch

\* The monitor takes the child out of `live` before it writes a final state.
LEMMA InstanceAnswers ==
  ASSUME ProcessInv, NEW i \in Instances, NEW j \in Instances,
         Monitor(i) \/ Dies(i) \/ Connection(i) \/ DeleteBegin(i)
  PROVE  Answerable(j)'
<1>0. ProcessInv /\ TypeOK
  BY DEF ProcessInv
<1>1. CASE Reap(i)
  BY <1>0, <1>1 DEF ProcessInv, TypeOK, Reap, Answerable, Launching, Watched, Recorded, rowVars
<1>2. CASE WaitError(i)
  BY <1>0, <1>2 DEF ProcessInv, TypeOK, WaitError, Answerable, Launching, Watched, Recorded, rowVars
<1>3. CASE MarkEnded(i)
  <2>1. CASE j = i
    BY <1>0, <1>3, <2>1 DEF ProcessInv, TypeOK, MarkEnded, Answerable, Launching, Watched
  <2>2. CASE j # i
    <3>1. Recorded(j) => Recorded(j)'
      BY <1>0, <1>3, <2>2, OtherPut DEF MarkEnded
    <3> QED
      BY <1>0, <1>3, <2>2, <3>1, OthersStay DEF MarkEnded, TypeOK
  <2> QED
    BY <2>1, <2>2
<1>4. CASE Dies(i)
  BY <1>0, <1>4, OthersStay DEF TypeOK, Dies, Recorded, rowVars
<1>5. CASE Connection(i)
  BY <1>0, <1>5, OthersStay DEF Connection, Recorded
<1>6. CASE DeleteBegin(i)
  BY <1>0, <1>6, OthersStay DEF DeleteBegin, Recorded, rowVars
<1> QED
  BY <1>1, <1>2, <1>3, <1>4, <1>5, <1>6 DEF Monitor

\* stop writes an open state and kills; it takes nothing out of `live`.
LEMMA StopAnswers ==
  ASSUME ProcessInv, NEW s \in Stoppers, Stop(s), NEW j \in Instances
  PROVE  Answerable(j)'
<1>0. TypeOK
  BY DEF ProcessInv
<1>1. ASSUME NEW i \in Instances, StopBegin(s, i) PROVE Answerable(j)'
  BY <1>1, OthersStay DEF StopBegin, Recorded, rowVars
<1>2. CASE StopMark(s)
  <2>1. Recorded(j) => Recorded(j)'
    BY <1>0, <1>2, OpenPut DEF StopMark, Open
  <2> QED
    BY <1>2, <2>1, OthersStay DEF StopMark
<1>3. CASE StopObserved(s)
  BY <1>3, OthersStay DEF StopObserved, Recorded, rowVars
<1>4. CASE StopForce(s)
  BY <1>0, <1>4, OthersStay DEF TypeOK, StopForce, Killed, Recorded, rowVars
<1>5. CASE KillFails(s)
  BY <1>5, OthersStay DEF KillFails, Recorded, rowVars
<1>6. CASE StopReturn(s)
  BY <1>6, OthersStay DEF StopReturn, Recorded, rowVars
<1> QED
  BY <1>1, <1>2, <1>3, <1>4, <1>5, <1>6 DEF Stop

\* Deletion removes final rows, or marks the task deleted with all its rows.
LEMMA RemovalAnswers ==
  ASSUME ProcessInv, NEW j \in Instances,
         Delete \/ SetStatus \/ TaskDeleteBegin \/ TaskDelete \/ Reopen
  PROVE  Answerable(j)'
<1>0. TypeOK
  BY DEF ProcessInv
<1>1. CASE Delete
  <2>1. Recorded(j) => Recorded(j)'
    BY <1>0, <1>1 DEF TypeOK, Delete, Deletable, Recorded, Open, Final
  <2> QED
    BY <1>1, <2>1, OthersStay DEF Delete
<1>2. CASE SetStatus
  BY <1>2, OthersStay DEF SetStatus, Recorded
<1>3. CASE TaskDeleteBegin
  BY <1>3, OthersStay DEF TaskDeleteBegin, Recorded, rowVars
<1>4. CASE TaskDelete
  BY <1>4, OthersStay DEF TaskDelete, Recorded
<1>5. CASE Reopen
  BY <1>0, <1>5 DEF TypeOK, Reopen, Answerable, Launching, Watched
<1> QED
  BY <1>1, <1>2, <1>3, <1>4, <1>5

\* The inductive invariant: from its INSERT to its last UPDATE, somebody
\* answers for every instance, and the row says so.
THEOREM ProcessInvariant == Spec => []ProcessInv
<1>1. Init => ProcessInv
  BY InitTypes DEF Init, ProcessInv, Answerable, Launching, Watched
<1>2. ProcessInv /\ TypeOK' /\ [Next]_vars => ProcessInv'
  <2> SUFFICES ASSUME ProcessInv, TypeOK', [Next]_vars, NEW j \in Instances
               PROVE  Answerable(j)'
    BY DEF ProcessInv
  <2>1. ASSUME NEW i \in Instances,
               Launch(i) \/ Monitor(i) \/ Dies(i) \/ Connection(i) \/ DeleteBegin(i)
        PROVE  Answerable(j)'
    BY <2>1, LaunchAnswers, InstanceAnswers
  <2>2. ASSUME NEW s \in Stoppers, Stop(s) PROVE Answerable(j)'
    BY <2>2, StopAnswers
  <2>3. CASE Delete \/ SetStatus \/ TaskDeleteBegin \/ TaskDelete \/ Reopen
    BY <2>3, RemovalAnswers
  <2>4. CASE UNCHANGED vars
    BY <2>4, OthersStay DEF vars, rowVars, Recorded
  <2> QED
    BY <2>1, <2>2, <2>3, <2>4 DEF Next
<1> QED
  BY <1>1, <1>2, TypeCorrect, PTL DEF Spec

\* A child in `live` always has a row with an open state, unless the task was
\* deleted under it: delete and the task's deletion never overlook it.
THEOREM LiveStaysRecorded == Spec => []LiveIsRecorded
<1>1. ProcessInv => LiveIsRecorded
  BY DEF ProcessInv, TypeOK, Answerable, Launching, Watched, Recorded, LiveIsRecorded
<1> QED
  BY <1>1, ProcessInvariant, PTL

\* The same holds of every process the APP owns, before `live` knows it and after.
THEOREM OwnedStaysRecorded == Spec => []OwnedIsRecorded
<1>1. ProcessInv => OwnedIsRecorded
  BY DEF ProcessInv, Answerable, Launching, Watched, Recorded, OwnedIsRecorded
<1> QED
  BY <1>1, ProcessInvariant, PTL
=============================================================================
