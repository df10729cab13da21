------------------------ MODULE ArchiveTransferProofs ------------------------
(***************************************************************************)
(* Proofs about ArchiveTransfer, for any number of transfers, instances and  *)
(* connections, any package and window size and any bound.                   *)
(***************************************************************************)
EXTENDS ArchiveTransfer, FiniteSetTheorems, TLAPS

Terminal == {"completed", "rejected", "cancelled", "failed"}

\* Where a task is while its row says what it does.
Busy == {"packing", "packed", "offering", "waiting", "sending", "finalizing", "ending"}

\* The slots are held by the running tasks.
SlotsInv ==
  /\ active = {t \in Transfers : Running(t)}
  /\ Cardinality(active) <= MaxActive
  /\ \A t \in active : task[t].inst \in Instances
  /\ \A t, u \in active : t # u => task[t].inst # task[u].inst

\* A row follows its task.
RowInv ==
  \A t \in Transfers :
    /\ task[t].at \in {"new", "starting"} => row[t] = "none"
    /\ task[t].at \in Busy => row[t] \in ActiveStatuses \cup {"interrupted"}
    /\ task[t].at = "ending" => task[t].end # "none"
    /\ task[t].at = "finishing" => row[t] \in Terminal
    /\ task[t].at = "done" => row[t] \notin ActiveStatuses

-----------------------------------------------------------------------------
(* What a step does to the tasks.                                            *)

TaskType == [at : Places, inst : Instances \cup {NoInstance},
             cancel : {"no", "asked", "seen"},
             end : {"none", "rejected", "cancelled", "failed"}, sent : Nat, acked : Nat]
EventType == [kind : EventKinds, bytes : Nat]
MessageType == [kind : {"offer", "chunk", "complete", "cancel"},
                transfer : Transfers, offset : Nat]

\* Chunks end at numbers of bytes.
LEMMA ChunkEnds == \A n \in Nat : ChunkEnd(n) \in Nat
BY ConstantsAssumption DEF ChunkEnd

\* The event a task hears is the first of its channel.
LEMMA Heads ==
  ASSUME TypeOK, NEW t \in Transfers, events[t] # <<>>
  PROVE  /\ Head(events[t]) \in EventType
         /\ Head(events[t]) = events[t][1]
         /\ Tail(events[t]) \in Seq(EventType)
<1>1. events[t] \in Seq(EventType)
  BY DEF TypeOK, EventType
<1> QED
  BY <1>1

\* An event that is heard moves the task of its transfer only, and its row: the
\* task goes on where it is, starts to send, gives up, or has succeeded.
LEMMA HearShape ==
  ASSUME TypeOK, NEW t \in Transfers, Hear(t)
  PROVE  /\ task'[t] \in TaskType
         /\ \A u \in Transfers : u # t => task'[u] = task[u] /\ row'[u] = row[u]
         /\ task' \in [Transfers -> TaskType]
         /\ row' \in [Transfers -> ActiveStatuses \cup Terminal \cup {"none", "interrupted"}]
         /\ task'[t].inst = task[t].inst /\ task'[t].sent = task[t].sent
         /\ task[t].at \in {"waiting", "sending", "finalizing"}
         /\ \/ task'[t].acked = task[t].acked
            \/ ValidAck(t, task'[t].acked) /\ task'[t].at = "sending" /\ task[t].at = "sending"
         /\ \/ /\ task'[t].at = task[t].at /\ task'[t].end = task[t].end
               /\ \/ row'[t] = row[t]
                  \/ row'[t] \in ActiveStatuses
            \/ /\ task[t].at = "waiting" /\ task'[t].at = "sending"
               /\ task'[t].end = task[t].end /\ row'[t] = "transferring"
            \/ /\ task'[t].at = "ending" /\ row'[t] = row[t]
               /\ \/ task'[t].end = "failed"
                  \/ task'[t].end = "rejected" /\ Head(events[t]).kind = "refused"
            \/ /\ task[t].at = "finalizing" /\ task'[t].at = "finishing"
               /\ task'[t].end = task[t].end /\ row'[t] = "completed"
               /\ Head(events[t]).kind = "installed"
<1> DEFINE e == Head(events[t])
<1>1. e \in EventType
  BY Heads DEF Hear
<1>2. Heard(t) \in TaskType /\ task[t] \in TaskType
  <2>1. task[t] \in TaskType
    BY DEF TypeOK, TaskType
  <2> QED
    BY <2>1 DEF TaskType, Heard
<1>3. /\ Heard(t).at = task[t].at /\ Heard(t).inst = task[t].inst
      /\ Heard(t).end = task[t].end /\ Heard(t).sent = task[t].sent
      /\ Heard(t).acked = task[t].acked
  BY <1>2 DEF Heard, TaskType
<1>4. task[t].at \in {"waiting", "sending", "finalizing"}
  BY DEF Hear, Listening
<1>5. row \in [Transfers -> ActiveStatuses \cup Terminal \cup {"none", "interrupted"}]
  BY DEF TypeOK, Terminal
<1>6. ASSUME NEW r \in TaskType, Becomes(t, r)
      PROVE  /\ task'[t] = r /\ task' \in [Transfers -> TaskType]
             /\ \A u \in Transfers : u # t => task'[u] = task[u]
  BY <1>6 DEF Becomes, TypeOK, TaskType
<1>7. ASSUME NEW how \in {"rejected", "failed"}, Ends(t, how)
      PROVE  /\ task' \in [Transfers -> TaskType]
             /\ \A u \in Transfers : u # t => task'[u] = task[u]
             /\ task'[t].at = "ending" /\ task'[t].end = how
             /\ task'[t].inst = task[t].inst /\ task'[t].sent = task[t].sent
             /\ task'[t].acked = task[t].acked
  <2> DEFINE r == [Heard(t) EXCEPT !.at = "ending", !.end = how]
  <2>1. r \in TaskType /\ r.at = "ending" /\ r.end = how /\ r.inst = task[t].inst
        /\ r.sent = task[t].sent /\ r.acked = task[t].acked
    BY <1>2, <1>3 DEF TaskType, Places
  <2>2. Becomes(t, r)
    BY <1>7 DEF Ends
  <2> QED
    BY <1>6, <2>1, <2>2
<1>8. CASE HearDecision(t, e)
  <2>1. CASE e.kind = "accepted"
    <3> DEFINE r == [Heard(t) EXCEPT !.at = "sending"]
    <3>1. r \in TaskType /\ r.at = "sending" /\ r.end = task[t].end /\ r.inst = task[t].inst
          /\ r.sent = task[t].sent /\ r.acked = task[t].acked
      BY <1>2, <1>3 DEF TaskType, Places
    <3>2. Becomes(t, r) /\ row' = [row EXCEPT ![t] = "transferring"] /\ task[t].at = "waiting"
      BY <1>8, <2>1 DEF HearDecision
    <3> HIDE DEF r
    <3>3. task'[t] = r /\ task' \in [Transfers -> TaskType]
          /\ \A u \in Transfers : u # t => task'[u] = task[u]
      BY <1>6, <3>1, <3>2
    <3> QED
      BY <1>5, <3>1, <3>2, <3>3 DEF ActiveStatuses
  <2>2. CASE e.kind = "refused"
    BY <1>4, <1>5, <1>7, <1>8, <2>2 DEF HearDecision, TaskType
  <2>3. CASE e.kind = "disconnected"
    BY <1>4, <1>5, <1>7, <1>8, <2>3 DEF HearDecision, TaskType
  <2>4. CASE e.kind \notin {"accepted", "refused", "disconnected"}
    <3>1. Becomes(t, Heard(t)) /\ row' = row
      BY <1>8, <2>4 DEF HearDecision
    <3> QED
      BY <1>2, <1>3, <1>4, <1>5, <1>6, <3>1
  <2> QED
    BY <2>1, <2>2, <2>3, <2>4
<1>9. CASE HearAck(t, e)
  <2>1. CASE e.kind = "ack"
    <3>1. CASE ValidAck(t, e.bytes)
      <4> DEFINE r == [Heard(t) EXCEPT !.acked = e.bytes]
      <4>1. r \in TaskType /\ r.at = task[t].at /\ r.end = task[t].end /\ r.inst = task[t].inst
            /\ r.sent = task[t].sent /\ r.acked = e.bytes
        BY <1>1, <1>2, <1>3 DEF TaskType, EventType
      <4>2. Becomes(t, r) /\ row' = row /\ task[t].at = "sending"
        BY <1>9, <2>1, <3>1 DEF HearAck
      <4> HIDE DEF r
      <4>3. task'[t] = r /\ task' \in [Transfers -> TaskType]
            /\ \A u \in Transfers : u # t => task'[u] = task[u]
        BY <1>6, <4>1, <4>2
      <4> QED
        BY <1>5, <3>1, <4>1, <4>2, <4>3
    <3>2. CASE ~ValidAck(t, e.bytes)
      BY <1>4, <1>5, <1>7, <1>9, <2>1, <3>2 DEF HearAck, TaskType
    <3> QED
      BY <3>1, <3>2
  <2>2. CASE e.kind = "progress"
    <3>1. Becomes(t, Heard(t)) /\ row' = [row EXCEPT ![t] = "transferring"]
      BY <1>9, <2>2 DEF HearAck
    <3> QED
      BY <1>2, <1>3, <1>4, <1>5, <1>6, <3>1 DEF ActiveStatuses
  <2>3. CASE e.kind \in {"installed", "broken", "disconnected"}
    BY <1>4, <1>5, <1>7, <1>9, <2>3 DEF HearAck, TaskType
  <2>4. CASE e.kind \in {"accepted", "refused"}
    <3>1. Becomes(t, Heard(t)) /\ row' = row
      BY <1>9, <2>4 DEF HearAck
    <3> QED
      BY <1>2, <1>3, <1>4, <1>5, <1>6, <3>1
  <2> QED
    BY <1>9, <2>1, <2>2, <2>3, <2>4 DEF HearAck
<1>10. CASE HearResult(t, e)
  <2>1. CASE e.kind = "installed"
    <3> DEFINE r == [Heard(t) EXCEPT !.at = "finishing"]
    <3>1. r \in TaskType /\ r.at = "finishing" /\ r.end = task[t].end /\ r.inst = task[t].inst
          /\ r.sent = task[t].sent /\ r.acked = task[t].acked
      BY <1>2, <1>3 DEF TaskType, Places
    <3>2. Becomes(t, r) /\ row' = [row EXCEPT ![t] = "completed"] /\ task[t].at = "finalizing"
      BY <1>10, <2>1 DEF HearResult, Success
    <3> HIDE DEF r
    <3>3. task'[t] = r /\ task' \in [Transfers -> TaskType]
          /\ \A u \in Transfers : u # t => task'[u] = task[u]
      BY <1>6, <3>1, <3>2
    <3> QED
      BY <1>5, <2>1, <3>1, <3>2, <3>3 DEF Terminal
  <2>2. CASE e.kind \in {"broken", "disconnected"}
    BY <1>4, <1>5, <1>7, <1>10, <2>2 DEF HearResult, Success, TaskType
  <2>3. CASE e.kind = "progress"
    <3>1. Becomes(t, Heard(t)) /\ row' = [row EXCEPT ![t] = "finalizing"]
      BY <1>10, <2>3 DEF HearResult, Success
    <3> QED
      BY <1>2, <1>3, <1>4, <1>5, <1>6, <3>1 DEF ActiveStatuses
  <2>4. CASE e.kind \in {"ack", "accepted", "refused"}
    <3>1. Becomes(t, Heard(t)) /\ row' = row
      BY <1>10, <2>4 DEF HearResult, Success
    <3> QED
      BY <1>2, <1>3, <1>4, <1>5, <1>6, <3>1
  <2> QED
    BY <1>1, <2>1, <2>2, <2>3, <2>4 DEF EventType, EventKinds
<1> QED
  BY <1>8, <1>9, <1>10 DEF Hear

RowType == ActiveStatuses \cup Terminal \cup {"none", "interrupted"}

\* Only the task of the transfer moves, and it keeps its type.
Alone(t) ==
  /\ task' \in [Transfers -> TaskType] /\ row' \in [Transfers -> RowType]
  /\ \A u \in Transfers : u # t => task'[u] = task[u] /\ row'[u] = row[u]

\* The task of a transfer gives up.
LEMMA AbortShape ==
  ASSUME TypeOK, NEW t \in Transfers, NEW how \in {"failed", "cancelled"}, Abort(t, how)
  PROVE  /\ task' \in [Transfers -> TaskType]
         /\ \A u \in Transfers : u # t => task'[u] = task[u]
         /\ task'[t] = [task[t] EXCEPT !.at = "ending", !.end = how]
         /\ task'[t].at = "ending" /\ task'[t].end = how
         /\ task'[t].inst = task[t].inst
         /\ task'[t].sent = task[t].sent /\ task'[t].acked = task[t].acked
<1>1. task \in [Transfers -> TaskType]
  BY DEF TypeOK, TaskType
<1>2. task'[t] = [task[t] EXCEPT !.at = "ending", !.end = how]
  BY <1>1 DEF Abort
<1>3. [task[t] EXCEPT !.at = "ending", !.end = how] \in TaskType
  BY <1>1 DEF TaskType, Places
<1> QED
  BY <1>1, <1>2, <1>3 DEF Abort, TaskType

\* The places a task goes through by itself, and what it does to its row.
RunsOn(t) ==
  \/ /\ task'[t].inst = task[t].inst /\ Running(t) /\ task'[t].at \notin {"new", "done"}
     /\ active' = active
     /\ \/ /\ task[t].at = "starting" /\ task'[t].at = "packing" /\ row'[t] = "preparing"
           /\ task'[t].end = task[t].end
        \/ /\ task[t].at \in Busy /\ task'[t].at \in Busy \ {"ending"}
           /\ task'[t].end = task[t].end
           /\ row'[t] = row[t] \/ row'[t] \in ActiveStatuses
        \/ /\ task[t].at \in Busy \ {"ending"} /\ task'[t].at = "ending" /\ row'[t] = row[t]
           /\ \/ task'[t].end \in {"failed", "cancelled"}
              \/ /\ task'[t].end = "rejected" /\ events[t] # <<>>
                 /\ Head(events[t]).kind = "refused"
        \/ /\ task[t].at = "ending" /\ task'[t].at = "finishing" /\ row'[t] = task[t].end
           /\ task'[t].end = task[t].end
        \/ /\ task[t].at = "finalizing" /\ task'[t].at = "finishing" /\ row'[t] = "completed"
           /\ task'[t].end = task[t].end /\ events[t] # <<>>
           /\ Head(events[t]).kind = "installed"
  \/ /\ task[t].at \in {"starting", "finishing"} /\ row' = row
     /\ active' = active \ {t} /\ task'[t] = Idle("done")

LEMMA RunShape ==
  ASSUME TypeOK, NEW t \in Transfers, Run(t)
  PROVE  Alone(t) /\ RunsOn(t)
<1>1. task \in [Transfers -> TaskType] /\ row \in [Transfers -> RowType]
  BY DEF TypeOK, TaskType, RowType, Terminal
<1>2. Idle("done") \in TaskType
  BY DEF Idle, TaskType, Places
<1>3. ASSUME NEW how \in {"failed", "cancelled"}, Abort(t, how), row' = row, active' = active,
             task[t].at \in Busy \ {"ending"}
      PROVE  Alone(t) /\ RunsOn(t)
  BY <1>1, <1>3, AbortShape DEF Alone, RunsOn, Running, Busy
<1>4. CASE Insert(t)
  <2>1. CASE row' = [row EXCEPT ![t] = "preparing"] /\ UNCHANGED active
             /\ task' = [task EXCEPT ![t].at = "packing"]
    BY <1>1, <1>4, <2>1 DEF Insert, Alone, RunsOn, Running, TaskType, Places, RowType,
       ActiveStatuses
  <2>2. CASE active' = active \ {t} /\ UNCHANGED row /\ task' = [task EXCEPT ![t] = Idle("done")]
    BY <1>1, <1>2, <1>4, <2>2 DEF Insert, Alone, RunsOn
  <2> QED
    BY <1>4, <2>1, <2>2 DEF Insert
<1>5. CASE Pack(t)
  <2>1. CASE task' = [task EXCEPT ![t].at = "packed"]
    BY <1>1, <1>5, <2>1 DEF Pack, Alone, RunsOn, Running, Busy, TaskType, Places
  <2> QED
    BY <1>3, <1>5, <2>1 DEF Pack, Busy
<1>6. CASE Address(t)
  <2>1. CASE task' = [task EXCEPT ![t].at = "offering"]
    BY <1>1, <1>6, <2>1 DEF Address, Alone, RunsOn, Running, Busy, TaskType, Places
  <2> QED
    BY <1>3, <1>6, <2>1 DEF Address, Busy
<1>7. CASE Offer(t)
  BY <1>1, <1>7 DEF Offer, Alone, RunsOn, Running, Busy, TaskType, Places, RowType,
     ActiveStatuses
<1>8. CASE SendChunk(t)
  <2> /\ task[t].at = "sending" /\ row' = row /\ active' = active
      /\ Abort(t, "failed") \/ task' = [task EXCEPT ![t].sent = ChunkEnd(@)]
    BY <1>8 DEF SendChunk
  <2>1. CASE task' = [task EXCEPT ![t].sent = ChunkEnd(@)]
    <3>1. [task[t] EXCEPT !.sent = ChunkEnd(@)] \in TaskType
      BY <1>1, ChunkEnds DEF TaskType
    <3>2. /\ task'[t] = [task[t] EXCEPT !.sent = ChunkEnd(@)] /\ task' \in [Transfers -> TaskType]
          /\ \A u \in Transfers : u # t => task'[u] = task[u]
      BY <1>1, <2>1, <3>1
    <3> QED
      BY <1>1, <3>1, <3>2 DEF Alone, RunsOn, Running, Busy, TaskType
  <2> QED
    BY <1>3, <2>1 DEF Busy
<1>9. CASE Complete(t)
  <2> task[t].at = "sending" /\ active' = active
    BY <1>9 DEF Complete
  <2>1. CASE Reachable(t)
    <3>1. /\ row' = [row EXCEPT ![t] = "finalizing"]
          /\ task' = [task EXCEPT ![t].at = "finalizing"]
      BY <1>9, <2>1 DEF Complete
    <3>2. [task[t] EXCEPT !.at = "finalizing"] \in TaskType
      BY <1>1 DEF TaskType, Places
    <3>3. /\ task'[t] = [task[t] EXCEPT !.at = "finalizing"] /\ task' \in [Transfers -> TaskType]
          /\ \A u \in Transfers : u # t => task'[u] = task[u]
      BY <1>1, <3>1, <3>2
    <3> QED
      BY <1>1, <3>1, <3>2, <3>3 DEF Alone, RunsOn, Running, Busy, TaskType, RowType,
         ActiveStatuses
  <2>2. CASE ~Reachable(t)
    BY <1>3, <1>9, <2>2 DEF Complete, Busy
  <2> QED
    BY <2>1, <2>2
<1>10. CASE Hear(t)
  <2>1. /\ events[t] # <<>> /\ active' = active
        /\ task[t].at \in {"waiting", "sending", "finalizing"}
        /\ Alone(t) /\ task'[t].inst = task[t].inst
    BY <1>10, HearShape DEF Hear, Alone, RowType
  <2>2. RunsOn(t)
    BY <1>10, <2>1, HearShape DEF RunsOn, Running, Busy, ActiveStatuses
  <2> QED
    BY <2>1, <2>2
<1>11. CASE Timeout(t)
  BY <1>3, <1>11 DEF Timeout, Impatient, Listening, Busy
<1>12. CASE HearCancel(t)
  BY <1>3, <1>12 DEF HearCancel, Listening, Busy
<1>13. CASE End(t)
  BY <1>1, <1>13 DEF End, Alone, RunsOn, Running, Busy, TaskType, Places, RowType, Terminal
<1>14. CASE Finish(t)
  BY <1>1, <1>2, <1>14 DEF Finish, Alone, RunsOn
<1> QED
  BY <1>4, <1>5, <1>6, <1>7, <1>8, <1>9, <1>10, <1>11, <1>12, <1>13, <1>14 DEF Run

\* A cancel, of one transfer or of all of them at the shutdown, changes nothing
\* of a task but that it was asked to stop.
AskedOnly ==
  /\ task' \in [Transfers -> TaskType] /\ active' = active
  /\ \A u \in Transfers :
       /\ task'[u].at = task[u].at /\ task'[u].inst = task[u].inst
       /\ task'[u].end = task[u].end
       /\ task'[u].sent = task[u].sent /\ task'[u].acked = task[u].acked
  /\ row' = row \/ row' = Interrupted

LEMMA AskedShape ==
  ASSUME TypeOK, StopAll \/ \E t \in Transfers : Cancel(t)
  PROVE  AskedOnly
<1>1. task \in [Transfers -> TaskType]
  BY DEF TypeOK, TaskType
<1>2. ASSUME NEW r \in TaskType
      PROVE  /\ Asked(r) \in TaskType
             /\ Asked(r).at = r.at /\ Asked(r).inst = r.inst /\ Asked(r).end = r.end
             /\ Asked(r).sent = r.sent /\ Asked(r).acked = r.acked
  BY DEF Asked, TaskType
<1>3. CASE StopAll
  BY <1>1, <1>2, <1>3 DEF StopAll, AskedOnly
<1>4. ASSUME NEW t \in Transfers, Cancel(t) PROVE AskedOnly
  <2>1. task' = [task EXCEPT ![t] = Asked(task[t])] /\ active' = active /\ row' = row
    BY <1>1, <1>4 DEF Cancel, KeptByCancel
  <2> QED
    BY <1>1, <1>2, <2>1 DEF AskedOnly
<1> QED
  BY <1>3, <1>4

\* The steps that touch tasks, rows and slots.
LEMMA TaskSteps ==
  ASSUME Next
  PROVE  \/ \E t \in Transfers : Run(t)
         \/ \E t \in Transfers, i \in Instances : Reserve(t, i)
         \/ StopAll \/ \E t \in Transfers : Cancel(t)
         \/ Restart
         \/ UNCHANGED taskVars
BY DEF Next, Install, Break, Decide, Stray, Connect, Leave, FailTransfers, Receive,
   TakeSessions, TakeTransfers, taskVars

-----------------------------------------------------------------------------
(* Slots.                                                                    *)

LEMMA SlotsInit == Init => SlotsInv
<1> SUFFICES ASSUME Init PROVE SlotsInv
  OBVIOUS
<1>1. \A t \in Transfers : ~Running(t)
  BY DEF Init, Idle, Running
<1>2. active = {} /\ Cardinality({}) = 0
  BY FS_EmptySet DEF Init
<1> QED
  BY <1>1, <1>2, ConstantsAssumption DEF SlotsInv

\* A slot is taken with the task that starts, and given back with the one that ends.
LEMMA SlotsStep ==
  ASSUME TypeOK, SlotsInv, Next
  PROVE  SlotsInv'
<1>0. task \in [Transfers -> TaskType] /\ active \subseteq Transfers
  BY DEF TypeOK, TaskType
<1>1. IsFiniteSet(active) /\ Cardinality(active) \in Nat
  BY <1>0, ConstantsAssumption, FS_Subset, FS_CardinalityType
<1>2. ASSUME NEW t \in Transfers, Run(t) PROVE SlotsInv'
  <2>1. Alone(t) /\ RunsOn(t)
    BY <1>2, RunShape
  <2>2. CASE active' = active /\ Running(t) /\ task'[t].at \notin {"new", "done"}
             /\ task'[t].inst = task[t].inst
    BY <2>1, <2>2 DEF SlotsInv, Alone, Running
  <2>3. CASE active' = active \ {t} /\ task'[t] = Idle("done")
    <3>1. Cardinality(active \ {t}) <= Cardinality(active)
          /\ Cardinality(active \ {t}) \in Nat
      BY <1>1, FS_Subset, FS_CardinalityType
    <3>2. Cardinality(active') <= MaxActive
      BY <1>1, <2>3, <3>1, ConstantsAssumption DEF SlotsInv
    <3> QED
      BY <2>1, <2>3, <3>2 DEF SlotsInv, Alone, Running, Idle
  <2> QED
    BY <2>1, <2>2, <2>3 DEF RunsOn
<1>3. ASSUME NEW t \in Transfers, NEW i \in Instances, Reserve(t, i) PROVE SlotsInv'
  <2>1. /\ task[t].at = "new" /\ FreeSlot(i) /\ active' = active \cup {t}
        /\ task' = [task EXCEPT ![t].at = "starting", ![t].inst = i]
    BY <1>3 DEF Reserve
  <2>2. /\ task'[t].at = "starting" /\ task'[t].inst = i
        /\ \A u \in Transfers : u # t => task'[u] = task[u]
    BY <1>0, <2>1 DEF TaskType
  <2>3. t \notin active
    BY <2>1 DEF SlotsInv, Running
  <2>4. Cardinality(active') <= MaxActive
    <3>1. Cardinality(active \cup {t}) = Cardinality(active) + 1
      BY <1>1, <2>3, FS_AddElement
    <3>2. Cardinality(active) < MaxActive
      BY <2>1 DEF FreeSlot
    <3> QED
      BY <1>1, <2>1, <3>1, <3>2, ConstantsAssumption
  <2>5. \A u \in active : task'[u] = task[u] /\ task[u].inst # i
    BY <1>0, <2>1, <2>2, <2>3 DEF FreeSlot
  <2>6. active' = {u \in Transfers : Running(u)}'
    BY <2>1, <2>2 DEF SlotsInv, Running
  <2>7. \A u \in active' : task'[u].inst \in Instances
    BY <2>1, <2>2, <2>5 DEF SlotsInv
  <2>8. \A u, v \in active' : u # v => task'[u].inst # task'[v].inst
    <3>1. \A u, v \in active : u # v => task'[u].inst # task'[v].inst
      BY <2>5 DEF SlotsInv
    <3>2. \A v \in active : task'[t].inst # task'[v].inst
      BY <2>2, <2>5
    <3> QED
      BY <2>1, <3>1, <3>2
  <2> QED
    BY <2>4, <2>6, <2>7, <2>8 DEF SlotsInv
<1>4. CASE StopAll \/ \E t \in Transfers : Cancel(t)
  <2>1. AskedOnly
    BY <1>4, AskedShape
  <2>2. \A u \in Transfers : Running(u)' <=> Running(u)
    BY <2>1 DEF AskedOnly, Running
  <2>3. active' = active
    BY <2>1 DEF AskedOnly
  <2>4. \A u \in active' : task'[u].inst = task[u].inst
    BY <1>0, <2>1, <2>3 DEF AskedOnly
  <2>5. active' = {u \in Transfers : Running(u)}'
    BY <2>2, <2>3 DEF SlotsInv
  <2> QED
    BY <2>3, <2>4, <2>5 DEF SlotsInv
<1>5. CASE Restart
  <2>1. active' = {} /\ Cardinality({}) = 0
    BY <1>5, FS_EmptySet DEF Restart
  <2>2. \A t \in Transfers : task'[t].at \in {"new", "done"}
    BY <1>5 DEF Restart, Idle
  <2> QED
    BY <2>1, <2>2, ConstantsAssumption DEF SlotsInv, Running
<1>6. CASE UNCHANGED taskVars
  BY <1>6 DEF SlotsInv, Running, taskVars
<1> QED
  BY <1>2, <1>3, <1>4, <1>5, <1>6, TaskSteps

-----------------------------------------------------------------------------
(* Rows.                                                                     *)

LEMMA RowInit == Init => RowInv
BY DEF Init, Idle, RowInv, Busy, ActiveStatuses

\* A row is active while its task is busy, and has the task's last word after that.
LEMMA RowStep ==
  ASSUME TypeOK, RowInv, Next
  PROVE  RowInv'
<1>0. task \in [Transfers -> TaskType] /\ row \in [Transfers -> RowType]
  BY DEF TypeOK, TaskType, RowType, Terminal
<1>1. ASSUME NEW t \in Transfers, Run(t) PROVE RowInv'
  <2>1. Alone(t) /\ RunsOn(t)
    BY <1>1, RunShape
  <2>2. ASSUME NEW u \in Transfers, u # t
        PROVE  task'[u] = task[u] /\ row'[u] = row[u]
    BY <2>1, <2>2 DEF Alone
  <2>3. task[t] \in TaskType
    BY <1>0
  <2>4. /\ task'[t].at \notin {"new", "starting"}
        /\ task'[t].at \in Busy => row'[t] \in ActiveStatuses \cup {"interrupted"}
        /\ task'[t].at = "ending" => task'[t].end # "none"
        /\ task'[t].at = "finishing" => row'[t] \in Terminal
        /\ task'[t].at = "done" => row'[t] \notin ActiveStatuses
    BY <2>1, <2>3 DEF RunsOn, RowInv, Busy, Idle, Terminal, ActiveStatuses, TaskType
  <2> QED
    BY <2>2, <2>4 DEF RowInv
<1>2. ASSUME NEW t \in Transfers, NEW i \in Instances, Reserve(t, i) PROVE RowInv'
  <2>1. /\ task[t].at = "new" /\ row' = row
        /\ task'[t].at = "starting" /\ \A u \in Transfers : u # t => task'[u] = task[u]
    BY <1>0, <1>2 DEF Reserve, TaskType
  <2> QED
    BY <2>1 DEF RowInv, Busy
<1>3. ASSUME \A u \in Transfers : /\ task'[u].at = task[u].at \/ task'[u].at = "done"
                                  /\ task'[u].end = task[u].end \/ task'[u].at = "done",
             row' = Interrupted
      PROVE  RowInv'
  BY <1>0, <1>3 DEF RowInv, Interrupted, ActiveStatuses, Terminal, Busy, RowType
<1>4. CASE StopAll \/ \E t \in Transfers : Cancel(t)
  <2>1. AskedOnly
    BY <1>4, AskedShape
  <2>2. CASE row' = row
    BY <2>1, <2>2 DEF AskedOnly, RowInv
  <2> QED
    BY <1>3, <2>1, <2>2 DEF AskedOnly
<1>5. CASE Restart
  BY <1>3, <1>5 DEF Restart, Idle
<1>6. CASE UNCHANGED taskVars
  BY <1>6 DEF RowInv, taskVars
<1> QED
  BY <1>1, <1>2, <1>4, <1>5, <1>6, TaskSteps

-----------------------------------------------------------------------------
(* The window.                                                               *)

\* Sending goes chunk by chunk; from any chunk's end that is not acknowledged
\* before, at most a window has been sent.
Sent(r) ==
  /\ r.acked <= r.sent /\ r.sent <= Size
  /\ r.sent = Size \/ Whole(r.sent)
  /\ r.sent - r.acked < WindowBytes + ChunkBytes
  /\ \A n \in Nat : Whole(n) /\ r.acked <= n /\ n <= r.sent => r.sent - n <= WindowBytes
  /\ r.at = "finalizing" => r.acked = Size

WindowInv == \A t \in Transfers : Sent(task[t])

\* The window is some chunks, and what ends with a chunk does so after the next.
LEMMA Windows == /\ WindowBytes \in Nat /\ ChunkBytes \in Nat
                 /\ ChunkBytes > 0 /\ ChunkBytes <= WindowBytes
<1> DEFINE C == ChunkBytes
           W == Window
<1>1. C \in Nat /\ W \in Nat /\ C >= 1 /\ W >= 1
  BY ConstantsAssumption
<1> HIDE DEF C, W
<1>2. C * W \in Nat /\ C <= C * W
  BY <1>1
<1> QED
  BY <1>1, <1>2 DEF WindowBytes, C, W

LEMMA Multiples ==
  ASSUME NEW n \in Nat, Whole(n)
  PROVE  \E k \in Nat : n = k * ChunkBytes
BY DEF Whole

LEMMA WholeIs ==
  ASSUME NEW k \in Nat
  PROVE  Whole(k * ChunkBytes)
<1> DEFINE C == ChunkBytes
<1>1. C \in Nat /\ C >= 1
  BY ConstantsAssumption
<1> HIDE DEF C
<1>2. k * C \in Nat /\ k <= k * C
  BY <1>1
<1>3. k \in 0..(k * C)
  BY <1>2
<1> QED
  BY <1>3 DEF Whole, C

\* Less than some chunks is at most one chunk less.
LEMMA ChunkFits ==
  ASSUME NEW m \in Nat, NEW n \in Nat, Whole(m), Whole(n), n <= m, m - n < WindowBytes
  PROVE  (m + ChunkBytes) - n <= WindowBytes /\ Whole(m + ChunkBytes)
<1> DEFINE C == ChunkBytes
           W == Window
<1>1. C \in Nat /\ W \in Nat /\ C >= 1
  BY ConstantsAssumption
<1>2. PICK i \in Nat : m = i * C
  BY Multiples
<1>3. PICK j \in Nat : n = j * C
  BY Multiples
<1>4. i * C - j * C < C * W
  BY <1>2, <1>3 DEF WindowBytes
<1>5. m + C = (i + 1) * C
  <2> HIDE DEF C
  <2> QED
    BY <1>1, <1>2
<1>6. (i + 1) * C - j * C <= C * W
  <2> HIDE DEF C, W
  <2> DEFINE d == i - j
  <2>1. d \in Int /\ i * C - j * C = d * C
    BY <1>1
  <2>2. (i + 1) * C - j * C = (d + 1) * C
    BY <1>1
  <2> HIDE DEF d
  <2>3. d < W
    <3>1. CASE d >= W
      <4>1. d * C >= W * C
        BY <1>1, <2>1, <3>1
      <4> QED
        BY <1>1, <1>4, <2>1, <4>1
    <3> QED
      BY <1>1, <2>1, <3>1
  <2>4. PICK e \in Nat : W = d + 1 + e
    <3>1. W - (d + 1) \in Nat /\ W = d + 1 + (W - (d + 1))
      BY <1>1, <2>1, <2>3
    <3> QED
      BY <3>1
  <2>5. C * W = (d + 1) * C + e * C /\ e * C \in Nat
    BY <1>1, <2>1, <2>4
  <2>6. (d + 1) * C \in Int
    BY <1>1, <2>1
  <2> QED
    BY <2>2, <2>5, <2>6
<1>7. Whole((i + 1) * C)
  BY WholeIs
<1> QED
  BY <1>3, <1>5, <1>6, <1>7 DEF WindowBytes

LEMMA IdleSent == \A at : at # "finalizing" => Sent(Idle(at))
<1>1. Whole(0)
  <2>1. 0 * ChunkBytes = 0
    BY ConstantsAssumption
  <2> QED
    BY <2>1, WholeIs
<1>2. ASSUME NEW at, at # "finalizing" PROVE Sent(Idle(at))
  <2>1. /\ Idle(at).sent = 0 /\ Idle(at).acked = 0 /\ Idle(at).at = at
    BY DEF Idle
  <2> QED
    BY <1>1, <1>2, <2>1, Windows, ConstantsAssumption DEF Sent
<1> QED
  BY <1>2

LEMMA WindowInit == Init => WindowInv
BY IdleSent DEF Init, WindowInv

\* Sending stops at the window, and a valid acknowledgement only narrows it.
LEMMA WindowStep ==
  ASSUME TypeOK, WindowInv, Next
  PROVE  WindowInv'
<1>0. task \in [Transfers -> TaskType]
  BY DEF TypeOK, TaskType
<1>1. ASSUME NEW t \in Transfers, Run(t) PROVE WindowInv'
  <2>1. Alone(t) /\ RunsOn(t)
    BY <1>1, RunShape
  <2>2. Sent(task[t]) /\ task[t] \in TaskType
    BY <1>0 DEF WindowInv
  <2>3. ASSUME task'[t].sent = task[t].sent, task'[t].acked = task[t].acked,
               task'[t].at # "finalizing" \/ task[t].at = "finalizing"
        PROVE  Sent(task'[t])
    BY <2>2, <2>3 DEF Sent
  <2> SUFFICES Sent(task'[t])
    BY <2>1 DEF WindowInv, Alone
  <2>4. CASE Hear(t)
    <3>1. CASE ValidAck(t, task'[t].acked) /\ task'[t].at = "sending"
      <4>1. /\ task'[t].sent = task[t].sent /\ task[t].acked <= task'[t].acked
            /\ task'[t].acked <= task[t].sent /\ task'[t].acked \in Nat
        BY <2>4, <3>1, HearShape DEF ValidAck, TaskType
      <4> QED
        BY <2>2, <3>1, <4>1, Windows, ConstantsAssumption DEF Sent, TaskType
    <3> QED
      BY <2>3, <2>4, <3>1, HearShape
  <2>5. CASE SendChunk(t)
    <3>1. CASE task' = [task EXCEPT ![t].sent = ChunkEnd(@)]
      <4> DEFINE s == task[t].sent
                 a == task[t].acked
      <4>1. /\ task'[t].sent = ChunkEnd(s) /\ task'[t].acked = a
            /\ task'[t].at = "sending"
        BY <2>2, <1>0, <2>5, <3>1 DEF SendChunk, TaskType
      <4>2. /\ s # Size /\ ~(s - a >= WindowBytes) /\ s \in Nat /\ a \in Nat
            /\ Whole(s) /\ s < Size /\ a <= s
        BY <2>2, <2>5, ConstantsAssumption DEF SendChunk, Blocked, Sent, TaskType
      <4>3. Whole(s + ChunkBytes)
        BY <4>2, ChunkFits, Windows
      <4>4. /\ s <= ChunkEnd(s) /\ ChunkEnd(s) <= s + ChunkBytes /\ ChunkEnd(s) <= Size
            /\ ChunkEnd(s) \in Nat
        BY <4>2, Windows, ConstantsAssumption DEF ChunkEnd
      <4>5. ChunkEnd(s) = Size \/ Whole(ChunkEnd(s))
        BY <4>3 DEF ChunkEnd
      <4>6. ASSUME NEW n \in Nat, Whole(n), a <= n, n <= ChunkEnd(s)
            PROVE  ChunkEnd(s) - n <= WindowBytes
        <5>1. CASE n <= s
          <6>1. s - n < WindowBytes
            BY <4>2, <4>6, <5>1, Windows
          <6>2. (s + ChunkBytes) - n <= WindowBytes
            BY <4>2, <4>6, <5>1, <6>1, ChunkFits
          <6> QED
            BY <4>2, <4>4, <6>2, Windows
        <5>2. CASE n > s
          BY <4>2, <4>4, <5>2, Windows
        <5> QED
          BY <4>2, <5>1, <5>2
      <4>7. a <= ChunkEnd(s) /\ ChunkEnd(s) - a < WindowBytes + ChunkBytes
        BY <4>2, <4>4, Windows
      <4> QED
        BY <4>1, <4>4, <4>5, <4>6, <4>7 DEF Sent
    <3>2. CASE Abort(t, "failed")
      BY <2>3, <3>2, AbortShape
    <3> QED
      BY <2>5, <3>1, <3>2 DEF SendChunk
  <2>6. CASE Complete(t)
    <3>1. CASE Reachable(t)
      <4>1. /\ task'[t].sent = task[t].sent /\ task'[t].acked = task[t].acked
            /\ task[t].acked = Size
        BY <1>0, <2>2, <2>6, <3>1 DEF Complete, TaskType
      <4> QED
        BY <2>2, <4>1 DEF Sent
    <3>2. CASE ~Reachable(t)
      BY <2>3, <2>6, <3>2, AbortShape DEF Complete
    <3> QED
      BY <3>1, <3>2
  <2>7. CASE task'[t] = Idle("done")
    BY <2>7, IdleSent
  <2>8. CASE Insert(t) \/ Pack(t) \/ Address(t) \/ Offer(t) \/ Timeout(t) \/ HearCancel(t)
             \/ End(t) \/ Finish(t)
    <3>1. ASSUME NEW how \in {"failed", "cancelled"}, Abort(t, how)
          PROVE  Sent(task'[t])
      BY <2>3, <3>1, AbortShape
    <3>2. ASSUME NEW a \in Places \ {"finalizing"}, task' = [task EXCEPT ![t].at = a]
          PROVE  Sent(task'[t])
      BY <1>0, <2>2, <2>3, <3>2 DEF TaskType
    <3>3. CASE Insert(t) \/ Offer(t) \/ End(t) \/ Finish(t)
      BY <1>0, <2>7, <3>2, <3>3 DEF Insert, Offer, End, Finish, Places
    <3>4. CASE Pack(t) \/ Address(t)
      BY <3>1, <3>2, <3>4 DEF Pack, Address, Places
    <3>5. CASE Timeout(t) \/ HearCancel(t)
      BY <3>1, <3>5 DEF Timeout, HearCancel
    <3> QED
      BY <2>8, <3>3, <3>4, <3>5
  <2> QED
    BY <1>1, <2>4, <2>5, <2>6, <2>8 DEF Run
<1>2. ASSUME NEW t \in Transfers, NEW i \in Instances, Reserve(t, i) PROVE WindowInv'
  <2>1. /\ task'[t].sent = task[t].sent /\ task'[t].acked = task[t].acked
        /\ task'[t].at = "starting" /\ \A u \in Transfers : u # t => task'[u] = task[u]
    BY <1>0, <1>2 DEF Reserve, TaskType
  <2> QED
    BY <2>1 DEF WindowInv, Sent
<1>3. CASE StopAll \/ \E t \in Transfers : Cancel(t)
  <2>1. AskedOnly
    BY <1>3, AskedShape
  <2> QED
    BY <2>1 DEF AskedOnly, WindowInv, Sent
<1>4. CASE Restart
  <2>1. \A t \in Transfers : task'[t] = task[t] \/ task'[t] = Idle("done")
    BY <1>4 DEF Restart
  <2> QED
    BY <2>1, IdleSent DEF WindowInv
<1>5. CASE UNCHANGED taskVars
  BY <1>5 DEF WindowInv, taskVars
<1> QED
  BY <1>1, <1>2, <1>3, <1>4, <1>5, TaskSteps

-----------------------------------------------------------------------------
(* Types.                                                                    *)

\* Messages, events and what a game forgets keep their types.
LEMMA SendType ==
  ASSUME TypeOK, NEW c, NEW m \in MessageType, Send(c, m)
  PROVE  wire' \in [Connections -> Seq(MessageType)]
<1>1. wire \in [Connections -> Seq(MessageType)]
  BY DEF TypeOK, MessageType
<1>2. \A d \in Connections : Append(wire[d], m) \in Seq(MessageType)
  BY <1>1
<1> QED
  BY <1>1, <1>2 DEF Send

LEMMA TellType ==
  ASSUME TypeOK, NEW t \in Transfers, NEW e \in EventType, Tell(t, e)
  PROVE  events' \in [Transfers -> Seq(EventType)]
<1>1. events \in [Transfers -> Seq(EventType)]
  BY DEF TypeOK, EventType
<1>2. Append(events[t], e) \in Seq(EventType)
  BY <1>1
<1> QED
  BY <1>1, <1>2 DEF Tell

LEMMA DisconnectType ==
  ASSUME TypeOK, NEW S \in SUBSET Transfers, Disconnect(S)
  PROVE  events' \in [Transfers -> Seq(EventType)] /\ pending' \subseteq Transfers
<1>1. events \in [Transfers -> Seq(EventType)] /\ pending \subseteq Transfers
  BY DEF TypeOK, EventType
<1>2. Event("disconnected", 0) \in EventType
  BY DEF Event, EventType, EventKinds
<1>3. \A t \in Transfers : Append(events[t], Event("disconnected", 0)) \in Seq(EventType)
  BY <1>1, <1>2
<1> QED
  BY <1>1, <1>3 DEF Disconnect

GameStates == {"none", "prompted", "receiving", "verifying", "installed", "dropped"}

LEMMA ForgetType ==
  ASSUME TypeOK, NEW C, Forget(C)
  PROVE  game' \in [Transfers -> GameStates]
BY DEF TypeOK, Forget, GameStates

ChannelTypes ==
  /\ pending \subseteq Transfers /\ events \in [Transfers -> Seq(EventType)]
  /\ wire \in [Connections -> Seq(MessageType)]
SessionTypes ==
  /\ session \in [Instances -> Connections \cup {NoConnection}] /\ draining \in BOOLEAN
  /\ owner \in [Connections -> Instances \cup {NoInstance}]
  /\ link \in [Connections -> {"new", "open", "leaving", "closed"}]
  /\ via \in [Transfers -> Connections \cup {NoConnection}]
GameTypes ==
  /\ game \in [Transfers -> GameStates] /\ got \in [Transfers -> Nat]
  /\ agreed \subseteq Transfers
  /\ exiting \in BOOLEAN /\ lives \in Nat /\ strays \in Nat
TaskTypes ==
  task \in [Transfers -> TaskType] /\ active \subseteq Transfers /\ row \in [Transfers -> RowType]

LEMMA TypeParts == TypeOK <=> TaskTypes /\ ChannelTypes /\ SessionTypes /\ GameTypes
BY DEF TypeOK, TaskTypes, ChannelTypes, SessionTypes, GameTypes, TaskType, RowType, Terminal,
   EventType, MessageType, GameStates

LEMMA TypeInit == Init => TypeOK
<1> SUFFICES ASSUME Init PROVE TypeOK
  OBVIOUS
<1>1. TaskTypes
  BY DEF Init, Idle, TaskTypes, TaskType, Places, RowType
<1>2. ChannelTypes
  BY DEF Init, ChannelTypes
<1>3. SessionTypes
  BY DEF Init, SessionTypes
<1>4. GameTypes
  BY DEF Init, GameTypes, GameStates
<1> QED
  BY <1>1, <1>2, <1>3, <1>4, TypeParts

LEMMA TaskTypesStep ==
  ASSUME TypeOK, Next
  PROVE  TaskTypes'
<1>0. TaskTypes
  BY TypeParts
<1>1. ASSUME NEW t \in Transfers, Run(t) PROVE TaskTypes'
  BY <1>0, <1>1, RunShape DEF Alone, RunsOn, TaskTypes
<1>2. ASSUME NEW t \in Transfers, NEW i \in Instances, Reserve(t, i) PROVE TaskTypes'
  <2>1. [task[t] EXCEPT !.at = "starting", !.inst = i] \in TaskType
    BY <1>0 DEF TaskTypes, TaskType, Places
  <2>2. task' = [task EXCEPT ![t] = [task[t] EXCEPT !.at = "starting", !.inst = i]]
    BY <1>0, <1>2 DEF Reserve, TaskTypes
  <2> QED
    BY <1>0, <1>2, <2>1, <2>2 DEF Reserve, TaskTypes
<1>3. Interrupted \in [Transfers -> RowType]
  BY <1>0 DEF TaskTypes, Interrupted, RowType
<1>4. CASE StopAll \/ \E t \in Transfers : Cancel(t)
  BY <1>0, <1>3, <1>4, AskedShape DEF AskedOnly, TaskTypes
<1>5. CASE Restart
  <2>1. Idle("done") \in TaskType
    BY DEF Idle, TaskType, Places
  <2> QED
    BY <1>0, <1>3, <1>5, <2>1 DEF Restart, TaskTypes
<1>6. CASE UNCHANGED taskVars
  BY <1>0, <1>6 DEF TaskTypes, taskVars
<1> QED
  BY <1>1, <1>2, <1>4, <1>5, <1>6, TaskSteps

\* A running task only addresses a connection there is, and sends it messages.
LEMMA RunTypes ==
  ASSUME TypeOK, SlotsInv, NEW t \in Transfers, Run(t)
  PROVE  ChannelTypes' /\ SessionTypes' /\ GameTypes'
<1>0. ChannelTypes /\ SessionTypes /\ GameTypes /\ TaskTypes
  BY TypeParts
<1>1. GameTypes'
  BY <1>0 DEF Run, Insert, Pack, Address, Offer, SendChunk, Complete, Hear, Timeout,
     HearCancel, End, Finish, GameTypes, gameVars, appVars
<1>2. UNCHANGED sessionVars
  BY DEF Run, Insert, Pack, Address, Offer, SendChunk, Complete, Hear, Timeout,
     HearCancel, End, Finish
<1>3. via' \in [Transfers -> Connections \cup {NoConnection}]
  <2>1. CASE Address(t)
    <3>1. task[t].inst \in Instances
      BY <2>1 DEF Address, SlotsInv, Running
    <3> QED
      BY <1>0, <2>1, <3>1 DEF Address, SessionOf, SessionTypes
  <2>2. CASE ~Address(t)
    BY <1>0, <2>2 DEF Run, Insert, Pack, Offer, SendChunk, Complete, Hear, Timeout,
       HearCancel, End, Finish, SessionTypes
  <2> QED
    BY <2>1, <2>2
<1>4. SessionTypes'
  BY <1>0, <1>2, <1>3 DEF SessionTypes, sessionVars
<1>5. \A k \in {"offer", "chunk", "complete", "cancel"}, n \in Nat :
        Message(k, t, n) \in MessageType
  BY DEF Message, MessageType
<1>6. wire' \in [Connections -> Seq(MessageType)]
  <2>1. CASE Offer(t)
    BY <1>5, <2>1, SendType DEF Offer
  <2>2. CASE SendChunk(t)
    <3>1. task[t].sent \in Nat
      BY <1>0 DEF TaskTypes, TaskType
    <3> QED
      BY <1>0, <1>5, <2>2, <3>1, SendType DEF SendChunk, ChannelTypes
  <2>3. CASE Complete(t)
    BY <1>0, <1>5, <2>3, SendType DEF Complete, ChannelTypes
  <2>4. CASE End(t)
    BY <1>0, <1>5, <2>4, SendType DEF End, Withdraw, ChannelTypes
  <2>5. CASE wire' = wire
    BY <1>0, <2>5 DEF ChannelTypes
  <2> QED
    BY <2>1, <2>2, <2>3, <2>4, <2>5 DEF Run, Insert, Pack, Address, Hear, Timeout,
       HearCancel, Finish
<1>7. events' \in [Transfers -> Seq(EventType)] /\ pending' \subseteq Transfers
  <2>1. CASE Hear(t)
    <3>1. Tail(events[t]) \in Seq(EventType)
      BY <2>1, Heads DEF Hear
    <3> QED
      BY <1>0, <2>1, <3>1 DEF Hear, ChannelTypes
  <2>2. CASE Finish(t)
    BY <1>0, <2>2 DEF Finish, ChannelTypes
  <2>3. CASE Offer(t)
    BY <1>0, <2>3 DEF Offer, ChannelTypes
  <2>4. CASE UNCHANGED channelVars
    BY <1>0, <2>4 DEF channelVars, ChannelTypes
  <2> QED
    BY <2>1, <2>2, <2>3, <2>4 DEF Run, Insert, Pack, Address, SendChunk, Complete, Timeout,
       HearCancel, End
<1> QED
  BY <1>1, <1>4, <1>6, <1>7 DEF ChannelTypes

\* What users, games and connections do keeps the types.
LEMMA OtherTypes ==
  ASSUME TypeOK, Next, ~\E t \in Transfers : Run(t)
  PROVE  ChannelTypes' /\ SessionTypes' /\ GameTypes'
<1>0. ChannelTypes /\ SessionTypes /\ GameTypes /\ TaskTypes
  BY TypeParts
<1> DEFINE G == ChannelTypes' /\ SessionTypes' /\ GameTypes'
<1>1. CASE \/ StopAll \/ \E t \in Transfers : Cancel(t)
           \/ \E t \in Transfers, i \in Instances : Reserve(t, i)
  BY <1>0, <1>1 DEF StopAll, Cancel, Reserve, ChannelTypes, SessionTypes, GameTypes,
     channelVars, sessionVars, gameVars, appVars
<1>2. ASSUME NEW c \in Connections, NEW i \in Instances, Connect(c, i) PROVE G
  BY <1>0, <1>2 DEF Connect, ChannelTypes, SessionTypes, GameTypes, channelVars, gameVars, appVars
<1>3. ASSUME NEW c \in Connections, Leave(c) PROVE G
  <2>1. GameTypes'
    BY <1>0, <1>3, ForgetType DEF Leave, GameTypes, appVars
  <2>2. SessionTypes'
    BY <1>0, <1>3 DEF Leave, SessionTypes
  <2>3. ChannelTypes'
    BY <1>0, <1>3 DEF Leave, ChannelTypes, channelVars
  <2> QED
    BY <2>1, <2>2, <2>3
<1>4. ASSUME NEW c \in Connections, FailTransfers(c) PROVE G
  <2>1. {t \in pending : task[t].inst = owner[c]} \in SUBSET Transfers
    BY <1>0 DEF ChannelTypes
  <2>2. events' \in [Transfers -> Seq(EventType)] /\ pending' \subseteq Transfers
    BY <1>4, <2>1, DisconnectType DEF FailTransfers
  <2> QED
    BY <1>0, <1>4, <2>2 DEF FailTransfers, ChannelTypes, SessionTypes, GameTypes, gameVars, appVars
<1>5. CASE TakeSessions
  BY <1>0, <1>5 DEF TakeSessions, ChannelTypes, SessionTypes, GameTypes, channelVars,
     gameVars, appVars
<1>6. CASE TakeTransfers
  <2>1. events' \in [Transfers -> Seq(EventType)] /\ pending' \subseteq Transfers
    BY <1>0, <1>6, DisconnectType DEF TakeTransfers, ChannelTypes
  <2> QED
    BY <1>0, <1>6, <2>1 DEF TakeTransfers, ChannelTypes, SessionTypes, GameTypes, gameVars, appVars
<1>7. CASE Restart
  <2>1. game' \in [Transfers -> GameStates]
    BY <1>7, ForgetType DEF Restart
  <2>4. GameTypes'
    <3>1. exiting' \in BOOLEAN
      BY <1>7 DEF Restart
    <3>2. lives' \in Nat
      BY <1>0, <1>7 DEF Restart, GameTypes
    <3>3. UNCHANGED <<got, agreed, strays>>
      BY <1>7 DEF Restart
    <3> QED
      BY <1>0, <2>1, <3>1, <3>2, <3>3 DEF GameTypes
  <2>2. SessionTypes'
    BY <1>0, <1>7 DEF Restart, SessionTypes
  <2>3. ChannelTypes'
    BY <1>0, <1>7 DEF Restart, ChannelTypes
  <2> QED
    BY <2>2, <2>3, <2>4
<1>8. ASSUME NEW c \in Connections, Receive(c) PROVE G
  <2>1. wire[c] \in Seq(MessageType) /\ wire[c] # <<>>
    BY <1>0, <1>8 DEF Receive, ChannelTypes
  <2>2. Head(wire[c]) \in MessageType /\ Tail(wire[c]) \in Seq(MessageType)
    BY <2>1
  <2> DEFINE m == Head(wire[c])
             t == m.transfer
             next == m.kind = "chunk" /\ game[t] = "receiving" /\ m.offset = got[t] /\ got[t] < Size
  <2>3. t \in Transfers
    BY <2>2 DEF MessageType
  <2>4. wire' \in [Connections -> Seq(MessageType)]
    BY <1>0, <1>8, <2>2 DEF Receive, ChannelTypes
  <2>5. game' \in [Transfers -> GameStates]
    BY <1>0, <1>8, <2>3 DEF Receive, GameTypes, GameStates
  <2>6. got' \in [Transfers -> Nat]
    BY <1>0, <1>8, <2>3, ChunkEnds DEF Receive, GameTypes
  <2>7. events' \in [Transfers -> Seq(EventType)]
    <3>1. CASE events' = events
      BY <1>0, <3>1 DEF ChannelTypes
    <3>2. CASE Tell(t, Event("ack", ChunkEnd(got[t])))
      <4>1. Event("ack", ChunkEnd(got[t])) \in EventType
        BY <1>0, <2>3, ChunkEnds DEF GameTypes, Event, EventType, EventKinds
      <4> QED
        BY <2>3, <3>2, <4>1, TellType
    <3> QED
      BY <1>8, <3>1, <3>2 DEF Receive
  <2> QED
    BY <1>0, <1>8, <2>4, <2>5, <2>6, <2>7 DEF Receive, ChannelTypes, SessionTypes, GameTypes,
       sessionVars, appVars
<1>9. ASSUME NEW t \in Transfers, NEW accepted \in BOOLEAN, Decide(t, accepted) PROVE G
  <2>1. Event(IF accepted THEN "accepted" ELSE "refused", 0) \in EventType
    BY DEF Event, EventType, EventKinds
  <2>2. events' \in [Transfers -> Seq(EventType)]
    BY <1>9, <2>1, TellType DEF Decide
  <2> QED
    BY <1>0, <1>9, <2>2 DEF Decide, ChannelTypes, SessionTypes, GameTypes, GameStates,
       sessionVars, appVars
<1>10. ASSUME NEW t \in Transfers, Install(t) \/ Break(t) PROVE G
  <2>1. Event("installed", 0) \in EventType /\ Event("broken", 0) \in EventType
    BY DEF Event, EventType, EventKinds
  <2>2. events' \in [Transfers -> Seq(EventType)]
    BY <1>10, <2>1, TellType DEF Install, Break
  <2> QED
    BY <1>0, <1>10, <2>2 DEF Install, Break, ChannelTypes, SessionTypes, GameTypes, GameStates,
       sessionVars, appVars
<1>11. ASSUME NEW t \in Transfers, NEW e \in Strays, Stray(t, e) PROVE G
  <2>1. e \in EventType
    BY ConstantsAssumption DEF Strays, Event, EventType, EventKinds
  <2>2. events' \in [Transfers -> Seq(EventType)]
    BY <1>11, <2>1, TellType DEF Stray
  <2> QED
    BY <1>0, <1>11, <2>2 DEF Stray, ChannelTypes, SessionTypes, GameTypes, sessionVars,
       gameVars, appVars
<1> QED
  BY <1>1, <1>2, <1>3, <1>4, <1>5, <1>6, <1>7, <1>8, <1>9, <1>10, <1>11 DEF Next

LEMMA TypeStep ==
  ASSUME TypeOK, SlotsInv, Next
  PROVE  TypeOK'
<1>1. TaskTypes'
  BY TaskTypesStep
<1>2. ChannelTypes' /\ SessionTypes' /\ GameTypes'
  BY RunTypes, OtherTypes
<1>3. TypeOK' <=> TaskTypes' /\ ChannelTypes' /\ SessionTypes' /\ GameTypes'
  BY DEF TypeOK, TaskTypes, ChannelTypes, SessionTypes, GameTypes, TaskType, RowType, Terminal,
     EventType, MessageType, GameStates
<1> QED
  BY <1>1, <1>2, <1>3

-----------------------------------------------------------------------------
(* What games say, and what their users agreed to.                           *)

\* An event of the kind waits to be heard.
Says(t, kind) == \E n \in 1..Len(events[t]) : events[t][n].kind = kind

\* A game that says its user refused, or that it installed the archive, says the
\* truth; and so does a task that ends because of it.
StoryInv ==
  \A t \in Transfers :
    /\ game[t] # "none" => via[t] # NoConnection
    /\ via[t] # NoConnection => row[t] # "none"
    /\ t \in agreed => game[t] \notin {"none", "prompted"}
    /\ game[t] \in {"receiving", "verifying", "installed"} => t \in agreed
    /\ Says(t, "installed") => game[t] = "installed"
    /\ Says(t, "refused") \/ task[t].end = "rejected"
         => t \notin agreed /\ game[t] \notin {"none", "prompted"}

\* The channel of a transfer grows at its end and is read from its start.
LEMMA SaysTail ==
  ASSUME NEW q \in Seq(EventType), q # <<>>, NEW n \in 1..Len(Tail(q))
  PROVE  n + 1 \in 1..Len(q) /\ Tail(q)[n] = q[n + 1]
OBVIOUS

LEMMA SaysAppend ==
  ASSUME NEW q \in Seq(EventType), NEW e \in EventType, NEW n \in 1..Len(Append(q, e))
  PROVE  \/ n \in 1..Len(q) /\ Append(q, e)[n] = q[n]
         \/ Append(q, e)[n] = e
OBVIOUS

\* Telling a transfer adds what was told, at most.
LEMMA TellSays ==
  ASSUME TypeOK, NEW t \in Transfers, NEW e \in EventType, Tell(t, e),
         NEW u \in Transfers, NEW kind, Says(u, kind)'
  PROVE  Says(u, kind) \/ (u = t /\ kind = e.kind)
<1>1. events \in [Transfers -> Seq(EventType)]
  BY DEF TypeOK, EventType
<1>2. CASE events'[u] = events[u]
  BY <1>2 DEF Says
<1>3. CASE u = t /\ events'[u] = Append(events[u], e)
  <2>1. PICK n \in 1..Len(events'[u]) : events'[u][n].kind = kind
    BY DEF Says
  <2> QED
    BY <1>1, <1>3, <2>1, SaysAppend DEF Says
<1> QED
  BY <1>1, <1>2, <1>3 DEF Tell

\* The end of a connection adds only that.
LEMMA DisconnectSays ==
  ASSUME TypeOK, NEW S \in SUBSET Transfers, Disconnect(S),
         NEW u \in Transfers, NEW kind, Says(u, kind)'
  PROVE  Says(u, kind) \/ kind = "disconnected"
<1>1. events \in [Transfers -> Seq(EventType)]
  BY DEF TypeOK, EventType
<1>2. Event("disconnected", 0) \in EventType /\ Event("disconnected", 0).kind = "disconnected"
  BY DEF Event, EventType, EventKinds
<1>3. CASE events'[u] = events[u]
  BY <1>3 DEF Says
<1>4. CASE events'[u] = Append(events[u], Event("disconnected", 0))
  <2>1. PICK n \in 1..Len(events'[u]) : events'[u][n].kind = kind
    BY DEF Says
  <2> QED
    BY <1>1, <1>2, <1>4, <2>1, SaysAppend DEF Says
<1> QED
  BY <1>1, <1>3, <1>4 DEF Disconnect

\* The life of a transfer in its game.
GameFlow(t) ==
  /\ \/ game'[t] = game[t]
     \/ game[t] = "none" /\ game'[t] \in {"prompted", "dropped"} /\ via[t] # NoConnection
     \/ game[t] = "prompted" /\ game'[t] = "receiving" /\ t \in agreed'
     \/ game[t] \in {"prompted", "receiving", "verifying"} /\ game'[t] = "dropped"
     \/ game[t] = "receiving" /\ game'[t] = "verifying"
     \/ game[t] = "verifying" /\ game'[t] = "installed" /\ Install(t)
  /\ t \in agreed => t \in agreed'
  /\ t \in agreed' => t \in agreed \/ (game[t] = "prompted" /\ game'[t] = "receiving")
  /\ Says(t, "installed")' => Says(t, "installed") \/ game'[t] = "installed"
  /\ Says(t, "refused")' =>
       Says(t, "refused") \/ (game[t] = "prompted" /\ game'[t] = "dropped")

\* A transfer that its own task moves finds its game as it was.
LEMMA RunFlow ==
  ASSUME TypeOK, NEW u \in Transfers, Run(u)
  PROVE  /\ UNCHANGED gameVars
         /\ \A t \in Transfers, kind \in EventKinds : Says(t, kind)' => Says(t, kind)
         /\ \A t \in Transfers : via'[t] = via[t] \/ (t = u /\ task[t].at = "packed")
<1>0. events \in [Transfers -> Seq(EventType)] /\ via \in [Transfers -> Connections \cup {NoConnection}]
  BY DEF TypeOK, EventType
<1>1. UNCHANGED gameVars
  BY DEF Run, Insert, Pack, Address, Offer, SendChunk, Complete, Hear, Timeout,
     HearCancel, End, Finish
<1>2. \A t \in Transfers : via'[t] = via[t] \/ (t = u /\ task[t].at = "packed")
  <2>1. CASE Address(u)
    BY <1>0, <2>1 DEF Address
  <2>2. CASE UNCHANGED via
    BY <2>2
  <2> QED
    BY <2>1, <2>2 DEF Run, Insert, Pack, Offer, SendChunk, Complete, Hear, Timeout,
       HearCancel, End, Finish
<1>3. ASSUME NEW t \in Transfers, NEW kind \in EventKinds, Says(t, kind)' PROVE Says(t, kind)
  <2>1. PICK n \in 1..Len(events'[t]) : events'[t][n].kind = kind
    BY <1>3 DEF Says
  <2>2. CASE Hear(u)
    <3>1. events[u] # <<>> /\ events' = [events EXCEPT ![u] = Tail(events[u])]
      BY <2>2 DEF Hear
    <3>2. CASE t = u
      BY <1>0, <2>1, <3>1, <3>2, SaysTail DEF Says
    <3> QED
      BY <1>0, <2>1, <3>1, <3>2 DEF Says
  <2>3. CASE Finish(u)
    BY <1>0, <2>1, <2>3 DEF Finish, Says
  <2>4. CASE events' = events
    BY <2>1, <2>4 DEF Says
  <2> QED
    BY <2>2, <2>3, <2>4 DEF Run, Insert, Pack, Address, Offer, SendChunk, Complete, Timeout,
       HearCancel, End, channelVars
<1> QED
  BY <1>1, <1>2, <1>3

\* Only its own task gives a transfer a connection.
LEMMA ViaSteps ==
  ASSUME Next, ~\E t \in Transfers : Run(t)
  PROVE  via' = via
BY DEF Next, Install, Break, Decide, Stray, Connect, Leave, FailTransfers, Receive,
   TakeSessions, TakeTransfers, Cancel, Reserve, StopAll, Restart

\* Every step leaves a transfer where it is in its game or moves it on.
LEMMA GameSteps ==
  ASSUME TypeOK, Next
  PROVE  \A t \in Transfers : GameFlow(t)
<1>0. GameTypes /\ ChannelTypes /\ SessionTypes
  BY TypeParts
<1>1. ASSUME NEW u \in Transfers, Run(u) PROVE \A t \in Transfers : GameFlow(t)
  BY <1>1, RunFlow DEF GameFlow, gameVars, EventKinds
<1>2. CASE /\ UNCHANGED gameVars
           /\ \A t \in Transfers, kind \in {"installed", "refused"} :
                Says(t, kind)' => Says(t, kind)
  BY <1>2 DEF GameFlow, gameVars
<1>3. CASE UNCHANGED gameVars /\ events' = events
  BY <1>2, <1>3 DEF Says
<1>4. ASSUME NEW C, Forget(C), UNCHANGED agreed, NoConnection \notin C,
             events' = events \/ events' = [t \in Transfers |-> <<>>]
      PROVE  \A t \in Transfers : GameFlow(t)
  <2>1. \A t \in Transfers, kind \in {"installed", "refused"} : Says(t, kind)' => Says(t, kind)
    BY <1>4 DEF Says
  <2> QED
    BY <1>0, <1>4, <2>1 DEF GameFlow, Forget
<1>5. ASSUME NEW c \in Connections, Leave(c) PROVE \A t \in Transfers : GameFlow(t)
  BY <1>4, <1>5, ConstantsAssumption DEF Leave, channelVars
<1>6. CASE Restart
  BY <1>4, <1>6, ConstantsAssumption DEF Restart
<1>7. ASSUME NEW c \in Connections, FailTransfers(c) PROVE \A t \in Transfers : GameFlow(t)
  <2>1. {t \in pending : task[t].inst = owner[c]} \in SUBSET Transfers
    BY <1>0 DEF ChannelTypes
  <2> QED
    BY <1>2, <1>7, <2>1, DisconnectSays DEF FailTransfers
<1>8. CASE TakeTransfers
  BY <1>0, <1>2, <1>8, DisconnectSays DEF TakeTransfers, ChannelTypes
<1>9. ASSUME NEW u \in Transfers, NEW e \in Strays, Stray(u, e)
      PROVE  \A t \in Transfers : GameFlow(t)
  <2>1. e \in EventType /\ e.kind \in {"progress", "ack"}
    BY ConstantsAssumption DEF Strays, Event, EventType, EventKinds
  <2> QED
    BY <1>2, <1>9, <2>1, TellSays DEF Stray
<1>10. ASSUME NEW c \in Connections, Receive(c) PROVE \A t \in Transfers : GameFlow(t)
  <2>1. wire[c] \in Seq(MessageType) /\ wire[c] # <<>>
    BY <1>0, <1>10 DEF Receive, ChannelTypes
  <2>2. Head(wire[c]) \in MessageType
    BY <2>1
  <2> DEFINE m == Head(wire[c])
             u == m.transfer
  <2>3. u \in Transfers
    BY <2>2 DEF MessageType
  <2>4. CASE via[u] # c
    BY <1>2, <1>10, <2>4 DEF Receive, Says, gameVars
  <2>5. CASE via[u] = c
    <3>1. /\ agreed' = agreed /\ via[u] # NoConnection
          /\ game' = [game EXCEPT ![u] =
                  CASE m.kind = "offer" /\ @ = "none" -> "prompted"
                    [] m.kind = "cancel" /\ @ # "installed" -> "dropped"
                    [] m.kind = "complete" /\ @ = "receiving" /\ got[u] = Size -> "verifying"
                    [] OTHER -> @]
      BY <1>10, <2>5, ConstantsAssumption DEF Receive
    <3>2. \A t \in Transfers : t # u => game'[t] = game[t]
      BY <1>0, <3>1 DEF GameTypes
    <3>3. \/ game'[u] = game[u]
          \/ game[u] = "none" /\ game'[u] \in {"prompted", "dropped"}
          \/ game[u] # "installed" /\ game'[u] = "dropped"
          \/ game[u] = "receiving" /\ game'[u] = "verifying"
      BY <1>0, <2>3, <3>1 DEF GameTypes
    <3>4. game[u] \in GameStates
      BY <1>0, <2>3 DEF GameTypes
    <3>5. events' = events \/ Tell(u, Event("ack", ChunkEnd(got[u])))
      BY <1>10, <2>5 DEF Receive
    <3>6. Event("ack", ChunkEnd(got[u])) \in EventType /\ Event("ack", ChunkEnd(got[u])).kind = "ack"
      BY <1>0, <2>3, ChunkEnds DEF GameTypes, Event, EventType, EventKinds
    <3>7. \A t \in Transfers, kind \in {"installed", "refused"} : Says(t, kind)' => Says(t, kind)
      <4>1. CASE events' = events
        BY <4>1 DEF Says
      <4>2. CASE Tell(u, Event("ack", ChunkEnd(got[u])))
        BY <2>3, <3>6, <4>2, TellSays
      <4> QED
        BY <3>5, <4>1, <4>2
    <3> QED
      BY <3>1, <3>2, <3>3, <3>4, <3>7 DEF GameFlow, GameStates
  <2> QED
    BY <2>4, <2>5
<1>11. ASSUME NEW u \in Transfers, NEW accepted \in BOOLEAN, Decide(u, accepted)
       PROVE  \A t \in Transfers : GameFlow(t)
  <2> DEFINE e == Event(IF accepted THEN "accepted" ELSE "refused", 0)
  <2>1. e \in EventType /\ e.kind = IF accepted THEN "accepted" ELSE "refused"
    BY DEF Event, EventType, EventKinds
  <2>2. \A t \in Transfers, kind \in EventKinds :
          Says(t, kind)' => Says(t, kind) \/ (t = u /\ kind = e.kind)
    BY <1>11, <2>1, TellSays DEF Decide
  <2>3. CASE accepted
    BY <1>0, <1>11, <2>1, <2>2, <2>3 DEF Decide, GameFlow, GameTypes, EventKinds
  <2>4. CASE ~accepted
    <3>1. game[u] = "prompted" /\ game' = [game EXCEPT ![u] = "dropped"] /\ agreed' = agreed
      BY <1>11, <2>4 DEF Decide
    <3>2. e.kind = "refused"
      BY <2>1, <2>4
    <3> QED
      BY <1>0, <2>2, <3>1, <3>2 DEF GameFlow, GameTypes, EventKinds
  <2> QED
    BY <2>3, <2>4
<1>12. ASSUME NEW u \in Transfers, Install(u) PROVE \A t \in Transfers : GameFlow(t)
  <2>1. Event("installed", 0) \in EventType /\ Event("installed", 0).kind = "installed"
    BY DEF Event, EventType, EventKinds
  <2>2. \A t \in Transfers, kind \in EventKinds :
          Says(t, kind)' => Says(t, kind) \/ (t = u /\ kind = "installed")
    BY <1>12, <2>1, TellSays DEF Install
  <2> QED
    BY <1>0, <1>12, <2>2 DEF Install, GameFlow, GameTypes, EventKinds
<1>13. ASSUME NEW u \in Transfers, Break(u) PROVE \A t \in Transfers : GameFlow(t)
  <2>1. Event("broken", 0) \in EventType /\ Event("broken", 0).kind = "broken"
    BY DEF Event, EventType, EventKinds
  <2>2. \A t \in Transfers, kind \in {"installed", "refused"} : Says(t, kind)' => Says(t, kind)
    BY <1>13, <2>1, TellSays DEF Break
  <2> QED
    BY <1>0, <1>13, <2>2 DEF Break, GameFlow, GameTypes
<1>14. CASE \/ StopAll \/ TakeSessions \/ \E t \in Transfers : Cancel(t)
            \/ \E t \in Transfers, i \in Instances : Reserve(t, i)
            \/ \E c \in Connections, i \in Instances : Connect(c, i)
  BY <1>3, <1>14 DEF StopAll, TakeSessions, Cancel, Reserve, Connect, channelVars
<1> QED
  BY <1>1, <1>5, <1>6, <1>7, <1>8, <1>9, <1>10, <1>11, <1>12, <1>13, <1>14 DEF Next

\* A row is never taken away, and only a refusal is recorded as one.
LEMMA RowFlow ==
  ASSUME TypeOK, RowInv, Next, NEW t \in Transfers
  PROVE  /\ row[t] # "none" => row'[t] # "none"
         /\ task'[t].end = "rejected" => task[t].end = "rejected" \/ Says(t, "refused")
         /\ row'[t] = "cancelled" =>
              \/ row[t] = "cancelled" 
              \/ End(t) /\ task[t].end = "cancelled"
<1>0. task \in [Transfers -> TaskType] /\ row \in [Transfers -> RowType]
      /\ events \in [Transfers -> Seq(EventType)]
  BY DEF TypeOK, TaskType, RowType, Terminal, EventType
<1>1. ASSUME NEW u \in Transfers, Run(u)
      PROVE  /\ row[t] # "none" => row'[t] # "none"
             /\ task'[t].end = "rejected" => task[t].end = "rejected" \/ Says(t, "refused")
             /\ row'[t] = "cancelled" => row[t] = "cancelled" \/ task[t].at = "ending"
             /\ row'[t] # row[t] => t = u
  <2>1. Alone(u) /\ RunsOn(u)
    BY <1>1, RunShape
  <2>2. CASE t # u
    BY <2>1, <2>2 DEF Alone
  <2>3. CASE t = u
    <3>1. events[t] # <<>> /\ Head(events[t]).kind = "refused" => Says(t, "refused")
      BY <1>0 DEF Says
    <3>2. task[t] \in TaskType
      BY <1>0
    <3> QED
      BY <2>1, <2>3, <3>1, <3>2 DEF RunsOn, RowInv, Idle, Busy, ActiveStatuses, TaskType
  <2> QED
    BY <2>2, <2>3
<1>2. ASSUME NEW u \in Transfers, Run(u), row'[t] = "cancelled", row[t] # "cancelled"
      PROVE  End(t) /\ task[t].end = "cancelled"
  <2>1. t = u /\ task[t].at = "ending"
    BY <1>1, <1>2
  <2>2. End(t)
    BY <1>2, <2>1 DEF Run, Insert, Pack, Address, Offer, SendChunk, Complete, Hear, Timeout,
       HearCancel, Finish, Impatient, Listening
  <2> QED
    BY <1>0, <1>2, <2>2 DEF End
<1>3. ASSUME NEW u \in Transfers, NEW i \in Instances, Reserve(u, i)
      PROVE  row' = row /\ task'[t].end = task[t].end
  BY <1>0, <1>3 DEF Reserve, TaskType
<1>4. CASE StopAll \/ \E u \in Transfers : Cancel(u)
  BY <1>0, <1>4, AskedShape DEF AskedOnly, Interrupted, ActiveStatuses
<1>5. CASE Restart
  BY <1>0, <1>5 DEF Restart, Interrupted, Idle, ActiveStatuses
<1>6. CASE UNCHANGED taskVars
  BY <1>6 DEF taskVars
<1> QED
  BY <1>1, <1>2, <1>3, <1>4, <1>5, <1>6, TaskSteps

LEMMA StoryInit == Init => StoryInv
BY DEF Init, Idle, StoryInv, Says

LEMMA StoryStep ==
  ASSUME TypeOK, RowInv, StoryInv, Next
  PROVE  StoryInv'
<1> SUFFICES ASSUME NEW t \in Transfers
             PROVE  /\ game'[t] # "none" => via'[t] # NoConnection
                    /\ via'[t] # NoConnection => row'[t] # "none"
                    /\ t \in agreed' => game'[t] \notin {"none", "prompted"}
                    /\ game'[t] \in {"receiving", "verifying", "installed"} => t \in agreed'
                    /\ Says(t, "installed")' => game'[t] = "installed"
                    /\ Says(t, "refused")' \/ task'[t].end = "rejected"
                         => t \notin agreed' /\ game'[t] \notin {"none", "prompted"}
  BY DEF StoryInv
<1>1. GameFlow(t) /\ game[t] \in GameStates
  BY GameSteps, TypeParts DEF GameTypes
<1>2. /\ row[t] # "none" => row'[t] # "none"
      /\ task'[t].end = "rejected" => task[t].end = "rejected" \/ Says(t, "refused")
  BY RowFlow
<1>3. via'[t] = via[t] \/ (task[t].at = "packed" /\ via[t] # via'[t] /\ row[t] # "none")
  <2>1. CASE \E u \in Transfers : Run(u)
    BY <2>1, RunFlow DEF RowInv, Busy, ActiveStatuses
  <2> QED
    BY <2>1, ViaSteps
<1>4. via[t] # NoConnection => via'[t] # NoConnection
  <2>1. CASE Address(t)
    BY <2>1 DEF Address, TypeOK
  <2>2. CASE ~Address(t)
    <3>1. CASE \E u \in Transfers : Run(u)
      BY <2>2, <3>1 DEF Run, Insert, Pack, Address, Offer, SendChunk, Complete, Hear, Timeout,
         HearCancel, End, Finish, TypeOK
    <3> QED
      BY <3>1, ViaSteps
  <2> QED
    BY <2>1, <2>2
<1> QED
  BY <1>1, <1>2, <1>3, <1>4 DEF StoryInv, GameFlow

-----------------------------------------------------------------------------
(* Connections and the withdrawal of a cancelled transfer.                   *)

\* A transfer is offered over a connection of its instance, once packed; the
\* session of an instance is one of its open connections.
LinkInv ==
  /\ \A t \in Transfers :
       /\ task[t].at \in {"new", "starting", "packing", "packed"} => via[t] = NoConnection
       /\ via[t] # NoConnection => link[via[t]] # "new"
       /\ Running(t) /\ via[t] # NoConnection => owner[via[t]] = task[t].inst
  /\ \A i \in Instances : session[i] # NoConnection =>
       owner[session[i]] = i /\ link[session[i]] = "open"
  /\ \A c \in Connections : link[c] # "new" => owner[c] \in Instances

LEMMA LinkInit == Init => LinkInv
BY DEF Init, Idle, LinkInv

LEMMA LinkStep ==
  ASSUME TypeOK, SlotsInv, LinkInv, Next
  PROVE  LinkInv'
<1>0. TaskTypes /\ SessionTypes
  BY TypeParts
<1>1. ASSUME NEW u \in Transfers, Run(u) PROVE LinkInv'
  <2>1. Alone(u) /\ RunsOn(u)
    BY <1>1, RunShape
  <2>2. UNCHANGED sessionVars
    BY <1>1 DEF Run, Insert, Pack, Address, Offer, SendChunk, Complete, Hear, Timeout,
       HearCancel, End, Finish
  <2>3. ASSUME NEW t \in Transfers, t # u
        PROVE  task'[t] = task[t] /\ via'[t] = via[t]
    BY <1>1, <2>1, <2>3, RunFlow DEF Alone
  <2>4. CASE Address(u)
    <3>1. /\ task[u].at = "packed" /\ via[u] = NoConnection /\ task[u].inst \in Instances
          /\ task'[u].inst = task[u].inst
      BY <2>1, <2>4 DEF Address, LinkInv, RunsOn, Idle, SlotsInv, Running
    <3>2. CASE SessionOf(u) = NoConnection
      <4>1. via' = via /\ task'[u].at = "ending"
        BY <2>4, <3>2, AbortShape DEF Address
      <4> QED
        BY <2>2, <2>3, <3>1, <4>1 DEF LinkInv, sessionVars, Running
    <3>3. CASE SessionOf(u) # NoConnection
      <4>1. via'[u] = SessionOf(u) /\ task'[u].at = "offering"
        BY <1>0, <2>4, <3>3 DEF Address, SessionTypes, TaskTypes, TaskType
      <4>2. owner[SessionOf(u)] = task[u].inst /\ link[SessionOf(u)] = "open"
        BY <3>1, <3>3 DEF SessionOf, LinkInv
      <4> QED
        BY <2>2, <2>3, <3>1, <4>1, <4>2 DEF LinkInv, sessionVars, Running
    <3> QED
      BY <3>2, <3>3
  <2>5. CASE ~Address(u)
    <3>1. via' = via
      BY <1>1, <2>5 DEF Run, Insert, Pack, Address, Offer, SendChunk, Complete, Hear, Timeout,
         HearCancel, End, Finish
    <3>2. task'[u].at \in {"new", "starting", "packing", "packed"} =>
            task[u].at \in {"new", "starting", "packing", "packed"}
      <4>1. CASE Insert(u) \/ Pack(u)
        BY <4>1 DEF Insert, Pack
      <4>2. CASE Offer(u) \/ End(u)
        BY <1>0, <4>2 DEF Offer, End, TaskTypes, TaskType
      <4>3. CASE SendChunk(u)
        BY <1>0, <4>3, AbortShape DEF SendChunk, TaskTypes, TaskType
      <4>4. CASE Complete(u)
        <5>1. CASE Reachable(u)
          BY <1>0, <4>4, <5>1 DEF Complete, TaskTypes, TaskType
        <5>2. CASE ~Reachable(u)
          BY <4>4, <5>2, AbortShape DEF Complete
        <5> QED
          BY <5>1, <5>2
      <4>5. CASE Hear(u)
        BY <4>5, HearShape
      <4>6. CASE Timeout(u) \/ HearCancel(u)
        BY <4>6, AbortShape DEF Timeout, HearCancel
      <4>7. CASE Finish(u)
        BY <1>0, <4>7 DEF Finish, Idle, TaskTypes
      <4> QED
        BY <1>1, <2>5, <4>1, <4>2, <4>3, <4>4, <4>5, <4>6, <4>7 DEF Run
    <3>3. task'[u].at = "done" \/ (Running(u) /\ task'[u].inst = task[u].inst)
      BY <2>1 DEF RunsOn, Idle
    <3> QED
      BY <2>2, <2>3, <3>1, <3>2, <3>3 DEF LinkInv, sessionVars, Running
  <2> QED
    BY <2>4, <2>5
<1>2. ASSUME NEW u \in Transfers, NEW i \in Instances, Reserve(u, i) PROVE LinkInv'
  <2>1. /\ task[u].at = "new" /\ task'[u].at = "starting"
        /\ \A t \in Transfers : t # u => task'[t] = task[t]
    BY <1>0, <1>2 DEF Reserve, TaskTypes, TaskType
  <2>2. UNCHANGED <<via, sessionVars>>
    BY <1>2 DEF Reserve
  <2> QED
    BY <2>1, <2>2 DEF LinkInv, sessionVars, Running
<1>3. CASE StopAll \/ \E t \in Transfers : Cancel(t)
  <2>1. AskedOnly
    BY <1>3, AskedShape
  <2>2. UNCHANGED <<via, sessionVars>>
    BY <1>3 DEF StopAll, Cancel
  <2> QED
    BY <2>1, <2>2 DEF LinkInv, sessionVars, AskedOnly, Running
<1>4. ASSUME NEW c \in Connections, NEW i \in Instances, Connect(c, i) PROVE LinkInv'
  <2>1. \A t \in Transfers : via[t] # c \/ via[t] = NoConnection
    BY <1>4 DEF Connect, LinkInv
  <2>2. \A j \in Instances : session[j] # c
    BY <1>4, ConstantsAssumption DEF Connect, LinkInv
  <2> QED
    BY <1>0, <1>4, <2>1, <2>2, ConstantsAssumption DEF Connect, LinkInv, SessionTypes, taskVars, Running
<1>5. ASSUME NEW c \in Connections, Leave(c) PROVE LinkInv'
  BY <1>0, <1>5, ConstantsAssumption DEF Leave, LinkInv, SessionTypes, taskVars, Running
<1>6. ASSUME NEW c \in Connections, FailTransfers(c) PROVE LinkInv'
  BY <1>0, <1>6, ConstantsAssumption DEF FailTransfers, LinkInv, SessionTypes, taskVars, Running
<1>7. CASE TakeSessions
  BY <1>0, <1>7 DEF TakeSessions, LinkInv, SessionTypes, taskVars, Running
<1>8. CASE Restart
  BY <1>0, <1>8, ConstantsAssumption DEF Restart, LinkInv, SessionTypes, Running, Idle
<1>9. CASE UNCHANGED <<task, via, session, owner, link>>
  BY <1>9 DEF LinkInv, Running
<1> QED
  BY <1>1, <1>2, <1>3, <1>4, <1>5, <1>6, <1>7, <1>8, <1>9 DEF Next, Install, Break, Decide, Stray,
     Receive, TakeTransfers, taskVars, sessionVars

\* The withdrawal is on its way over the connection of the offer.
Told(t) == \E n \in 1..Len(wire[via[t]]) : wire[via[t]][n] = Message("cancel", t, 0)

\* The connection of the offer is the session of its instance.
Current(t) ==
  /\ via[t] # NoConnection
  /\ link[via[t]] = "open" /\ session[owner[via[t]]] = via[t]

\* A game whose transfer was cancelled has heard of it or will, whether or not it
\* has already read the offer.
CancelInv ==
  \A t \in Transfers :
    row[t] = "cancelled" /\ Current(t) => game[t] \in {"dropped", "installed"} \/ Told(t)

LEMMA CancelInit == Init => CancelInv
BY DEF Init, CancelInv

\* What is sent is added to what is on the way.
LEMMA SendGrows ==
  ASSUME TypeOK, NEW d, NEW m \in MessageType, Send(d, m),
         NEW c \in Connections, NEW n \in 1..Len(wire[c])
  PROVE  n \in 1..Len(wire'[c]) /\ wire'[c][n] = wire[c][n]
<1>1. wire[c] \in Seq(MessageType) /\ wire \in [Connections -> Seq(MessageType)]
  BY DEF TypeOK, MessageType
<1>2. n \in 1..Len(Append(wire[c], m)) /\ Append(wire[c], m)[n] = wire[c][n]
  BY <1>1
<1>3. wire'[c] = wire[c] \/ wire'[c] = Append(wire[c], m)
  BY <1>1 DEF Send
<1> QED
  BY <1>2, <1>3

LEMMA RunGrows ==
  ASSUME TypeOK, NEW u \in Transfers, Run(u),
         NEW c \in Connections, NEW n \in 1..Len(wire[c])
  PROVE  n \in 1..Len(wire'[c]) /\ wire'[c][n] = wire[c][n]
<1>1. \A k \in {"offer", "chunk", "complete", "cancel"}, i \in Nat :
        Message(k, u, i) \in MessageType
  BY DEF Message, MessageType
<1>2. CASE wire' = wire
  BY <1>2
<1>3. CASE Offer(u)
  BY <1>1, <1>3, SendGrows DEF Offer
<1>4. CASE SendChunk(u)
  <2>1. task[u].sent \in Nat
    BY TypeParts DEF TaskTypes, TaskType
  <2> QED
    BY <1>1, <1>4, <2>1, SendGrows DEF SendChunk
<1>5. CASE Complete(u)
  BY <1>1, <1>5, SendGrows DEF Complete
<1>6. CASE End(u)
  BY <1>1, <1>6, SendGrows DEF End, Withdraw
<1> QED
  BY <1>2, <1>3, <1>4, <1>5, <1>6 DEF Run, Insert, Pack, Address, Hear, Timeout,
     HearCancel, Finish

\* A connection that is not the session of its instance is not made so later.
LEMMA CurrentBefore ==
  ASSUME TypeOK, LinkInv, Next, NEW t \in Transfers, via'[t] = via[t], Current(t)'
  PROVE  Current(t) /\ owner'[via[t]] = owner[via[t]]
<1>0. SessionTypes /\ via[t] \in Connections
  BY TypeParts DEF Current, SessionTypes
<1>a. link[via[t]] # "new" /\ owner[via[t]] \in Instances
  BY <1>0, ConstantsAssumption DEF LinkInv
<1>1. ASSUME NEW c \in Connections, NEW i \in Instances, Connect(c, i)
      PROVE  Current(t) /\ owner'[via[t]] = owner[via[t]]
  <2>1. via[t] # c
    BY <1>1, ConstantsAssumption DEF Connect, LinkInv
  <2>2. owner'[via[t]] = owner[via[t]] /\ link'[via[t]] = link[via[t]]
    BY <1>0, <1>1, <2>1 DEF Connect, SessionTypes
  <2>3. session'[owner[via[t]]] = session[owner[via[t]]]
    BY <1>0, <1>1, <2>1, <2>2 DEF Connect, SessionTypes, Current
  <2> QED
    BY <1>0, <2>2, <2>3, ConstantsAssumption DEF Current
<1>2. CASE UNCHANGED sessionVars
  BY <1>2 DEF Current, sessionVars
<1>3. ASSUME NEW c \in Connections, Leave(c) \/ FailTransfers(c)
      PROVE  Current(t) /\ owner'[via[t]] = owner[via[t]]
  <2>1. owner' = owner /\ (link'[via[t]] = "open" => link[via[t]] = "open")
    BY <1>0, <1>3 DEF Leave, FailTransfers, SessionTypes
  <2>2. session'[owner[via[t]]] \in {session[owner[via[t]]], NoConnection}
    BY <1>0, <1>a, <1>3 DEF Leave, FailTransfers, SessionTypes
  <2> QED
    BY <1>0, <2>1, <2>2, ConstantsAssumption DEF Current
<1>4. CASE TakeSessions \/ Restart
  <2>1. owner' = owner /\ (link'[via[t]] = "open" => link[via[t]] = "open")
    BY <1>0, <1>4 DEF TakeSessions, Restart, SessionTypes
  <2>2. session' = [i \in Instances |-> NoConnection]
    BY <1>4 DEF TakeSessions, Restart
  <2>3. session'[owner[via[t]]] = via[t] /\ via[t] # NoConnection
    BY <2>1 DEF Current
  <2> QED
    BY <1>a, <2>2, <2>3
<1>5. ASSUME NEW u \in Transfers, Run(u) PROVE UNCHANGED sessionVars
  BY <1>5 DEF Run, Insert, Pack, Address, Offer, SendChunk, Complete, Hear, Timeout,
     HearCancel, End, Finish
<1>6. CASE TakeTransfers
  BY <1>6 DEF TakeTransfers, Current
<1> QED
  BY <1>1, <1>2, <1>3, <1>4, <1>5, <1>6 DEF Next, Install, Break, Decide, Stray, Receive,
     Cancel, Reserve, StopAll

\* A message the game does not take next stays on its way.
LEMMA ReceiveKeeps ==
  ASSUME TypeOK, NEW c \in Connections, Receive(c),
         NEW d \in Connections, NEW n \in 1..Len(wire[d])
  PROVE  \/ d = c /\ n = 1 /\ wire[d][n] = Head(wire[c])
         \/ \E k \in 1..Len(wire'[d]) : wire'[d][k] = wire[d][n]
<1>1. wire[c] \in Seq(MessageType) /\ wire[c] # <<>> /\ wire \in [Connections -> Seq(MessageType)]
  BY DEF TypeOK, MessageType, Receive
<1>2. CASE d # c
  BY <1>1, <1>2 DEF Receive
<1>3. CASE d = c
  <2>1. wire'[c] = Tail(wire[c])
    BY <1>1 DEF Receive
  <2>2. CASE n = 1
    BY <1>1, <1>3, <2>2
  <2>3. CASE n # 1
    <3>1. n - 1 \in 1..Len(Tail(wire[c])) /\ Tail(wire[c])[n - 1] = wire[c][n]
      BY <1>1, <1>3, <2>3
    <3> QED
      BY <1>3, <2>1, <3>1
  <2> QED
    BY <2>2, <2>3
<1> QED
  BY <1>2, <1>3

\* A game drops a transfer it reads the withdrawal of.
LEMMA ReceiveDrops ==
  ASSUME TypeOK, NEW t \in Transfers, NEW c \in Connections, via[t] = c, Receive(c),
         Head(wire[c]) = Message("cancel", t, 0)
  PROVE  game'[t] \in {"dropped", "installed"}
<1>1. game \in [Transfers -> GameStates]
  BY TypeParts DEF GameTypes
<1>2. Head(wire[c]).kind = "cancel" /\ Head(wire[c]).transfer = t
  BY DEF Message
<1>3. game' = [game EXCEPT ![t] = IF @ # "installed" THEN "dropped" ELSE @]
  BY <1>1, <1>2 DEF Receive
<1> QED
  BY <1>1, <1>3

\* A withdrawal stays on its way until the game reads it or the connection ends.
LEMMA ToldKept ==
  ASSUME TypeOK, Next, NEW t \in Transfers, via'[t] = via[t], Current(t)', Told(t)
  PROVE  game'[t] \in {"dropped", "installed"} \/ Told(t)'
<1>0. SessionTypes /\ ChannelTypes /\ via[t] \in Connections
  BY TypeParts DEF Current, SessionTypes
<1>1. PICK n \in 1..Len(wire[via[t]]) : wire[via[t]][n] = Message("cancel", t, 0)
  BY DEF Told
<1>2. ASSUME NEW u \in Transfers, Run(u) PROVE Told(t)'
  BY <1>0, <1>1, <1>2, RunGrows DEF Told
<1>3. ASSUME NEW c \in Connections, Receive(c)
      PROVE  game'[t] \in {"dropped", "installed"} \/ Told(t)'
  <2>1. CASE via[t] = c /\ Head(wire[c]) = Message("cancel", t, 0)
    BY <1>3, <2>1, ReceiveDrops
  <2>2. CASE ~(via[t] = c /\ Head(wire[c]) = Message("cancel", t, 0))
    <3>1. \E k \in 1..Len(wire'[via[t]]) : wire'[via[t]][k] = wire[via[t]][n]
      BY <1>0, <1>1, <1>3, <2>2, ReceiveKeeps
    <3> QED
      BY <1>1, <3>1 DEF Told
  <2> QED
    BY <2>1, <2>2
<1>4. ASSUME NEW c \in Connections, Leave(c) PROVE Told(t)'
  <2>1. via[t] # c
    BY <1>0, <1>4 DEF Leave, Current, SessionTypes
  <2> QED
    BY <1>0, <1>1, <1>4, <2>1 DEF Leave, Told, ChannelTypes
<1>5. CASE Restart
  BY <1>0, <1>5 DEF Restart, Current
<1>6. CASE wire' = wire
  BY <1>6 DEF Told
<1> QED
  BY <1>2, <1>3, <1>4, <1>5, <1>6 DEF Next, Install, Break, Decide, Stray, Connect, FailTransfers,
     TakeSessions, TakeTransfers, Cancel, Reserve, StopAll

\* The end of a cancelled transfer sends the withdrawal.
LEMMA EndTells ==
  ASSUME TypeOK, SlotsInv, LinkInv, NEW t \in Transfers, End(t), task[t].end = "cancelled",
         Current(t)
  PROVE  Told(t)'
<1>0. SessionTypes /\ ChannelTypes /\ via[t] \in Connections
  BY TypeParts DEF Current, SessionTypes
<1>1. owner[via[t]] = task[t].inst
  BY DEF End, LinkInv, Running, Current
<1>2. SessionOf(t) = via[t] /\ via[t] # NoConnection /\ link[via[t]] = "open"
  BY <1>1 DEF SessionOf, Current
<1>3. wire' = [wire EXCEPT ![via[t]] = Append(@, Message("cancel", t, 0))]
  BY <1>2 DEF End, Withdraw, Send
<1>4. wire[via[t]] \in Seq(MessageType) /\ Message("cancel", t, 0) \in MessageType
  BY <1>0 DEF ChannelTypes, Message, MessageType
<1>5. wire'[via[t]] = Append(wire[via[t]], Message("cancel", t, 0)) /\ via' = via
  BY <1>0, <1>3 DEF ChannelTypes, End
<1>6. Len(wire[via[t]]) + 1 \in 1..Len(wire'[via[t]])
      /\ wire'[via[t]][Len(wire[via[t]]) + 1] = Message("cancel", t, 0)
  BY <1>4, <1>5
<1> QED
  BY <1>5, <1>6 DEF Told

LEMMA CancelStep ==
  ASSUME TypeOK, SlotsInv, RowInv, LinkInv, CancelInv, Next
  PROVE  CancelInv'
<1> SUFFICES ASSUME NEW t \in Transfers, row'[t] = "cancelled", Current(t)'
             PROVE  game'[t] \in {"dropped", "installed"} \/ Told(t)'
  BY DEF CancelInv
<1>1. row[t] = "cancelled" \/ (End(t) /\ task[t].end = "cancelled")
  BY RowFlow
<1>2. via'[t] = via[t]
  <2>1. task[t].at # "packed"
    BY <1>1 DEF RowInv, Busy, ActiveStatuses, End
  <2> QED
    BY <2>1, RunFlow, ViaSteps
<1>3. Current(t)
  BY <1>2, CurrentBefore
<1>4. CASE row[t] = "cancelled"
  <2>1. CASE game[t] \in {"dropped", "installed"}
    BY <2>1, GameSteps DEF GameFlow
  <2>2. CASE Told(t)
    BY <1>2, <2>2, ToldKept
  <2> QED
    BY <1>3, <1>4, <2>1, <2>2 DEF CancelInv
<1>5. CASE End(t) /\ task[t].end = "cancelled"
  BY <1>3, <1>5, EndTells
<1> QED
  BY <1>1, <1>4, <1>5

-----------------------------------------------------------------------------
(* The theorems.                                                             *)

IInv ==
  TypeOK /\ SlotsInv /\ RowInv /\ WindowInv /\ StoryInv /\ LinkInv /\ CancelInv

LEMMA Inductive == Spec => []IInv
<1>1. Init => IInv
  BY TypeInit, SlotsInit, RowInit, WindowInit, StoryInit, LinkInit, CancelInit DEF IInv
<1>2. IInv /\ [Next]_vars => IInv'
  <2> SUFFICES ASSUME IInv, [Next]_vars PROVE IInv'
    OBVIOUS
  <2>1. CASE Next
    BY <2>1, TypeStep, SlotsStep, RowStep, WindowStep, StoryStep, LinkStep, CancelStep DEF IInv
  <2>2. CASE UNCHANGED vars
    <3> USE <2>2 DEF vars, taskVars, channelVars, sessionVars, gameVars, appVars
    <3>1. TypeOK'
      BY DEF IInv, TypeOK
    <3>2. SlotsInv' /\ RowInv' /\ WindowInv'
      BY DEF IInv, SlotsInv, RowInv, WindowInv, Running
    <3>3. StoryInv'
      BY DEF IInv, StoryInv, Says
    <3>4. LinkInv' /\ CancelInv'
      BY DEF IInv, LinkInv, CancelInv, Running, Current, Told
    <3> QED
      BY <3>1, <3>2, <3>3, <3>4 DEF IInv
  <2> QED
    BY <2>1, <2>2
<1> QED
  BY <1>1, <1>2, PTL DEF Spec

\* Tasks, rows, channels, connections and games keep their types.
THEOREM TypeCorrect == Spec => []TypeOK
<1>1. IInv => TypeOK
  BY DEF IInv
<1> QED
  BY <1>1, Inductive, PTL

\* Never more than MaxActive transfers run, nor two for one instance, whatever
\* fails, is cancelled, is shut down or restarted (`active` of the service).
THEOREM Limited == Spec => []LimitsKept
<1>1. IInv => LimitsKept
  BY DEF IInv, SlotsInv, LimitsKept
<1> QED
  BY <1>1, Inductive, PTL

\* A row that says a transfer is going on belongs to a task that can be cancelled:
\* the last write of a task, and the shutdown and restart, leave none behind.
THEOREM NoneLeftBehind == Spec => []ActiveHasTask
<1>1. IInv => ActiveHasTask
  <2> SUFFICES ASSUME IInv, NEW t \in Transfers, row[t] \in ActiveStatuses
               PROVE  t \in active /\ task[t].at \notin {"starting", "finishing"}
    BY DEF ActiveHasTask
  <2>1. task[t].at \notin {"new", "starting", "finishing", "done"}
    BY DEF IInv, RowInv, ActiveStatuses, Terminal
  <2> QED
    BY <2>1 DEF IInv, SlotsInv, Running
<1> QED
  BY <1>1, Inductive, PTL

\* No acknowledgement, early, late, repeated, within a chunk or invented, moves the
\* window past what was sent or the package, has more than a window on its way when
\* it ends with a chunk, or a chunk more when it does not, or lets the game be asked
\* to install too early.
THEOREM Windowed == Spec => []WindowKept
<1>1. IInv => WindowKept
  <2> SUFFICES ASSUME IInv, NEW t \in Transfers, Sent(task[t])
               PROVE  /\ task[t].acked <= task[t].sent /\ task[t].sent <= Size
                      /\ task[t].sent - task[t].acked < WindowBytes + ChunkBytes
                      /\ Whole(task[t].acked) => task[t].sent - task[t].acked <= WindowBytes
                      /\ task[t].at = "finalizing" => task[t].acked = Size
    BY DEF IInv, WindowInv, WindowKept
  <2>1. task[t].acked \in Nat
    BY TypeParts DEF IInv, TaskTypes, TaskType
  <2> QED
    BY <2>1 DEF Sent
<1> QED
  BY <1>1, Inductive, PTL

\* A game still busy with a cancelled transfer has the withdrawal on its way,
\* unless its connection ended or was replaced.
THEOREM Withdrawn == Spec => []CancelReachesGame
<1>1. IInv => CancelReachesGame
  BY DEF IInv, StoryInv, CancelInv, Current, Told, CancelReachesGame
<1> QED
  BY <1>1, Inductive, PTL

\* The row a transfer ended with is the last: no late event, cancel, timeout,
\* shutdown or restart writes another one.
THEOREM EndedOnce == Spec => EndsOnce
<1> DEFINE Kept == \A t \in Transfers : row[t] \in Terminal => row'[t] = row[t]
<1>1. IInv /\ [Next]_vars => Kept
  <2> SUFFICES ASSUME IInv, [Next]_vars, NEW t \in Transfers, row[t] \in Terminal
               PROVE  row'[t] = row[t]
    OBVIOUS
  <2>1. TypeOK /\ RowInv
    BY DEF IInv
  <2>2. task[t].at \in {"finishing", "done"}
    <3>1. task[t].at \in Places
      BY <2>1, TypeParts DEF TaskTypes, TaskType
    <3> QED
      BY <2>1, <3>1 DEF RowInv, Places, Busy, Terminal, ActiveStatuses
  <2>3. ASSUME NEW u \in Transfers, Run(u) PROVE row'[t] = row[t]
    <3>1. Alone(u) /\ RunsOn(u)
      BY <2>1, <2>3, RunShape
    <3> QED
      BY <2>2, <3>1 DEF Alone, RunsOn, Busy
  <2>4. ASSUME row' = Interrupted PROVE row'[t] = row[t]
    BY <2>4 DEF Interrupted, Terminal, ActiveStatuses
  <2>5. CASE StopAll \/ Restart
    BY <2>4, <2>5 DEF StopAll, Restart
  <2>6. CASE Next
    BY <2>3, <2>5, <2>6, TaskSteps DEF Reserve, Cancel, taskVars
  <2>7. CASE UNCHANGED vars
    BY <2>7 DEF vars, taskVars
  <2> QED
    BY <2>6, <2>7
<1>2. Kept => [\A t \in Transfers :
                 row[t] \in {"completed", "rejected", "cancelled", "failed"}
                   => row'[t] = row[t]]_vars
  BY DEF Terminal
<1> QED
  BY <1>1, <1>2, Inductive, PTL DEF Spec, EndsOnce

-----------------------------------------------------------------------------
(* The refinement.                                                           *)

Outcome == [t \in Transfers |-> IF row[t] \in ActiveStatuses THEN "open" ELSE row[t]]
Installed == {t \in Transfers : game[t] = "installed"}

\* What a transfer's own task does is to leave its record, to open it, or to close
\* it with what its game said.
LEMMA RunPromises ==
  ASSUME IInv, NEW u \in Transfers, Run(u)
  PROVE  Promise!Next \/ UNCHANGED Promise!vars
<1>0. TypeOK /\ RowInv /\ StoryInv
  BY DEF IInv
<1>1. Alone(u) /\ RunsOn(u)
  BY <1>0, RunShape
<1>2. task[u] \in TaskType /\ row[u] \in RowType /\ events[u] \in Seq(EventType)
  BY <1>0, TypeParts DEF TaskTypes, ChannelTypes
<1>3. agreed' = agreed /\ Installed' = Installed
  BY <1>0, RunFlow DEF gameVars, Installed
<1>4. Outcome' = [Outcome EXCEPT ![u] = IF row'[u] \in ActiveStatuses THEN "open" ELSE row'[u]]
  BY <1>1 DEF Outcome, Alone
<1>5. CASE row'[u] = row[u]
  BY <1>3, <1>4, <1>5 DEF Outcome, Installed, Promise!vars
<1>6. CASE row'[u] \in ActiveStatuses
  <2>1. row[u] = "none" \/ row[u] \in ActiveStatuses \cup {"interrupted"}
        \/ row'[u] = row[u]
    BY <1>0, <1>1, <1>2 DEF RunsOn, RowInv, ActiveStatuses, Terminal, Idle, Busy, TaskType
  <2>2. CASE row'[u] = row[u]
    BY <1>5, <2>2
  <2>3. CASE row[u] = "none" \/ row[u] \in ActiveStatuses \cup {"interrupted"}
    <3>1. Promise!Open(u)
      BY <1>3, <1>4, <1>6, <2>3 DEF Promise!Open, Promise!Undecided, Outcome, Installed,
         ActiveStatuses
    <3> QED
      BY <3>1 DEF Promise!Next
  <2> QED
    BY <2>1, <2>2, <2>3
<1>7. CASE row'[u] \notin ActiveStatuses /\ row'[u] # row[u]
  <2>1. row[u] \in ActiveStatuses \cup {"interrupted"} /\ row'[u] \in Terminal
    BY <1>0, <1>1, <1>2, <1>7 DEF RunsOn, RowInv, ActiveStatuses, Terminal, Busy, TaskType
  <2>2. row'[u] = "completed" => u \in Installed
    <3>1. row'[u] = "completed" => events[u] # <<>> /\ Head(events[u]).kind = "installed"
      BY <1>1, <1>2, <1>7 DEF RunsOn, ActiveStatuses, TaskType
    <3>2. events[u] # <<>> /\ Head(events[u]).kind = "installed" => Says(u, "installed")
      BY <1>2 DEF Says
    <3> QED
      BY <1>0, <3>1, <3>2 DEF StoryInv, Installed
  <2>3. row'[u] = "rejected" => u \notin agreed
    <3>1. row'[u] = "rejected" => task[u].end = "rejected"
      BY <1>1, <1>7 DEF RunsOn, ActiveStatuses
    <3> QED
      BY <1>0, <3>1 DEF StoryInv
  <2>4. PICK how \in Terminal : how = row'[u]
    BY <2>1
  <2>5. Outcome[u] \in {"open", "interrupted"} /\ Outcome' = [Outcome EXCEPT ![u] = how]
    BY <1>4, <1>7, <2>1, <2>4 DEF Outcome
  <2>6. Promise!Close(u, how)
    <3>1. Promise!Undecided(u)
      BY <2>5 DEF Promise!Undecided, Outcome
    <3>2. how = "completed" => u \in Installed
      BY <2>2, <2>4
    <3>3. how = "rejected" => u \notin agreed
      BY <2>3, <2>4
    <3> QED
      BY <1>3, <2>5, <3>1, <3>2, <3>3 DEF Promise!Close, Outcome, Installed
  <2> QED
    BY <2>6 DEF Promise!Next, Terminal
<1> QED
  BY <1>5, <1>6, <1>7

\* A transfer is as open as its user left it, and its archive as installed as its
\* game made it.
LEMMA GamePromises ==
  ASSUME IInv, Next, row' = row
  PROVE  Promise!Next \/ UNCHANGED Promise!vars
<1>0. TypeOK /\ StoryInv
  BY DEF IInv
<1>1. game \in [Transfers -> GameStates] /\ agreed \subseteq Transfers
  BY <1>0, TypeParts DEF GameTypes
<1>2. Outcome' = Outcome
  BY DEF Outcome
<1>3. ASSUME NEW t \in Transfers, Decide(t, TRUE) PROVE Promise!Next
  <2>1. row[t] # "none"
    BY <1>0, <1>3 DEF Decide, StoryInv
  <2>2. agreed' = agreed \cup {t} /\ Installed' = Installed
    BY <1>1, <1>3 DEF Decide, Installed
  <2>3. Promise!Agree(t)
    BY <1>2, <2>1, <2>2 DEF Promise!Agree, Outcome, Installed, ActiveStatuses
  <2> QED
    BY <2>3 DEF Promise!Next
<1>4. ASSUME NEW t \in Transfers, Install(t) PROVE Promise!Next
  <2>1. agreed' = agreed /\ Installed' = Installed \cup {t} /\ t \in agreed
    BY <1>0, <1>1, <1>4 DEF Install, Installed, StoryInv
  <2>2. Promise!Install(t)
    BY <1>2, <2>1 DEF Promise!Install, Outcome, Installed
  <2> QED
    BY <2>2 DEF Promise!Next
<1>5. CASE ~\E t \in Transfers : Decide(t, TRUE) \/ Install(t)
  <2>1. agreed' = agreed
    BY <1>5, RunFlow, <1>0 DEF Next, Break, Decide, Install, Stray, Connect, Leave, FailTransfers,
       Receive, TakeSessions, TakeTransfers, Cancel, Reserve, StopAll, Restart, gameVars
  <2>2. \A t \in Transfers : game'[t] = "installed" <=> game[t] = "installed"
    BY <1>0, <1>5, GameSteps DEF GameFlow
  <2> QED
    BY <1>2, <2>1, <2>2 DEF Promise!vars, Outcome, Installed
<1> QED
  BY <1>3, <1>4, <1>5

\* The transfers keep the promise of TransferPromise: the record is closed once,
\* as completed only for an archive the game has installed, as rejected only if
\* its user did not accept, and nothing is installed that he did not accept.
THEOREM PromiseKept == Spec => KeepsPromise
<1>1. Init => Promise!Init
  <2> SUFFICES ASSUME Init PROVE Promise!Init
    OBVIOUS
  <2>1. Outcome = [t \in Transfers |-> "none"]
    BY DEF Init, Outcome, ActiveStatuses
  <2>2. agreed = {} /\ Installed = {}
    BY DEF Init, Installed
  <2> QED
    BY <2>1, <2>2 DEF Promise!Init, Outcome, Installed
<1>2. IInv /\ [Next]_vars => [Promise!Next]_(Promise!vars)
  <2> SUFFICES ASSUME IInv, [Next]_vars PROVE Promise!Next \/ UNCHANGED Promise!vars
    OBVIOUS
  <2>1. ASSUME NEW u \in Transfers, Run(u)
        PROVE  Promise!Next \/ UNCHANGED Promise!vars
    BY <2>1, RunPromises
  <2>2. CASE Next /\ row' = row
    BY <2>2, GamePromises
  <2>3. CASE StopAll \/ Restart
    <3>1. Outcome' = [t \in Transfers |-> IF Outcome[t] = "open" THEN "interrupted" ELSE Outcome[t]]
      <4>1. row' = Interrupted
        BY <2>3 DEF StopAll, Restart
      <4>2. "open" \notin RowType
        BY DEF RowType, ActiveStatuses, Terminal
      <4>3. \A t \in Transfers : row[t] \in RowType
        BY TypeParts DEF IInv, TaskTypes
      <4> QED
        BY <4>1, <4>2, <4>3 DEF Interrupted, Outcome, ActiveStatuses
    <3>2. agreed' = agreed /\ Installed' = Installed
      <4>1. game \in [Transfers -> GameStates]
        BY TypeParts DEF IInv, GameTypes
      <4> QED
        BY <2>3, <4>1 DEF StopAll, Restart, Forget, Installed, gameVars
    <3>3. Promise!Interrupt
      BY <3>1, <3>2 DEF Promise!Interrupt, Outcome, Installed
    <3> QED
      BY <3>3 DEF Promise!Next
  <2>4. CASE UNCHANGED vars
    BY <2>4 DEF vars, taskVars, gameVars, Promise!vars
  <2> QED
    BY <2>1, <2>2, <2>3, <2>4, TaskSteps DEF Reserve, Cancel, taskVars
<1> QED
  BY <1>1, <1>2, Inductive, PTL DEF Spec, KeepsPromise, Promise!Spec
=============================================================================
