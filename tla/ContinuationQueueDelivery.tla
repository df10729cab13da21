---------------------- MODULE ContinuationQueueDelivery ---------------------
(***************************************************************************)
(* Type correctness of ContinuationQueue, and the invariant of deliveries: *)
(* submitted answers are delivered as the documentation promises.  Proofs  *)
(* for every number of groups, revisions, turns, requests, stops and       *)
(* restarts.                                                               *)
(***************************************************************************)
EXTENDS ContinuationQueue, TLAPS

(* Types.                                                                  *)

\* These steps are only reached for a request to deliver answers.
Addressed == pc \in {"reconcile", "idle", "ack"} => req.work \in AnswerWork

LEMMA WorkIsTyped ==
  /\ Plain \in Work /\ Manual \in Work
  /\ AnswerWork \subseteq Work
  /\ Calls \subseteq Work
  /\ \A i \in Issues, f \in Nat : Repair(i, f) \in Work
  /\ Manual \notin AnswerWork /\ Plain \notin AnswerWork
<1> USE BoundsAreNatural DEF Plain, Manual, Answers, Decision, Repair
<1>1. Plain \in Work /\ Manual \in Work
  BY DEF Work
<1>2. \A g \in Groups, r \in 1..MaxAnswers : Answers(g, r) \in Work
  BY DEF Work
<1>3. \A v \in 1..MaxDecisions : Decision(v) \in Work
  BY DEF Work
<1>4. \A i \in Issues, f \in Nat : Repair(i, f) \in Work
  BY DEF Work
<1>5. AnswerWork \subseteq Work
  BY <1>2 DEF AnswerWork
<1>6. Calls \subseteq Work
  BY <1>1, <1>2, <1>3 DEF Calls
<1>7. Manual \notin AnswerWork /\ Plain \notin AnswerWork
  <2>1. \A w \in AnswerWork : w.kind = "answers"
    BY DEF AnswerWork
  <2> QED BY <2>1
<1> QED BY <1>1, <1>4, <1>5, <1>6, <1>7

LEMMA KilledIsTyped == ASSUME turns \in Seq(Turn) PROVE Killed \in Seq(Turn) /\ Len(Killed) = Len(turns)
<1>1. \A t \in DOMAIN turns : turns[t] \in Turn
  OBVIOUS
<1>2. \A u \in Turn : [u EXCEPT !.status = "stopped"] \in Turn
  BY DEF Turn, TurnStatus
<1>3. Killed \in [1..Len(turns) -> Turn]
  BY <1>1, <1>2 DEF Killed
<1> QED BY <1>3

LEMMA InitTypeOK == Init => TypeOK
<1> SUFFICES ASSUME Init PROVE TypeOK
  OBVIOUS
<1>1. req \in Request
  BY WorkIsTyped DEF Init, NoRequest, Request, Status
<1>2. receipts \in [AnswerWork -> Receipt]
  BY DEF Init, NoReceipt, Receipt
<1>3. repairs \in [RepairWork -> [status : Status, owner : Nat]]
  BY DEF Init, NoRepair, Status
<1>4. print \in [Issues -> 0..MaxPrint]
  BY DEF Init
<1>5. group \in [Groups -> {"absent", "pending", "submitted", "cancelled"}]
      /\ answered \in [Groups -> 0..MaxAnswers]
  BY BoundsAreNatural DEF Init
<1>6. turns \in Seq(Turn)
  BY DEF Init
<1> QED BY <1>1, <1>2, <1>3, <1>4, <1>5, <1>6 DEF Init, TypeOK, FilesOK, RecordOK, FlagsOK, NativeOK, HolderOK,
     HistoryOK, HolderSteps

LEMMA UnchangedTypes ==
  ASSUME TypeOK
  PROVE  /\ UNCHANGED files => FilesOK'
         /\ UNCHANGED prodVars => RecordOK'
         /\ UNCHANGED flags => FlagsOK'
         /\ UNCHANGED native => NativeOK'
         /\ UNCHANGED holder => HolderOK'
         /\ UNCHANGED history => HistoryOK'
<1>1. UNCHANGED files => FilesOK'
  BY DEF TypeOK, FilesOK, files
<1>2. UNCHANGED prodVars => RecordOK'
  BY DEF TypeOK, RecordOK, prodVars
<1>3. UNCHANGED flags => FlagsOK'
  BY DEF TypeOK, FlagsOK, flags
<1>4. UNCHANGED native => NativeOK'
  BY DEF TypeOK, NativeOK, native
<1>5. UNCHANGED holder => HolderOK'
  BY DEF TypeOK, HolderOK, holder
<1>6. UNCHANGED history => HistoryOK'
  BY DEF TypeOK, HistoryOK, history
<1> QED BY <1>1, <1>2, <1>3, <1>4, <1>5, <1>6

LEMMA SaveTypes ==
  ASSUME TypeOK, NEW r \in Request, Save(r), UNCHANGED <<receipts, life>>
  PROVE  FilesOK'
<1>1. req' \in Request /\ receipts' \in [AnswerWork -> Receipt]
      /\ life' \in {"active", "archived", "deleted"}
  BY DEF TypeOK, FilesOK, Save
<1>2. repairs' \in [RepairWork -> [status : Status, owner : Nat]]
  BY DEF TypeOK, FilesOK, Save, Request
<1> QED BY <1>1, <1>2 DEF FilesOK

LEMMA SaveStatusTypes ==
  ASSUME TypeOK, NEW s \in Status, SaveStatus(s), UNCHANGED <<receipts, life>>
  PROVE  FilesOK'
<1>1. [req EXCEPT !.status = s] \in Request
  BY DEF TypeOK, FilesOK, Request
<1> QED BY <1>1, SaveTypes DEF SaveStatus

LEMMA SettleTypes ==
  ASSUME TypeOK, NEW s \in Status, Settle(s)
  PROVE  TypeOK'
<1>1. FilesOK'
  BY SaveStatusTypes DEF Settle
<1>2. HolderOK'
  BY DEF Settle, Release, HolderOK, HolderSteps
<1> QED BY <1>1, <1>2, UnchangedTypes DEF TypeOK, Settle

LEMMA HolderTypes ==
  /\ Release => HolderOK'
  /\ TypeOK => \A step \in HolderSteps : Proceed(step) => HolderOK'
  BY DEF Release, Proceed, HolderOK, HolderSteps, TypeOK

LEMMA StatusValues ==
  {"none", "queued", "needsConnection", "sending", "needsReview", "waitingForAnswers",
   "waitingForApproval", "needsResume", "sent", "running", "settled", "paused",
   "superseded"} = Status
  BY DEF Status, Unsent, Undecided

LEMMA NewTurnTypes == TypeOK => NewTurn(req.work, Announced, req.id) \in Turn
  BY DEF TypeOK, FilesOK, HistoryOK, Request, Receipt, NewTurn, Announced, Turn, TurnStatus

LEMMA HoldTypes == TypeOK /\ Addressed /\ Hold => TypeOK'
<1> SUFFICES ASSUME TypeOK, Addressed, Hold PROVE TypeOK'
  OBVIOUS
<1>1. CASE Check
  <2>1. CASE Release /\ Unchanged
    BY <2>1, UnchangedTypes, HolderTypes DEF TypeOK, Unchanged
  <2>2. CASE Proceed("read") /\ Unchanged
    BY <2>2, UnchangedTypes, HolderTypes DEF TypeOK, Unchanged, HolderSteps
  <2>3. CASE CheckStatus # "go" /\ Settle(CheckStatus)
    <3>1. CheckStatus \in Status
      BY <2>3, StatusValues DEF CheckStatus
    <3> QED BY <2>3, <3>1, SettleTypes
  <2> QED BY <1>1, <2>1, <2>2, <2>3 DEF Check
<1>2. CASE ReadFails
  BY <1>2, SettleTypes, StatusValues DEF ReadFails
<1>3. CASE ReadThread
  <2>1. FilesOK'
    <3>1. \A t \in Nat, s \in {"running", "settled"} :
            [req EXCEPT !.status = s, !.turn = t] \in Request
      BY StatusValues DEF TypeOK, FilesOK, Request
    <3>2. Busy => [req EXCEPT !.status = "queued", !.after = Running] \in Request
      <4>1. Busy => Running \in Nat
        BY DEF Busy, Running, TypeOK, NativeOK
      <4> QED BY <4>1, StatusValues DEF TypeOK, FilesOK, Request
    <3>3. req.work \in AnswerWork => receipts[req.work].turn \in Nat
      BY DEF TypeOK, FilesOK, Receipt
    <3> QED
      BY <1>3, <3>1, <3>2, <3>3, SaveTypes, SaveStatusTypes, StatusValues DEF ReadThread
  <2>2. HolderOK'
    BY <1>3, HolderTypes DEF ReadThread, HolderSteps
  <2> QED BY <1>3, <2>1, <2>2, UnchangedTypes DEF ReadThread, TypeOK
<1>4. CASE Reconcile
  <2>1. FilesOK'
    <3>1. \A t \in Nat, s \in {"sent", "settled"} :
            [req EXCEPT !.status = s, !.turn = t] \in Request
      BY StatusValues DEF TypeOK, FilesOK, Request
    <3>2. req.work \in AnswerWork => receipts[req.work].turn \in Nat
      BY DEF TypeOK, FilesOK, Receipt
    <3> QED
      BY <1>4, <3>1, <3>2, SaveTypes, SaveStatusTypes, StatusValues
         DEF Reconcile, Addressed, TypeOK, FilesOK
  <2>2. HolderOK'
    BY <1>4, HolderTypes DEF Reconcile, HolderSteps
  <2> QED BY <1>4, <2>1, <2>2, UnchangedTypes DEF Reconcile, TypeOK
<1>5. CASE EnsureIdle
  <2>1. CASE SaveStatus("needsReview") /\ Release /\ UNCHANGED receipts
    BY <1>5, <2>1, SaveStatusTypes, StatusValues, HolderTypes, UnchangedTypes
       DEF EnsureIdle, TypeOK
  <2>2. CASE Proceed("start") /\ UNCHANGED <<req, repairs>> /\ receipts' =
               [receipts EXCEPT ![req.work] =
                  [status |-> "pending", attempt |-> @.attempt + 1, turn |-> 0]]
    <3>1. receipts' \in [AnswerWork -> Receipt]
      <4>1. req.work \in AnswerWork
        BY <1>5 DEF EnsureIdle, Addressed
      <4>2. [status |-> "pending", attempt |-> receipts[req.work].attempt + 1, turn |-> 0] \in Receipt
        BY <4>1 DEF TypeOK, FilesOK, Receipt
      <4> QED BY <2>2, <4>2 DEF TypeOK, FilesOK
    <3>2. FilesOK'
      BY <1>5, <2>2, <3>1 DEF EnsureIdle, TypeOK, FilesOK
    <3> QED BY <1>5, <2>2, <3>2, HolderTypes, UnchangedTypes DEF EnsureIdle, TypeOK, HolderSteps
  <2> QED BY <1>5, <2>1, <2>2 DEF EnsureIdle
<1>6. CASE StartTurn
  <2>1. NewTurn(req.work, Announced, req.id) \in Turn
    BY NewTurnTypes
  <2>2. NativeOK'
    BY <1>6, <2>1 DEF StartTurn, TypeOK, NativeOK
  <2>3. FilesOK' /\ HolderOK'
    <3>1. CASE UNCHANGED <<req, repairs>>
      BY <1>6, <3>1, HolderTypes DEF StartTurn, TypeOK, FilesOK, HolderOK, HolderSteps, NativeOK
    <3>2. CASE SaveStatus("needsReview") /\ Release
      BY <1>6, <3>2, SaveStatusTypes, StatusValues, HolderTypes DEF StartTurn
    <3> QED BY <1>6, <3>1, <3>2 DEF StartTurn
  <2> QED BY <1>6, <2>2, <2>3, UnchangedTypes DEF StartTurn, TypeOK
<1>7. CASE StartFails
  <2>1. FilesOK' /\ HolderOK'
    BY <1>7, SaveStatusTypes, StatusValues, HolderTypes DEF StartFails
  <2>2. NativeOK'
    BY <1>7, NewTurnTypes DEF StartFails, TypeOK, NativeOK
  <2> QED BY <1>7, <2>1, <2>2, UnchangedTypes DEF StartFails, TypeOK
<1>8. CASE AckReceipt
  <2>1. receipts' \in [AnswerWork -> Receipt]
    BY <1>8 DEF AckReceipt, TypeOK, FilesOK, Receipt, HolderOK
  <2>2. FilesOK'
    BY <1>8, <2>1 DEF AckReceipt, TypeOK, FilesOK
  <2> QED BY <1>8, <2>2, HolderTypes, UnchangedTypes DEF AckReceipt, TypeOK, HolderSteps
<1>9. CASE RecordSent
  <2>1. [req EXCEPT !.status = "sent", !.turn = reply] \in Request
    BY StatusValues DEF TypeOK, FilesOK, HolderOK, Request
  <2>2. FilesOK'
    BY <1>9, <2>1, SaveTypes DEF RecordSent
  <2> QED BY <1>9, <2>2, HolderTypes, UnchangedTypes DEF RecordSent, TypeOK
<1>10. CASE Interrupt
  BY <1>10, HolderTypes, UnchangedTypes DEF Interrupt, Unchanged, TypeOK, HolderSteps
<1>11. CASE AwaitInterrupted
  BY <1>11, HolderTypes, UnchangedTypes DEF AwaitInterrupted, Unchanged, TypeOK, HolderSteps
<1>12. CASE StopFails
  <2>1. FlagsOK'
    BY <1>12 DEF StopFails, Unmark, ExitNotes, TypeOK, FlagsOK
  <2> QED BY <1>12, <2>1, HolderTypes, UnchangedTypes DEF StopFails, TypeOK
<1>13. CASE Close
  <2>1. FlagsOK' /\ HistoryOK'
    BY <1>13 DEF Close, Unmark, ExitNotes, TypeOK, FlagsOK, HistoryOK
  <2>2. NativeOK'
    BY <1>13, KilledIsTyped DEF Close, TypeOK, NativeOK
  <2>3. HolderOK'
    BY <1>13, HolderTypes DEF Close, HolderSteps
  <2> QED BY <1>13, <2>1, <2>2, <2>3, UnchangedTypes DEF Close, TypeOK
<1>14. CASE Archive
  <2>1. FlagsOK'
    BY <1>14 DEF Archive, TypeOK, FlagsOK
  <2>2. FilesOK'
    <3>1. NoRequest \in Request /\ NoReceipt \in Receipt /\ NoRepair \in [status : Status, owner : Nat]
      BY StatusValues, WorkIsTyped DEF NoRequest, Request, NoReceipt, Receipt, NoRepair
    <3> QED BY <1>14, <3>1, UnchangedTypes DEF Archive, TypeOK, FilesOK
  <2> QED BY <1>14, <2>1, <2>2, HolderTypes, UnchangedTypes DEF Archive, TypeOK
<1> QED
  BY <1>1, <1>2, <1>3, <1>4, <1>5, <1>6, <1>7, <1>8, <1>9, <1>10, <1>11, <1>12, <1>13, <1>14
     DEF Hold

LEMMA StopTypes ==
  ASSUME TypeOK, NEW why \in {"pause", "exit", "archive", "delete"}, StopLocked(why)
  PROVE  FilesOK' /\ NativeOK' /\ HolderOK' /\ HistoryOK' /\ RecordOK' /\ epoch' \in Nat
<1>1. FilesOK'
  <2>1. PausedRequest \in Request
    BY StatusValues DEF PausedRequest, TypeOK, FilesOK, Request
  <2> QED BY <2>1, SaveTypes DEF StopLocked, TypeOK, FilesOK
<1>2. HolderOK' /\ HistoryOK'
  BY DEF StopLocked, TypeOK, HolderOK, HistoryOK, HolderSteps
<1> QED BY <1>1, <1>2, UnchangedTypes DEF StopLocked, TypeOK

LEMMA UncancelTypes ==
  TypeOK /\ Uncancel => cancelled' \in BOOLEAN /\ stopping' \in BOOLEAN /\ waiters' \in Nat
<1> SUFFICES ASSUME TypeOK, Uncancel
             PROVE  cancelled' \in BOOLEAN /\ stopping' \in BOOLEAN /\ waiters' \in Nat
  OBVIOUS
<1>1. cancelled' \in BOOLEAN
  BY DEF Uncancel
<1>2. CASE UNCHANGED <<stopping, waiters>>
  BY <1>1, <1>2 DEF TypeOK, FlagsOK
<1>3. CASE stopping' = TRUE /\ waiters' = waiters + 1
  <2>1. stopping' \in BOOLEAN
    BY <1>3
  <2>2. waiters' \in Nat
    BY <1>3 DEF TypeOK, FlagsOK
  <2> QED BY <1>1, <2>1, <2>2
<1> QED BY <1>2, <1>3 DEF Uncancel

LEMMA UserTypes == TypeOK /\ User => TypeOK'
<1> SUFFICES ASSUME TypeOK, User PROVE TypeOK'
  OBVIOUS
<1>1. \A w \in Work : NewRequest(w) \in Request
  BY StatusValues DEF NewRequest, Request, TypeOK, HistoryOK
<1>2. ASSUME NEW call \in Calls, Continue(call) PROVE TypeOK'
  <2>1. CASE Refused(call)
    <3>1. UNCHANGED files /\ UNCHANGED holder /\ UNCHANGED history /\ FlagsOK'
      BY <1>2, <2>1 DEF Continue, TypeOK, FlagsOK
    <3> QED BY <1>2, <3>1, UnchangedTypes DEF Continue, TypeOK
  <2>2. CASE ~Refused(call)
    <3>1. Carried(call) \in Work
      BY WorkIsTyped DEF Carried, TypeOK, FilesOK, Request
    <3>2. FilesOK'
      BY <1>1, <1>2, <2>2, <3>1, SaveTypes DEF Continue, TypeOK, FilesOK
    <3>3. FlagsOK'
      <4>1. cancelled' \in BOOLEAN /\ stopping' \in BOOLEAN /\ waiters' \in Nat
        BY <1>2, <2>2, UncancelTypes DEF Continue
      <4> QED BY <1>2, <4>1 DEF Continue, TypeOK, FlagsOK
    <3>4. HistoryOK' /\ HolderOK'
      BY <1>2, <2>2, HolderTypes DEF Continue, TypeOK, HistoryOK, HolderSteps
    <3> QED BY <1>2, <3>2, <3>3, <3>4, UnchangedTypes DEF Continue, TypeOK
  <2> QED BY <2>1, <2>2
<1>3. ASSUME NEW i \in Issues, RepairIssue(i) PROVE TypeOK'
  <2>1. HolderOK' /\ HistoryOK'
    BY <1>3, HolderTypes DEF RepairIssue, TypeOK, HistoryOK, HolderSteps, history
  <2>3. FlagsOK'
    <3>1. cancelled' \in BOOLEAN /\ stopping' \in BOOLEAN /\ waiters' \in Nat
          /\ tracked' \in BOOLEAN
      BY <1>3, UncancelTypes DEF RepairIssue, TypeOK, FlagsOK
    <3> QED BY <1>3, <3>1 DEF RepairIssue, TypeOK, FlagsOK
  <2>2. FilesOK'
    <3>1. NewRequest(Repair(i, print[i])) \in Request
      BY <1>1, WorkIsTyped, BoundsAreNatural DEF TypeOK, RecordOK
    <3> QED BY <1>3, <3>1, SaveTypes, UnchangedTypes DEF RepairIssue, TypeOK
  <2> QED BY <1>3, <2>1, <2>2, <2>3, UnchangedTypes DEF RepairIssue, TypeOK
<1>4. CASE Flush
  BY <1>4, HolderTypes, UnchangedTypes DEF Flush, Unchanged, TypeOK, HolderSteps
<1>5. CASE TaskControl
  <2>1. FlagsOK'
    BY <1>5 DEF TaskControl, TypeOK, FlagsOK
  <2> QED BY <1>5, <2>1, UnchangedTypes DEF TaskControl, TypeOK
<1>6. CASE StopCall
  <2>1. FlagsOK'
    BY <1>6 DEF StopCall, TypeOK, FlagsOK
  <2> QED BY <1>6, <2>1, UnchangedTypes DEF StopCall, TypeOK
<1>7. CASE BeginShutdown
  <2>1. FlagsOK'
    BY <1>7 DEF BeginShutdown, TypeOK, FlagsOK
  <2> QED BY <1>7, <2>1, UnchangedTypes DEF BeginShutdown, TypeOK
<1>8. ASSUME NEW why \in {"archive", "delete"}, RetireBegin(why) PROVE TypeOK'
  <2>1. FlagsOK'
    BY <1>8 DEF RetireBegin, StopLocked, TypeOK, FlagsOK
  <2> QED BY <1>8, <2>1, StopTypes, UnchangedTypes DEF RetireBegin, TypeOK, StopLocked
<1>9. CASE Restore
  <2>1. FilesOK'
    BY <1>9 DEF Restore, TypeOK, FilesOK
  <2> QED BY <1>9, <2>1, UnchangedTypes DEF Restore, TypeOK
<1>10. CASE Open
  <2>1. NativeOK'
    BY <1>10 DEF Open, TypeOK, NativeOK
  <2> QED BY <1>10, <2>1, UnchangedTypes DEF Open, TypeOK
<1>11. CASE Detach
  <2>1. NativeOK'
    BY <1>11 DEF Detach, TypeOK, NativeOK
  <2> QED BY <1>11, <2>1, UnchangedTypes DEF Detach, TypeOK
<1>12. CASE ManualTurn
  <2>1. NewTurn(Manual, 0, 0) \in Turn
    BY WorkIsTyped DEF NewTurn, Turn, TurnStatus, TypeOK, HistoryOK
  <2>2. NativeOK'
    BY <1>12, <2>1 DEF ManualTurn, TypeOK, NativeOK
  <2> QED BY <1>12, <2>2, UnchangedTypes DEF ManualTurn, TypeOK
<1> QED
  BY <1>2, <1>3, <1>4, <1>5, <1>6, <1>7, <1>8, <1>9, <1>10, <1>11, <1>12 DEF User

\* The production record changes beside the queue.
LEMMA RecordFrame ==
  Record => UNCHANGED <<files, epoch, flags, native, holder, history>>
  BY DEF Record, Publish, Answer, SubmitDocument, Decided, SetTaskStatus, UpdateIssue, prodFrame

LEMMA RecordTypes == TypeOK /\ Record => TypeOK'
<1> SUFFICES ASSUME TypeOK, Record PROVE TypeOK'
  OBVIOUS
<1>1. ASSUME NEW g \in Groups, Publish(g) PROVE RecordOK' /\ prodFrame
  BY <1>1 DEF Publish, TypeOK, RecordOK
<1>2. ASSUME NEW g \in Groups, Answer(g) PROVE RecordOK' /\ prodFrame
  <2>1. group' \in [Groups -> {"absent", "pending", "submitted", "cancelled"}]
    BY <1>2 DEF Answer, TypeOK, RecordOK
  <2>2. answered' \in [Groups -> 0..MaxAnswers]
    BY <1>2, BoundsAreNatural DEF Answer, TypeOK, RecordOK
  <2>3. gate' \in BOOLEAN
    BY <1>2 DEF Answer, TypeOK, RecordOK
  <2> QED BY <1>2, <2>1, <2>2, <2>3 DEF Answer, TypeOK, RecordOK
<1>3. ASSUME SubmitDocument PROVE RecordOK' /\ prodFrame
  BY <1>3 DEF SubmitDocument, TypeOK, RecordOK
<1>4. ASSUME Decided PROVE RecordOK' /\ prodFrame
  <2>1. gate' \in BOOLEAN
    BY <1>4 DEF Decided
  <2>2. decisions' \in Nat
    BY <1>4 DEF Decided, TypeOK, RecordOK
  <2> QED BY <1>4, <2>1, <2>2 DEF Decided, TypeOK, RecordOK
<1>5. ASSUME SetTaskStatus PROVE RecordOK' /\ prodFrame
  BY <1>5 DEF SetTaskStatus, TypeOK, RecordOK
<1>6. ASSUME NEW i \in Issues, UpdateIssue(i) PROVE RecordOK' /\ prodFrame
  BY <1>6 DEF UpdateIssue, TypeOK, RecordOK
<1>7. RecordOK' /\ prodFrame
  BY <1>1, <1>2, <1>3, <1>4, <1>5, <1>6 DEF Record
<1> QED BY <1>7, UnchangedTypes DEF prodFrame, TypeOK

LEMMA EnvironmentTypes ==
  TypeOK /\ (Deliver \/ StopBegin \/ Exit \/ LateStart \/ EndTurn \/ ExecutorDies \/ BridgeLost \/ Restart)
    => TypeOK'
<1> SUFFICES ASSUME TypeOK PROVE
      (Deliver \/ StopBegin \/ Exit \/ LateStart \/ EndTurn \/ ExecutorDies \/ BridgeLost \/ Restart)
        => TypeOK'
  OBVIOUS
<1>1. ASSUME NEW e \in events, QueueEvent(e) PROVE TypeOK'
  <2>1. NativeOK'
    BY <1>1 DEF QueueEvent, TypeOK, NativeOK
  <2>2. FilesOK'
    <3>1. CASE UNCHANGED <<req, repairs>>
      BY <1>1, <3>1 DEF QueueEvent, TypeOK, FilesOK
    <3>2. CASE SaveStatus("paused")
      BY <1>1, <3>2, SaveStatusTypes, StatusValues DEF QueueEvent
    <3> QED BY <1>1, <3>1, <3>2 DEF QueueEvent
  <2>3. HolderOK'
    BY <1>1, HolderTypes, UnchangedTypes DEF QueueEvent, HolderSteps
  <2> QED BY <1>1, <2>1, <2>2, <2>3, UnchangedTypes DEF QueueEvent, TypeOK
<1>2. CASE StopBegin
  <2>1. FlagsOK'
    <3>1. waiters' \in Nat
      BY <1>2 DEF StopBegin, TypeOK, FlagsOK
    <3> QED BY <1>2, <3>1 DEF StopBegin, StopLocked, TypeOK, FlagsOK
  <2> QED BY <1>2, <2>1, StopTypes DEF StopBegin, TypeOK
<1>3. CASE LateStart
  <2>1. NativeOK'
    BY <1>3 DEF LateStart, TypeOK, NativeOK
  <2> QED BY <1>3, <2>1, UnchangedTypes DEF LateStart, TypeOK
<1>4. CASE EndTurn
  <2>1. Running \in DOMAIN turns
    BY <1>4 DEF EndTurn, Busy, Running
  <2>2. ASSUME NEW s \in {"completed", "stopped"}
        PROVE  [turns EXCEPT ![Running].status = s] \in Seq(Turn)
    <3> DEFINE r == Running
    <3>1. turns \in [1..Len(turns) -> Turn] /\ r \in 1..Len(turns) /\ Len(turns) \in Nat
      BY <2>1 DEF TypeOK, NativeOK
    <3> HIDE DEF r
    <3>2. [turns[r] EXCEPT !.status = s] \in Turn
      BY <3>1 DEF Turn, TurnStatus
    <3>3. [turns EXCEPT ![r].status = s] \in [1..Len(turns) -> Turn]
      BY <3>1, <3>2
    <3> QED BY <3>1, <3>3 DEF r
  <2>3. turns' \in Seq(Turn)
    BY <1>4, <2>2 DEF EndTurn
  <2>4. events' \subseteq Event
    <3>1. Running \in Nat
      BY <2>1 DEF TypeOK, NativeOK
    <3>2. \A s : [turn |-> Running, completed |-> s = "completed"] \in Event
      BY <3>1 DEF Event
    <3> QED BY <1>4, <3>2 DEF EndTurn, TypeOK, NativeOK
  <2>5. NativeOK'
    BY <1>4, <2>3, <2>4 DEF EndTurn, TypeOK, NativeOK
  <2> QED BY <1>4, <2>5, UnchangedTypes DEF EndTurn, TypeOK
<1>5. CASE ExecutorDies
  <2>1. NativeOK'
    BY <1>5, KilledIsTyped DEF ExecutorDies, TypeOK, NativeOK
  <2> QED BY <1>5, <2>1, UnchangedTypes DEF ExecutorDies, TypeOK
<1>6. CASE BridgeLost
  <2>1. NativeOK'
    BY <1>6 DEF BridgeLost, TypeOK, NativeOK
  <2> QED BY <1>6, <2>1, UnchangedTypes DEF BridgeLost, TypeOK
<1>7. CASE Restart
  <2>1. NativeOK'
    BY <1>7, KilledIsTyped DEF Restart, TypeOK, NativeOK
  <2>2. FlagsOK'
    BY <1>7 DEF Restart, FlagsOK
  <2>3. HistoryOK' /\ epoch' \in Nat
    BY <1>7 DEF Restart, TypeOK, HistoryOK
  <2> QED BY <1>7, <2>1, <2>2, <2>3, HolderTypes, UnchangedTypes DEF Restart, TypeOK
<1>8. CASE StopAll
  <2>1. FlagsOK'
    BY <1>8 DEF StopAll, TypeOK, FlagsOK
  <2> QED BY <1>8, <2>1, UnchangedTypes DEF StopAll, TypeOK
<1>9. CASE ExitStopBegin
  <2>1. FlagsOK'
    BY <1>9 DEF ExitStopBegin, StopLocked, TypeOK, FlagsOK
  <2> QED BY <1>9, <2>1, StopTypes DEF ExitStopBegin, TypeOK
<1>10. CASE Drain
  <2>1. FlagsOK' /\ HistoryOK'
    BY <1>10 DEF Drain, TypeOK, FlagsOK, HistoryOK
  <2>2. NativeOK'
    BY <1>10, KilledIsTyped DEF Drain, TypeOK, NativeOK
  <2> QED BY <1>10, <2>1, <2>2, UnchangedTypes DEF Drain, TypeOK
<1> QED BY <1>1, <1>2, <1>3, <1>4, <1>5, <1>6, <1>7, <1>8, <1>9, <1>10 DEF Deliver, Exit

AddressedSteps == {"reconcile", "idle", "ack"}

\* Only three steps of the holder lead to an addressed step of the delivery.
LEMMA OthersNotAddressed ==
  ASSUME TypeOK, Next, ~ReadThread, ~Reconcile, ~StartTurn
  PROVE  pc' \notin AddressedSteps \/ UNCHANGED <<pc, req>>
<1>1. CASE Hold
  <2>1. CASE Check
    BY <2>1 DEF Check, Settle, Release, Proceed, AddressedSteps
  <2>2. CASE ReadFails \/ EnsureIdle \/ StartFails \/ AckReceipt \/ RecordSent
    BY <2>2 DEF ReadFails, EnsureIdle, StartFails, AckReceipt, RecordSent, Settle, Release,
                Proceed, AddressedSteps
  <2>3. CASE Interrupt \/ AwaitInterrupted \/ StopFails \/ Close \/ Archive
    BY <2>3 DEF Interrupt, AwaitInterrupted, StopFails, Close, Archive, Release, Proceed,
                AddressedSteps
  <2> QED BY <1>1, <2>1, <2>2, <2>3 DEF Hold
<1>2. CASE User
  <2>1. ASSUME NEW call \in Calls, Continue(call)
        PROVE  pc' \notin AddressedSteps \/ UNCHANGED <<pc, req>>
    BY <2>1 DEF Continue, Proceed, AddressedSteps, files, holder
  <2>2. ASSUME NEW i \in Issues, RepairIssue(i) PROVE pc' \notin AddressedSteps
    BY <2>2 DEF RepairIssue, Proceed, AddressedSteps
  <2>3. ASSUME NEW why \in {"archive", "delete"}, RetireBegin(why) PROVE pc' \notin AddressedSteps
    BY <2>3 DEF RetireBegin, StopLocked, AddressedSteps
  <2>4. Flush => pc' \notin AddressedSteps
    BY DEF Flush, Proceed, AddressedSteps
  <2>5. TaskControl \/ StopCall \/ BeginShutdown \/ Restore \/ Open \/ Detach \/ ManualTurn
          => UNCHANGED <<pc, req>>
    BY DEF TaskControl, StopCall, BeginShutdown, Restore, Open, Detach, ManualTurn, files, holder
  <2> QED BY <1>2, <2>1, <2>2, <2>3, <2>4, <2>5 DEF User
<1>3. CASE Record
  BY <1>3, RecordFrame DEF files, holder
<1>4. ASSUME NEW e \in events, QueueEvent(e)
      PROVE  pc' \notin AddressedSteps \/ UNCHANGED <<pc, req>>
  BY <1>4 DEF QueueEvent, Proceed, AddressedSteps, holder
<1>5. CASE StopBegin \/ Restart
  BY <1>5 DEF StopBegin, StopLocked, Restart, Release, AddressedSteps
<1>6. CASE LateStart \/ EndTurn \/ ExecutorDies \/ BridgeLost
  BY <1>6 DEF LateStart, EndTurn, ExecutorDies, BridgeLost, files, holder
<1>7. CASE Exit
  BY <1>7 DEF Exit, StopAll, ExitStopBegin, Drain, StopLocked, AddressedSteps, files, holder
<1> QED BY <1>1, <1>2, <1>3, <1>4, <1>5, <1>6, <1>7 DEF Next, Deliver

LEMMA AddressedStep == TypeOK /\ Addressed /\ [Next]_vars => Addressed'
<1> SUFFICES ASSUME TypeOK, Addressed, [Next]_vars PROVE Addressed'
  OBVIOUS
<1>1. CASE ReadThread
  <2>1. pc' \notin AddressedSteps
          \/ (req.work \in AnswerWork /\ req' = [req EXCEPT !.status = "sending"])
    BY <1>1 DEF ReadThread, Release, Proceed, SaveStatus, Save, AddressedSteps
  <2> QED BY <2>1 DEF Addressed, AddressedSteps, TypeOK, FilesOK, Request
<1>2. CASE Reconcile
  BY <1>2 DEF Reconcile, Release, Proceed, Addressed
<1>3. CASE StartTurn
  BY <1>3 DEF StartTurn, Release, Proceed, Addressed
<1>4. CASE Next /\ ~ReadThread /\ ~Reconcile /\ ~StartTurn
  BY <1>4, OthersNotAddressed DEF Addressed, AddressedSteps
<1>5. CASE UNCHANGED vars
  BY <1>5 DEF Addressed, vars, files, holder
<1> QED BY <1>1, <1>2, <1>3, <1>4, <1>5

LEMMA TypeStep == TypeOK /\ Addressed /\ [Next]_vars => TypeOK' /\ Addressed'
<1>1. TypeOK /\ UNCHANGED vars => TypeOK'
  BY UnchangedTypes DEF vars, TypeOK
<1> QED
  BY <1>1, HoldTypes, UserTypes, RecordTypes, EnvironmentTypes, AddressedStep DEF Next

\* Every variable keeps its type, for every value of the bounds.
THEOREM TypeCorrect == Spec => []TypeOK
<1>1. Init => TypeOK /\ Addressed
  BY InitTypeOK DEF Init, Addressed
<1> QED BY <1>1, TypeStep, PTL DEF Spec
-----------------------------------------------------------------------------
(* The inductive invariant.  A receipt knows the number of its attempt; the *)
(* turns of an answer carry increasing attempts, all but the last stopped.  *)

\* Turns of the same answer are attempts in order, the earlier ones stopped.
AttemptsInOrder ==
  \A s, t \in DOMAIN turns :
    s < t /\ turns[s].work = turns[t].work /\ turns[s].work \in AnswerWork
      => turns[s].attempt < turns[t].attempt /\ turns[s].status = "stopped"

\* Until deletion every such turn is accounted for by the receipt, and only
\* the turn of the attempt the receipt speaks of may have any other status.
TurnsAccounted ==
  life # "deleted" =>
    \A t \in DOMAIN turns : turns[t].work \in AnswerWork =>
      /\ 0 < turns[t].attempt /\ turns[t].attempt <= receipts[turns[t].work].attempt
      /\ turns[t].attempt < receipts[turns[t].work].attempt => turns[t].status = "stopped"

\* No attempt without a receipt; a sent receipt names the turn it was sent as.
ReceiptsAgree ==
  \A w \in AnswerWork :
    /\ receipts[w].status = "none" <=> receipts[w].attempt = 0
    /\ receipts[w].status = "sent" =>
         /\ receipts[w].turn \in DOMAIN turns
         /\ turns[receipts[w].turn].work = w
         /\ turns[receipts[w].turn].attempt = receipts[w].attempt

\* No turn carries attempt a of answer w yet.
Untaken(w, a) == \A t \in DOMAIN turns : ~(turns[t].work = w /\ turns[t].attempt = a)

\* A timed out turn/start is the pending, untaken attempt of its answer.
LateIsPending ==
  \A u \in late : u.work \in AnswerWork =>
    /\ receipts[u.work].status = "pending"
    /\ u.status = "inProgress" /\ u.attempt = receipts[u.work].attempt
    /\ Untaken(u.work, u.attempt)
    /\ \A v \in late : v.work = u.work => v = u

\* What the lock holder may rely on at each step of a delivery.
HolderKnows ==
  /\ pc \in {"reconcile", "idle", "start", "ack", "record"} => req.status = "sending"
  /\ pc = "read" => req.status \in Unsent
  /\ pc = "idle" =>
       /\ receipts[req.work].status # "pending"
       /\ receipts[req.work].status = "sent" => turns[receipts[req.work].turn].status = "stopped"
  /\ (pc = "start" /\ req.work \in AnswerWork) =>
       /\ receipts[req.work].status = "pending"
       /\ Untaken(req.work, receipts[req.work].attempt)
       /\ \A u \in late : u.work # req.work
  /\ pc = "ack" =>
       /\ receipts[req.work].status = "pending"
       /\ reply \in DOMAIN turns
       /\ turns[reply].work = req.work
       /\ turns[reply].attempt = receipts[req.work].attempt
  /\ (pc = "record" /\ req.work \in AnswerWork) => receipts[req.work].status = "sent"

\* Nothing of a deleted conversation is left to deliver.
DeletedIsQuiet ==
  /\ pc = "archiving" => late = {}
  /\ life = "deleted" =>
       /\ req.status = "none" /\ late = {} /\ stopFor \in {"pause", "exit"}
       /\ pc \in {"free", "interrupt", "await", "closing"}
       /\ \A w \in AnswerWork : receipts[w].status = "none"

ThreadInv == AttemptsInOrder /\ TurnsAccounted /\ ReceiptsAgree /\ LateIsPending

DeliveryInv ==
  TypeOK /\ Addressed /\ ThreadInv /\ HolderKnows /\ DeletedIsQuiet /\ AmbiguityIsVisible
-----------------------------------------------------------------------------
(* Steps that leave the receipts alone.                                    *)

\* Turns end, and calls in flight are lost; nothing is added.
Aged ==
  /\ DOMAIN turns' = DOMAIN turns
  /\ \A t \in DOMAIN turns :
       /\ turns'[t].work = turns[t].work /\ turns'[t].attempt = turns[t].attempt
       /\ turns[t].status = "stopped" => turns'[t].status = "stopped"
  /\ late' \subseteq late

LEMMA AgingKeepsThread ==
  ASSUME TypeOK, ThreadInv, Aged, UNCHANGED receipts, life' # "deleted" => life # "deleted"
  PROVE  ThreadInv'
<1>1. AttemptsInOrder'
  BY DEF Aged, ThreadInv, AttemptsInOrder
<1>2. TurnsAccounted'
  BY DEF Aged, ThreadInv, TurnsAccounted
<1>3. ReceiptsAgree'
  BY DEF Aged, ThreadInv, ReceiptsAgree
<1>4. LateIsPending'
  BY DEF Aged, ThreadInv, LateIsPending, Untaken
<1> QED BY <1>1, <1>2, <1>3, <1>4 DEF ThreadInv

LEMMA AgingKeepsHolder ==
  ASSUME TypeOK, HolderKnows, Addressed, ReceiptsAgree, Aged, UNCHANGED <<receipts, pc, req, reply>>
  PROVE  HolderKnows'
  BY DEF Aged, HolderKnows, Untaken, Addressed, ReceiptsAgree

QuietSteps == {"free", "check", "interrupt", "await", "closing", "archiving"}

LEMMA QuietHolder == pc' \in QuietSteps => HolderKnows'
  BY DEF QuietSteps, HolderKnows

LEMMA NothingAged == UNCHANGED <<turns, late>> => Aged
  BY DEF Aged

LEMMA KillingAges ==
  ASSUME TypeOK, turns' = turns \/ turns' = Killed, late' \subseteq late
  PROVE  Aged
<1>1. CASE turns' = turns
  BY <1>1 DEF Aged
<1>2. CASE turns' = Killed
  <2>1. \A t \in DOMAIN turns : turns[t] \in Turn
    BY DEF TypeOK, NativeOK
  <2>2. \A u \in Turn : LET v == [u EXCEPT !.status = "stopped"]
                       IN v.work = u.work /\ v.attempt = u.attempt /\ v.status = "stopped"
    BY DEF Turn
  <2> QED BY <1>2, <2>1, <2>2 DEF Aged, Killed
<1> QED BY <1>1, <1>2

LEMMA EndingAges == TypeOK /\ EndTurn => Aged
<1> SUFFICES ASSUME TypeOK, EndTurn PROVE Aged
  OBVIOUS
<1>1. PICK s \in {"completed", "stopped"} : turns' = [turns EXCEPT ![Running].status = s]
  BY DEF EndTurn
<1>2. Running \in DOMAIN turns /\ turns[Running].status = "inProgress"
  BY DEF EndTurn, Busy, Running
<1>3. \A t \in DOMAIN turns : turns[t] \in Turn
  BY DEF TypeOK, NativeOK
<1>4. [turns[Running] EXCEPT !.status = s].work = turns[Running].work
      /\ [turns[Running] EXCEPT !.status = s].attempt = turns[Running].attempt
  BY <1>2, <1>3 DEF Turn
<1> QED BY <1>1, <1>2, <1>4 DEF Aged, EndTurn
-----------------------------------------------------------------------------
(* Steps that add a turn to the thread.                                    *)

\* A turn may be added for the pending, untaken attempt of an answer.
Admissible(u) ==
  u.work \in AnswerWork =>
    /\ life # "deleted"
    /\ receipts[u.work].status # "none"
    /\ u.attempt = receipts[u.work].attempt
    /\ Untaken(u.work, u.attempt)

LEMMA AddingKeepsThread ==
  ASSUME TypeOK, ThreadInv, NEW u \in Turn, Admissible(u), turns' = Append(turns, u),
         late' \subseteq late, \A v \in late' : v.work \in AnswerWork => v.work # u.work,
         UNCHANGED <<receipts, life>>
  PROVE  ThreadInv'
<1>1. /\ Len(turns) \in Nat /\ DOMAIN turns = 1..Len(turns)
      /\ DOMAIN turns' = 1..(Len(turns) + 1)
      /\ \A t \in DOMAIN turns : turns[t] \in Turn /\ turns'[t] = turns[t]
      /\ turns'[Len(turns) + 1] = u
  BY DEF TypeOK, NativeOK
<1>2. \A w \in AnswerWork : receipts[w].attempt \in Nat
  BY DEF TypeOK, FilesOK, Receipt
<1>3. AttemptsInOrder'
  <2> SUFFICES ASSUME NEW s \in DOMAIN turns', NEW t \in DOMAIN turns', s < t,
                      turns'[s].work = turns'[t].work, turns'[s].work \in AnswerWork
               PROVE  turns'[s].attempt < turns'[t].attempt /\ turns'[s].status = "stopped"
    BY WorkIsTyped DEF AttemptsInOrder
  <2>1. CASE t \in DOMAIN turns
    BY <1>1, <2>1 DEF ThreadInv, AttemptsInOrder
  <2>2. CASE t = Len(turns) + 1
    <3>1. s \in DOMAIN turns /\ turns[s].work = u.work /\ turns[s].attempt # u.attempt
          /\ turns[s].attempt \in Nat
      BY <1>1, <2>2 DEF Admissible, Untaken, Turn
    <3> QED BY <1>1, <1>2, <2>2, <3>1 DEF ThreadInv, TurnsAccounted, Admissible
  <2> QED BY <1>1, <2>1, <2>2
<1>4. TurnsAccounted'
  <2> SUFFICES ASSUME life # "deleted", NEW t \in DOMAIN turns', turns'[t].work \in AnswerWork
               PROVE  /\ 0 < turns'[t].attempt
                      /\ turns'[t].attempt <= receipts[turns'[t].work].attempt
                      /\ turns'[t].attempt < receipts[turns'[t].work].attempt
                           => turns'[t].status = "stopped"
    BY DEF TurnsAccounted
  <2>1. CASE t \in DOMAIN turns
    BY <1>1, <2>1 DEF ThreadInv, TurnsAccounted
  <2>2. CASE t = Len(turns) + 1
    BY <1>1, <1>2, <2>2 DEF ThreadInv, ReceiptsAgree, Admissible
  <2> QED BY <1>1, <2>1, <2>2
<1>5. ReceiptsAgree'
  BY <1>1 DEF ThreadInv, ReceiptsAgree
<1>6. LateIsPending'
  BY <1>1 DEF ThreadInv, LateIsPending, Untaken
<1> QED BY <1>3, <1>4, <1>5, <1>6 DEF ThreadInv

LEMMA AddingKeepsHolder ==
  ASSUME TypeOK, HolderKnows, Addressed, ReceiptsAgree, NEW u \in Turn,
         turns' = Append(turns, u), late' \subseteq late,
         (pc = "start" /\ req.work \in AnswerWork) => u.work # req.work,
         UNCHANGED <<receipts, pc, req, reply>>
  PROVE  HolderKnows'
<1>1. /\ Len(turns) \in Nat /\ DOMAIN turns = 1..Len(turns)
      /\ DOMAIN turns' = 1..(Len(turns) + 1)
      /\ \A t \in DOMAIN turns : turns'[t] = turns[t]
      /\ turns'[Len(turns) + 1] = u
  BY DEF TypeOK, NativeOK
<1> QED BY <1>1 DEF HolderKnows, Untaken, Addressed, ReceiptsAgree
-----------------------------------------------------------------------------
(* The steps of the lock holder.                                           *)

\* The parts of the invariant beyond the types.
Kept == ThreadInv /\ HolderKnows /\ DeletedIsQuiet /\ AmbiguityIsVisible

LEMMA ReviewKept ==
  ASSUME AmbiguityIsVisible, UNCHANGED receipts,
         req.status \in Undecided => req'.work = req.work /\ req'.status \in Undecided
  PROVE  AmbiguityIsVisible'
  BY DEF AmbiguityIsVisible

\* A step that only moves the holder and the request, of a kept conversation.
LEMMA RequestStep ==
  ASSUME DeliveryInv, UNCHANGED <<turns, late, receipts, life>>, life # "deleted",
         pc' # "archiving", HolderKnows',
         req.status \in Undecided => req'.work = req.work /\ req'.status \in Undecided
  PROVE  Kept'
<1>1. ThreadInv'
  BY NothingAged, AgingKeepsThread DEF DeliveryInv
<1>2. DeletedIsQuiet'
  BY DEF DeliveryInv, DeletedIsQuiet
<1>3. AmbiguityIsVisible'
  BY ReviewKept DEF DeliveryInv
<1> QED BY <1>1, <1>2, <1>3 DEF Kept

DeliverySteps == {"check", "read", "reconcile", "idle", "start", "ack", "record"}

LEMMA DeliveryIsKept == DeliveryInv /\ pc \in DeliverySteps => life # "deleted"
  BY DEF DeliveryInv, DeletedIsQuiet, DeliverySteps

LEMMA SaveStatusRequest ==
  ASSUME TypeOK, NEW s, SaveStatus(s)
  PROVE  req'.status = s /\ req'.work = req.work
  BY DEF SaveStatus, Save, TypeOK, FilesOK, Request

LEMMA CheckStep == DeliveryInv /\ Check => Kept'
<1> SUFFICES ASSUME DeliveryInv, Check PROVE Kept'
  OBVIOUS
<1>1. life # "deleted" /\ pc' \in {"free", "read"} /\ UNCHANGED <<turns, late, receipts, life>>
  BY DeliveryIsKept DEF Check, Unchanged, Settle, Release, Proceed, files, native, DeliverySteps
<1>2. HolderKnows'
  <2>1. CASE pc' = "free"
    BY <2>1, QuietHolder DEF QuietSteps
  <2>2. CASE pc' = "read"
    <3>1. req' = req /\ req.status \in Unsent
      BY <2>2 DEF Check, Unchanged, Settle, Release, files, Finished
    <3> QED BY <2>2, <3>1 DEF HolderKnows
  <2> QED BY <1>1, <2>1, <2>2
<1>3. req.status \in Undecided => req' = req
  BY DEF Check, Finished, Unchanged, files, Unsent, Undecided
<1> QED BY <1>1, <1>2, <1>3, RequestStep

LEMMA ReadStep == DeliveryInv /\ (ReadFails \/ ReadThread) => Kept'
<1> SUFFICES ASSUME DeliveryInv, ReadFails \/ ReadThread PROVE Kept'
  OBVIOUS
<1>1. /\ life # "deleted" /\ pc = "read"
      /\ pc' \in {"free", "reconcile", "start"} /\ UNCHANGED <<turns, late, receipts, life>>
  BY DeliveryIsKept DEF ReadFails, ReadThread, Settle, Release, Proceed, native, DeliverySteps
<1>2. req.status \notin Undecided
  BY <1>1 DEF DeliveryInv, HolderKnows, Unsent, Undecided
<1>3. HolderKnows'
  <2>1. CASE pc' = "free"
    BY <2>1, QuietHolder DEF QuietSteps
  <2>2. CASE pc' \in {"reconcile", "start"}
    <3>1. /\ req'.status = "sending" /\ req'.work = req.work
          /\ pc' = "start" => req.work \notin AnswerWork
      <4>1. SaveStatus("sending") /\ (pc' = "start" => req.work \notin AnswerWork)
        BY <2>2 DEF ReadFails, ReadThread, Settle, Release, Proceed
      <4> QED BY <4>1, SaveStatusRequest DEF DeliveryInv
    <3> QED BY <2>2, <3>1 DEF HolderKnows
  <2> QED BY <1>1, <2>1, <2>2
<1> QED BY <1>1, <1>2, <1>3, RequestStep

\* What the decision on a receipt means for the turn it names.
LEMMA DecideStarts ==
  ASSUME TypeOK, NEW w \in AnswerWork, Decide(receipts[w]) \in {"start", "resume"},
         receipts[w].status = "sent" => receipts[w].turn \in DOMAIN turns
  PROVE  /\ receipts[w].status # "pending"
         /\ receipts[w].status = "sent" => turns[receipts[w].turn].status = "stopped"
<1>1. receipts[w] \in Receipt
  BY DEF TypeOK, FilesOK
<1>2. receipts[w].status # "pending"
  BY DEF Decide
<1>3. ASSUME receipts[w].status = "sent" PROVE turns[receipts[w].turn].status = "stopped"
  <2>1. turns[receipts[w].turn].status \in TurnStatus
    <3>1. turns[receipts[w].turn] \in Turn
      BY <1>3 DEF TypeOK, NativeOK
    <3> QED BY <3>1 DEF Turn
  <2>2. ~(receipts[w].turn < Len(turns))
    BY <1>3 DEF Decide
  <2>3. turns[receipts[w].turn].status # "inProgress"
    BY <1>3, <2>2 DEF Decide
  <2>4. turns[receipts[w].turn].status # "completed"
    BY <1>3, <2>2, <2>3 DEF Decide
  <2> QED BY <2>1, <2>3, <2>4 DEF TurnStatus
<1> QED BY <1>2, <1>3

LEMMA ReconcileStep == DeliveryInv /\ Reconcile => Kept'
<1> SUFFICES ASSUME DeliveryInv, Reconcile PROVE Kept'
  OBVIOUS
<1>1. /\ life # "deleted" /\ pc = "reconcile" /\ req.status = "sending"
      /\ req.work \in AnswerWork
      /\ pc' \in {"free", "idle"} /\ UNCHANGED <<turns, late, receipts, life>>
  BY DeliveryIsKept
     DEF Reconcile, Release, Proceed, native, DeliverySteps, DeliveryInv, HolderKnows, Addressed
<1>2. CASE pc' = "idle"
  <2>1. UNCHANGED req /\ Decide(receipts[req.work]) \in {"start", "resume"}
    BY <1>2 DEF Reconcile, Release, Proceed
  <2>2. HolderKnows'
    <3>1. /\ receipts[req.work].status # "pending"
          /\ receipts[req.work].status = "sent"
               => turns[receipts[req.work].turn].status = "stopped"
      BY <1>1, <2>1, DecideStarts DEF DeliveryInv, ThreadInv, ReceiptsAgree
    <3> QED BY <1>1, <1>2, <2>1, <3>1 DEF HolderKnows
  <2> QED BY <1>1, <2>1, <2>2, RequestStep
<1>3. CASE pc' = "free"
  <2>1. HolderKnows'
    BY <1>3, QuietHolder DEF QuietSteps
  <2>2. CASE req'.work = req.work /\ req'.status \in Undecided
    BY <1>1, <2>1, <2>2, RequestStep
  <2>3. CASE receipts[req.work].status # "pending"
    <3>1. AmbiguityIsVisible'
      BY <1>1, <2>3 DEF DeliveryInv, AmbiguityIsVisible
    <3>2. ThreadInv' /\ DeletedIsQuiet'
      BY <1>1, <1>3, NothingAged, AgingKeepsThread DEF DeliveryInv, DeletedIsQuiet
    <3> QED BY <2>1, <3>1, <3>2 DEF Kept
  <2>4. receipts[req.work].status = "pending" => SaveStatus("needsReview")
    BY <1>3 DEF Reconcile, Decide, Proceed
  <2> QED BY <2>2, <2>3, <2>4, SaveStatusRequest DEF Undecided, DeliveryInv
<1> QED BY <1>1, <1>2, <1>3

LEMMA EnsureIdleStep == DeliveryInv /\ EnsureIdle => Kept'
<1> SUFFICES ASSUME DeliveryInv, EnsureIdle PROVE Kept'
  OBVIOUS
<1> DEFINE w == req.work
<1>1. /\ life # "deleted" /\ pc = "idle" /\ req.status = "sending" /\ w \in AnswerWork
      /\ receipts[w].status # "pending"
      /\ receipts[w].status = "sent" => turns[receipts[w].turn].status = "stopped"
      /\ UNCHANGED <<turns, late, life>>
  BY DeliveryIsKept DEF EnsureIdle, native, DeliverySteps, DeliveryInv, HolderKnows, Addressed
<1>2. CASE SaveStatus("needsReview") /\ Release /\ UNCHANGED receipts
  <2>1. HolderKnows' /\ pc' # "archiving"
    BY <1>2, QuietHolder DEF QuietSteps, Release
  <2>2. req'.work = req.work /\ req'.status \in Undecided
    BY <1>2, SaveStatusRequest DEF Undecided, DeliveryInv
  <2> QED BY <1>1, <1>2, <2>1, <2>2, RequestStep
<1>3. CASE /\ receipts' = [receipts EXCEPT ![req.work] =
                             [status |-> "pending", attempt |-> @.attempt + 1, turn |-> 0]]
           /\ Proceed("start") /\ UNCHANGED <<req, repairs>>
  <2>1. /\ receipts \in [AnswerWork -> Receipt] /\ receipts[w].attempt \in Nat
        /\ receipts'[w] = [status |-> "pending", attempt |-> receipts[w].attempt + 1, turn |-> 0]
        /\ \A v \in AnswerWork : v # w => receipts'[v] = receipts[v]
    BY <1>1, <1>3 DEF DeliveryInv, TypeOK, FilesOK, Receipt
  <2>2. \A t \in DOMAIN turns : turns[t].work = w =>
          /\ turns[t].attempt \in Nat /\ 0 < turns[t].attempt
          /\ turns[t].attempt <= receipts[w].attempt /\ turns[t].status = "stopped"
    <3> SUFFICES ASSUME NEW t \in DOMAIN turns, turns[t].work = w
                 PROVE  /\ turns[t].attempt \in Nat /\ 0 < turns[t].attempt
                        /\ turns[t].attempt <= receipts[w].attempt /\ turns[t].status = "stopped"
      OBVIOUS
    <3>1. /\ 0 < turns[t].attempt /\ turns[t].attempt <= receipts[w].attempt
          /\ turns[t].attempt < receipts[w].attempt => turns[t].status = "stopped"
      BY <1>1 DEF DeliveryInv, ThreadInv, TurnsAccounted
    <3>2. turns[t].attempt \in Nat
      <4>1. turns[t] \in Turn
        BY DEF DeliveryInv, TypeOK, NativeOK
      <4> QED BY <4>1 DEF Turn
    <3>3. CASE turns[t].attempt = receipts[w].attempt
      <4>1. receipts[w].status = "sent"
        <5>1. receipts[w].status # "none"
          BY <1>1, <3>1, <3>3 DEF DeliveryInv, ThreadInv, ReceiptsAgree
        <5>2. receipts[w] \in Receipt
          BY <1>1, <2>1
        <5> QED BY <1>1, <5>1, <5>2 DEF Receipt
      <4>2. receipts[w].turn \in DOMAIN turns /\ turns[receipts[w].turn].work = w
            /\ turns[receipts[w].turn].attempt = receipts[w].attempt
        BY <1>1, <4>1 DEF DeliveryInv, ThreadInv, ReceiptsAgree
      <4>3. t = receipts[w].turn
        <5>1. DOMAIN turns = 1..Len(turns) /\ Len(turns) \in Nat
          BY DEF DeliveryInv, TypeOK, NativeOK
        <5>2. ~(t < receipts[w].turn) /\ ~(receipts[w].turn < t)
          BY <1>1, <2>1, <3>2, <3>3, <4>2 DEF DeliveryInv, ThreadInv, AttemptsInOrder
        <5> QED BY <4>2, <5>1, <5>2
      <4> QED BY <1>1, <3>1, <3>2, <4>1, <4>3
    <3> QED BY <2>1, <3>1, <3>2, <3>3
  <2>3. \A u \in late : u.work # w
    BY <1>1 DEF DeliveryInv, ThreadInv, LateIsPending
  <2>4. AttemptsInOrder' /\ TurnsAccounted'
    <3>1. AttemptsInOrder'
      BY <1>1 DEF DeliveryInv, ThreadInv, AttemptsInOrder
    <3>2. TurnsAccounted'
      BY <1>1, <2>1, <2>2 DEF DeliveryInv, ThreadInv, TurnsAccounted
    <3> QED BY <3>1, <3>2
  <2>5. ReceiptsAgree'
    BY <1>1, <2>1 DEF DeliveryInv, ThreadInv, ReceiptsAgree
  <2>6. LateIsPending'
    BY <1>1, <2>1, <2>3 DEF DeliveryInv, ThreadInv, LateIsPending, Untaken
  <2>7. HolderKnows'
    BY <1>1, <1>3, <2>1, <2>2, <2>3 DEF HolderKnows, Untaken, Proceed
  <2>8. DeletedIsQuiet'
    BY <1>1, <1>3 DEF DeletedIsQuiet, Proceed
  <2>9. AmbiguityIsVisible'
    BY <1>1, <1>3, <2>1 DEF DeliveryInv, AmbiguityIsVisible, Undecided
  <2> QED BY <2>4, <2>5, <2>6, <2>7, <2>8, <2>9 DEF Kept, ThreadInv
<1> QED BY <1>2, <1>3 DEF EnsureIdle

\* What holds of the turn asked for at "start".
LEMMA SentTurn ==
  ASSUME DeliveryInv, pc = "start", NEW u, u = NewTurn(req.work, Announced, req.id)
  PROVE  /\ u \in Turn /\ u.work = req.work /\ u.status = "inProgress"
         /\ req.work \in AnswerWork => u.attempt = receipts[req.work].attempt
         /\ Admissible(u)
<1>1. u \in Turn
  BY NewTurnTypes DEF DeliveryInv
<1>2. u.work = req.work /\ u.attempt = Announced /\ u.status = "inProgress"
  BY DEF NewTurn
<1>3. Admissible(u)
  BY <1>2, DeliveryIsKept DEF Admissible, Announced, DeliveryInv, HolderKnows, DeliverySteps
<1> QED BY <1>1, <1>2, <1>3 DEF Announced

LEMMA StartTurnStep == DeliveryInv /\ StartTurn => Kept'
<1> SUFFICES ASSUME DeliveryInv, StartTurn PROVE Kept'
  OBVIOUS
<1> DEFINE u == NewTurn(req.work, Announced, req.id)
<1>1. /\ life # "deleted" /\ pc = "start" /\ req.status = "sending"
      /\ pc' \in {"free", "ack", "record"}
      /\ turns' = Append(turns, u) /\ UNCHANGED <<late, receipts, life>>
  BY DeliveryIsKept DEF StartTurn, Release, DeliverySteps, DeliveryInv, HolderKnows
<1>2. /\ u \in Turn /\ u.work = req.work /\ Admissible(u)
      /\ req.work \in AnswerWork => u.attempt = receipts[req.work].attempt
  BY <1>1, SentTurn
<1> HIDE DEF u
<1>3. ThreadInv'
  BY <1>1, <1>2, AddingKeepsThread DEF DeliveryInv, HolderKnows
<1>4. /\ req'.work = req.work /\ req'.status \in Undecided
      /\ pc' # "free" => req' = req /\ reply' = Len(turns) + 1
      /\ pc' = "ack" => req.work \in AnswerWork
      /\ pc' = "record" => req.work \notin AnswerWork
  <2>1. CASE SaveStatus("needsReview") /\ Release
    BY <2>1, SaveStatusRequest DEF Undecided, DeliveryInv, Release
  <2>2. CASE /\ pc' = IF req.work \in AnswerWork THEN "ack" ELSE "record"
             /\ reply' = Len(turns) + 1 /\ UNCHANGED req
    BY <1>1, <2>2 DEF Undecided
  <2> QED BY <2>1, <2>2 DEF StartTurn
<1>5. HolderKnows'
  <2>1. CASE pc' = "free"
    BY <2>1, QuietHolder DEF QuietSteps
  <2>2. CASE pc' = "ack"
    <3>1. Len(turns) + 1 \in DOMAIN turns' /\ turns'[Len(turns) + 1] = u
      BY <1>1, <1>2 DEF DeliveryInv, TypeOK, NativeOK
    <3>2. receipts[req.work].status = "pending"
      BY <1>1, <1>4, <2>2 DEF DeliveryInv, HolderKnows
    <3> QED BY <1>1, <1>2, <1>4, <2>2, <3>1, <3>2 DEF HolderKnows
  <2>3. CASE pc' = "record"
    BY <1>1, <1>4, <2>3 DEF HolderKnows
  <2> QED BY <1>1, <2>1, <2>2, <2>3
<1>6. DeletedIsQuiet' /\ AmbiguityIsVisible'
  BY <1>1, <1>4, ReviewKept DEF DeletedIsQuiet, DeliveryInv
<1> QED BY <1>3, <1>5, <1>6 DEF Kept

LEMMA StartFailsStep == DeliveryInv /\ StartFails => Kept'
<1> SUFFICES ASSUME DeliveryInv, StartFails PROVE Kept'
  OBVIOUS
<1> DEFINE u == NewTurn(req.work, Announced, req.id)
<1>1. /\ life # "deleted" /\ pc = "start" /\ pc' = "free"
      /\ UNCHANGED <<turns, receipts, life>>
      /\ late' = late \/ late' = late \cup {u}
  BY DeliveryIsKept DEF StartFails, Release, DeliverySteps
<1>2. /\ u \in Turn /\ u.work = req.work /\ u.status = "inProgress" /\ Admissible(u)
      /\ req.work \in AnswerWork => u.attempt = receipts[req.work].attempt
  BY <1>1, SentTurn
<1> HIDE DEF u
<1>3. LateIsPending'
  <2>1. CASE late' = late
    BY <1>1, <2>1 DEF DeliveryInv, ThreadInv, LateIsPending, Untaken
  <2>2. CASE late' = late \cup {u}
    <3>1. req.work \in AnswerWork =>
            /\ receipts[req.work].status = "pending"
            /\ Untaken(req.work, receipts[req.work].attempt)
            /\ \A v \in late : v.work # req.work
      BY <1>1 DEF DeliveryInv, HolderKnows
    <3> QED BY <1>1, <1>2, <2>2, <3>1 DEF DeliveryInv, ThreadInv, LateIsPending, Untaken
  <2> QED BY <1>1, <2>1, <2>2
<1>4. AttemptsInOrder' /\ TurnsAccounted' /\ ReceiptsAgree'
  BY <1>1 DEF DeliveryInv, ThreadInv, AttemptsInOrder, TurnsAccounted, ReceiptsAgree
<1>5. HolderKnows'
  BY <1>1, QuietHolder DEF QuietSteps
<1>6. AmbiguityIsVisible'
  <2>1. req'.work = req.work /\ req'.status \in Undecided
    BY SaveStatusRequest DEF StartFails, Undecided, DeliveryInv
  <2> QED BY <1>1, <2>1, ReviewKept DEF DeliveryInv
<1>7. DeletedIsQuiet'
  BY <1>1 DEF DeletedIsQuiet
<1> QED BY <1>3, <1>4, <1>5, <1>6, <1>7 DEF Kept, ThreadInv

LEMMA AckReceiptStep == DeliveryInv /\ AckReceipt => Kept'
<1> SUFFICES ASSUME DeliveryInv, AckReceipt PROVE Kept'
  OBVIOUS
<1> DEFINE w == req.work
<1>1. /\ life # "deleted" /\ pc = "ack" /\ pc' = "record" /\ req.status = "sending"
      /\ w \in AnswerWork /\ receipts[w].status = "pending"
      /\ reply \in DOMAIN turns /\ turns[reply].work = w
      /\ turns[reply].attempt = receipts[w].attempt
      /\ UNCHANGED <<turns, late, life, req>>
  BY DeliveryIsKept
     DEF AckReceipt, Proceed, native, DeliverySteps, DeliveryInv, HolderKnows, Addressed
<1>2. /\ receipts'[w] = [status |-> "sent", attempt |-> receipts[w].attempt, turn |-> reply]
      /\ \A v \in AnswerWork : v # w => receipts'[v] = receipts[v]
  BY <1>1 DEF AckReceipt, DeliveryInv, TypeOK, FilesOK
<1>3. \A u \in late : u.work # w
  BY <1>1 DEF DeliveryInv, ThreadInv, LateIsPending, Untaken
<1>4. AttemptsInOrder' /\ TurnsAccounted'
  BY <1>1, <1>2 DEF DeliveryInv, ThreadInv, AttemptsInOrder, TurnsAccounted
<1>5. ReceiptsAgree'
  BY <1>1, <1>2 DEF DeliveryInv, ThreadInv, ReceiptsAgree
<1>6. LateIsPending'
  BY <1>1, <1>2, <1>3 DEF DeliveryInv, ThreadInv, LateIsPending, Untaken
<1>7. HolderKnows' /\ DeletedIsQuiet' /\ AmbiguityIsVisible'
  BY <1>1, <1>2 DEF HolderKnows, DeletedIsQuiet, AmbiguityIsVisible, DeliveryInv
<1> QED BY <1>4, <1>5, <1>6, <1>7 DEF Kept, ThreadInv

LEMMA RecordSentStep == DeliveryInv /\ RecordSent => Kept'
<1> SUFFICES ASSUME DeliveryInv, RecordSent PROVE Kept'
  OBVIOUS
<1>1. /\ life # "deleted" /\ pc = "record" /\ pc' = "free" /\ req.status = "sending"
      /\ req.work \in AnswerWork => receipts[req.work].status = "sent"
      /\ UNCHANGED <<turns, late, life, receipts>>
  BY DeliveryIsKept DEF RecordSent, Release, native, DeliverySteps, DeliveryInv, HolderKnows
<1>2. AmbiguityIsVisible'
  BY <1>1 DEF DeliveryInv, AmbiguityIsVisible
<1>3. ThreadInv' /\ HolderKnows' /\ DeletedIsQuiet'
  BY <1>1, NothingAged, AgingKeepsThread, QuietHolder DEF DeliveryInv, DeletedIsQuiet, QuietSteps
<1> QED BY <1>2, <1>3 DEF Kept

StopSteps == {"interrupt", "await", "closing"}

\* A step of a stop: turns may end, the request and the receipts stay.
LEMMA StoppingStep ==
  ASSUME DeliveryInv, Aged, UNCHANGED <<receipts, life, req>>, pc' \in {"free", "await", "closing"},
         pc' = "free" => stopFor' = "pause", pc' # "free" => UNCHANGED stopFor
  PROVE  Kept'
<1>1. ThreadInv' /\ HolderKnows'
  BY AgingKeepsThread, QuietHolder DEF DeliveryInv, QuietSteps
<1>2. DeletedIsQuiet'
  BY DEF DeliveryInv, DeletedIsQuiet, Aged
<1>3. AmbiguityIsVisible'
  BY ReviewKept DEF DeliveryInv
<1> QED BY <1>1, <1>2, <1>3 DEF Kept

LEMMA StopStep == DeliveryInv /\ (Interrupt \/ AwaitInterrupted \/ StopFails \/ Close \/ Archive) => Kept'
<1> SUFFICES ASSUME DeliveryInv,
                    Interrupt \/ AwaitInterrupted \/ StopFails \/ Close \/ Archive
             PROVE  Kept'
  OBVIOUS
<1>1. CASE Interrupt \/ AwaitInterrupted \/ StopFails
  BY <1>1, NothingAged, StoppingStep
     DEF Interrupt, AwaitInterrupted, StopFails, Unchanged, Proceed, Release, files, native
<1>2. CASE Close
  <2>1. Aged /\ late' = {} /\ UNCHANGED <<receipts, life, req>>
    BY <1>2, KillingAges DEF Close, files, DeliveryInv
  <2>2. CASE stopFor \in {"pause", "exit"}
    BY <1>2, <2>1, <2>2, StoppingStep DEF Close, Release
  <2>3. CASE stopFor \notin {"pause", "exit"}
    <3>1. ThreadInv' /\ HolderKnows'
      BY <1>2, <2>1, <2>3, AgingKeepsThread, QuietHolder DEF DeliveryInv, QuietSteps, Close, Proceed
    <3>2. DeletedIsQuiet' /\ AmbiguityIsVisible'
      BY <1>2, <2>1, <2>3, ReviewKept DEF DeliveryInv, DeletedIsQuiet
    <3> QED BY <3>1, <3>2 DEF Kept
  <2> QED BY <2>2, <2>3
<1>3. CASE Archive
  <2>1. /\ pc = "archiving" /\ pc' = "free" /\ stopFor' = "pause" /\ late = {}
        /\ UNCHANGED <<turns, late>> /\ life # "deleted"
    BY <1>3 DEF Archive, Release, native, DeliveryInv, DeletedIsQuiet
  <2>2. CASE UNCHANGED <<req, receipts>> /\ life' # "deleted"
    <3>1. ThreadInv' /\ HolderKnows'
      BY <2>1, <2>2, NothingAged, AgingKeepsThread, QuietHolder DEF DeliveryInv, QuietSteps
    <3>2. DeletedIsQuiet' /\ AmbiguityIsVisible'
      BY <2>1, <2>2, ReviewKept DEF DeliveryInv, DeletedIsQuiet
    <3> QED BY <3>1, <3>2 DEF Kept
  <2>3. CASE /\ life' = "deleted" /\ req' = NoRequest
             /\ receipts' = [w \in AnswerWork |-> NoReceipt]
    <3>1. ThreadInv'
      BY <2>1, <2>3 DEF DeliveryInv, ThreadInv, AttemptsInOrder, TurnsAccounted, ReceiptsAgree,
                        LateIsPending, NoReceipt
    <3>2. HolderKnows' /\ DeletedIsQuiet' /\ AmbiguityIsVisible'
      BY <2>1, <2>3, QuietHolder
         DEF QuietSteps, DeletedIsQuiet, AmbiguityIsVisible, NoRequest, NoReceipt
    <3> QED BY <3>1, <3>2 DEF Kept
  <2>4. \/ UNCHANGED <<req, receipts>> /\ life' # "deleted"
        \/ /\ life' = "deleted" /\ req' = NoRequest
           /\ receipts' = [w \in AnswerWork |-> NoReceipt]
    BY <1>3, <2>1 DEF Archive, files
  <2> QED BY <2>2, <2>3, <2>4
<1> QED BY <1>1, <1>2, <1>3

LEMMA HoldStep == DeliveryInv /\ Hold => Kept'
  BY CheckStep, ReadStep, ReconcileStep, EnsureIdleStep, StartTurnStep, StartFailsStep,
     AckReceiptStep, RecordSentStep, StopStep DEF Hold
-----------------------------------------------------------------------------
(* The steps of everybody else.                                            *)

\* Turns end, calls are lost, or nothing of the delivery changes.
LEMMA AgingStep ==
  ASSUME DeliveryInv, Aged, UNCHANGED <<receipts, life, req, holder>>
  PROVE  Kept'
<1>1. UNCHANGED <<pc, reply, stopFor>>
  BY DEF holder
<1>2. ThreadInv' /\ HolderKnows'
  BY <1>1, AgingKeepsThread, AgingKeepsHolder DEF DeliveryInv, ThreadInv
<1>3. DeletedIsQuiet' /\ AmbiguityIsVisible'
  BY <1>1, ReviewKept DEF DeliveryInv, DeletedIsQuiet, Aged
<1> QED BY <1>2, <1>3 DEF Kept

\* A step from "free" that stores a request of its own in a kept conversation.
LEMMA IntentStep ==
  ASSUME DeliveryInv, UNCHANGED <<turns, late, receipts, life>>, life # "deleted",
         pc' \in {"free", "check", "interrupt", "closing"},
         req.status \in Undecided => req'.work = req.work /\ req'.status \in Undecided
  PROVE  Kept'
<1>1. HolderKnows' /\ pc' # "archiving"
  BY QuietHolder DEF QuietSteps
<1> QED BY <1>1, RequestStep

\* The request changes as a stop, at most a pause, changes it.
LEMMA StopLockedStep ==
  ASSUME DeliveryInv, NEW why, StopLocked(why), life = "deleted" => why \in {"pause", "exit"}
  PROVE  Kept'
<1>1. /\ UNCHANGED <<turns, late, receipts, life>> /\ pc' \in {"interrupt", "closing"}
      /\ stopFor' = why
  BY DEF StopLocked, native
<1>2. req' = req \/ (req.status # "none" /\ req' = PausedRequest)
  BY DEF StopLocked, Save
<1>3. req.status \in Undecided => req' = req
  BY <1>2 DEF PausedRequest
<1>4. CASE life # "deleted"
  BY <1>1, <1>3, <1>4, IntentStep
<1>5. CASE life = "deleted"
  <2>1. req' = req
    BY <1>2, <1>5 DEF DeliveryInv, DeletedIsQuiet
  <2>2. ThreadInv' /\ HolderKnows'
    BY <1>1, NothingAged, AgingKeepsThread, QuietHolder DEF DeliveryInv, QuietSteps
  <2>3. DeletedIsQuiet' /\ AmbiguityIsVisible'
    BY <1>1, <1>5, <2>1, ReviewKept DEF DeliveryInv, DeletedIsQuiet
  <2> QED BY <2>2, <2>3 DEF Kept
<1> QED BY <1>4, <1>5

LEMMA AnswersAreNoRepairs == \A w \in AnswerWork : \A i, f : w # Repair(i, f)
  BY DEF AnswerWork, Answers, Repair

LEMMA UserStep == DeliveryInv /\ User => Kept'
<1> SUFFICES ASSUME DeliveryInv, User PROVE Kept'
  OBVIOUS
<1>1. ASSUME NEW call \in Calls, Continue(call) PROVE Kept'
  <2>1. UNCHANGED <<turns, late, receipts, life>> /\ life # "deleted"
        /\ pc' \in {"free", "check"}
    BY <1>1 DEF Continue, native, files, holder, Proceed
  <2>2. req.status \in Undecided => req' = req
    BY <1>1 DEF Continue, Refused, files
  <2> QED BY <2>1, <2>2, IntentStep
<1>2. ASSUME NEW i \in Issues, RepairIssue(i) PROVE Kept'
  <2>1. UNCHANGED <<turns, late, receipts, life>> /\ life # "deleted" /\ pc' = "check"
    BY <1>2 DEF RepairIssue, native, files, Proceed
  <2>2. CASE UNCHANGED req
    BY <2>1, <2>2, IntentStep
  <2>3. CASE req.status \in Pending => req.work = Repair(i, print[i])
    <3>1. \A w \in AnswerWork : w # Repair(i, print[i])
      BY AnswersAreNoRepairs
    <3> QED
      <4>1. AmbiguityIsVisible'
        BY <2>1, <2>3, <3>1 DEF DeliveryInv, AmbiguityIsVisible, Pending
      <4>2. ThreadInv' /\ HolderKnows' /\ DeletedIsQuiet'
        BY <2>1, NothingAged, AgingKeepsThread, QuietHolder
           DEF DeliveryInv, DeletedIsQuiet, QuietSteps
      <4> QED BY <4>1, <4>2 DEF Kept
  <2>4. UNCHANGED req \/ (req.status \in Pending => req.work = Repair(i, print[i]))
    BY <1>2 DEF RepairIssue, files
  <2> QED BY <2>2, <2>3, <2>4
<1>3. CASE Flush
  <2>1. UNCHANGED <<turns, late, receipts, life, req>> /\ life # "deleted" /\ pc' = "check"
    BY <1>3 DEF Flush, Unchanged, native, files, Proceed
  <2> QED BY <2>1, IntentStep
<1>4. CASE TaskControl \/ StopCall \/ BeginShutdown \/ Detach
  BY <1>4, NothingAged, AgingStep DEF TaskControl, StopCall, BeginShutdown, Detach, native, files
<1>5. ASSUME NEW why \in {"archive", "delete"}, RetireBegin(why) PROVE Kept'
  BY <1>5, StopLockedStep DEF RetireBegin
<1>6. CASE Restore
  <2>1. Aged /\ UNCHANGED <<receipts, req, holder>> /\ life # "deleted" /\ pc = "free"
    BY <1>6, NothingAged DEF Restore, native
  <2>2. ThreadInv' /\ HolderKnows'
    BY <2>1, AgingKeepsThread, QuietHolder DEF DeliveryInv, holder, QuietSteps
  <2>3. DeletedIsQuiet' /\ AmbiguityIsVisible'
    BY <1>6, <2>1, ReviewKept DEF DeliveryInv, DeletedIsQuiet, Restore, holder
  <2> QED BY <2>2, <2>3 DEF Kept
<1>7. CASE Open
  <2>1. Aged
    BY <1>7, KillingAges DEF Open, DeliveryInv
  <2> QED BY <1>7, <2>1, AgingStep DEF Open, files
<1>8. CASE ManualTurn
  <2> DEFINE u == NewTurn(Manual, 0, 0)
  <2>1. /\ u \in Turn /\ u.work = Manual /\ turns' = Append(turns, u)
        /\ UNCHANGED <<late, receipts, life, req, holder>>
    BY <1>8, WorkIsTyped DEF ManualTurn, NewTurn, Turn, TurnStatus, DeliveryInv, TypeOK,
                             HistoryOK, files
  <2>2. Manual \notin AnswerWork
    BY WorkIsTyped
  <2> HIDE DEF u
  <2>3. ThreadInv'
    BY <2>1, <2>2, AddingKeepsThread DEF DeliveryInv, Admissible
  <2>4. HolderKnows'
    BY <2>1, <2>2, AddingKeepsHolder DEF DeliveryInv, ThreadInv, holder
  <2>5. DeletedIsQuiet' /\ AmbiguityIsVisible'
    BY <2>1, ReviewKept DEF DeliveryInv, DeletedIsQuiet, holder
  <2> QED BY <2>3, <2>4, <2>5 DEF Kept
<1> QED BY <1>1, <1>2, <1>3, <1>4, <1>5, <1>6, <1>7, <1>8 DEF User

LEMMA EnvironmentStep ==
  DeliveryInv /\ (Deliver \/ StopBegin \/ Exit \/ LateStart \/ EndTurn \/ ExecutorDies \/ BridgeLost \/ Restart)
    => Kept'
<1> SUFFICES ASSUME DeliveryInv PROVE
      (Deliver \/ StopBegin \/ Exit \/ LateStart \/ EndTurn \/ ExecutorDies \/ BridgeLost \/ Restart)
        => Kept'
  OBVIOUS
<1>1. ASSUME NEW e \in events, QueueEvent(e) PROVE Kept'
  <2>1. CASE UNCHANGED <<req, holder>>
    BY <1>1, <2>1, NothingAged, AgingStep DEF QueueEvent
  <2>2. CASE ~UNCHANGED <<req, holder>>
    <3>1. /\ req.status = "queued" /\ pc' \in {"free", "check"}
          /\ UNCHANGED <<turns, late, receipts, life>>
      BY <1>1, <2>2 DEF QueueEvent, Proceed, holder
    <3>2. life # "deleted" /\ req.status \notin Undecided
      BY <3>1 DEF DeliveryInv, DeletedIsQuiet, Undecided
    <3> QED BY <3>1, <3>2, IntentStep
  <2> QED BY <2>1, <2>2
<1>2. CASE StopBegin
  BY <1>2, StopLockedStep DEF StopBegin
<1>3. CASE LateStart
  <2>1. PICK u \in late : turns' = Append(turns, u) /\ late' = late \ {u}
    BY <1>3 DEF LateStart
  <2>2. /\ u \in Turn /\ UNCHANGED <<receipts, life, req, holder>>
    BY <1>3 DEF LateStart, files, DeliveryInv, TypeOK, NativeOK
  <2>3. Admissible(u)
    BY DEF Admissible, DeliveryInv, ThreadInv, LateIsPending, DeletedIsQuiet
  <2>4. \A v \in late' : v.work \in AnswerWork => v.work # u.work
    BY <2>1 DEF DeliveryInv, ThreadInv, LateIsPending
  <2>5. ThreadInv'
    BY <2>1, <2>2, <2>3, <2>4, AddingKeepsThread DEF DeliveryInv
  <2>6. HolderKnows'
    BY <2>1, <2>2, AddingKeepsHolder DEF DeliveryInv, ThreadInv, holder, HolderKnows
  <2>7. DeletedIsQuiet' /\ AmbiguityIsVisible'
    BY <2>1, <2>2, ReviewKept DEF DeliveryInv, DeletedIsQuiet, holder
  <2> QED BY <2>5, <2>6, <2>7 DEF Kept
<1>4. CASE EndTurn
  BY <1>4, EndingAges, AgingStep DEF EndTurn, files, DeliveryInv
<1>5. CASE ExecutorDies
  BY <1>5, KillingAges, AgingStep DEF ExecutorDies, files, DeliveryInv
<1>6. CASE BridgeLost
  BY <1>6, NothingAged, AgingStep DEF BridgeLost, files
<1>7. CASE Restart
  BY <1>7, KillingAges, StoppingStep DEF Restart, Release, files, DeliveryInv
<1>8. CASE StopAll
  BY <1>8, NothingAged, AgingStep DEF StopAll, native, files
<1>9. CASE ExitStopBegin
  BY <1>9, StopLockedStep DEF ExitStopBegin
<1>10. CASE Drain
  BY <1>10, KillingAges, AgingStep DEF Drain, files, DeliveryInv
<1> QED BY <1>1, <1>2, <1>3, <1>4, <1>5, <1>6, <1>7, <1>8, <1>9, <1>10 DEF Deliver, Exit

LEMMA DeliveryInvStep == DeliveryInv /\ [Next]_vars => DeliveryInv'
<1> SUFFICES ASSUME DeliveryInv, [Next]_vars PROVE DeliveryInv'
  OBVIOUS
<1>1. TypeOK' /\ Addressed'
  BY TypeStep DEF DeliveryInv
<1>2. CASE Record \/ UNCHANGED vars
  <2>1. UNCHANGED <<turns, late, receipts, life, req, holder>>
    BY <1>2, RecordFrame DEF vars, files, native
  <2> QED BY <1>1, <2>1, NothingAged, AgingStep DEF DeliveryInv, Kept
<1> QED BY <1>1, <1>2, HoldStep, UserStep, EnvironmentStep DEF Next, DeliveryInv, Kept

LEMMA InitDeliveryInv == Init => DeliveryInv
<1> SUFFICES ASSUME Init PROVE DeliveryInv
  OBVIOUS
<1>1. DOMAIN turns = {}
  BY DEF Init
<1>2. ThreadInv
  BY <1>1 DEF Init, ThreadInv, AttemptsInOrder, TurnsAccounted, ReceiptsAgree, LateIsPending,
              NoReceipt
<1>3. Addressed /\ HolderKnows /\ DeletedIsQuiet /\ AmbiguityIsVisible
  BY DEF Init, Addressed, HolderKnows, DeletedIsQuiet, AmbiguityIsVisible, NoReceipt
<1> QED BY <1>2, <1>3, InitTypeOK DEF DeliveryInv

\* dispatch_locked, continue_questions and their receipts, pauses, restarts and
\* deletion keep receipts, requests and turns accounted for, attempt by attempt.
THEOREM DeliveryInvariant == Spec => []DeliveryInv
  BY InitDeliveryInv, DeliveryInvStep, PTL DEF Spec

\* continue_questions and its receipts: submitted answers are given to the
\* model again only after every earlier turn that took them was cut short.
THEOREM AnswersAreNotReplayed == Spec => []AnswersNotReplayed
<1>1. DeliveryInv => AnswersNotReplayed
  BY DEF DeliveryInv, ThreadInv, AttemptsInOrder, AnswersNotReplayed
<1> QED BY <1>1, DeliveryInvariant, PTL

\* request_continuation, repair_issue and pause_queued_locked never bury an
\* attempt whose outcome is unknown: it stays the current request.
THEOREM AmbiguityStaysVisible == Spec => []AmbiguityIsVisible
<1>1. DeliveryInv => AmbiguityIsVisible
  BY DEF DeliveryInv
<1> QED BY <1>1, DeliveryInvariant, PTL
=============================================================================
