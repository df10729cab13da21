--------------------- MODULE ContinuationQueueRefinement --------------------
(***************************************************************************)
(* ContinuationQueue implements AnswerDelivery: the initial states map to  *)
(* its initial state, and every step maps to one of its steps or to none.  *)
(***************************************************************************)
EXTENDS ContinuationQueueDelivery

\* The phase of an answer shows the status of the turn of its last attempt.
PhaseFacts ==
  \A w \in AnswerWork :
    /\ receipts[w].status = "none" => PhaseOf(w) = "never"
    /\ receipts[w].status # "none" =>
         /\ (\A t \in DOMAIN turns : ~Carries(t, w)) => PhaseOf(w) = "announced"
         /\ \A t \in DOMAIN turns : Carries(t, w) =>
              PhaseOf(w) = IF turns[t].status = "inProgress" THEN "running" ELSE turns[t].status

LEMMA PhaseIsDetermined == DeliveryInv => PhaseFacts
<1> SUFFICES ASSUME DeliveryInv, NEW w \in AnswerWork, receipts[w].status # "none",
                    NEW t \in DOMAIN turns, Carries(t, w)
             PROVE  PhaseOf(w) = IF turns[t].status = "inProgress" THEN "running"
                                                                   ELSE turns[t].status
  BY DEF PhaseFacts, PhaseOf
<1>1. DOMAIN turns = 1..Len(turns) /\ \A s \in DOMAIN turns : turns[s] \in Turn
  BY DEF DeliveryInv, TypeOK, NativeOK
<1>2. \A s \in DOMAIN turns : Carries(s, w) => s = t
  BY <1>1 DEF Carries, DeliveryInv, ThreadInv, AttemptsInOrder, Turn
<1>3. (CHOOSE u \in DOMAIN turns : Carries(u, w)) = t
  BY <1>2
<1> QED BY <1>3 DEF PhaseOf

LEMMA PhaseIsDeterminedNext == DeliveryInv' => PhaseFacts'
  BY PhaseIsDetermined, PTL

\* Receipts and turns as the abstract specification sees them do not change.
LEMMA SamePhases ==
  ASSUME UNCHANGED turns, life = "deleted" <=> life' = "deleted",
         \A w \in AnswerWork : /\ receipts'[w].status = "none" <=> receipts[w].status = "none"
                               /\ receipts'[w].attempt = receipts[w].attempt
  PROVE  UNCHANGED Delivery!vars
<1>1. \A w \in AnswerWork : PhaseOf(w)' = PhaseOf(w)
  BY DEF PhaseOf, Carries
<1> QED BY <1>1 DEF Delivery!vars

\* The phase of one answer does not change when the turns that carry its
\* attempt do not.
LEMMA SamePhaseOf ==
  ASSUME PhaseFacts, PhaseFacts', NEW v \in AnswerWork,
         receipts'[v].status = "none" <=> receipts[v].status = "none",
         \A t \in DOMAIN turns : Carries(t, v) =>
           t \in DOMAIN turns' /\ Carries(t, v)' /\ turns'[t].status = turns[t].status,
         \A t \in DOMAIN turns' : Carries(t, v)' => t \in DOMAIN turns /\ Carries(t, v)
  PROVE  PhaseOf(v)' = PhaseOf(v)
  BY DEF PhaseFacts

\* One answer moves, the others stay: a step of the abstract specification.
LEMMA AbstractMove ==
  ASSUME NEW w \in AnswerWork, NEW from, PhaseOf(w) \in from,
         \A v \in AnswerWork : v # w => PhaseOf(v)' = PhaseOf(v),
         life # "deleted" <=> life' # "deleted"
  PROVE  Delivery!Move(w, from, PhaseOf(w)')
  BY DEF Delivery!Move

\* A turn is added for the announced attempt of an answer, or for other work.
LEMMA TakingMaps ==
  ASSUME DeliveryInv, PhaseFacts, PhaseFacts', NEW u \in Turn, Admissible(u),
         u.work \in AnswerWork => u.status = "inProgress", turns' = Append(turns, u), UNCHANGED <<receipts, life>>
  PROVE  [Delivery!Next]_(Delivery!vars)
<1>1. /\ Len(turns) \in Nat /\ DOMAIN turns = 1..Len(turns)
      /\ DOMAIN turns' = 1..(Len(turns) + 1)
      /\ \A t \in DOMAIN turns : turns'[t] = turns[t]
      /\ turns'[Len(turns) + 1] = u
  BY DEF DeliveryInv, TypeOK, NativeOK
<1>2. ASSUME NEW v \in AnswerWork, v # u.work PROVE PhaseOf(v)' = PhaseOf(v)
  BY <1>1, <1>2, SamePhaseOf DEF Carries
<1>3. CASE u.work \notin AnswerWork
  <2>1. \A v \in AnswerWork : PhaseOf(v)' = PhaseOf(v)
    BY <1>2, <1>3
  <2> QED BY <2>1 DEF Delivery!vars
<1>4. CASE u.work \in AnswerWork
  <2>1. PhaseOf(u.work) = "announced"
    BY <1>4 DEF Admissible, Untaken, PhaseFacts, Carries
  <2>2. PhaseOf(u.work)' = "running"
    BY <1>1, <1>4 DEF Admissible, PhaseFacts, Carries
  <2>3. Delivery!Move(u.work, {"announced"}, PhaseOf(u.work)')
    BY <1>2, <1>4, <2>1, AbstractMove
  <2>4. Delivery!Take(u.work)
    BY <1>4, <2>2, <2>3 DEF Delivery!Take, Admissible
  <2> QED BY <1>4, <2>4 DEF Delivery!Next
<1> QED BY <1>3, <1>4

\* Every turn that runs dies, or the turns stay as they are.
LEMMA KillingMaps ==
  ASSUME DeliveryInv, PhaseFacts, PhaseFacts', turns' = turns \/ turns' = Killed,
         UNCHANGED receipts, life # "deleted" <=> life' # "deleted"
  PROVE  [Delivery!Next]_(Delivery!vars)
<1>1. CASE turns' = turns
  BY <1>1, SamePhases
<1>2. CASE turns' = Killed
  <2>1. /\ DOMAIN turns' = DOMAIN turns
        /\ \A t \in DOMAIN turns :
             /\ turns'[t].work = turns[t].work /\ turns'[t].attempt = turns[t].attempt
             /\ turns'[t].status = IF turns[t].status = "inProgress" THEN "stopped"
                                                                    ELSE turns[t].status
    <3>1. \A t \in DOMAIN turns : turns[t] \in Turn
      BY DEF DeliveryInv, TypeOK, NativeOK
    <3>2. \A u \in Turn : LET v == [u EXCEPT !.status = "stopped"]
                         IN v.work = u.work /\ v.attempt = u.attempt /\ v.status = "stopped"
      BY DEF Turn
    <3> QED BY <1>2, <3>1, <3>2 DEF Killed
  <2>2. \A t \in DOMAIN turns : turns[t].status # "running"
    <3>1. \A t \in DOMAIN turns : turns[t] \in Turn
      BY DEF DeliveryInv, TypeOK, NativeOK
    <3> QED BY <3>1 DEF Turn, TurnStatus
  <2>3. \A v \in AnswerWork :
          PhaseOf(v)' = IF PhaseOf(v) = "running" THEN "stopped" ELSE PhaseOf(v)
    <3> SUFFICES ASSUME NEW v \in AnswerWork
                 PROVE  PhaseOf(v)' = IF PhaseOf(v) = "running" THEN "stopped" ELSE PhaseOf(v)
      OBVIOUS
    <3>1. \A t \in DOMAIN turns : Carries(t, v)' <=> Carries(t, v)
      BY <2>1 DEF Carries
    <3>2. CASE receipts[v].status = "none"
      BY <3>2 DEF PhaseFacts
    <3>3. CASE receipts[v].status # "none" /\ \A t \in DOMAIN turns : ~Carries(t, v)
      <4>1. PhaseOf(v) = "announced"
        BY <3>3 DEF PhaseFacts
      <4>2. PhaseOf(v)' = "announced"
        BY <2>1, <3>1, <3>3 DEF PhaseFacts
      <4> QED BY <4>1, <4>2
    <3>4. ASSUME receipts[v].status # "none", NEW t \in DOMAIN turns, Carries(t, v)
          PROVE  PhaseOf(v)' = IF PhaseOf(v) = "running" THEN "stopped" ELSE PhaseOf(v)
      <4>1. PhaseOf(v) = IF turns[t].status = "inProgress" THEN "running" ELSE turns[t].status
        BY <3>4 DEF PhaseFacts
      <4>2. PhaseOf(v)' = IF turns'[t].status = "inProgress" THEN "running"
                                                             ELSE turns'[t].status
        BY <2>1, <3>1, <3>4 DEF PhaseFacts
      <4> QED BY <2>1, <2>2, <3>4, <4>1, <4>2
    <3> QED BY <3>2, <3>3, <3>4
  <2>4. Delivery!Crash
    BY <2>3 DEF Delivery!Crash
  <2> QED BY <2>4 DEF Delivery!Next
<1> QED BY <1>1, <1>2

LEMMA EndingMaps ==
  ASSUME DeliveryInv, PhaseFacts, PhaseFacts', EndTurn
  PROVE  [Delivery!Next]_(Delivery!vars)
<1>1. PICK s \in {"completed", "stopped"} : turns' = [turns EXCEPT ![Running].status = s]
  BY DEF EndTurn
<1>0. PICK r : r = Running
  OBVIOUS
<1>2. r \in DOMAIN turns /\ turns[r].status = "inProgress" /\ UNCHANGED <<receipts, life>>
  BY <1>0 DEF EndTurn, Busy, Running, files
<1>3. /\ DOMAIN turns' = DOMAIN turns
      /\ \A t \in DOMAIN turns : turns'[t].work = turns[t].work
                               /\ turns'[t].attempt = turns[t].attempt
                               /\ (t # r => turns'[t].status = turns[t].status)
      /\ turns'[r].status = s
  <2>1. turns[r] \in Turn
    BY <1>2 DEF DeliveryInv, TypeOK, NativeOK
  <2>2. LET v == [turns[r] EXCEPT !.status = s]
        IN v.work = turns[r].work /\ v.attempt = turns[r].attempt /\ v.status = s
    BY <2>1 DEF Turn
  <2> QED BY <1>0, <1>1, <1>2, <2>2
<1>4. ASSUME NEW v \in AnswerWork, ~Carries(r, v) PROVE PhaseOf(v)' = PhaseOf(v)
  <2>1. \A t \in DOMAIN turns : Carries(t, v)' <=> Carries(t, v)
    BY <1>2, <1>3 DEF Carries
  <2>2. \A t \in DOMAIN turns : Carries(t, v) => turns'[t].status = turns[t].status
    BY <1>3, <1>4
  <2> QED BY <1>2, <1>3, <2>1, <2>2, SamePhaseOf
<1>5. CASE \E w \in AnswerWork : Carries(r, w) /\ receipts[w].status # "none"
  <2>1. PICK w \in AnswerWork : Carries(r, w) /\ receipts[w].status # "none"
    BY <1>5
  <2>2. \A v \in AnswerWork : v # w => PhaseOf(v)' = PhaseOf(v)
    BY <1>4, <2>1 DEF Carries
  <2>3. PhaseOf(w) = "running" /\ PhaseOf(w)' = s
    <3>1. PhaseOf(w) = "running"
      BY <1>2, <2>1 DEF PhaseFacts
    <3>2. Carries(r, w)' /\ r \in DOMAIN turns' /\ receipts'[w].status # "none"
      BY <1>2, <1>3, <2>1 DEF Carries
    <3>3. PhaseOf(w)' = IF turns'[r].status = "inProgress" THEN "running" ELSE turns'[r].status
      BY <3>2 DEF PhaseFacts
    <3> QED BY <1>3, <3>1, <3>3
  <2>4. Delivery!Move(w, {"running"}, PhaseOf(w)')
    BY <1>2, <2>2, <2>3, AbstractMove
  <2>5. Delivery!End(w)
    BY <2>3, <2>4 DEF Delivery!End
  <2> QED BY <2>5 DEF Delivery!Next
<1>6. CASE ~\E w \in AnswerWork : Carries(r, w) /\ receipts[w].status # "none"
  <2>1. \A v \in AnswerWork : PhaseOf(v)' = PhaseOf(v)
    BY <1>2, <1>4, <1>6 DEF PhaseFacts
  <2> QED BY <1>2, <2>1 DEF Delivery!vars
<1> QED BY <1>5, <1>6

LEMMA AnnouncingMaps ==
  ASSUME DeliveryInv, PhaseFacts, PhaseFacts', DeliveryInv', EnsureIdle
  PROVE  [Delivery!Next]_(Delivery!vars)
<1>0. PICK w : w = req.work
  OBVIOUS
<1>1. /\ life # "deleted" /\ pc = "idle" /\ w \in AnswerWork
      /\ receipts[w].status # "pending"
      /\ receipts[w].status = "sent" => turns[receipts[w].turn].status = "stopped"
      /\ UNCHANGED <<turns, life>>
  BY <1>0, DeliveryIsKept
     DEF EnsureIdle, native, DeliverySteps, DeliveryInv, HolderKnows, Addressed
<1>2. CASE UNCHANGED receipts
  BY <1>1, <1>2, SamePhases
<1>3. CASE /\ receipts' = [receipts EXCEPT ![req.work] =
                             [status |-> "pending", attempt |-> @.attempt + 1, turn |-> 0]]
           /\ Proceed("start") /\ UNCHANGED <<req, repairs>>
  <2>1. /\ receipts[w] \in Receipt
        /\ receipts'[w].status = "pending"
        /\ \A v \in AnswerWork : v # w => receipts'[v] = receipts[v]
    BY <1>0, <1>1, <1>3 DEF DeliveryInv, TypeOK, FilesOK
  <2>2. PhaseOf(w) \in {"never", "stopped"}
    <3>1. CASE receipts[w].status = "none"
      BY <1>1, <3>1 DEF PhaseFacts
    <3>2. CASE receipts[w].status = "sent"
      <4>1. receipts[w].turn \in DOMAIN turns /\ Carries(receipts[w].turn, w)
        BY <1>1, <3>2 DEF DeliveryInv, ThreadInv, ReceiptsAgree, Carries
      <4> QED BY <1>1, <3>2, <4>1 DEF PhaseFacts
    <3> QED BY <1>1, <2>1, <3>1, <3>2 DEF Receipt
  <2>3. PhaseOf(w)' = "announced"
    <3>1. \A t \in DOMAIN turns' : ~Carries(t, w)'
      <4>1. pc' = "start" /\ req' = req
        BY <1>3 DEF Proceed
      <4>2. Untaken(w, receipts[w].attempt)'
        BY <1>0, <1>1, <4>1 DEF DeliveryInv, HolderKnows
      <4> QED BY <4>1, <4>2 DEF Untaken, Carries
    <3> QED BY <1>1, <2>1, <3>1 DEF PhaseFacts
  <2>4. \A v \in AnswerWork : v # w => PhaseOf(v)' = PhaseOf(v)
    <3> SUFFICES ASSUME NEW v \in AnswerWork, v # w PROVE PhaseOf(v)' = PhaseOf(v)
      OBVIOUS
    <3>1. UNCHANGED turns /\ receipts'[v] = receipts[v]
      BY <1>1, <2>1
    <3>2. \A t : Carries(t, v)' <=> Carries(t, v)
      BY <3>1 DEF Carries
    <3> QED BY <3>1, <3>2, SamePhaseOf
  <2>5. Delivery!Move(w, {"never", "stopped"}, PhaseOf(w)')
    BY <1>1, <2>2, <2>4, AbstractMove
  <2>6. Delivery!Announce(w)
    BY <1>1, <2>3, <2>5 DEF Delivery!Announce
  <2> QED BY <1>1, <2>6 DEF Delivery!Next
<1> QED BY <1>2, <1>3 DEF EnsureIdle

LEMMA ArchivingMaps ==
  ASSUME DeliveryInv, PhaseFacts', Archive
  PROVE  [Delivery!Next]_(Delivery!vars)
<1>1. life # "deleted" /\ UNCHANGED turns
  BY DEF Archive, DeliveryInv, DeletedIsQuiet, native
<1>2. CASE UNCHANGED receipts /\ life' # "deleted"
  BY <1>1, <1>2, SamePhases
<1>3. CASE life' = "deleted" /\ receipts' = [v \in AnswerWork |-> NoReceipt]
  <2>1. \A v \in AnswerWork : PhaseOf(v)' = "never"
    <3>1. \A v \in AnswerWork : receipts'[v].status = "none"
      BY <1>3 DEF NoReceipt
    <3> QED BY <3>1 DEF PhaseFacts
  <2>2. Delivery!Forget
    BY <1>3, <2>1 DEF Delivery!Forget
  <2> QED BY <2>2 DEF Delivery!Next
<1> QED BY <1>1, <1>2, <1>3 DEF Archive, files

LEMMA HoldMaps ==
  ASSUME DeliveryInv, PhaseFacts, PhaseFacts', DeliveryInv', Hold
  PROVE  [Delivery!Next]_(Delivery!vars)
<1>1. CASE Check \/ ReadFails \/ ReadThread \/ Reconcile \/ StartFails \/ RecordSent
  <2>1. UNCHANGED <<turns, receipts, life>>
    BY <1>1 DEF Check, ReadFails, ReadThread, Reconcile, StartFails, RecordSent, Settle,
                Unchanged, native, files
  <2> QED BY <2>1, SamePhases
<1>2. CASE EnsureIdle
  BY <1>2, AnnouncingMaps
<1>3. CASE StartTurn
  <2>1. /\ pc = "start" /\ turns' = Append(turns, NewTurn(req.work, Announced, req.id))
        /\ UNCHANGED <<receipts, life>>
    BY <1>3 DEF StartTurn
  <2> QED BY <2>1, SentTurn, TakingMaps
<1>4. CASE AckReceipt
  <2>1. \A w \in AnswerWork : /\ receipts'[w].status = "none" <=> receipts[w].status = "none"
                             /\ receipts'[w].attempt = receipts[w].attempt
    BY <1>4 DEF AckReceipt, DeliveryInv, TypeOK, FilesOK, HolderKnows
  <2>2. UNCHANGED <<turns, life>>
    BY <1>4 DEF AckReceipt, native
  <2> QED BY <2>1, <2>2, SamePhases
<1>5. CASE Interrupt \/ AwaitInterrupted \/ StopFails
  <2>1. UNCHANGED <<turns, receipts, life>>
    BY <1>5 DEF Interrupt, AwaitInterrupted, StopFails, Unchanged, native, files
  <2> QED BY <2>1, SamePhases
<1>6. CASE Close
  BY <1>6, KillingMaps DEF Close, files
<1>7. CASE Archive
  BY <1>7, ArchivingMaps
<1> QED BY <1>1, <1>2, <1>3, <1>4, <1>5, <1>6, <1>7 DEF Hold

LEMMA UserMaps ==
  ASSUME DeliveryInv, PhaseFacts, PhaseFacts', User
  PROVE  [Delivery!Next]_(Delivery!vars)
<1>1. CASE ManualTurn
  <2> DEFINE u == NewTurn(Manual, 0, 0)
  <2>1. /\ u \in Turn /\ u.status = "inProgress" /\ turns' = Append(turns, u)
        /\ UNCHANGED <<receipts, life>> /\ u.work = Manual
    BY <1>1, WorkIsTyped DEF ManualTurn, NewTurn, Turn, TurnStatus, DeliveryInv, TypeOK,
                             HistoryOK, files
  <2>2. Admissible(u)
    BY <2>1, WorkIsTyped DEF Admissible
  <2> HIDE DEF u
  <2> QED BY <2>1, <2>2, TakingMaps
<1>2. CASE ~ManualTurn
  <2>1. UNCHANGED <<turns, receipts>>
    BY <1>2 DEF User, Continue, RepairIssue, Flush, TaskControl, StopCall, BeginShutdown,
                RetireBegin, StopLocked, Restore, Open, Detach, Unchanged, native, files
  <2>2. life = "deleted" <=> life' = "deleted"
    BY <1>2 DEF User, Continue, RepairIssue, Flush, TaskControl, StopCall, BeginShutdown,
                RetireBegin, StopLocked, Restore, Open, Detach, Unchanged, native, files
  <2> QED BY <2>1, <2>2, SamePhases
<1> QED BY <1>1, <1>2

LEMMA EnvironmentMaps ==
  ASSUME DeliveryInv, PhaseFacts, PhaseFacts',
         Deliver \/ StopBegin \/ Exit \/ LateStart \/ EndTurn \/ ExecutorDies \/ BridgeLost \/ Restart
  PROVE  [Delivery!Next]_(Delivery!vars)
<1>1. CASE Deliver \/ StopBegin \/ BridgeLost
  <2>1. UNCHANGED <<turns, receipts, life>>
    BY <1>1 DEF Deliver, QueueEvent, StopBegin, StopLocked, BridgeLost, native, files
  <2> QED BY <2>1, SamePhases
<1>2. CASE LateStart
  <2>1. PICK u \in late : turns' = Append(turns, u)
    BY <1>2 DEF LateStart
  <2>2. u \in Turn /\ UNCHANGED <<receipts, life>>
    BY <1>2 DEF LateStart, files, DeliveryInv, TypeOK, NativeOK
  <2>3. Admissible(u)
    BY DEF Admissible, DeliveryInv, ThreadInv, LateIsPending, DeletedIsQuiet
  <2>4. u.work \in AnswerWork => u.status = "inProgress"
    BY DEF DeliveryInv, ThreadInv, LateIsPending
  <2> QED BY <2>1, <2>2, <2>3, <2>4, TakingMaps
<1>3. CASE EndTurn
  BY <1>3, EndingMaps
<1>4. CASE ExecutorDies \/ Restart \/ Drain
  BY <1>4, KillingMaps DEF ExecutorDies, Restart, Drain, files
<1>5. CASE StopAll \/ ExitStopBegin
  <2>1. UNCHANGED <<turns, receipts, life>>
    BY <1>5 DEF StopAll, ExitStopBegin, StopLocked, native, files
  <2> QED BY <2>1, SamePhases
<1> QED BY <1>1, <1>2, <1>3, <1>4, <1>5 DEF Exit

LEMMA StepMaps ==
  ASSUME DeliveryInv, DeliveryInv', PhaseFacts, PhaseFacts', [Next]_vars
  PROVE  [Delivery!Next]_(Delivery!vars)
<1>1. CASE Record \/ UNCHANGED vars
  <2>1. UNCHANGED <<turns, receipts, life>>
    BY <1>1, RecordFrame DEF vars, files, native
  <2> QED BY <2>1, SamePhases
<1> QED BY <1>1, HoldMaps, UserMaps, EnvironmentMaps DEF Next

LEMMA InitMaps == Init => Delivery!Init
<1> SUFFICES ASSUME Init PROVE Delivery!Init
  OBVIOUS
<1>1. PhaseFacts
  BY InitDeliveryInv, PhaseIsDetermined
<1>2. \A w \in AnswerWork : receipts[w].status = "none"
  BY DEF Init, NoReceipt
<1>3. \A w \in AnswerWork : PhaseOf(w) = "never"
  BY <1>1, <1>2 DEF PhaseFacts
<1> QED BY <1>3 DEF Init, Delivery!Init

\* The refinement: request_continuation, dispatch_locked, continue_questions,
\* pauses, crashes and lost replies together hand out answers as AnswerDelivery
\* allows, attempt by attempt.
THEOREM QueueImplementsDelivery == Spec => ImplementsDelivery
<1>1. DeliveryInv /\ DeliveryInv' /\ [Next]_vars => [Delivery!Next]_(Delivery!vars)
  BY PhaseIsDetermined, PhaseIsDeterminedNext, StepMaps
<1> QED BY <1>1, InitMaps, DeliveryInvariant, PTL DEF Spec, ImplementsDelivery, Delivery!Spec
=============================================================================
