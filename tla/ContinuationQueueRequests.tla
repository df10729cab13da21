---------------------- MODULE ContinuationQueueRequests ---------------------
(***************************************************************************)
(* Requests start one turn each, in order, and only while the user wants   *)
(* execution: proofs about ContinuationQueue for all values of its         *)
(* constants.  They rest on the invariant of ContinuationQueueDelivery.    *)
(***************************************************************************)
EXTENDS ContinuationQueueDelivery

(* The inductive invariant, one part for each matter.                      *)

\* The holder is on its way to a turn/start that has not been sent.
Starting == pc \in {"reconcile", "idle", "start"}

\* A turn may still be started for the saved request, by a dispatch, by its
\* holder, or by the executor that has not got to a timed out turn/start.
Startable == req.status \in Unsent \/ Starting \/ late # {}

\* The one timed out turn/start belongs to the saved request, which is under
\* review and in nobody's hands.
LateIsReviewed ==
  /\ \A u \in late : req.status \in Undecided /\ u.id = req.id /\ u.work = req.work
  /\ \A u, v \in late : u = v
  /\ Sending => late = {}

\* Identifiers are fresh, and no turn carries that of a startable request.
TurnsAreDistinct ==
  /\ req.id < nextId /\ \A t \in DOMAIN turns : turns[t].id < nextId
  /\ OneTurnPerRequest
  /\ Startable => \A t \in DOMAIN turns : turns[t].work # Manual => turns[t].id # req.id

\* No turn takes a later revision of the same answers than w.
NoneNewer(w) ==
  /\ w.n <= answered[w.about]
  /\ \A t \in DOMAIN turns :
       turns[t].work \in AnswerWork /\ turns[t].work.about = w.about => turns[t].work.n <= w.n

\* No turn takes answers that were not submitted, and the answers about to be
\* sent are the newest that any turn took.
AnswersFollow ==
  /\ AnswersInOrder
  /\ \A t \in DOMAIN turns :
       turns[t].work \in AnswerWork => turns[t].work.n <= answered[turns[t].work.about]
  /\ (pc \in {"idle", "start"} \/ late # {}) /\ req.work \in AnswerWork => NoneNewer(req.work)

\* The copy of a repair request says what the request says.
RepairsAgree == req.work \in RepairWork => repairs[req.work].status = req.status

\* Every turn of repair w was started before pause p.
SentBefore(w, p) == \A t \in DOMAIN turns : turns[t].work = w => turns[t].pauses < p

\* A repair sent since the last pause is recorded as delivered, and the one
\* about to be sent was not.
RepairsFollow ==
  /\ RepairOncePerPause
  /\ \A t \in DOMAIN turns : turns[t].pauses <= pauses
  /\ life # "deleted" => \A w \in RepairWork : repairs[w].status \notin Delivered => SentBefore(w, pauses)
  /\ pc = "start" /\ req.work \in RepairWork => SentBefore(req.work, pauses)
  /\ \A u \in late : u.pauses <= pauses /\ (u.work \in RepairWork => SentBefore(u.work, u.pauses))

\* Without the user's wish, or once the APP exits, nothing can be dispatched,
\* and after a stop nothing of the service runs or will run.
WishIsKept ==
  /\ req.owner <= epoch
  /\ wish = "run" \/ cancelled \/ Exiting \/ req.owner # epoch \/ req.status \notin Unsent
  /\ pc = "read" \/ Sending => wish = "run"
  /\ pc \in {"interrupt", "await", "closing"} => wish # "run"
  /\ wish = "paused" => late = {}
  /\ PauseIsQuiet

\* The turns that closing the executor may cut off.
MayBeCut(t) == turns[t].work = Manual \/ (req.status \in Undecided /\ req.id = turns[t].id)

ClosingIsAwaited ==
  pc = "closing" /\ Alive =>
    \A t \in DOMAIN turns : turns[t].status = "inProgress" => MayBeCut(t)

\* Past the stop of the exit nothing is on its way to a turn of the service,
\* and if that stop did not fail or the rest was drained, none runs or will run:
\* an executor that lives then was opened afterwards.
ExitIsAwaited ==
  /\ exit \notin {"no", "begun", "waiting"} /\ Alive => pc # "read" /\ ~Sending
  /\ exit \in {"closed", "drained"} /\ Alive =>
       late = {} /\ \A t \in DOMAIN turns : turns[t].status = "inProgress" => turns[t].work = Manual

\* The parts about what is sent; the others are about when.
SendInv == LateIsReviewed /\ TurnsAreDistinct /\ AnswersFollow /\ RepairsAgree /\ RepairsFollow

RequestInv == DeliveryInv /\ SendInv /\ WishIsKept /\ ClosingIsAwaited /\ ExitIsAwaited
-----------------------------------------------------------------------------
(* What may happen to the turns and to the request.                        *)

\* Turns end, and calls in flight are lost; nothing is added.
Faded ==
  /\ DOMAIN turns' = DOMAIN turns
  /\ \A t \in DOMAIN turns :
       /\ turns'[t].work = turns[t].work /\ turns'[t].id = turns[t].id
       /\ turns'[t].pauses = turns[t].pauses
       /\ turns'[t].status = "inProgress" => turns[t].status = "inProgress"
  /\ late' \subseteq late

LEMMA TurnTypes ==
  ASSUME TypeOK
  PROVE  /\ Len(turns) \in Nat /\ DOMAIN turns = 1..Len(turns)
         /\ \A t \in DOMAIN turns : turns[t] \in Turn
         /\ \A u \in late : u \in Turn
         /\ pauses \in Nat /\ nextId \in Nat /\ epoch \in Nat
         /\ req.id \in Nat /\ req.owner \in Nat /\ req.status \in Status /\ req.work \in Work
         /\ \A u \in Turn : u.id \in Nat /\ u.pauses \in Nat /\ u.work \in Work
<1>1. turns \in Seq(Turn) /\ late \subseteq Turn
  BY DEF TypeOK, NativeOK
<1>2. req \in Request /\ pauses \in Nat /\ nextId \in Nat /\ epoch \in Nat
  BY DEF TypeOK, FilesOK, HistoryOK
<1>3. \A u \in Turn : u.id \in Nat /\ u.pauses \in Nat /\ u.work \in Work
  BY DEF Turn
<1>4. req.id \in Nat /\ req.owner \in Nat /\ req.status \in Status /\ req.work \in Work
  BY <1>2 DEF Request
<1> QED BY <1>1, <1>2, <1>3, <1>4

LEMMA SameFades == UNCHANGED <<turns, late>> => Faded
  BY DEF Faded

LEMMA KillingFades ==
  ASSUME TypeOK, turns' = turns \/ turns' = Killed, late' \subseteq late
  PROVE  Faded /\ (turns' = Killed => \A t \in DOMAIN turns' : turns'[t].status # "inProgress")
<1>1. \A u \in Turn : LET v == [u EXCEPT !.status = "stopped"]
                     IN v.work = u.work /\ v.id = u.id /\ v.pauses = u.pauses /\ v.status = "stopped"
  BY DEF Turn
<1>2. \A t \in DOMAIN turns : turns[t] \in Turn
  BY TurnTypes
<1>3. CASE turns' = Killed
  <2>1. /\ DOMAIN turns' = DOMAIN turns
        /\ \A t \in DOMAIN turns :
             turns'[t] = IF turns[t].status = "inProgress" THEN [turns[t] EXCEPT !.status = "stopped"]
                                                           ELSE turns[t]
    BY <1>3 DEF Killed
  <2> QED BY <1>1, <1>2, <2>1 DEF Faded
<1>4. CASE turns' # Killed
  BY <1>4 DEF Faded
<1> QED BY <1>3, <1>4

LEMMA EndingFades == TypeOK /\ EndTurn => Faded
<1> SUFFICES ASSUME TypeOK, EndTurn PROVE Faded
  OBVIOUS
<1>1. PICK s \in {"completed", "stopped"} : turns' = [turns EXCEPT ![Running].status = s]
  BY DEF EndTurn
<1>2. Running \in DOMAIN turns /\ turns[Running] \in Turn
  BY TurnTypes DEF EndTurn, Busy, Running
<1>3. LET v == [turns[Running] EXCEPT !.status = s]
      IN v.work = turns[Running].work /\ v.id = turns[Running].id
         /\ v.pauses = turns[Running].pauses /\ v.status = s
  BY <1>2 DEF Turn
<1> QED BY <1>1, <1>2, <1>3 DEF Faded, EndTurn

LEMMA KindsDiffer ==
  /\ AnswerWork \cap RepairWork = {}
  /\ Manual \notin AnswerWork /\ Manual \notin RepairWork
  /\ \A w \in AnswerWork : w.kind = "answers" /\ w.about \in Groups /\ w.n \in Nat
  /\ \A w \in RepairWork : w.kind = "repair"
<1> USE BoundsAreNatural DEF Manual, Answers, Repair
<1>1. \A w \in AnswerWork : w.kind = "answers" /\ w.about \in Groups /\ w.n \in Nat
  BY DEF AnswerWork
<1>2. \A w \in RepairWork : w.kind = "repair"
  BY DEF RepairWork
<1> QED BY <1>1, <1>2

\* The request becomes r, and with it at most the copy of its repair.
Saved(r) ==
  /\ req' = r
  /\ r.work \in RepairWork => repairs'[r.work].status = r.status
  /\ \A w \in RepairWork : w # r.work => repairs'[w] = repairs[w]

LEMMA SaveIsSaved == ASSUME TypeOK, NEW r, Save(r) PROVE Saved(r)
<1>1. repairs \in [RepairWork -> [status : Status, owner : Nat]]
  BY DEF TypeOK, FilesOK
<1> QED BY <1>1 DEF Save, Saved

LEMMA SaveStatusIsSaved ==
  ASSUME TypeOK, NEW s, SaveStatus(s)
  PROVE  Saved([req EXCEPT !.status = s])
  BY SaveIsSaved DEF SaveStatus

LEMMA StatusChanged ==
  ASSUME TypeOK, NEW s
  PROVE  LET r == [req EXCEPT !.status = s]
         IN r.status = s /\ r.id = req.id /\ r.work = req.work /\ r.owner = req.owner
  BY DEF TypeOK, FilesOK, Request

LEMMA KeptIsSaved == RepairsAgree /\ UNCHANGED <<req, repairs>> => Saved(req)
  BY DEF RepairsAgree, Saved

\* The request stays, the turns fade.
LEMMA FadingKeeps ==
  ASSUME TypeOK, TypeOK', SendInv, Faded, UNCHANGED <<req, repairs, nextId, pauses>>,
         life' # "deleted" => life # "deleted",
         \A g \in Groups : answered'[g] >= answered[g],
         pc' = pc \/ pc' \notin {"reconcile", "idle", "start", "ack", "record"}
  PROVE  SendInv'
<1>1. LateIsReviewed'
  BY DEF SendInv, LateIsReviewed, Faded, Sending
<1>2. TurnsAreDistinct'
  BY DEF SendInv, TurnsAreDistinct, OneTurnPerRequest, Faded, Startable, Starting
<1>3. AnswersFollow'
  <2>1. \A w \in AnswerWork : NoneNewer(w) => NoneNewer(w)'
    <3>1. \A g \in Groups : answered[g] \in Nat /\ answered'[g] \in Nat
      BY BoundsAreNatural DEF TypeOK, RecordOK
    <3> QED BY <3>1, KindsDiffer DEF NoneNewer, Faded
  <2>2. \A t \in DOMAIN turns' :
          turns'[t].work \in AnswerWork => turns'[t].work.n <= answered'[turns'[t].work.about]
    <3>1. \A g \in Groups : answered[g] \in Nat /\ answered'[g] \in Nat
      BY BoundsAreNatural DEF TypeOK, RecordOK
    <3> QED BY <3>1, KindsDiffer DEF SendInv, AnswersFollow, Faded
  <2>3. AnswersInOrder'
    BY DEF SendInv, AnswersFollow, AnswersInOrder, Faded
  <2> QED BY <2>1, <2>2, <2>3 DEF SendInv, AnswersFollow, Faded
<1>4. RepairsAgree'
  BY DEF SendInv, RepairsAgree
<1>5. RepairsFollow'
  BY DEF SendInv, RepairsFollow, RepairOncePerPause, SentBefore, Faded
<1> QED BY <1>1, <1>2, <1>3, <1>4, <1>5 DEF SendInv

\* A request is saved, the same or a new one; the turns stay.
LEMMA SavingKeeps ==
  ASSUME TypeOK, TypeOK', SendInv, UNCHANGED <<turns, late, answered, life>>, NEW r, Saved(r),
         late # {} => r = req,
         \/ r.id = req.id /\ nextId' = nextId /\ (r.status \in Unsent \/ Starting' => Startable)
         \/ r.id = nextId /\ nextId' = nextId + 1,
         Sending' => late = {},
         pauses' >= pauses,
         pc' \in {"idle", "start"} /\ r.work \in AnswerWork => NoneNewer(r.work),
         r.work \in RepairWork /\ r.status \notin Delivered =>
           repairs[r.work].status \notin Delivered \/ pauses' > pauses,
         pc' = "start" /\ r.work \in RepairWork => SentBefore(r.work, pauses')
  PROVE  SendInv'
<1>1. /\ req' = r
      /\ r.work \in RepairWork => repairs'[r.work].status = r.status
      /\ \A w \in RepairWork : w # r.work => repairs'[w] = repairs[w]
  BY DEF Saved
<1>2. LateIsReviewed'
  BY <1>1 DEF SendInv, LateIsReviewed
<1>3. TurnsAreDistinct'
  <2>1. \A t \in DOMAIN turns : turns[t].id \in Nat
    BY TurnTypes
  <2>2. CASE r.id = req.id /\ nextId' = nextId /\ (r.status \in Unsent \/ Starting' => Startable)
    BY <1>1, <2>2 DEF SendInv, TurnsAreDistinct, OneTurnPerRequest, Startable
  <2>3. CASE r.id = nextId /\ nextId' = nextId + 1
    BY <1>1, <2>1, <2>3, TurnTypes DEF SendInv, TurnsAreDistinct, OneTurnPerRequest, Startable
  <2> QED BY <2>2, <2>3
<1>4. AnswersFollow'
  BY <1>1 DEF SendInv, AnswersFollow, AnswersInOrder, NoneNewer
<1>5. RepairsAgree'
  BY <1>1 DEF RepairsAgree
<1>6. RepairsFollow'
  <2>1. pauses \in Nat /\ pauses' \in Nat /\ \A t \in DOMAIN turns : turns[t].pauses \in Nat
    BY TurnTypes DEF TypeOK, HistoryOK
  <2>2. \A u \in late : u.pauses \in Nat
    BY TurnTypes
  <2>3. \A w : SentBefore(w, pauses) => SentBefore(w, pauses')
    BY <2>1 DEF SentBefore
  <2>4. pauses' > pauses => \A w : SentBefore(w, pauses')
    BY <2>1 DEF SentBefore, SendInv, RepairsFollow
  <2>5. ASSUME life # "deleted", NEW w \in RepairWork, repairs'[w].status \notin Delivered
        PROVE  SentBefore(w, pauses')
    <3>1. repairs[w].status \notin Delivered \/ pauses' > pauses
      BY <1>1, <2>5
    <3> QED BY <2>3, <2>4, <2>5, <3>1 DEF SendInv, RepairsFollow
  <2>6. RepairOncePerPause' /\ \A t \in DOMAIN turns' : turns'[t].pauses <= pauses'
    BY <2>1 DEF SendInv, RepairsFollow, RepairOncePerPause
  <2>7. pc' = "start" /\ req'.work \in RepairWork => SentBefore(req'.work, pauses')
    BY <1>1
  <2>8. \A u \in late : u.pauses <= pauses' /\ (u.work \in RepairWork => SentBefore(u.work, u.pauses))
    BY <2>1, <2>2 DEF SendInv, RepairsFollow
  <2>9. \A w, p : SentBefore(w, p) => \A t \in DOMAIN turns' : turns'[t].work = w => turns'[t].pauses < p
    BY DEF SentBefore
  <2> QED BY <2>5, <2>6, <2>7, <2>8, <2>9 DEF RepairsFollow, SentBefore
<1> QED BY <1>2, <1>3, <1>4, <1>5, <1>6 DEF SendInv

\* The user types a turn of his own.
LEMMA TypingKeeps ==
  ASSUME TypeOK, SendInv, ManualTurn
  PROVE  SendInv'
<1> DEFINE n == Len(turns) + 1
<1>1. /\ DOMAIN turns' = DOMAIN turns \cup {n} /\ n \notin DOMAIN turns
      /\ \A t \in DOMAIN turns : turns'[t] = turns[t]
      /\ turns'[n].work = Manual /\ turns'[n].id = 0 /\ turns'[n].pauses = pauses
  BY TurnTypes DEF ManualTurn, NewTurn
<1>2. UNCHANGED <<late, pc, req, repairs, life, answered, pauses, nextId>>
  BY DEF ManualTurn, files, prodVars, holder, history
<1> HIDE DEF n
<1>3. LateIsReviewed' /\ RepairsAgree'
  BY <1>2 DEF SendInv, LateIsReviewed, RepairsAgree, Sending
<1>4. TurnsAreDistinct'
  BY <1>1, <1>2, TurnTypes DEF SendInv, TurnsAreDistinct, OneTurnPerRequest, Startable, Starting
<1>5. AnswersFollow'
  BY <1>1, <1>2, KindsDiffer DEF SendInv, AnswersFollow, AnswersInOrder, NoneNewer
<1>6. RepairsFollow'
  <2>1. \A w \in RepairWork : \A p : SentBefore(w, p) => SentBefore(w, p)'
    BY <1>1, KindsDiffer DEF SentBefore
  <2>2. RepairOncePerPause'
    BY <1>1, KindsDiffer DEF SendInv, RepairsFollow, RepairOncePerPause
  <2>3. \A t \in DOMAIN turns' : turns'[t].pauses <= pauses'
    BY <1>1, <1>2, TurnTypes DEF SendInv, RepairsFollow
  <2> QED BY <1>2, <2>1, <2>2, <2>3 DEF SendInv, RepairsFollow
<1> QED BY <1>3, <1>4, <1>5, <1>6 DEF SendInv

\* The turn of the saved request is started; from then on it is not startable.
LEMMA StartingKeeps ==
  ASSUME TypeOK, SendInv, Startable, NEW u \in Turn, turns' = Append(turns, u),
         u.id = req.id, u.work = req.work, u.pauses <= pauses,
         late' = {}, UNCHANGED <<answered, pauses, nextId, life>>,
         NEW r, Saved(r), r.id = req.id, r.work = req.work,
         r.status \notin Unsent, r.status \in Delivered, ~Starting',
         req.work \in AnswerWork => NoneNewer(req.work),
         req.work \in RepairWork => SentBefore(req.work, u.pauses)
  PROVE  SendInv'
<1> DEFINE n == Len(turns) + 1
<1>1. /\ DOMAIN turns' = DOMAIN turns \cup {n} /\ n \notin DOMAIN turns /\ n \in Nat
      /\ \A t \in DOMAIN turns : turns'[t] = turns[t] /\ t < n /\ t \in Nat
      /\ turns'[n] = u
  BY TurnTypes
<1> HIDE DEF n
<1>0. RepairsAgree' /\ req' = r /\ \A w \in RepairWork : w # req.work => repairs'[w] = repairs[w]
  BY DEF Saved, RepairsAgree
<1>2. LateIsReviewed'
  BY DEF LateIsReviewed
<1>3. TurnsAreDistinct'
  BY <1>0, <1>1 DEF SendInv, TurnsAreDistinct, OneTurnPerRequest, Startable, Starting
<1>4. AnswersFollow'
  <2>1. AnswersInOrder'
    BY <1>1 DEF SendInv, AnswersFollow, AnswersInOrder, NoneNewer
  <2>2. \A t \in DOMAIN turns' :
          turns'[t].work \in AnswerWork => turns'[t].work.n <= answered'[turns'[t].work.about]
    BY <1>1 DEF SendInv, AnswersFollow, NoneNewer
  <2> QED BY <2>1, <2>2 DEF AnswersFollow, Starting
<1>5. RepairsFollow'
  <2>1. /\ pauses \in Nat /\ u.pauses \in Nat
        /\ \A t \in DOMAIN turns : turns[t].pauses \in Nat
    BY TurnTypes
  <2>2. RepairOncePerPause'
    BY <1>1 DEF SendInv, RepairsFollow, RepairOncePerPause, SentBefore
  <2>3. \A t \in DOMAIN turns' : turns'[t].pauses <= pauses'
    BY <1>1 DEF SendInv, RepairsFollow
  <2>4. ASSUME life # "deleted", NEW w \in RepairWork, repairs'[w].status \notin Delivered
        PROVE  SentBefore(w, pauses)'
    <3>1. w # req.work
      BY <1>0, <2>4 DEF RepairsAgree
    <3> QED BY <1>0, <1>1, <2>4, <3>1 DEF SendInv, RepairsFollow, SentBefore
  <2> QED BY <2>2, <2>3, <2>4 DEF RepairsFollow, Starting
<1> QED BY <1>0, <1>2, <1>3, <1>4, <1>5 DEF SendInv
-----------------------------------------------------------------------------
(* What is sent: the steps of the lock holder.                             *)

LEMMA NoLateUnsent ==
  ASSUME SendInv, req.status \notin Undecided \/ Sending
  PROVE  late = {}
  BY DEF SendInv, LateIsReviewed

LEMMA StatusesDiffer ==
  /\ Unsent \cap Undecided = {} /\ Unsent \cap Delivered = {} /\ Undecided \subseteq Delivered
  /\ \A s \in {"paused", "none"} : s \notin Unsent \cup Undecided \cup Delivered
  /\ "sending" \in Undecided /\ "needsReview" \in Undecided /\ "sent" \in Delivered \ Unsent
  BY DEF Unsent, Undecided, Delivered

\* An unsent request gets another status, or is on its way.
LEMMA UnsentKeeps ==
  ASSUME DeliveryInv, TypeOK', SendInv, req.status \in Unsent, life # "deleted",
         UNCHANGED <<turns, late, answered, life, pauses, nextId>>,
         NEW r, Saved(r), r.id = req.id, r.work = req.work,
         pc' # "idle", pc' = "start" => req.work \notin AnswerWork
  PROVE  SendInv'
<1>1. late = {} /\ Startable
  BY NoLateUnsent, StatusesDiffer DEF Startable
<1>2. req.work \in RepairWork => repairs[req.work].status \notin Delivered
  BY StatusesDiffer DEF SendInv, RepairsAgree
<1>3. pauses' >= pauses
  BY TurnTypes DEF DeliveryInv
<1>4. req.work \in RepairWork => SentBefore(req.work, pauses)
  BY <1>2 DEF SendInv, RepairsFollow
<1> QED BY <1>1, <1>2, <1>3, <1>4, SavingKeeps DEF DeliveryInv

LEMMA CheckSends == DeliveryInv /\ TypeOK' /\ SendInv /\ Check => SendInv'
<1> SUFFICES ASSUME DeliveryInv, TypeOK', SendInv, Check PROVE SendInv'
  OBVIOUS
<1>1. pc' \in {"free", "read"} /\ life # "deleted"
      /\ UNCHANGED <<turns, late, answered, life, pauses, nextId>>
  BY DeliveryIsKept
     DEF Check, Unchanged, Settle, Release, Proceed, files, prodVars, native, history, DeliverySteps
<1>2. CASE UNCHANGED <<req, repairs>>
  BY <1>1, <1>2, SameFades, FadingKeeps DEF DeliveryInv, TypeOK, RecordOK
<1>3. CASE req.status \in Unsent /\ SaveStatus(CheckStatus)
  BY <1>1, <1>3, SaveStatusIsSaved, StatusChanged, UnsentKeeps DEF DeliveryInv
<1> QED BY <1>2, <1>3 DEF Check, Unchanged, Settle, files, Finished

LEMMA ReadSends == DeliveryInv /\ TypeOK' /\ SendInv /\ (ReadFails \/ ReadThread) => SendInv'
<1> SUFFICES ASSUME DeliveryInv, TypeOK', SendInv, ReadFails \/ ReadThread PROVE SendInv'
  OBVIOUS
<1>1. /\ pc = "read" /\ life # "deleted" /\ pc' \in {"free", "reconcile", "start"}
      /\ pc' = "start" => req.work \notin AnswerWork
      /\ UNCHANGED <<turns, late, answered, life, pauses, nextId>>
  BY DeliveryIsKept
     DEF ReadFails, ReadThread, Settle, Release, Proceed, prodVars, native, history, DeliverySteps
<1>2. req.status \in Unsent
  BY <1>1 DEF DeliveryInv, HolderKnows
<1>3. \E r : Saved(r) /\ r.id = req.id /\ r.work = req.work
  <2>1. ASSUME NEW s, SaveStatus(s) PROVE \E r : Saved(r) /\ r.id = req.id /\ r.work = req.work
    BY <2>1, SaveStatusIsSaved, StatusChanged DEF DeliveryInv
  <2>2. ASSUME NEW s, NEW n, Save([req EXCEPT !.status = s, !.turn = n])
        PROVE  \E r : Saved(r) /\ r.id = req.id /\ r.work = req.work
    <3>1. LET r == [req EXCEPT !.status = s, !.turn = n] IN r.id = req.id /\ r.work = req.work
      BY DEF DeliveryInv, TypeOK, FilesOK, Request
    <3> QED BY <2>2, <3>1, SaveIsSaved DEF DeliveryInv
  <2>3. ASSUME NEW s, NEW n, Save([req EXCEPT !.status = s, !.after = n])
        PROVE  \E r : Saved(r) /\ r.id = req.id /\ r.work = req.work
    <3>1. LET r == [req EXCEPT !.status = s, !.after = n] IN r.id = req.id /\ r.work = req.work
      BY DEF DeliveryInv, TypeOK, FilesOK, Request
    <3> QED BY <2>3, <3>1, SaveIsSaved DEF DeliveryInv
  <2> QED BY <2>1, <2>2, <2>3 DEF ReadFails, ReadThread, Settle
<1> QED BY <1>1, <1>2, <1>3, UnsentKeeps

LEMMA ReconcileSends == DeliveryInv /\ TypeOK' /\ SendInv /\ Reconcile => SendInv'
<1> SUFFICES ASSUME DeliveryInv, TypeOK', SendInv, Reconcile PROVE SendInv'
  OBVIOUS
<1>1. /\ pc = "reconcile" /\ pc' \in {"free", "idle"} /\ req.work \in AnswerWork
      /\ UNCHANGED <<turns, late, answered, life, pauses, nextId>>
  BY DEF Reconcile, Release, Proceed, prodVars, native, history, DeliveryInv, Addressed
<1>2. late = {} /\ Startable /\ req.work \notin RepairWork /\ pauses' >= pauses
  BY <1>1, NoLateUnsent, KindsDiffer, TurnTypes DEF Sending, Startable, Starting, DeliveryInv
<1>3. CASE pc' = "idle"
  <2>1. UNCHANGED <<req, repairs>> /\ AnswersCurrent(req.work)
    BY <1>3 DEF Reconcile, Release, Proceed
  <2>2. NoneNewer(req.work)
    BY <1>1, <2>1, KindsDiffer DEF NoneNewer, AnswersCurrent, SendInv, AnswersFollow
  <2>3. Saved(req)
    BY <2>1, KeptIsSaved DEF SendInv
  <2> QED BY <1>1, <1>2, <1>3, <2>2, <2>3, SavingKeeps DEF DeliveryInv
<1>4. CASE pc' = "free"
  <2>1. \E r : Saved(r) /\ r.id = req.id /\ r.work = req.work
    <3>1. ASSUME NEW s, SaveStatus(s) PROVE \E r : Saved(r) /\ r.id = req.id /\ r.work = req.work
      BY <3>1, SaveStatusIsSaved, StatusChanged DEF DeliveryInv
    <3>2. ASSUME NEW s, NEW n, Save([req EXCEPT !.status = s, !.turn = n])
          PROVE  \E r : Saved(r) /\ r.id = req.id /\ r.work = req.work
      <4>1. LET r == [req EXCEPT !.status = s, !.turn = n] IN r.id = req.id /\ r.work = req.work
        BY DEF DeliveryInv, TypeOK, FilesOK, Request
      <4> QED BY <3>2, <4>1, SaveIsSaved DEF DeliveryInv
    <3> QED BY <1>4, <3>1, <3>2 DEF Reconcile, Proceed
  <2> QED BY <1>1, <1>2, <1>4, <2>1, SavingKeeps DEF DeliveryInv, Sending
<1> QED BY <1>1, <1>3, <1>4

LEMMA EnsureIdleSends == DeliveryInv /\ TypeOK' /\ SendInv /\ EnsureIdle => SendInv'
<1> SUFFICES ASSUME DeliveryInv, TypeOK', SendInv, EnsureIdle PROVE SendInv'
  OBVIOUS
<1>1. /\ pc = "idle" /\ req.work \in AnswerWork
      /\ UNCHANGED <<turns, late, answered, life, pauses, nextId>>
  BY DEF EnsureIdle, prodVars, native, history, DeliveryInv, Addressed
<1>2. /\ late = {} /\ Startable /\ req.work \notin RepairWork /\ pauses' >= pauses
      /\ NoneNewer(req.work)
  BY <1>1, NoLateUnsent, KindsDiffer, TurnTypes
     DEF Sending, Startable, Starting, DeliveryInv, SendInv, AnswersFollow
<1>3. \E r : Saved(r) /\ r.id = req.id /\ r.work = req.work
  <2>1. CASE SaveStatus("needsReview")
    BY <2>1, SaveStatusIsSaved, StatusChanged DEF DeliveryInv
  <2>2. CASE UNCHANGED <<req, repairs>>
    BY <2>2, KeptIsSaved DEF SendInv
  <2> QED BY <2>1, <2>2 DEF EnsureIdle
<1> QED BY <1>1, <1>2, <1>3, SavingKeeps DEF DeliveryInv

\* The turn that StartTurn adds, or that StartFails leaves to the executor.
LEMMA OwnTurn ==
  ASSUME DeliveryInv, SendInv, pc = "start"
  PROVE  LET u == NewTurn(req.work, Announced, req.id) IN
         /\ u \in Turn /\ u.id = req.id /\ u.work = req.work /\ u.pauses = pauses
         /\ late = {} /\ Startable /\ req.status = "sending"
         /\ req.work \in AnswerWork => NoneNewer(req.work)
         /\ req.work \in RepairWork => SentBefore(req.work, pauses)
  BY NewTurnTypes, NoLateUnsent
     DEF NewTurn, DeliveryInv, HolderKnows, Sending, Startable, Starting, SendInv, AnswersFollow,
         RepairsFollow

LEMMA StartTurnSends == DeliveryInv /\ SendInv /\ StartTurn => SendInv'
<1> SUFFICES ASSUME DeliveryInv, SendInv, StartTurn PROVE SendInv'
  OBVIOUS
<1> DEFINE u == NewTurn(req.work, Announced, req.id)
<1>1. /\ u \in Turn /\ u.id = req.id /\ u.work = req.work /\ u.pauses = pauses /\ u.pauses <= pauses
      /\ late = {} /\ Startable /\ req.status = "sending" /\ turns' = Append(turns, u)
      /\ req.work \in AnswerWork => NoneNewer(req.work)
      /\ req.work \in RepairWork => SentBefore(req.work, u.pauses)
      /\ late' = {} /\ UNCHANGED <<answered, pauses, nextId, life>>
      /\ pc' \in {"ack", "record", "free"}
  BY OwnTurn, TurnTypes DEF StartTurn, Release, prodVars, history, DeliveryInv
<1> HIDE DEF u
<1>2. \E r : /\ Saved(r) /\ r.id = req.id /\ r.work = req.work
             /\ r.status \notin Unsent /\ r.status \in Delivered
  <2>1. CASE SaveStatus("needsReview")
    <3> DEFINE r == [req EXCEPT !.status = "needsReview"]
    <3>1. Saved(r) /\ r.id = req.id /\ r.work = req.work /\ r.status = "needsReview"
      BY <2>1, SaveStatusIsSaved, StatusChanged DEF DeliveryInv
    <3> HIDE DEF r
    <3> QED BY <3>1, StatusesDiffer
  <2>2. CASE UNCHANGED <<req, repairs>>
    BY <1>1, <2>2, KeptIsSaved, StatusesDiffer DEF SendInv
  <2> QED BY <2>1, <2>2 DEF StartTurn
<1> QED BY <1>1, <1>2, StartingKeeps DEF DeliveryInv, Starting

LEMMA StartFailsSends == DeliveryInv /\ TypeOK' /\ SendInv /\ StartFails => SendInv'
<1> SUFFICES ASSUME DeliveryInv, TypeOK', SendInv, StartFails PROVE SendInv'
  OBVIOUS
<1> DEFINE u == NewTurn(req.work, Announced, req.id)
           r == [req EXCEPT !.status = "needsReview"]
<1>1. /\ u.id = req.id /\ u.work = req.work /\ u.pauses = pauses
      /\ late = {} /\ Startable /\ pc' = "free" /\ pauses \in Nat
      /\ req.work \in AnswerWork => NoneNewer(req.work)
      /\ req.work \in RepairWork => SentBefore(req.work, pauses)
      /\ late' = {} \/ late' = {u}
      /\ UNCHANGED <<turns, answered, life, pauses, nextId>>
  BY OwnTurn, TurnTypes DEF StartFails, Release, prodVars, history, DeliveryInv
<1>2. Saved(r) /\ r.status = "needsReview" /\ r.id = req.id /\ r.work = req.work
  BY SaveStatusIsSaved, StatusChanged DEF StartFails, DeliveryInv
<1> HIDE DEF u, r
<1>3. CASE late' = {}
  BY <1>1, <1>2, <1>3, StatusesDiffer, SavingKeeps DEF DeliveryInv, Sending
<1>4. CASE late' = {u}
  <2>1. LateIsReviewed'
    BY <1>1, <1>2, <1>4, StatusesDiffer DEF LateIsReviewed, Saved, Sending
  <2>2. TurnsAreDistinct'
    BY <1>1, <1>2 DEF SendInv, TurnsAreDistinct, OneTurnPerRequest, Saved
  <2>3. AnswersFollow'
    BY <1>1, <1>2 DEF SendInv, AnswersFollow, AnswersInOrder, NoneNewer, Saved
  <2>4. RepairsAgree'
    BY <1>2 DEF Saved, RepairsAgree
  <2>5. RepairsFollow'
    <3>1. ASSUME NEW w \in RepairWork, repairs'[w].status \notin Delivered
          PROVE  repairs[w].status \notin Delivered
      BY <1>2, <3>1, StatusesDiffer DEF Saved
    <3> QED BY <1>1, <1>4, <3>1 DEF SendInv, RepairsFollow, RepairOncePerPause, SentBefore
  <2> QED BY <2>1, <2>2, <2>3, <2>4, <2>5 DEF SendInv
<1> QED BY <1>1, <1>3, <1>4

LEMMA RecordingSends ==
  DeliveryInv /\ TypeOK' /\ SendInv /\ (AckReceipt \/ RecordSent) => SendInv'
<1> SUFFICES ASSUME DeliveryInv, TypeOK', SendInv, AckReceipt \/ RecordSent PROVE SendInv'
  OBVIOUS
<1>1. /\ late = {} /\ pc' \in {"record", "free"} /\ req.status = "sending" /\ pauses' >= pauses
      /\ UNCHANGED <<turns, late, answered, life, pauses, nextId>>
  BY NoLateUnsent, TurnTypes
     DEF AckReceipt, RecordSent, Release, Proceed, prodVars, native, history, Sending, DeliveryInv,
         HolderKnows
<1>2. \E r : /\ Saved(r) /\ r.id = req.id /\ r.work = req.work
             /\ r.status \notin Unsent /\ r.status \in Delivered
  <2>1. CASE AckReceipt
    BY <1>1, <2>1, KeptIsSaved, StatusesDiffer DEF AckReceipt, SendInv
  <2>2. CASE RecordSent
    <3> DEFINE r == [req EXCEPT !.status = "sent", !.turn = reply]
    <3>1. r.id = req.id /\ r.work = req.work /\ r.status = "sent"
      BY DEF DeliveryInv, TypeOK, FilesOK, Request
    <3>2. Saved(r)
      BY <2>2, SaveIsSaved DEF RecordSent, DeliveryInv
    <3> QED BY <3>1, <3>2, StatusesDiffer
  <2> QED BY <2>1, <2>2
<1> QED BY <1>1, <1>2, SavingKeeps DEF DeliveryInv, Starting

LEMMA StopSends ==
  DeliveryInv /\ TypeOK' /\ SendInv /\ (Interrupt \/ AwaitInterrupted \/ StopFails \/ Close \/ Archive)
    => SendInv'
<1> SUFFICES ASSUME DeliveryInv, TypeOK', SendInv,
                    Interrupt \/ AwaitInterrupted \/ StopFails \/ Close \/ Archive
             PROVE  SendInv'
  OBVIOUS
<1>1. UNCHANGED answered /\ \A g \in Groups : answered[g] \in Nat
  BY BoundsAreNatural
     DEF Interrupt, AwaitInterrupted, StopFails, Close, Archive, Unchanged, prodVars, DeliveryInv,
         TypeOK, RecordOK
<1>2. /\ UNCHANGED <<nextId, pauses>>
      /\ pc' \in {"free", "await", "closing", "archiving"}
  BY DEF Interrupt, AwaitInterrupted, StopFails, Close, Archive, Unchanged, history, Release, Proceed
<1>3. CASE UNCHANGED <<req, repairs, life>> /\ Faded
  BY <1>1, <1>2, <1>3, FadingKeeps DEF DeliveryInv
<1>4. CASE Interrupt \/ AwaitInterrupted \/ StopFails
  BY <1>3, <1>4, SameFades DEF Interrupt, AwaitInterrupted, StopFails, Unchanged, files, native
<1>5. CASE Close
  BY <1>3, <1>5, KillingFades DEF Close, files, DeliveryInv
<1>6. CASE Archive
  <2>1. Faded /\ late = {} /\ UNCHANGED <<turns, late>> /\ pc' = "free" /\ life # "deleted"
    BY <1>6, SameFades DEF Archive, Release, native, DeliveryInv, DeletedIsQuiet
  <2>2. CASE UNCHANGED <<req, repairs>>
    BY <1>1, <1>2, <2>1, <2>2, FadingKeeps DEF DeliveryInv
  <2>3. CASE req' = NoRequest /\ life' = "deleted"
    <3>1. req'.id = 0 /\ req'.status = "none" /\ req'.work \notin RepairWork
      BY <2>3, KindsDiffer DEF NoRequest, Plain
    <3>2. TurnsAreDistinct'
      BY <1>2, <2>1, <3>1, StatusesDiffer, TurnTypes
         DEF SendInv, TurnsAreDistinct, OneTurnPerRequest, Startable, Starting, DeliveryInv
    <3>3. AnswersFollow'
      BY <1>1, <2>1 DEF SendInv, AnswersFollow, AnswersInOrder
    <3>4. RepairsFollow'
      BY <1>2, <2>1, <2>3 DEF SendInv, RepairsFollow, RepairOncePerPause
    <3>5. LateIsReviewed' /\ RepairsAgree'
      BY <2>1, <3>1 DEF LateIsReviewed, RepairsAgree
    <3> QED BY <3>2, <3>3, <3>4, <3>5 DEF SendInv
  <2> QED BY <1>6, <2>2, <2>3 DEF Archive, files
<1> QED BY <1>4, <1>5, <1>6

LEMMA HoldSends == DeliveryInv /\ TypeOK' /\ SendInv /\ Hold => SendInv'
  BY CheckSends, ReadSends, ReconcileSends, EnsureIdleSends, StartTurnSends, StartFailsSends,
     RecordingSends, StopSends DEF Hold
-----------------------------------------------------------------------------
(* What is sent: the steps of everybody else.                              *)

\* A stop settles the request, unless it is under review.
LEMMA StopLockedSends ==
  ASSUME DeliveryInv, TypeOK', SendInv, NEW why, StopLocked(why)
  PROVE  SendInv'
<1>1. /\ UNCHANGED <<turns, late, answered, life, nextId>>
      /\ pauses' = pauses + 1 /\ pauses' > pauses /\ pauses' >= pauses
      /\ pc' \in {"interrupt", "closing"}
  BY TurnTypes DEF StopLocked, native, prodVars, DeliveryInv
<1>2. \E r : /\ Saved(r) /\ r.id = req.id /\ (r = req \/ r.status = "paused")
             /\ req.status \in Undecided => r = req
  <2>1. CASE Save(PausedRequest)
    <3>1. /\ PausedRequest.id = req.id /\ (PausedRequest = req \/ PausedRequest.status = "paused")
          /\ req.status \in Undecided => PausedRequest = req
      BY StatusChanged DEF PausedRequest, DeliveryInv
    <3> QED BY <2>1, <3>1, SaveIsSaved DEF DeliveryInv
  <2>2. CASE UNCHANGED <<req, repairs>>
    BY <2>2, KeptIsSaved DEF SendInv
  <2> QED BY <2>1, <2>2 DEF StopLocked
<1>3. PICK r : /\ Saved(r) /\ r.id = req.id /\ (r = req \/ r.status = "paused")
               /\ req.status \in Undecided => r = req
  BY <1>2
<1>4. late # {} => r = req
  BY <1>3, NoLateUnsent
<1>5. r.status \in Unsent => Startable
  BY <1>3, StatusesDiffer DEF Startable
<1> QED BY <1>1, <1>3, <1>4, <1>5, SavingKeeps DEF DeliveryInv, Starting, Sending

LEMMA ContinueSends ==
  ASSUME DeliveryInv, TypeOK', SendInv, NEW call \in Calls, Continue(call)
  PROVE  SendInv'
<1>1. UNCHANGED <<turns, late, answered, life, pauses>> /\ pauses' >= pauses
      /\ \A g \in Groups : answered'[g] >= answered[g]
  BY TurnTypes, BoundsAreNatural
     DEF Continue, native, prodVars, files, history, DeliveryInv, TypeOK, RecordOK
<1>2. CASE Refused(call)
  <2>1. UNCHANGED <<req, repairs, life, nextId, pc>>
    BY <1>2 DEF Continue, files, history, holder
  <2> QED BY <1>1, <2>1, SameFades, FadingKeeps DEF DeliveryInv
<1>3. CASE ~Refused(call) /\ Mergeable(call)
  <2>1. Save(req) /\ nextId' = nextId /\ pc' = "check"
    BY <1>3 DEF Continue, Proceed
  <2>2. Saved(req) /\ Startable
    BY <1>3, <2>1, SaveIsSaved DEF Mergeable, Startable, DeliveryInv
  <2>3. req.work \in RepairWork /\ req.status \notin Delivered => repairs[req.work].status \notin Delivered
    BY DEF SendInv, RepairsAgree
  <2> QED BY <1>1, <2>1, <2>2, <2>3, SavingKeeps DEF DeliveryInv, Sending
<1>4. CASE ~Refused(call) /\ ~Mergeable(call)
  <2> DEFINE r == NewRequest(Carried(call))
  <2>1. Save(r) /\ r.id = nextId /\ nextId' = nextId + 1 /\ pc' = "check"
        /\ r.work = Carried(call)
    BY <1>4 DEF Continue, Proceed, NewRequest
  <2>2. late = {}
    BY <1>4, NoLateUnsent DEF Refused
  <2>3. Carried(call) \in RepairWork => repairs[Carried(call)].status \notin Delivered
    <3>1. call \notin RepairWork
      BY KindsDiffer DEF Calls, Plain, Answers, Decision
    <3>2. ASSUME Carried(call) \in RepairWork PROVE repairs[req.work].status \notin Delivered
      <4>1. req.work \in RepairWork /\ req.work.kind = "repair" /\ Carried(call) = req.work
        BY <3>1, <3>2, KindsDiffer DEF Carried
      <4>2. req.status \in Unsent \cup {"paused", "needsResume"}
        BY <3>1, <3>2, <4>1 DEF Carried
      <4>3. req.status \notin Delivered
        BY <4>2 DEF Unsent, Delivered, Undecided
      <4> QED BY <4>1, <4>3 DEF SendInv, RepairsAgree
    <3>3. Carried(call) \in {call, req.work}
      BY DEF Carried
    <3> QED BY <3>1, <3>2, <3>3
  <2>4. Saved(r)
    BY <2>1, SaveIsSaved DEF DeliveryInv
  <2> HIDE DEF r
  <2> QED BY <1>1, <2>1, <2>2, <2>3, <2>4, SavingKeeps DEF DeliveryInv, Sending
<1> QED BY <1>2, <1>3, <1>4

LEMMA RepairSends ==
  ASSUME DeliveryInv, TypeOK', SendInv, NEW i \in Issues, RepairIssue(i)
  PROVE  SendInv'
<1> DEFINE w == Repair(i, print[i])
           r == NewRequest(w)
<1>1. /\ UNCHANGED <<turns, late, answered, life, pauses>> /\ pauses' >= pauses /\ pc' = "check"
      /\ \A g \in Groups : answered'[g] >= answered[g]
  BY TurnTypes, BoundsAreNatural
     DEF RepairIssue, native, prodVars, files, history, DeliveryInv, TypeOK, RecordOK, Proceed
<1>2. CASE UNCHANGED <<req, repairs, nextId>>
  BY <1>1, <1>2, SameFades, FadingKeeps DEF DeliveryInv
<1>3. CASE /\ Save(r) /\ nextId' = nextId + 1 /\ repairs[w].status \notin Delivered
           /\ req.status \in Pending => req.work = w
  <2>1. w \in RepairWork
    BY BoundsAreNatural DEF RepairIssue, Repairable, RepairWork, DeliveryInv, TypeOK, RecordOK
  <2>2. late = {}
    <3>1. req.status \notin Undecided
      BY <1>3, <2>1, StatusesDiffer DEF Pending, SendInv, RepairsAgree
    <3> QED BY <3>1, NoLateUnsent
  <2>3. r.id = nextId /\ r.work = w /\ Saved(r)
    BY <1>3, SaveIsSaved DEF NewRequest, DeliveryInv
  <2> HIDE DEF r
  <2> QED BY <1>1, <1>3, <2>2, <2>3, SavingKeeps DEF DeliveryInv, Sending
<1> QED BY <1>2, <1>3 DEF RepairIssue, files, history

\* A step that keeps the request, its copies and the answers.
LEMMA QuietSends ==
  ASSUME DeliveryInv, TypeOK', SendInv, Faded,
         UNCHANGED <<req, repairs, nextId, pauses, answered>>,
         life' # "deleted" => life # "deleted",
         pc' = pc \/ pc' \notin {"reconcile", "idle", "start", "ack", "record"}
  PROVE  SendInv'
<1>1. \A g \in Groups : answered'[g] >= answered[g]
  BY BoundsAreNatural DEF DeliveryInv, TypeOK, RecordOK
<1> QED BY <1>1, FadingKeeps DEF DeliveryInv

LEMMA UserSends == DeliveryInv /\ TypeOK' /\ SendInv /\ User => SendInv'
<1> SUFFICES ASSUME DeliveryInv, TypeOK', SendInv, User PROVE SendInv'
  OBVIOUS
<1>1. CASE Flush \/ TaskControl \/ StopCall \/ BeginShutdown \/ Detach
  BY <1>1, SameFades, QuietSends
     DEF Flush, TaskControl, StopCall, BeginShutdown, Detach, Unchanged, Proceed, files, prodVars,
         native, holder, history
<1>2. CASE Restore
  BY <1>2, SameFades, QuietSends DEF Restore, native, prodVars, holder, history
<1>3. CASE Open
  <2>1. Faded
    BY <1>3, KillingFades DEF Open, DeliveryInv
  <2> QED BY <1>3, <2>1, QuietSends DEF Open, files, prodVars, holder, history
<1>4. CASE ManualTurn
  BY <1>4, TypingKeeps DEF DeliveryInv
<1>5. ASSUME NEW why \in {"archive", "delete"}, RetireBegin(why) PROVE SendInv'
  BY <1>5, StopLockedSends DEF RetireBegin
<1> QED BY <1>1, <1>2, <1>3, <1>4, <1>5, ContinueSends, RepairSends DEF User

LEMMA EventSends ==
  ASSUME DeliveryInv, TypeOK', SendInv, NEW e \in events, QueueEvent(e)
  PROVE  SendInv'
<1>1. /\ UNCHANGED <<turns, late, answered, life, pauses, nextId>>
      /\ pc' \in {"free", "check"}
  BY DEF QueueEvent, prodVars, history, holder, Proceed
<1>2. CASE UNCHANGED <<req, repairs>>
  BY <1>1, <1>2, SameFades, QuietSends
<1>3. CASE req.status = "queued" /\ SaveStatus("paused")
  <2>1. req.status \in Unsent /\ life # "deleted"
    BY <1>3 DEF Unsent, DeliveryInv, DeletedIsQuiet
  <2> QED BY <1>1, <1>3, <2>1, SaveStatusIsSaved, StatusChanged, UnsentKeeps DEF DeliveryInv
<1> QED BY <1>2, <1>3 DEF QueueEvent

\* The executor starts the one turn of which the request says needsReview.
LEMMA LateStartSends == DeliveryInv /\ SendInv /\ LateStart => SendInv'
<1> SUFFICES ASSUME DeliveryInv, SendInv, LateStart PROVE SendInv'
  OBVIOUS
<1>1. PICK u \in late : turns' = Append(turns, u) /\ late' = late \ {u}
  BY DEF LateStart
<1>2. UNCHANGED <<answered, pauses, nextId, life, req, repairs, pc>>
  BY DEF LateStart, prodVars, history, files, holder
<1>3. /\ late' = {} /\ ~Sending /\ Startable /\ u \in Turn
      /\ u.id = req.id /\ u.work = req.work /\ req.status \in Undecided
  BY <1>1, TurnTypes DEF SendInv, LateIsReviewed, Startable, DeliveryInv
<1>4. /\ u.pauses <= pauses
      /\ req.work \in AnswerWork => NoneNewer(req.work)
      /\ req.work \in RepairWork => SentBefore(req.work, u.pauses)
  BY <1>1, <1>3 DEF SendInv, AnswersFollow, RepairsFollow
<1>5. Saved(req) /\ req.status \notin Unsent /\ req.status \in Delivered
  BY <1>2, <1>3, KeptIsSaved, StatusesDiffer DEF SendInv
<1>6. ~Starting'
  BY <1>2, <1>3 DEF Sending, Starting
<1> QED BY <1>1, <1>2, <1>3, <1>4, <1>5, <1>6, StartingKeeps DEF DeliveryInv

LEMMA RecordSends == DeliveryInv /\ TypeOK' /\ SendInv /\ (Record \/ UNCHANGED vars) => SendInv'
<1> SUFFICES ASSUME DeliveryInv, TypeOK', SendInv, Record \/ UNCHANGED vars PROVE SendInv'
  OBVIOUS
<1>1. UNCHANGED <<turns, late, req, repairs, life, pc, nextId, pauses>>
  BY RecordFrame DEF vars, files, native, holder, history
<1>2. \A g \in Groups : answered'[g] >= answered[g]
  <2>1. answered \in [Groups -> 0..MaxAnswers] /\ MaxAnswers \in Nat
    BY BoundsAreNatural DEF DeliveryInv, TypeOK, RecordOK
  <2>2. UNCHANGED answered \/ \E g \in Groups : answered' = [answered EXCEPT ![g] = @ + 1]
    BY DEF Record, Publish, Answer, SubmitDocument, Decided, SetTaskStatus, UpdateIssue, vars,
           prodVars
  <2> QED BY <2>1, <2>2
<1> QED BY <1>1, <1>2, SameFades, FadingKeeps DEF DeliveryInv

LEMMA SendInvStep == DeliveryInv /\ TypeOK' /\ SendInv /\ [Next]_vars => SendInv'
<1> SUFFICES ASSUME DeliveryInv, TypeOK', SendInv, [Next]_vars PROVE SendInv'
  OBVIOUS
<1>1. CASE EndTurn
  BY <1>1, EndingFades, QuietSends
     DEF EndTurn, files, prodVars, holder, history, DeliveryInv
<1>2. CASE ExecutorDies
  <2>1. Faded
    BY <1>2, KillingFades DEF ExecutorDies, DeliveryInv
  <2> QED BY <1>2, <2>1, QuietSends DEF ExecutorDies, files, prodVars, holder, history
<1>3. CASE BridgeLost
  BY <1>3, SameFades, QuietSends DEF BridgeLost, files, prodVars, holder, history
<1>4. CASE Restart
  <2>1. Faded
    BY <1>4, KillingFades DEF Restart, DeliveryInv
  <2> QED BY <1>4, <2>1, QuietSends DEF Restart, Release, files, prodVars
<1>5. CASE StopBegin \/ ExitStopBegin
  BY <1>5, StopLockedSends DEF StopBegin, ExitStopBegin
<1>6. CASE StopAll
  BY <1>6, SameFades, QuietSends DEF StopAll, files, prodVars, native, holder, history
<1>7. CASE Drain
  <2>1. Faded
    BY <1>7, KillingFades DEF Drain, DeliveryInv
  <2> QED BY <1>7, <2>1, QuietSends DEF Drain, files, prodVars, holder
<1> QED
  BY <1>1, <1>2, <1>3, <1>4, <1>5, <1>6, <1>7, HoldSends, EventSends, UserSends, LateStartSends, RecordSends
     DEF Next, Deliver, Exit
-----------------------------------------------------------------------------
(* When something is sent.                                                 *)

\* The user has asked for execution.
LEMMA WantedKeeps ==
  ASSUME wish' = "run", req'.owner <= epoch', pc' \notin {"interrupt", "await", "closing"}
  PROVE  WishIsKept'
  BY DEF WishIsKept, PauseIsQuiet

\* Nothing is started, and the request is none that waits or waited before.
LEMMA FadingWishes ==
  ASSUME WishIsKept, Faded, UNCHANGED <<wish, epoch>>, req'.owner <= epoch',
         req'.status \in Unsent =>
           /\ req.status \in Unsent /\ req'.owner = req.owner
           /\ (cancelled => cancelled') /\ (Exiting => Exiting'),
         pc' = pc \/ pc' \in {"free", "check", "archiving"}
           \/ (pc \in {"interrupt", "await"} /\ pc' \in {"await", "closing"})
  PROVE  WishIsKept'
<1>1. PauseIsQuiet'
  BY DEF WishIsKept, PauseIsQuiet, Faded
<1>2. (wish = "paused" => late = {})'
  BY DEF WishIsKept, Faded
<1>3. (wish = "run" \/ cancelled \/ Exiting \/ req.owner # epoch \/ req.status \notin Unsent)'
  BY DEF WishIsKept
<1>4. (pc = "read" \/ Sending => wish = "run")'
      /\ (pc \in {"interrupt", "await", "closing"} => wish # "run")'
  BY DEF WishIsKept, Sending
<1> QED BY <1>1, <1>2, <1>3, <1>4 DEF WishIsKept

\* The holder's steps towards the executor change no owner and no wish.
LEMMA DeliveringWishes ==
  ASSUME DeliveryInv, WishIsKept,
         ReadFails \/ ReadThread \/ Reconcile \/ EnsureIdle \/ StartTurn \/ StartFails
           \/ AckReceipt \/ RecordSent
  PROVE  WishIsKept'
<1>1. wish' = "run" /\ epoch' = epoch /\ pc' \notin {"interrupt", "await", "closing"}
  BY DEF WishIsKept, Sending, ReadFails, ReadThread, Reconcile, EnsureIdle, StartTurn, StartFails,
         AckReceipt, RecordSent, Settle, Release, Proceed, history
<1>2. req'.owner = req.owner
  <2>1. \A s, n : /\ [req EXCEPT !.status = s].owner = req.owner
                  /\ [req EXCEPT !.status = s, !.turn = n].owner = req.owner
                  /\ [req EXCEPT !.status = s, !.after = n].owner = req.owner
    BY DEF DeliveryInv, TypeOK, FilesOK, Request
  <2>2. ASSUME NEW s, SaveStatus(s) PROVE req'.owner = req.owner
    BY <2>1, <2>2 DEF SaveStatus, Save
  <2>3. CASE ReadFails \/ EnsureIdle \/ StartTurn \/ StartFails \/ AckReceipt
    BY <2>2, <2>3 DEF ReadFails, EnsureIdle, StartTurn, StartFails, AckReceipt, Settle
  <2>4. ASSUME NEW s, NEW n, Save([req EXCEPT !.status = s, !.turn = n]) PROVE req'.owner = req.owner
    BY <2>1, <2>4 DEF Save
  <2>5. ASSUME NEW s, NEW n, Save([req EXCEPT !.status = s, !.after = n]) PROVE req'.owner = req.owner
    BY <2>1, <2>5 DEF Save
  <2>6. CASE ReadThread
    BY <2>2, <2>4, <2>5, <2>6 DEF ReadThread
  <2>7. CASE Reconcile
    BY <2>2, <2>4, <2>7 DEF Reconcile
  <2>8. CASE RecordSent
    BY <2>4, <2>8 DEF RecordSent
  <2> QED BY <2>3, <2>6, <2>7, <2>8
<1> QED BY <1>1, <1>2, WantedKeeps DEF WishIsKept

LEMMA CheckWishes == DeliveryInv /\ WishIsKept /\ Check => WishIsKept'
<1> SUFFICES ASSUME DeliveryInv, WishIsKept, Check PROVE WishIsKept'
  OBVIOUS
<1>1. CASE ~HeldBack /\ ~Finished
  <2>1. wish = "run" /\ wish' = wish /\ epoch' = epoch /\ pc' \in {"free", "read"}
    BY <1>1 DEF Check, HeldBack, Finished, WishIsKept, Unchanged, Settle, history, Release, Proceed
  <2>2. req'.owner = req.owner
    BY <1>1, StatusChanged DEF Check, Unchanged, Settle, SaveStatus, Save, files, DeliveryInv
  <2> QED BY <2>1, <2>2, WantedKeeps DEF WishIsKept
<1>2. CASE HeldBack \/ Finished
  <2>1. UNCHANGED <<turns, late, req, wish, epoch, cancelled, exit>> /\ pc' = "free"
    BY <1>2 DEF Check, Unchanged, Release, files, native, flags, history
  <2> QED BY <2>1, SameFades, FadingWishes DEF WishIsKept, Exiting
<1> QED BY <1>1, <1>2

LEMMA CloseWishes == DeliveryInv /\ WishIsKept /\ Close => WishIsKept'
<1> SUFFICES ASSUME DeliveryInv, WishIsKept, Close PROVE WishIsKept'
  OBVIOUS
<1>1. /\ UNCHANGED <<req, epoch, cancelled>> /\ pc = "closing" /\ pc' \in {"free", "archiving"}
      /\ late' = {} /\ wish # "run" /\ (Exiting => Exiting')
  BY DEF Close, ExitNotes, Exiting, files, Release, Proceed, WishIsKept
<1>2. CASE Alive
  <2>1. wish' = "paused" /\ turns' = Killed
    BY <1>2 DEF Close
  <2>2. PauseIsQuiet'
    BY <1>1, <2>1, KillingFades DEF PauseIsQuiet, DeliveryInv
  <2> QED BY <1>1, <2>1, <2>2 DEF WishIsKept, Sending
<1>3. CASE ~Alive
  <2>1. wish' = wish /\ Faded
    BY <1>1, <1>3, KillingFades DEF Close, DeliveryInv
  <2> QED BY <1>1, <2>1, FadingWishes DEF WishIsKept, Exiting
<1> QED BY <1>2, <1>3

LEMMA HoldWishes == DeliveryInv /\ WishIsKept /\ Hold => WishIsKept'
<1> SUFFICES ASSUME DeliveryInv, WishIsKept, Hold PROVE WishIsKept'
  OBVIOUS
<1>1. CASE Interrupt \/ AwaitInterrupted \/ StopFails
  <2>1. UNCHANGED <<turns, late, req, wish, epoch, cancelled>> /\ (Exiting => Exiting')
    BY <1>1 DEF Interrupt, AwaitInterrupted, StopFails, ExitNotes, Exiting, Unchanged, files, native, flags, history
  <2>2. /\ pc \in {"interrupt", "await"} /\ pc' \in {"free", "await", "closing"}
    BY <1>1 DEF Interrupt, AwaitInterrupted, StopFails, Release, Proceed
  <2> QED BY <2>1, <2>2, SameFades, FadingWishes DEF WishIsKept, Exiting
<1>2. CASE Archive
  <2>1. UNCHANGED <<turns, late, wish, epoch, exit>> /\ pc' = "free"
    BY <1>2 DEF Archive, Release, native, history
  <2>2. UNCHANGED <<req, cancelled>> \/ req' = NoRequest
    BY <1>2 DEF Archive, files
  <2>3. NoRequest.owner <= epoch /\ NoRequest.status \notin Unsent
    BY TurnTypes, StatusesDiffer DEF NoRequest, DeliveryInv
  <2> QED BY <2>1, <2>2, <2>3, SameFades, FadingWishes DEF WishIsKept, Exiting
<1> QED BY <1>1, <1>2, DeliveringWishes, CheckWishes, CloseWishes DEF Hold

LEMMA StopLockedWishes ==
  ASSUME DeliveryInv, WishIsKept, NEW why, StopLocked(why)
  PROVE  WishIsKept'
<1>1. /\ wish' = "pausing" /\ cancelled' = TRUE /\ epoch' = epoch
      /\ pc' \in {"interrupt", "closing"}
  BY DEF StopLocked
<1>2. req'.owner = req.owner
  BY StatusChanged DEF StopLocked, Save, PausedRequest, DeliveryInv
<1> QED BY <1>1, <1>2 DEF WishIsKept, PauseIsQuiet, Sending

LEMMA UserWishes == DeliveryInv /\ WishIsKept /\ User => WishIsKept'
<1> SUFFICES ASSUME DeliveryInv, WishIsKept, User PROVE WishIsKept'
  OBVIOUS
<1>1. CASE Flush \/ TaskControl \/ StopCall \/ BeginShutdown \/ Detach \/ Restore
  <2>1. UNCHANGED <<turns, late, req, wish, epoch>> /\ (cancelled => cancelled')
        /\ (Exiting => Exiting') /\ (pc' = pc \/ pc' = "check")
    BY <1>1 DEF Flush, TaskControl, StopCall, BeginShutdown, Exiting, Detach, Restore, Unchanged,
                Proceed, files, flags, native, holder, history
  <2> QED BY <2>1, SameFades, FadingWishes DEF WishIsKept, Exiting
<1>2. CASE Open
  <2>1. Faded /\ UNCHANGED <<req, wish, epoch, cancelled, exit, pc>>
    BY <1>2, KillingFades DEF Open, DeliveryInv, files, flags, holder, history
  <2> QED BY <2>1, FadingWishes DEF WishIsKept, Exiting
<1>3. ASSUME NEW why \in {"archive", "delete"}, RetireBegin(why) PROVE WishIsKept'
  BY <1>3, StopLockedWishes DEF RetireBegin
<1>4. CASE ManualTurn
  <2>1. /\ UNCHANGED <<late, req, wish, epoch, cancelled, exit, pc>>
        /\ \A t \in DOMAIN turns' : turns'[t].work = Manual \/ (t \in DOMAIN turns /\ turns'[t] = turns[t])
    BY <1>4, TurnTypes DEF ManualTurn, NewTurn, files, flags, holder, history, DeliveryInv
  <2> QED BY <2>1 DEF WishIsKept, PauseIsQuiet, Sending, Exiting
<1>5. ASSUME NEW call \in Calls, Continue(call) PROVE WishIsKept'
  <2>1. CASE Refused(call)
    <3>1. UNCHANGED <<turns, late, req, wish, epoch, cancelled, exit, pc>>
      BY <1>5, <2>1 DEF Continue, native, files, holder, history
    <3> QED BY <3>1, SameFades, FadingWishes DEF WishIsKept, Exiting
  <2>2. CASE ~Refused(call)
    <3>1. wish' = "run" /\ epoch' = epoch /\ pc' = "check"
      BY <1>5, <2>2 DEF Continue, Proceed
    <3>2. req' = req \/ req'.owner = epoch
      BY <1>5, <2>2 DEF Continue, Save, NewRequest
    <3>3. req'.owner <= epoch
      BY <3>2, TurnTypes DEF WishIsKept, DeliveryInv
    <3> QED BY <3>1, <3>3, WantedKeeps
  <2> QED BY <2>1, <2>2
<1>6. ASSUME NEW i \in Issues, RepairIssue(i) PROVE WishIsKept'
  <2>1. CASE UNCHANGED <<files, cancelled, tracked, history>>
    <3>1. UNCHANGED <<turns, late, req, wish, epoch, cancelled, exit>> /\ pc' = "check"
      BY <1>6, <2>1 DEF RepairIssue, native, files, history, Proceed
    <3> QED BY <3>1, SameFades, FadingWishes DEF WishIsKept, Exiting
  <2>2. CASE wish' = "run" /\ Save(NewRequest(Repair(i, print[i])))
    <3>1. epoch' = epoch /\ pc' = "check" /\ req'.owner = epoch
      BY <1>6, <2>2 DEF RepairIssue, Proceed, Save, NewRequest
    <3> QED BY <2>2, <3>1, TurnTypes, WantedKeeps DEF DeliveryInv
  <2> QED BY <1>6, <2>1, <2>2 DEF RepairIssue
<1> QED BY <1>1, <1>2, <1>3, <1>4, <1>5, <1>6 DEF User

LEMMA WishStep == DeliveryInv /\ ExitIsAwaited /\ WishIsKept /\ [Next]_vars => WishIsKept'
<1> SUFFICES ASSUME DeliveryInv, ExitIsAwaited, WishIsKept, [Next]_vars PROVE WishIsKept'
  OBVIOUS
<1>1. ASSUME NEW e \in events, QueueEvent(e) PROVE WishIsKept'
  <2>1. UNCHANGED <<turns, late, wish, epoch, cancelled, exit>> /\ (pc' = pc \/ pc' = "check")
    BY <1>1 DEF QueueEvent, flags, history, holder, Proceed
  <2>2. req' = req \/ (req'.owner = req.owner /\ req'.status \notin Unsent)
    <3>1. SaveStatus("paused") => req'.owner = req.owner /\ req'.status = "paused"
      BY StatusChanged DEF SaveStatus, Save, DeliveryInv
    <3> QED BY <1>1, <3>1, StatusesDiffer DEF QueueEvent
  <2> QED BY <2>1, <2>2, SameFades, FadingWishes DEF WishIsKept, Exiting
<1>2. CASE EndTurn \/ ExecutorDies \/ BridgeLost
  <2>1. Faded
    BY <1>2, EndingFades, KillingFades, SameFades DEF ExecutorDies, BridgeLost, DeliveryInv
  <2>2. UNCHANGED <<req, wish, epoch, cancelled, exit, pc>>
    BY <1>2 DEF EndTurn, ExecutorDies, BridgeLost, files, flags, holder, history
  <2> QED BY <2>1, <2>2, FadingWishes DEF WishIsKept, Exiting
<1>3. CASE Restart
  <2>1. /\ epoch' = epoch + 1 /\ wish' = "pausing" /\ late' = {} /\ req' = req /\ pc' = "free"
    BY <1>3 DEF Restart, Release, files
  <2> QED BY <2>1, TurnTypes DEF WishIsKept, PauseIsQuiet, Sending, DeliveryInv
<1>4. CASE LateStart
  <2>1. /\ UNCHANGED <<req, wish, epoch, cancelled, exit, pc>> /\ late # {} /\ late' \subseteq late
    BY <1>4 DEF LateStart, files, flags, holder, history
  <2> QED BY <2>1 DEF WishIsKept, PauseIsQuiet, Sending, Exiting
<1>5. CASE StopBegin \/ ExitStopBegin
  BY <1>5, StopLockedWishes DEF StopBegin, ExitStopBegin
<1>6. CASE Record \/ UNCHANGED vars
  <2>1. UNCHANGED <<turns, late, req, wish, epoch, cancelled, exit, pc>>
    BY <1>6, RecordFrame DEF vars, files, flags, native, holder, history
  <2> QED BY <2>1, SameFades, FadingWishes DEF WishIsKept, Exiting
<1>7. CASE StopAll
  <2>1. UNCHANGED <<turns, late, req, wish, epoch, pc>> /\ (cancelled => cancelled') /\ Exiting'
    BY <1>7 DEF StopAll, Exiting, files, native, holder, history
  <2> QED BY <2>1, SameFades, FadingWishes DEF WishIsKept
<1>8. CASE Drain
  <2>1. UNCHANGED <<req, epoch, cancelled, pc>> /\ Exiting /\ Exiting' /\ late' = {}
        /\ exit \notin {"no", "begun", "waiting"}
    BY <1>8 DEF Drain, Exiting, files, holder
  <2>2. CASE Alive
    <3>1. wish' = "paused" /\ turns' = Killed /\ pc # "read" /\ ~Sending
      BY <1>8, <2>1, <2>2 DEF Drain, ExitIsAwaited
    <3>2. PauseIsQuiet'
      BY <2>1, <3>1, KillingFades DEF PauseIsQuiet, DeliveryInv
    <3> QED BY <2>1, <3>1, <3>2 DEF WishIsKept, Sending
  <2>3. CASE ~Alive
    <3>1. wish' = wish /\ Faded
      BY <1>8, <2>1, <2>3, KillingFades DEF Drain, DeliveryInv
    <3> QED BY <2>1, <3>1, FadingWishes DEF WishIsKept
  <2> QED BY <2>2, <2>3
<1> QED BY <1>1, <1>2, <1>3, <1>4, <1>5, <1>6, <1>7, <1>8, HoldWishes, UserWishes DEF Next, Deliver, Exit
-----------------------------------------------------------------------------
(* What closing the executor cuts off.                                     *)

LEMMA ClosingStep == DeliveryInv /\ SendInv /\ ClosingIsAwaited /\ [Next]_vars => ClosingIsAwaited'
<1> SUFFICES ASSUME DeliveryInv, SendInv, ClosingIsAwaited, [Next]_vars, (pc = "closing" /\ Alive)',
                    NEW t \in DOMAIN turns', turns'[t].status = "inProgress"
             PROVE  MayBeCut(t)'
  BY DEF ClosingIsAwaited
<1>1. ASSUME pc = "closing", Alive, Faded, UNCHANGED req PROVE MayBeCut(t)'
  BY <1>1 DEF ClosingIsAwaited, MayBeCut, Faded
<1>2. CASE Hold
  <2>1. Interrupt \/ AwaitInterrupted
    BY <1>2
       DEF Hold, Check, ReadFails, ReadThread, Reconcile, EnsureIdle, StartTurn, StartFails, AckReceipt,
           RecordSent, StopFails, Close, Archive, Settle, Release, Proceed
  <2>2. ~Busy /\ turns' = turns
    BY <2>1 DEF Interrupt, AwaitInterrupted, Unchanged, Proceed, native
  <2> QED BY <2>2 DEF Busy
<1>3. ASSUME NEW why, StopLocked(why) PROVE FALSE
  BY <1>3 DEF StopLocked, Alive, native
<1>4. CASE Deliver
  BY <1>4 DEF Deliver, QueueEvent, holder, Proceed
<1>5. CASE User
  <2>1. ASSUME NEW call \in Calls, Continue(call) PROVE FALSE
    BY <2>1 DEF Continue, holder, Proceed
  <2>2. ASSUME NEW i \in Issues, RepairIssue(i) PROVE FALSE
    BY <2>2 DEF RepairIssue, Proceed
  <2>3. CASE Flush \/ TaskControl \/ Restore \/ Open
    BY <2>3 DEF Flush, TaskControl, Restore, Open, Proceed, holder
  <2>4. CASE StopCall \/ BeginShutdown \/ Detach
    BY <1>1, <2>4, SameFades DEF StopCall, BeginShutdown, Detach, files, native, holder, Alive
  <2>5. ASSUME NEW why \in {"archive", "delete"}, RetireBegin(why) PROVE FALSE
    BY <1>3, <2>5 DEF RetireBegin
  <2>6. CASE ManualTurn
    <3>1. /\ UNCHANGED <<pc, req, executor>>
          /\ turns'[t].work = Manual \/ (t \in DOMAIN turns /\ turns'[t] = turns[t])
      BY <2>6, TurnTypes DEF ManualTurn, NewTurn, files, holder, DeliveryInv
    <3> QED BY <3>1 DEF ClosingIsAwaited, MayBeCut, Alive
  <2> QED BY <1>5, <2>1, <2>2, <2>3, <2>4, <2>5, <2>6 DEF User
<1>6. CASE LateStart
  <2>1. PICK u \in late : turns' = Append(turns, u)
    BY <1>6 DEF LateStart
  <2>2. /\ UNCHANGED <<pc, req, executor>>
        /\ turns'[t] = u \/ (t \in DOMAIN turns /\ turns'[t] = turns[t])
    BY <1>6, <2>1, TurnTypes DEF LateStart, files, holder, DeliveryInv
  <2>3. req.status \in Undecided /\ u.id = req.id
    BY DEF SendInv, LateIsReviewed
  <2> QED BY <2>2, <2>3 DEF ClosingIsAwaited, MayBeCut, Alive
<1>7. CASE EndTurn \/ BridgeLost
  <2>1. Faded
    BY <1>7, EndingFades, SameFades DEF BridgeLost, DeliveryInv
  <2> QED BY <1>1, <1>7, <2>1 DEF EndTurn, BridgeLost, files, holder, Alive
<1>8. CASE ExecutorDies \/ Restart \/ Drain
  BY <1>8 DEF ExecutorDies, Restart, Drain, Alive
<1>10. CASE StopAll
  BY <1>1, <1>10, SameFades DEF StopAll, files, native, holder, Alive
<1>9. CASE Record \/ UNCHANGED vars
  <2>1. UNCHANGED <<turns, late, req, executor, pc>>
    BY <1>9, RecordFrame DEF vars, files, native, holder
  <2> QED BY <1>1, <2>1, SameFades DEF Alive
<1> QED BY <1>2, <1>3, <1>4, <1>5, <1>6, <1>7, <1>8, <1>9, <1>10
        DEF Next, StopBegin, Exit, ExitStopBegin
-----------------------------------------------------------------------------
(* What the exit of the APP finds on the executor.                         *)

LEMMA ExitStep == TypeOK /\ ExitIsAwaited /\ [Next]_vars => ExitIsAwaited'
<1> SUFFICES ASSUME TypeOK, ExitIsAwaited, [Next]_vars PROVE ExitIsAwaited'
  OBVIOUS
<1>1. ASSUME ~Alive' PROVE ExitIsAwaited'
  BY <1>1 DEF ExitIsAwaited
<1>2. ASSUME exit' \in {"no", "begun", "waiting"} PROVE ExitIsAwaited'
  BY <1>2 DEF ExitIsAwaited
\* A step of nobody who sends, while the executor lives on.
<1>3. ASSUME Alive, Faded, UNCHANGED exit,
             (pc' # "read" /\ ~Sending') \/ UNCHANGED pc
      PROVE  ExitIsAwaited'
  BY <1>3 DEF ExitIsAwaited, Faded, Sending
<1>4. CASE Hold
  <2>1. CASE Close
    BY <1>1, <2>1 DEF Close, Alive
  <2>2. CASE Interrupt \/ AwaitInterrupted \/ Archive
    <3>1. UNCHANGED <<turns, late, executor, exit>> /\ pc' # "read" /\ ~Sending'
      BY <2>2 DEF Interrupt, AwaitInterrupted, Archive, Unchanged, Release, Proceed, native, flags, Sending
    <3> QED BY <1>1, <1>3, <3>1, SameFades DEF Alive
  <2>3. CASE StopFails
    <3>1. UNCHANGED <<turns, late, executor>> /\ pc' = "free" /\ (exit' = exit \/ exit' = "failed")
      BY <2>3 DEF StopFails, ExitNotes, Release, native
    <3> QED BY <3>1 DEF ExitIsAwaited, Alive, Sending
  <2>4. CASE Check
    <3>1. UNCHANGED <<turns, late, executor, exit>> /\ ~Sending'
      BY <2>4 DEF Check, Unchanged, Settle, Release, Proceed, native, flags, Sending
    <3>2. Exiting => pc' # "read"
      BY <2>4 DEF Check, HeldBack, Release
    <3> QED BY <1>1, <1>2, <1>3, <3>1, <3>2, SameFades DEF Alive, Exiting
  <2>5. CASE ReadFails \/ ReadThread \/ Reconcile \/ EnsureIdle \/ StartTurn \/ StartFails
               \/ AckReceipt \/ RecordSent
    <3>1. (pc = "read" \/ Sending) /\ UNCHANGED <<executor, exit>>
      BY <2>5 DEF ReadFails, ReadThread, Reconcile, EnsureIdle, StartTurn, StartFails, AckReceipt,
                  RecordSent, Settle, native, flags, Sending
    <3> QED BY <1>1, <1>2, <3>1 DEF ExitIsAwaited, Alive
  <2> QED BY <1>4, <2>1, <2>2, <2>3, <2>4, <2>5 DEF Hold
<1>5. CASE User
  <2>1. CASE Open
    <3>1. \/ executor' = "none"
          \/ pc' = "free" /\ UNCHANGED turns /\ late' = {} /\ ~Busy
      BY <2>1 DEF Open, holder
    <3> QED BY <1>1, <3>1 DEF ExitIsAwaited, Alive, Busy, Sending
  <2>2. CASE ManualTurn
    <3>1. /\ UNCHANGED <<late, executor, exit, pc>>
          /\ \A t \in DOMAIN turns' : turns'[t].work = Manual \/ (t \in DOMAIN turns /\ turns'[t] = turns[t])
      BY <2>2, TurnTypes DEF ManualTurn, NewTurn, flags, holder
    <3> QED BY <3>1 DEF ExitIsAwaited, Alive, Sending
  <2>3. CASE BeginShutdown
    BY <1>2, <2>3 DEF BeginShutdown
  <2>4. ASSUME NEW call \in Calls, Continue(call) PROVE ExitIsAwaited'
    BY <1>2, <2>4 DEF Continue, Exiting
  <2>5. ASSUME NEW i \in Issues, RepairIssue(i) PROVE ExitIsAwaited'
    BY <1>2, <2>5 DEF RepairIssue, Exiting
  <2>6. ASSUME NEW why \in {"archive", "delete"}, RetireBegin(why) PROVE ExitIsAwaited'
    <3>1. UNCHANGED <<turns, late, executor, exit>> /\ pc' \in {"interrupt", "closing"}
      BY <2>6 DEF RetireBegin, StopLocked, native
    <3> QED BY <1>1, <1>3, <3>1, SameFades DEF Alive, Sending
  <2>7. CASE Flush \/ TaskControl \/ StopCall \/ Restore \/ Detach
    <3>1. UNCHANGED <<turns, late, executor, exit>> /\ (pc' = "check" \/ UNCHANGED pc)
      BY <2>7 DEF Flush, TaskControl, StopCall, Restore, Detach, Unchanged, Proceed, native, flags, holder
    <3> QED BY <1>1, <1>3, <3>1, SameFades DEF Alive, Sending
  <2> QED BY <1>5, <2>1, <2>2, <2>3, <2>4, <2>5, <2>6, <2>7 DEF User
<1>6. CASE Exit
  <2>1. CASE StopAll
    BY <1>1, <1>2, <2>1 DEF StopAll, native, Alive
  <2>2. CASE ExitStopBegin
    BY <2>2 DEF ExitStopBegin, StopLocked, ExitIsAwaited, Sending
  <2>3. CASE Drain
    BY <1>1, <2>3 DEF Drain, Alive
  <2> QED BY <1>6, <2>1, <2>2, <2>3 DEF Exit
<1>7. CASE Deliver \/ StopBegin
  <2>1. UNCHANGED <<turns, late, executor, exit>>
        /\ (pc' \in {"check", "interrupt", "closing"} \/ UNCHANGED pc)
    BY <1>7 DEF Deliver, QueueEvent, StopBegin, StopLocked, Proceed, native, flags, holder
  <2> QED BY <1>1, <1>3, <2>1, SameFades DEF Alive, Sending
<1>8. CASE LateStart
  <2>1. exit \notin {"closed", "drained"} \/ ~Alive
    BY <1>8 DEF LateStart, ExitIsAwaited
  <2>2. UNCHANGED <<executor, exit, pc>>
    BY <1>8 DEF LateStart, flags, holder
  <2> QED BY <1>1, <2>1, <2>2 DEF ExitIsAwaited, Alive, Sending
<1>9. CASE EndTurn \/ BridgeLost
  <2>1. Faded
    BY <1>9, EndingFades, SameFades DEF BridgeLost
  <2>2. UNCHANGED <<exit, pc>> /\ (Alive' => Alive)
    BY <1>9 DEF EndTurn, BridgeLost, Alive, flags, holder
  <2> QED BY <1>1, <1>3, <2>1, <2>2
<1>10. CASE ExecutorDies \/ Restart
  BY <1>1, <1>10 DEF ExecutorDies, Restart, Alive
<1>11. CASE Record \/ UNCHANGED vars
  <2>1. UNCHANGED <<turns, late, executor, exit, pc>>
    BY <1>11, RecordFrame DEF vars, flags, native, holder
  <2> QED BY <1>1, <1>3, <2>1, SameFades DEF Alive
<1> QED BY <1>4, <1>5, <1>6, <1>7, <1>8, <1>9, <1>10, <1>11 DEF Next
-----------------------------------------------------------------------------
(* The invariant.                                                          *)

LEMMA InitRequestInv == Init => RequestInv
<1> SUFFICES ASSUME Init PROVE RequestInv
  OBVIOUS
<1>1. DOMAIN turns = {} /\ late = {} /\ req = NoRequest /\ nextId = 1 /\ pc = "free" /\ epoch = 1
      /\ wish = "pausing"
  BY DEF Init
<1>2. req.work \notin RepairWork /\ req.id = 0 /\ req.owner = 0 /\ req.status = "none"
  BY <1>1, KindsDiffer DEF NoRequest, Plain
<1>3. SendInv
  <2>1. LateIsReviewed /\ RepairsAgree
    BY <1>1, <1>2 DEF LateIsReviewed, RepairsAgree
  <2>2. TurnsAreDistinct /\ AnswersFollow
    BY <1>1, <1>2 DEF TurnsAreDistinct, OneTurnPerRequest, AnswersFollow, AnswersInOrder
  <2>3. RepairsFollow
    BY <1>1 DEF RepairsFollow, RepairOncePerPause, SentBefore
  <2> QED BY <2>1, <2>2, <2>3 DEF SendInv
<1>4. WishIsKept /\ ClosingIsAwaited /\ ExitIsAwaited
  BY <1>1, <1>2 DEF Init, WishIsKept, PauseIsQuiet, ClosingIsAwaited, ExitIsAwaited, Sending, Unsent
<1> QED BY <1>3, <1>4, InitDeliveryInv DEF RequestInv

LEMMA RequestInvStep == RequestInv /\ [Next]_vars => RequestInv'
<1> SUFFICES ASSUME RequestInv, [Next]_vars PROVE RequestInv'
  OBVIOUS
<1>1. DeliveryInv' /\ TypeOK'
  BY DeliveryInvStep DEF RequestInv, DeliveryInv
<1> QED BY <1>1, SendInvStep, WishStep, ClosingStep, ExitStep DEF RequestInv, DeliveryInv

\* request_continuation, repair_issue, dispatch_locked and stop keep requests,
\* turns and the user's last word consistent, step by step.
THEOREM RequestInvariant == Spec => []RequestInv
  BY InitRequestInv, RequestInvStep, PTL DEF Spec

\* dispatch_locked: a request starts at most one turn of the native thread,
\* however often it is woken and whether or not its reply arrives.
THEOREM RequestsStartOneTurn == Spec => []OneTurnPerRequest
<1>1. RequestInv => OneTurnPerRequest
  BY DEF RequestInv, SendInv, TurnsAreDistinct
<1> QED BY <1>1, RequestInvariant, PTL

\* continue_questions_locked reads the revision again before it announces an
\* attempt: no older revision of a group follows a newer one.
THEOREM AnswersAreOrdered == Spec => []AnswersInOrder
<1>1. RequestInv => AnswersInOrder
  BY DEF RequestInv, SendInv, AnswersFollow
<1> QED BY <1>1, RequestInvariant, PTL

\* repair_issue and the copy of its request: one fingerprint is sent again
\* only after a pause.
THEOREM RepairsWaitForPause == Spec => []RepairOncePerPause
<1>1. RequestInv => RepairOncePerPause
  BY DEF RequestInv, SendInv, RepairsFollow
<1> QED BY <1>1, RequestInvariant, PTL

\* stop_locked closes the executor: nothing the service queued or sent before
\* runs until the user asks again.
THEOREM PausesAreQuiet == Spec => []PauseIsQuiet
<1>1. RequestInv => PauseIsQuiet
  BY DEF RequestInv, WishIsKept
<1> QED BY <1>1, RequestInvariant, PTL

\* stop_all: whatever became of its stop, no executor works for the service
\* when the exit has come to its end, also none that `open` started meanwhile.
THEOREM ExitsAreQuiet == Spec => []ExitIsQuiet
<1>1. RequestInv => ExitIsQuiet
  BY DEF RequestInv, ExitIsAwaited, ExitIsQuiet
<1> QED BY <1>1, RequestInvariant, PTL
-----------------------------------------------------------------------------
(* Action properties.                                                      *)

\* The steps that ask the executor for a turn.
LEMMA SendingSteps == RequestInv /\ [Next]_vars /\ SendsTurn => StartTurn \/ StartFails
<1> SUFFICES ASSUME RequestInv, [Next]_vars, ~StartTurn, ~StartFails PROVE ~SendsTurn
  OBVIOUS
<1>1. ASSUME Len(turns') = Len(turns), late' \subseteq late PROVE ~SendsTurn
  BY <1>1, TurnTypes DEF SendsTurn, RequestInv, DeliveryInv
<1>2. ASSUME UNCHANGED <<turns, late>> PROVE ~SendsTurn
  BY <1>1, <1>2
<1>3. Len(Killed) = Len(turns)
  BY KilledIsTyped DEF RequestInv, DeliveryInv, TypeOK, NativeOK
<1>4. CASE Hold
  <2>1. CASE Close
    BY <1>1, <1>3, <2>1 DEF Close
  <2> QED
    BY <1>2, <1>4, <2>1
       DEF Hold, Check, ReadFails, ReadThread, Reconcile, EnsureIdle, AckReceipt, RecordSent, Interrupt,
           AwaitInterrupted, StopFails, Archive, Settle, Unchanged, native
<1>5. CASE User
  <2>1. CASE ManualTurn
    BY <2>1, TurnTypes DEF ManualTurn, NewTurn, SendsTurn, RequestInv, DeliveryInv
  <2>2. CASE Open
    BY <1>1, <2>2 DEF Open
  <2> QED
    BY <1>2, <1>5, <2>1, <2>2
       DEF User, Continue, RepairIssue, Flush, TaskControl, StopCall, BeginShutdown, RetireBegin,
           StopLocked, Restore, Detach, Unchanged, native
<1>6. CASE LateStart
  <2>1. PICK u \in late : turns' = Append(turns, u) /\ late' \subseteq late
    BY <1>6 DEF LateStart
  <2>2. turns'[Len(turns')] = u
    BY <2>1, TurnTypes DEF RequestInv, DeliveryInv
  <2> QED BY <2>1, <2>2 DEF SendsTurn
<1>7. CASE EndTurn
  <2>1. Len(turns') = Len(turns)
    BY <1>7 DEF EndTurn, RequestInv, DeliveryInv, TypeOK, NativeOK
  <2> QED BY <1>1, <1>7, <2>1 DEF EndTurn
<1>8. CASE ExecutorDies \/ Restart \/ Drain
  BY <1>1, <1>3, <1>8 DEF ExecutorDies, Restart, Drain
<1>9. CASE Deliver \/ StopBegin \/ StopAll \/ ExitStopBegin \/ Record \/ BridgeLost \/ UNCHANGED vars
  BY <1>2, <1>9, RecordFrame
     DEF Deliver, QueueEvent, StopBegin, StopAll, ExitStopBegin, StopLocked, BridgeLost, vars, native
<1> QED BY <1>4, <1>5, <1>6, <1>7, <1>8, <1>9 DEF Next, Exit

\* dispatch_locked under `cancelled`, process_epoch and the saved status: after
\* a pause or a restart nothing asks for a turn until the user does.
THEOREM NothingSentUnasked == Spec => SendsOnlyOnWish
<1>1. RequestInv /\ [Next]_vars => [SendsTurn => wish = "run"]_vars
  BY SendingSteps DEF StartTurn, StartFails, RequestInv, WishIsKept, Sending
<1> QED BY <1>1, RequestInvariant, PTL DEF Spec, SendsOnlyOnWish

\* request_continuation, repair_issue, queue_event and pause_queued_locked
\* leave a request under review alone; no dispatch sends it again.
THEOREM ReviewsAreFinal == Spec => ReviewIsFinal
<1> DEFINE Reviewed == req.status \in Undecided /\ ~Sending
<1>1. RequestInv /\ [Next]_vars /\ Reviewed => ~SendsTurn
  BY SendingSteps DEF StartTurn, StartFails, Sending
<1>2. RequestInv /\ [Next]_vars /\ Reviewed => req' = req \/ life' = "deleted"
  <2> SUFFICES ASSUME RequestInv, [Next]_vars, req.status \in Undecided, ~Sending
               PROVE  req' = req \/ life' = "deleted"
    OBVIOUS
  <2>1. req.status \notin Unsent \cup {"paused"} /\ req.status \in Delivered
    BY DEF Undecided, Unsent, Delivered
  <2>2. CASE Hold
    <3>1. pc # "read"
      BY <2>1 DEF RequestInv, DeliveryInv, HolderKnows
    <3>2. CASE Check
      BY <2>1, <3>2 DEF Check, Finished, Unchanged, files
    <3> QED
      BY <2>2, <3>1, <3>2
         DEF Hold, ReadFails, ReadThread, Reconcile, EnsureIdle, StartTurn, StartFails, AckReceipt,
             RecordSent, Interrupt, AwaitInterrupted, StopFails, Close, Archive, Unchanged, Sending, files
  <2>3. ASSUME NEW why, StopLocked(why) PROVE req' = req
    BY <2>3 DEF StopLocked, Save, PausedRequest
  <2>4. CASE Deliver
    BY <2>1, <2>4 DEF Deliver, QueueEvent, Unsent
  <2>5. CASE User
    <3>1. ASSUME NEW call \in Calls, Continue(call) PROVE req' = req
      BY <3>1 DEF Continue, Refused, files
    <3>2. ASSUME NEW i \in Issues, RepairIssue(i) PROVE req' = req
      <4> DEFINE w == Repair(i, print[i])
      <4>1. w \in RepairWork
        BY <3>2, BoundsAreNatural
           DEF RepairIssue, Repairable, RepairWork, RequestInv, DeliveryInv, TypeOK, RecordOK
      <4>2. req.work = w => repairs[w].status \in Delivered
        BY <2>1, <4>1 DEF RequestInv, SendInv, RepairsAgree
      <4>3. req.status \in Pending
        BY DEF Pending
      <4> QED BY <3>2, <4>2, <4>3 DEF RepairIssue, files
    <3> QED
      BY <2>3, <2>5, <3>1, <3>2
         DEF User, Flush, TaskControl, StopCall, BeginShutdown, RetireBegin, Restore, Open, Detach,
             ManualTurn, Unchanged, files
  <2>6. CASE \/ Record \/ LateStart \/ EndTurn \/ ExecutorDies \/ BridgeLost \/ Restart
             \/ StopAll \/ Drain \/ UNCHANGED vars
    BY <2>6, RecordFrame
       DEF LateStart, EndTurn, ExecutorDies, BridgeLost, Restart, StopAll, Drain, vars, files
  <2> QED BY <2>2, <2>3, <2>4, <2>5, <2>6 DEF Next, StopBegin, Exit, ExitStopBegin
<1>3. RequestInv /\ [Next]_vars =>
        [Reviewed => (req' = req \/ life' = "deleted") /\ ~SendsTurn]_vars
  BY <1>1, <1>2
<1> QED BY <1>3, RequestInvariant, PTL DEF Spec, ReviewIsFinal

\* interrupt_and_wait, stop_locked and stop_all: a stop, and the exit, close
\* the executor only when its own turns have ended; what may be cut off is
\* typed by the user or still under review, unless the stop of the exit failed.
THEOREM StopsWaitForTurns == Spec => StopWaitsForTurns
<1> DEFINE Cut(t) == \/ turns[t].work = Manual
                     \/ req.status \in Undecided /\ req.id = turns[t].id
<1>1. RequestInv /\ pc = "closing" /\ Alive =>
        \A t \in DOMAIN turns : turns[t].status = "inProgress" => Cut(t)
  BY DEF RequestInv, ClosingIsAwaited, MayBeCut
<1>2. RequestInv /\ exit = "closed" /\ Alive =>
        \A t \in DOMAIN turns : turns[t].status = "inProgress" => Cut(t)
  BY DEF RequestInv, ExitIsAwaited
<1>3. RequestInv /\ [Next]_vars /\ exit # "drained" /\ exit' = "drained" =>
        exit \in {"closed", "failed"}
  <2> SUFFICES ASSUME RequestInv, [Next]_vars, exit # "drained", exit' = "drained", ~Drain
               PROVE  FALSE
    BY DEF Drain
  <2>1. CASE Hold
    BY <2>1 DEF Hold, Check, ReadFails, ReadThread, Reconcile, EnsureIdle, StartTurn, StartFails,
                AckReceipt, RecordSent, Interrupt, AwaitInterrupted, StopFails, Close, ExitNotes,
                Archive, Settle, Unchanged, flags
  <2>2. CASE User
    BY <2>2 DEF User, Continue, RepairIssue, Flush, TaskControl, StopCall, BeginShutdown, RetireBegin,
                StopLocked, Restore, Open, Detach, ManualTurn, Unchanged, flags
  <2>3. CASE Record \/ UNCHANGED vars
    BY <2>3, RecordFrame DEF vars, flags
  <2>4. CASE Deliver \/ StopBegin \/ StopAll \/ ExitStopBegin \/ LateStart \/ EndTurn
             \/ ExecutorDies \/ BridgeLost \/ Restart
    BY <2>4 DEF Deliver, QueueEvent, StopBegin, StopAll, ExitStopBegin, LateStart, EndTurn, ExecutorDies,
                BridgeLost, Restart, flags
  <2> QED BY <2>1, <2>2, <2>3, <2>4 DEF Next, Exit
<1>4. RequestInv /\ [Next]_vars =>
        [ClosesExecutor =>
           \/ exit = "failed" /\ exit' = "drained"
           \/ \A t \in DOMAIN turns : turns[t].status = "inProgress" =>
                turns[t].work = Manual \/ (req.status \in Undecided /\ req.id = turns[t].id)]_vars
  BY <1>1, <1>2, <1>3 DEF ClosesExecutor
<1> QED BY <1>4, RequestInvariant, PTL DEF Spec, StopWaitsForTurns
=============================================================================
