------------------------- MODULE ContinuationQueue -------------------------
(***************************************************************************)
(* The Codex continuation queue of one APP conversation                    *)
(* (src-tauri/src/modules/codex_terminal).  A user intent (continue the    *)
(* task, deliver submitted answers, act on a document decision, repair an  *)
(* issue) is persisted in continuation.json and delivered to the native    *)
(* Codex thread as at most one model turn.  One lifecycle lock serializes  *)
(* every operation of the service; `pc` is the point its holder has        *)
(* reached, and every RPC to the native executor is a step of its own, so  *)
(* that turns, other threads and crashes interleave with it.               *)
(***************************************************************************)
EXTENDS Naturals, Sequences, FiniteSets

CONSTANTS
  Groups,        \* question groups published for this conversation
  Issues,        \* issues of the production record
  None,          \* "not about a group or an issue"
  MaxAnswers,    \* bound: answer revisions submitted per group
  MaxPrint,      \* bound: distinct fingerprints an issue can have
  MaxDecisions,  \* bound: document decisions
  MaxTurns,      \* bound: native turns
  MaxManual,     \* bound: turns typed by the user into the terminal
  MaxRequests,   \* bound: continuation requests created
  MaxStops,      \* bound: pause, archive and delete operations
  MaxEpochs      \* bound: runs of the APP process

ASSUME DistinctSubjects == None \notin Groups \cup Issues /\ Groups \cap Issues = {}

ASSUME BoundsAreNatural ==
  /\ MaxAnswers \in Nat /\ MaxPrint \in Nat /\ MaxDecisions \in Nat /\ MaxTurns \in Nat
  /\ MaxManual \in Nat /\ MaxRequests \in Nat /\ MaxStops \in Nat /\ MaxEpochs \in Nat

VARIABLES
  \* files of the conversation directory; they survive a crash
  req,        \* continuation.json
  receipts,   \* intake-<group>-<revision>.json, one per submitted answer
  repairs,    \* issue-repair-<fingerprint>.json, the request as last saved
  life,       \* the conversation: "active", "archived" or "deleted"
  \* the native Codex thread
  turns,      \* its turns since Init, oldest first, named by their position
  \* the production record and the task
  group,      \* status of each question group
  answered,   \* number of the last answer revision of each group
  gate,       \* some document stage is awaiting confirmation
  decisions,  \* document decisions committed so far
  print,      \* fingerprint of each issue, 0 when AI may not repair it
  taskActive, \* the task is in progress
  \* memory of the APP process
  epoch,      \* process_epoch
  cancelled,  \* the conversation is in `cancelled`
  stopping,   \* the conversation is in `stopping`
  exit,       \* how far the exit of the APP is: "no", "begun" (shutting_down),
              \* "waiting" for the lock of its stop, "stopping", "closed" or
              \* "failed" as that stop ended, "drained"
  tracked,    \* the conversation is in `queue_tasks`
  waiters,    \* stop() calls waiting for the lifecycle lock
  executor,   \* "none", "up", or "deaf": alive, its connection lost
  session,    \* a terminal is attached
  events,     \* turn/completed notifications not yet processed
  late,       \* turns of turn/start calls that timed out unanswered
  pc,         \* the step the lock holder is at; "free" when nobody holds it
  stopFor,    \* why the holder is stopping: "pause", "exit", "archive", "delete"
  reply,      \* the turn named by the last turn/start reply
  \* history
  wish,       \* "run" once the user asks for execution, "pausing" from the
              \* next stop or restart, "paused" when a stop closed the executor
  pauses,     \* number of stops begun
  nextId      \* request identifiers handed out

files   == <<req, receipts, repairs, life>>
prodVars == <<group, answered, gate, decisions, print, taskActive>>
flags   == <<cancelled, stopping, exit, tracked, waiters>>
native  == <<executor, session, turns, events, late>>
holder  == <<pc, stopFor, reply>>
history == <<wish, pauses, nextId>>
vars    == <<files, prodVars, epoch, flags, native, holder, history>>
-----------------------------------------------------------------------------
(* What a request asks for.  The code spreads this over group_id,          *)
(* answer_revision, after_revision and repair; they exclude each other.    *)
Plain          == [kind |-> "plain",    about |-> None, n |-> 0]
Manual         == [kind |-> "manual",   about |-> None, n |-> 0]
Answers(g, r)  == [kind |-> "answers",  about |-> g,    n |-> r]
Decision(v)    == [kind |-> "decision", about |-> None, n |-> v]
Repair(i, f)   == [kind |-> "repair",   about |-> i,    n |-> f]

AnswerWork == {Answers(g, r) : g \in Groups, r \in 1..MaxAnswers}
RepairWork == {Repair(i, f) : i \in Issues, f \in 1..MaxPrint}
Work == [kind : {"plain", "manual", "answers", "decision", "repair"},
         about : Groups \cup Issues \cup {None}, n : Nat]

Unsent    == {"queued", "needsConnection"}
Undecided == {"sending", "needsReview"}
Status    == Unsent \cup Undecided \cup
             {"none", "waitingForAnswers", "waitingForApproval", "needsResume",
              "sent", "running", "settled", "paused", "superseded"}

NoRequest == [status |-> "none", id |-> 0, owner |-> 0, work |-> Plain,
              after |-> 0, turn |-> 0]
NoReceipt == [status |-> "none", attempt |-> 0, turn |-> 0]
NoRepair  == [status |-> "none", owner |-> 0]

Request == [status : Status, id : Nat, owner : Nat, work : Work, after : Nat, turn : Nat]
Receipt == [status : {"none", "pending", "sent"}, attempt : Nat, turn : Nat]
\* "stopped" is interrupted or failed: the service never tells them apart.
TurnStatus == {"inProgress", "completed", "stopped"}
\* A turn carries the attempt it was started for (clientUserMessageId), and
\* as history the request and the number of pauses before it.
Turn    == [status : TurnStatus, work : Work, attempt : Nat, id : Nat, pauses : Nat]
Event   == [turn : Nat, completed : BOOLEAN]

HolderSteps == {"free", "check", "read", "reconcile", "idle", "start", "ack", "record",
                "interrupt", "await", "closing", "archiving"}

FilesOK ==
  /\ req \in Request
  /\ receipts \in [AnswerWork -> Receipt]
  /\ repairs \in [RepairWork -> [status : Status, owner : Nat]]
  /\ life \in {"active", "archived", "deleted"}

RecordOK ==
  /\ group \in [Groups -> {"absent", "pending", "submitted", "cancelled"}]
  /\ answered \in [Groups -> 0..MaxAnswers]
  /\ gate \in BOOLEAN /\ decisions \in Nat
  /\ print \in [Issues -> 0..MaxPrint]
  /\ taskActive \in BOOLEAN

FlagsOK ==
  /\ cancelled \in BOOLEAN /\ stopping \in BOOLEAN
  /\ exit \in {"no", "begun", "waiting", "stopping", "closed", "failed", "drained"}
  /\ tracked \in BOOLEAN /\ waiters \in Nat

NativeOK ==
  /\ executor \in {"none", "up", "deaf"} /\ session \in BOOLEAN
  /\ turns \in Seq(Turn) /\ late \subseteq Turn
  /\ events \subseteq Event

HolderOK ==
  /\ pc \in HolderSteps /\ reply \in Nat
  /\ stopFor \in {"pause", "exit", "archive", "delete"}

HistoryOK ==
  wish \in {"run", "pausing", "paused"} /\ pauses \in Nat /\ nextId \in Nat

TypeOK == FilesOK /\ RecordOK /\ epoch \in Nat /\ FlagsOK /\ NativeOK /\ HolderOK /\ HistoryOK

Init ==
  /\ req = NoRequest
  /\ receipts = [w \in AnswerWork |-> NoReceipt]
  /\ repairs = [w \in RepairWork |-> NoRepair]
  /\ life = "active"
  /\ turns = <<>>
  /\ group \in [Groups -> {"absent", "pending"}]
  /\ \A g, h \in Groups : group[g] = "pending" /\ group[h] = "pending" => g = h
  /\ answered = [g \in Groups |-> 0]
  /\ print \in [Issues -> {0, 1} \cap (0..MaxPrint)]
  /\ gate = FALSE /\ decisions = 0 /\ taskActive = TRUE
  /\ epoch = 1
  /\ cancelled = FALSE /\ stopping = FALSE /\ exit = "no"
  /\ tracked = FALSE /\ waiters = 0
  /\ executor = "none" /\ session = FALSE /\ events = {} /\ late = {}
  /\ pc = "free" /\ stopFor = "pause" /\ reply = 0
  /\ wish = "pausing" /\ pauses = 0 /\ nextId = 1
-----------------------------------------------------------------------------
(* The native thread, as thread/read shows it.                             *)
Busy    == \E t \in DOMAIN turns : turns[t].status = "inProgress"
Running == CHOOSE t \in DOMAIN turns : turns[t].status = "inProgress"
Alive   == executor # "none"

\* shutting_down is set.
Exiting == exit # "no"

\* Stops begun or on their way, which MaxStops bounds.
Stops == pauses + waiters + IF exit \in {"begun", "waiting"} THEN 1 ELSE 0

\* Mistaken: the executor process is forgotten but not killed.
KilledNowhere == turns

\* The turns when the process that runs them dies.
Killed == [t \in DOMAIN turns |->
             IF turns[t].status = "inProgress"
             THEN [turns[t] EXCEPT !.status = "stopped"] ELSE turns[t]]

\* A human gate of the production record.
AwaitingAnswers == \E g \in Groups : group[g] = "pending"
Waiting == gate \/ AwaitingAnswers

\* Mistaken: any submitted revision will do.
AnswersSubmitted(w) == group[w.about] = "submitted"

\* The question group still carries the answers the request was made for.
AnswersCurrent(w) == group[w.about] = "submitted" /\ answered[w.about] = w.n

\* prepare_issue_repair: the issue can be repaired by AI right now.
Repairable(i) == taskActive /\ print[i] # 0 /\ ~Waiting

\* Mistaken: a receipt is trusted without reading how its turn ended.
DecideByReceiptOnly(receipt) ==
  CASE receipt.status = "none" -> "start" [] receipt.status = "pending" -> "unknown"
    [] OTHER -> "resume"

\* What a delivery receipt says about answers already handed to the thread.
Decide(receipt) ==
  CASE receipt.status = "none"         -> "start"
    [] receipt.status = "pending"      -> "unknown"
    [] receipt.status = "sent" /\ receipt.turn < Len(turns) -> "superseded"
    [] OTHER -> CASE turns[receipt.turn].status = "inProgress" -> "running"
                  [] turns[receipt.turn].status = "completed"  -> "completed"
                  [] OTHER -> "resume"

\* Persist the request, and its copy under the fingerprint of a repair.
Save(r) ==
  /\ req' = r
  /\ repairs' = IF r.work \in RepairWork
                THEN [repairs EXCEPT ![r.work] = [status |-> r.status, owner |-> r.owner]]
                ELSE repairs

SaveStatus(s) == Save([req EXCEPT !.status = s])

Release == pc' = "free" /\ stopFor' = "pause" /\ reply' = 0
Proceed(step) == pc' = step /\ UNCHANGED <<stopFor, reply>>

\* The holder records a status and gives the lock back; nothing was sent.
Settle(s) ==
  /\ SaveStatus(s)
  /\ Release
  /\ UNCHANGED <<receipts, life, prodVars, epoch, flags, native, history>>

Unchanged == UNCHANGED <<files, prodVars, epoch, flags, native, history>>
-----------------------------------------------------------------------------
(* Intents of the user: request_continuation.                              *)

\* An unsent request of this process that the new call only repeats.
Mergeable(call) ==
  /\ req.status \in Unsent
  /\ req.owner = epoch
  /\ call \in {Plain, req.work}

\* A plain "continue" takes over the unsent work of the previous request.
Carried(call) ==
  LET repairStays == req.work.kind = "repair"
                     /\ req.status \in Unsent \cup {"paused", "needsResume"}
      answersStay == req.work.kind = "answers"
                     /\ req.status \in Unsent \cup {"paused"}
  IN IF call = Plain /\ (repairStays \/ answersStay) THEN req.work ELSE call

NewRequest(w) == [status |-> "queued", id |-> nextId, owner |-> epoch, work |-> w,
                  after |-> 0, turn |-> 0]

\* Mistaken: a request under review gives way to any new call.
RefusedForRepairs(call) ==
  call # Plain /\ req.work.kind = "repair" /\ req.status \in Unsent

\* The call is answered without touching the saved request.
Refused(call) ==
  \/ req.status \in Undecided
  \/ call # Plain /\ req.work.kind = "repair" /\ req.status \in Unsent

\* The calls the APP makes: answers are submitted before they are continued,
\* and may have changed since; a decision carries its committed revision.
Calls == {Plain} \cup {Answers(g, r) : g \in Groups, r \in 1..MaxAnswers}
                 \cup {Decision(v) : v \in 1..MaxDecisions}
Made(call) == /\ call.kind = "answers" => call.n <= answered[call.about]
              /\ call.kind = "decision" => call.n <= decisions

\* The cancellation of an earlier stop is taken back; a stop() announced since
\* `stopping` was checked loses its own with it.
Uncancel ==
  /\ cancelled' = FALSE
  /\ \/ UNCHANGED <<stopping, waiters>>
     \/ Stops < MaxStops /\ stopping' = TRUE /\ waiters' = waiters + 1

Continue(call) ==
  /\ pc = "free" /\ Made(call)
  /\ ~stopping /\ ~Exiting /\ life = "active" /\ taskActive
  /\ tracked' = TRUE
  /\ \/ /\ Refused(call)
        /\ UNCHANGED <<files, cancelled, stopping, waiters, holder, history>>
     \/ /\ ~Refused(call)
        /\ Uncancel
        /\ wish' = "run" /\ UNCHANGED pauses
        /\ \/ /\ Mergeable(call)
              /\ Save(req) /\ UNCHANGED nextId
           \/ /\ ~Mergeable(call) /\ nextId <= MaxRequests
              /\ Save(NewRequest(Carried(call))) /\ nextId' = nextId + 1
        /\ Proceed("check")
        /\ UNCHANGED <<receipts, life>>
  /\ UNCHANGED <<prodVars, epoch, exit, native>>

(* Repair of one issue: repair_issue.                                      *)

\* The previous repair of the same issue still runs natively.
RepairRunning(i) ==
  /\ req.work.kind = "repair" /\ req.work.about = i
  /\ req.status \in {"sent", "running"} /\ Alive
  /\ req.turn \in DOMAIN turns /\ turns[req.turn].status = "inProgress"

\* Mistaken: a repair that was sent but not settled may be repeated.
DeliveredIfSettled == Undecided \cup {"settled"}

Pending == Unsent \cup Undecided \cup {"waitingForAnswers", "waitingForApproval"}
Delivered == Undecided \cup {"sent", "running", "settled"}

RepairIssue(i) ==
  LET w == Repair(i, print[i]) IN
  /\ pc = "free" /\ ~stopping /\ ~Exiting /\ life = "active" /\ Repairable(i)
  /\ \/ /\ req.status \in Pending /\ req.work = w /\ req.owner = epoch
        /\ Proceed("check")
        /\ UNCHANGED <<files, cancelled, stopping, tracked, waiters, history>>
     \/ /\ ~RepairRunning(i)
        /\ req.status \in Pending => req.work = w /\ req.owner # epoch
        /\ repairs[w].status \notin Delivered
        /\ nextId <= MaxRequests
        /\ Save(NewRequest(w)) /\ nextId' = nextId + 1
        /\ Uncancel /\ tracked' = TRUE
        /\ wish' = "run" /\ UNCHANGED pauses
        /\ Proceed("check")
        /\ UNCHANGED <<receipts, life>>
  /\ UNCHANGED <<prodVars, epoch, exit, native>>

\* flush_continuation: a reconnected client asks for its saved request.
Flush ==
  /\ pc = "free" /\ req.status # "none" /\ life # "deleted"
  /\ Proceed("check")
  /\ Unchanged

\* task_control: reading the state of a saved request tracks it again.
TaskControl ==
  /\ pc = "free" /\ req.status # "none" /\ life # "deleted" /\ ~tracked
  /\ tracked' = TRUE
  /\ UNCHANGED <<files, prodVars, epoch, cancelled, stopping, exit, waiters,
                 native, holder, history>>

\* Mistaken: only successful turns wake the queue.
QueueEventOnSuccess(e) ==
  /\ pc = "free" /\ events' = events \ {e}
  /\ IF e.completed /\ req.status = "queued" /\ req.owner = epoch /\ req.after = e.turn
     THEN Proceed("check") ELSE UNCHANGED holder
  /\ UNCHANGED <<files, prodVars, epoch, flags, executor, session, turns, late, history>>

\* queue_event: the thread spawned by a turn/completed notification.
QueueEvent(e) ==
  /\ pc = "free"
  /\ events' = events \ {e}
  /\ \/ /\ req.status = "queued" /\ req.owner = epoch /\ req.after = e.turn
        /\ IF e.completed THEN Proceed("check") /\ UNCHANGED <<req, repairs>>
                          ELSE SaveStatus("paused") /\ UNCHANGED holder
     \/ /\ ~(req.status = "queued" /\ req.owner = epoch /\ req.after = e.turn)
        /\ UNCHANGED <<req, repairs, holder>>
  /\ UNCHANGED <<receipts, life, prodVars, epoch, flags, executor, session, turns, late, history>>
-----------------------------------------------------------------------------
(* Dispatch of the saved request: dispatch_or_record, dispatch_locked.     *)

\* Mistaken: a request saved by an earlier run of the APP is sent as well, or
\* a request that was sent is sent again.
HeldBackHereOnly == Exiting \/ cancelled \/ req.status = "paused"
FinishedIfSettled == req.status \notin Unsent \cup {"sent"}

\* Early returns: pause, shutdown, another process, or nothing left to send.
HeldBack == Exiting \/ cancelled \/ req.owner # epoch \/ req.status = "paused"
Finished == req.status \notin Unsent

\* The status the local checks give, or "go".
CheckStatus ==
  CASE ~taskActive \/ life # "active" \/ (req.work.kind = "decision" /\ req.work.n > decisions)
              -> "needsResume"
    [] Waiting /\ req.work.kind = "repair" -> "paused"
    [] gate                                -> "waitingForApproval"
    [] AwaitingAnswers                     -> "waitingForAnswers"
    [] req.work.kind = "repair" /\ print[req.work.about] # req.work.n -> "superseded"
    [] req.work.kind = "answers" /\ ~AnswersCurrent(req.work) -> "superseded"
    [] ~Alive                              -> "needsConnection"
    [] OTHER                               -> "go"

Check ==
  /\ pc = "check"
  /\ \/ /\ HeldBack \/ Finished
        /\ Release /\ Unchanged
     \/ /\ ~HeldBack /\ ~Finished /\ CheckStatus = "go"
        /\ Proceed("read") /\ Unchanged
     \/ /\ ~HeldBack /\ ~Finished /\ CheckStatus # "go"
        /\ Settle(CheckStatus)

\* thread/read failed: nothing was sent, the request waits for the user.
ReadFails == pc = "read" /\ Settle("needsResume")

\* thread/read answered: reconcile with the receipt, wait for a running turn,
\* ask for a terminal, or mark the request as being sent.
ReadThread ==
  LET answers  == req.work \in AnswerWork
      verdict  == IF answers THEN Decide(receipts[req.work]) ELSE "start"
  IN
  /\ pc = "read" /\ executor = "up"
  /\ \/ /\ verdict \in {"running", "completed", "superseded"}
        /\ Save([req EXCEPT !.status = IF verdict = "running" THEN "running" ELSE "settled",
                            !.turn = receipts[req.work].turn])
        /\ Release
     \/ /\ verdict = "unknown"
        /\ SaveStatus("needsReview") /\ Release
     \/ /\ verdict \in {"start", "resume"} /\ Busy
        /\ IF req.work = Plain
           THEN SaveStatus("running")
           ELSE Save([req EXCEPT !.status = "queued", !.after = Running])
        /\ Release
     \/ /\ verdict \in {"start", "resume"} /\ ~Busy /\ ~session
        /\ SaveStatus("needsConnection") /\ Release
     \/ /\ verdict \in {"start", "resume"} /\ ~Busy /\ session
        /\ SaveStatus("sending")
        /\ Proceed(IF answers THEN "reconcile" ELSE "start")
  /\ UNCHANGED <<receipts, life, prodVars, epoch, flags, native, history>>

\* continue_questions_locked up to the connection check: the production
\* record, the receipt and the thread are read again.
Reconcile ==
  LET verdict == Decide(receipts[req.work]) IN
  /\ pc = "reconcile"
  /\ \/ ~AnswersCurrent(req.work) /\ SaveStatus("needsReview") /\ Release
     \/ receipts[req.work].status # "none" /\ SaveStatus("needsReview") /\ Release
     \/ /\ AnswersCurrent(req.work) /\ verdict \in {"running", "completed", "superseded"}
        /\ Save([req EXCEPT !.status = IF verdict = "running" THEN "sent" ELSE "settled",
                            !.turn = receipts[req.work].turn])
        /\ Release
     \/ /\ AnswersCurrent(req.work) /\ verdict \in {"start", "resume"}
        /\ ~(session /\ Alive)
        /\ SaveStatus("needsConnection") /\ Release
     \/ /\ AnswersCurrent(req.work) /\ verdict \in {"start", "resume"}
        /\ session /\ Alive
        /\ Proceed("idle") /\ UNCHANGED <<req, repairs>>
  /\ UNCHANGED <<receipts, life, prodVars, epoch, flags, native, history>>

\* ensure_idle, then the attempt is written as pending before the RPC.
EnsureIdle ==
  /\ pc = "idle"
  /\ \/ /\ SaveStatus("needsReview") /\ Release /\ UNCHANGED receipts
     \/ /\ executor = "up" /\ ~Busy
        /\ receipts' = [receipts EXCEPT ![req.work] =
                          [status |-> "pending", attempt |-> @.attempt + 1, turn |-> 0]]
        /\ Proceed("start") /\ UNCHANGED <<req, repairs>>
  /\ UNCHANGED <<life, prodVars, epoch, flags, native, history>>

NewTurn(w, a, id) == [status |-> "inProgress", work |-> w, attempt |-> a,
                      id |-> id, pauses |-> pauses]

\* The attempt announced for the request's answers; other work has none.
Announced == IF req.work \in AnswerWork THEN receipts[req.work].attempt ELSE 0

\* turn/start is accepted; its reply arrives, or times out.
StartTurn ==
  /\ pc = "start" /\ executor = "up" /\ ~Busy /\ Len(turns) < MaxTurns
  /\ turns' = Append(turns, NewTurn(req.work, Announced, req.id))
  /\ \/ /\ pc' = IF req.work \in AnswerWork THEN "ack" ELSE "record"
        /\ reply' = Len(turns) + 1
        /\ UNCHANGED <<req, repairs, stopFor>>
     \/ SaveStatus("needsReview") /\ Release
  /\ UNCHANGED <<receipts, life, prodVars, epoch, flags, executor, session, events, late, history>>

\* turn/start is refused or lost, or not yet executed when it times out.
StartFails ==
  /\ pc = "start"
  /\ SaveStatus("needsReview") /\ Release
  /\ \/ UNCHANGED late
     \/ executor = "up" /\ late' = late \cup {NewTurn(req.work, Announced, req.id)}
  /\ UNCHANGED <<receipts, life, prodVars, epoch, flags, executor, session, turns, events, history>>

\* The executor gets to a turn/start nobody waits for any more.
LateStart ==
  /\ Alive /\ ~Busy /\ Len(turns) < MaxTurns
  /\ \E turn \in late : turns' = Append(turns, turn) /\ late' = late \ {turn}
  /\ UNCHANGED <<files, prodVars, epoch, flags, executor, session, events, holder, history>>

\* The receipt of the answers is rewritten with the turn that took them.
AckReceipt ==
  /\ pc = "ack"
  /\ receipts' = [receipts EXCEPT ![req.work] =
                    [status |-> "sent", attempt |-> @.attempt, turn |-> reply]]
  /\ Proceed("record")
  /\ UNCHANGED <<req, repairs, life, prodVars, epoch, flags, native, history>>

RecordSent ==
  /\ pc = "record"
  /\ Save([req EXCEPT !.status = "sent", !.turn = reply])
  /\ Release
  /\ UNCHANGED <<receipts, life, prodVars, epoch, flags, native, history>>
-----------------------------------------------------------------------------
(* Pause, archive, delete: stop, stop_locked, interrupt_and_wait.          *)

\* stop() marks the conversation before it waits for the lock.
StopCall ==
  /\ Stops < MaxStops
  /\ waiters' = waiters + 1
  /\ stopping' = TRUE /\ cancelled' = TRUE
  /\ UNCHANGED <<files, prodVars, epoch, exit, tracked, native, holder, history>>

\* begin_shutdown: the exit is announced and nothing is stopped yet.
BeginShutdown ==
  /\ ~Exiting /\ Stops < MaxStops
  /\ exit' = "begun"
  /\ UNCHANGED <<files, prodVars, epoch, cancelled, stopping, tracked, waiters, native, holder, history>>

\* stop_all: stop() for a conversation that a session, a saved request or an
\* executor refers to; it marks the conversation and waits for the lock.
StopAll ==
  /\ exit = "begun"
  /\ IF tracked \/ session \/ Alive
     THEN exit' = "waiting" /\ stopping' = TRUE /\ cancelled' = TRUE
     ELSE exit' = "closed" /\ UNCHANGED <<stopping, cancelled>>
  /\ UNCHANGED <<files, prodVars, epoch, tracked, waiters, native, holder, history>>

\* Mistaken: a pause also settles a request under review.
PausedAlways == [req EXCEPT !.status = "paused"]

\* pause_queued_locked: what a stop makes of the saved request.
PausedRequest == IF req.status \in Undecided THEN req ELSE [req EXCEPT !.status = "paused"]

StopLocked(why) ==
  /\ cancelled' = TRUE
  /\ IF tracked /\ req.status # "none" THEN Save(PausedRequest) ELSE UNCHANGED <<req, repairs>>
  /\ pc' = IF Alive THEN "interrupt" ELSE "closing"
  /\ stopFor' = why
  /\ wish' = "pausing" /\ pauses' = pauses + 1
  /\ UNCHANGED <<receipts, life, prodVars, epoch, tracked, native, reply, nextId>>

StopBegin ==
  /\ pc = "free" /\ waiters > 0
  /\ waiters' = waiters - 1 /\ UNCHANGED <<stopping, exit>>
  /\ StopLocked("pause")

\* The stop of the exit gets the lock.
ExitStopBegin ==
  /\ pc = "free" /\ exit = "waiting"
  /\ exit' = "stopping" /\ UNCHANGED <<stopping, waiters>>
  /\ StopLocked("exit")

\* set_conversation_archived and delete_conversation stop without announcing it.
RetireBegin(why) ==
  /\ pc = "free" /\ Stops < MaxStops
  /\ life = "active" \/ (life = "archived" /\ why = "delete")
  /\ UNCHANGED <<waiters, stopping, exit>>
  /\ StopLocked(why)

\* Mistaken: the mark stays when stop() returns.
UnmarkNever == UNCHANGED stopping

\* stop() forgets the mark when it returns, with success or without.
Unmark == stopping' = IF stopFor \in {"pause", "exit"} THEN FALSE ELSE stopping

\* stop_all learns that its stop returned, not whether it failed.
ExitNotes(end) == exit' = IF stopFor = "exit" THEN end ELSE exit

\* Mistaken: the interrupt is sent and not awaited.
InterruptOnly == pc = "interrupt" /\ executor = "up" /\ Proceed("closing") /\ Unchanged

Interrupt ==
  /\ pc = "interrupt" /\ executor = "up"
  /\ Proceed(IF Busy THEN "await" ELSE "closing")
  /\ Unchanged

AwaitInterrupted ==
  /\ pc = "await" /\ executor = "up" /\ ~Busy
  /\ Proceed("closing")
  /\ Unchanged

\* An RPC failed or the turn did not stop in time: executor and terminal stay.
StopFails ==
  /\ pc \in {"interrupt", "await"}
  /\ Release /\ Unmark /\ ExitNotes("failed")
  /\ UNCHANGED <<files, prodVars, epoch, cancelled, tracked, waiters, native, history>>

Close ==
  /\ pc = "closing"
  /\ session' = FALSE /\ executor' = "none"
  /\ turns' = IF Alive THEN Killed ELSE turns
  /\ late' = {}
  /\ wish' = IF Alive THEN "paused" ELSE wish
  /\ Unmark /\ ExitNotes("closed")
  /\ IF stopFor \in {"pause", "exit"} THEN Release ELSE Proceed("archiving")
  /\ UNCHANGED <<files, prodVars, epoch, cancelled, tracked, waiters, events, pauses, nextId>>

\* Mistaken: what stop_all has left is forgotten, not killed.
DrainForgets ==
  /\ exit \in {"closed", "failed"} /\ exit' = "drained"
  /\ UNCHANGED <<files, prodVars, epoch, cancelled, stopping, tracked, waiters, native, holder, history>>

\* The end of stop_all: with the stop done or failed, the executor that is
\* left is killed without the lock, whatever runs on it.
Drain ==
  /\ exit \in {"closed", "failed"} /\ exit' = "drained"
  /\ executor' = "none"
  /\ turns' = IF Alive THEN Killed ELSE turns
  /\ late' = {}
  /\ wish' = IF Alive THEN "paused" ELSE wish
  /\ UNCHANGED <<files, prodVars, epoch, cancelled, stopping, tracked, waiters, session, events,
                 holder, pauses, nextId>>

\* thread/archive fails (nothing more happens), or the conversation is
\* archived, and for a deletion its directory and marks are removed.
Archive ==
  /\ pc = "archiving" /\ Release
  /\ \/ UNCHANGED <<files, cancelled, stopping, tracked>>
     \/ /\ stopFor = "archive" /\ life' = "archived"
        /\ UNCHANGED <<req, receipts, repairs, cancelled, stopping, tracked>>
     \/ /\ stopFor = "delete" /\ life' = "deleted"
        /\ req' = NoRequest
        /\ receipts' = [w \in AnswerWork |-> NoReceipt]
        /\ repairs' = [w \in RepairWork |-> NoRepair]
        /\ tracked' = FALSE /\ cancelled' = FALSE /\ stopping' = FALSE
  /\ UNCHANGED <<prodVars, epoch, exit, waiters, native, history>>

Restore ==
  /\ pc = "free" /\ life = "archived"
  /\ life' = "active"
  /\ UNCHANGED <<req, receipts, repairs, prodVars, epoch, flags, native, holder, history>>
-----------------------------------------------------------------------------
(* Terminal and executor.                                                  *)

\* open: a fresh executor replaces an idle one and resumes the thread.  A
\* failed start or resume leaves no executor; a busy one is left alone.
Open ==
  /\ pc = "free" /\ life = "active" /\ ~session
  /\ executor = "none" \/ (executor = "up" /\ ~Busy)
  /\ late' = {}
  /\ \/ ~Busy /\ executor' = "up" /\ session' = TRUE
     \/ executor' = "none" /\ UNCHANGED session
  /\ UNCHANGED <<files, prodVars, epoch, flags, turns, events, holder, history>>

\* The terminal process exits; the executor keeps its turn (spawn_monitor).
Detach ==
  /\ session /\ session' = FALSE
  /\ UNCHANGED <<files, prodVars, epoch, flags, executor, turns, events, late, holder, history>>

\* The user types a message into the attached terminal.
ManualTurn ==
  /\ session /\ Alive /\ ~Busy /\ Len(turns) < MaxTurns
  /\ Cardinality({t \in DOMAIN turns : turns[t].work = Manual}) < MaxManual
  /\ turns' = Append(turns, NewTurn(Manual, 0, 0))
  /\ UNCHANGED <<files, prodVars, epoch, flags, executor, session, events, late, holder, history>>

\* The native turn ends; a connected executor notifies the service.
EndTurn ==
  /\ Busy
  /\ \E s \in {"completed", "stopped"} :
       /\ turns' = [turns EXCEPT ![Running].status = s]
       /\ events' = IF executor = "up"
                    THEN events \cup {[turn |-> Running, completed |-> s = "completed"]}
                    ELSE events
  /\ UNCHANGED <<files, prodVars, epoch, flags, executor, session, late, holder, history>>

\* The executor process dies with its turn and notifies nobody.
ExecutorDies ==
  /\ Alive /\ executor' = "none"
  /\ turns' = Killed /\ late' = {}
  /\ UNCHANGED <<files, prodVars, epoch, flags, session, events, holder, history>>

\* The bridge thread ends on a socket error while the executor lives on.
BridgeLost ==
  /\ executor = "up" /\ executor' = "deaf"
  /\ UNCHANGED <<files, prodVars, epoch, flags, session, turns, events, late, holder, history>>

\* The APP crashes or exits and starts again: memory is lost, files stay, and
\* a running turn either dies with its executor or outlives the APP.
Restart ==
  /\ epoch < MaxEpochs /\ epoch' = epoch + 1
  /\ turns' \in {turns, Killed}
  /\ cancelled' = FALSE /\ stopping' = FALSE /\ exit' = "no"
  /\ tracked' = FALSE /\ waiters' = 0
  /\ executor' = "none" /\ session' = FALSE /\ events' = {} /\ late' = {}
  /\ Release /\ wish' = "pausing"
  /\ UNCHANGED <<files, prodVars, pauses, nextId>>
-----------------------------------------------------------------------------
(* The production record and the task; none of these takes the lock.  The  *)
(* agent acts through its command line while a turn runs.                  *)

prodFrame == UNCHANGED <<files, epoch, flags, native, holder, history>>

Publish(g) ==
  /\ taskActive /\ Busy /\ group[g] = "absent" /\ ~AwaitingAnswers
  /\ group' = [group EXCEPT ![g] = "pending"]
  /\ UNCHANGED <<answered, gate, decisions, print, taskActive>> /\ prodFrame

\* submit-answers, amend, cancel; each may reset a stage under confirmation.
Answer(g) ==
  /\ taskActive
  /\ \/ /\ group[g] = "pending" /\ answered[g] < MaxAnswers
        /\ group' = [group EXCEPT ![g] = "submitted"]
        /\ answered' = [answered EXCEPT ![g] = @ + 1]
     \/ /\ group[g] = "pending"
        /\ group' = [group EXCEPT ![g] = "cancelled"] /\ UNCHANGED answered
     \/ /\ group[g] = "submitted" /\ ~AwaitingAnswers
        /\ group' = [group EXCEPT ![g] = "pending"] /\ UNCHANGED answered
  /\ gate' \in {gate, FALSE}
  /\ UNCHANGED <<decisions, print, taskActive>> /\ prodFrame

SubmitDocument ==
  /\ taskActive /\ Busy /\ ~gate /\ decisions < MaxDecisions
  /\ gate' = TRUE
  /\ UNCHANGED <<group, answered, decisions, print, taskActive>> /\ prodFrame

Decided ==
  /\ taskActive /\ gate
  /\ gate' = FALSE /\ decisions' = decisions + 1
  /\ UNCHANGED <<group, answered, print, taskActive>> /\ prodFrame

UpdateIssue(i) ==
  /\ taskActive
  /\ \E f \in 0..MaxPrint \ {print[i]} : print' = [print EXCEPT ![i] = f]
  /\ UNCHANGED <<group, answered, gate, decisions, taskActive>> /\ prodFrame

SetTaskStatus ==
  /\ taskActive' = ~taskActive
  /\ UNCHANGED <<group, answered, gate, decisions, print>> /\ prodFrame
-----------------------------------------------------------------------------
\* What the holder of the lock does next.
Hold == \/ Check \/ ReadFails \/ ReadThread \/ Reconcile \/ EnsureIdle
        \/ StartTurn \/ StartFails \/ AckReceipt \/ RecordSent
        \/ Interrupt \/ AwaitInterrupted \/ StopFails \/ Close \/ Archive

Deliver == \E e \in events : QueueEvent(e)

User == \/ \E call \in Calls : Continue(call)
        \/ \E i \in Issues : RepairIssue(i)
        \/ Flush \/ TaskControl \/ StopCall \/ BeginShutdown
        \/ \E why \in {"archive", "delete"} : RetireBegin(why)
        \/ Restore \/ Open \/ Detach \/ ManualTurn

Record == \/ \E g \in Groups : Publish(g) \/ Answer(g)
          \/ SubmitDocument \/ Decided \/ SetTaskStatus
          \/ \E i \in Issues : UpdateIssue(i)

\* The thread that ends the APP.
Exit == StopAll \/ ExitStopBegin \/ Drain

Next == \/ Hold \/ Deliver \/ StopBegin \/ Exit \/ User \/ Record
        \/ LateStart \/ EndTurn \/ ExecutorDies \/ BridgeLost \/ Restart

Spec == Init /\ [][Next]_vars

\* RPCs time out, so the holder always moves; the lifecycle mutex is
\* eventually fair; a native turn ends, by itself or interrupted; the thread
\* that ends the APP runs.
FairSpec == /\ Spec
            /\ WF_vars(StopAll) /\ SF_vars(ExitStopBegin) /\ WF_vars(Drain)
            /\ WF_vars(Hold) /\ SF_vars(executor = "up" /\ Deliver) /\ SF_vars(StopBegin) /\ WF_vars(EndTurn)
-----------------------------------------------------------------------------
(* Properties.                                                             *)

\* A request, whatever wakes it (the caller, a completion event, a flush of a
\* reconnected client, a duplicate click), starts at most one native turn.
OneTurnPerRequest ==
  \A s, t \in DOMAIN turns :
    s # t /\ turns[s].work # Manual /\ turns[t].work # Manual => turns[s].id # turns[t].id

\* Submitted answers are handed to the model again only after every earlier
\* turn that took them was interrupted or failed: a running, completed or
\* unknown attempt is never replayed, across pauses, restarts and re-queueing.
AnswersNotReplayed ==
  \A s, t \in DOMAIN turns :
    s < t /\ turns[s].work = turns[t].work /\ turns[s].work \in AnswerWork
      => turns[s].status = "stopped"

\* The revisions of a group reach the model in the order they were submitted:
\* neither a stale call nor a request queued before an amendment delivers an
\* older revision after a newer one.
AnswersInOrder ==
  \A s, t \in DOMAIN turns :
    s < t /\ turns[s].work \in AnswerWork /\ turns[t].work \in AnswerWork
          /\ turns[s].work.about = turns[t].work.about
      => turns[s].work.n <= turns[t].work.n

\* An attempt whose outcome is unknown stays in front of the user: its request
\* is the current one and says sending or needsReview.
AmbiguityIsVisible ==
  \A w \in AnswerWork : receipts[w].status = "pending"
    => req.work = w /\ req.status \in Undecided

\* A repair is delivered twice for one fingerprint only if the user paused the
\* conversation in between, even when its request was replaced or restarted.
RepairOncePerPause ==
  \A s, t \in DOMAIN turns :
    s < t /\ turns[s].work = turns[t].work /\ turns[s].work \in RepairWork
      => turns[s].pauses < turns[t].pauses

\* The service asks the executor for a turn.
SendsTurn == \/ ~(late' \subseteq late)
             \/ /\ Len(turns') > Len(turns)
                /\ turns'[Len(turns')] \notin late
                /\ turns'[Len(turns')].work # Manual

\* No turn is requested for a paused or restarted conversation until the user
\* asks again: a late completion, a flush or a reconnect cannot override it.
SendsOnlyOnWish == [][SendsTurn => wish = "run"]_vars

\* After a stop has closed the executor no turn of the service runs, whatever
\* was queued, in flight or half sent, until the user asks again.
PauseIsQuiet ==
  wish = "paused" =>
    \A t \in DOMAIN turns : turns[t].status = "inProgress" => turns[t].work = Manual

\* When the exit has come to its end no executor works for the service: its
\* stop may have failed, a call may have timed out, and `open` starts a new
\* executor without asking whether the APP exits.
ExitIsQuiet ==
  exit = "drained" /\ Alive =>
    \A t \in DOMAIN turns : turns[t].status = "inProgress" => turns[t].work = Manual

\* The lock holder is between announcing a delivery and recording its outcome.
Sending == pc \in {"reconcile", "idle", "start", "ack", "record"}

\* A request whose delivery is unknown is neither replaced, resumed, paused
\* nor delivered again; only deleting the conversation ends it.
ReviewIsFinal ==
  [][(req.status \in Undecided /\ ~Sending) =>
        (req' = req \/ life' = "deleted") /\ ~SendsTurn]_vars

\* The APP closes an executor: at the end of a stop, or as it exits.
ClosesExecutor ==
  /\ Alive /\ executor' = "none"
  /\ pc = "closing" \/ (exit # "drained" /\ exit' = "drained")

\* Closing the executor cuts off no turn of the service that could be known
\* of, unless its request is under review or the APP exits although its own
\* stop failed: every stop waits for the interrupt, and so does the exit.
StopWaitsForTurns ==
  [][ClosesExecutor =>
       \/ exit = "failed" /\ exit' = "drained"
       \/ \A t \in DOMAIN turns : turns[t].status = "inProgress" =>
            turns[t].work = Manual \/ (req.status \in Undecided /\ req.id = turns[t].id)]_vars

\* A request queued behind a running turn is taken off the queue once that
\* turn ends, however its end, the saving of the request and the lock
\* interleave, unless the executor is lost or the APP stops.
QueuedBehind == req.status = "queued" /\ req.owner = epoch /\ executor = "up"
                /\ req.after \in DOMAIN turns /\ turns[req.after].status = "inProgress"
QueuedIsServed == QueuedBehind ~> (req.status # "queued" \/ executor # "up" \/ Exiting)

\* Every stop gets the lock and returns, the mark that refuses new requests
\* meanwhile goes with it, and the exit gets past its stop and the draining.
StopsReturn == (stopping \/ waiters > 0 \/ Exiting)
                 ~> (~stopping /\ waiters = 0 /\ exit \in {"no", "drained"})
-----------------------------------------------------------------------------
(* Refinement: the queue implements AnswerDelivery.                        *)

\* The turn that carries the attempt a receipt speaks of.
Carries(t, w) == turns[t].work = w /\ turns[t].attempt = receipts[w].attempt

PhaseOf(w) ==
  IF receipts[w].status = "none" THEN "never"
  ELSE IF \E t \in DOMAIN turns : Carries(t, w)
  THEN LET t == CHOOSE u \in DOMAIN turns : Carries(u, w)
       IN IF turns[t].status = "inProgress" THEN "running" ELSE turns[t].status
  ELSE "announced"

Delivery == INSTANCE AnswerDelivery WITH
  Items <- AnswerWork, phase <- [w \in AnswerWork |-> PhaseOf(w)], kept <- life # "deleted"

\* Whatever requests, pauses, restarts and lost replies do, every step of the
\* queue is a step the abstract delivery allows, or none.
ImplementsDelivery == Delivery!Spec
=============================================================================
