# A verification project for the ABYA Desktop Development Tool

The ABYA Desktop Development Tool is a Tauri application: a Rust backend
(`src-tauri/src`), a React frontend (`src`), and a command line for agents
(`tools/abya`, `src-tauri/src/bin/abya-desktop.rs`). It runs AI coding agents
in terminals for a development task, keeps a production record with human
confirmation gates, launches game instances, collects their logs and sends them
archives. This directory holds TLA+ models of its core logic, TLC
configurations that check them, and TLAPS proofs about them.
All paths below are relative to the repository; `CT` stands for
`src-tauri/src/modules/codex_terminal`, `TP` for
`src-tauri/src/modules/tasks/production`.

## 1. The system

| component | state it keeps | operations | how it interacts |
|---|---|---|---|
| codex-terminal: continuation queue (`CT/continuation_queue.rs`, `intake*.rs`, `issue_repair.rs`, `task_control.rs`) | per conversation: `continuation.json`, one delivery receipt per submitted answer, one receipt per repair fingerprint; in memory: `lifecycle_lock`, `cancelled`, `stopping`, `queue_tasks`, `process_epoch`, `shutting_down` | continue, submit answers, continue after a decision, repair an issue, flush, react to `turn/completed` | reads the production record, calls the executor by RPC, is woken by its notifications |
| codex-terminal: conversations and executors (`CT/mod.rs`, `lifecycle.rs`, `app_server.rs`, `recovery.rs`, `preflight.rs`) | live terminals, one app-server process per conversation, thread bindings | open, stop, stop all, archive, restore, delete; terminal monitor; bridge thread | shares the lock with the queue |
| development-tasks (`tasks/mod.rs`) | task row, workspace directory, managed skills | create, update, set status, delete | gates everything else by "the task is active" |
| production record (`TP/*`) | stages, documents, approvals, question groups, evidence, issues, rounds, revision and history | initialize, update (20 operations), decide, answer | optimistic revision; read by the queue and by task completion |
| game-connections (`game_connections`) | gateway, sessions by instance, pending transfers | start, stop, connection task, heartbeat | calls instances and logs on connect and disconnect |
| game-instances (`instances`) | `game_instances` rows, live child processes | launch, stop, monitor, delete, register connection | owned by a task, used by transfers and the runtime bridge |
| game-logs (`logs`) | log sessions with a cursor, events | connection started/stopped, start, stop, ingest, prune, repair | fed by connections |
| archive-transfer (`archive_transfer`) | transfer rows, active transfers | start, cancel, stop all, run task | offer / decision / chunks / result over a session |
| game-runtime-bridge (`runtime_bridge`) | in-flight operations, cancel flags, acceptance runs | execute, cancel, accept | runs the game CLI for an instance |
| desktop-cli (`desktop_cli`, `foundation`) | pipe server generation, task leases | start, stop, dispatch | the agents' way into every service |
| development-terminal (`development_terminal`) | workflow snapshot: turns, plans, activities, timing, transcript | begin turn, update plan, record activity, complete turn | written by both terminals |
| grok-terminal (`grok_terminal`) | sessions, workflow lock | open, stop, delete | as codex-terminal, without a queue |
| game-archives, app-shell, frontend, release scripts | none of their own, or views | | |

What is hard here: one lifecycle lock is held across RPCs to another process
that may time out and still execute; notifications arrive on another thread and
wait for the same lock; the user may type into the same native thread; the APP
or the executor may die between any two writes; the production record is
changed by agents and users without that lock; several services answer to the
same game connection. `PROJECT.json` lists each such hazard at its line.

What makes each component correct, in a sentence: the **queue** delivers each
user intent at most once, in order, only while the user wants execution, and
never hides an unknown outcome; a **stop** really stops; **production** lets no
stage pass without the user's approval of the document as it is, and a change
upstream invalidates what was built on it; **connections/instances/logs** agree
about who is connected and lose or repeat no event; a **transfer** ends in one
final status that says what happened; the **runtime bridge** never replays an
operation; the **workflow** shows the turns there were.

## 2. Modules

| module | what it is |
|---|---|
| `ContinuationQueue` | the queue, the lock holder, the executor, the native thread, and what the production record shows of itself, for one conversation; the properties |
| `AnswerDelivery` | what the queue promises about submitted answers, without requests, locks or processes |
| `MCContinuationQueue` | the instances TLC checks |
| `ContinuationQueueDelivery` | types, the inductive invariant of deliveries and two safety theorems |
| `ContinuationQueueRequests` | one turn per request, order of answers, repairs, pauses, review and stops |
| `ContinuationQueueRefinement` | proof that the queue implements `AnswerDelivery` |
| `GameSessions` | the game gateway, its connection tasks and server tasks, the registry of live sessions, the connection column of `game_instances` |
| `InstanceProcess` | launch, stop, monitor and deletion of game processes, and of the task they belong to |
| `LogCollection` | the log sessions and cursor of one instance, fed by connections that come and go |
| `ReliableLog` | what log collection promises to a game: events stored in order, none forgotten before |
| `MCGameSessions`, `MCInstanceProcess`, `MCLogCollection` | the instances TLC checks |
| `GameSessionsProofs` | types, the registry holds no ghosts, the running flag is true, cleanups spare newer sessions, the rows a hello can find |
| `InstanceProcessProofs` | types, and that every owned process is recorded |
| `LogCollectionProofs` | types, nothing is skipped, cursors never move back, and log collection implements `ReliableLog` |
| `ProductionWorkflow` | the production record of one task: documents, decisions, questions, versions, tests, visuals, feedback, stages, completion |
| `ArchiveTransfer` | transfers of archives to connected games, with the part of the registry they use |
| `TransferPromise` | what a transfer promises: one ending, which says what the game and its user did |
| `MCProductionWorkflow`, `MCArchiveTransfer` | the instances TLC checks |
| `ProductionProofs` | types and the six properties of the production record |
| `ArchiveTransferProofs` | types, the five safety properties of transfers, and that they keep `TransferPromise` |

`ContinuationQueue` and the game modules share no state: an agent's
conversation and a running game meet only through the user and the files of the
task. `ProductionWorkflow` is the record of which `ContinuationQueue` keeps what
a dispatch reads (question groups, a document gate, a count of decisions), as
variables that change whenever the record may. `ArchiveTransfer` has the
registry again, reduced to the session an instance has and the life of each
connection: it adds the second lock (`pending_transfers`) and the two steps of
`remove_if_current` and `stop_all`, which `GameSessions` needs as one. The game modules meet in the coordinator of `lib.rs`:
`GameConnectionCoordinator` calls instances and then logs on connect and on
disconnect, so that a session's arrival is `Register`, `StartLog`, `Admit` in
`GameSessions`, where `StartLog` stands for the `LookUp`, `Resume`, `Create` of
`LogCollection`; `Admit` and `Welcome` are the same code, and so are `ReportLeft`
and `Report`. `InstanceProcess` sees connections as the set `connected` that
changes at any time, `GameSessions` sees processes as the set `active`.
Each module checks the interleavings of its own component in full, with the
others reduced to what they may do to it.

### How `ContinuationQueue` corresponds to the code

*State.* `req` is `continuation.json`; its `work` field folds the code's
`group_id`/`answer_revision`, `after_revision` and `repair`, of which at most
one is set. `receipts` are the `intake-<group>-<revision>.json` files,
`repairs` the `issue-repair-<fingerprint>.json` files. `turns` is the native
thread. Question groups, the document gate, the count of decisions and the
issues' fingerprints are what the dispatch reads of the production record.
`cancelled`, `stopping`, `exit` (`shutting_down`, and how far `stop_all` has
come), `tracked` (`queue_tasks`), `epoch` (`process_epoch`) are memory and disappear in a
`Restart`. `wish`, `pauses`, the `id` and `pauses` of a turn are history: no
action reads them.

*The lock.* `lifecycle_lock` serializes `request_continuation`, `repair_issue`,
`flush_continuation`, `queue_event`, `stop`, archive, delete and `open`. `pc` is
the point its holder has reached: `check` (local checks of `dispatch_locked`),
`read` (thread/read), `reconcile` (`continue_questions_locked`), `idle`
(`ensure_idle` and the attempt file), `start` (turn/start), `ack` (receipt
rewritten as sent), `record` (request saved as sent), `interrupt`, `await`,
`closing` (`stop_locked`), `archiving`. Between two of these every other actor
may move: the native thread, the user's terminal, agents changing the record,
`stop()` announcing itself, a crash.

*Actors.* The user (continue, repair, flush, stop, archive, delete, restore,
open, typing into the terminal), the production record (publish questions,
answer, amend, submit a document, decide, update an issue, task status), the
executor (starts, ends, dies, loses its connection), the APP (crash, restart,
exit). The exit is `begin_shutdown`, then `stop_all`: a stop whose error is
ignored (`ExitStopBegin` and the steps of every stop), and the kill of what is
left without the lock (`Drain`).

*Time.* A turn/start whose reply is lost either never executes, has executed,
or executes later (`late`): `AppServerHandle::request` gives up after its
timeout, the executor may not. Events that are never processed (their executor
replaced, the APP restarted) are lost with it.

*External assumptions*, taken from how the code uses Codex: a thread runs one
turn at a time and refuses turn/start while it does; thread/read shows all
turns with their status; an interrupt is followed by the end of the turn or by
nothing; agents change the record only while a turn runs; turns die with their
executor, except that an executor may outlive a crashed APP (the child is not
in a job object).

*Abstracted.* One conversation: each has its own directory and executor, and
they share only the lock. The native session id is constant (the rebinding in
`recovery.rs` is not modelled). A save is atomic. Answers are equal when group
and revision are. Messages, titles, workflow snapshots and diagnostics are left
out, as is everything a failed file write would do.

### How the game modules correspond to the code

Paths here are under `src-tauri/src/modules`.

*`GameSessions`.* `sessions` is `SessionRegistry.sessions` (the connection of
each live session); `conn` holds one task of `handle_socket` per connection,
with the point it has reached: `accepted` (upgraded, hello awaited), `found` (the
row looked up), `registered`, `admitted`, `open` (the select loop), `leaving`
(loop left), `removed` (taken from the registry, row still to be written).
`server` holds the server tasks spawned by `start`: `starting` until
`TcpListener::from_std` returns (`aborted` if a stop came first), then `serving`,
`signalled` (the shutdown was sent), `draining` (port free) and `drained`
(`disconnect_all` listed). When `from_std` fails the task is `failing` until it
has cleared the running flag, and then gone, except that the control may still
hold its shutdown channel: `failed` when `start` had returned before,
`stillborn` when it had not. `running`, `shutdown` and `lock` are
`control.state.running`, `control.shutdown` and the control lock; `caller` says
where the UI thread (`start`) and the worker thread (storage repair, exit) are.
`sweep` is `disconnect_all`: list, take, report. `recent` orders the external
rows as the SELECT in `register_connection` does. Each action is one use of a
lock: the registry's, the control's or the database's.

*`InstanceProcess`.* `state` and `connected` are the columns of
`game_instances`, `live` is `InstanceService.live`, `proc` what the operating
system runs, `launch`, `monitor`, `stopper` and `remover` the threads inside
`launch`, `monitor`, `stop` and `delete`. `task` and `deleting` are
`TaskService::set_status` and `delete`, with the gap between `ensure_deletable`
and the DELETE. `Reopen` is the end of the APP and the next
`mark_interrupted_instances`; a process may survive a crash, or a monitor that
gives up after a `try_wait` error (`orphan`). A kill may be refused
(`KillFails`), and the stop then returns the error.

*`LogCollection`.* `table`, `order` and `stored` are the tables `log_sessions`
and `log_events`, `conn` the connection tasks inside `connection_started` and
`ingest_batch`, `command` the half-done `start`, `stop` or `repair_storage`. The
game (`emitted`, `acked`, `sent`, `allowed`) does what
`docs/ABYA_GAME_RUNTIME_CONTRACT.md` asks of it and is external; `Pipelined`
says whether it waits for an acknowledgement before the next batch, which the
contract does not ask for. Retention is left out: the bounds stay below
100,000 events. `persisted` is history; no action reads it.

*Left out of all three.* Failing database writes, archive messages over the
same connection (they are in `ArchiveTransfer`), and everything that is only
shown.

### How `ProductionWorkflow` corresponds to the code

Paths are under `TP`. One change of the record is one `production_commit`: load,
compare the revision the caller read, check, write, all under the database lock;
so each operation is one action. A call with an old revision changes nothing and
is left out, except the user's decision, for which `view` keeps what he had on
the screen (`production_get`) and whether the record has changed since.

`stages`, `current`, `docs`, `approvals`, `cycle` are fields of
`ProductionRecord`; a document's `hash` is the content it had when it was
submitted, `files` what is on disk now. `version` and `details` are
`current_version` and what `set_version` hashed, `build` the archive and player
on disk. `Gate` is `document_gate`, `Approved` is `approved`, `Ready` is `ready`,
`Reopened` is `invalidate_from`, `BackInReview` what feedback on the game resets.
`completing` is the gap in `set_status` between the check and the write. What the
user publishes and answers, chooses, accepts, rejects, reopens, and what the
agent submits, registers, tests and reports come in any order; files change
behind the record at any time (`EditFile`, `ChangeBuild`). `outdated` is history:
the kinds of documents that predate a change they rest on.

*Abstracted.* The bundled policy (human feedback per iteration, a decision on the
resources); the required tests are one test, the visuals one group. An issue is
the stages it affects and the operations it blocks (submit, complete); a template
is only that another one was chosen. *Left out.* Policies pinned by older tasks
(rounds, milestones), knowledge, evidence files, the acceptance configuration
and exported files.

### How `ArchiveTransfer` corresponds to the code

Paths are under `src-tauri/src/modules`. `task[t]` is where the transfer's task
(`archive_transfer/service.rs`, `start`, `run`, `execute`) is, with its `sent`
and `acknowledged` counts in bytes, the abort it ends with, and its cancel
channel: `asked` after a send, `seen` when one event has won against it in the
`select!` of `wait_event`, after which the next wait finds it. `active`, `row`,
`pending`, `session` are the map of active transfers, the status column,
`pending_transfers` and `sessions`; `events` is the channel from the registry to
the task; `link[c] = "leaving"` lies between the two halves of
`remove_if_current`, `draining` between those of `SessionRegistry::stop_all`.
A chunk is known by its
offset and ends at `ChunkEnd`; a byte is the unit in which a game may
acknowledge. `via` is the connection an offer was made over; chunks, completion and
withdrawal go to the session the instance has at that moment, as in the code.

A step is one use of a lock, one write to the row or one operation on a channel,
with what only the task itself can see. `Offer` joins the entry into
`pending_transfers`, the message and the write of the row, which the task does
without waiting; the sender was taken before (`Address`), so a session may be
replaced in between. `SendChunk` joins the two lookups and the send: what lies
between can only make the send fail, which it may anyway.

*External.* The game does what `docs/ABYA_GAME_RUNTIME_CONTRACT.md` says:
`Receive`, `Decide`, `Install`, `Break`, and it forgets its transfers with the
connection of the offer. It may also say things at the wrong time (`Stray`).

*Left out.* What is packed and hashed, progress figures, package files on disk,
and database errors other than a refused INSERT (the code ignores them).

## 3. Runs

| run | question | bounds |
|---|---|---|
| `AnswersRetried` | can a request start two turns, answers be replayed, or an older revision follow a newer one? | 1 group, 2 answers, 1 decision, 2 turns of which 1 may be typed, 2 requests |
| `AnswersRestarted` | unknown outcomes, pauses and restarts; refinement | 1 group, 1 answer, 2 turns, 2 requests, 1 stop, 2 runs of the APP |
| `Repairs` | is a repair sent once per pause, does a stop or the exit wait for the turn, leave nothing running and return, is what waits behind a turn served? | 1 issue, 1 fingerprint, 2 turns, 2 requests, 1 stop or exit, under `FairSpec` |
| `SessionsReplaced` | are the registry and the running flag right while a game reconnects and the gateway restarts? types | 1 external game, 3 connections, 2 server tasks, 2 ports |
| `ReplacedClose` | does a replaced connection close? | 1 launched game, 2 connections, 2 server tasks, under `FairSpec` |
| `ProcessLife` | has every owned process a row that protects it, does a stop stop? | 1 host, 1 client, 1 call of stop at a time, log file, window, kill and `try_wait` may fail, under `FairSpec` |
| `LogsReplayed` | are events stored in order before they are forgotten? types, refinement | 2 connections, 2 log sessions, 3 events, 2 operations of the user, 1 loss, a game that waits for acknowledgements |
| `LogsArrive` | is every event stored in the end and in order? | 2 connections, 2 events, 2 losses, no operation of the user, a game that sends ahead, under `FairSpec` |
| `ProductionDocuments` | does a document pass only by the user's word on its present revision, made after the last change it rests on and with its questions answered? is his word final? | 2 revisions of requirements, resources and plan, 1 question group, 1 feedback entry, 1 visual, 2 player modes; contents do not change |
| `ProductionDelivered` | does a delivery stand only on accepted documents, a passed plan and implementation, closed feedback and the present version? | 2 versions, 2 builds, 2 deliveries, 1 closeout, 1 feedback entry, an issue on the plan and the implementation, 1 change on disk |
| `Transfers` | is the window kept, is a cancelled game told, has an active row a task, is no ending rewritten, does the record end as promised? refinement | 1 transfer, 1 game, 2 connections, 4 bytes in chunks of 2, a window of 1 chunk, 1 stray message, 2 runs of the APP |
| `TransferSlots` | one transfer per game, slots given back | 2 transfers, 1 game, 1 connection, 1 chunk of 1 byte, the shutdown, under `FairSpec` |

The bounds are the smallest in which the case of interest happens: a replay
needs two turns for one answer and a third party's turn between them; an
inversion needs two revisions; a loss in a crash needs two epochs; a replaced
session needs two connections, and a third to be replaced while the first still
cleans up; a stale server task needs two server tasks; a client needs its host;
a cursor that moves back needs two connections that ingest at once, after one
loss; a document that is outdated needs a second revision of what it rests on; a
version that comes back needs two; a transfer whose chunks miss their offer needs
two connections; an acknowledgement that exceeds the window needs two chunks and
a window of one, and one within a chunk needs chunks of two bytes. Identifiers
that are used again stand for fresh ones: they are given out only when nothing refers to them any more. What the bounds might hide of the
delivery properties (several groups that compete, more turns), of the registry
(more connections and ports), of the processes (several calls of stop) and of the
logs (more connections, batches, operations and losses), the proofs cover for all
bounds; so they do for the production record (more questions, versions, feedback,
revisions) and for transfers. In `ProductionDocuments` no file changes on disk, so
that what `PassedIsAccepted` says of hashes holds there at once; it is the theorem
`AcceptedByUser` that shows it, for any number of changes. `MaxActive` is 2 as
in the code, and two transfers to one game never reach it; that no more than
`MaxActive` run is in the proof of `Limited`.

Fairness (`FairSpec`): the lock holder always moves, because every RPC it waits
for has a timeout; a waiting `stop()` and the thread of a completion event get
the lock if it is free again and again (parking_lot mutexes are eventually
fair), an event only while its executor is connected; the thread that ends the
APP runs, and gets the lock for its stop in the same way; a native turn ends. No
fairness is assumed of the user, of the production record or of late calls.
Liveness is checked only for requests waiting behind a turn and for stops;
other waits end only when the user acts, by design.

In the game modules fairness is assumed of connection tasks, of the launch,
stop and monitor threads and, for `LogsArrive`, of a game that connects again,
sends what it keeps whenever it may again and again (strong fairness: a
connection that goes away disables it) and hears acknowledgements. None is
assumed of a game's end, of users or of the APP's exit: `StopStops` follows
from the kill in `stop` and the monitor's `try_wait`, not from the game's good
will. Both may fail: a refused kill is an outcome `StopStops` names, and a monitor
that gives up takes the process off the live map.

In `ArchiveTransfer` the task of each transfer is scheduled fairly
(`WF_vars(Run(t))`): the runtime polls a task that can go on, and every wait of
the task has a timeout. Nothing is assumed of the game, of connections or of the
user. `SlotsAreFreed` therefore follows from the timeouts and from what happens to
the channel, not from the game's answer; `MaxStray` is 0 in that run, because a game
that reports progress for ever restarts the timeout for ever, in the code too.

`LogCollection`, `ProductionWorkflow` and `ArchiveTransfer` are checked without
deadlock: with every bound used up the game, the user or the transfers have
nothing left to do.

### Where the code departs from its documents

No run singles these out; each can be seen in the models by stating the sentence
quoted as an invariant.

* *A repair is sent again.* A pause overwrites the status of a repair that was
  already delivered, and with it its receipt (`CT/continuation_queue.rs:496`);
  after the pause it is delivered again. `skills/codex-terminal/SKILL.md:170`:
  "Per-fingerprint issue-repair receipts retain deduplication even after the
  active queue changes." What holds, and is checked, is `RepairOncePerPause`.
* *A connected game can be deleted.* The late `disconnected` of an old connection
  is written over the row of a game that has connected again; `delete`
  (`instances/service.rs:394`) looks at the row, not at the registry.
  `skills/game-instances/SKILL.md:54-56`: "active processes and connected
  sources are protected".
* *A finished game cannot be deleted.* `stop` (`instances/service.rs:255`) writes
  `stopping` over the monitor's `exited`, and the row stays so until the APP
  is restarted. The same page: "Finished managed instances [...] may be deleted".
* *A task is completed beside its record.* `set_status` (`tasks/mod.rs:306-324`)
  checks the record and writes the status in two transactions; a stage reopened
  in between leaves a completed task with an open record.
  `docs/DESKTOP_CLI_COMMANDS.md:308`: "Full tasks cannot be marked completed
  until" the delivery is confirmed and the closeout completed.
* *A version passes on the tests of another build.* Tests are found by the id of
  the version (`TP/iteration.rs:38`), which may be given again to other files
  (`TP/mutation.rs:309`): v1, v2, v1 passes with the tests of the first v1.
* *Chunks without an offer.* Chunks go to the session the instance has now
  (`archive_transfer/service.rs:389`, `game_connections/sessions.rs:147`); after
  a replacement that is a connection which never got the offer, until the
  timeout. `docs/ABYA_GAME_RUNTIME_CONTRACT.md:220-221` has chunks follow an
  accepted offer on the connection. The rest of the transfer keeps its promise,
  because the game drops what it was not offered.
* *Five chunks on their way.* The window is compared in bytes before a full chunk
  is read (`archive_transfer/service.rs:377`), and any value between what was
  acknowledged and what was sent is an acknowledgement (`:403`). A game that
  acknowledges part of a chunk gets one more while up to a byte less than five are
  unacknowledged. `docs/ABYA_GAME_RUNTIME_CONTRACT.md:236-237`: "The desktop keeps
  at most four chunks unacknowledged". What holds, and is checked, is in
  `WindowKept`: a window after an acknowledgement of whole chunks, less than a
  chunk more after any other.

The models also contain the following behaviours of the code, which no run
singles out; the checked properties are stated so that they hold beside them.

* The gates are read before the thread is; a turn that submits a document and
  completes between the two is not seen, and the next turn starts.
* A busy thread found at the last check (the user typed a message) parks the
  request for review, which only deletion ends.
* An executor that dies notifies nobody: a request queued behind its turn keeps
  saying "queued". `QueuedIsServed` therefore speaks of a connected executor.
* The exit ignores the errors of its stops (`CT/mod.rs:886-888`), then takes and
  kills every executor that is left (`:889-897`), without the lock: a turn whose
  interrupt failed or was not answered in time is cut off. `StopWaitsForTurns`
  names this as its exception; `ExitIsQuiet` says what the exit achieves by it.
* `open` does not ask whether the APP exits; it may start an executor after
  `stop_all` has killed the others, on which nothing of the service will run.
* The spawned server task may fail in `from_std` and clear the running flag
  (`game_connections/gateway.rs:99-107`) before `start` sets it (`:155-157`); the
  gateway then calls itself running with no server, until it is stopped.
  `RunningMeansServing` excepts this server (`stillborn`) and no other.
* `disconnect_all` takes a session that entered after it listed them; nobody
  reports it, and row and log session stay connected and streaming until the
  game or the APP comes back.
* Two first connections of one runtime both find no row and insert one each.
* The last thing an old server task does is to clear the running flag that the
  new gateway may have set. `RunningMeansServing` is the direction that holds.
* A task is deleted between the check for running instances and the DELETE,
  while a launch inserts its row; hence the exception in `LiveIsRecorded`.
* `launch` returns with `?` after its INSERT when the log file cannot be opened,
  and the row stays `launching`.
* A game that sends ahead (`Pipelined`) loses a batch that a pause refused when
  the next one in flight is accepted after a resume: the cursor passes over it.
  `NothingSkipped` is therefore checked with pauses for a game that waits, and
  for a game that sends ahead without pauses.
* A reconnection writes `streaming` over a pause it has not seen.
* Storage repair deletes all events of a session, not only those outside the
  retention window.

* A closeout stays passed when a new revision of the delivery is submitted, and
  may be completed with a document older than the delivery.
* `configure` of the question mode or of a template puts the requirements, or the
  art, back in progress without taking the later stages back
  (`TP/mutation.rs:121-152`): after the approved file has changed on disk another
  template may be chosen under a delivery that waits or has passed, and the
  delivery stays. Its gate then refuses it until the document is submitted again,
  which resets what follows. `DeliveryIsLast` therefore asks of requirements, art
  and plan that the user accepted them as they are in the record, not that their
  stages have passed.
* Files are compared with what was approved whenever a gate is used, not when
  they change: a stage stays passed over a file that no longer matches.
* Exports are written after the lock is released; an older one may come last.
* The shutdown marks transfers interrupted while their tasks run; a task that
  ends before the process does writes its own ending over it. `TransferPromise`
  has an interruption as something that may still be decided.
* Only a cancel tells the game. After a failure or a timeout the game may go on,
  and install an archive whose row says failed. `KeepsPromise` is the direction
  that holds: what says completed is installed.
* Between the two halves of `remove_if_current` a new connection may begin a
  transfer, which the second half then fails.
* The database errors of `finish_terminal` are ignored; a row may then say
  active until the next start.

The types of `ContinuationQueue`, `InstanceProcess`, `ProductionWorkflow` and
`ArchiveTransfer` are proved (`TypeCorrect`) and not checked again by a run.

Every property of a passing run has a mutant: a changed definition (named
`...ByReceiptOnly`, `...IfSettled`, and so on in the module, marked "Mistaken")
with which TLC refutes the property in the same run.

## 4. Proofs

`ContinuationQueueDelivery` begins with the types (`TypeCorrect`), which are not
needed for their own sake: they give the later proofs the domains of the
receipts and turns. `DeliveryInvariant` is the inductive strengthening. `AnswersNotReplayed` says
only that earlier turns of an answer are stopped, which a step cannot preserve
without knowing why a new turn may start. The invariant adds: attempts of an
answer are numbered and its turns carry increasing attempts (`AttemptsInOrder`);
until deletion every turn is accounted for by the receipt, and a turn of an
earlier attempt is stopped (`TurnsAccounted`); a receipt marked sent names its
turn (`ReceiptsAgree`); a timed-out turn/start is the pending attempt, and no
turn carries it yet (`LateIsPending`); and what the lock holder knows at each
step (`HolderKnows`), for example that at `start` the receipt is pending and
its attempt untaken. From it follow `AnswersAreNotReplayed` and
`AmbiguityStaysVisible`.

`ContinuationQueueRequests` proves the other eight safety properties of the queue
from one invariant, `RequestInv`, on top of `DeliveryInv`. The hard case is again
the call that times out: a turn/start that was sent may start its turn when the
request has long left the holder's hands. `LateIsReviewed` says that there is at
most one such call and that it belongs to the saved request, which is under
review; so "the request may still start a turn" (`Startable`) is a property of
the saved request, and `TurnsAreDistinct` and `AnswersFollow` can speak of it:
while it is startable no turn carries its id, and from the last check of the
receipt on no turn took newer answers than its own. `RepairsFollow` does the same
for repairs, with pauses counted: what is not recorded as delivered was last sent
before the last pause; it needs `RepairsAgree`, that the copy of the request in
the repair's file and the request say the same. `WishIsKept` says why a pause is
quiet: without the user's wish, whoever would dispatch the request finds the
cancellation, an older process epoch or a status that is not waiting, and nothing
of it is past its checks. `ClosingIsAwaited` carries the end of the interrupted
turn from `await` to `closing`, and `ExitIsAwaited` from the stop of the exit to
the end of the draining: past that stop nobody is on the way to a turn of the
service, and once it succeeded or the rest was killed, none runs, on whatever
executor is opened then. Every step that starts a turn (the holder, or the
late call) goes through one lemma, every step that only ends turns or loses calls
through another (`Faded`).

`QueueImplementsDelivery` proves that each step of the queue, seen through
`PhaseOf`, is a step of `AnswerDelivery` or leaves it unchanged. `EnsureIdle`
announces, `StartTurn` and `LateStart` take, `EndTurn` ends, everything that
kills an executor crashes, deletion forgets.

The proofs assume only `DistinctSubjects` and `BoundsAreNatural`.

`InstanceProcessProofs` proves the types and, by the invariant `ProcessInv`, that
every process is recorded. `LiveIsRecorded` alone is not inductive: the step that
enters `live` needs to know the row. The invariant follows an instance through
the hands it is in: from its INSERT to the spawn of the monitor its launch
answers for it, then its monitor, and while somebody does, its row is open or
its task is deleted. Deletion writes only final rows, a final state is written
only when nobody answers any more. A process whose monitor gave up after a
`try_wait` error is owned by nobody (`orphan`), as one that outlived the APP.

`GameSessionsProofs` proves the types and three properties. `NoGhosts`, by `SessionInv`: every
connection past its hello has an instance, and a session names a connection of
that instance that is in its loop or about to clean up. `NewerIsSpared`, the
action property, from the same invariant: only `Admit`, `Leave`, a sweep and the
end of the APP write the registry, and `Leave` writes only the entry that is its
own. `RunningServes`, by `GateInv`: the server that a stop would signal
is starting, serving, failing or stillborn (`Up`), or has failed and taken the
flag with it; the one that `start` has bound and not yet published is up, too,
and they differ. The assumption `DistinctNames` keeps identifiers of different kinds
apart. `RowInvariant` says that the rows in which a hello is looked up (`recent`,
the order of the SELECT) are the external rows there are, each once; a row is
taken out with `RemoveFirst`, which removes the entry because it is there once
(`RemovedOnce`), where a filter would need an induction. `TypeCorrect` puts the
parts together.

`LogCollectionProofs` proves the types, the two safety properties of log collection
and the refinement of `ReliableLog`. `CursorsNeverMoveBack` needs only the types.
`NothingSkipped` needs `LogInv`: cursors, resume points and acknowledgements cover
stored events (`CursorsAreStored`), and what comes before an event in a batch on
its way is stored or in a batch before it (`BatchesFollow`), which is what makes
`cursor = max(cursor, last)` of `ingest_batch` right. How batches come to follow depends on
the game. One that waits has a single batch on its way (`OneAtATime`), and sends it
from its acknowledgement or the resume point. For one that sends ahead,
`SentIsKept` says that everything it has sent is stored or on its way, which
a refused batch would break; so `Undisturbed` has to say that no log session is
paused, deleted or repaired. `LogInvariant`, `NothingIsSkipped` and
`CollectionIsReliable` are therefore proved under `~Pipelined \/ MaxOps = 0`: a
game that waits, with any operations of the user, or one that sends ahead, with
none. Without that hypothesis they are false, for the reason given among the
behaviours above. Types and cursors need no hypothesis. Batches
are runs of events (`BatchesAreRuns`), kept as intervals, so that no proof
computes a maximum over a set that TLC would enumerate.

`ProductionProofs` proves the types and all six properties of the record from
one invariant, `IInv`. Almost every operation only takes stages back: one lemma
says what follows when a set of stages is taken back, and each of them is that
lemma with its set. Left are `Submit`, the decisions and the two completions,
which bring a stage forward, one by one. The invariant adds that decisions
follow revisions (`DecisionsBehind`), that a plan is submitted only over passed
resources (`InSequence`), that the current stage has not passed by a decision
(`CurrentOpen`), and that a fresh view shows the document as it is
(`ViewIsTrue`), without which `Accept` could confirm a revision nobody saw. The
sets `Stages` and `From(s)` are expanded in two lemmas. `Next` is taken apart
operation by operation. `DeliveryIsLast` speaks of what the user accepted
(`Agreed`), which a template or the question mode does not take back;
`DocumentsInv` follows it from the requirements to the delivery. The assumptions
are `ConstantsAssumption` and `IssueScopesAssumption`.

`ArchiveTransferProofs` proves the types, five safety properties and the
refinement from `IInv`. `SlotsInv` says that `active` is the set of running tasks,
so a step that adds one has looked for a free slot. `RowInv` says what row goes
with each place of a task; `EndsOnce` follows, because a task past its last
write writes nothing more. `WindowKept` needs `WindowInv`: an acknowledgement
within a chunk, followed by one of whole chunks, must find at most a window behind
it, so the invariant says that from every chunk end not yet acknowledged at most a
window has been sent. `StoryInv` follows
the truth of the channel: an `installed` in it was installed, a `refused`
was said by a user who did not accept, an `accepted` by one who did; with it
every ending of a row is a `Close` of `TransferPromise`. `LinkInv` says when a
connection is the session of its instance and which transfers a game knows, and
`CancelInv`, from it, that the withdrawal of a cancelled transfer is behind the
offer on the connection until it is received. The sequences need no induction:
only `Append`, `Head` and `Tail` occur, and each has a lemma. The set of
transfers is assumed to be finite, for `Cardinality`.

Only model-checked: the liveness properties, because temporal reasoning under
fairness is outside the prover: `QueuedIsServed`, `StopsReturn`, `StopStops`,
`ReplacedCloses`, `EventsArrive`, `SlotsAreFreed`. Every invariant, every action
property and each of the three refinements that a run checks is also a theorem.

## 5. Plan, and what is not modelled

The core is modelled: `ContinuationQueue`, `ProductionWorkflow`, `GameSessions`,
`InstanceProcess`, `LogCollection`, `ArchiveTransfer`, with the theorems above.
Next, in this order:

1. `RuntimeBridge` with desktop-cli: operation slots, replay protection, task
   leases, server generations, and acceptance runs.
2. `ConversationWorkflow`: turns, plans and activities; then grok-terminal.
3. Retention of log events, a second runtime log session of an instance, and
   production policies pinned by older tasks.

Not modelled:

* *game-runtime-bridge, desktop-cli.* They run one external command for one call
  and keep what refers to it in memory under a single lock; their leases and
  generations are worth a module, which is 1 above.
* *development-terminal, grok-terminal.* What the user is shown of a
  conversation: no gate reads it. 2 above.
* *game-archives.* Scans of folders, with no state of its own.
* *frontend.* Views over the backend's calls; they appear as calls in any order.
* *tools/abya and skills.* A command line and instructions for agents.
* *C headers under `Publish/tools/ffmpeg`.* The only C in the repository: the
  interface of a third-party library, without an implementation. There is no
  behaviour of this program in it.
* Rendering, PTY bytes, zip packing, window control, recording, network
  interfaces, native history files, release scripts: I/O or pure formatting with
  no state that another actor reads.
