--------------------------- MODULE ArchiveTransfer ---------------------------
(***************************************************************************)
(* Transfers of an archive to a connected game (archive_transfer/service.rs), *)
(* with the part of the session registry they use (game_connections).        *)
(*                                                                           *)
(* A transfer is a task of the APP.  It reserves a slot, inserts its row,    *)
(* packs the archive, offers it over the session the instance has at that    *)
(* moment, waits for the decision, sends chunks within a window, asks the    *)
(* game to install, and ends with one write to the row.  Events of the game   *)
(* reach it through an unbounded channel; a cancel, a timeout, the end of the *)
(* connection, a gateway stop, the shutdown and the death of the APP race    *)
(* with them.  Every lock region, database write and channel operation is a  *)
(* step; a run of them that nothing else can tell apart is one step.         *)
(*                                                                           *)
(* The game is external and follows the contract: it asks its user, takes    *)
(* chunks in order, acknowledges each, installs when it has them all, and     *)
(* forgets a transfer with the connection the offer came over.  It may also   *)
(* send progress, and acknowledgements of any number of bytes, within a chunk *)
(* too (Stray).  Sizes are in bytes.  Contents, hashes, progress figures and  *)
(* database errors other than a refused INSERT are left out.                 *)
(***************************************************************************)
EXTENDS Naturals, FiniteSets, Sequences

CONSTANTS
  Transfers,               \* ids of transfers
  Instances, NoInstance,
  Connections, NoConnection,
  MaxActive,               \* MAX_ACTIVE_TRANSFERS
  Size,                    \* bytes of a package
  ChunkBytes,              \* ARCHIVE_TRANSFER_CHUNK_BYTES
  Window,                  \* ARCHIVE_TRANSFER_WINDOW_CHUNKS
  MaxStray,                \* bound: unexpected messages of the games
  MaxLives                 \* bound: runs of the APP

ASSUME ConstantsAssumption ==
  /\ NoInstance \notin Instances /\ NoConnection \notin Connections
  /\ MaxActive \in Nat \ {0} /\ Size \in Nat \ {0}
  /\ ChunkBytes \in Nat \ {0} /\ Window \in Nat \ {0}
  /\ MaxStray \in Nat /\ MaxLives \in Nat \ {0}
  /\ IsFiniteSet(Transfers)

VARIABLES
  task,       \* the task of each transfer: where it is, what it counted, how it ends
  active,     \* transfers that hold a slot
  row,        \* status in the database
  pending,    \* transfers whose events are forwarded
  events,     \* the channel of each transfer
  session,    \* the connection the registry has for each instance
  draining,   \* stop_all has taken the sessions and not yet the transfers
  owner,      \* the instance of each connection
  link,       \* the life of each connection
  wire,       \* messages on their way to the game
  via,        \* the connection each offer was made over
  game,       \* what the game does with each transfer
  got,        \* bytes the game has
  agreed,     \* history: transfers the user of the game accepted
  exiting,    \* the shutdown has stopped the transfers
  lives, strays

taskVars == <<task, active, row>>
channelVars == <<pending, events>>
sessionVars == <<session, draining, owner, link>>
gameVars == <<game, got, agreed>>
appVars == <<exiting, lives>>
vars == <<taskVars, channelVars, sessionVars, wire, via, gameVars, appVars, strays>>

ActiveStatuses == {"preparing", "waitingAcceptance", "transferring", "finalizing"}

Idle(at) == [at |-> at, inst |-> NoInstance, cancel |-> "no", end |-> "none",
             sent |-> 0, acked |-> 0]

Init ==
  /\ task = [t \in Transfers |-> Idle("new")]
  /\ active = {} /\ row = [t \in Transfers |-> "none"]
  /\ pending = {} /\ events = [t \in Transfers |-> <<>>]
  /\ session = [i \in Instances |-> NoConnection] /\ draining = FALSE
  /\ owner = [c \in Connections |-> NoInstance] /\ link = [c \in Connections |-> "new"]
  /\ wire = [c \in Connections |-> <<>>] /\ via = [t \in Transfers |-> NoConnection]
  /\ game = [t \in Transfers |-> "none"] /\ got = [t \in Transfers |-> 0]
  /\ agreed = {} /\ exiting = FALSE /\ lives = 1 /\ strays = 0

-----------------------------------------------------------------------------
(* Messages.                                                                 *)

\* A chunk is known by its offset.
Message(kind, t, offset) == [kind |-> kind, transfer |-> t, offset |-> offset]
Event(kind, bytes) == [kind |-> kind, bytes |-> bytes]

\* send_json and send: nothing leaves over a connection whose writer is gone.
Send(c, m) ==
  wire' = IF link[c] = "open" THEN [wire EXCEPT ![c] = Append(@, m)] ELSE wire

\* The session the transfer's instance has now, whichever connection that is.
SessionOf(t) == session[task[t].inst]

\* resolve_archive_transfer: the connection forwards what its game says.
Tell(t, e) ==
  events' = IF link[via[t]] = "open" /\ t \in pending
            THEN [events EXCEPT ![t] = Append(@, e)] ELSE events

\* fail_transfers, and the second half of stop_all
Disconnect(S) ==
  /\ pending' = pending \ S
  /\ events' = [t \in Transfers |->
       IF t \in S THEN Append(events[t], Event("disconnected", 0)) ELSE events[t]]

-----------------------------------------------------------------------------
(* Starting and packing.                                                     *)

\* Mistaken: the slot is only looked for among other instances.
FreeAnywhere(i) == Cardinality(active) < MaxActive

FreeSlot(i) ==
  Cardinality(active) < MaxActive /\ \A u \in active : task[u].inst # i

\* start: the session was looked up before the archive was scanned, so the
\* instance had one once.
Reserve(t, i) ==
  /\ task[t].at = "new" /\ \E c \in Connections : owner[c] = i
  /\ FreeSlot(i)
  /\ active' = active \cup {t}
  /\ task' = [task EXCEPT ![t].at = "starting", ![t].inst = i]
  /\ UNCHANGED <<row, channelVars, sessionVars, wire, via, gameVars, appVars, strays>>

Insert(t) ==
  /\ task[t].at = "starting"
  /\ \/ /\ row' = [row EXCEPT ![t] = "preparing"] /\ UNCHANGED active
        /\ task' = [task EXCEPT ![t].at = "packing"]
     \/ /\ active' = active \ {t} /\ UNCHANGED row
        /\ task' = [task EXCEPT ![t] = Idle("done")]
  /\ UNCHANGED <<channelVars, sessionVars, wire, via, gameVars, appVars, strays>>

Abort(t, how) == task' = [task EXCEPT ![t].at = "ending", ![t].end = how]

Pack(t) ==
  /\ task[t].at = "packing"
  /\ \/ Abort(t, "failed")
     \/ task[t].cancel # "no" /\ Abort(t, "cancelled")
     \/ task[t].cancel = "no" /\ task' = [task EXCEPT ![t].at = "packed"]
  /\ UNCHANGED <<active, row, channelVars, sessionVars, wire, via, gameVars, appVars, strays>>

\* begin_archive_transfer: the sender is taken from the registry, the transfer
\* is entered for events, and the offer goes out.
Address(t) ==
  /\ task[t].at = "packed"
  /\ IF SessionOf(t) = NoConnection
     THEN Abort(t, "failed") /\ UNCHANGED via
     ELSE /\ task' = [task EXCEPT ![t].at = "offering"]
          /\ via' = [via EXCEPT ![t] = SessionOf(t)]
  /\ UNCHANGED <<active, row, channelVars, sessionVars, wire, gameVars, appVars, strays>>

Offer(t) ==
  /\ task[t].at = "offering"
  /\ task' = [task EXCEPT ![t].at = "waiting"]
  /\ row' = [row EXCEPT ![t] = "waitingAcceptance"]
  /\ pending' = pending \cup {t}
  /\ Send(via[t], Message("offer", t, 0))
  /\ UNCHANGED <<active, events, sessionVars, via, gameVars, appVars, strays>>

-----------------------------------------------------------------------------
(* Sending.                                                                  *)

WindowBytes == ChunkBytes * Window

Blocked(t) == task[t].sent = Size \/ task[t].sent - task[t].acked >= WindowBytes

\* Where the chunk at an offset ends: the last one may be short.
ChunkEnd(offset) == IF offset + ChunkBytes < Size THEN offset + ChunkBytes ELSE Size

Reachable(t) == t \in pending /\ SessionOf(t) # NoConnection

\* One chunk, unless the window is full, the user cancelled or the package
\* cannot be read; it is opened before a cancel is looked for.
SendChunk(t) ==
  /\ task[t].at = "sending" /\ task[t].acked < Size /\ ~Blocked(t)
  /\ task[t].cancel = "no" \/ task[t].sent = 0
  /\ \/ Abort(t, "failed") /\ UNCHANGED wire
     \/ /\ task[t].cancel = "no" /\ Reachable(t)
        /\ Send(SessionOf(t), Message("chunk", t, task[t].sent))
        /\ task' = [task EXCEPT ![t].sent = ChunkEnd(@)]
  /\ UNCHANGED <<active, row, channelVars, sessionVars, via, gameVars, appVars, strays>>

Complete(t) ==
  /\ task[t].at = "sending" /\ task[t].acked = Size
  /\ IF Reachable(t)
     THEN /\ Send(SessionOf(t), Message("complete", t, 0))
          /\ row' = [row EXCEPT ![t] = "finalizing"]
          /\ task' = [task EXCEPT ![t].at = "finalizing"]
     ELSE Abort(t, "failed") /\ UNCHANGED <<row, wire>>
  /\ UNCHANGED <<active, channelVars, sessionVars, via, gameVars, appVars, strays>>

-----------------------------------------------------------------------------
(* Waiting for the game: wait_event and what is done with the event.         *)

\* Mistaken: only the offer has a timeout.
ListeningForDecision(t) == task[t].at = "waiting"

Listening(t) ==
  \/ task[t].at \in {"waiting", "finalizing"}
  \/ task[t].at = "sending" /\ task[t].acked < Size /\ Blocked(t)

\* A cancel is looked for before the select; one that comes during it may lose
\* against an event, but only once.
Heard(t) == [task[t] EXCEPT !.cancel = IF @ = "no" THEN @ ELSE "seen"]

Becomes(t, r) == task' = [task EXCEPT ![t] = r]
Ends(t, how) == Becomes(t, [Heard(t) EXCEPT !.at = "ending", !.end = how])

\* Mistaken: an acknowledgement is only compared with the one before.
InOrder(t, n) == task[t].acked <= n

ValidAck(t, n) == task[t].acked <= n /\ n <= task[t].sent

HearDecision(t, e) ==
  /\ task[t].at = "waiting"
  /\ \/ /\ e.kind = "accepted" /\ Becomes(t, [Heard(t) EXCEPT !.at = "sending"])
        /\ row' = [row EXCEPT ![t] = "transferring"]
     \/ e.kind = "refused" /\ Ends(t, "rejected") /\ UNCHANGED row
     \/ e.kind = "disconnected" /\ Ends(t, "failed") /\ UNCHANGED row
     \/ /\ e.kind \notin {"accepted", "refused", "disconnected"}
        /\ Becomes(t, Heard(t)) /\ UNCHANGED row

HearAck(t, e) ==
  /\ task[t].at = "sending"
  /\ \/ /\ e.kind = "ack" /\ UNCHANGED row
        /\ IF ValidAck(t, e.bytes) THEN Becomes(t, [Heard(t) EXCEPT !.acked = e.bytes])
                                   ELSE Ends(t, "failed")
     \/ /\ e.kind = "progress" /\ Becomes(t, Heard(t))
        /\ row' = [row EXCEPT ![t] = "transferring"]
     \/ e.kind \in {"installed", "broken", "disconnected"} /\ Ends(t, "failed") /\ UNCHANGED row
     \/ e.kind \in {"accepted", "refused"} /\ Becomes(t, Heard(t)) /\ UNCHANGED row

\* Mistaken: any result is taken for an installation.
AnyResult == {"installed", "broken"}

Success == {"installed"}

HearResult(t, e) ==
  /\ task[t].at = "finalizing"
  /\ \/ /\ e.kind \in Success
        /\ Becomes(t, [Heard(t) EXCEPT !.at = "finishing"])
        /\ row' = [row EXCEPT ![t] = "completed"]
     \/ /\ e.kind \in {"installed", "broken", "disconnected"} \ Success
        /\ Ends(t, "failed") /\ UNCHANGED row
     \/ /\ e.kind = "progress" /\ Becomes(t, Heard(t))
        /\ row' = [row EXCEPT ![t] = "finalizing"]
     \/ /\ e.kind \in {"ack", "accepted", "refused"}
        /\ Becomes(t, Heard(t)) /\ UNCHANGED row

Hear(t) ==
  /\ Listening(t) /\ events[t] # <<>> /\ task[t].cancel # "seen"
  /\ events' = [events EXCEPT ![t] = Tail(@)]
  /\ LET e == Head(events[t]) IN HearDecision(t, e) \/ HearAck(t, e) \/ HearResult(t, e)
  /\ UNCHANGED <<active, pending, sessionVars, wire, via, gameVars, appVars, strays>>

\* Mistaken: see ListeningForDecision.
Impatient(t) == Listening(t)

Timeout(t) ==
  /\ Impatient(t) /\ events[t] = <<>> /\ task[t].cancel # "seen"
  /\ Abort(t, "failed")
  /\ UNCHANGED <<active, row, channelVars, sessionVars, wire, via, gameVars, appVars, strays>>

HearCancel(t) ==
  /\ task[t].cancel # "no"
  /\ Listening(t) \/ (task[t].at = "sending" /\ task[t].acked < Size)
  /\ Abort(t, "cancelled")
  /\ UNCHANGED <<active, row, channelVars, sessionVars, wire, via, gameVars, appVars, strays>>

-----------------------------------------------------------------------------
(* The end of a transfer.                                                    *)

\* Mistaken: the game is told nothing.
Untold(t) == UNCHANGED wire

\* A cancelled transfer is withdrawn from the session the instance has now.
Withdraw(t) ==
  IF task[t].end = "cancelled" /\ SessionOf(t) # NoConnection
  THEN Send(SessionOf(t), Message("cancel", t, 0)) ELSE UNCHANGED wire

End(t) ==
  /\ task[t].at = "ending"
  /\ Withdraw(t)
  /\ row' = [row EXCEPT ![t] = task[t].end]
  /\ task' = [task EXCEPT ![t].at = "finishing"]
  /\ UNCHANGED <<active, channelVars, sessionVars, via, gameVars, appVars, strays>>

Finish(t) ==
  /\ task[t].at = "finishing"
  /\ pending' = pending \ {t} /\ active' = active \ {t}
  /\ task' = [task EXCEPT ![t] = Idle("done")] /\ events' = [events EXCEPT ![t] = <<>>]
  /\ UNCHANGED <<row, sessionVars, wire, via, gameVars, appVars, strays>>

\* Mistaken: a cancelled transfer gives its slot back at once.
ReleasedByCancel(t) == active \ {t}

KeptByCancel(t) == active

Asked(r) == [r EXCEPT !.cancel = IF @ = "no" THEN "asked" ELSE @]

\* cancel: the user asks for the end of a transfer whose row he sees as active.
Cancel(t) ==
  /\ t \in active /\ row[t] # "none"
  /\ task' = [task EXCEPT ![t] = Asked(@)] /\ active' = KeptByCancel(t)
  /\ UNCHANGED <<row, channelVars, sessionVars, wire, via, gameVars, appVars, strays>>

\* Mistaken: every row is interrupted.
InterruptedRows == [t \in Transfers |-> IF row[t] = "none" THEN "none" ELSE "interrupted"]

Interrupted ==
  [t \in Transfers |-> IF row[t] \in ActiveStatuses THEN "interrupted" ELSE row[t]]

\* stop_all, at the start of the shutdown: the tasks run on until the APP exits.
StopAll ==
  /\ ~exiting /\ exiting' = TRUE
  /\ task' = [t \in Transfers |-> IF t \in active THEN Asked(task[t]) ELSE task[t]]
  /\ row' = Interrupted
  /\ UNCHANGED <<active, channelVars, sessionVars, wire, via, gameVars, lives, strays>>

-----------------------------------------------------------------------------
(* Connections and their sessions.                                           *)

\* What a game forgets with its connection.
Forget(C) ==
  game' = [t \in Transfers |->
    IF via[t] \in C /\ game[t] \in {"prompted", "receiving"} THEN "dropped" ELSE game[t]]

\* A game connects; the session it replaces is told to go.
Connect(c, i) ==
  /\ link[c] = "new"
  /\ link' = [link EXCEPT ![c] = "open"] /\ owner' = [owner EXCEPT ![c] = i]
  /\ session' = [session EXCEPT ![i] = c]
  /\ UNCHANGED <<taskVars, channelVars, draining, wire, via, gameVars, appVars, strays>>

\* A connection ends: remove_if_current, and fail_transfers outside its lock.
Leave(c) ==
  /\ link[c] = "open"
  /\ IF session[owner[c]] = c
     THEN /\ session' = [session EXCEPT ![owner[c]] = NoConnection]
          /\ link' = [link EXCEPT ![c] = "leaving"]
     ELSE link' = [link EXCEPT ![c] = "closed"] /\ UNCHANGED session
  /\ wire' = [wire EXCEPT ![c] = <<>>] /\ Forget({c})
  /\ UNCHANGED <<taskVars, channelVars, draining, owner, via, got, agreed, appVars, strays>>

FailTransfers(c) ==
  /\ link[c] = "leaving" /\ link' = [link EXCEPT ![c] = "closed"]
  /\ Disconnect({t \in pending : task[t].inst = owner[c]})
  /\ UNCHANGED <<taskVars, session, draining, owner, wire, via, gameVars, appVars, strays>>

\* The gateway stops: the sessions are taken, then the transfers.
TakeSessions ==
  /\ ~draining /\ draining' = TRUE
  /\ session' = [i \in Instances |-> NoConnection]
  /\ UNCHANGED <<taskVars, channelVars, owner, link, wire, via, gameVars, appVars, strays>>

TakeTransfers ==
  /\ draining /\ draining' = FALSE /\ Disconnect(pending)
  /\ UNCHANGED <<taskVars, session, owner, link, wire, via, gameVars, appVars, strays>>

\* The APP ends, in order or not, and is started again.
Restart ==
  /\ lives < MaxLives /\ lives' = lives + 1 /\ exiting' = FALSE
  /\ task' = [t \in Transfers |->
       IF task[t].at = "new" THEN task[t] ELSE Idle("done")]
  /\ active' = {} /\ row' = Interrupted
  /\ pending' = {} /\ events' = [t \in Transfers |-> <<>>] /\ draining' = FALSE
  /\ session' = [i \in Instances |-> NoConnection]
  /\ link' = [c \in Connections |-> IF link[c] = "new" THEN "new" ELSE "closed"]
  /\ wire' = [c \in Connections |-> <<>>] /\ Forget(Connections)
  /\ UNCHANGED <<owner, via, got, agreed, strays>>

-----------------------------------------------------------------------------
(* Games.                                                                    *)

\* The game does with a message of its connection what the contract says, and
\* ignores what it knows nothing of.
Receive(c) ==
  /\ link[c] = "open" /\ wire[c] # <<>>
  /\ wire' = [wire EXCEPT ![c] = Tail(@)]
  /\ LET m == Head(wire[c])
         t == m.transfer
         next == m.kind = "chunk" /\ game[t] = "receiving" /\ m.offset = got[t] /\ got[t] < Size
     IN IF via[t] # c THEN UNCHANGED <<game, got, events>>
        ELSE /\ game' = [game EXCEPT ![t] =
                  CASE m.kind = "offer" /\ @ = "none" -> "prompted"
                    [] m.kind = "cancel" /\ @ # "installed" -> "dropped"
                    [] m.kind = "complete" /\ @ = "receiving" /\ got[t] = Size -> "verifying"
                    [] OTHER -> @]
             /\ got' = IF next THEN [got EXCEPT ![t] = ChunkEnd(@)] ELSE got
             /\ IF next THEN Tell(t, Event("ack", ChunkEnd(got[t]))) ELSE UNCHANGED events
  /\ UNCHANGED <<taskVars, pending, sessionVars, via, agreed, appVars, strays>>

Decide(t, accepted) ==
  /\ game[t] = "prompted"
  /\ game' = [game EXCEPT ![t] = IF accepted THEN "receiving" ELSE "dropped"]
  /\ agreed' = IF accepted THEN agreed \cup {t} ELSE agreed
  /\ Tell(t, Event(IF accepted THEN "accepted" ELSE "refused", 0))
  /\ UNCHANGED <<taskVars, pending, sessionVars, wire, via, got, appVars, strays>>

\* The game installs what it has verified, also when its connection has gone.
Install(t) ==
  /\ game[t] = "verifying"
  /\ game' = [game EXCEPT ![t] = "installed"] /\ Tell(t, Event("installed", 0))
  /\ UNCHANGED <<taskVars, pending, sessionVars, wire, via, got, agreed, appVars, strays>>

Break(t) ==
  /\ game[t] \in {"receiving", "verifying"}
  /\ game' = [game EXCEPT ![t] = "dropped"] /\ Tell(t, Event("broken", 0))
  /\ UNCHANGED <<taskVars, pending, sessionVars, wire, via, got, agreed, appVars, strays>>

\* A message the APP does not expect: progress, or an acknowledgement that is
\* early, late, repeated, within a chunk or beyond what was sent.
Stray(t, e) ==
  /\ strays < MaxStray /\ strays' = strays + 1
  /\ t \in pending /\ link[via[t]] = "open" /\ Tell(t, e)
  /\ UNCHANGED <<taskVars, pending, sessionVars, wire, via, gameVars, appVars>>

Strays == {Event("progress", 0)} \cup {Event("ack", n) : n \in 0..(Size + 1)}

-----------------------------------------------------------------------------
\* What the task of a transfer does by itself.
Run(t) ==
  \/ Insert(t) \/ Pack(t) \/ Address(t) \/ Offer(t) \/ SendChunk(t) \/ Complete(t)
  \/ Hear(t) \/ Timeout(t) \/ HearCancel(t) \/ End(t) \/ Finish(t)

Next ==
  \/ \E t \in Transfers : Run(t) \/ Cancel(t) \/ Install(t) \/ Break(t)
  \/ \E t \in Transfers, i \in Instances : Reserve(t, i)
  \/ \E t \in Transfers, accepted \in BOOLEAN : Decide(t, accepted)
  \/ \E t \in Transfers, e \in Strays : Stray(t, e)
  \/ \E c \in Connections, i \in Instances : Connect(c, i)
  \/ \E c \in Connections : Leave(c) \/ FailTransfers(c) \/ Receive(c)
  \/ StopAll \/ TakeSessions \/ TakeTransfers \/ Restart

Spec == Init /\ [][Next]_vars

\* The runtime polls a task that can go on, and a timer fires in the end.
FairSpec == Spec /\ \A t \in Transfers : WF_vars(Run(t))

-----------------------------------------------------------------------------
(* Properties.                                                               *)

Places == {"new", "starting", "packing", "packed", "offering", "waiting", "sending",
           "finalizing", "ending", "finishing", "done"}
EventKinds == {"accepted", "refused", "ack", "progress", "installed", "broken", "disconnected"}

\* Tasks, rows, channels and connections keep their types.
TypeOK ==
  /\ task \in [Transfers -> [at : Places, inst : Instances \cup {NoInstance},
                             cancel : {"no", "asked", "seen"},
                             end : {"none", "rejected", "cancelled", "failed"},
                             sent : Nat, acked : Nat]]
  /\ active \subseteq Transfers /\ pending \subseteq Transfers /\ agreed \subseteq Transfers
  /\ row \in [Transfers -> ActiveStatuses \cup {"none", "completed", "rejected", "cancelled",
                                                "failed", "interrupted"}]
  /\ events \in [Transfers -> Seq([kind : EventKinds, bytes : Nat])]
  /\ session \in [Instances -> Connections \cup {NoConnection}] /\ draining \in BOOLEAN
  /\ owner \in [Connections -> Instances \cup {NoInstance}]
  /\ link \in [Connections -> {"new", "open", "leaving", "closed"}]
  /\ wire \in [Connections -> Seq([kind : {"offer", "chunk", "complete", "cancel"},
                                   transfer : Transfers, offset : Nat])]
  /\ via \in [Transfers -> Connections \cup {NoConnection}]
  /\ game \in [Transfers -> {"none", "prompted", "receiving", "verifying", "installed",
                             "dropped"}]
  /\ got \in [Transfers -> Nat] /\ exiting \in BOOLEAN /\ lives \in Nat /\ strays \in Nat

Running(t) == task[t].at \notin {"new", "done"}

\* At most MaxActive transfers run, and one for each instance, however they
\* start, fail, are cancelled and end (MAX_ACTIVE_TRANSFERS, `active`).
LimitsKept ==
  /\ Cardinality({t \in Transfers : Running(t)}) <= MaxActive
  /\ \A t, u \in Transfers :
       t # u /\ Running(t) /\ Running(u) => task[t].inst # task[u].inst

\* A row that says a transfer is going on belongs to a task the user can cancel:
\* none is left behind, and none says so after the task's last word.
ActiveHasTask ==
  \A t \in Transfers : row[t] \in ActiveStatuses =>
    t \in active /\ task[t].at \notin {"starting", "finishing"}

\* A number of bytes that ends with a chunk.
Whole(n) == n \in {k * ChunkBytes : k \in 0..n}

\* What was acknowledged was sent, and the game is asked to install only when it
\* has acknowledged everything.  At most a window is on its way to a game that
\* has acknowledged whole chunks; the byte comparison lets one more chunk, less
\* a byte, out to a game that has acknowledged part of one.
WindowKept ==
  \A t \in Transfers :
    /\ task[t].acked <= task[t].sent /\ task[t].sent <= Size
    /\ task[t].sent - task[t].acked < WindowBytes + ChunkBytes
    /\ Whole(task[t].acked) => task[t].sent - task[t].acked <= WindowBytes
    /\ task[t].at = "finalizing" => task[t].acked = Size

\* How a transfer ended is not changed any more: no cancel, timeout, late result,
\* shutdown or restart comes after it.
EndsOnce ==
  [][\A t \in Transfers :
       row[t] \in {"completed", "rejected", "cancelled", "failed"} => row'[t] = row[t]]_vars

\* A game that is still asking its user for, or receiving, a transfer that was
\* cancelled has the withdrawal on its way, as long as the connection of the
\* offer is the instance's session.
CancelReachesGame ==
  \A t \in Transfers :
    /\ row[t] = "cancelled" /\ game[t] \in {"prompted", "receiving"}
    /\ link[via[t]] = "open" /\ session[owner[via[t]]] = via[t]
    => \E n \in 1..Len(wire[via[t]]) :
         wire[via[t]][n] = Message("cancel", t, 0)

\* Every transfer gives its slot back.
SlotsAreFreed == \A t \in Transfers : t \in active ~> t \notin active

Promise == INSTANCE TransferPromise WITH
  outcome <- [t \in Transfers |-> IF row[t] \in ActiveStatuses THEN "open" ELSE row[t]],
  installed <- {t \in Transfers : game[t] = "installed"}

\* The transfers keep the promise of TransferPromise.
KeepsPromise == Promise!Spec
=============================================================================
