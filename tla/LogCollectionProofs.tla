------------------------- MODULE LogCollectionProofs -------------------------
(***************************************************************************)
(* Log collection keeps every event it acknowledges, and no cursor moves   *)
(* back: proofs about LogCollection for all numbers of connections, log    *)
(* sessions, events, user operations and losses.                           *)
(***************************************************************************)
EXTENDS LogCollection, TLAPS

(* Types.                                                                  *)

Row  == [status : {"absent", "streaming", "paused", "disconnected", "interrupted"},
         cursor : 0..MaxEvents]
Task == [phase : {"idle", "looked", "started", "open", "ingesting", "left"},
         log : Logs \cup {None}, enabled : BOOLEAN, cursor : 0..MaxEvents,
         batches : Seq(SUBSET (1..MaxEvents))]

LEMMA Typed ==
  ASSUME TypeOK
  PROVE  /\ table \in [Logs -> Row] /\ conn \in [Conns -> Task]
         /\ \A c \in Conns : /\ Len(conn[c].batches) \in Nat
                             /\ DOMAIN conn[c].batches = 1..Len(conn[c].batches)
                             /\ conn[c].cursor \in Nat /\ conn[c].log \in Logs \cup {None}
         /\ \A l \in Logs : table[l].cursor \in Nat
         /\ emitted \in Nat /\ acked \in Nat /\ sent \in Nat /\ ack \in Nat /\ MaxEvents \in Nat
         /\ persisted \subseteq 1..MaxEvents
         /\ Latest \in Logs \cup {None} /\ None \notin Logs
         /\ order # <<>> => /\ Latest = order[Len(order)] /\ Len(order) \in DOMAIN order
                            /\ Latest \in Logs
<1>1. table \in [Logs -> Row] /\ conn \in [Conns -> Task] /\ order \in Seq(Logs)
  BY DEF TypeOK, Row, Task
<1>2. \A t \in Task : /\ t.batches \in Seq(SUBSET (1..MaxEvents)) /\ t.cursor \in 0..MaxEvents
                      /\ t.log \in Logs \cup {None}
  BY DEF Task
<1>3. \A r \in Row : r.cursor \in 0..MaxEvents
  BY DEF Row
<1>4. {emitted, acked, sent, ack} \subseteq 0..MaxEvents /\ MaxEvents \in Nat
      /\ persisted \subseteq 1..MaxEvents
  BY BoundsAreNatural DEF TypeOK
<1>5. order # <<>> => /\ Latest = order[Len(order)] /\ Len(order) \in DOMAIN order
                      /\ Latest \in Logs
  BY <1>1 DEF Latest, Last
<1>6. Latest \in Logs \cup {None}
  BY <1>5 DEF Latest
<1>7. \A c \in Conns : /\ Len(conn[c].batches) \in Nat
                       /\ DOMAIN conn[c].batches = 1..Len(conn[c].batches)
                       /\ conn[c].cursor \in Nat /\ conn[c].log \in Logs \cup {None}
  BY <1>1, <1>2, <1>4
<1> QED BY <1>1, <1>3, <1>4, <1>5, <1>6, <1>7, DistinctIds

LEMMA MaxOf ==
  ASSUME NEW S, NEW m \in S, \A y \in S : m >= y
  PROVE  Max(S) \in S /\ \A y \in S : Max(S) >= y
  BY DEF Max

LEMMA MaxOfTwo ==
  ASSUME NEW x \in Nat, NEW y \in Nat
  PROVE  Max({x, y}) \in {x, y} /\ Max({x, y}) >= x /\ Max({x, y}) >= y
<1>1. CASE x >= y
  BY <1>1, MaxOf
<1>2. CASE y >= x
  BY <1>2, MaxOf
<1> QED BY <1>1, <1>2

LEMMA MaxOfBatch ==
  ASSUME NEW a \in Nat, NEW k \in Nat, a <= k, NEW x \in Nat, NEW y \in Nat
  PROVE  LET S == (a..k) \cup {x, y}
         IN Max(S) \in S /\ \A z \in S : Max(S) >= z
<1> DEFINE S == (a..k) \cup {x, y}
           m == IF k >= x /\ k >= y THEN k ELSE IF x >= y THEN x ELSE y
<1>1. m \in S /\ \A z \in S : m >= z
  OBVIOUS
<1> HIDE DEF m, S
<1>2. Max(S) \in S /\ \A z \in S : Max(S) >= z
  BY <1>1, MaxOf
<1> QED BY <1>2 DEF S

-----------------------------------------------------------------------------
(* The inductive invariant.                                                *)

\* A batch is a run of events of the game, and one is there to be ingested.
BatchesAreRuns ==
  \A c \in Conns :
    /\ \A i \in DOMAIN conn[c].batches :
         \E a, k \in 1..emitted : a <= k /\ conn[c].batches[i] = a..k
    /\ conn[c].phase = "ingesting" => conn[c].batches # <<>>

\* All events up to n are stored.
Stored(n) == 1..n \subseteq persisted

\* A cursor, an acknowledgement or a resume point covers only stored events.
CursorsAreStored ==
  /\ Stored(ack) /\ Stored(acked)
  /\ \A l \in Logs : Stored(table[l].cursor)
  /\ \A c \in Conns : Stored(conn[c].cursor)

\* What comes before a batch is stored or in a batch before it.
BatchesFollow ==
  \A c \in Conns : \A i \in DOMAIN conn[c].batches : \A a \in conn[c].batches[i] :
    \A e \in 1..a : e \in persisted \/ \E j \in 1..i : e \in conn[c].batches[j]

\* A game that does not send ahead has one batch on its way per connection.
OneAtATime == ~Pipelined => \A c \in Conns : Len(conn[c].batches) <= 1

\* Nobody has paused, deleted or repaired anything.
Undisturbed ==
  /\ command = "none" /\ told = None
  /\ \A l \in Logs : table[l].status # "paused"
  /\ \A i \in DOMAIN order : Exists(order[i])
  /\ \A c \in Conns :
       /\ conn[c].enabled
       /\ conn[c].phase \in {"started", "open", "ingesting"} \/ conn[c].log # None => order # <<>>
       /\ conn[c].phase = "ingesting" => Exists(conn[c].log)

\* A game that sends ahead goes on after events that are stored or on their way.
SentIsKept ==
  allowed =>
    /\ link # None /\ conn[link].phase \in {"open", "ingesting"}
    /\ \A e \in 1..sent :
         e \in persisted \/ \E j \in DOMAIN conn[link].batches : e \in conn[link].batches[j]

TypeInv == TypeOK /\ BatchesAreRuns

LogInv ==
  /\ TypeInv /\ CursorsAreStored /\ BatchesFollow /\ OneAtATime
  /\ Pipelined => Undisturbed /\ SentIsKept
-----------------------------------------------------------------------------
(* Types: the steps.                                                       *)

LEMMA InitTypes == Init => TypeInv
<1> SUFFICES ASSUME Init PROVE TypeInv
  OBVIOUS
<1>1. Absent \in Row /\ NoConn \in Task
  BY BoundsAreNatural DEF Absent, Row, NoConn, Task
<1>2. table \in [Logs -> Row] /\ conn \in [Conns -> Task]
  BY <1>1 DEF Init
<1>3. order \in Seq(Logs) /\ stored \in [Logs -> SUBSET (1..MaxEvents)] /\ persisted \subseteq 1..MaxEvents
  BY DEF Init
<1>4. {emitted, acked, sent, ack} \subseteq 0..MaxEvents /\ ops \in 0..MaxOps /\ losses \in 0..MaxLosses
  BY BoundsAreNatural DEF Init
<1>5. TypeOK
  BY <1>2, <1>3, <1>4 DEF Init, TypeOK, Row, Task
<1>6. BatchesAreRuns
  BY DEF Init, NoConn, BatchesAreRuns
<1> QED BY <1>5, <1>6 DEF TypeInv

\* The task of one connection changes, and nothing else a run depends on.
LEMMA TaskChanges ==
  ASSUME TypeInv, NEW c \in Conns, NEW r \in Task, conn' = [conn EXCEPT ![c] = r],
         r.batches \in {conn[c].batches, <<>>}, r.phase = "ingesting" => r.batches # <<>>,
         UNCHANGED emitted
  PROVE  conn' \in [Conns -> Task] /\ BatchesAreRuns'
<1>1. conn \in [Conns -> Task]
  BY Typed DEF TypeInv
<1>2. \A d \in Conns : /\ conn'[d].batches \in {conn[d].batches, <<>>}
                       /\ conn'[d].phase = "ingesting" => conn'[d].batches # <<>> \/ conn'[d] = conn[d]
  BY <1>1
<1> QED BY <1>1, <1>2 DEF TypeInv, BatchesAreRuns

LEMMA Runs ==
  ASSUME TypeInv, NEW c \in Conns, conn[c].batches # <<>>
  PROVE  /\ conn[c].batches \in Seq(SUBSET (1..MaxEvents))
         /\ \E a, k \in 1..emitted : a <= k /\ Head(conn[c].batches) = a..k
         /\ Tail(conn[c].batches) \in Seq(SUBSET (1..MaxEvents))
         /\ Len(Tail(conn[c].batches)) = Len(conn[c].batches) - 1
         /\ \A i \in 1..(Len(conn[c].batches) - 1) : Tail(conn[c].batches)[i] = conn[c].batches[i + 1]
         /\ Head(conn[c].batches) = conn[c].batches[1] /\ 1 \in DOMAIN conn[c].batches
<1>1. conn[c].batches \in Seq(SUBSET (1..MaxEvents))
  BY Typed DEF TypeInv, Task
<1>2. Head(conn[c].batches) = conn[c].batches[1] /\ 1 \in DOMAIN conn[c].batches
  BY <1>1
<1> QED BY <1>1, <1>2 DEF TypeInv, BatchesAreRuns

\* One batch is done with, the next one is read.
LEMMA DoneTypes ==
  ASSUME TypeInv, NEW c \in Conns, conn[c].batches # <<>>, Done(c), UNCHANGED emitted
  PROVE  /\ conn' \in [Conns -> Task] /\ BatchesAreRuns'
         /\ \A d \in Conns : d # c => conn'[d] = conn[d]
         /\ conn'[c].batches = Tail(conn[c].batches) /\ conn'[c].phase = "open"
         /\ conn'[c].log = conn[c].log /\ conn'[c].cursor = conn[c].cursor
         /\ conn'[c].enabled = conn[c].enabled
<1> DEFINE r == [conn[c] EXCEPT !.phase = "open", !.batches = Tail(@)]
<1>1. conn \in [Conns -> Task] /\ conn[c] \in Task
  BY Typed DEF TypeInv
<1>2. /\ r.batches = Tail(conn[c].batches) /\ r.phase = "open" /\ r.log = conn[c].log
      /\ r.cursor = conn[c].cursor /\ r.enabled = conn[c].enabled /\ r \in Task
  BY <1>1, Runs DEF Task
<1>3. conn' = [conn EXCEPT ![c] = r]
  BY DEF Done
<1> HIDE DEF r
<1>4. BatchesAreRuns'
  <2>0. \A d \in Conns : conn'[d].phase = "ingesting" => conn'[d].batches # <<>>
    BY <1>1, <1>2, <1>3 DEF TypeInv, BatchesAreRuns
  <2> SUFFICES ASSUME NEW d \in Conns, NEW i \in DOMAIN conn'[d].batches
               PROVE  \E a, k \in 1..emitted : a <= k /\ conn'[d].batches[i] = a..k
    BY <2>0 DEF BatchesAreRuns
  <2>1. CASE d = c
    <3>1. i \in 1..(Len(conn[c].batches) - 1) /\ i + 1 \in DOMAIN conn[c].batches
      <4>1. conn'[d].batches = Tail(conn[c].batches)
        BY <1>1, <1>2, <1>3, <2>1
      <4>2. DOMAIN Tail(conn[c].batches) = 1..(Len(conn[c].batches) - 1)
        BY Runs
      <4>3. Len(conn[c].batches) \in Nat /\ DOMAIN conn[c].batches = 1..Len(conn[c].batches)
        BY Typed DEF TypeInv
      <4> QED BY <4>1, <4>2, <4>3
    <3>2. conn'[d].batches[i] = conn[c].batches[i + 1]
      BY <1>1, <1>2, <1>3, <2>1, <3>1, Runs
    <3> QED BY <3>1, <3>2 DEF TypeInv, BatchesAreRuns
  <2>2. CASE d # c
    BY <1>1, <1>3, <2>2 DEF TypeInv, BatchesAreRuns
  <2> QED BY <2>1, <2>2
<1> QED BY <1>1, <1>2, <1>3, <1>4

DbOK ==
  /\ table \in [Logs -> Row] /\ order \in Seq(Logs)
  /\ stored \in [Logs -> SUBSET (1..MaxEvents)] /\ persisted \subseteq 1..MaxEvents
TasksOK == conn \in [Conns -> Task] /\ BatchesAreRuns
FlagsOK ==
  /\ current \in Conns \cup {None} /\ swept \in BOOLEAN /\ command \in {"none", "start", "stop", "repair"}
  /\ allowed \in BOOLEAN /\ link \in Conns \cup {None} /\ told \in BOOLEAN \cup {None}
CountsOK ==
  /\ emitted \in 0..MaxEvents /\ acked \in 0..MaxEvents /\ sent \in 0..MaxEvents
  /\ ack \in 0..MaxEvents /\ ops \in 0..MaxOps /\ losses \in 0..MaxLosses

LEMMA TypeParts ==
  /\ TypeInv <=> DbOK /\ TasksOK /\ FlagsOK /\ CountsOK
  /\ TypeInv' <=> DbOK' /\ TasksOK' /\ FlagsOK' /\ CountsOK'
<1>1. TypeInv <=> DbOK /\ TasksOK /\ FlagsOK /\ CountsOK
  BY DEF TypeInv, TypeOK, DbOK, TasksOK, FlagsOK, CountsOK, Row, Task
<1>2. TypeInv' <=> DbOK' /\ TasksOK' /\ FlagsOK' /\ CountsOK'
  BY DEF TypeInv, TypeOK, DbOK, TasksOK, FlagsOK, CountsOK, Row, Task
<1> QED BY <1>1, <1>2

LEMMA PartsKept ==
  ASSUME TypeInv
  PROVE  /\ UNCHANGED db => DbOK'
         /\ UNCHANGED <<conn, emitted>> => TasksOK'
         /\ UNCHANGED <<current, swept, command, allowed, link, told>> => FlagsOK'
         /\ UNCHANGED <<emitted, acked, sent, ack, ops, losses>> => CountsOK'
<1> USE TypeParts
<1>1. UNCHANGED db => DbOK'
  BY DEF DbOK, db
<1>2. UNCHANGED <<conn, emitted>> => TasksOK'
  BY DEF TasksOK, BatchesAreRuns
<1>3. UNCHANGED <<current, swept, command, allowed, link, told>> => FlagsOK'
  BY DEF FlagsOK
<1>4. UNCHANGED <<emitted, acked, sent, ack, ops, losses>> => CountsOK'
  BY DEF CountsOK
<1> QED BY <1>1, <1>2, <1>3, <1>4

LEMMA RowsTyped ==
  ASSUME TypeInv
  PROVE  /\ Absent \in Row
         /\ \A l \in Logs : \A s \in {"streaming", "paused", "disconnected", "interrupted"} :
              [table[l] EXCEPT !.status = s] \in Row /\ [table EXCEPT ![l].status = s] \in [Logs -> Row]
<1>1. table \in [Logs -> Row]
  BY TypeParts DEF DbOK
<1>2. \A r \in Row : \A s \in {"streaming", "paused", "disconnected", "interrupted"} :
        [r EXCEPT !.status = s] \in Row
  BY DEF Row
<1>3. \A l \in Logs : \A s \in {"streaming", "paused", "disconnected", "interrupted"} :
        [table EXCEPT ![l].status = s] \in [Logs -> Row]
  BY <1>1, <1>2
<1>4. \A l \in Logs : \A s \in {"streaming", "paused", "disconnected", "interrupted"} :
        [table[l] EXCEPT !.status = s] \in Row
  BY <1>1, <1>2
<1>5. Absent \in Row
  BY BoundsAreNatural DEF Absent, Row
<1> QED BY <1>3, <1>4, <1>5

LEMMA GameTypes ==
  TypeInv /\ (Emit \/ Send \/ HearAck \/ HearControl \/ Abandon) => TypeInv'
<1> SUFFICES ASSUME TypeInv, Emit \/ Send \/ HearAck \/ HearControl \/ Abandon PROVE TypeInv'
  OBVIOUS
<1>1. CASE Emit
  <2>1. DbOK' /\ FlagsOK'
    BY <1>1, PartsKept DEF Emit, app, wire
  <2>3. CountsOK'
    BY <1>1, TypeParts, BoundsAreNatural DEF Emit, wire, CountsOK
  <2>2. TasksOK'
    <3>1. UNCHANGED conn /\ 1..emitted \subseteq 1..emitted'
      BY <1>1, Typed DEF Emit, app, TypeInv
    <3> QED BY <3>1, TypeParts DEF TasksOK, BatchesAreRuns
  <2> QED BY <2>1, <2>2, <2>3, TypeParts
<1>2. CASE Send
  <2>1. PICK k \in NextEvent..emitted :
          /\ conn' = [conn EXCEPT ![link].batches = Append(@, NextEvent..k)]
          /\ sent' = IF Pipelined THEN k ELSE 0
    BY <1>2 DEF Send
  <2> DEFINE b == NextEvent..k
             r == [conn[link] EXCEPT !.batches = Append(@, b)]
  <2>2. /\ NextEvent \in Nat /\ NextEvent \in 1..emitted /\ k \in 1..emitted /\ NextEvent <= k
        /\ emitted \in 0..MaxEvents
    <3>1. NextEvent \in Nat /\ NextEvent >= 1 /\ emitted \in 0..MaxEvents /\ emitted \in Nat
      BY Typed, TypeParts DEF NextEvent, TypeInv, CountsOK
    <3> QED BY <3>1
  <2>3. b \in SUBSET (1..MaxEvents)
    BY <2>2, Typed DEF TypeInv
  <2>4. link \in Conns /\ conn[link] \in Task /\ conn \in [Conns -> Task]
    BY <1>2, TypeParts DEF Send, FlagsOK, TasksOK
  <2>5. r \in Task /\ r.batches = Append(conn[link].batches, b)
    <3>1. Append(conn[link].batches, b) \in Seq(SUBSET (1..MaxEvents))
      BY <2>3, <2>4 DEF Task
    <3> HIDE DEF b
    <3> QED BY <2>4, <3>1 DEF Task
  <2>6. conn' = [conn EXCEPT ![link] = r]
    BY <2>1
  <2> HIDE DEF r
  <2>7. TasksOK'
    <3>1. ASSUME NEW d \in Conns, NEW i \in DOMAIN conn'[d].batches
          PROVE  \E a, n \in 1..emitted : a <= n /\ conn'[d].batches[i] = a..n
      <4>1. CASE d = link
        <5>1. conn[d].batches \in Seq(SUBSET (1..MaxEvents))
          BY <2>4, <4>1 DEF Task
        <5>2. conn'[d].batches = Append(conn[d].batches, b)
          BY <2>4, <2>5, <2>6, <4>1
        <5>3. (i \in DOMAIN conn[d].batches /\ conn'[d].batches[i] = conn[d].batches[i])
              \/ conn'[d].batches[i] = b
          BY <2>3, <5>1, <5>2
        <5> QED BY <2>2, <5>3, TypeParts DEF TasksOK, BatchesAreRuns
      <4>2. CASE d # link
        BY <2>4, <2>6, <4>2, TypeParts DEF TasksOK, BatchesAreRuns
      <4> QED BY <4>1, <4>2
    <3>2. UNCHANGED emitted
      BY <1>2 DEF Send
    <3>3. conn' \in [Conns -> Task]
      BY <2>4, <2>5, <2>6
    <3>4. ASSUME NEW d \in Conns, conn'[d].phase = "ingesting" PROVE conn'[d].batches # <<>>
      <4>1. CASE d = link
        <5>1. conn[link].batches \in Seq(SUBSET (1..MaxEvents))
          BY <2>4 DEF Task
        <5> HIDE DEF b
        <5>2. Append(conn[link].batches, b) # <<>>
          BY <2>3, <5>1
        <5> QED BY <2>4, <2>5, <2>6, <4>1, <5>2
      <4>2. CASE d # link
        BY <2>4, <2>6, <3>4, <4>2, TypeParts DEF TasksOK, BatchesAreRuns
      <4> QED BY <4>1, <4>2
    <3> QED BY <3>1, <3>2, <3>3, <3>4 DEF TasksOK, BatchesAreRuns
  <2>8. sent' \in 0..MaxEvents
    BY <2>1, <2>2, Typed DEF TypeInv
  <2>9. DbOK' /\ FlagsOK'
    BY <1>2, PartsKept DEF Send, wire
  <2>10. CountsOK'
    BY <1>2, <2>8, TypeParts DEF Send, wire, CountsOK
  <2> QED BY <2>7, <2>9, <2>10, TypeParts
<1>3. CASE HearAck \/ HearControl \/ Abandon
  <2>1. UNCHANGED db /\ UNCHANGED <<conn, emitted>>
    BY <1>3 DEF HearAck, HearControl, Abandon, app
  <2>2. FlagsOK'
    BY <1>3, TypeParts DEF HearAck, HearControl, Abandon, app, wire, Hung, FlagsOK
  <2>3. CountsOK'
    BY <1>3, TypeParts, BoundsAreNatural DEF HearAck, HearControl, Abandon, wire, Hung, CountsOK
  <2> QED BY <2>1, <2>2, <2>3, PartsKept, TypeParts
<1> QED BY <1>1, <1>2, <1>3

LEMMA UserTypes ==
  TypeInv /\ (Control("start") \/ Control("stop") \/ MarkControl \/ (\E l \in Logs : DeleteSession(l))
                \/ BeginRepair \/ Repair)
    => TypeInv'
<1> SUFFICES ASSUME TypeInv,
                    Control("start") \/ Control("stop") \/ MarkControl
                      \/ (\E l \in Logs : DeleteSession(l)) \/ BeginRepair \/ Repair
             PROVE  TypeInv'
  OBVIOUS
<1>1. CASE Control("start") \/ Control("stop") \/ BeginRepair
  <2>1. UNCHANGED db /\ UNCHANGED <<conn, emitted>>
    BY <1>1 DEF Control, BeginRepair, game
  <2>2. FlagsOK'
    BY <1>1, TypeParts DEF Control, BeginRepair, Swept, game, wire, FlagsOK
  <2>3. CountsOK'
    BY <1>1, TypeParts, BoundsAreNatural DEF Control, Operation, BeginRepair, game, wire, CountsOK
  <2> QED BY <2>1, <2>2, <2>3, PartsKept, TypeParts
<1>2. CASE MarkControl
  <2>1. table' \in [Logs -> Row]
    BY <1>2, RowsTyped, Typed, TypeParts DEF MarkControl, DbOK, TypeInv
  <2>2. DbOK' /\ FlagsOK' /\ CountsOK'
    BY <1>2, <2>1, TypeParts, PartsKept DEF MarkControl, DbOK, FlagsOK, game, wire
  <2> QED BY <1>2, <2>2, PartsKept, TypeParts DEF MarkControl, game
<1>3. ASSUME NEW l \in Logs, DeleteSession(l) PROVE TypeInv'
  <2>1. table' \in [Logs -> Row] /\ stored' \in [Logs -> SUBSET (1..MaxEvents)]
    BY <1>3, RowsTyped, TypeParts DEF DeleteSession, DbOK
  <2>2. order' \in Seq(Logs)
    <3>1. PICK i \in DOMAIN order : order' = RemoveAt(order, i)
      BY <1>3 DEF DeleteSession
    <3>2. order \in Seq(Logs) /\ i \in 1..Len(order)
      BY TypeParts DEF DbOK
    <3>3. SubSeq(order, 1, i - 1) \in Seq(Logs) /\ SubSeq(order, i + 1, Len(order)) \in Seq(Logs)
      BY <3>2
    <3> QED BY <3>1, <3>3 DEF RemoveAt
  <2>3. FlagsOK' /\ CountsOK' /\ UNCHANGED <<conn, emitted, persisted>>
    <3>1. FlagsOK' /\ UNCHANGED <<conn, emitted, persisted>>
      BY <1>3, PartsKept DEF DeleteSession, app, game, wire
    <3>2. CountsOK'
      BY <1>3, TypeParts, BoundsAreNatural DEF DeleteSession, Operation, CountsOK, app, game, wire
    <3> QED BY <3>1, <3>2
  <2> QED BY <2>1, <2>2, <2>3, PartsKept, TypeParts DEF DbOK
<1>4. CASE Repair
  <2>1. table' \in [Logs -> Row] /\ stored' \in [Logs -> SUBSET (1..MaxEvents)]
    BY <1>4, RowsTyped DEF Repair
  <2>2. DbOK' /\ FlagsOK' /\ CountsOK'
    BY <1>4, <2>1, TypeParts, PartsKept DEF Repair, DbOK, FlagsOK, game, wire
  <2> QED BY <1>4, <2>2, PartsKept, TypeParts DEF Repair, game
<1> QED BY <1>1, <1>2, <1>3, <1>4

LEMMA ConnectionTypes ==
  ASSUME TypeInv, NEW c \in Conns,
         LookUp(c) \/ Resume(c) \/ Create(c) \/ Welcome(c) \/ Quit(c) \/ Report(c)
  PROVE  TypeInv'
<1> USE BoundsAreNatural
<1>1. conn \in [Conns -> Task] /\ conn[c] \in Task /\ table \in [Logs -> Row]
  BY Typed DEF TypeInv
<1>2. UNCHANGED emitted
  BY DEF LookUp, Resume, Create, Welcome, Quit, Report, game
<1>3. ASSUME NEW r \in Task, r.batches \in {conn[c].batches, <<>>}, r.phase # "ingesting",
             conn' = [conn EXCEPT ![c] = r]
      PROVE  TasksOK'
  BY <1>2, <1>3, TaskChanges DEF TasksOK
<1>4. \A p \in {"looked", "started", "open"}, l \in Logs :
        LET r == [conn[c] EXCEPT !.phase = p]
            s == [conn[c] EXCEPT !.phase = p, !.log = l]
        IN /\ r \in Task /\ r.batches = conn[c].batches /\ r.phase = p
           /\ s \in Task /\ s.batches = conn[c].batches /\ s.phase = p
  BY <1>1 DEF Task
<1>5. /\ NoConn \in Task /\ NoConn.batches = <<>> /\ NoConn.phase = "idle"
      /\ LET r == [NoConn EXCEPT !.phase = "left"]
         IN r \in Task /\ r.batches = <<>> /\ r.phase = "left"
  <2>1. NoConn \in Task /\ NoConn.batches = <<>> /\ NoConn.phase = "idle"
    BY DEF NoConn, Task
  <2>2. \A r \in Task : LET s == [r EXCEPT !.phase = "left"]
                        IN s \in Task /\ s.batches = r.batches /\ s.phase = "left"
    BY DEF Task
  <2> QED BY <2>1, <2>2
<1>6. CASE LookUp(c)
  <2> DEFINE r == [phase |-> "looked", log |-> Latest, enabled |-> Enabled(Latest),
                   cursor |-> ResumeAfter(Latest), batches |-> <<>>]
  <2>1. Latest \in Logs \cup {None} /\ None \notin Logs
    BY Typed DEF TypeInv
  <2>2. Enabled(Latest) \in BOOLEAN
    BY DEF Enabled
  <2>3. ResumeAfter(Latest) \in 0..MaxEvents
    BY <1>1, <2>1 DEF ResumeAfter, Row
  <2>4. r \in Task /\ r.batches = <<>> /\ r.phase = "looked"
    BY <2>1, <2>2, <2>3 DEF Task
  <2>5. TasksOK'
    BY <1>3, <1>6, <2>4 DEF LookUp
  <2>6. DbOK' /\ CountsOK'
    BY <1>6, PartsKept DEF LookUp, wire
  <2>7. FlagsOK'
    BY <1>6, TypeParts DEF LookUp, FlagsOK, wire
  <2> QED BY <2>5, <2>6, <2>7, TypeParts
<1>7. CASE Resume(c)
  <2>1. table' \in [Logs -> Row]
    <3>1. conn[c].log \in Logs \cup {None}
      BY Typed DEF TypeInv
    <3>2. ResumedStatus(conn[c].enabled) \in {"streaming", "paused"}
      BY DEF ResumedStatus
    <3> QED BY <1>1, <1>7, <3>1, <3>2, RowsTyped DEF Resume
  <2>2. TasksOK'
    <3>1. conn' = [conn EXCEPT ![c] = [conn[c] EXCEPT !.phase = "started"]]
      BY <1>7 DEF Resume
    <3> QED BY <1>1, <3>1, <1>3, <1>4 DEF Task
  <2>3. DbOK' /\ CountsOK' /\ FlagsOK'
    BY <1>7, <2>1, PartsKept, TypeParts DEF Resume, DbOK, game, wire
  <2> QED BY <2>2, <2>3, TypeParts
<1>8. CASE Create(c)
  <2>1. PICK l \in Logs : /\ table' = [table EXCEPT ![l] = [status |-> "streaming", cursor |-> 0]]
                          /\ order' = Append(order, l)
                          /\ conn' = [conn EXCEPT ![c].phase = "started", ![c].log = l]
    BY <1>8 DEF Create
  <2>2. [status |-> "streaming", cursor |-> 0] \in Row
    BY DEF Row
  <2>3. DbOK' /\ CountsOK' /\ FlagsOK'
    BY <1>8, <2>1, <2>2, PartsKept, TypeParts DEF Create, DbOK, game, wire
  <2>4. TasksOK'
    <3>1. conn' = [conn EXCEPT ![c] = [conn[c] EXCEPT !.phase = "started", !.log = l]]
      BY <1>1, <2>1
    <3> QED BY <3>1, <1>3, <1>4
  <2> QED BY <2>3, <2>4, TypeParts
<1>9. CASE Welcome(c)
  <2>1. TasksOK'
    <3>1. conn' = [conn EXCEPT ![c] = [conn[c] EXCEPT !.phase = "open"]]
      BY <1>9 DEF Welcome
    <3> QED BY <1>1, <3>1, <1>3, <1>4 DEF Task
  <2>2. DbOK'
    BY <1>9, PartsKept DEF Welcome
  <2>3. CountsOK'
    <3>1. conn[c].cursor \in 0..MaxEvents /\ acked \in 0..MaxEvents
      BY <1>1, TypeParts DEF Task, CountsOK
    <3>2. Max({acked, conn[c].cursor}) \in 0..MaxEvents
      BY <3>1, MaxOfTwo
    <3> QED BY <1>9, <3>2, TypeParts DEF Welcome, CountsOK, wire
  <2>4. FlagsOK'
    <3>1. conn[c].enabled \in BOOLEAN
      BY <1>1 DEF Task
    <3> QED BY <1>9, <3>1, TypeParts DEF Welcome, FlagsOK, wire
  <2> QED BY <2>1, <2>2, <2>3, <2>4, TypeParts
<1>10. CASE Quit(c)
  <2>1. TasksOK'
    BY <1>3, <1>5, <1>10 DEF Quit
  <2>2. DbOK'
    BY <1>10, PartsKept DEF Quit
  <2>3. CountsOK'
    BY <1>10, TypeParts DEF Quit, Hung, wire, CountsOK
  <2>4. FlagsOK'
    BY <1>10, TypeParts DEF Quit, Hung, wire, FlagsOK
  <2> QED BY <2>1, <2>2, <2>3, <2>4, TypeParts
<1>11. CASE Report(c)
  <2>1. TasksOK'
    BY <1>3, <1>5, <1>11 DEF Report
  <2>2. table' \in [Logs -> Row]
    BY <1>1, <1>11, RowsTyped DEF Report, Stopped
  <2>3. DbOK' /\ CountsOK' /\ FlagsOK'
    BY <1>11, <2>2, PartsKept, TypeParts DEF Report, DbOK, game, wire
  <2> QED BY <2>1, <2>3, TypeParts
<1> QED BY <1>6, <1>7, <1>8, <1>9, <1>10, <1>11

\* Where the cursor goes when a batch is ingested.
LEMMA TopOfBatch ==
  ASSUME TypeInv, NEW c \in Conns, conn[c].batches # <<>>, conn[c].log \in Logs
  PROVE  LET batch  == Head(conn[c].batches)
             top    == NewCursor(c, batch)
             cursor == table[conn[c].log].cursor
         IN /\ batch \subseteq 1..MaxEvents /\ Fresh(batch, cursor) \subseteq batch
            /\ top \in batch \cup {cursor, conn[c].cursor}
            /\ top \in 0..MaxEvents /\ \A e \in batch \cup {cursor, conn[c].cursor} : top >= e
            /\ \E a, k \in 1..emitted : a <= k /\ batch = a..k
<1> DEFINE batch  == Head(conn[c].batches)
           cursor == table[conn[c].log].cursor
<1>1. PICK a, k \in 1..emitted : a <= k /\ batch = a..k
  BY Runs
<1>2. batch \subseteq 1..MaxEvents
  BY Runs
<1>3. /\ cursor \in Nat /\ conn[c].cursor \in Nat /\ a \in Nat /\ k \in Nat
      /\ cursor \in 0..MaxEvents /\ conn[c].cursor \in 0..MaxEvents
  BY Typed DEF TypeInv, Row, Task
<1>4. NewCursor(c, batch) = Max((a..k) \cup {cursor, conn[c].cursor})
  BY <1>1 DEF NewCursor
<1>5. /\ NewCursor(c, batch) \in batch \cup {cursor, conn[c].cursor}
      /\ \A e \in batch \cup {cursor, conn[c].cursor} : NewCursor(c, batch) >= e
  <2> DEFINE x == conn[c].cursor
             S == (a..k) \cup {cursor, x}
  <2> HIDE DEF cursor, x
  <2>1. Max(S) \in S /\ \A e \in S : Max(S) >= e
    BY <1>1, <1>3, MaxOfBatch DEF x
  <2> QED BY <1>1, <1>4, <2>1 DEF x
<1>6. Fresh(batch, cursor) \subseteq batch
  BY DEF Fresh
<1>7. NewCursor(c, batch) \in 0..MaxEvents
  BY <1>2, <1>3, <1>5
<1> HIDE DEF batch, cursor
<1>8. \E m, n \in 1..emitted : m <= n /\ batch = m..n
  BY <1>1
<1> QED BY <1>2, <1>5, <1>6, <1>7, <1>8 DEF batch, cursor

LEMMA IngestTypes ==
  ASSUME TypeInv, NEW c \in Conns, Read(c) \/ Ingest(c) \/ IngestRefused(c)
  PROVE  TypeInv'
<1> USE BoundsAreNatural
<1>1. conn \in [Conns -> Task] /\ conn[c] \in Task /\ table \in [Logs -> Row]
  BY Typed DEF TypeInv
<1>2. UNCHANGED emitted
  BY DEF Read, Ingest, IngestRefused, game
<1>3. conn[c].batches # <<>> /\ Done(c) => TasksOK'
  BY <1>2, DoneTypes DEF TasksOK
<1>4. CASE Read(c)
  <2>1. TasksOK'
    <3>1. CASE Done(c)
      BY <1>3, <1>4, <3>1 DEF Read
    <3>2. CASE ~Done(c)
      <4> DEFINE r == [conn[c] EXCEPT !.phase = "ingesting", !.log = Latest, !.cursor = table[Latest].cursor]
      <4>1. conn' = [conn EXCEPT ![c] = r] /\ Latest # None
        BY <1>1, <1>4, <3>2 DEF Read
      <4>2. Latest \in Logs
        BY <4>1, Typed DEF TypeInv
      <4>3. table[Latest].cursor \in 0..MaxEvents
        BY <1>1, <4>2 DEF Row
      <4>4. r \in Task /\ r.batches = conn[c].batches
        BY <1>1, <4>2, <4>3 DEF Task
      <4>5. conn[c].batches # <<>>
        BY <1>4 DEF Read
      <4> HIDE DEF r
      <4> QED BY <1>2, <4>1, <4>4, <4>5, TaskChanges DEF TasksOK
    <3> QED BY <3>1, <3>2
  <2>2. DbOK' /\ CountsOK' /\ FlagsOK'
    BY <1>4, PartsKept DEF Read, game, wire
  <2> QED BY <2>1, <2>2, TypeParts
<1>5. CASE Ingest(c)
  <2> DEFINE l == conn[c].log
             batch == Head(conn[c].batches)
             top == NewCursor(c, batch)
  <2>1. l \in Logs /\ conn[c].phase = "ingesting" /\ conn[c].batches # <<>>
    BY <1>5, Typed DEF Ingest, Refused, Exists, TypeInv, BatchesAreRuns
  <2>2. TasksOK'
    BY <1>3, <1>5, <2>1 DEF Ingest
  <2>3. /\ batch \subseteq 1..MaxEvents /\ Fresh(batch, table[l].cursor) \subseteq 1..MaxEvents
        /\ top \in 0..MaxEvents
    BY <2>1, TopOfBatch
  <2>4. [status |-> "streaming", cursor |-> top] \in Row
    BY <2>3 DEF Row
  <2>5. /\ table' = [table EXCEPT ![l] = [status |-> "streaming", cursor |-> top]]
        /\ stored' = [stored EXCEPT ![l] = @ \cup Fresh(batch, table[l].cursor)]
        /\ persisted' = persisted \cup Fresh(batch, table[l].cursor)
        /\ ack' = IF link = c THEN top ELSE ack
        /\ UNCHANGED <<order, current, swept, command, game, told, ops, losses>>
    BY <1>5 DEF Ingest
  <2> HIDE DEF top, batch, l
  <2>6. DbOK'
    BY <1>1, <2>1, <2>3, <2>4, <2>5, TypeParts DEF DbOK
  <2>7. CountsOK' /\ FlagsOK'
    BY <2>3, <2>5, PartsKept, TypeParts DEF CountsOK, game
  <2> QED BY <2>2, <2>6, <2>7, TypeParts
<1>6. CASE IngestRefused(c)
  <2>1. TasksOK'
    BY <1>3, <1>6 DEF IngestRefused, TypeInv, BatchesAreRuns
  <2>2. DbOK' /\ CountsOK' /\ FlagsOK'
    BY <1>6, PartsKept DEF IngestRefused, game, wire
  <2> QED BY <2>1, <2>2, TypeParts
<1> QED BY <1>4, <1>5, <1>6

LEMMA LossTypes == TypeInv /\ (Sweep \/ ReportSweep \/ Reopen) => TypeInv'
<1> SUFFICES ASSUME TypeInv, Sweep \/ ReportSweep \/ Reopen PROVE TypeInv'
  OBVIOUS
<1> USE BoundsAreNatural
<1>1. CASE Sweep
  <2>1. DbOK' /\ TasksOK'
    BY <1>1, PartsKept DEF Sweep, game
  <2>2. CountsOK'
    BY <1>1, TypeParts DEF Sweep, CountsOK, game, wire
  <2>3. FlagsOK'
    BY <1>1, TypeParts DEF Sweep, Swept, FlagsOK, game, wire
  <2> QED BY <2>1, <2>2, <2>3, TypeParts
<1>2. CASE ReportSweep
  <2>1. table' \in [Logs -> Row]
    BY <1>2, RowsTyped, Typed DEF ReportSweep, Stopped, TypeInv
  <2>2. DbOK' /\ TasksOK' /\ CountsOK'
    BY <1>2, <2>1, PartsKept, TypeParts DEF ReportSweep, DbOK, game, wire
  <2>3. FlagsOK'
    BY <1>2, TypeParts DEF ReportSweep, FlagsOK, game, wire
  <2> QED BY <2>2, <2>3, TypeParts
<1>3. CASE Reopen
  <2>1. table' \in [Logs -> Row]
    BY <1>3, RowsTyped, Typed DEF Reopen, TypeInv
  <2>2. DbOK'
    BY <1>3, <2>1, TypeParts DEF Reopen, DbOK
  <2>3. TasksOK'
    <3>1. NoConn \in Task /\ NoConn.batches = <<>> /\ NoConn.phase = "idle"
      BY DEF NoConn, Task
    <3> QED BY <1>3, <3>1 DEF Reopen, TasksOK, BatchesAreRuns
  <2>4. CountsOK'
    BY <1>3, TypeParts DEF Reopen, Hung, CountsOK
  <2>5. FlagsOK'
    BY <1>3, TypeParts DEF Reopen, Hung, FlagsOK
  <2> QED BY <2>2, <2>3, <2>4, <2>5, TypeParts
<1> QED BY <1>1, <1>2, <1>3

LEMMA TypeStep == TypeInv /\ [Next]_vars => TypeInv'
<1> SUFFICES ASSUME TypeInv, [Next]_vars PROVE TypeInv'
  OBVIOUS
<1>1. CASE UNCHANGED vars
  BY <1>1, PartsKept, TypeParts DEF vars, app, game, wire
<1>2. ASSUME NEW c \in Conns, Connection(c) PROVE TypeInv'
  BY <1>2, ConnectionTypes, IngestTypes DEF Connection
<1> QED BY <1>1, <1>2, GameTypes, UserTypes, LossTypes DEF Next

\* handle_socket, ingest_batch, the log commands and the database keep every
\* row, task, batch and counter well formed.
THEOREM TypeCorrect == Spec => []TypeOK
<1>1. TypeInv => TypeOK
  BY DEF TypeInv
<1> QED BY <1>1, InitTypes, TypeStep, PTL DEF Spec
-----------------------------------------------------------------------------
(* Cursors.                                                                *)

\* Rows other than the one a batch is ingested into keep their cursors, and
\* no row that exists loses its place unless it is deleted.
LEMMA CursorsMove ==
  ASSUME TypeInv, [Next]_vars, NEW l \in Logs
  PROVE  \/ table'[l].cursor = table[l].cursor
         \/ table'[l] = Absent
         \/ ~Exists(l) /\ table'[l].cursor = 0
         \/ \E c \in Conns : Ingest(c) /\ conn[c].log = l
<1>1. table \in [Logs -> Row]
  BY Typed DEF TypeInv
<1>2. \A r \in Row : \A s : [r EXCEPT !.status = s].cursor = r.cursor
  BY DEF Row
<1>3. CASE UNCHANGED table
  BY <1>3
<1>4. CASE Stopped
  BY <1>1, <1>2, <1>4 DEF Stopped
<1>5. CASE Reopen
  BY <1>1, <1>2, <1>5 DEF Reopen
<1>6. CASE Repair
  BY <1>1, <1>2, <1>6 DEF Repair
<1>7. CASE MarkControl
  BY <1>1, <1>2, <1>7 DEF MarkControl
<1>8. ASSUME NEW m \in Logs, DeleteSession(m) PROVE table'[l] = Absent \/ table'[l] = table[l]
  BY <1>1, <1>8 DEF DeleteSession
<1>9. ASSUME NEW c \in Conns, Resume(c) PROVE table'[l].cursor = table[l].cursor
  BY <1>1, <1>2, <1>9 DEF Resume
<1>10. ASSUME NEW c \in Conns, Create(c)
       PROVE  table'[l] = table[l] \/ (~Exists(l) /\ table'[l].cursor = 0)
  BY <1>1, <1>10 DEF Create, Exists
<1>11. ASSUME NEW c \in Conns, Ingest(c) PROVE table'[l] = table[l] \/ conn[c].log = l
  BY <1>1, <1>11 DEF Ingest
<1>12. ASSUME NEW c \in Conns, Connection(c), ~Resume(c), ~Create(c), ~Ingest(c)
       PROVE  UNCHANGED table \/ Stopped
  BY <1>12 DEF Connection, LookUp, Welcome, Quit, Report, Read, IngestRefused, db
<1>13. CASE Emit \/ Send \/ HearAck \/ HearControl \/ Abandon \/ Sweep \/ ReportSweep \/ Control("start")
              \/ Control("stop") \/ BeginRepair \/ UNCHANGED vars
  <2>1. UNCHANGED table \/ Stopped
    BY <1>13 DEF Emit, Send, HearAck, HearControl, Abandon, Sweep, ReportSweep, Control, BeginRepair, db, vars
  <2> QED BY <1>3, <1>4, <2>1
<1> QED
  BY <1>3, <1>4, <1>5, <1>6, <1>7, <1>8, <1>9, <1>10, <1>11, <1>12, <1>13 DEF Next

\* ingest_batch writes MAX of the cursor it reads inside the transaction; no
\* connection, command or repair moves the place of a session back.
THEOREM CursorsNeverMoveBack == Spec => CursorNeverBack
<1>1. TypeInv /\ [Next]_vars =>
        [\A l \in Logs : Exists(l) /\ table'[l] # Absent => table'[l].cursor >= table[l].cursor]_vars
  <2> SUFFICES ASSUME TypeInv, [Next]_vars, NEW l \in Logs, Exists(l), table'[l] # Absent
               PROVE  table'[l].cursor >= table[l].cursor
    OBVIOUS
  <2>1. table[l].cursor \in Nat /\ table \in [Logs -> Row]
    BY Typed DEF TypeInv
  <2>2. CASE table'[l].cursor = table[l].cursor
    BY <2>1, <2>2
  <2>3. ASSUME NEW c \in Conns, Ingest(c), conn[c].log = l PROVE table'[l].cursor >= table[l].cursor
    <3>1. conn[c].batches # <<>>
      BY <2>3 DEF Ingest, TypeInv, BatchesAreRuns
    <3>2. table'[l].cursor = NewCursor(c, Head(conn[c].batches))
      BY <2>1, <2>3 DEF Ingest
    <3> QED BY <2>3, <3>1, <3>2, TopOfBatch
  <2> QED BY <2>2, <2>3, CursorsMove
<1> QED BY <1>1, InitTypes, TypeStep, PTL DEF Spec, CursorNeverBack
-----------------------------------------------------------------------------
(* Only stored events are covered, by a cursor or an acknowledgement.      *)

\* Steps that neither send, read nor ingest a batch.
Aside ==
  /\ [Next]_vars /\ ~Send
  /\ \A c \in Conns : ~Read(c) /\ ~Ingest(c) /\ ~IngestRefused(c)

\* Aside from batches, nothing is stored, no batch is added, and every
\* number comes from one that was there before.
LEMMA AsideSteps ==
  ASSUME TypeInv, Aside
  PROVE  /\ persisted' = persisted /\ ack' \in {ack, 0}
         /\ \/ acked' = acked
            \/ acked' = ack
            \/ \E c \in Conns : acked' = Max({acked, conn[c].cursor})
         /\ \A c \in Conns : /\ conn'[c].batches \in {conn[c].batches, <<>>}
                             /\ conn'[c].cursor \in {conn[c].cursor, 0, ResumeAfter(Latest)}
<1> DEFINE Goal ==
             /\ persisted' = persisted /\ ack' \in {ack, 0}
             /\ \/ acked' = acked
                \/ acked' = ack
                \/ \E c \in Conns : acked' = Max({acked, conn[c].cursor})
             /\ \A c \in Conns : /\ conn'[c].batches \in {conn[c].batches, <<>>}
                                 /\ conn'[c].cursor \in {conn[c].cursor, 0, ResumeAfter(Latest)}
<1>1. conn \in [Conns -> Task]
  BY Typed DEF TypeInv
<1>2. NoConn \in Task /\ NoConn.batches = <<>> /\ NoConn.cursor = 0
      /\ [NoConn EXCEPT !.phase = "left"].batches = <<>> /\ [NoConn EXCEPT !.phase = "left"].cursor = 0
  BY BoundsAreNatural DEF NoConn, Task
<1>3. \A r \in Task : \A p, l : LET s == [r EXCEPT !.phase = p]
                                    t == [r EXCEPT !.phase = p, !.log = l]
                                IN s.batches = r.batches /\ s.cursor = r.cursor
                                   /\ t.batches = r.batches /\ t.cursor = r.cursor
  BY DEF Task
<1>4. ASSUME NEW c \in Conns, NEW r, conn' = [conn EXCEPT ![c] = r], r.batches \in {conn[c].batches, <<>>},
             r.cursor \in {conn[c].cursor, 0, ResumeAfter(Latest)}
      PROVE  \A d \in Conns : /\ conn'[d].batches \in {conn[d].batches, <<>>}
                              /\ conn'[d].cursor \in {conn[d].cursor, 0, ResumeAfter(Latest)}
  BY <1>1, <1>4
<1>5. ASSUME NEW c \in Conns, LookUp(c) PROVE Goal
  <2> DEFINE r == [phase |-> "looked", log |-> Latest, enabled |-> Enabled(Latest),
                   cursor |-> ResumeAfter(Latest), batches |-> <<>>]
  <2>1. conn' = [conn EXCEPT ![c] = r] /\ r.batches = <<>> /\ r.cursor = ResumeAfter(Latest)
    BY <1>5 DEF LookUp
  <2>2. UNCHANGED <<persisted, ack, acked>>
    BY <1>5 DEF LookUp, db, wire
  <2> HIDE DEF r
  <2> QED BY <1>4, <2>1, <2>2
<1>6. ASSUME NEW c \in Conns, Resume(c) PROVE Goal
  <2>1. conn' = [conn EXCEPT ![c] = [conn[c] EXCEPT !.phase = "started"]]
    BY <1>6 DEF Resume
  <2>2. UNCHANGED <<persisted, ack, acked>>
    BY <1>6 DEF Resume, game, wire
  <2> QED BY <1>1, <1>3, <1>4, <2>1, <2>2
<1>7. ASSUME NEW c \in Conns, Create(c) PROVE Goal
  <2>1. PICK l \in Logs : conn' = [conn EXCEPT ![c].phase = "started", ![c].log = l]
    BY <1>7 DEF Create
  <2>2. conn' = [conn EXCEPT ![c] = [conn[c] EXCEPT !.phase = "started", !.log = l]]
    BY <1>1, <2>1
  <2>3. UNCHANGED <<persisted, ack, acked>>
    BY <1>7 DEF Create, game, wire
  <2> QED BY <1>1, <1>3, <1>4, <2>2, <2>3
<1>8. ASSUME NEW c \in Conns, Welcome(c) PROVE Goal
  <2>1. conn' = [conn EXCEPT ![c] = [conn[c] EXCEPT !.phase = "open"]]
    BY <1>8 DEF Welcome
  <2>2. UNCHANGED <<persisted, ack>> /\ (acked' = acked \/ acked' = Max({acked, conn[c].cursor}))
    BY <1>8 DEF Welcome, db, wire
  <2>3. \A d \in Conns : /\ conn'[d].batches \in {conn[d].batches, <<>>}
                         /\ conn'[d].cursor \in {conn[d].cursor, 0, ResumeAfter(Latest)}
    BY <1>1, <1>3, <1>4, <2>1
  <2> HIDE DEF Goal
  <2>4. Goal
    BY <2>2, <2>3 DEF Goal
  <2> QED BY <2>4
<1>9. ASSUME NEW c \in Conns, Quit(c) PROVE Goal
  <2>1. PICK r \in {NoConn, [NoConn EXCEPT !.phase = "left"]} : conn' = [conn EXCEPT ![c] = r]
    BY <1>9 DEF Quit
  <2>2. UNCHANGED <<persisted, acked>> /\ ack' \in {ack, 0}
    BY <1>9 DEF Quit, Hung, db, wire
  <2> QED BY <1>2, <1>4, <2>1, <2>2
<1>10. ASSUME NEW c \in Conns, Report(c) PROVE Goal
  <2>1. UNCHANGED <<persisted, ack, acked>> /\ conn' = [conn EXCEPT ![c] = NoConn]
    BY <1>10 DEF Report, game, wire
  <2> QED BY <1>2, <1>4, <2>1
<1>11. CASE Reopen
  BY <1>2, <1>11 DEF Reopen, Hung
<1>12. CASE UNCHANGED vars \/ Emit \/ HearAck \/ HearControl \/ Abandon \/ Sweep \/ ReportSweep
             \/ Control("start") \/ Control("stop") \/ MarkControl \/ BeginRepair \/ Repair
             \/ \E l \in Logs : DeleteSession(l)
  <2>1. UNCHANGED <<persisted, conn>> /\ ack' \in {ack, 0} /\ acked' \in {acked, ack}
    BY <1>12 DEF vars, Emit, HearAck, HearControl, Abandon, Sweep, ReportSweep, Control, MarkControl,
                 BeginRepair, Repair, DeleteSession, Hung, db, app, game, wire
  <2> QED BY <2>1
<1> QED
  BY <1>5, <1>6, <1>7, <1>8, <1>9, <1>10, <1>11, <1>12 DEF Aside, Next, Connection

LEMMA CursorsStayStored ==
  ASSUME TypeInv, CursorsAreStored, [Next]_vars, \A c \in Conns : ~Ingest(c)
  PROVE  CursorsAreStored' /\ persisted' = persisted
<1>1. Stored(0)
  BY DEF Stored
<1>2. Stored(ResumeAfter(Latest)) /\ \A l \in Logs : Stored(table[l].cursor)
  BY <1>1, Typed DEF TypeInv, CursorsAreStored, ResumeAfter
<1>3. \A c \in Conns : Stored(Max({acked, conn[c].cursor}))
  <2> TAKE c \in Conns
  <2>1. Max({acked, conn[c].cursor}) \in {acked, conn[c].cursor}
    BY Typed, MaxOfTwo DEF TypeInv
  <2> QED BY <2>1 DEF CursorsAreStored
<1>4. /\ persisted' = persisted /\ Stored(ack') /\ Stored(acked')
      /\ \A c \in Conns : Stored(conn'[c].cursor)
  <2>1. CASE Aside
    <3>1. Stored(ack') /\ Stored(acked') /\ persisted' = persisted
      BY <1>1, <1>3, <2>1, AsideSteps DEF CursorsAreStored
    <3>2. \A c \in Conns : conn'[c].cursor \in {conn[c].cursor, 0, ResumeAfter(Latest)}
      BY <2>1, AsideSteps
    <3> QED BY <1>1, <1>2, <3>1, <3>2 DEF CursorsAreStored
  <2>2. CASE Send
    <3>1. UNCHANGED <<persisted, ack, acked>>
      BY <2>2 DEF Send, db, wire
    <3>2. PICK b : conn' = [conn EXCEPT ![link].batches = b]
      BY <2>2 DEF Send
    <3>3. conn \in [Conns -> Task] /\ \A r \in Task : [r EXCEPT !.batches = b].cursor = r.cursor
      BY Typed DEF TypeInv, Task
    <3>4. \A c \in Conns : conn'[c].cursor = conn[c].cursor
      BY <3>2, <3>3
    <3> QED BY <3>1, <3>4 DEF CursorsAreStored
  <2>3. ASSUME NEW c \in Conns, Read(c) \/ IngestRefused(c)
        PROVE  /\ persisted' = persisted /\ Stored(ack') /\ Stored(acked')
               /\ \A d \in Conns : Stored(conn'[d].cursor)
    <3>1. UNCHANGED <<persisted, ack, acked>>
      BY <2>3 DEF Read, IngestRefused, db, game, wire
    <3>2. conn[c].batches # <<>> /\ UNCHANGED emitted
      BY <2>3 DEF Read, IngestRefused, game, TypeInv, BatchesAreRuns
    <3>3. CASE Done(c)
      <4>1. \A d \in Conns : conn'[d].cursor = conn[d].cursor
        BY <3>2, <3>3, DoneTypes
      <4> QED BY <3>1, <4>1 DEF CursorsAreStored
    <3>4. CASE ~Done(c)
      <4> DEFINE r == [conn[c] EXCEPT !.phase = "ingesting", !.log = Latest, !.cursor = table[Latest].cursor]
      <4>1. conn' = [conn EXCEPT ![c] = r] /\ Latest # None
        BY <2>3, <3>4, Typed DEF Read, IngestRefused, TypeInv
      <4>2. r.cursor = table[Latest].cursor /\ Latest \in Logs /\ conn \in [Conns -> Task]
        BY <4>1, Typed DEF TypeInv, Task
      <4> HIDE DEF r
      <4> QED BY <1>2, <3>1, <4>1, <4>2 DEF CursorsAreStored
    <3> QED BY <3>3, <3>4
  <2> QED BY <2>1, <2>2, <2>3 DEF Aside
<1>5. \A l \in Logs : Stored(table'[l].cursor)
  BY <1>1, <1>2, CursorsMove DEF Absent
<1>6. CursorsAreStored'
  BY <1>4, <1>5 DEF CursorsAreStored, Stored
<1> QED BY <1>4, <1>6
-----------------------------------------------------------------------------
(* Batches follow on what is stored.                                       *)

FollowInv == TypeInv /\ BatchesFollow /\ OneAtATime

LEMMA BatchesStayFollowed ==
  ASSUME FollowInv, persisted \subseteq persisted',
         \A c \in Conns : conn'[c].batches \in {conn[c].batches, <<>>}
  PROVE  BatchesFollow' /\ OneAtATime'
<1>1. BatchesFollow'
  <2> SUFFICES ASSUME NEW c \in Conns, NEW i \in DOMAIN conn'[c].batches,
                      NEW a \in conn'[c].batches[i], NEW e \in 1..a
               PROVE  e \in persisted' \/ \E j \in 1..i : e \in conn'[c].batches[j]
    BY DEF BatchesFollow
  <2>1. conn'[c].batches = conn[c].batches
    OBVIOUS
  <2> QED BY <2>1 DEF FollowInv, BatchesFollow
<1>2. OneAtATime'
  BY DEF FollowInv, OneAtATime
<1> QED BY <1>1, <1>2

\* A batch may go when all of it is stored, or when nothing follows it.
LEMMA BatchesFollowDone ==
  ASSUME FollowInv, persisted \subseteq persisted', NEW c \in Conns, conn[c].batches # <<>>,
         Done(c), UNCHANGED emitted,
         Len(conn[c].batches) <= 1 \/ Head(conn[c].batches) \subseteq persisted'
  PROVE  BatchesFollow' /\ OneAtATime'
<1>1. /\ conn'[c].batches = Tail(conn[c].batches)
      /\ \A d \in Conns : d # c => conn'[d].batches = conn[d].batches
  BY DoneTypes DEF FollowInv
<1>2. /\ Len(Tail(conn[c].batches)) = Len(conn[c].batches) - 1
      /\ DOMAIN Tail(conn[c].batches) = 1..(Len(conn[c].batches) - 1)
      /\ \A i \in 1..(Len(conn[c].batches) - 1) : Tail(conn[c].batches)[i] = conn[c].batches[i + 1]
      /\ Head(conn[c].batches) = conn[c].batches[1]
      /\ Len(conn[c].batches) \in Nat /\ DOMAIN conn[c].batches = 1..Len(conn[c].batches)
  BY Runs, Typed DEF FollowInv, TypeInv
<1>3. OneAtATime'
  <2>1. Len(conn'[c].batches) = Len(conn[c].batches) - 1 /\ Len(conn[c].batches) \in Nat
    BY <1>1, <1>2
  <2> SUFFICES ASSUME ~Pipelined, NEW d \in Conns PROVE Len(conn'[d].batches) <= 1
    BY DEF OneAtATime
  <2>2. Len(conn[d].batches) <= 1
    BY DEF FollowInv, OneAtATime
  <2>3. CASE d = c
    BY <2>1, <2>2, <2>3
  <2>4. CASE d # c
    BY <1>1, <2>2, <2>4
  <2> QED BY <2>3, <2>4
<1>4. BatchesFollow'
  <2> SUFFICES ASSUME NEW d \in Conns, NEW i \in DOMAIN conn'[d].batches,
                      NEW a \in conn'[d].batches[i], NEW e \in 1..a
               PROVE  e \in persisted' \/ \E j \in 1..i : e \in conn'[d].batches[j]
    BY DEF BatchesFollow
  <2>1. CASE d # c
    <3>1. conn'[d].batches = conn[d].batches
      BY <1>1, <2>1
    <3> QED BY <3>1 DEF FollowInv, BatchesFollow
  <2>2. CASE d = c
    <3>1. /\ i \in 1..(Len(conn[c].batches) - 1) /\ conn'[c].batches[i] = conn[c].batches[i + 1]
          /\ i + 1 \in DOMAIN conn[c].batches /\ Head(conn[c].batches) \subseteq persisted'
      <4>1. DOMAIN conn'[d].batches = 1..(Len(conn[c].batches) - 1)
        BY <1>1, <1>2, <2>2
      <4>2. i \in 1..(Len(conn[c].batches) - 1)
        BY <4>1
      <4>3. i + 1 \in DOMAIN conn[c].batches /\ Len(conn[c].batches) > 1
        BY <1>2, <4>2
      <4>4. conn'[c].batches[i] = conn[c].batches[i + 1]
        BY <1>1, <1>2, <4>2
      <4> QED BY <4>2, <4>3, <4>4, <1>2
    <3>2. e \in persisted \/ \E j \in 1..(i + 1) : e \in conn[c].batches[j]
      BY <2>2, <3>1 DEF FollowInv, BatchesFollow
    <3>3. ASSUME NEW j \in 1..(i + 1), e \in conn[c].batches[j]
          PROVE  e \in persisted' \/ \E n \in 1..i : e \in conn'[c].batches[n]
      <4>1. CASE j = 1
        BY <1>2, <3>1, <3>3, <4>1
      <4>2. CASE j # 1
        <5>1. j - 1 \in 1..i /\ j - 1 \in 1..(Len(conn[c].batches) - 1) /\ (j - 1) + 1 = j
          BY <1>2, <3>1, <4>2
        <5>2. conn'[c].batches[j - 1] = conn[c].batches[j]
          BY <1>1, <1>2, <5>1
        <5> QED BY <3>3, <5>1, <5>2
      <4> QED BY <4>1, <4>2
    <3> QED BY <2>2, <3>2, <3>3
  <2> QED BY <2>1, <2>2
<1> QED BY <1>3, <1>4

\* The game sends the event after those stored or on their way.
LEMMA BatchesFollowSent ==
  ASSUME FollowInv, Send,
         \A e \in 1..(NextEvent - 1) :
           e \in persisted \/ \E j \in DOMAIN conn[link].batches : e \in conn[link].batches[j]
  PROVE  /\ BatchesFollow' /\ OneAtATime' /\ link \in Conns
         /\ Pipelined => \A e \in 1..sent' :
              e \in persisted \/ \E j \in DOMAIN conn'[link].batches : e \in conn'[link].batches[j]
<1>1. PICK k \in NextEvent..emitted :
        /\ conn' = [conn EXCEPT ![link].batches = Append(@, NextEvent..k)]
        /\ sent' = IF Pipelined THEN k ELSE 0
  BY DEF Send
<1> DEFINE b == NextEvent..k
           n == Len(conn[link].batches)
<1>2. link \in Conns /\ conn \in [Conns -> Task]
  BY TypeParts DEF Send, FlagsOK, TasksOK, FollowInv
<1>3. /\ conn[link].batches \in Seq(SUBSET (1..MaxEvents)) /\ n \in Nat
      /\ DOMAIN conn[link].batches = 1..n
  BY <1>2, Typed DEF Task, FollowInv, TypeInv
<1>4. NextEvent \in Nat /\ k \in Nat /\ emitted \in Nat /\ MaxEvents \in Nat /\ NextEvent >= 1 /\ NextEvent <= k
  BY Typed DEF NextEvent, FollowInv, TypeInv
<1>5. b \subseteq 1..MaxEvents
  <2>1. emitted \in 0..MaxEvents
    BY TypeParts DEF CountsOK, FollowInv
  <2> QED BY <1>4, <2>1
<1>6. conn'[link].batches = Append(conn[link].batches, b)
  <2>1. \A r \in Task : [r EXCEPT !.batches = Append(@, b)].batches = Append(r.batches, b)
    BY DEF Task
  <2> QED BY <1>1, <1>2, <2>1
<1>7. \A d \in Conns : d # link => conn'[d].batches = conn[d].batches
  BY <1>1, <1>2
<1>8. persisted' = persisted
  BY DEF Send, db
<1> HIDE DEF b
<1>9. /\ Len(conn'[link].batches) = n + 1 /\ DOMAIN conn'[link].batches = 1..(n + 1)
      /\ conn'[link].batches[n + 1] = b
      /\ \A i \in 1..n : conn'[link].batches[i] = conn[link].batches[i]
  BY <1>3, <1>5, <1>6
<1> HIDE DEF n
<1>10. \A e \in 1..k : e \in persisted \/ \E j \in DOMAIN conn'[link].batches : e \in conn'[link].batches[j]
  <2> TAKE e \in 1..k
  <2>1. CASE e \in b
    BY <1>3, <1>9, <2>1
  <2>2. CASE e \notin b
    <3>1. e \in 1..(NextEvent - 1)
      BY <1>4, <2>2 DEF b
    <3>2. ASSUME NEW j \in 1..n, e \in conn[link].batches[j]
          PROVE  \E i \in DOMAIN conn'[link].batches : e \in conn'[link].batches[i]
      <4>1. j \in 1..(n + 1) /\ conn'[link].batches[j] = conn[link].batches[j]
        BY <1>3, <1>9
      <4> QED BY <1>9, <3>2, <4>1
    <3>3. e \in persisted \/ \E j \in 1..n : e \in conn[link].batches[j]
      BY <1>3, <3>1 DEF n
    <3> QED BY <3>2, <3>3
  <2> QED BY <2>1, <2>2
<1>11. BatchesFollow'
  <2> SUFFICES ASSUME NEW d \in Conns, NEW i \in DOMAIN conn'[d].batches,
                      NEW a \in conn'[d].batches[i], NEW e \in 1..a
               PROVE  e \in persisted' \/ \E j \in 1..i : e \in conn'[d].batches[j]
    BY DEF BatchesFollow
  <2>1. CASE d # link
    BY <1>7, <1>8, <2>1 DEF FollowInv, BatchesFollow
  <2>2. CASE d = link /\ i # n + 1
    <3>1. i \in 1..n /\ conn'[link].batches[i] = conn[link].batches[i]
      BY <1>3, <1>9, <2>2
    <3>2. e \in persisted \/ \E j \in 1..i : e \in conn[link].batches[j]
      BY <1>2, <1>3, <2>2, <3>1 DEF FollowInv, BatchesFollow
    <3>3. ASSUME NEW j \in 1..i, e \in conn[link].batches[j] PROVE e \in conn'[link].batches[j]
      <4>1. j \in 1..n
        BY <1>3, <3>1
      <4> QED BY <1>9, <3>3, <4>1
    <3> QED BY <1>8, <2>2, <3>2, <3>3
  <2>3. CASE d = link /\ i = n + 1
    <3>1. a \in b
      BY <1>9, <2>3
    <3>2. a \in 1..k /\ e \in 1..k
      BY <1>4, <3>1 DEF b
    <3> QED BY <1>8, <1>9, <1>10, <2>3, <3>2
  <2> QED BY <2>1, <2>2, <2>3
<1>12. OneAtATime'
  <2> SUFFICES ASSUME ~Pipelined, NEW d \in Conns PROVE Len(conn'[d].batches) <= 1
    BY DEF OneAtATime
  <2>1. CASE d # link
    BY <1>7, <2>1 DEF FollowInv, OneAtATime
  <2>2. CASE d = link
    <3>1. conn[link].batches = <<>>
      BY DEF Send
    <3>2. n = 0
      BY <3>1 DEF n
    <3>3. Len(conn'[link].batches) = n + 1
      BY <1>9
    <3> QED BY <2>2, <3>2, <3>3
  <2> QED BY <2>1, <2>2
<1> QED BY <1>1, <1>2, <1>10, <1>11, <1>12
-----------------------------------------------------------------------------
(* What a transaction of ingest_batch covers is stored when it commits.    *)

LEMMA IngestStores ==
  ASSUME FollowInv, CursorsAreStored, NEW c \in Conns, Ingest(c)
  PROVE  LET batch == Head(conn[c].batches)
             top   == NewCursor(c, batch)
         IN /\ conn[c].batches # <<>> /\ conn[c].log \in Logs /\ Done(c) /\ UNCHANGED emitted
            /\ persisted \subseteq persisted' /\ batch \subseteq persisted'
            /\ 1..top \subseteq persisted' /\ top \in Nat
            /\ persisted' \subseteq persisted \cup batch
<1> DEFINE batch  == Head(conn[c].batches)
           top    == NewCursor(c, batch)
           l      == conn[c].log
           cursor == table[l].cursor
<1>1. l \in Logs /\ conn[c].batches # <<>> /\ Done(c) /\ UNCHANGED emitted
  BY Typed DEF Ingest, Refused, Exists, FollowInv, TypeInv, BatchesAreRuns, game
<1>2. /\ batch \subseteq 1..MaxEvents /\ top \in batch \cup {cursor, conn[c].cursor} /\ top \in 0..MaxEvents
      /\ Fresh(batch, cursor) \subseteq batch
  BY <1>1, TopOfBatch DEF FollowInv
<1>3. persisted' = persisted \cup Fresh(batch, cursor)
  BY DEF Ingest
<1>4. Stored(cursor) /\ Stored(conn[c].cursor) /\ cursor \in Nat /\ MaxEvents \in Nat
  BY <1>1, Typed DEF CursorsAreStored, FollowInv, TypeInv
<1>5. batch = conn[c].batches[1] /\ 1 \in DOMAIN conn[c].batches
  BY <1>1, Runs DEF FollowInv
<1> HIDE DEF batch, top, l, cursor
<1>6. batch \subseteq persisted'
  <2> SUFFICES ASSUME NEW e \in batch PROVE e \in persisted'
    OBVIOUS
  <2>1. e \in Nat /\ e >= 1
    BY <1>2, <1>4
  <2>2. CASE e > cursor
    BY <1>3, <2>2 DEF Fresh
  <2>3. CASE ~(e > cursor)
    BY <1>3, <1>4, <2>1, <2>3 DEF Stored
  <2> QED BY <2>2, <2>3
<1>7. 1..top \subseteq persisted'
  <2>1. CASE top \in batch
    <3>1. \A e \in 1..top : e \in persisted \/ \E j \in 1..1 : e \in conn[c].batches[j]
      BY <1>5, <2>1 DEF FollowInv, BatchesFollow
    <3>2. \A e \in 1..top : e \in persisted \/ e \in batch
      BY <1>5, <3>1
    <3> QED BY <1>3, <1>6, <3>2
  <2>2. CASE top \in {cursor, conn[c].cursor}
    BY <1>3, <1>4, <2>2 DEF Stored
  <2> QED BY <1>2, <2>1, <2>2
<1>8. top \in Nat
  BY <1>2, <1>4
<1> QED BY <1>1, <1>2, <1>3, <1>6, <1>7, <1>8 DEF batch, top, l

LEMMA CursorsStored ==
  ASSUME FollowInv, CursorsAreStored, [Next]_vars
  PROVE  CursorsAreStored' /\ persisted \subseteq persisted'
<1>1. CASE \A c \in Conns : ~Ingest(c)
  BY <1>1, CursorsStayStored DEF FollowInv
<1>2. ASSUME NEW c \in Conns, Ingest(c) PROVE CursorsAreStored' /\ persisted \subseteq persisted'
  <2> DEFINE top == NewCursor(c, Head(conn[c].batches))
  <2>1. /\ conn[c].batches # <<>> /\ conn[c].log \in Logs /\ Done(c) /\ UNCHANGED emitted
        /\ persisted \subseteq persisted' /\ 1..top \subseteq persisted'
    BY <1>2, IngestStores
  <2>2. \A d \in Conns : conn'[d].cursor = conn[d].cursor
    BY <2>1, DoneTypes DEF FollowInv
  <2>3. ack' \in {top, ack} /\ acked' = acked
        /\ table' = [table EXCEPT ![conn[c].log] = [status |-> "streaming", cursor |-> top]]
    BY <1>2 DEF Ingest, game
  <2> HIDE DEF top
  <2>4. \A l \in Logs : table'[l].cursor \in {table[l].cursor, top}
    BY <2>3, Typed DEF FollowInv, TypeInv
  <2>5. \A n : Stored(n) => 1..n \subseteq persisted'
    BY <2>1 DEF Stored
  <2>6. \A l \in Logs : 1..table'[l].cursor \subseteq persisted'
    BY <2>1, <2>4, <2>5 DEF CursorsAreStored
  <2>7. \A d \in Conns : 1..conn'[d].cursor \subseteq persisted'
    BY <2>2, <2>5 DEF CursorsAreStored
  <2>8. 1..ack' \subseteq persisted' /\ 1..acked' \subseteq persisted'
    BY <2>1, <2>3, <2>5 DEF CursorsAreStored
  <2>9. CursorsAreStored'
    BY <2>6, <2>7, <2>8 DEF CursorsAreStored, Stored
  <2> QED BY <2>1, <2>9
<1> QED BY <1>1, <1>2
-----------------------------------------------------------------------------
(* A game that sends ahead, and a user who does nothing.                   *)

LEMMA NobodyDisturbs ==
  ASSUME TypeInv, MaxOps = 0, Undisturbed
  PROVE  /\ ~Control("start") /\ ~Control("stop") /\ ~MarkControl /\ ~BeginRepair /\ ~Repair
         /\ ~HearControl /\ \A l \in Logs : ~DeleteSession(l)
         /\ \A c \in Conns : ~IngestRefused(c) /\ (Read(c) => ~Done(c))
<1>1. ops = 0
  BY TypeParts DEF CountsOK
<1>2. ~Operation
  BY <1>1 DEF Operation
<1>3. ASSUME NEW c \in Conns PROVE ~IngestRefused(c)
  BY Typed DEF TypeInv, IngestRefused, Undisturbed, Refused, Exists
<1>4. ASSUME NEW c \in Conns, Read(c) PROVE ~Done(c)
  <2>1. order # <<>> /\ Latest \in Logs /\ conn[c].phase = "open"
    BY <1>4, Typed DEF Undisturbed, Read, TypeInv
  <2>2. Latest # None /\ table[Latest].status # "paused"
    BY <2>1, Typed DEF Undisturbed, TypeInv
  <2>3. conn' = [conn EXCEPT ![c].phase = "ingesting", ![c].log = Latest, ![c].cursor = table[Latest].cursor]
    BY <1>4, <2>2 DEF Read
  <2>4. conn \in [Conns -> Task]
    BY Typed DEF TypeInv
  <2>5. conn'[c].phase = "ingesting"
    BY <2>3, <2>4 DEF Task
  <2>6. Done(c) => conn'[c].phase = "open"
    BY <2>4 DEF Done, Task
  <2> QED BY <2>5, <2>6
<1> QED BY <1>2, <1>3, <1>4 DEF Control, MarkControl, BeginRepair, Repair, HearControl, DeleteSession, Undisturbed

\* Rows stay, and none of them is paused.
LEMMA RowsStay ==
  ASSUME TypeInv, MaxOps = 0, Undisturbed, [Next]_vars
  PROVE  /\ \A l \in Logs : table'[l].status # "paused" /\ (Exists(l) => table'[l] # Absent)
         /\ order' = order \/ \E l \in Logs : order' = Append(order, l) /\ table'[l] # Absent
<1> DEFINE Rows ==
             /\ \A l \in Logs : table'[l].status # "paused" /\ (Exists(l) => table'[l] # Absent)
             /\ order' = order \/ \E l \in Logs : order' = Append(order, l) /\ table'[l] # Absent
<1> SUFFICES Rows
  OBVIOUS
<1> HIDE DEF Rows
<1>1. table \in [Logs -> Row] /\ conn \in [Conns -> Task] /\ None \notin Logs
  BY Typed DEF TypeInv
<1>2. \A l \in Logs : table[l].status # "paused"
  BY DEF Undisturbed
<1>3. \A r \in Row : /\ [r EXCEPT !.status = "streaming"].status = "streaming"
                    /\ [r EXCEPT !.status = "disconnected"].status = "disconnected"
                    /\ [r EXCEPT !.status = "interrupted"].status = "interrupted"
  BY DEF Row
<1>4. \A r : r.status \in {"streaming", "disconnected", "interrupted"} => r # Absent /\ r.status # "paused"
  BY DEF Absent
<1>5. ASSUME \A l \in Logs : \/ table'[l] = table[l]
                             \/ table'[l].status \in {"streaming", "disconnected", "interrupted"},
             order' = order
      PROVE  Rows
  BY <1>2, <1>4, <1>5 DEF Exists, Rows
<1>6. ASSUME UNCHANGED order, UNCHANGED table \/ Stopped PROVE Rows
  <2>1. \A l \in Logs : \/ table'[l] = table[l]
                        \/ table'[l].status \in {"streaming", "disconnected", "interrupted"}
    <3> TAKE l \in Logs
    <3>1. table[l] \in Row
      BY <1>1
    <3>2. table'[l] \in {table[l], [table[l] EXCEPT !.status = "disconnected"]}
      BY <1>6 DEF Stopped
    <3> QED BY <1>3, <3>1, <3>2
  <2> QED BY <1>5, <1>6, <2>1
<1>7. CASE Reopen
  <2>1. \A l \in Logs : \/ table'[l] = table[l]
                        \/ table'[l].status \in {"streaming", "disconnected", "interrupted"}
    BY <1>1, <1>3, <1>7 DEF Reopen
  <2>2. order' = order
    BY <1>7 DEF Reopen
  <2> QED BY <1>5, <2>1, <2>2
<1>8. ASSUME NEW c \in Conns, Resume(c) PROVE Rows
  <2>1. conn[c].log \in Logs /\ ResumedStatus(conn[c].enabled) = "streaming"
    BY <1>8, Typed DEF Resume, Undisturbed, TypeInv, ResumedStatus
  <2>2. table' \in {table, [table EXCEPT ![conn[c].log].status = "streaming"]} /\ order' = order
    BY <1>8, <2>1 DEF Resume
  <2>3. \A l \in Logs : table'[l] = table[l] \/ table'[l].status = "streaming"
    <3> TAKE l \in Logs
    <3>1. table[l] \in Row
      BY <1>1
    <3>2. table'[l] \in {table[l], [table[l] EXCEPT !.status = "streaming"]}
      BY <1>1, <2>1, <2>2
    <3> QED BY <1>3, <3>1, <3>2
  <2> QED BY <1>5, <2>2, <2>3
<1>9. ASSUME NEW c \in Conns, Create(c) PROVE Rows
  <2>1. PICK l \in Logs : /\ table' = [table EXCEPT ![l] = [status |-> "streaming", cursor |-> 0]]
                          /\ order' = Append(order, l)
    BY <1>9 DEF Create
  <2>2. table'[l].status = "streaming" /\ \A m \in Logs : table'[m] = table[m] \/ table'[m].status = "streaming"
    BY <1>1, <2>1
  <2> QED BY <1>2, <1>4, <2>1, <2>2 DEF Exists, Rows
<1>10. ASSUME NEW c \in Conns, Ingest(c) PROVE Rows
  <2> DEFINE top == NewCursor(c, Head(conn[c].batches))
  <2>1. /\ table' = [table EXCEPT ![conn[c].log] = [status |-> "streaming", cursor |-> top]]
        /\ order' = order
    BY <1>10 DEF Ingest
  <2> HIDE DEF top
  <2>2. \A m \in Logs : table'[m] = table[m] \/ table'[m].status = "streaming"
    BY <1>1, <2>1
  <2> QED BY <1>5, <2>1, <2>2
<1>11. ASSUME NEW c \in Conns, LookUp(c) \/ Welcome(c) \/ Quit(c) \/ Report(c) \/ Read(c) \/ IngestRefused(c)
       PROVE  Rows
  <2>1. UNCHANGED order /\ (UNCHANGED table \/ Stopped)
    BY <1>11 DEF LookUp, Welcome, Quit, Report, Read, IngestRefused, db
  <2> QED BY <1>6, <2>1
<1>12. CASE Emit \/ Send \/ HearAck \/ Abandon \/ Sweep \/ ReportSweep \/ UNCHANGED vars
  <2>1. UNCHANGED order /\ (UNCHANGED table \/ Stopped)
    BY <1>12 DEF Emit, Send, HearAck, Abandon, Sweep, ReportSweep, db, vars
  <2> QED BY <1>6, <2>1
<1>13. ASSUME NEW c \in Conns, Connection(c) PROVE Rows
  BY <1>8, <1>9, <1>10, <1>11, <1>13 DEF Connection
<1> QED BY <1>7, <1>12, <1>13, NobodyDisturbs DEF Next


\* Every task keeps the session it works on.
LEMMA TasksStaySound ==
  ASSUME TypeInv, MaxOps = 0, Undisturbed, [Next]_vars
  PROVE  \A c \in Conns :
           /\ conn'[c].enabled
           /\ conn'[c].phase \in {"started", "open", "ingesting"} \/ conn'[c].log # None => order' # <<>>
           /\ conn'[c].phase = "ingesting" => conn'[c].log # None /\ table'[conn'[c].log] # Absent
<1> DEFINE Sound(r) ==
             /\ r.enabled
             /\ r.phase \in {"started", "open", "ingesting"} \/ r.log # None => order' # <<>>
             /\ r.phase = "ingesting" => r.log # None /\ table'[r.log] # Absent
<1> SUFFICES \A c \in Conns : Sound(conn'[c])
  OBVIOUS
<1>1. conn \in [Conns -> Task] /\ order \in Seq(Logs) /\ None \notin Logs
  BY Typed, TypeParts DEF TypeInv, DbOK
<1>2. order # <<>> => order' # <<>>
  <2>1. CASE order' = order
    BY <2>1
  <2>2. ASSUME NEW l \in Logs, order' = Append(order, l) PROVE order' # <<>>
    BY <1>1, <2>2
  <2> QED BY <2>1, <2>2, RowsStay
<1>3. \A c \in Conns : conn[c].log # None => conn[c].log \in Logs
  BY Typed DEF TypeInv
<1>4. \A c \in Conns : Sound(conn[c])
  BY <1>2, <1>3, RowsStay DEF Undisturbed, Exists
<1>5. ASSUME NEW c \in Conns, NEW r, conn' = [conn EXCEPT ![c] = r], Sound(r)
      PROVE  \A d \in Conns : Sound(conn'[d])
  <2> HIDE DEF Sound
  <2> QED BY <1>1, <1>4, <1>5
<1>6. /\ NoConn.enabled /\ NoConn.phase = "idle" /\ NoConn.log = None
      /\ LET r == [NoConn EXCEPT !.phase = "left"] IN r.enabled /\ r.phase = "left" /\ r.log = None
  BY DEF NoConn
<1>7. \A r \in Task : \A p, l :
        LET s == [r EXCEPT !.phase = p]
            t == [r EXCEPT !.phase = p, !.log = l]
        IN /\ s.phase = p /\ s.log = r.log /\ s.enabled = r.enabled
           /\ t.phase = p /\ t.log = l /\ t.enabled = r.enabled
  BY DEF Task
<1>8. ASSUME NEW c \in Conns, LookUp(c) PROVE \A d \in Conns : Sound(conn'[d])
  <2> DEFINE r == [phase |-> "looked", log |-> Latest, enabled |-> Enabled(Latest),
                   cursor |-> ResumeAfter(Latest), batches |-> <<>>]
  <2>1. conn' = [conn EXCEPT ![c] = r] /\ r.phase = "looked" /\ r.log = Latest /\ r.enabled = Enabled(Latest)
    BY <1>8 DEF LookUp
  <2>2. Enabled(Latest)
    BY Typed DEF Enabled, TypeInv, Undisturbed
  <2>3. Latest # None => order' # <<>>
    BY <1>2 DEF Latest
  <2> HIDE DEF r
  <2>4. Sound(r)
    BY <2>1, <2>2, <2>3
  <2> HIDE DEF Sound
  <2> QED BY <1>5, <2>1, <2>4
<1>9. ASSUME NEW c \in Conns, Resume(c) \/ Welcome(c) PROVE \A d \in Conns : Sound(conn'[d])
  <2> DEFINE r(p) == [conn[c] EXCEPT !.phase = p]
  <2>1. PICK p \in {"started", "open"} : conn' = [conn EXCEPT ![c] = r(p)]
    BY <1>9 DEF Resume, Welcome
  <2>2. order' # <<>>
    BY <1>2, <1>9 DEF Resume, Welcome, Undisturbed
  <2>3. r(p).phase = p /\ r(p).log = conn[c].log /\ r(p).enabled = conn[c].enabled
    BY <1>1, <1>7
  <2> HIDE DEF r
  <2>4. Sound(r(p))
    BY <1>4, <2>2, <2>3
  <2> HIDE DEF Sound
  <2> QED BY <1>5, <2>1, <2>4
<1>10. ASSUME NEW c \in Conns, Create(c) PROVE \A d \in Conns : Sound(conn'[d])
  <2>1. PICK l \in Logs : /\ conn' = [conn EXCEPT ![c].phase = "started", ![c].log = l]
                          /\ order' = Append(order, l)
    BY <1>10 DEF Create
  <2> DEFINE r == [conn[c] EXCEPT !.phase = "started", !.log = l]
  <2>2. conn' = [conn EXCEPT ![c] = r]
    BY <1>1, <2>1
  <2>3. order' # <<>>
    BY <1>1, <2>1
  <2>4. r.phase = "started" /\ r.log = l /\ r.enabled = conn[c].enabled
    BY <1>1, <1>7
  <2> HIDE DEF r
  <2>5. Sound(r)
    BY <1>4, <2>3, <2>4
  <2> HIDE DEF Sound
  <2> QED BY <1>5, <2>2, <2>5
<1>11. ASSUME NEW c \in Conns, Quit(c) \/ Report(c) PROVE \A d \in Conns : Sound(conn'[d])
  <2>1. PICK r \in {NoConn, [NoConn EXCEPT !.phase = "left"]} : conn' = [conn EXCEPT ![c] = r]
    BY <1>11 DEF Quit, Report
  <2>2. Sound(r)
    BY <1>6
  <2> HIDE DEF Sound
  <2> QED BY <1>5, <2>1, <2>2
<1>12. ASSUME NEW c \in Conns, Read(c) PROVE \A d \in Conns : Sound(conn'[d])
  <2> DEFINE r == [conn[c] EXCEPT !.phase = "ingesting", !.log = Latest, !.cursor = table[Latest].cursor]
  <2>1. conn' = [conn EXCEPT ![c] = r]
    BY <1>1, <1>12, NobodyDisturbs DEF Read
  <2>2. r.phase = "ingesting" /\ r.log = Latest /\ r.enabled = conn[c].enabled
    BY <1>1 DEF Task
  <2>3. order # <<>> /\ Latest \in Logs
    BY <1>12, Typed DEF Undisturbed, Read, TypeInv
  <2>4. table'[Latest] # Absent
    BY <2>3, RowsStay, Typed DEF Undisturbed, TypeInv
  <2> HIDE DEF r
  <2>5. Sound(r)
    BY <1>1, <1>2, <1>4, <2>2, <2>3, <2>4
  <2> HIDE DEF Sound
  <2> QED BY <1>5, <2>1, <2>5
<1>13. ASSUME NEW c \in Conns, Ingest(c) PROVE \A d \in Conns : Sound(conn'[d])
  <2>1. conn[c].batches # <<>> /\ Done(c) /\ UNCHANGED emitted
    BY <1>13 DEF Ingest, TypeInv, BatchesAreRuns, game
  <2>2. /\ conn'[c].phase = "open" /\ conn'[c].log = conn[c].log /\ conn'[c].enabled = conn[c].enabled
        /\ \A d \in Conns : d # c => conn'[d] = conn[d]
    BY <2>1, DoneTypes
  <2>3. order' # <<>>
    BY <1>2, <1>13 DEF Ingest, Undisturbed
  <2>4. Sound(conn'[c])
    BY <1>4, <2>2, <2>3
  <2> HIDE DEF Sound
  <2> QED BY <1>4, <2>2, <2>4
<1>14. CASE Send
  <2>1. PICK b : conn' = [conn EXCEPT ![link].batches = b]
    BY <1>14 DEF Send
  <2>2. \A r \in Task : LET s == [r EXCEPT !.batches = b]
                        IN s.phase = r.phase /\ s.log = r.log /\ s.enabled = r.enabled
    BY DEF Task
  <2>3. \A d \in Conns : /\ conn'[d].phase = conn[d].phase /\ conn'[d].log = conn[d].log
                         /\ conn'[d].enabled = conn[d].enabled
    BY <1>1, <2>1, <2>2
  <2> QED BY <1>4, <2>3
<1>15. CASE Emit \/ HearAck \/ Abandon \/ Sweep \/ ReportSweep \/ UNCHANGED vars
  <2>1. UNCHANGED conn
    BY <1>15 DEF Emit, HearAck, Abandon, Sweep, ReportSweep, app, vars
  <2> HIDE DEF Sound
  <2> QED BY <1>4, <2>1
<1>16. CASE Reopen
  <2>1. \A d \in Conns : conn'[d] = NoConn
    BY <1>16 DEF Reopen
  <2> QED BY <1>6, <2>1
<1> HIDE DEF Sound
<1>17. ASSUME NEW c \in Conns, Connection(c) PROVE \A d \in Conns : Sound(conn'[d])
  BY <1>8, <1>9, <1>10, <1>11, <1>12, <1>13, <1>17, NobodyDisturbs DEF Connection
<1> QED BY <1>14, <1>15, <1>16, <1>17, NobodyDisturbs DEF Next

LEMMA StaysUndisturbed ==
  ASSUME TypeInv, MaxOps = 0, Undisturbed, [Next]_vars
  PROVE  Undisturbed'
<1>1. order \in Seq(Logs)
  BY TypeParts DEF DbOK
<1>2. command' = "none" /\ told' = None
  <2>1. command = "none" /\ told = None
    BY DEF Undisturbed
  <2>2. ASSUME NEW c \in Conns, Connection(c) PROVE command' = "none" /\ told' = None
    BY <2>1, <2>2 DEF Connection, LookUp, Resume, Create, Welcome, Quit, Report, Read, Ingest, IngestRefused,
                      Hung, wire
  <2>3. CASE Emit \/ Send \/ HearAck \/ Abandon \/ Sweep \/ ReportSweep \/ Reopen \/ UNCHANGED vars
    BY <2>1, <2>3 DEF Emit, Send, HearAck, Abandon, Sweep, ReportSweep, Reopen, Hung, app, wire, vars
  <2> QED BY <2>2, <2>3, NobodyDisturbs DEF Next
<1>3. \A i \in DOMAIN order' : order'[i] # None /\ table'[order'[i]] # Absent
  <2>1. \A i \in DOMAIN order : order[i] \in Logs /\ order[i] # None /\ table'[order[i]] # Absent
    BY <1>1, RowsStay DEF Undisturbed, Exists
  <2>2. CASE order' = order
    BY <2>1, <2>2
  <2>3. ASSUME NEW l \in Logs, order' = Append(order, l), table'[l] # Absent, NEW i \in DOMAIN order'
        PROVE  order'[i] # None /\ table'[order'[i]] # Absent
    <3>1. (i \in DOMAIN order /\ order'[i] = order[i]) \/ order'[i] = l
      BY <1>1, <2>3
    <3> QED BY <2>1, <2>3, <3>1, DistinctIds
  <2> QED BY <2>2, <2>3, RowsStay
<1> QED BY <1>2, <1>3, RowsStay, TasksStaySound DEF Undisturbed, Exists

LEMMA SentStaysKept ==
  ASSUME FollowInv, CursorsAreStored, Pipelined, MaxOps = 0, Undisturbed, SentIsKept, [Next]_vars
  PROVE  SentIsKept'
<1> DEFINE OnWay(e) == e \in persisted' \/ \E j \in DOMAIN conn'[link'].batches : e \in conn'[link'].batches[j]
           Kept == allowed' => /\ link' # None /\ conn'[link'].phase \in {"open", "ingesting"}
                               /\ \A e \in 1..sent' : OnWay(e)
<1> SUFFICES Kept
  BY DEF SentIsKept
<1>1. conn \in [Conns -> Task] /\ allowed \in BOOLEAN /\ link \in Conns \cup {None}
  BY TypeParts DEF TasksOK, FlagsOK, FollowInv
<1>2. persisted \subseteq persisted'
  BY CursorsStored
<1>3. allowed => /\ link \in Conns /\ conn[link].phase \in {"open", "ingesting"}
                 /\ \A e \in 1..sent : \/ e \in persisted
                                       \/ \E j \in DOMAIN conn[link].batches : e \in conn[link].batches[j]
  BY <1>1 DEF SentIsKept
<1>4. ASSUME UNCHANGED <<allowed, link, sent>>,
             allowed => /\ conn'[link].batches = conn[link].batches
                        /\ conn'[link].phase \in {"open", "ingesting"}
      PROVE  Kept
  <2> SUFFICES ASSUME allowed
               PROVE  link # None /\ conn'[link].phase \in {"open", "ingesting"} /\ \A e \in 1..sent : OnWay(e)
    BY <1>4
  <2>1. \A e \in 1..sent : e \in persisted' \/ \E j \in DOMAIN conn'[link].batches : e \in conn'[link].batches[j]
    BY <1>2, <1>3, <1>4
  <2> QED BY <1>3, <1>4, <2>1, DistinctIds
<1>5. CASE ~allowed'
  BY <1>5
<1> HIDE DEF Kept
<1>6. ASSUME UNCHANGED <<conn, allowed, link, sent>> PROVE Kept
  BY <1>3, <1>4, <1>6
<1>7. ASSUME NEW c \in Conns, NEW r, conn' = [conn EXCEPT ![c] = r], link # c \/ ~allowed,
             UNCHANGED <<allowed, link, sent>>
      PROVE  Kept
  <2>1. allowed => conn'[link] = conn[link]
    BY <1>1, <1>3, <1>7
  <2> QED BY <1>3, <1>4, <1>7, <2>1
<1>8. ASSUME NEW c \in Conns, conn[c].phase \notin {"open", "ingesting"} PROVE link # c \/ ~allowed
  BY <1>3, <1>8
<1>9. ASSUME NEW c \in Conns, LookUp(c) PROVE Kept
  BY <1>1, <1>3, <1>5, <1>9, DistinctIds DEF LookUp
<1>10. ASSUME NEW c \in Conns, Resume(c) \/ Create(c) \/ Report(c) PROVE Kept
  <2>1. UNCHANGED <<allowed, link, sent>> /\ conn[c].phase \notin {"open", "ingesting"}
    BY <1>10 DEF Resume, Create, Report, game
  <2>2. \E r : conn' = [conn EXCEPT ![c] = r]
    <3>1. CASE Create(c)
      <4>1. PICK l \in Logs : conn' = [conn EXCEPT ![c].phase = "started", ![c].log = l]
        BY <3>1 DEF Create
      <4>2. conn' = [conn EXCEPT ![c] = [conn[c] EXCEPT !.phase = "started", !.log = l]]
        BY <1>1, <4>1
      <4> QED BY <4>2
    <3>2. CASE Resume(c)
      <4>1. conn' = [conn EXCEPT ![c] = [conn[c] EXCEPT !.phase = "started"]]
        BY <3>2 DEF Resume
      <4> QED BY <4>1
    <3>3. CASE Report(c)
      BY <3>3 DEF Report
    <3> QED BY <1>10, <3>1, <3>2, <3>3
  <2> QED BY <1>7, <1>8, <2>1, <2>2
<1>11. ASSUME NEW c \in Conns, Welcome(c) PROVE Kept
  <2>1. conn' = [conn EXCEPT ![c] = [conn[c] EXCEPT !.phase = "open"]] /\ link' = link
    BY <1>11 DEF Welcome
  <2>2. CASE link # c
    <3>1. UNCHANGED <<allowed, link, sent>>
      BY <1>11, <2>2 DEF Welcome
    <3> QED BY <1>7, <2>1, <2>2, <3>1
  <2>3. CASE link = c
    <3>1. sent' = acked'
      BY <1>11, <2>3 DEF Welcome
    <3>2. 1..acked' \subseteq persisted'
      BY CursorsStored DEF CursorsAreStored, Stored
    <3>3. conn'[c].phase = "open"
      BY <1>1, <2>1 DEF Task
    <3>4. c # None
      BY DistinctIds
    <3> QED BY <2>1, <2>3, <3>1, <3>2, <3>3, <3>4 DEF Kept
  <2> QED BY <2>2, <2>3
<1>12. ASSUME NEW c \in Conns, Quit(c) PROVE Kept
  <2>1. PICK r : conn' = [conn EXCEPT ![c] = r]
    BY <1>12 DEF Quit
  <2>2. link = c \/ UNCHANGED <<allowed, link, sent>>
    BY <1>12 DEF Quit
  <2>3. link = c => ~allowed'
    BY <1>12 DEF Quit, Hung
  <2> QED BY <1>5, <1>7, <2>1, <2>2, <2>3
<1>13. ASSUME NEW c \in Conns, Read(c) PROVE Kept
  <2> DEFINE r == [conn[c] EXCEPT !.phase = "ingesting", !.log = Latest, !.cursor = table[Latest].cursor]
  <2>1. conn' = [conn EXCEPT ![c] = r] /\ UNCHANGED <<allowed, link, sent>>
    BY <1>1, <1>13, NobodyDisturbs DEF Read, game, FollowInv
  <2>2. r.phase = "ingesting" /\ r.batches = conn[c].batches
    BY <1>1 DEF Task
  <2> HIDE DEF r
  <2>3. CASE link = c
    BY <1>1, <1>4, <2>1, <2>2, <2>3
  <2>4. CASE link # c
    BY <1>7, <2>1, <2>4
  <2> QED BY <2>3, <2>4
<1>14. ASSUME NEW c \in Conns, Ingest(c) PROVE Kept
  <2>1. /\ conn[c].batches # <<>> /\ Done(c) /\ UNCHANGED emitted
        /\ Head(conn[c].batches) \subseteq persisted'
    BY <1>14, IngestStores
  <2>2. UNCHANGED <<allowed, link, sent>>
    BY <1>14 DEF Ingest, game
  <2>3. /\ conn'[c].batches = Tail(conn[c].batches) /\ conn'[c].phase = "open"
        /\ \A d \in Conns : d # c => conn'[d] = conn[d]
    BY <2>1, DoneTypes DEF FollowInv
  <2>4. CASE link # c
    BY <1>1, <1>3, <1>4, <2>2, <2>3, <2>4
  <2>5. CASE link = c /\ allowed
    <3>1. ASSUME NEW e, NEW j \in DOMAIN conn[c].batches, e \in conn[c].batches[j]
          PROVE  e \in persisted' \/ \E i \in DOMAIN conn'[c].batches : e \in conn'[c].batches[i]
      <4>1. /\ DOMAIN Tail(conn[c].batches) = 1..(Len(conn[c].batches) - 1)
            /\ \A i \in 1..(Len(conn[c].batches) - 1) : Tail(conn[c].batches)[i] = conn[c].batches[i + 1]
            /\ Head(conn[c].batches) = conn[c].batches[1] /\ j \in 1..Len(conn[c].batches)
            /\ Len(conn[c].batches) \in Nat
        BY <2>1, Runs, Typed DEF FollowInv, TypeInv
      <4>2. CASE j = 1
        BY <2>1, <3>1, <4>1, <4>2
      <4>3. CASE j # 1
        <5>1. j - 1 \in 1..(Len(conn[c].batches) - 1) /\ (j - 1) + 1 = j
          BY <4>1, <4>3
        <5>2. e \in conn'[c].batches[j - 1] /\ j - 1 \in DOMAIN conn'[c].batches
          BY <2>3, <3>1, <4>1, <5>1
        <5> QED BY <5>2
      <4> QED BY <4>2, <4>3
    <3>2. \A e \in 1..sent : \/ e \in persisted'
                             \/ \E i \in DOMAIN conn'[c].batches : e \in conn'[c].batches[i]
      BY <1>2, <1>3, <2>5, <3>1
    <3> QED BY <2>2, <2>3, <2>5, <3>2, DistinctIds DEF Kept
  <2> QED BY <1>5, <2>2, <2>4, <2>5
<1>15. CASE Send
  <2>1. sent \in Nat /\ NextEvent = sent + 1
    BY Typed DEF NextEvent, FollowInv, TypeInv
  <2>2. allowed
    BY <1>15 DEF Send
  <2>3. \A e \in 1..(NextEvent - 1) :
          e \in persisted \/ \E j \in DOMAIN conn[link].batches : e \in conn[link].batches[j]
    BY <1>3, <2>1, <2>2
  <2>4. /\ link \in Conns
        /\ \A e \in 1..sent' :
             e \in persisted \/ \E j \in DOMAIN conn'[link].batches : e \in conn'[link].batches[j]
    BY <1>15, <2>3, BatchesFollowSent
  <2>5. conn'[link].phase = conn[link].phase
    <3>1. PICK b : conn' = [conn EXCEPT ![link].batches = b]
      BY <1>15 DEF Send
    <3>2. \A r \in Task : [r EXCEPT !.batches = b].phase = r.phase
      BY DEF Task
    <3> QED BY <1>1, <2>4, <3>1, <3>2
  <2>6. link' = link
    BY <1>15 DEF Send
  <2> QED BY <1>2, <1>3, <2>2, <2>4, <2>5, <2>6, DistinctIds DEF Kept
<1>16. CASE Emit \/ HearAck \/ Sweep \/ ReportSweep \/ UNCHANGED vars
  <2>1. UNCHANGED <<conn, allowed, link, sent>>
    BY <1>16 DEF Emit, HearAck, Sweep, ReportSweep, app, game, vars
  <2> QED BY <1>6, <2>1
<1>17. CASE Abandon \/ Reopen
  BY <1>5, <1>17 DEF Abandon, Reopen, Hung
<1>18. ASSUME NEW c \in Conns, Connection(c) PROVE Kept
  BY <1>9, <1>10, <1>11, <1>12, <1>13, <1>14, <1>18, NobodyDisturbs DEF Connection, FollowInv
<1> QED BY <1>15, <1>16, <1>17, <1>18, NobodyDisturbs DEF Next, FollowInv
-----------------------------------------------------------------------------
(* Nothing is skipped.  A game that sends ahead does not see that a batch  *)
(* before the one acknowledged was answered with an error; so it is safe   *)
(* only where no batch is: when the user pauses, deletes and repairs       *)
(* nothing.  A game that waits for each acknowledgement is safe always.    *)

LEMMA LogInit == Init => LogInv
<1> SUFFICES ASSUME Init PROVE LogInv
  OBVIOUS
<1>1. TypeInv
  BY InitTypes
<1>2. \A c \in Conns : conn[c] = NoConn
  BY DEF Init
<1>3. CursorsAreStored
  BY <1>2 DEF Init, CursorsAreStored, Stored, Absent, NoConn
<1>4. BatchesFollow /\ OneAtATime
  BY <1>2 DEF BatchesFollow, OneAtATime, NoConn
<1>5. Undisturbed /\ SentIsKept
  BY <1>2 DEF Init, Undisturbed, SentIsKept, NoConn, Absent
<1> QED BY <1>1, <1>3, <1>4, <1>5 DEF LogInv

LEMMA BatchesStep ==
  ASSUME ~Pipelined \/ MaxOps = 0, LogInv, [Next]_vars
  PROVE  BatchesFollow' /\ OneAtATime'
<1>1. FollowInv /\ CursorsAreStored /\ persisted \subseteq persisted'
  BY CursorsStored DEF LogInv, FollowInv
<1>2. CASE Aside
  BY <1>1, <1>2, AsideSteps, BatchesStayFollowed DEF FollowInv
<1>3. CASE Send
  <2>1. \A e \in 1..(NextEvent - 1) :
          e \in persisted \/ \E j \in DOMAIN conn[link].batches : e \in conn[link].batches[j]
    <3>1. CASE ~Pipelined
      <4>1. NextEvent - 1 = acked
        BY <3>1, Typed DEF NextEvent, LogInv, TypeInv
      <4> QED BY <1>1, <4>1 DEF CursorsAreStored, Stored
    <3>2. CASE Pipelined
      <4>1. NextEvent - 1 = sent
        BY <3>2, Typed DEF NextEvent, LogInv, TypeInv
      <4> QED BY <1>3, <3>2, <4>1 DEF LogInv, SentIsKept, Send
    <3> QED BY <3>1, <3>2
  <2> QED BY <1>1, <1>3, <2>1, BatchesFollowSent
<1>4. ASSUME NEW c \in Conns, Ingest(c) PROVE BatchesFollow' /\ OneAtATime'
  <2>1. /\ conn[c].batches # <<>> /\ Done(c) /\ UNCHANGED emitted
        /\ Head(conn[c].batches) \subseteq persisted'
    BY <1>1, <1>4, IngestStores
  <2> QED BY <1>1, <2>1, BatchesFollowDone
<1>5. ASSUME NEW c \in Conns, Read(c) \/ IngestRefused(c) PROVE BatchesFollow' /\ OneAtATime'
  <2>1. conn[c].batches # <<>> /\ UNCHANGED emitted
    BY <1>5 DEF Read, IngestRefused, game, LogInv, TypeInv, BatchesAreRuns
  <2>2. CASE Done(c)
    <3>1. ~Pipelined
      BY <1>5, <2>2, NobodyDisturbs DEF LogInv
    <3>2. Len(conn[c].batches) <= 1
      BY <3>1 DEF LogInv, OneAtATime
    <3> QED BY <1>1, <2>1, <2>2, <3>2, BatchesFollowDone
  <2>3. CASE ~Done(c)
    <3> DEFINE r == [conn[c] EXCEPT !.phase = "ingesting", !.log = Latest, !.cursor = table[Latest].cursor]
    <3>1. conn' = [conn EXCEPT ![c] = r] /\ conn \in [Conns -> Task]
      BY <1>1, <1>5, <2>3, Typed DEF Read, IngestRefused, FollowInv, TypeInv
    <3>2. r.batches = conn[c].batches
      BY <3>1 DEF Task
    <3> HIDE DEF r
    <3>3. \A d \in Conns : conn'[d].batches \in {conn[d].batches, <<>>}
      BY <3>1, <3>2
    <3> QED BY <1>1, <3>3, BatchesStayFollowed
  <2> QED BY <2>2, <2>3
<1> QED BY <1>2, <1>3, <1>4, <1>5 DEF Aside

LEMMA LogStep ==
  ASSUME ~Pipelined \/ MaxOps = 0, LogInv, [Next]_vars
  PROVE  LogInv'
<1>1. TypeInv'
  BY TypeStep DEF LogInv
<1>2. CursorsAreStored'
  BY CursorsStored DEF LogInv, FollowInv
<1>3. Pipelined => Undisturbed' /\ SentIsKept'
  BY StaysUndisturbed, SentStaysKept DEF LogInv, FollowInv
<1> QED BY <1>1, <1>2, <1>3, BatchesStep DEF LogInv

\* Opening, pausing, replacing and repairing log sessions and ingesting batches
\* keep cursors on stored events and batches in line: for a game that waits for
\* each log_ack, and for one that sends ahead while the user leaves its log alone
\* (a batch that a pause refused is passed over by the next one).
THEOREM LogInvariant ==
  ASSUME ~Pipelined \/ MaxOps = 0
  PROVE  Spec => []LogInv
<1>1. Init => LogInv
  BY LogInit
<1>2. LogInv /\ [Next]_vars => LogInv'
  BY LogStep
<1> QED BY <1>1, <1>2, PTL DEF Spec

\* The resume point of a session, and what log_ack tells the game to forget,
\* cover only events the database has, whatever connections, gateways and
\* lives of the application are lost, and however batches are read again.
THEOREM NothingIsSkipped ==
  ASSUME ~Pipelined \/ MaxOps = 0
  PROVE  Spec => []NothingSkipped
<1>1. LogInv => NothingSkipped
  <2> SUFFICES ASSUME LogInv PROVE NothingSkipped
    OBVIOUS
  <2>1. Max({ack, acked}) \in {ack, acked}
    BY Typed, MaxOfTwo DEF LogInv, TypeInv
  <2> QED BY <2>1 DEF NothingSkipped, LogInv, CursorsAreStored, Stored
<1> QED BY <1>1, LogInvariant, PTL
-----------------------------------------------------------------------------
(* The desktop is a reliable log.                                          *)

LEMMA StepStores ==
  ASSUME LogInv, ~Pipelined \/ MaxOps = 0, [Next]_vars
  PROVE  [Log!Next]_(Log!vars)
<1> DEFINE Goal == [Log!Next]_(Log!vars)
<1> SUFFICES Goal
  OBVIOUS
<1>1. FollowInv /\ CursorsAreStored
  BY DEF LogInv, FollowInv
<1>2. CASE UNCHANGED <<emitted, persisted, acked>>
  BY <1>2 DEF Log!vars
<1>3. CASE Emit
  BY <1>3 DEF Emit, db, Log!Next, Log!Write
<1>4. ASSUME NEW c \in Conns, Ingest(c) PROVE Goal
  <2>1. /\ conn[c].batches # <<>> /\ UNCHANGED emitted /\ persisted \subseteq persisted'
        /\ Head(conn[c].batches) \subseteq persisted'
        /\ persisted' \subseteq persisted \cup Head(conn[c].batches)
    BY <1>1, <1>4, IngestStores
  <2>2. PICK a, k \in 1..emitted : a <= k /\ Head(conn[c].batches) = a..k
    BY <1>1, <2>1, Runs DEF FollowInv
  <2>3. Head(conn[c].batches) = conn[c].batches[1] /\ 1 \in DOMAIN conn[c].batches
    BY <1>1, <2>1, Runs DEF FollowInv
  <2>4. \A e \in 1..k : e \in persisted \/ e \in Head(conn[c].batches)
    <3>1. k \in conn[c].batches[1] /\ emitted \in Nat
      BY <1>1, <2>2, <2>3, Typed DEF FollowInv, TypeInv
    <3>2. \A e \in 1..k : e \in persisted \/ \E j \in 1..1 : e \in conn[c].batches[j]
      BY <1>1, <2>3, <3>1 DEF FollowInv, BatchesFollow
    <3> QED BY <2>3, <3>2
  <2>5. \A e \in Head(conn[c].batches) : e \in 1..k
    <3>1. emitted \in Nat
      BY <1>1, Typed DEF FollowInv, TypeInv
    <3> QED BY <2>2, <3>1
  <2>6. persisted' = persisted \cup 1..k
    BY <2>1, <2>4, <2>5
  <2>7. acked' = acked
    BY <1>4 DEF Ingest, game
  <2> QED BY <2>1, <2>2, <2>6, <2>7 DEF Log!Next, Log!Store
<1>5. CASE UNCHANGED <<emitted, persisted>> /\ acked' > acked
  <2>1. 1..acked' \subseteq persisted
    BY <1>1, <1>5, CursorsStored DEF CursorsAreStored, Stored
  <2> QED BY <1>5, <2>1 DEF Log!Next, Log!Forget
<1> HIDE DEF Goal
<1>6. CASE HearAck
  BY <1>5, <1>6 DEF HearAck, db
<1>7. ASSUME NEW c \in Conns, Welcome(c) PROVE Goal
  <2>1. UNCHANGED <<emitted, persisted>> /\ acked' \in {acked, Max({acked, conn[c].cursor})}
    BY <1>7 DEF Welcome, db
  <2>2. acked \in Nat /\ conn[c].cursor \in Nat
    BY <1>1, Typed DEF FollowInv, TypeInv
  <2>3. acked' \in Nat /\ acked' >= acked
    BY <2>1, <2>2, MaxOfTwo
  <2>4. acked' = acked \/ acked' > acked
    BY <2>2, <2>3
  <2> QED BY <1>2, <1>5, <2>1, <2>4
<1>8. ASSUME NEW c \in Conns, LookUp(c) \/ Resume(c) \/ Create(c) \/ Quit(c) \/ Report(c) \/ Read(c) \/ IngestRefused(c)
      PROVE  Goal
  <2>1. UNCHANGED <<emitted, persisted, acked>>
    BY <1>8 DEF LookUp, Resume, Create, Quit, Report, Read, IngestRefused, db, game
  <2> QED BY <1>2, <2>1
<1>9. CASE UNCHANGED vars \/ Send \/ HearControl \/ Abandon \/ Sweep \/ ReportSweep \/ Reopen
             \/ Control("start") \/ Control("stop") \/ MarkControl \/ BeginRepair \/ Repair
             \/ \E l \in Logs : DeleteSession(l)
  <2>1. UNCHANGED <<emitted, persisted, acked>>
    BY <1>9 DEF vars, Send, HearControl, Abandon, Sweep, ReportSweep, Reopen, Control, MarkControl,
                BeginRepair, Repair, DeleteSession, db, app, game
  <2> QED BY <1>2, <2>1
<1>10. ASSUME NEW c \in Conns, Connection(c) PROVE Goal
  BY <1>4, <1>7, <1>8, <1>10 DEF Connection
<1> QED BY <1>3, <1>6, <1>9, <1>10 DEF Next

\* Whatever is lost, repeated or interrupted between the game, the gateway
\* and the database, the desktop implements a log that stores the events in
\* order and lets the game forget only stored ones.
THEOREM CollectionIsReliable ==
  ASSUME ~Pipelined \/ MaxOps = 0
  PROVE  Spec => ImplementsReliableLog
<1>1. Init => Log!Init
  BY DEF Init, Log!Init
<1>2. LogInv /\ [Next]_vars => [Log!Next]_(Log!vars)
  BY StepStores
<1> QED BY <1>1, <1>2, LogInvariant, PTL DEF Spec, ImplementsReliableLog, Log!Spec
=============================================================================
