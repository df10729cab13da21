---------------------------- MODULE ReliableLog ----------------------------
(* What log collection promises to a game: its events are stored in the    *)
(* order in which they were written, and the game forgets only events that *)
(* are stored (docs/ABYA_GAME_RUNTIME_CONTRACT.md, Structured Logs).       *)
EXTENDS Integers

VARIABLES
  emitted,   \* events written so far, numbered from 1
  persisted, \* the events stored
  acked      \* the game has forgotten events up to this one

vars == <<emitted, persisted, acked>>

Init == emitted = 0 /\ persisted = {} /\ acked = 0

Write ==
  /\ emitted' = emitted + 1
  /\ UNCHANGED <<persisted, acked>>

Store ==
  /\ \E k \in 1..emitted : persisted' = persisted \cup 1..k
  /\ UNCHANGED <<emitted, acked>>

Forget ==
  /\ acked' > acked /\ 1..acked' \subseteq persisted
  /\ UNCHANGED <<emitted, persisted>>

Next == Write \/ Store \/ Forget

Spec == Init /\ [][Next]_vars
=============================================================================
