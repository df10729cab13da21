--------------------------- MODULE AnswerDelivery ---------------------------
(***************************************************************************)
(* What the continuation queue promises about submitted answers, without   *)
(* requests, receipts, locks or processes: an answer is handed to the      *)
(* model in attempts, and a new attempt is announced only when there was   *)
(* none or when the turn of the last one was interrupted or failed.  An    *)
(* attempt that was announced but whose turn is not known to exist is      *)
(* never followed by another one.                                          *)
(***************************************************************************)
CONSTANT Items   \* the submitted answers

VARIABLES
  phase,   \* how far the last attempt of each item has come
  kept     \* the conversation has not been deleted

vars == <<phase, kept>>

Phases == {"never", "announced", "running", "completed", "stopped"}

TypeOK == phase \in [Items -> Phases] /\ kept \in BOOLEAN

Init == phase = [w \in Items |-> "never"] /\ kept = TRUE

Move(w, from, to) ==
  /\ phase[w] \in from
  /\ phase' = [phase EXCEPT ![w] = to]
  /\ UNCHANGED kept

Announce(w) == kept /\ Move(w, {"never", "stopped"}, "announced")

Take(w) == kept /\ Move(w, {"announced"}, "running")

End(w) == \E to \in {"completed", "stopped"} : Move(w, {"running"}, to)

\* The executor dies with every turn it runs.
Crash ==
  /\ phase' = [w \in Items |-> IF phase[w] = "running" THEN "stopped" ELSE phase[w]]
  /\ UNCHANGED kept

\* Deleting the conversation deletes what was recorded of the attempts.
Forget == ~kept' /\ phase' = [w \in Items |-> "never"]

Next == \/ \E w \in Items : Announce(w) \/ Take(w) \/ End(w)
        \/ Crash \/ Forget

Spec == Init /\ [][Next]_vars
=============================================================================
