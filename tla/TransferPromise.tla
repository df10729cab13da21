--------------------------- MODULE TransferPromise ---------------------------
(***************************************************************************)
(* What an archive transfer promises (archive_transfer), whatever happens to *)
(* the connection, the game and the APP: the record ends once; it says       *)
(* completed only when the game has installed the archive, which it does only *)
(* after its user agreed; and it says rejected only when he did not.         *)
(***************************************************************************)
CONSTANT Transfers

VARIABLES
  outcome,    \* what the record says: none, open, or how the transfer ended
  agreed,     \* transfers the user of the game accepted
  installed   \* transfers whose archive the game has installed

vars == <<outcome, agreed, installed>>

Init == outcome = [t \in Transfers |-> "none"] /\ agreed = {} /\ installed = {}

\* An interruption is written while the transfer may still run, until the APP exits.
Undecided(t) == outcome[t] \in {"open", "interrupted"}

Open(t) ==
  /\ outcome[t] = "none" \/ Undecided(t)
  /\ outcome' = [outcome EXCEPT ![t] = "open"] /\ UNCHANGED <<agreed, installed>>

Agree(t) ==
  /\ outcome[t] # "none" /\ agreed' = agreed \cup {t}
  /\ UNCHANGED <<outcome, installed>>

Install(t) ==
  /\ t \in agreed /\ installed' = installed \cup {t}
  /\ UNCHANGED <<outcome, agreed>>

Close(t, how) ==
  /\ Undecided(t)
  /\ how = "completed" => t \in installed
  /\ how = "rejected" => t \notin agreed
  /\ outcome' = [outcome EXCEPT ![t] = how] /\ UNCHANGED <<agreed, installed>>

\* The shutdown or the restart of the APP interrupts whatever is open.
Interrupt ==
  /\ outcome' = [t \in Transfers |-> IF outcome[t] = "open" THEN "interrupted" ELSE outcome[t]]
  /\ UNCHANGED <<agreed, installed>>

Next ==
  \/ \E t \in Transfers : Open(t) \/ Agree(t) \/ Install(t)
  \/ \E t \in Transfers, how \in {"completed", "rejected", "cancelled", "failed"} : Close(t, how)
  \/ Interrupt

Spec == Init /\ [][Next]_vars
=============================================================================
