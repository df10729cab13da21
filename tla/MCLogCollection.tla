-------------------------- MODULE MCLogCollection --------------------------
(* Instances of LogCollection for TLC.                                     *)
EXTENDS LogCollection, TLC

\* Connections and row identifiers are told apart only by what happened to them.
Symmetry == Permutations(Conns) \cup Permutations(Logs)
=============================================================================
