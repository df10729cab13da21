--------------------------- MODULE MCGameSessions ---------------------------
(* Instances of GameSessions for TLC.                                      *)
EXTENDS GameSessions, TLC

\* Connections, server tasks, row identifiers and ports are told apart only by
\* what was done to them: sound for the invariants and action properties.
Symmetry == Permutations(Conns) \cup Permutations(Servers) \cup Permutations(External)
              \cup Permutations(Ports)
=============================================================================
