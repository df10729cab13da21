------------------------- MODULE MCInstanceProcess -------------------------
(* Instances of InstanceProcess for TLC.                                   *)
EXTENDS InstanceProcess, TLC

\* Calls of stop, hosts and clients are told apart only by what happened to them.
Symmetry == Permutations(Stoppers) \cup Permutations(Hosts) \cup Permutations(Clients)
=============================================================================
