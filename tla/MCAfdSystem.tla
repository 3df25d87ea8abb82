---------------------------- MODULE MCAfdSystem ----------------------------
(* AfdSystem with small sets of sockets and poll requests.                 *)
EXTENDS AfdSystem, TLC

Symmetry == Permutations(Sockets) \cup Permutations(PollIds)

============================================================================
