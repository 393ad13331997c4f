------------------------ MODULE MCSessionRecovery ------------------------
(* Instances of SessionRecovery for TLC. *)
EXTENDS SessionRecovery, TLC

Symmetry == Permutations(Ids)
=============================================================================
