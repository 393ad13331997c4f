-------------------------- MODULE MCResetConnection --------------------------
(* Finite instances of ResetConnection for TLC. *)
EXTENDS ResetConnection

\* Every request but SAVE, which skips the dead-transport gate.
GatedKinds == AllKinds \ {"Save"}

\* A server that always honours the bit, and one that may ignore it.
Honest == {TRUE}
Faulty == {TRUE, FALSE}
=============================================================================
