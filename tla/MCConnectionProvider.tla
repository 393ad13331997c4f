------------------------ MODULE MCConnectionProvider ------------------------
(* Finite instances of ConnectionProvider for TLC. *)
EXTENDS ConnectionProvider
=============================================================================
