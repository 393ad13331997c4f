-------------------------- MODULE MCOdbcConnection --------------------------
(* Finite instances of OdbcConnection for TLC. *)
EXTENDS OdbcConnection, TLC

\* Statements are interchangeable; threads are not, by AttrThreads.
StmtSymmetry == Permutations(Stmts)
=============================================================================
