------------------------ MODULE MCStatementOperation ------------------------
(* Three threads on one statement. *)
EXTENDS StatementOperation
=============================================================================
