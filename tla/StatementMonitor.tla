-------------------------- MODULE StatementMonitor --------------------------
(***************************************************************************)
(* What a statement handle promises its callers about calls and SQLCancel  *)
(* (mssql-odbc/src/handles/stmt.rs, begin_operation and cancel_operation): *)
(* one call runs on the statement at a time; a SQLCancel marks the running *)
(* call, returns only after that call, and is alone on the statement while *)
(* it looks at what the call left behind; no call starts before it is done.*)
(***************************************************************************)
CONSTANTS
    Threads,
    NoThread

VARIABLES
    runner,     \* the call running on the statement, or NoThread
    marked,     \* a SQLCancel hit the running call
    cancels,    \* the SQLCancel calls in progress
    inspector   \* the SQLCancel that has the statement for itself, or NoThread

vars == <<runner, marked, cancels, inspector>>

Init == runner = NoThread /\ marked = FALSE /\ cancels = {} /\ inspector = NoThread

Start(t) ==
    /\ runner = NoThread /\ cancels = {}
    /\ runner' = t /\ marked' = FALSE
    /\ UNCHANGED <<cancels, inspector>>

Finish ==
    /\ runner # NoThread
    /\ runner' = NoThread /\ marked' = FALSE
    /\ UNCHANGED <<cancels, inspector>>

\* A SQLCancel marks whichever call is running when it arrives.
Cancel(t) ==
    /\ t \notin cancels
    /\ cancels' = cancels \cup {t}
    /\ marked' = (runner # NoThread)
    /\ UNCHANGED <<runner, inspector>>

Inspect(t) ==
    /\ t \in cancels /\ runner = NoThread /\ inspector = NoThread
    /\ inspector' = t
    /\ UNCHANGED <<runner, marked, cancels>>

Return(t) ==
    /\ inspector = t
    /\ inspector' = NoThread /\ cancels' = cancels \ {t}
    /\ UNCHANGED <<runner, marked>>

Next ==
    \/ Finish
    \/ \E t \in Threads : Start(t) \/ Cancel(t) \/ Inspect(t) \/ Return(t)

Spec == Init /\ [][Next]_vars
=============================================================================
