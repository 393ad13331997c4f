------------------------ MODULE StatementOperation --------------------------
(***************************************************************************)
(* Calls and SQLCancel on one ODBC statement handle                        *)
(* (mssql-odbc/src/handles/stmt.rs, api/cancel.rs, api/close_cursor.rs and *)
(* the end of api/exec_common.rs).  A call registers in the atomic word    *)
(* operation_state, by one compare-and-swap when nobody is about, under    *)
(* the cancel mutex and a condition variable otherwise.  SQLCancel signals *)
(* the running call's token, waits for the call to leave, and then has the *)
(* statement for itself.                                                   *)
(*                                                                         *)
(* An action is one atomic access, or the accesses of one critical section *)
(* that nobody outside the mutex can tell apart.  A poisoned mutex is left *)
(* out.  The counters waiters and operation_waiters are kept as the sets   *)
(* of the calls counted in them.                                           *)
(***************************************************************************)
EXTENDS Naturals

CONSTANTS
    Threads,
    NoThread,
    Kinds,         \* the functions called on the statement
    MaxCalls       \* bound: calls made on the statement

AllKinds == {"Exec", "Fetch", "MoreResults", "CloseCursor", "FreeStmt", "Cancel"}

ASSUME ThreadAssumption == NoThread \notin Threads
ASSUME KindsAssumption == Kinds \subseteq AllKinds
ASSUME CallsAssumption == MaxCalls \in Nat

VARIABLES
    traced,            \* StmtHandle::trace is Some: no fast path in begin_operation
    operation_state,   \* the atomic word, as the set of its bits
    mutex,             \* the holder of the cancel mutex
    requested,
    waiters,           \* SQLCancel calls counted
    operation_waiters, \* calls waiting to begin
    cancelling,
    latched,           \* the statement's CancelHandle was cancelled
    asleep,            \* threads waiting on operation_finished
    cursor,            \* what the last execution left open
    token,             \* the cancel token of the client's response
    pc, kind, interrupted,
    \* --- history, read by the properties only ---
    signalled,         \* a SQLCancel hit the running call
    calls

regVars == <<operation_state, requested, waiters, operation_waiters, cancelling>>
vars == <<traced, regVars, mutex, latched, asleep, cursor, token, pc, kind, interrupted,
          signalled, calls>>

ACTIVE == "ACTIVE"
NOTIFY == "NOTIFY"

\* cursor: "Pending" has a response on the wire; "Error" is the error result of
\* a failed parameter set, with the rest of the batch pending; "Done" has read
\* its whole response.
Cursors == {"Closed", "Pending", "Error", "Done"}

\* token: the child of the statement's present handle, or of one replaced
\* before ("Stale") or after ("Cancelled") it was cancelled.
Tokens == {"Current", "Stale", "Cancelled"}

\* The program counters of a call that holds the operation guard.
Inside == {"Run", "Io", "Finish", "FinishSlow", "Settle", "Drop", "DropSlow"}
\* ... of a call waiting for it, and of a SQLCancel.
Entering == {"Slow", "SlowCheck", "SlowStore", "SlowWait"}
Counted == {"CancelCheck", "CancelWait", "Inspect", "CancelDrop"}
Cancelling == {"CancelSignal"} \cup Counted
\* ... and of a thread that holds the mutex.
Locked == {"SlowCheck", "SlowStore", "CancelSignal", "CancelCheck"}

\* The variables hold values of their types.
TypeOK ==
    /\ traced \in BOOLEAN
    /\ operation_state \subseteq {ACTIVE, NOTIFY}
    /\ mutex \in Threads \cup {NoThread}
    /\ requested \in BOOLEAN /\ cancelling \in BOOLEAN /\ latched \in BOOLEAN
    /\ waiters \subseteq Threads /\ operation_waiters \subseteq Threads
    /\ asleep \subseteq Threads
    /\ cursor \in Cursors /\ token \in Tokens
    /\ pc \in [Threads -> {"Idle"} \cup Inside \cup Entering \cup Cancelling]
    /\ kind \in [Threads -> AllKinds \cup {"None"}]
    /\ interrupted \in [Threads -> BOOLEAN]
    /\ signalled \in BOOLEAN
    /\ calls \in 0..MaxCalls

Init ==
    /\ traced \in BOOLEAN
    /\ operation_state = {} /\ mutex = NoThread
    /\ requested = FALSE /\ waiters = {} /\ operation_waiters = {} /\ cancelling = FALSE
    /\ latched = FALSE /\ asleep = {}
    /\ cursor = "Closed" /\ token = "Stale"
    /\ pc = [t \in Threads |-> "Idle"] /\ kind = [t \in Threads |-> "None"]
    /\ interrupted = [t \in Threads |-> FALSE]
    /\ signalled = FALSE /\ calls = 0

Goto(t, l) == pc' = [pc EXCEPT ![t] = l]
\* The call's own variables end with it.
Return(t) == Goto(t, "Idle") /\ kind' = [kind EXCEPT ![t] = "None"]
Lock(t) == mutex = NoThread /\ mutex' = t
Unlock == mutex' = NoThread
\* Taken and released within one action.
LockBriefly == mutex = NoThread /\ UNCHANGED mutex

TokenCancelled == token = "Cancelled" \/ (token = "Current" /\ latched)

\* notify_waiters, with the counters as the action leaves them.
Notify(w, ow) == asleep' = IF w # {} \/ ow # {} THEN {} ELSE asleep

\* The statement's handle becomes a fresh one; children of the old one keep
\* the state it had.
ReplaceHandle(l) ==
    /\ latched' = l
    /\ token' = CASE token # "Current" -> token
                  [] latched -> "Cancelled"
                  [] OTHER -> "Stale"

---------------------------------------------------------------------------
(* begin_operation.                                                        *)

Call(t, k) ==
    /\ pc[t] = "Idle" /\ k \in Kinds /\ k # "Cancel" /\ calls < MaxCalls
    /\ calls' = calls + 1 /\ kind' = [kind EXCEPT ![t] = k]

\* Mutation: the compare-and-swap only minds another operation.
FastFree0 == ~traced /\ ACTIVE \notin operation_state

\* The compare-and-swap from 0 succeeds.
FastFree == ~traced /\ operation_state = {}

Begin(t, k) ==
    /\ Call(t, k)
    /\ IF FastFree
       THEN /\ operation_state' = {ACTIVE} /\ signalled' = FALSE
            /\ Goto(t, "Run")
       ELSE Goto(t, "Slow") /\ UNCHANGED <<operation_state, signalled>>
    /\ UNCHANGED <<traced, mutex, requested, waiters, operation_waiters, cancelling, latched,
                   asleep, cursor, token, interrupted>>

SlowLock(t) ==
    /\ pc[t] = "Slow" /\ Lock(t)
    /\ operation_state' = operation_state \cup {NOTIFY}
    /\ Goto(t, "SlowCheck")
    /\ UNCHANGED <<traced, requested, waiters, operation_waiters, cancelling, latched, asleep,
                   cursor, token, kind, interrupted, signalled, calls>>

\* Mutation: a call does not wait for a SQLCancel that is not done.
MustWait0 == ACTIVE \in operation_state

MustWait == ACTIVE \in operation_state \/ waiters # {}

SlowCheck(t) ==
    /\ pc[t] = "SlowCheck"
    /\ IF MustWait
       THEN /\ operation_waiters' = operation_waiters \cup {t}
            /\ asleep' = asleep \cup {t} /\ Unlock /\ Goto(t, "SlowWait")
       ELSE Goto(t, "SlowStore") /\ UNCHANGED <<operation_waiters, asleep, mutex>>
    /\ UNCHANGED <<traced, operation_state, requested, waiters, cancelling, latched, cursor,
                   token, kind, interrupted, signalled, calls>>

SlowWake(t) ==
    /\ pc[t] = "SlowWait" /\ t \notin asleep /\ Lock(t)
    /\ operation_waiters' = operation_waiters \ {t}
    /\ Goto(t, "SlowCheck")
    /\ UNCHANGED <<traced, operation_state, requested, waiters, cancelling, latched, asleep,
                   cursor, token, kind, interrupted, signalled, calls>>

\* Mutation: the store drops the mark of the calls still waiting.
EnterState0 == {ACTIVE}

EnterState == {ACTIVE} \cup (IF operation_waiters # {} THEN {NOTIFY} ELSE {})

SlowStore(t) ==
    /\ pc[t] = "SlowStore"
    /\ requested' = FALSE
    /\ operation_state' = EnterState
    /\ signalled' = FALSE
    /\ Unlock /\ Goto(t, "Run")
    /\ UNCHANGED <<traced, waiters, operation_waiters, cancelling, latched, asleep, cursor,
                   token, kind, interrupted, calls>>

---------------------------------------------------------------------------
(* The call itself, as far as tokens and cursors go.                       *)

bodyRest == <<traced, regVars, asleep, kind, interrupted, signalled, calls>>

\* Mutation: a SQLCancel that came before the execution is forgotten.
InheritedRequest0 == FALSE

\* new_execution_cancel: a SQLCancel that came before the execution counts.
InheritedRequest == requested

\* An execution refuses an open cursor, and otherwise gets a token.
RunExec(t) ==
    /\ pc[t] = "Run" /\ kind[t] = "Exec"
    /\ \/ cursor # "Closed" /\ Goto(t, "Finish") /\ UNCHANGED <<mutex, latched, token>>
       \/ /\ cursor = "Closed" /\ LockBriefly
          /\ latched' = InheritedRequest /\ token' = "Current"
          /\ Goto(t, "Io")
    /\ UNCHANGED <<bodyRest, cursor>>

\* SQLFetch and SQLGetData read rows, SQLMoreResults reads whatever is left.
RunRead(t) ==
    /\ pc[t] = "Run"
    /\ Goto(t, IF \/ kind[t] \in {"Fetch", "MoreResults"} /\ cursor = "Pending"
                  \/ kind[t] = "MoreResults" /\ cursor = "Error"
               THEN "Io" ELSE "Finish")
    /\ kind[t] \in {"Fetch", "MoreResults"}
    /\ UNCHANGED <<bodyRest, mutex, latched, token, cursor>>

\* The server answers: rows, an error result, the end of the batch, or an
\* error that ends it.
Answered(t) ==
    /\ pc[t] = "Io"
    /\ cursor' \in (IF kind[t] = "Fetch" THEN Cursors \ {"Error"} ELSE Cursors)
    /\ Goto(t, "Finish")
    /\ UNCHANGED <<bodyRest, mutex, latched, token>>

\* The token interrupts the wait; ATTENTION settles the response, within the
\* cancellation timeout or by giving the connection up.
Interrupted(t) ==
    /\ pc[t] = "Io" /\ TokenCancelled
    /\ cursor' = "Closed"
    /\ Goto(t, "Finish")
    /\ UNCHANGED <<bodyRest, mutex, latched, token>>

\* SQLFreeStmt(SQL_CLOSE) and the sweep of SQLEndTran abandon whatever is
\* open; SQLCloseCursor leaves an error result alone.  Neither reads by token.
RunClose(t) ==
    /\ pc[t] = "Run" /\ kind[t] \in {"CloseCursor", "FreeStmt"}
    /\ cursor' = IF kind[t] = "CloseCursor" /\ cursor = "Error" THEN cursor ELSE "Closed"
    /\ Goto(t, "Drop")
    /\ UNCHANGED <<bodyRest, mutex, latched, token>>

---------------------------------------------------------------------------
(* finish_operation and the drop of the operation guard.                   *)

finishRest == <<traced, waiters, operation_waiters, requested, cancelling, interrupted, calls>>

\* finish_uncontended.
FinishFast(t) ==
    /\ pc[t] \in {"Finish", "Drop"} /\ operation_state = {ACTIVE}
    /\ operation_state' = {} /\ signalled' = FALSE
    /\ Return(t)
    /\ UNCHANGED <<finishRest, mutex, latched, asleep, cursor, token>>

FinishContended(t) ==
    /\ pc[t] \in {"Finish", "Drop"} /\ operation_state # {ACTIVE}
    /\ Goto(t, IF pc[t] = "Finish" THEN "FinishSlow" ELSE "DropSlow")
    /\ UNCHANGED <<finishRest, kind, operation_state, signalled, mutex, latched, asleep, cursor,
                   token>>

\* finish_unless_cancelled_slow: a signalled call keeps the guard and settles.
FinishSlow(t) ==
    /\ pc[t] = "FinishSlow" /\ LockBriefly
    /\ IF requested
       THEN Goto(t, "Settle") /\ UNCHANGED <<operation_state, signalled, asleep, kind>>
       ELSE /\ operation_state' = {NOTIFY} /\ signalled' = FALSE
            /\ Notify(waiters, operation_waiters) /\ Return(t)
    /\ UNCHANGED <<finishRest, latched, cursor, token>>

\* Mutation: a late signal leaves the response as it is.
SettledCursor0 == cursor

\* settle_late_cancellation: a response still on the wire is abandoned.
SettledCursor == IF cursor \in {"Pending", "Error"} THEN "Closed" ELSE cursor

Settle(t) ==
    /\ pc[t] = "Settle"
    /\ cursor' = SettledCursor
    /\ Goto(t, "Drop")
    /\ UNCHANGED <<finishRest, kind, operation_state, signalled, mutex, latched, asleep, token>>

\* Mutation: the last call out wakes nobody.
DropNotify0 == UNCHANGED asleep

DropNotify == Notify(waiters, operation_waiters)

DropSlow(t) ==
    /\ pc[t] = "DropSlow" /\ LockBriefly
    /\ IF requested THEN ReplaceHandle(FALSE) ELSE UNCHANGED <<latched, token>>
    /\ operation_state' = {NOTIFY} /\ signalled' = FALSE
    /\ DropNotify /\ Return(t)
    /\ UNCHANGED <<finishRest, cursor>>

---------------------------------------------------------------------------
(* SQLCancel.                                                              *)

CancelCall(t) ==
    /\ pc[t] = "Idle" /\ "Cancel" \in Kinds /\ calls < MaxCalls
    /\ calls' = calls + 1 /\ kind' = [kind EXCEPT ![t] = "Cancel"]
    /\ Lock(t)
    /\ interrupted' = [interrupted EXCEPT ![t] = ACTIVE \in operation_state]
    /\ operation_state' = operation_state \cup {NOTIFY}
    /\ Goto(t, "CancelSignal")
    /\ UNCHANGED <<traced, requested, waiters, operation_waiters, cancelling, latched, asleep,
                   cursor, token, signalled>>

CancelSignal(t) ==
    /\ pc[t] = "CancelSignal"
    /\ IF interrupted[t]
       THEN requested' = TRUE /\ latched' = TRUE /\ signalled' = TRUE
       ELSE UNCHANGED <<requested, latched, signalled>>
    /\ waiters' = waiters \cup {t}
    /\ Goto(t, "CancelCheck")
    /\ UNCHANGED <<traced, operation_state, operation_waiters, cancelling, mutex, asleep, cursor,
                   token, kind, interrupted, calls>>

CancelMustWait == ACTIVE \in operation_state \/ cancelling

CancelCheck(t) ==
    /\ pc[t] = "CancelCheck" /\ Unlock
    /\ IF CancelMustWait
       THEN asleep' = asleep \cup {t} /\ Goto(t, "CancelWait") /\ UNCHANGED cancelling
       ELSE cancelling' = TRUE /\ Goto(t, "Inspect") /\ UNCHANGED asleep
    /\ UNCHANGED <<traced, operation_state, requested, waiters, operation_waiters, latched,
                   cursor, token, kind, interrupted, signalled, calls>>

CancelWake(t) ==
    /\ pc[t] = "CancelWait" /\ t \notin asleep /\ Lock(t)
    /\ Goto(t, "CancelCheck")
    /\ UNCHANGED <<traced, regVars, latched, asleep, cursor, token, kind, interrupted,
                   signalled, calls>>

\* A SQLCancel that hit nobody is SQLFreeStmt(SQL_CLOSE).
Inspect(t) ==
    /\ pc[t] = "Inspect"
    /\ cursor' = IF interrupted[t] THEN cursor ELSE "Closed"
    /\ Goto(t, "CancelDrop")
    /\ UNCHANGED <<traced, regVars, mutex, latched, asleep, token, kind, interrupted,
                   signalled, calls>>

CancelDrop(t) ==
    /\ pc[t] = "CancelDrop" /\ LockBriefly
    /\ waiters' = waiters \ {t} /\ cancelling' = FALSE
    /\ Notify(waiters', operation_waiters)
    /\ Return(t) /\ interrupted' = [interrupted EXCEPT ![t] = FALSE]
    /\ UNCHANGED <<traced, operation_state, requested, operation_waiters, latched, cursor, token,
                   signalled, calls>>

\* A condition variable may wake a thread for no reason.
SpuriousWake(t) ==
    /\ t \in asleep /\ asleep' = asleep \ {t}
    /\ UNCHANGED <<traced, regVars, mutex, latched, cursor, token, pc, kind, interrupted,
                   signalled, calls>>

---------------------------------------------------------------------------
EnterStep(t) == SlowLock(t) \/ SlowCheck(t) \/ SlowWake(t) \/ SlowStore(t)
BodyStep(t) == RunExec(t) \/ RunRead(t) \/ Interrupted(t) \/ RunClose(t)
FinishStep(t) == \/ FinishFast(t) \/ FinishContended(t) \/ FinishSlow(t)
                 \/ Settle(t) \/ DropSlow(t)
CancelStep(t) == \/ CancelSignal(t) \/ CancelCheck(t) \/ CancelWake(t)
                 \/ Inspect(t) \/ CancelDrop(t)

Next ==
    \E t \in Threads :
        \/ \E k \in Kinds : Begin(t, k)
        \/ CancelCall(t)
        \/ EnterStep(t) \/ BodyStep(t) \/ Answered(t) \/ FinishStep(t) \/ CancelStep(t)
        \/ SpuriousWake(t)

Spec == Init /\ [][Next]_vars

\* Threads run.  A server need not answer, so Answered has no fairness; an
\* interrupted read ends, by ATTENTION or by the cancellation timeout.
Fairness ==
    \A t \in Threads : WF_vars(EnterStep(t) \/ BodyStep(t) \/ FinishStep(t) \/ CancelStep(t))

\* A thread is woken for no reason finitely often: std's mutex is not fair, and
\* endless wakeups of one thread could keep the mutex from another.
SpuriousWakesStop == <>[][\A t \in Threads : ~SpuriousWake(t)]_vars

FairSpec == Spec /\ Fairness /\ SpuriousWakesStop

---------------------------------------------------------------------------
(* Properties.                                                             *)

\* The registry: the ACTIVE bit says whether a call holds the guard, the mutex
\* is with whoever is in a critical section, and whoever must be woken by the
\* last call out has left the NOTIFY bit for it.
GuardIsBit == \A t \in Threads : pc[t] \in Inside => ACTIVE \in operation_state
BitIsGuard == ACTIVE \in operation_state => \E t \in Threads : pc[t] \in Inside
OneCall == \A t, u \in Threads : pc[t] \in Inside /\ pc[u] \in Inside => t = u
MutexHeld == \A t \in Threads : pc[t] \in Locked <=> mutex = t
WaitersCounted == \A t \in Threads :
    /\ t \in waiters <=> pc[t] \in Counted
    /\ t \in operation_waiters <=> pc[t] = "SlowWait"
    /\ t \in asleep => pc[t] \in {"SlowWait", "CancelWait"}
NotifyKept == \A t \in Threads :
    pc[t] \in Cancelling \cup {"SlowCheck", "SlowStore", "SlowWait"} => NOTIFY \in operation_state
StoreAlone == \A t \in Threads :
    pc[t] = "SlowStore" => ACTIVE \notin operation_state /\ waiters = {}
FenceHeld == \A t \in Threads :
    pc[t] \in {"Inspect", "CancelDrop"} => cancelling /\ ACTIVE \notin operation_state
FenceOfOne == \A t, u \in Threads :
    pc[t] \in {"Inspect", "CancelDrop"} /\ pc[u] \in {"Inspect", "CancelDrop"} => t = u
HitIsActive == \A t \in Threads :
    pc[t] = "CancelSignal" => (interrupted[t] <=> ACTIVE \in operation_state)
\* The request on the record is that of the call on the statement.  One that is
\* over keeps the NOTIFY bit, so that the next call does not take the fast path
\* past it.
RequestIsCurrent ==
    /\ \A t \in Threads : pc[t] \in Inside => (requested <=> signalled)
    /\ requested => NOTIFY \in operation_state
    /\ signalled => ACTIVE \in operation_state

\* The conjunction is inductive.  A call runs alone on its statement and is
\* marked exactly when a SQLCancel of its own time asked for it.
RegistryInv ==
    /\ TypeOK /\ GuardIsBit /\ BitIsGuard /\ OneCall /\ MutexHeld /\ WaitersCounted
    /\ NotifyKept /\ StoreAlone /\ FenceHeld /\ FenceOfOne /\ HitIsActive /\ RequestIsCurrent

\* A SQLCancel that hit a call reaches the wait the call is in, also when it
\* came before the call had made its token.
SignalReaches ==
    \A t \in Threads : pc[t] = "Io" /\ signalled => TokenCancelled

\* No call is interrupted by a SQLCancel that was meant for an earlier one:
\* "the latched token must not reach a later call".
NoStrayCancel ==
    \A t \in Threads : pc[t] = "Io" /\ TokenCancelled => signalled

\* SQLCancel returns, even if the server never answers the command it cancels.
CancelReturns ==
    \A t \in Threads : pc[t] \in Cancelling ~> pc[t] = "Idle"

\* No wakeup is lost: in the end every call has returned, or waits for a call
\* that the server leaves without an answer.
AllReturn ==
    <>[]((\E u \in Threads : pc[u] = "Io") \/ (\A t \in Threads : pc[t] = "Idle"))

\* The thread whose program counter is in S, if there is one.
Holder(at, S) == IF \E t \in Threads : at[t] \in S
                 THEN CHOOSE t \in Threads : at[t] \in S ELSE NoThread
Runner == Holder(pc, Inside)
Inspector == Holder(pc, {"Inspect", "CancelDrop"})

Monitor == INSTANCE StatementMonitor
    WITH runner <- Runner, marked <- signalled, cancels <- waiters, inspector <- Inspector

\* The atomic word, the mutex and the condition variable implement the monitor.
StatementIsMonitor == Monitor!Spec
=============================================================================
