--------------------------- MODULE OdbcConnection ---------------------------
(***************************************************************************)
(* Threads calling one ODBC connection (mssql-odbc): statements, SQLEndTran, *)
(* the transaction attributes, the pool's connection reset, the USER_NAME  *)
(* lookup, SQLDisconnect and SQLDriverConnect.  A call takes the DBC mutex *)
(* for short critical sections and does its network I/O holding only a     *)
(* lease on the TDS client, so calls interleave between those sections.    *)
(* An action is one critical section together with the I/O that leads to   *)
(* it: nobody else can see the leased client in between.                   *)
(*                                                                         *)
(* Two rules of ODBC bound the callers.  No call is started before         *)
(* SQLDriverConnect has returned (a call started earlier may still be      *)
(* running, unless QuietConnect), and SQLDisconnect does not free a        *)
(* statement that a call is using (the handle-lifetime TODO of             *)
(* disconnect.rs is left out).                                             *)
(***************************************************************************)
EXTENDS ConnectionWire

CONSTANTS
    Calls,        \* the functions the application calls
    AttrThreads,  \* the threads that set attributes, connect or disconnect
    Levels,       \* isolation levels
    ReadCommitted,\* the level of a fresh login
    RawSql,       \* statements may BEGIN, COMMIT or SET in T-SQL
    QuietConnect, \* SQLDriverConnect is called when no other call is running
    MaxResets     \* bound: connection resets

AllCalls == {"Exec", "Fetch", "Close", "EndTran", "Autocommit", "Isolation", "Reset",
             "UserName", "Disconnect", "Connect"}

ASSUME CallsAssumption == Calls \subseteq AllCalls
ASSUME AttrAssumption == AttrThreads \subseteq Threads
ASSUME LevelsAssumption == ReadCommitted \in Levels
ASSUME RawAssumption == RawSql \in BOOLEAN /\ QuietConnect \in BOOLEAN
ASSUME ResetsAssumption == MaxResets \in Nat

VARIABLES
    \* --- DbcState ---
    connected,                \* connection_state = Connected
    autocommit,
    txn_isolation,
    server_isolation_unknown,
    local_tran_started,
    reset_generation,
    database_user_name,       \* the lookup the cached name came from, or NoName
    \* --- StmtState ---
    cursor,                   \* "Closed", "Rows" (pending on the wire) or "Drained"
    operation,                \* the call holding the statement's operation guard
    \* --- the client and its server session, by session ---
    session,
    \* --- calls in progress ---
    call,
    \* --- history, read by the properties only ---
    lost                      \* the operations that discarded user work unasked

dbcVars == <<connected, autocommit, txn_isolation, server_isolation_unknown,
             local_tran_started, reset_generation, database_user_name>>
stmtVars == <<cursor, operation>>
vars == <<wireVars, dbcVars, stmtVars, session, call, lost>>

NoName == [session |-> 0, resets |-> 0]
Names == [session : 0..MaxSessions, resets : 0..MaxResets]

\* txn: has_active_transaction.  work: the open transaction holds user work
\* whose fate the application has not been told.  synced: the isolation level
\* was set by the driver, or is the login's, since the last reset was armed.
\* strayed: a statement has changed it since.
FreshSession == [txn |-> FALSE, work |-> FALSE, dead |-> FALSE, level |-> ReadCommitted,
                 synced |-> TRUE, strayed |-> FALSE]
Sessions == [txn : BOOLEAN, work : BOOLEAN, dead : BOOLEAN, level : Levels,
             synced : BOOLEAN, strayed : BOOLEAN]

\* arg: the level, mode or completion type asked for.  seen: the value of
\* local_tran_started the call read.  gen: the generation it captured.  todo:
\* the statements its cursor sweep has left.  bad: a cursor failed to close.
NoCall == [op |-> "None", pc |-> "None", arg |-> ReadCommitted, seen |-> FALSE, gen |-> 0,
           stmt |-> NoOwner, todo |-> {}, bad |-> FALSE]
CallRecords ==
    [op : AllCalls \cup {"None"},
     pc : {"None", "Sweep", "Drain", "Claim", "Held", "Begun", "Free", "Post", "Mark"},
     arg : Levels \cup BOOLEAN, seen : BOOLEAN, gen : 0..(MaxResets + MaxSessions),
     stmt : Stmts \cup {NoOwner}, todo : SUBSET Stmts, bad : BOOLEAN]

\* The variables hold values of their types, and the handle is Connected exactly
\* when its wire has a client, parked or leased.
TypeOK ==
    /\ WireTypeOK
    /\ connected <=> (wire_client # 0 \/ wire_lease # 0)
    /\ connected \in BOOLEAN /\ autocommit \in BOOLEAN
    /\ txn_isolation \in Levels
    /\ server_isolation_unknown \in BOOLEAN /\ local_tran_started \in BOOLEAN
    /\ reset_generation \in 0..MaxResets
    /\ database_user_name \in Names
    /\ cursor \in [Stmts -> {"Closed", "Rows", "Drained"}]
    /\ operation \in [Stmts -> Threads \cup {NoThread}]
    /\ session \in [1..MaxSessions -> Sessions]
    /\ call \in [Threads -> CallRecords]
    /\ lost \subseteq {"Isolation", "Autocommit", "Disconnect"}

Init ==
    /\ WireInit
    /\ connected = FALSE /\ autocommit = TRUE /\ txn_isolation = ReadCommitted
    /\ server_isolation_unknown = FALSE /\ local_tran_started = FALSE
    /\ reset_generation = 0 /\ database_user_name = NoName
    /\ cursor = [s \in Stmts |-> "Closed"] /\ operation = [s \in Stmts |-> NoThread]
    /\ session = [n \in 1..MaxSessions |-> FreshSession]
    /\ call = [t \in Threads |-> NoCall]
    /\ lost = {}

---------------------------------------------------------------------------
(* Calls.                                                                  *)

Idle(t) == call[t].op = "None"
At(t, op, pc) == call[t].op = op /\ call[t].pc = pc
Return(t) == call' = [call EXCEPT ![t] = NoCall]
Goto(t, pc) == call' = [call EXCEPT ![t].pc = pc]

AttrCalls == {"Autocommit", "Isolation", "Reset", "Disconnect", "Connect"}

\* May t call op now?  Nothing is called while SQLDriverConnect is under way.
MayCall(t, op) ==
    /\ Idle(t) /\ op \in Calls
    /\ op \in AttrCalls => t \in AttrThreads
    /\ \A u \in Threads : call[u].op # "Connect"
    /\ (op = "Connect" /\ QuietConnect) => \A u \in Threads : Idle(u)

Enter(t, op, pc, arg, seen, gen) ==
    call' = [call EXCEPT ![t] =
                [op |-> op, pc |-> pc, arg |-> arg, seen |-> seen, gen |-> gen, stmt |-> NoOwner,
                 todo |-> IF pc = "Sweep" THEN Stmts ELSE {}, bad |-> FALSE]]

\* The client t has checked out, and what becomes of it.
Mine(t) == session[held[t].session]
ClientBecomes(t, c) == session' = [session EXCEPT ![held[t].session] = c]

\* A round trip may fail and leave the connection usable or dead; a server
\* that loses its connection rolls back.
Killed(c) == [c EXCEPT !.dead = TRUE, !.work = FALSE]

\* COMMIT or ROLLBACK that reached the server, and one whose outcome the
\* application was told is in doubt (08007).
Ended(c) == [c EXCEPT !.txn = FALSE, !.work = FALSE]
InDoubt(c) == {[c EXCEPT !.work = FALSE], Killed(c)}
Begun(c) == [c EXCEPT !.txn = TRUE]

\* Results of a transaction-manager round trip that completes as `done`.
Completes(c, done) == IF c.dead THEN {} ELSE {done}

\* A stale client that is handed back is closed, and its transaction with it.
LostWith(t, c) == IF ~Current(t) /\ c.work THEN {"Disconnect"} ELSE {}

\* fail_lost_session, or the busy and not-connected refusals of a claim: the
\* call ends and nothing is recorded.
GiveUp(t) ==
    /\ Return(t)
    /\ UNCHANGED <<wireVars, dbcVars, stmtVars, session, lost>>

\* claim_dbc_client.
ClaimDbcClient(t) ==
    /\ connected /\ Claim(t, Connection, "IdleOnly")
    /\ Goto(t, "Held")
    /\ UNCHANGED <<dbcVars, stmtVars, session, lost>>

ClaimRefused(t) == ~(connected /\ CanClaim(Connection, "IdleOnly")) /\ GiveUp(t)

---------------------------------------------------------------------------
(* Cursors: close_all_cursors, close_cursor_for_connection_op and          *)
(* abandon_and_release, run statement by statement.                        *)

\* begin_operation: one call at a time has a statement.
FreeStatement(s) == operation[s] = NoThread

SweepSkip(t, s) ==
    /\ call[t].pc = "Sweep" /\ s \in call[t].todo /\ FreeStatement(s)
    /\ cursor[s] = "Closed"
    /\ call' = [call EXCEPT ![t].todo = @ \ {s}]
    /\ UNCHANGED <<wireVars, dbcVars, stmtVars, session, lost>>

\* reset_cursor_state, then the claim: own or idle.
SweepClaim(t, s) ==
    /\ call[t].pc = "Sweep" /\ s \in call[t].todo /\ FreeStatement(s)
    /\ cursor[s] # "Closed" /\ cursor' = [cursor EXCEPT ![s] = "Closed"]
    /\ Claim(t, s, "IdleOrOwn")
    /\ operation' = [operation EXCEPT ![s] = t]
    /\ call' = [call EXCEPT ![t].pc = "Drain", ![t].stmt = s]
    /\ UNCHANGED <<dbcVars, session, lost>>

\* Another owner has the wire: nothing of this statement is left on it.  No
\* client at all fails the close.
SweepBusy(t, s) ==
    /\ call[t].pc = "Sweep" /\ s \in call[t].todo /\ FreeStatement(s)
    /\ cursor[s] # "Closed" /\ cursor' = [cursor EXCEPT ![s] = "Closed"]
    /\ ~CanClaim(s, "IdleOrOwn")
    /\ call' = [call EXCEPT ![t].todo = @ \ {s},
                            ![t].bad = @ \/ wire_owner = s
                                         \/ (wire_lease = 0 /\ wire_owner = NoOwner)]
    /\ UNCHANGED <<wireVars, dbcVars, operation, session, lost>>

\* abandon_query settles the response, which may abort the transaction, or fails
\* and may lose the connection.
SweepDrain(t, ok) ==
    /\ call[t].pc = "Drain"
    /\ \E c \in IF ok THEN {Mine(t), Ended(Mine(t))} ELSE {Mine(t), Killed(Mine(t))} :
         ClientBecomes(t, c)
    /\ Restore(t, "Release")
    /\ operation' = [operation EXCEPT ![call[t].stmt] = NoThread]
    /\ call' = [call EXCEPT ![t].pc = "Sweep", ![t].todo = @ \ {call[t].stmt},
                            ![t].stmt = NoOwner, ![t].bad = @ \/ ~ok \/ ~Current(t)]
    /\ UNCHANGED <<dbcVars, cursor, lost>>

Swept(t, op) == At(t, op, "Sweep") /\ call[t].todo = {}

\* fail_cursor_close.
SweepFailed(t) ==
    /\ call[t].pc = "Sweep" /\ call[t].todo = {} /\ call[t].bad
    /\ call[t].op # "Disconnect"
    /\ GiveUp(t)

\* SQLCloseCursor, and SQLFreeStmt(SQL_CLOSE) on a cursor with rows left.
CloseCursor(t, s) ==
    /\ MayCall(t, "Close") /\ FreeStatement(s) /\ cursor[s] # "Closed"
    /\ call' = [call EXCEPT ![t] = [NoCall EXCEPT !.op = "Close", !.pc = "Sweep", !.todo = {s}]]
    /\ UNCHANGED <<wireVars, dbcVars, stmtVars, session, lost>>

CloseReturns(t) == Swept(t, "Close") /\ ~call[t].bad /\ GiveUp(t)

---------------------------------------------------------------------------
(* Statements.                                                             *)

\* SQLExecDirect / SQLExecute up to claim_connection.
ExecClaim(t, s) ==
    /\ MayCall(t, "Exec") /\ connected
    /\ FreeStatement(s) /\ cursor[s] = "Closed"
    /\ Claim(t, s, "IdleOrOwn")
    /\ operation' = [operation EXCEPT ![s] = t]
    /\ call' = [call EXCEPT ![t] = [NoCall EXCEPT !.op = "Exec", !.pc = "Held", !.stmt = s]]
    /\ UNCHANGED <<dbcVars, cursor, session, lost>>

\* Mutation: the flag is recorded only when this call began the transaction.
StartedOnBegin(began, txn) == IF began THEN txn ELSE local_tran_started

\* What begin_transaction_if_manual records: has_active_transaction.
StartedFlag(began, txn) == txn

\* begin_transaction_if_manual: c is the client afterwards.
ExecBegin(t) ==
    /\ At(t, "Exec", "Held")
    /\ LET began == ~autocommit /\ ~Mine(t).txn
       IN \E c \in IF began THEN Completes(Mine(t), Begun(Mine(t))) ELSE {Mine(t)} :
            /\ ClientBecomes(t, c)
            /\ local_tran_started' = IF autocommit THEN local_tran_started
                                     ELSE StartedFlag(began, c.txn)
    /\ Goto(t, "Begun")
    /\ UNCHANGED <<wireVars, connected, autocommit, txn_isolation, server_isolation_unknown,
                   reset_generation, database_user_name, stmtVars, lost>>

\* The BEGIN fails or is cancelled; cancellation may land after it succeeded.
ExecBeginFails(t) ==
    /\ At(t, "Exec", "Held") /\ ~autocommit /\ ~Mine(t).txn
    /\ \E c \in {Mine(t), Killed(Mine(t))} \cup Completes(Mine(t), Begun(Mine(t))) :
         /\ ClientBecomes(t, c)
         /\ local_tran_started' = StartedFlag(TRUE, c.txn)
    /\ Restore(t, "Release")
    /\ operation' = [operation EXCEPT ![call[t].stmt] = NoThread]
    /\ Return(t)
    /\ UNCHANGED <<connected, autocommit, txn_isolation, server_isolation_unknown,
                   reset_generation, database_user_name, cursor, lost>>

\* What a statement may do to its session.
Executed(c) ==
    IF c.dead THEN {}
    ELSE {[c EXCEPT !.work = @ \/ c.txn],    \* user work, if a transaction is open
          Ended(c)}                          \* the server aborts the transaction
         \cup (IF RawSql THEN {[c EXCEPT !.txn = TRUE, !.work = TRUE]}
                              \cup {[c EXCEPT !.level = l, !.strayed = TRUE] : l \in Levels}
               ELSE {})

\* The batch ran; finish_execute leaves rows pending under a reservation, or
\* hands an idle wire back with the cursor closed or already drained.
ExecFinish(t, left) ==
    /\ At(t, "Exec", "Begun")
    /\ \E c \in Executed(Mine(t)) : ClientBecomes(t, c)
    /\ Restore(t, IF left = "Rows" THEN "KeepReservation" ELSE "Release")
    /\ cursor' = [cursor EXCEPT ![call[t].stmt] = left]
    /\ operation' = [operation EXCEPT ![call[t].stmt] = NoThread]
    /\ Return(t)
    /\ UNCHANGED <<dbcVars, lost>>

\* fail_with_tds: an error, after which the server may have aborted the
\* transaction, or a dead connection.
ExecFails(t) ==
    /\ At(t, "Exec", "Begun")
    /\ \E c \in {Mine(t), Ended(Mine(t)), Killed(Mine(t))} : ClientBecomes(t, c)
    /\ Restore(t, "Release")
    /\ operation' = [operation EXCEPT ![call[t].stmt] = NoThread]
    /\ Return(t)
    /\ UNCHANGED <<dbcVars, cursor, lost>>

\* SQLFetch / SQLFetchScroll on a cursor with rows left.
FetchClaim(t, s) ==
    /\ MayCall(t, "Fetch") /\ FreeStatement(s) /\ cursor[s] = "Rows"
    /\ wire_owner = s /\ Claim(t, s, "IdleOrOwn")
    /\ operation' = [operation EXCEPT ![s] = t]
    /\ call' = [call EXCEPT ![t] = [NoCall EXCEPT !.op = "Fetch", !.pc = "Held", !.stmt = s]]
    /\ UNCHANGED <<dbcVars, cursor, session, lost>>

\* Mutation: a drained batch keeps its reservation.
KeptWhenDrained(left) == "KeepReservation"

\* release_busy_if_row_exhausted: the wire is released as soon as the batch is
\* read to its end, or failed.
FetchReturn(left) == IF left = "Rows" THEN "KeepReservation" ELSE "Release"

\* A fetch that fails closes the cursor and may lose the connection; the server
\* may abort the transaction under any of them.
FetchFinish(t, left) ==
    /\ At(t, "Fetch", "Held")
    /\ \E c \in {Mine(t), Ended(Mine(t))} \cup (IF left = "Closed" THEN {Killed(Mine(t))} ELSE {}) :
         ClientBecomes(t, c)
    /\ Restore(t, FetchReturn(left))
    /\ cursor' = [cursor EXCEPT ![call[t].stmt] = left]
    /\ operation' = [operation EXCEPT ![call[t].stmt] = NoThread]
    /\ Return(t)
    /\ UNCHANGED <<dbcVars, lost>>

---------------------------------------------------------------------------
(* SQLEndTran: end_transaction.                                            *)

EndTran(t) ==
    /\ MayCall(t, "EndTran") /\ connected
    /\ Enter(t, "EndTran", "Sweep", TRUE, local_tran_started, 0)
    /\ UNCHANGED <<wireVars, dbcVars, stmtVars, session, lost>>

\* Nothing started: no request, a silent success.
EndTranNothing(t) == Swept(t, "EndTran") /\ ~call[t].bad /\ ~call[t].seen /\ GiveUp(t)

EndTranClaim(t) ==
    /\ Swept(t, "EndTran") /\ ~call[t].bad /\ call[t].seen
    /\ ClaimDbcClient(t) \/ ClaimRefused(t)

\* COMMIT and ROLLBACK take the same path; the flag is cleared either way.
EndTranFinish(t) ==
    /\ At(t, "EndTran", "Held")
    /\ \E c \in IF Mine(t).txn THEN Completes(Mine(t), Ended(Mine(t))) \cup InDoubt(Mine(t))
                ELSE {Mine(t)} :
         /\ ClientBecomes(t, c)
         /\ lost' = lost \cup LostWith(t, c)
    /\ Restore(t, "Release")
    /\ local_tran_started' = IF Current(t) THEN FALSE ELSE local_tran_started
    /\ Return(t)
    /\ UNCHANGED <<connected, autocommit, txn_isolation, server_isolation_unknown,
                   reset_generation, database_user_name, stmtVars>>

---------------------------------------------------------------------------
(* SQL_ATTR_AUTOCOMMIT: set_autocommit and the two switches.               *)

SetAutocommit(t, enable) ==
    /\ MayCall(t, "Autocommit") /\ autocommit # enable
    /\ IF connected
       THEN Enter(t, "Autocommit", "Sweep", enable, FALSE, 0) /\ UNCHANGED autocommit
       ELSE autocommit' = enable /\ UNCHANGED call
    /\ UNCHANGED <<wireVars, connected, txn_isolation, server_isolation_unknown,
                   local_tran_started, reset_generation, database_user_name, stmtVars,
                   session, lost>>

AutocommitClaim(t) ==
    /\ Swept(t, "Autocommit") /\ ~call[t].bad
    /\ ClaimDbcClient(t) \/ ClaimRefused(t)

\* Mutation: switching on rolls a user transaction back like an empty one.
CommitsNothing == FALSE

\* A transaction holding user work is committed, a driver-begun one rolled back.
CommitsUserWork == local_tran_started

\* switch_to_autocommit.
AutocommitOn(t) ==
    /\ At(t, "Autocommit", "Held") /\ call[t].arg = TRUE
    /\ \E ok \in BOOLEAN, c \in Sessions :
         /\ c \in IF ~Mine(t).txn THEN {Mine(t)}
                  ELSE IF ok THEN Completes(Mine(t), Ended(Mine(t))) ELSE InDoubt(Mine(t))
         /\ Mine(t).txn \/ ok
         /\ ClientBecomes(t, c)
         /\ lost' = lost \cup LostWith(t, c) \cup
                    (IF Mine(t).txn /\ Mine(t).work /\ ok /\ ~CommitsUserWork
                     THEN {"Autocommit"} ELSE {})
         /\ local_tran_started' = (local_tran_started /\ ~Current(t))
         /\ autocommit' = IF Current(t) /\ ok THEN TRUE ELSE autocommit
    /\ Restore(t, "Release")
    /\ Return(t)
    /\ UNCHANGED <<connected, txn_isolation, server_isolation_unknown, reset_generation,
                   database_user_name, stmtVars>>

\* switch_to_manual_commit: a transaction is opened at once.  If that fails
\* after the server began one, it is rolled back or the client is condemned.
AutocommitOff(t) ==
    /\ At(t, "Autocommit", "Held") /\ call[t].arg = FALSE
    /\ \E ok \in BOOLEAN, c \in Sessions :
         /\ c \in IF Mine(t).txn THEN {Mine(t)}
                  ELSE IF ok THEN Completes(Mine(t), Begun(Mine(t)))
                  ELSE {Mine(t), Killed(Mine(t)), Killed(Begun(Mine(t)))}
         /\ Mine(t).txn => ok
         /\ ClientBecomes(t, c)
         /\ lost' = lost \cup LostWith(t, c)
         /\ autocommit' = IF Current(t) /\ ok THEN FALSE ELSE autocommit
         /\ local_tran_started' = (local_tran_started /\ ~(Current(t) /\ ok))
    /\ Restore(t, "Release")
    /\ Return(t)
    /\ UNCHANGED <<connected, txn_isolation, server_isolation_unknown, reset_generation,
                   database_user_name, stmtVars>>

---------------------------------------------------------------------------
(* SQL_ATTR_TXN_ISOLATION: set_txn_isolation.                              *)

\* The same-value short circuit.
TrustsCache(level) == level = txn_isolation /\ ~server_isolation_unknown

\* Mutation: the parked client is asked for its transaction instead of the flag.
IsolationByClient == ~(wire_client # 0 /\ session[wire_client].txn)

\* A transaction with user work refuses the change (HY011).
IsolationAllowed == ~local_tran_started

SetIsolation(t, level) ==
    /\ MayCall(t, "Isolation") /\ ~TrustsCache(level) /\ IsolationAllowed
    /\ IF connected
       THEN Enter(t, "Isolation", "Claim", level, FALSE, reset_generation)
            /\ UNCHANGED txn_isolation
       ELSE txn_isolation' = level /\ UNCHANGED call
    /\ UNCHANGED <<wireVars, connected, autocommit, server_isolation_unknown,
                   local_tran_started, reset_generation, database_user_name, stmtVars,
                   session, lost>>

IsolationClaim(t) == At(t, "Isolation", "Claim") /\ (ClaimDbcClient(t) \/ ClaimRefused(t))

\* settle_isolation_invalidation: only if no reset was armed meanwhile.
Settles(t) == reset_generation = call[t].gen

SetOn(c, level) == [c EXCEPT !.level = level, !.synced = TRUE, !.strayed = FALSE]

\* The transaction found open is taken for an empty one of the driver's: rolled
\* back, and begun again after the SET.  Any of the three may fail, before or
\* after the server did what it asks.
IsolationFinish(t) ==
    /\ At(t, "Isolation", "Held")
    /\ LET c == Mine(t)
           rolled == Ended(c)
           set == SetOn(rolled, call[t].arg)
           done == [set EXCEPT !.txn = c.txn]
       IN \E ok \in BOOLEAN, d \in Sessions :
            /\ d \in IF ok THEN Completes(c, done)
                     ELSE {c, Killed(c)} \cup
                          IF c.dead THEN {}
                          ELSE {rolled, set, done, Killed(rolled), Killed(set), Killed(done)}
            /\ ClientBecomes(t, d)
            /\ lost' = lost \cup LostWith(t, d) \cup
                       (IF c.work /\ ~d.work /\ ~d.dead THEN {"Isolation"} ELSE {})
            /\ IF Current(t)
               THEN /\ txn_isolation' = call[t].arg
                    /\ server_isolation_unknown' =
                         IF ~ok THEN TRUE
                         ELSE server_isolation_unknown /\ ~Settles(t)
               ELSE UNCHANGED <<txn_isolation, server_isolation_unknown>>
    /\ Restore(t, "Release")
    /\ Return(t)
    /\ UNCHANGED <<connected, autocommit, local_tran_started, reset_generation,
                   database_user_name, stmtVars>>

---------------------------------------------------------------------------
(* SQL_ATTR_RESET_CONNECTION: reset_connection.                            *)

\* The caches are invalidated and the flag is read before the sweep.
ResetEnter(t) ==
    /\ MayCall(t, "Reset") /\ reset_generation < MaxResets
    /\ server_isolation_unknown' = TRUE /\ database_user_name' = NoName
    /\ Enter(t, "Reset", "Sweep", TRUE, local_tran_started, 0)
    /\ UNCHANGED <<wireVars, connected, autocommit, txn_isolation, local_tran_started,
                   reset_generation, stmtVars, session, lost>>

ResetClaim(t) ==
    /\ Swept(t, "Reset") /\ ~call[t].bad
    /\ ClaimDbcClient(t) \/ ClaimRefused(t)

\* The principal may change with the reset: the cached name goes again.
NameAfterReset == NoName

\* The invalidation is made again when the arm is recorded.
UnknownAfterReset == TRUE

\* Roll known user work back, then arm.  The reset discards whatever
\* transaction is left before the carrying request runs.
ResetArm(t) ==
    /\ At(t, "Reset", "Held") /\ reset_generation < MaxResets
    /\ (call[t].seen /\ Mine(t).txn) => ~Mine(t).dead
    /\ ClientBecomes(t, [Ended(Mine(t)) EXCEPT !.synced = FALSE])
    /\ IF Current(t)
       THEN /\ local_tran_started' = FALSE
            /\ database_user_name' = NameAfterReset
            /\ server_isolation_unknown' = UnknownAfterReset
            /\ reset_generation' = reset_generation + 1
       ELSE UNCHANGED <<local_tran_started, database_user_name, server_isolation_unknown,
                        reset_generation>>
    /\ Restore(t, "Release")
    /\ Return(t)
    /\ UNCHANGED <<connected, autocommit, txn_isolation, stmtVars, lost>>

\* The rollback fails: the client is condemned and nothing is armed.
ResetFails(t) ==
    /\ At(t, "Reset", "Held") /\ call[t].seen /\ Mine(t).txn
    /\ ClientBecomes(t, Killed(Mine(t)))
    /\ Restore(t, "Release")
    /\ Return(t)
    /\ UNCHANGED <<dbcVars, stmtVars, lost>>

---------------------------------------------------------------------------
(* SQLGetInfo(SQL_USER_NAME): database_user_name and publish_lookup.       *)

LookupClaim(t) ==
    /\ MayCall(t, "UserName") /\ connected /\ database_user_name = NoName
    /\ Claim(t, Connection, "IdleOnly")
    /\ Enter(t, "UserName", "Held", TRUE, FALSE, sessions)
    /\ UNCHANGED <<dbcVars, stmtVars, session, lost>>

\* Mutation: the answer is cached whatever session it came from.
PublishesAnyway(t) == connected

\* The answer is kept only for the session it was asked of.
Publishes(t) == connected /\ sessions = call[t].gen

LookupPublish(t, answered) ==
    /\ At(t, "UserName", "Held")
    /\ answered => ~Mine(t).dead
    /\ ClientBecomes(t, Mine(t))
    /\ Restore(t, "Release")
    /\ database_user_name' = IF Publishes(t) /\ answered
                             THEN [session |-> held[t].session, resets |-> reset_generation]
                             ELSE database_user_name
    /\ lost' = lost \cup LostWith(t, Mine(t))
    /\ Return(t)
    /\ UNCHANGED <<connected, autocommit, txn_isolation, server_isolation_unknown,
                   local_tran_started, reset_generation, stmtVars>>

---------------------------------------------------------------------------
(* SQLDisconnect and SQLDriverConnect.                                     *)

\* A transaction with user work refuses the disconnect (25000).
DisconnectAllowed == ~local_tran_started

Disconnect(t) ==
    /\ MayCall(t, "Disconnect") /\ connected /\ DisconnectAllowed
    /\ Enter(t, "Disconnect", "Sweep", TRUE, FALSE, 0)
    /\ UNCHANGED <<wireVars, dbcVars, stmtVars, session, lost>>

\* rollback_before_disconnect: best effort, skipped if a cursor would not close
\* or another call has the wire.
DisconnectClaim(t) ==
    /\ Swept(t, "Disconnect")
    /\ \/ /\ ~call[t].bad /\ Claim(t, Connection, "IdleOnly")
          /\ Goto(t, "Held")
       \/ /\ call[t].bad \/ ~CanClaim(Connection, "IdleOnly")
          /\ Goto(t, "Free")
          /\ UNCHANGED wireVars
    /\ UNCHANGED <<dbcVars, stmtVars, session, lost>>

DisconnectRollback(t) ==
    /\ At(t, "Disconnect", "Held")
    /\ \E c \in IF Mine(t).txn
                THEN Completes(Mine(t), Ended(Mine(t))) \cup {Mine(t), Killed(Mine(t))}
                ELSE {Mine(t)} :
         /\ ClientBecomes(t, c)
         /\ lost' = lost \cup LostWith(t, c) \cup
                    (IF Mine(t).work /\ ~c.work /\ ~c.dead THEN {"Disconnect"} ELSE {})
    /\ Restore(t, "Release")
    /\ Goto(t, "Free")
    /\ UNCHANGED <<dbcVars, stmtVars>>

\* No call is using a statement of this connection.
StatementsUnused ==
    /\ \A s \in Stmts : operation[s] = NoThread
    /\ \A t \in Threads : call[t].todo = {}

\* clear_session: the client, the reservation and the caches go; a lease still
\* out becomes stale.  The attributes and local_tran_started stay.
ClearSession ==
    /\ Uninstall
    /\ connected' = FALSE /\ database_user_name' = NoName
    /\ lost' = lost \cup (IF wire_client # 0 /\ session[wire_client].work
                          THEN {"Disconnect"} ELSE {})

DisconnectFree(t) ==
    /\ At(t, "Disconnect", "Free") /\ StatementsUnused
    /\ ClearSession
    /\ cursor' = [s \in Stmts |-> "Closed"]
    /\ Return(t)
    /\ UNCHANGED <<autocommit, txn_isolation, server_isolation_unknown, local_tran_started,
                   reset_generation, operation, session>>

\* SQLDriverConnectW under the mutex: the new session is published.
Connect(t) ==
    /\ MayCall(t, "Connect") /\ ~connected
    /\ Install
    /\ connected' = TRUE /\ database_user_name' = NoName
    /\ Enter(t, "Connect", "Post", TRUE, FALSE, 0)
    /\ UNCHANGED <<autocommit, txn_isolation, server_isolation_unknown, local_tran_started,
                   reset_generation, stmtVars, session, lost>>

\* apply_post_connect_txn_settings: a login with default settings needs
\* nothing, and the isolation cache agrees with it.
PostConnectDefault(t) ==
    /\ At(t, "Connect", "Post") /\ autocommit /\ txn_isolation = ReadCommitted
    /\ Goto(t, "Mark")
    /\ UNCHANGED <<wireVars, dbcVars, stmtVars, session, lost>>

MarkServerIsolationKnown(t) ==
    /\ At(t, "Connect", "Mark")
    /\ server_isolation_unknown' = FALSE
    /\ Return(t)
    /\ UNCHANGED <<wireVars, connected, autocommit, txn_isolation, local_tran_started,
                   reset_generation, database_user_name, stmtVars, session, lost>>

PostConnectClaim(t) ==
    /\ At(t, "Connect", "Post") /\ ~(autocommit /\ txn_isolation = ReadCommitted)
    /\ \/ /\ connected /\ Claim(t, Connection, "IdleOnly")
          /\ call' = [call EXCEPT ![t].pc = "Held", ![t].arg = txn_isolation,
                                  ![t].seen = ~autocommit]
          /\ UNCHANGED <<dbcVars, stmtVars, session, lost>>
       \/ ClaimRefused(t)

\* Mutation: the cache is trusted although the SET failed.
UnknownOncePosted(applied) == FALSE
UnknownAfterPost(applied) == ~applied

\* The SET and the BEGIN the attributes call for; either may fail although the
\* server did it.  A failure with a dead client fails the connect and clears the
\* session again.
PostConnectFinish(t) ==
    /\ At(t, "Connect", "Held")
    /\ \E applied, begun \in BOOLEAN, c, d \in Sessions :
         LET tried == call[t].seen /\ ~c.dead /\ ~c.txn IN
         /\ applied \/ call[t].arg # ReadCommitted
         /\ c \in IF call[t].arg = ReadCommitted THEN {Mine(t)}
                  ELSE IF applied THEN Completes(Mine(t), SetOn(Mine(t), call[t].arg))
                  ELSE {Mine(t), SetOn(Mine(t), call[t].arg), Killed(Mine(t))}
         /\ d \in IF ~tried THEN {c} ELSE IF begun THEN {Begun(c)}
                  ELSE {c, Begun(c), Killed(c), Killed(Begun(c))}
         /\ ClientBecomes(t, d)
         /\ IF Current(t) /\ d.dead /\ (~applied \/ (tried /\ ~begun))
            THEN /\ held' = [held EXCEPT ![t] = NoLease]
                 /\ wire_client' = 0 /\ wire_owner' = NoOwner /\ wire_lease' = 0
                 /\ connected' = FALSE /\ database_user_name' = NoName
                 /\ UNCHANGED sessions
            ELSE Restore(t, "Release") /\ UNCHANGED <<connected, database_user_name>>
         /\ server_isolation_unknown' = IF Current(t) THEN UnknownAfterPost(applied)
                                        ELSE server_isolation_unknown
         /\ lost' = lost \cup LostWith(t, d)
    /\ Return(t)
    /\ UNCHANGED <<autocommit, txn_isolation, local_tran_started, reset_generation, stmtVars>>

---------------------------------------------------------------------------
Statement(t) ==
    \/ \E s \in Stmts : ExecClaim(t, s) \/ FetchClaim(t, s) \/ CloseCursor(t, s)
    \/ ExecBegin(t) \/ ExecBeginFails(t) \/ ExecFails(t)
    \/ \E left \in {"Closed", "Rows", "Drained"} : ExecFinish(t, left) \/ FetchFinish(t, left)
    \/ CloseReturns(t)

Sweep(t) ==
    \/ \E s \in Stmts : SweepSkip(t, s) \/ SweepClaim(t, s) \/ SweepBusy(t, s)
    \/ \E ok \in BOOLEAN : SweepDrain(t, ok)
    \/ SweepFailed(t)

Transaction(t) ==
    \/ EndTran(t) \/ EndTranNothing(t) \/ EndTranClaim(t) \/ EndTranFinish(t)
    \/ \E enable \in BOOLEAN : SetAutocommit(t, enable)
    \/ AutocommitClaim(t) \/ AutocommitOn(t) \/ AutocommitOff(t)
    \/ \E level \in Levels : SetIsolation(t, level)
    \/ IsolationClaim(t) \/ IsolationFinish(t)

Recycle(t) ==
    \/ ResetEnter(t) \/ ResetClaim(t) \/ ResetArm(t) \/ ResetFails(t)
    \/ LookupClaim(t)
    \/ \E answered \in BOOLEAN : LookupPublish(t, answered)

Life(t) ==
    \/ Disconnect(t) \/ DisconnectClaim(t) \/ DisconnectRollback(t) \/ DisconnectFree(t)
    \/ Connect(t) \/ PostConnectDefault(t) \/ MarkServerIsolationKnown(t)
    \/ PostConnectClaim(t) \/ PostConnectFinish(t)

Next == \E t \in Threads :
            Statement(t) \/ Sweep(t) \/ Transaction(t) \/ Recycle(t) \/ Life(t)

Spec == Init /\ [][Next]_vars

---------------------------------------------------------------------------
(* Properties.                                                             *)

\* A cursor with rows left has the wire reserved: otherwise its next fetch
\* would report the end of the rows (SQLFetchScroll answers SQL_NO_DATA when
\* the wire has no statement owner).  And a reservation is always that of a
\* cursor with rows left or of a call in progress: any other one would lock
\* every call out of the connection for good.
ReservationIsCursor ==
    /\ \A s \in Stmts : cursor[s] = "Rows" => wire_owner = s
    /\ \A s \in Stmts : wire_owner = s /\ wire_lease = 0 => cursor[s] = "Rows"

\* local_tran_started "may be uncommitted user work": in manual-commit mode a
\* transaction with user work is never open without the flag, so SQLEndTran
\* cannot report success without ending it.
WorkIsFlagged ==
    (~autocommit /\ wire_client # 0 /\ session[wire_client].work) => local_tran_started

\* A call that reads local_tran_started clear goes by it: SQLEndTran answers
\* success without a request, SQL_ATTR_TXN_ISOLATION and SQLDisconnect go on to
\* roll back.  It reads it clear only if no user work is open, whoever has the
\* client leased, so all they can pass over or discard is the work of statements
\* that run while they do.
ClearFlagMeansNoWork ==
    [][\A t \in Threads :
         (connected /\ Idle(t) /\ call'[t].op \in {"EndTran", "Isolation", "Disconnect"}
            /\ ~call'[t].seen)
         => ~session[sessions].work]_vars

\* set_txn_isolation rolls back only an empty transaction ("Rolling back loses
\* nothing because there is nothing in it").
IsolationKeepsWork == "Isolation" \notin lost

\* switch_to_autocommit rolls back only a transaction without user work.
AutocommitKeepsWork == "Autocommit" \notin lost

\* SQLDisconnect refuses to end a transaction that holds user work.
DisconnectKeepsWork == "Disconnect" \notin lost

\* When the isolation cache is trusted, a SET or the login has fixed the level
\* since the last reset was armed, and the server is at the cached level unless
\* a statement changed it since.
IsolationCacheSound ==
    (connected /\ wire_client # 0 /\ ~server_isolation_unknown
       /\ \A t \in Threads : call[t].op # "Connect") =>
        LET c == session[wire_client]
        IN c.dead \/ (c.synced /\ (c.strayed \/ c.level = txn_isolation))

\* A cached database user was read in the session now on the handle, after its
\* last completed reset: no borrower is told another's principal.
UserNameFresh ==
    database_user_name # NoName =>
        database_user_name = [session |-> sessions, resets |-> reset_generation]
=============================================================================
