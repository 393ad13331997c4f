------------------------ MODULE OdbcConnection_proofs ------------------------
(***************************************************************************)
(* The calls on one ODBC connection, for any number of threads, statements, *)
(* sessions and resets.  First the control: whatever a call does, the wire *)
(* moves as in ConnectionWire, a statement's guard goes with its lease and *)
(* a cursor with rows left has the wire reserved.  Then what is cached of  *)
(* the session: the database user, the user work behind local_tran_started *)
(* and the isolation level.                                                *)
(***************************************************************************)
EXTENDS OdbcConnection, ConnectionWire_proofs

\* One step of the call of thread t.
Step(t) == Statement(t) \/ Sweep(t) \/ Transaction(t) \/ Recycle(t) \/ Life(t)

---------------------------------------------------------------------------
(* Calls, leases and statements.                                           *)

\* Where in a call its thread has the client, where on behalf of a statement,
\* and where the cursor of that statement is closed.
HoldPoints == {"Held", "Begun", "Drain"}
OfStatement(r) == r.pc = "Drain" \/ r.op \in {"Exec", "Fetch"}
OfClosed(r) == r.pc = "Drain" \/ r.op = "Exec"

\* Which places each function has.
Placed(r) ==
    \/ r.op = "None" /\ r.pc = "None"
    \/ r.op = "Exec" /\ r.pc \in {"Held", "Begun"}
    \/ r.op \in {"Fetch", "UserName"} /\ r.pc = "Held"
    \/ r.op = "Close" /\ r.pc \in {"Sweep", "Drain"}
    \/ r.op \in {"EndTran", "Autocommit", "Reset"} /\ r.pc \in {"Sweep", "Drain", "Held"}
    \/ r.op = "Isolation" /\ r.pc \in {"Claim", "Held"}
    \/ r.op = "Disconnect" /\ r.pc \in {"Sweep", "Drain", "Held", "Free"}
    \/ r.op = "Connect" /\ r.pc \in {"Post", "Held", "Mark"}

\* The record of a call makes sense.
Shape(r) ==
    /\ Placed(r)
    /\ r.stmt \in Stmts <=> OfStatement(r)
    /\ r.op = "Isolation" => r.arg \in Levels
    /\ r.op = "Autocommit" => r.arg \in BOOLEAN
    /\ r.op = "Connect" /\ r.pc = "Held" => r.arg \in Levels

\* A call has a lease exactly at its hold points, for its statement or for the
\* connection, and a lookup remembers the session it asks.
CallInv ==
    \A t \in Threads :
        /\ Shape(call[t])
        /\ Holding(t) <=> call[t].pc \in HoldPoints
        /\ Holding(t) => held[t].owner = IF OfStatement(call[t]) THEN call[t].stmt
                                         ELSE Connection
        /\ call[t].op = "UserName" => call[t].gen = held[t].session

\* The guard of a statement is with the call that has its lease, and such a
\* lease is never stale: SQLDisconnect waits for the statements.
OperationInv ==
    /\ \A s \in Stmts : operation[s] # NoThread =>
            /\ OfStatement(call[operation[s]]) /\ call[operation[s]].stmt = s
            /\ Current(operation[s])
    /\ \A t \in Threads : OfStatement(call[t]) => operation[call[t].stmt] = t

\* The cursor of an execution, and one that is being drained, is closed.
ClosedInv == \A t \in Threads : OfClosed(call[t]) => cursor[call[t].stmt] = "Closed"

\* The control: calls, guards, cursors and reservations.
ControlInv == CallInv /\ OperationInv /\ ClosedInv /\ ReservationIsCursor

---------------------------------------------------------------------------
(* What a step may do to the wire and to the statements.                   *)

\* The step is t's: no other call moves.
Moves(t) ==
    /\ call' \in [Threads -> CallRecords]
    /\ \A u \in Threads : u # t => call'[u] = call[u]
    /\ Shape(call'[t])

\* Nothing of the wire changes hands.
Stays(t) ==
    /\ UNCHANGED <<wireVars, operation>>
    /\ call'[t].stmt = call[t].stmt
    /\ call'[t].pc \in HoldPoints <=> call[t].pc \in HoldPoints
    /\ OfStatement(call'[t]) <=> OfStatement(call[t])
    /\ OfClosed(call'[t]) => OfClosed(call[t])
    /\ call'[t].op # "UserName"
    /\ \/ UNCHANGED cursor
       \/ \E s \in Stmts : /\ cursor' = [cursor EXCEPT ![s] = "Closed"]
                           /\ ~CanClaim(s, "IdleOrOwn")

\* A statement's claim, and one of the connection itself.
TakesFor(t, s) ==
    /\ Claim(t, s, "IdleOrOwn") /\ FreeStatement(s)
    /\ operation' = [operation EXCEPT ![s] = t]
    /\ ~OfStatement(call[t])
    /\ OfStatement(call'[t]) /\ call'[t].stmt = s /\ call'[t].pc \in {"Held", "Drain"}
    /\ cursor' = cursor \/ cursor' = [cursor EXCEPT ![s] = "Closed"]
    /\ OfClosed(call'[t]) => cursor'[s] = "Closed"
    /\ call'[t].op # "UserName"

Takes(t) ==
    /\ Claim(t, Connection, "IdleOnly") /\ UNCHANGED stmtVars
    /\ ~OfStatement(call[t]) /\ ~OfStatement(call'[t])
    /\ call'[t].pc = "Held"
    /\ call'[t].op = "UserName" => call'[t].gen = sessions

\* The ways back: the statement keeps its rows pending, or does not.
GivesFor(t) ==
    /\ OfStatement(call[t]) /\ ~OfStatement(call'[t]) /\ call'[t].pc \notin HoldPoints
    /\ operation' = [operation EXCEPT ![call[t].stmt] = NoThread]
    /\ \/ /\ Restore(t, "KeepReservation")
          /\ cursor' = [cursor EXCEPT ![call[t].stmt] = "Rows"]
       \/ /\ Restore(t, "Release")
          /\ \/ OfClosed(call[t]) /\ UNCHANGED cursor
             \/ cursor' = [cursor EXCEPT ![call[t].stmt] = "Closed"]
             \/ cursor' = [cursor EXCEPT ![call[t].stmt] = "Drained"]
    /\ call'[t].op # "UserName"

\* A connect whose client died in its own hands clears the session: the return
\* and the teardown are one critical section.
DropClient(t) ==
    /\ Holding(t) /\ Current(t)
    /\ held' = [held EXCEPT ![t] = NoLease]
    /\ wire_client' = 0 /\ wire_owner' = NoOwner /\ wire_lease' = 0
    /\ UNCHANGED sessions

Gives(t) ==
    /\ Restore(t, "Release") \/ (DropClient(t) /\ call[t].op = "Connect")
    /\ UNCHANGED stmtVars
    /\ ~OfStatement(call[t]) /\ ~OfStatement(call'[t]) /\ call'[t].pc \notin HoldPoints
    /\ call'[t].op # "UserName"

\* SQLDisconnect and SQLDriverConnect.
Frees(t) ==
    /\ Uninstall /\ StatementsUnused
    /\ cursor' = [s \in Stmts |-> "Closed"] /\ UNCHANGED operation
    /\ call[t].op = "Disconnect" /\ call[t].pc \notin HoldPoints
    /\ call'[t] = NoCall

Installs(t) ==
    /\ Install /\ UNCHANGED stmtVars
    /\ call[t].op = "None"
    /\ call'[t].op = "Connect" /\ call'[t].pc = "Post"

\* Every step is one of these.
Handles(t) ==
    \/ Stays(t) \/ Takes(t) \/ GivesFor(t) \/ Gives(t) \/ Frees(t) \/ Installs(t)
    \/ \E s \in Stmts : TakesFor(t, s)

\* The records of calls.
LEMMA NoCallType ==
    /\ NoCall \in CallRecords /\ Shape(NoCall)
    /\ NoCall.op = "None" /\ NoCall.pc = "None" /\ NoCall.stmt = NoOwner /\ NoCall.todo = {}
  <1>1. NoCall \in CallRecords
    BY LevelsAssumption, ResetsAssumption, MaxSessionsAssumption DEF NoCall, CallRecords
  <1> QED
    BY <1>1, OwnersAssumption DEF NoCall, Shape, Placed, OfStatement

\* A call that returns, and one that goes on to another place.
LEMMA ReturnFacts ==
    ASSUME NEW t \in Threads, call \in [Threads -> CallRecords], Return(t)
    PROVE  Moves(t) /\ call'[t] = NoCall
  BY NoCallType DEF Return, Moves

\* A call moves on to another place, and is otherwise as it was.
LEMMA GotoFacts ==
    ASSUME NEW t \in Threads, call \in [Threads -> CallRecords],
           NEW pc \in {"Sweep", "Held", "Begun", "Free", "Mark"}, Goto(t, pc)
    PROVE  /\ call' \in [Threads -> CallRecords]
           /\ \A u \in Threads : u # t => call'[u] = call[u]
           /\ call'[t] = [call[t] EXCEPT !.pc = pc]
           /\ call'[t].pc = pc /\ call'[t].op = call[t].op /\ call'[t].stmt = call[t].stmt
           /\ call'[t].arg = call[t].arg /\ call'[t].gen = call[t].gen
           /\ call'[t].seen = call[t].seen
  <1>1. [call[t] EXCEPT !.pc = pc] \in CallRecords
    BY DEF CallRecords
  <1>2. call' = [call EXCEPT ![t] = [call[t] EXCEPT !.pc = pc]]
    BY DEF Goto
  <1> QED
    BY <1>1, <1>2 DEF CallRecords

\* A call that has nothing of the wire may end.
LEMMA GiveUpHandles ==
    ASSUME NEW t \in Threads, call \in [Threads -> CallRecords], Shape(call[t]), GiveUp(t),
           call[t].pc \notin HoldPoints, ~OfStatement(call[t])
    PROVE  Moves(t) /\ Handles(t)
<1>1. call[t].stmt = NoOwner
  BY DEF CallRecords, Shape
<1>2. ~OfStatement(NoCall) /\ ~OfClosed(NoCall)
  BY NoCallType DEF OfStatement, OfClosed
<1>. QED
  BY <1>1, <1>2, ReturnFacts, NoCallType DEF GiveUp, Handles, Stays, stmtVars, HoldPoints

\* Every step of a call is one of these.
LEMMA StepHandles ==
    ASSUME TypeOK, CallInv, NEW t \in Threads, Step(t)
    PROVE  Moves(t) /\ Handles(t)
<1>t. /\ call \in [Threads -> CallRecords] /\ call[t] \in CallRecords /\ Shape(call[t])
      /\ call[t].stmt = NoOwner \/ OfStatement(call[t])
  BY DEF TypeOK, CallInv, Shape, CallRecords
<1>d. /\ local_tran_started \in BOOLEAN /\ autocommit \in BOOLEAN /\ txn_isolation \in Levels
      /\ reset_generation \in 0..(MaxResets + MaxSessions)
      /\ sessions \in 0..(MaxResets + MaxSessions)
      /\ 0 \in 0..(MaxResets + MaxSessions)
  BY ResetsAssumption, MaxSessionsAssumption DEF TypeOK, WireTypeOK
<1>1. ASSUME NEW s \in Stmts, ExecClaim(t, s)
      PROVE  Moves(t) /\ Handles(t)
  <2> DEFINE r == [NoCall EXCEPT !.op = "Exec", !.pc = "Held", !.stmt = s]
  <2>1. r \in CallRecords /\ r.op = "Exec" /\ r.pc = "Held" /\ r.stmt = s
    BY NoCallType DEF CallRecords, AllCalls
  <2>. HIDE DEF r
  <2>2. /\ Claim(t, s, "IdleOrOwn") /\ FreeStatement(s) /\ UNCHANGED cursor
        /\ operation' = [operation EXCEPT ![s] = t]
        /\ call' = [call EXCEPT ![t] = r] /\ call[t].op = "None"
        /\ call[t].pc = "None"
    BY <1>1, <1>t DEF ExecClaim, MayCall, Idle, Shape, Placed, r
  <2>3. r.op = "Exec" => cursor[s] = "Closed"
    BY <1>1, <2>1 DEF ExecClaim
  <2>4. call'[t] = r /\ Shape(r)
    BY <1>t, <2>1, <2>2 DEF Shape, Placed, OfStatement
  <2>5. TakesFor(t, s)
    BY <2>1, <2>2, <2>3, <2>4 DEF TakesFor, OfStatement, OfClosed, HoldPoints
  <2>. QED
    BY <1>t, <2>1, <2>2, <2>4, <2>5 DEF Moves, Handles
<1>2. ASSUME NEW s \in Stmts, FetchClaim(t, s)
      PROVE  Moves(t) /\ Handles(t)
  <2> DEFINE r == [NoCall EXCEPT !.op = "Fetch", !.pc = "Held", !.stmt = s]
  <2>1. r \in CallRecords /\ r.op = "Fetch" /\ r.pc = "Held" /\ r.stmt = s
    BY NoCallType DEF CallRecords, AllCalls
  <2>. HIDE DEF r
  <2>2. /\ Claim(t, s, "IdleOrOwn") /\ FreeStatement(s) /\ UNCHANGED cursor
        /\ operation' = [operation EXCEPT ![s] = t]
        /\ call' = [call EXCEPT ![t] = r] /\ call[t].op = "None"
        /\ call[t].pc = "None"
    BY <1>2, <1>t DEF FetchClaim, MayCall, Idle, Shape, Placed, r
  <2>3. r.op = "Exec" => cursor[s] = "Closed"
    BY <1>2, <2>1 DEF FetchClaim
  <2>4. call'[t] = r /\ Shape(r)
    BY <1>t, <2>1, <2>2 DEF Shape, Placed, OfStatement
  <2>5. TakesFor(t, s)
    BY <2>1, <2>2, <2>3, <2>4 DEF TakesFor, OfStatement, OfClosed, HoldPoints
  <2>. QED
    BY <1>t, <2>1, <2>2, <2>4, <2>5 DEF Moves, Handles
<1>3. ASSUME NEW s \in Stmts, CloseCursor(t, s)
      PROVE  Moves(t) /\ Handles(t)
  <2> DEFINE r == [NoCall EXCEPT !.op = "Close", !.pc = "Sweep", !.todo = {s}]
  <2>1. r \in CallRecords /\ r.op = "Close" /\ r.pc = "Sweep" /\ r.stmt = NoOwner
    BY NoCallType DEF CallRecords, AllCalls
  <2>. HIDE DEF r
  <2>2. /\ UNCHANGED <<wireVars, stmtVars>> /\ call[t].op = "None"
        /\ call' = [call EXCEPT ![t] = r]
    BY <1>3 DEF CloseCursor, MayCall, Idle, r
  <2>. QED
    BY <1>t, <2>1, <2>2, OwnersAssumption
       DEF Moves, Handles, Stays, stmtVars, Shape, Placed, OfStatement, OfClosed, HoldPoints
<1>4. CASE ExecBegin(t)
  <2>1. /\ Goto(t, "Begun") /\ UNCHANGED <<wireVars, stmtVars>>
        /\ call[t].op = "Exec" /\ call[t].pc = "Held"
    BY <1>4 DEF ExecBegin, At
  <2>. QED
    BY <1>t, <2>1, GotoFacts
       DEF Moves, Handles, Stays, stmtVars, Shape, Placed, OfStatement, OfClosed, HoldPoints
<1>5. CASE ExecBeginFails(t)
  <2>1. /\ Restore(t, "Release") /\ UNCHANGED cursor /\ Return(t)
        /\ operation' = [operation EXCEPT ![call[t].stmt] = NoThread]
    BY <1>5 DEF ExecBeginFails
  <2>2. call[t].op = "Exec"
    BY <1>5 DEF ExecBeginFails, At
  <2>. QED
    BY <1>t, <2>1, <2>2, ReturnFacts, NoCallType
       DEF Handles, GivesFor, OfStatement, OfClosed, HoldPoints
<1>6. CASE ExecFails(t)
  <2>1. /\ Restore(t, "Release") /\ UNCHANGED cursor /\ Return(t)
        /\ operation' = [operation EXCEPT ![call[t].stmt] = NoThread]
    BY <1>6 DEF ExecFails
  <2>2. call[t].op = "Exec"
    BY <1>6 DEF ExecFails, At
  <2>. QED
    BY <1>t, <2>1, <2>2, ReturnFacts, NoCallType
       DEF Handles, GivesFor, OfStatement, OfClosed, HoldPoints
<1>7. ASSUME NEW left \in {"Closed", "Rows", "Drained"}, ExecFinish(t, left)
      PROVE  Moves(t) /\ Handles(t)
  <2>1. /\ Restore(t, IF left = "Rows" THEN "KeepReservation" ELSE "Release") /\ Return(t)
        /\ cursor' = [cursor EXCEPT ![call[t].stmt] = left]
        /\ operation' = [operation EXCEPT ![call[t].stmt] = NoThread]
    BY <1>7 DEF ExecFinish
  <2>2. call[t].op = "Exec"
    BY <1>7 DEF ExecFinish, At
  <2>. QED
    BY <1>t, <2>1, <2>2, ReturnFacts, NoCallType DEF Handles, GivesFor, OfStatement, HoldPoints
<1>8. ASSUME NEW left \in {"Closed", "Rows", "Drained"}, FetchFinish(t, left)
      PROVE  Moves(t) /\ Handles(t)
  <2>1. /\ Restore(t, IF left = "Rows" THEN "KeepReservation" ELSE "Release") /\ Return(t)
        /\ cursor' = [cursor EXCEPT ![call[t].stmt] = left]
        /\ operation' = [operation EXCEPT ![call[t].stmt] = NoThread]
    BY <1>8 DEF FetchFinish, FetchReturn
  <2>2. call[t].op = "Fetch"
    BY <1>8 DEF FetchFinish, At
  <2>. QED
    BY <1>t, <2>1, <2>2, ReturnFacts, NoCallType DEF Handles, GivesFor, OfStatement, HoldPoints
<1>9. CASE CloseReturns(t)
  <2>1. GiveUp(t) /\ call[t].pc = "Sweep"
    BY <1>9 DEF CloseReturns, Swept, At
  <2>2. ~OfStatement(call[t])
    BY <1>t, <2>1 DEF OfStatement, Shape, Placed
  <2>. QED
    BY <1>t, <2>1, <2>2, GiveUpHandles DEF HoldPoints
<1>10. ASSUME NEW s \in Stmts, SweepSkip(t, s)
       PROVE  Moves(t) /\ Handles(t)
  <2> DEFINE r == [call[t] EXCEPT !.todo = @ \ {s}]
  <2>1. /\ r \in CallRecords /\ r.pc = call[t].pc /\ r.op = call[t].op /\ r.stmt = call[t].stmt
        /\ r.arg = call[t].arg
    BY <1>t DEF CallRecords
  <2>2. UNCHANGED <<wireVars, stmtVars>> /\ call[t].pc = "Sweep" /\ call' = [call EXCEPT ![t] = r]
    BY <1>10 DEF SweepSkip
  <2>. HIDE DEF r
  <2>. QED
    BY <1>t, <2>1, <2>2
       DEF Moves, Handles, Stays, stmtVars, Shape, Placed, OfStatement, OfClosed, HoldPoints
<1>11. ASSUME NEW s \in Stmts, SweepClaim(t, s)
       PROVE  Moves(t) /\ Handles(t)
  <2> DEFINE r == [call[t] EXCEPT !.pc = "Drain", !.stmt = s]
  <2>1. /\ r \in CallRecords /\ r.pc = "Drain" /\ r.op = call[t].op /\ r.stmt = s
        /\ r.arg = call[t].arg
    BY <1>t DEF CallRecords
  <2>2. /\ Claim(t, s, "IdleOrOwn") /\ FreeStatement(s) /\ call[t].pc = "Sweep"
        /\ cursor' = [cursor EXCEPT ![s] = "Closed"]
        /\ operation' = [operation EXCEPT ![s] = t]
        /\ call' = [call EXCEPT ![t] = r]
    BY <1>11 DEF SweepClaim
  <2>. HIDE DEF r
  <2>3. call'[t] = r /\ Shape(r) /\ ~OfStatement(call[t]) /\ r.op # "UserName"
    BY <1>t, <2>1, <2>2 DEF Shape, Placed, OfStatement
  <2>4. cursor'[s] = "Closed"
    BY <2>2 DEF TypeOK
  <2>5. TakesFor(t, s)
    BY <2>1, <2>2, <2>3, <2>4 DEF TakesFor, OfStatement, HoldPoints
  <2>. QED
    BY <1>t, <2>1, <2>2, <2>3, <2>5 DEF Moves, Handles
<1>12. ASSUME NEW s \in Stmts, SweepBusy(t, s)
       PROVE  Moves(t) /\ Handles(t)
  <2> DEFINE r == [call[t] EXCEPT !.todo = @ \ {s},
                                  !.bad = @ \/ wire_owner = s
                                            \/ (wire_lease = 0 /\ wire_owner = NoOwner)]
  <2>1. /\ r \in CallRecords /\ r.pc = call[t].pc /\ r.op = call[t].op /\ r.stmt = call[t].stmt
        /\ r.arg = call[t].arg
    BY <1>t DEF CallRecords
  <2>2. /\ UNCHANGED <<wireVars, operation>> /\ call[t].pc = "Sweep"
        /\ call' = [call EXCEPT ![t] = r]
        /\ cursor' = [cursor EXCEPT ![s] = "Closed"] /\ ~CanClaim(s, "IdleOrOwn")
    BY <1>12 DEF SweepBusy
  <2>. HIDE DEF r
  <2>. QED
    BY <1>t, <2>1, <2>2
       DEF Moves, Handles, Stays, Shape, Placed, OfStatement, OfClosed, HoldPoints
<1>13. ASSUME NEW ok \in BOOLEAN, SweepDrain(t, ok)
       PROVE  Moves(t) /\ Handles(t)
  <2> DEFINE r == [call[t] EXCEPT !.pc = "Sweep", !.todo = @ \ {call[t].stmt},
                                  !.stmt = NoOwner, !.bad = @ \/ ~ok \/ ~Current(t)]
  <2>1. /\ r \in CallRecords /\ r.pc = "Sweep" /\ r.op = call[t].op /\ r.stmt = NoOwner
        /\ r.arg = call[t].arg
    BY <1>t DEF CallRecords
  <2>2. /\ Restore(t, "Release") /\ UNCHANGED cursor /\ call[t].pc = "Drain"
        /\ operation' = [operation EXCEPT ![call[t].stmt] = NoThread]
        /\ call' = [call EXCEPT ![t] = r]
    BY <1>13 DEF SweepDrain
  <2>. HIDE DEF r
  <2>3. call'[t] = r /\ Shape(r) /\ ~OfStatement(r) /\ r.op # "UserName"
    BY <1>t, <2>1, <2>2, OwnersAssumption DEF Shape, Placed, OfStatement
  <2>4. GivesFor(t)
    BY <2>1, <2>2, <2>3 DEF GivesFor, OfStatement, OfClosed, HoldPoints
  <2>. QED
    BY <1>t, <2>1, <2>2, <2>3, <2>4 DEF Moves, Handles
<1>14. CASE SweepFailed(t)
  <2>1. GiveUp(t) /\ call[t].pc = "Sweep"
    BY <1>14 DEF SweepFailed
  <2>2. ~OfStatement(call[t])
    BY <1>t, <2>1 DEF OfStatement, Shape, Placed
  <2>. QED
    BY <1>t, <2>1, <2>2, GiveUpHandles DEF HoldPoints
<1>15. CASE EndTran(t)
  <2>1. Enter(t, "EndTran", "Sweep", TRUE, local_tran_started, 0)
    BY <1>15 DEF EndTran
  <2>2. /\ call'[t].pc = "Sweep" /\ call'[t].op = "EndTran" /\ call'[t].stmt = NoOwner
        /\ call'[t].arg = TRUE
        /\ call' \in [Threads -> CallRecords] /\ \A u \in Threads : u # t => call'[u] = call[u]
    BY <1>t, <1>d, <2>1 DEF Enter, CallRecords, AllCalls
  <2>3. call[t].op = "None"
    BY <1>15 DEF EndTran, MayCall, Idle
  <2>. QED
    BY <1>15, <1>t, <2>2, <2>3, OwnersAssumption
       DEF EndTran, Moves, Handles, Stays, stmtVars, Shape, Placed, OfStatement, OfClosed,
           HoldPoints
<1>16. CASE EndTranNothing(t)
  <2>1. GiveUp(t) /\ call[t].pc = "Sweep"
    BY <1>16 DEF EndTranNothing, Swept, At
  <2>2. ~OfStatement(call[t])
    BY <1>t, <2>1 DEF OfStatement, Shape, Placed
  <2>. QED
    BY <1>t, <2>1, <2>2, GiveUpHandles DEF HoldPoints
<1>17. CASE EndTranClaim(t)
  <2>1. CASE ClaimDbcClient(t)
    <3>1. /\ Claim(t, Connection, "IdleOnly") /\ UNCHANGED stmtVars
          /\ call'[t].op = "EndTran" /\ call'[t].pc = "Held" /\ call'[t].stmt = call[t].stmt
          /\ call'[t].arg = call[t].arg
          /\ call' \in [Threads -> CallRecords] /\ \A u \in Threads : u # t => call'[u] = call[u]
      BY <1>17, <1>t, <2>1, GotoFacts DEF EndTranClaim, ClaimDbcClient, At, Swept
    <3>2. call[t].op = "EndTran" /\ call[t].pc \in {"Sweep", "Claim"}
      BY <1>17 DEF EndTranClaim, At, Swept
    <3>. QED
      BY <1>t, <3>1, <3>2 DEF Moves, Handles, Takes, Shape, Placed, OfStatement, HoldPoints
  <2>2. CASE ClaimRefused(t)
    <3>1. GiveUp(t) /\ call[t].op = "EndTran" /\ call[t].pc \in {"Sweep", "Claim"}
      BY <1>17, <2>2 DEF EndTranClaim, ClaimRefused, At, Swept
    <3>. QED
      BY <1>t, <3>1, GiveUpHandles DEF HoldPoints, OfStatement
  <2>. QED
    BY <1>17, <2>1, <2>2 DEF EndTranClaim
<1>18. CASE EndTranFinish(t)
  <2>1. Restore(t, "Release") /\ UNCHANGED stmtVars /\ Return(t)
    BY <1>18 DEF EndTranFinish, stmtVars
  <2>2. call[t].op = "EndTran" /\ call[t].pc = "Held"
    BY <1>18 DEF EndTranFinish, At
  <2>. QED
    BY <1>t, <2>1, <2>2, ReturnFacts, NoCallType DEF Handles, Gives, OfStatement, HoldPoints
<1>19. ASSUME NEW enable \in BOOLEAN, SetAutocommit(t, enable)
       PROVE  Moves(t) /\ Handles(t)
  <2>1. CASE connected
    <3>1. Enter(t, "Autocommit", "Sweep", enable, FALSE, 0)
      BY <1>19, <2>1 DEF SetAutocommit
    <3>2. /\ call'[t].pc = "Sweep" /\ call'[t].op = "Autocommit" /\ call'[t].stmt = NoOwner
          /\ call'[t].arg = enable /\ call' \in [Threads -> CallRecords]
          /\ \A u \in Threads : u # t => call'[u] = call[u]
      BY <1>t, <1>d, <3>1 DEF Enter, CallRecords, AllCalls
    <3>. QED
      BY <1>19, <1>t, <3>2, OwnersAssumption
         DEF SetAutocommit, MayCall, Idle, Moves, Handles, Stays, stmtVars, Shape, Placed,
             OfStatement, OfClosed, HoldPoints
  <2>2. CASE ~connected
    BY <1>19, <1>t, <2>2 DEF SetAutocommit, MayCall, Idle, Moves, Handles, Stays, stmtVars
  <2>. QED
    BY <2>1, <2>2
<1>20. CASE AutocommitClaim(t)
  <2>1. CASE ClaimDbcClient(t)
    <3>1. /\ Claim(t, Connection, "IdleOnly") /\ UNCHANGED stmtVars
          /\ call'[t].op = "Autocommit" /\ call'[t].pc = "Held" /\ call'[t].stmt = call[t].stmt
          /\ call'[t].arg = call[t].arg
          /\ call' \in [Threads -> CallRecords] /\ \A u \in Threads : u # t => call'[u] = call[u]
      BY <1>20, <1>t, <2>1, GotoFacts DEF AutocommitClaim, ClaimDbcClient, At, Swept
    <3>2. call[t].op = "Autocommit" /\ call[t].pc \in {"Sweep", "Claim"}
      BY <1>20 DEF AutocommitClaim, At, Swept
    <3>. QED
      BY <1>t, <3>1, <3>2 DEF Moves, Handles, Takes, Shape, Placed, OfStatement, HoldPoints
  <2>2. CASE ClaimRefused(t)
    <3>1. GiveUp(t) /\ call[t].op = "Autocommit" /\ call[t].pc \in {"Sweep", "Claim"}
      BY <1>20, <2>2 DEF AutocommitClaim, ClaimRefused, At, Swept
    <3>. QED
      BY <1>t, <3>1, GiveUpHandles DEF HoldPoints, OfStatement
  <2>. QED
    BY <1>20, <2>1, <2>2 DEF AutocommitClaim
<1>21. CASE AutocommitOn(t)
  <2>1. Restore(t, "Release") /\ UNCHANGED stmtVars /\ Return(t)
    BY <1>21 DEF AutocommitOn, stmtVars
  <2>2. call[t].op = "Autocommit" /\ call[t].pc = "Held"
    BY <1>21 DEF AutocommitOn, At
  <2>. QED
    BY <1>t, <2>1, <2>2, ReturnFacts, NoCallType DEF Handles, Gives, OfStatement, HoldPoints
<1>22. CASE AutocommitOff(t)
  <2>1. Restore(t, "Release") /\ UNCHANGED stmtVars /\ Return(t)
    BY <1>22 DEF AutocommitOff, stmtVars
  <2>2. call[t].op = "Autocommit" /\ call[t].pc = "Held"
    BY <1>22 DEF AutocommitOff, At
  <2>. QED
    BY <1>t, <2>1, <2>2, ReturnFacts, NoCallType DEF Handles, Gives, OfStatement, HoldPoints
<1>23. ASSUME NEW level \in Levels, SetIsolation(t, level)
       PROVE  Moves(t) /\ Handles(t)
  <2>1. CASE connected
    <3>1. Enter(t, "Isolation", "Claim", level, FALSE, reset_generation)
      BY <1>23, <2>1 DEF SetIsolation
    <3>2. /\ call'[t].pc = "Claim" /\ call'[t].op = "Isolation" /\ call'[t].stmt = NoOwner
          /\ call'[t].arg = level /\ call' \in [Threads -> CallRecords]
          /\ \A u \in Threads : u # t => call'[u] = call[u]
      BY <1>t, <1>d, <3>1 DEF Enter, CallRecords, AllCalls
    <3>. QED
      BY <1>23, <1>t, <3>2, OwnersAssumption
         DEF SetIsolation, MayCall, Idle, Moves, Handles, Stays, stmtVars, Shape, Placed,
             OfStatement, OfClosed, HoldPoints
  <2>2. CASE ~connected
    BY <1>23, <1>t, <2>2 DEF SetIsolation, MayCall, Idle, Moves, Handles, Stays, stmtVars
  <2>. QED
    BY <2>1, <2>2
<1>24. CASE IsolationClaim(t)
  <2>1. CASE ClaimDbcClient(t)
    <3>1. /\ Claim(t, Connection, "IdleOnly") /\ UNCHANGED stmtVars
          /\ call'[t].op = "Isolation" /\ call'[t].pc = "Held" /\ call'[t].stmt = call[t].stmt
          /\ call'[t].arg = call[t].arg
          /\ call' \in [Threads -> CallRecords] /\ \A u \in Threads : u # t => call'[u] = call[u]
      BY <1>24, <1>t, <2>1, GotoFacts DEF IsolationClaim, ClaimDbcClient, At, Swept
    <3>2. call[t].op = "Isolation" /\ call[t].pc \in {"Sweep", "Claim"}
      BY <1>24 DEF IsolationClaim, At, Swept
    <3>. QED
      BY <1>t, <3>1, <3>2 DEF Moves, Handles, Takes, Shape, Placed, OfStatement, HoldPoints
  <2>2. CASE ClaimRefused(t)
    <3>1. GiveUp(t) /\ call[t].op = "Isolation" /\ call[t].pc \in {"Sweep", "Claim"}
      BY <1>24, <2>2 DEF IsolationClaim, ClaimRefused, At, Swept
    <3>. QED
      BY <1>t, <3>1, GiveUpHandles DEF HoldPoints, OfStatement
  <2>. QED
    BY <1>24, <2>1, <2>2 DEF IsolationClaim
<1>25. CASE IsolationFinish(t)
  <2>1. Restore(t, "Release") /\ UNCHANGED stmtVars /\ Return(t)
    BY <1>25 DEF IsolationFinish, stmtVars
  <2>2. call[t].op = "Isolation" /\ call[t].pc = "Held"
    BY <1>25 DEF IsolationFinish, At
  <2>. QED
    BY <1>t, <2>1, <2>2, ReturnFacts, NoCallType DEF Handles, Gives, OfStatement, HoldPoints
<1>26. CASE ResetEnter(t)
  <2>1. Enter(t, "Reset", "Sweep", TRUE, local_tran_started, 0)
    BY <1>26 DEF ResetEnter
  <2>2. /\ call'[t].pc = "Sweep" /\ call'[t].op = "Reset" /\ call'[t].stmt = NoOwner
        /\ call'[t].arg = TRUE
        /\ call' \in [Threads -> CallRecords] /\ \A u \in Threads : u # t => call'[u] = call[u]
    BY <1>t, <1>d, <2>1 DEF Enter, CallRecords, AllCalls
  <2>3. call[t].op = "None"
    BY <1>26 DEF ResetEnter, MayCall, Idle
  <2>. QED
    BY <1>26, <1>t, <2>2, <2>3, OwnersAssumption
       DEF ResetEnter, Moves, Handles, Stays, stmtVars, Shape, Placed, OfStatement, OfClosed,
           HoldPoints
<1>27. CASE ResetClaim(t)
  <2>1. CASE ClaimDbcClient(t)
    <3>1. /\ Claim(t, Connection, "IdleOnly") /\ UNCHANGED stmtVars
          /\ call'[t].op = "Reset" /\ call'[t].pc = "Held" /\ call'[t].stmt = call[t].stmt
          /\ call'[t].arg = call[t].arg
          /\ call' \in [Threads -> CallRecords] /\ \A u \in Threads : u # t => call'[u] = call[u]
      BY <1>27, <1>t, <2>1, GotoFacts DEF ResetClaim, ClaimDbcClient, At, Swept
    <3>2. call[t].op = "Reset" /\ call[t].pc \in {"Sweep", "Claim"}
      BY <1>27 DEF ResetClaim, At, Swept
    <3>. QED
      BY <1>t, <3>1, <3>2 DEF Moves, Handles, Takes, Shape, Placed, OfStatement, HoldPoints
  <2>2. CASE ClaimRefused(t)
    <3>1. GiveUp(t) /\ call[t].op = "Reset" /\ call[t].pc \in {"Sweep", "Claim"}
      BY <1>27, <2>2 DEF ResetClaim, ClaimRefused, At, Swept
    <3>. QED
      BY <1>t, <3>1, GiveUpHandles DEF HoldPoints, OfStatement
  <2>. QED
    BY <1>27, <2>1, <2>2 DEF ResetClaim
<1>28. CASE ResetArm(t)
  <2>1. Restore(t, "Release") /\ UNCHANGED stmtVars /\ Return(t)
    BY <1>28 DEF ResetArm, stmtVars
  <2>2. call[t].op = "Reset" /\ call[t].pc = "Held"
    BY <1>28 DEF ResetArm, At
  <2>. QED
    BY <1>t, <2>1, <2>2, ReturnFacts, NoCallType DEF Handles, Gives, OfStatement, HoldPoints
<1>29. CASE ResetFails(t)
  <2>1. Restore(t, "Release") /\ UNCHANGED stmtVars /\ Return(t)
    BY <1>29 DEF ResetFails, stmtVars
  <2>2. call[t].op = "Reset" /\ call[t].pc = "Held"
    BY <1>29 DEF ResetFails, At
  <2>. QED
    BY <1>t, <2>1, <2>2, ReturnFacts, NoCallType DEF Handles, Gives, OfStatement, HoldPoints
<1>30. CASE LookupClaim(t)
  <2>1. Enter(t, "UserName", "Held", TRUE, FALSE, sessions)
    BY <1>30 DEF LookupClaim
  <2>2. /\ call'[t].pc = "Held" /\ call'[t].op = "UserName" /\ call'[t].stmt = NoOwner
        /\ call'[t].gen = sessions /\ call' \in [Threads -> CallRecords]
        /\ \A u \in Threads : u # t => call'[u] = call[u]
    BY <1>t, <1>d, <2>1 DEF Enter, CallRecords, AllCalls
  <2>3. /\ call[t].op = "None" /\ call[t].pc = "None" /\ Claim(t, Connection, "IdleOnly")
        /\ UNCHANGED stmtVars
    BY <1>30, <1>t DEF LookupClaim, MayCall, Idle, Shape, Placed
  <2>. QED
    BY <1>t, <2>2, <2>3, OwnersAssumption
       DEF Moves, Handles, Takes, Shape, Placed, OfStatement, HoldPoints
<1>31. ASSUME NEW answered \in BOOLEAN, LookupPublish(t, answered)
       PROVE  Moves(t) /\ Handles(t)
  <2>1. Restore(t, "Release") /\ UNCHANGED stmtVars /\ Return(t)
    BY <1>31 DEF LookupPublish, stmtVars
  <2>2. call[t].op = "UserName" /\ call[t].pc = "Held"
    BY <1>31 DEF LookupPublish, At
  <2>. QED
    BY <1>t, <2>1, <2>2, ReturnFacts, NoCallType DEF Handles, Gives, OfStatement, HoldPoints
<1>32. CASE Disconnect(t)
  <2>1. Enter(t, "Disconnect", "Sweep", TRUE, FALSE, 0)
    BY <1>32 DEF Disconnect
  <2>2. /\ call'[t].pc = "Sweep" /\ call'[t].op = "Disconnect" /\ call'[t].stmt = NoOwner
        /\ call'[t].arg = TRUE
        /\ call' \in [Threads -> CallRecords] /\ \A u \in Threads : u # t => call'[u] = call[u]
    BY <1>t, <1>d, <2>1 DEF Enter, CallRecords, AllCalls
  <2>3. call[t].op = "None"
    BY <1>32 DEF Disconnect, MayCall, Idle
  <2>. QED
    BY <1>32, <1>t, <2>2, <2>3, OwnersAssumption
       DEF Disconnect, Moves, Handles, Stays, stmtVars, Shape, Placed, OfStatement, OfClosed,
           HoldPoints
<1>33. CASE DisconnectClaim(t)
  <2>1. call[t].op = "Disconnect" /\ call[t].pc = "Sweep" /\ UNCHANGED stmtVars
    BY <1>33 DEF DisconnectClaim, Swept, At
  <2>2. CASE Claim(t, Connection, "IdleOnly") /\ Goto(t, "Held")
    BY <1>t, <2>1, <2>2, GotoFacts
       DEF Moves, Handles, Takes, Shape, Placed, OfStatement, HoldPoints
  <2>3. CASE Goto(t, "Free") /\ UNCHANGED wireVars
    BY <1>t, <2>1, <2>3, GotoFacts
       DEF Moves, Handles, Stays, stmtVars, Shape, Placed, OfStatement, OfClosed, HoldPoints
  <2>. QED
    BY <1>33, <2>2, <2>3 DEF DisconnectClaim
<1>34. CASE DisconnectRollback(t)
  <2>1. /\ Restore(t, "Release") /\ UNCHANGED stmtVars /\ Goto(t, "Free")
        /\ call[t].op = "Disconnect" /\ call[t].pc = "Held"
    BY <1>34 DEF DisconnectRollback, At
  <2>. QED
    BY <1>t, <2>1, GotoFacts DEF Moves, Handles, Gives, Shape, Placed, OfStatement, HoldPoints
<1>35. CASE DisconnectFree(t)
  <2>1. /\ Uninstall /\ StatementsUnused /\ Return(t)
        /\ cursor' = [s \in Stmts |-> "Closed"] /\ UNCHANGED operation
        /\ call[t].op = "Disconnect" /\ call[t].pc = "Free"
    BY <1>35 DEF DisconnectFree, ClearSession, At
  <2>. QED
    BY <1>t, <2>1, ReturnFacts DEF Handles, Frees, OfStatement, HoldPoints
<1>36. CASE Connect(t)
  <2>1. Enter(t, "Connect", "Post", TRUE, FALSE, 0)
    BY <1>36 DEF Connect
  <2>2. /\ call'[t].pc = "Post" /\ call'[t].op = "Connect" /\ call'[t].stmt = NoOwner
        /\ call' \in [Threads -> CallRecords] /\ \A u \in Threads : u # t => call'[u] = call[u]
    BY <1>t, <1>d, <2>1 DEF Enter, CallRecords, AllCalls
  <2>3. call[t].op = "None" /\ Install /\ UNCHANGED stmtVars
    BY <1>36 DEF Connect, MayCall, Idle
  <2>. QED
    BY <1>t, <2>2, <2>3, OwnersAssumption DEF Moves, Handles, Installs, Shape, Placed, OfStatement
<1>37. CASE PostConnectDefault(t)
  <2>1. /\ UNCHANGED <<wireVars, stmtVars>> /\ Goto(t, "Mark")
        /\ call[t].op = "Connect" /\ call[t].pc = "Post"
    BY <1>37 DEF PostConnectDefault, At
  <2>. QED
    BY <1>t, <2>1, GotoFacts
       DEF Moves, Handles, Stays, stmtVars, Shape, Placed, OfStatement, OfClosed, HoldPoints
<1>38. CASE MarkServerIsolationKnown(t)
  <2>1. /\ UNCHANGED <<wireVars, stmtVars>> /\ Return(t)
        /\ call[t].op = "Connect" /\ call[t].pc = "Mark"
    BY <1>38 DEF MarkServerIsolationKnown, At
  <2>. QED
    BY <1>t, <2>1, ReturnFacts, NoCallType
       DEF Handles, Stays, stmtVars, Shape, OfStatement, OfClosed, HoldPoints, CallRecords
<1>39. CASE PostConnectClaim(t)
  <2>1. call[t].op = "Connect" /\ call[t].pc = "Post"
    BY <1>39 DEF PostConnectClaim, At
  <2>2. CASE ClaimRefused(t)
    BY <1>t, <2>1, <2>2, GiveUpHandles DEF ClaimRefused, HoldPoints, OfStatement
  <2>3. CASE ~ClaimRefused(t)
    <3> DEFINE r == [call[t] EXCEPT !.pc = "Held", !.arg = txn_isolation, !.seen = ~autocommit]
    <3>1. /\ r \in CallRecords /\ r.pc = "Held" /\ r.op = call[t].op /\ r.stmt = call[t].stmt
          /\ r.arg = txn_isolation
      BY <1>t, <1>d DEF CallRecords
    <3>2. /\ Claim(t, Connection, "IdleOnly") /\ call' = [call EXCEPT ![t] = r]
          /\ UNCHANGED stmtVars
      BY <1>39, <2>3 DEF PostConnectClaim
    <3>. HIDE DEF r
    <3>. QED
      BY <1>t, <1>d, <2>1, <3>1, <3>2
         DEF Moves, Handles, Takes, Shape, Placed, OfStatement, HoldPoints
  <2>. QED
    BY <2>2, <2>3
<1>40. CASE PostConnectFinish(t)
  <2>1. /\ Return(t) /\ UNCHANGED stmtVars /\ call[t].op = "Connect" /\ call[t].pc = "Held"
    BY <1>40 DEF PostConnectFinish, At
  <2>2. Holding(t)
    BY <2>1 DEF CallInv, HoldPoints
  <2>3. Restore(t, "Release") \/ DropClient(t)
    BY <1>40, <2>2 DEF PostConnectFinish, DropClient
  <2>. QED
    BY <1>t, <2>1, <2>3, ReturnFacts, NoCallType DEF Handles, Gives, OfStatement, HoldPoints
<1>. QED
  BY <1>1, <1>2, <1>3, <1>4, <1>5, <1>6, <1>7, <1>8, <1>9, <1>10, <1>11, <1>12, <1>13, <1>14,
     <1>15, <1>16, <1>17, <1>18, <1>19, <1>20, <1>21, <1>22, <1>23, <1>24, <1>25, <1>26, <1>27,
     <1>28, <1>29, <1>30, <1>31, <1>32, <1>33, <1>34, <1>35, <1>36, <1>37, <1>38, <1>39, <1>40
     DEF Step, Statement, Sweep, Transaction, Recycle, Life

---------------------------------------------------------------------------
(* The wire.                                                               *)

\* Dropping the client is the end of its session.
LEMMA DropClientStep ==
    ASSUME WireTypeOK, WireInv, NEW t \in Threads, DropClient(t)
    PROVE  WireTypeOK' /\ WireInv' /\ Exclusive!Disconnect
<1>1. /\ held'[t] = NoLease /\ \A u \in Threads : u # t => held'[u] = held[u]
      /\ wire_client' = 0 /\ wire_owner' = NoOwner /\ wire_lease' = 0 /\ sessions' = sessions
      /\ Holding(t) /\ Current(t)
  BY DEF DropClient, WireTypeOK
<1>2. WireTypeOK'
  <2>1. NoLease \in Leases
    BY DEF Leases
  <2>. QED
    BY <2>1, MaxSessionsAssumption DEF DropClient, WireTypeOK
<1>3. WireInv'
  <2>1. WireDocInvariants' /\ LeaseIsHeld' /\ ParkedIsLive'
    BY <1>1, OwnersAssumption DEF WireDocInvariants, LeaseIsHeld, ParkedIsLive
  <2>2. LeasesDistinct' /\ HeldIsOlder'
    BY <1>1 DEF WireInv, LeasesDistinct, HeldIsOlder, Holding, NoLease, Current
  <2>. QED
    BY <2>1, <2>2 DEF WireInv
<1>4. LiveSession # 0
  BY <1>1, CurrentIsNewest, MappedNow
<1>5. Exclusive!Disconnect
  BY <1>1, <1>2, <1>3, <1>4, MappedNext DEF Exclusive!Disconnect
<1>. QED
  BY <1>2, <1>3, <1>5

\* Every step of a call moves the wire as ConnectionWire allows, or drops the
\* client of a failed connect.
LEMMA HandlesWire ==
    ASSUME WireTypeOK, WireInv, NEW t \in Threads, Handles(t)
    PROVE  [WireNext]_wireVars \/ DropClient(t)
<1>1. CASE Stays(t)
  BY <1>1 DEF Stays
<1>2. CASE Takes(t)
  BY <1>2 DEF Takes, WireNext, Owners
<1>3. CASE GivesFor(t)
  BY <1>3 DEF GivesFor, WireNext
<1>4. CASE Gives(t)
  BY <1>4 DEF Gives, WireNext
<1>5. CASE Frees(t)
  <2>1. CASE wire_client # 0 \/ wire_lease # 0
    BY <1>5, <2>1 DEF Frees, WireNext
  <2>2. CASE wire_client = 0 /\ wire_lease = 0
    BY <1>5, <2>2 DEF Frees, Uninstall, wireVars, WireInv, WireDocInvariants
  <2>. QED
    BY <2>1, <2>2
<1>6. CASE Installs(t)
  BY <1>6 DEF Installs, WireNext
<1>7. ASSUME NEW s \in Stmts, TakesFor(t, s) PROVE WireNext
  BY <1>7 DEF TakesFor, WireNext, Owners
<1>. QED
  BY <1>1, <1>2, <1>3, <1>4, <1>5, <1>6, <1>7 DEF Handles

\* So the wire keeps its invariant ...
LEMMA HandlesKeepWire ==
    ASSUME WireTypeOK, WireInv, NEW t \in Threads, Handles(t)
    PROVE  WireTypeOK' /\ WireInv'
  BY HandlesWire, DropClientStep, WireTypeStep, WireInvStep

\* ... and every step is one of the abstract client.
LEMMA HandlesRefine ==
    ASSUME WireTypeOK, WireInv, NEW t \in Threads, Handles(t)
    PROVE  [Exclusive!Next]_(Exclusive!vars)
<1>1. CASE DropClient(t)
  BY <1>1, DropClientStep DEF Exclusive!Next
<1>2. CASE [WireNext]_wireVars
  BY <1>2, WireRefinesStep
<1>. QED
  BY <1>1, <1>2, HandlesWire

---------------------------------------------------------------------------
(* The control.                                                            *)

\* What a claim does to the leases: nobody had the client before.
LEMMA ClaimMoves ==
    ASSUME WireTypeOK, WireInv, NEW t \in Threads, NEW who \in Owners, NEW policy,
           Claim(t, who, policy)
    PROVE  /\ held'[t].owner = who /\ held'[t].id # 0 /\ wire_lease' = held'[t].id
           /\ held'[t].session = sessions
           /\ \A u \in Threads : u # t => held'[u] = held[u]
           /\ \A u \in Threads : Holding(u) => ~Current(u)
           /\ wire_owner' = who /\ wire_client' = 0 /\ sessions' = sessions
           /\ wire_lease = 0 /\ wire_client # 0
           /\ wire_owner = NoOwner \/ (policy = "IdleOrOwn" /\ wire_owner = who)
<1>1. PICK id \in LeaseIds :
         /\ held' = [held EXCEPT ![t] = [id |-> id, owner |-> who, session |-> wire_client]]
         /\ wire_lease' = id
  BY ClaimFacts
<1>2. CanClaim(who, policy) /\ wire_owner' = who /\ wire_client' = 0 /\ sessions' = sessions
  BY ClaimFacts
<1>3. wire_client = sessions
  BY <1>2 DEF CanClaim, WireInv, ParkedIsLive
<1>. QED
  BY <1>1, <1>2, <1>3, LeaseIdsAssumption DEF CanClaim, WireTypeOK, Holding, Current

\* What a return does.
LEMMA RestoreMoves ==
    ASSUME WireTypeOK, WireInv, NEW t \in Threads, NEW how,
           Restore(t, how) \/ DropClient(t)
    PROVE  /\ Holding(t) /\ held'[t] = NoLease /\ sessions' = sessions
           /\ \A u \in Threads : u # t => held'[u] = held[u]
           /\ \A u \in Threads : u # t /\ Holding(u) /\ Current(u) =>
                   /\ UNCHANGED <<wire_lease, wire_client, wire_owner>>
                   /\ ~Current(t)
           /\ Current(t) => wire_lease' = 0 /\ held[t].owner = wire_owner
           /\ Current(t) /\ Restore(t, "KeepReservation") /\ held[t].owner \in Stmts
                => wire_owner' = held[t].owner
           /\ Current(t) /\ (Restore(t, "Release") \/ DropClient(t)) => wire_owner' = NoOwner
           /\ ~Current(t) => UNCHANGED <<wire_lease, wire_client, wire_owner>>
<1>1. /\ Holding(t) /\ held' = [held EXCEPT ![t] = NoLease] /\ sessions' = sessions
      /\ Current(t) => wire_lease' = 0
      /\ ~Current(t) => UNCHANGED <<wire_lease, wire_client, wire_owner>>
  BY DEF Restore, DropClient
<1>2. ASSUME NEW u \in Threads, u # t, Holding(u), Current(u)
      PROVE  ~Current(t)
  BY <1>1, <1>2 DEF WireInv, LeasesDistinct, Current
<1>3. Current(t) => held[t].owner = wire_owner
  BY <1>1, CurrentIsNewest
<1>4. Current(t) /\ Restore(t, "KeepReservation") /\ held[t].owner \in Stmts
        => wire_owner' = held[t].owner
  BY DEF Restore
<1>5. Current(t) /\ (Restore(t, "Release") \/ DropClient(t)) => wire_owner' = NoOwner
  BY DEF Restore, DropClient
<1>. QED
  BY <1>1, <1>2, <1>3, <1>4, <1>5 DEF WireTypeOK

\* A call and its lease, whatever the others do.
CallOf(t) ==
    /\ Shape(call[t])
    /\ Holding(t) <=> call[t].pc \in HoldPoints
    /\ Holding(t) => held[t].owner = IF OfStatement(call[t]) THEN call[t].stmt ELSE Connection
    /\ call[t].op = "UserName" => call[t].gen = held[t].session

\* A step keeps every call's lease where the call says it is.
LEMMA CallInvStep ==
    ASSUME TypeOK, WireInv, CallInv, NEW t \in Threads, Moves(t), Handles(t)
    PROVE  CallInv'
<1>1. WireTypeOK /\ CallOf(t) /\ Shape(call'[t]) /\ ~(NoCall.pc \in HoldPoints)
  BY NoCallType DEF TypeOK, CallInv, CallOf, Moves, HoldPoints
<1>2. \A u \in Threads : u # t => held'[u] = held[u]
  BY <1>1, ClaimMoves, RestoreMoves DEF Handles, Stays, Takes, TakesFor, GivesFor, Gives, Frees,
     Installs, Install, Uninstall, wireVars, Owners
<1>3. \A u \in Threads : u # t => CallOf(u)'
  BY <1>2 DEF CallInv, CallOf, Moves, Holding
<1>4. CallOf(t)'
  <2>1. CASE Stays(t)
    BY <1>1, <2>1 DEF CallOf, Stays, wireVars, Holding
  <2>2. CASE Takes(t)
    BY <1>1, <2>2, ClaimMoves DEF CallOf, Takes, Holding, Owners, HoldPoints
  <2>3. CASE GivesFor(t)
    BY <1>1, <2>3, RestoreMoves DEF CallOf, GivesFor, Holding, NoLease
  <2>4. CASE Gives(t)
    BY <1>1, <2>4, RestoreMoves DEF CallOf, Gives, Holding, NoLease
  <2>5. CASE Frees(t)
    BY <1>1, <2>5, NoCallType DEF CallOf, Frees, Uninstall, Holding
  <2>6. CASE Installs(t)
    BY <1>1, <2>6 DEF CallOf, Installs, Install, Holding, Shape, Placed, HoldPoints
  <2>7. ASSUME NEW s \in Stmts, TakesFor(t, s) PROVE CallOf(t)'
    BY <1>1, <2>7, ClaimMoves DEF CallOf, TakesFor, Holding, Owners, HoldPoints
  <2>. QED
    BY <2>1, <2>2, <2>3, <2>4, <2>5, <2>6, <2>7 DEF Handles
<1>. QED
  BY <1>3, <1>4 DEF CallInv, CallOf

\* At most one statement is in use, and the wire's owner.
LEMMA InUse ==
    ASSUME TypeOK, WireInv, ControlInv, NEW s \in Stmts, operation[s] # NoThread
    PROVE  /\ operation[s] \in Threads /\ Holding(operation[s]) /\ wire_lease # 0
           /\ wire_owner = s
<1> DEFINE u == operation[s]
<1>1. u \in Threads /\ OfStatement(call[u]) /\ call[u].stmt = s /\ Current(u)
  BY DEF TypeOK, ControlInv, OperationInv
<1>2. call[u].pc \in HoldPoints
  BY <1>1 DEF ControlInv, CallInv, Shape, Placed, OfStatement, HoldPoints
<1>3. Holding(u) /\ held[u].owner = s
  BY <1>1, <1>2 DEF ControlInv, CallInv
<1>. QED
  BY <1>1, <1>3, CurrentIsNewest DEF TypeOK

\* A step keeps the guards with the leases of their statements.
LEMMA OperationInvStep ==
    ASSUME TypeOK, WireInv, ControlInv, NEW t \in Threads, Moves(t), Handles(t)
    PROVE  OperationInv'
<1>0. /\ WireTypeOK /\ operation \in [Stmts -> Threads \cup {NoThread}]
      /\ \A u \in Threads : u # t => call'[u] = call[u]
      /\ \A u \in Threads : OfStatement(call[u]) =>
            call[u].stmt \in Stmts /\ operation[call[u].stmt] = u /\ Holding(u) /\ Current(u)
  <2>1. ASSUME NEW u \in Threads, OfStatement(call[u])
        PROVE  call[u].stmt \in Stmts /\ operation[call[u].stmt] = u /\ Holding(u) /\ Current(u)
    <3>1. call[u].stmt \in Stmts /\ operation[call[u].stmt] = u
      BY <2>1 DEF ControlInv, CallInv, Shape, OperationInv
    <3>. QED
      BY <3>1, InUse, ThreadsAssumption DEF ControlInv, OperationInv
  <2>. QED
    BY <2>1 DEF TypeOK, Moves
<1>1. CASE Stays(t)
  BY <1>0, <1>1 DEF ControlInv, OperationInv, Stays, wireVars, Current
<1>2. CASE Takes(t)
  <2>1. \A u \in Threads : Holding(u) => ~Current(u)
    BY <1>0, <1>2, ClaimMoves DEF Takes, Owners
  <2>2. \A s \in Stmts : operation[s] = NoThread
    BY <2>1, InUse DEF ControlInv, OperationInv
  <2>3. \A u \in Threads : ~OfStatement(call[u])
    BY <1>0, <2>1
  <2>. QED
    BY <1>0, <1>2, <2>2, <2>3 DEF OperationInv, Takes, stmtVars
<1>3. CASE GivesFor(t)
  <2> DEFINE s == call[t].stmt
  <2>1. s \in Stmts /\ operation[s] = t /\ wire_owner = s /\ Current(t) /\ Holding(t)
    BY <1>0, <1>3, InUse, ThreadsAssumption DEF GivesFor
  <2>2. \A x \in Stmts : x # s => operation[x] = NoThread
    BY <2>1, InUse
  <2>3. \A u \in Threads : OfStatement(call[u]) => u = t
    BY <1>0, <2>1, <2>2, ThreadsAssumption
  <2>. QED
    BY <1>0, <1>3, <2>1, <2>2, <2>3 DEF OperationInv, GivesFor
<1>4. CASE Gives(t)
  <2>1. ASSUME NEW u \in Threads, u # t, Holding(u), Current(u) PROVE wire_lease' = held'[u].id
    BY <1>0, <1>4, <2>1, RestoreMoves DEF Gives, Current
  <2>2. ASSUME NEW s \in Stmts, operation[s] # NoThread PROVE operation[s] # t
    BY <1>0, <1>4, <2>2 DEF ControlInv, OperationInv, Gives
  <2>3. ASSUME NEW s \in Stmts, operation[s] # NoThread
        PROVE  wire_lease' = held'[operation[s]].id
    BY <2>1, <2>2, <2>3, InUse DEF ControlInv, OperationInv
  <2>. QED
    BY <1>0, <1>4, <2>2, <2>3 DEF ControlInv, OperationInv, Gives, stmtVars, Current
<1>5. CASE Frees(t)
  <2>1. \A s \in Stmts : operation'[s] = NoThread
    BY <1>5 DEF Frees, StatementsUnused
  <2>2. \A u \in Threads : ~OfStatement(call'[u])
    BY <1>0, <1>5, NoCallType, ThreadsAssumption DEF Frees, StatementsUnused, OfStatement
  <2>. QED
    BY <2>1, <2>2 DEF OperationInv
<1>6. CASE Installs(t)
  <2>1. wire_lease = 0
    BY <1>6 DEF Installs, Install
  <2>2. \A s \in Stmts : operation[s] = NoThread
    BY <2>1, InUse
  <2>3. \A u \in Threads : ~OfStatement(call'[u])
    BY <1>0, <1>6, <2>2, ThreadsAssumption DEF Installs, OfStatement
  <2>. QED
    BY <1>6, <2>2, <2>3 DEF Installs, OperationInv, stmtVars
<1>7. ASSUME NEW s \in Stmts, TakesFor(t, s) PROVE OperationInv'
  <2>1. /\ \A u \in Threads : Holding(u) => ~Current(u)
        /\ wire_lease' = held'[t].id
    BY <1>0, <1>7, ClaimMoves DEF TakesFor, Owners
  <2>2. \A x \in Stmts : operation[x] = NoThread
    BY <2>1, InUse DEF ControlInv, OperationInv
  <2>3. \A u \in Threads : u # t => ~OfStatement(call'[u])
    BY <1>0, <2>1
  <2>. QED
    BY <1>0, <1>7, <2>1, <2>2, <2>3 DEF OperationInv, TakesFor, Current
<1>. QED
  BY <1>1, <1>2, <1>3, <1>4, <1>5, <1>6, <1>7 DEF Handles

\* A step keeps the cursors of executions and drains closed.
LEMMA ClosedInvStep ==
    ASSUME TypeOK, WireInv, ControlInv, NEW t \in Threads, Moves(t), Handles(t)
    PROVE  ClosedInv'
<1>0. /\ cursor \in [Stmts -> {"Closed", "Rows", "Drained"}]
      /\ \A u \in Threads : u # t => call'[u] = call[u]
      /\ \A u \in Threads : OfClosed(call[u]) =>
            /\ OfStatement(call[u]) /\ call[u].stmt \in Stmts /\ cursor[call[u].stmt] = "Closed"
            /\ operation[call[u].stmt] = u
  BY DEF TypeOK, Moves, ControlInv, CallInv, Shape, ClosedInv, OperationInv, OfClosed, OfStatement
<1>1. CASE Stays(t)
  BY <1>0, <1>1 DEF ClosedInv, Stays
<1>2. CASE Takes(t)
  BY <1>0, <1>2 DEF ClosedInv, Takes, stmtVars, OfClosed, OfStatement
<1>3. CASE GivesFor(t)
  <2>1. \A u \in Threads : u # t => call[u].stmt # call[t].stmt \/ ~OfClosed(call[u])
    BY <1>0, <1>3 DEF GivesFor, ControlInv, OperationInv
  <2>2. call[t].stmt \in Stmts
    BY <1>3 DEF GivesFor, ControlInv, CallInv, Shape
  <2>. QED
    BY <1>0, <1>3, <2>1, <2>2 DEF ClosedInv, GivesFor, OfClosed, OfStatement
<1>4. CASE Gives(t)
  BY <1>0, <1>4 DEF ClosedInv, Gives, stmtVars, OfClosed, OfStatement
<1>5. CASE Frees(t)
  <2>1. ASSUME NEW u \in Threads, OfClosed(call'[u]) PROVE u # t
    BY <1>5, <2>1, NoCallType DEF Frees, OfClosed
  <2>. QED
    BY <1>0, <1>5, <2>1 DEF ClosedInv, Frees
<1>6. CASE Installs(t)
  BY <1>0, <1>6 DEF ClosedInv, Installs, stmtVars, OfClosed
<1>7. ASSUME NEW s \in Stmts, TakesFor(t, s) PROVE ClosedInv'
  <2>1. \A u \in Threads : u # t /\ OfClosed(call[u]) => call[u].stmt # s
    BY <1>0, <1>7, ThreadsAssumption DEF TakesFor, FreeStatement
  <2>. QED
    BY <1>0, <1>7, <2>1 DEF ClosedInv, TakesFor
<1>. QED
  BY <1>1, <1>2, <1>3, <1>4, <1>5, <1>6, <1>7 DEF Handles

\* A step keeps the reservation with the cursor that has rows left.
LEMMA ReservationStep ==
    ASSUME TypeOK, WireInv, ControlInv, NEW t \in Threads, Moves(t), Handles(t)
    PROVE  ReservationIsCursor'
<1>0. /\ WireTypeOK /\ cursor \in [Stmts -> {"Closed", "Rows", "Drained"}]
      /\ \A s \in Stmts : cursor[s] = "Rows" => wire_owner = s
      /\ \A s \in Stmts : wire_owner = s /\ wire_lease = 0 => cursor[s] = "Rows"
  BY DEF TypeOK, ControlInv, ReservationIsCursor
<1>1. CASE Stays(t)
  <2>1. CASE UNCHANGED cursor
    BY <1>0, <1>1, <2>1 DEF Stays, wireVars, ReservationIsCursor
  <2>2. ASSUME NEW s \in Stmts, cursor' = [cursor EXCEPT ![s] = "Closed"],
               ~CanClaim(s, "IdleOrOwn")
        PROVE  ReservationIsCursor'
    <3>1. ~(wire_owner = s /\ wire_lease = 0)
      BY <2>2, OwnersAssumption DEF CanClaim, WireInv, WireDocInvariants
    <3>. QED
      BY <1>0, <1>1, <2>2, <3>1 DEF Stays, wireVars, ReservationIsCursor
  <2>. QED
    BY <1>1, <2>1, <2>2 DEF Stays
<1>2. CASE Takes(t)
  BY <1>0, <1>2, ClaimMoves, OwnersAssumption DEF Takes, Owners, stmtVars, ReservationIsCursor
<1>3. CASE GivesFor(t)
  <2> DEFINE s == call[t].stmt
  <2>1. s \in Stmts /\ operation[s] = t /\ wire_owner = s /\ Current(t)
    BY <1>3, InUse, ThreadsAssumption DEF GivesFor, ControlInv, CallInv, Shape, OperationInv
  <2>2. Holding(t) /\ held[t].owner = s
    BY <1>3, <2>1, InUse, ThreadsAssumption DEF GivesFor, ControlInv, CallInv
  <2>3. \A x \in Stmts : x # s => cursor[x] # "Rows"
    BY <1>0, <2>1
  <2>4. CASE Restore(t, "KeepReservation") /\ cursor' = [cursor EXCEPT ![s] = "Rows"]
    <3>1. wire_owner' = s
      BY <1>0, <2>1, <2>2, <2>4, RestoreMoves
    <3>. QED
      BY <1>0, <2>1, <2>3, <2>4, <3>1 DEF ReservationIsCursor
  <2>5. CASE /\ Restore(t, "Release")
             /\ \/ OfClosed(call[t]) /\ UNCHANGED cursor
                \/ cursor' = [cursor EXCEPT ![s] = "Closed"]
                \/ cursor' = [cursor EXCEPT ![s] = "Drained"]
    <3>1. wire_owner' = NoOwner
      BY <1>0, <2>1, <2>2, <2>5, RestoreMoves
    <3>2. \A x \in Stmts : cursor'[x] # "Rows"
      BY <1>0, <2>1, <2>3, <2>5 DEF ControlInv, ClosedInv
    <3>. QED
      BY <3>1, <3>2, OwnersAssumption DEF ReservationIsCursor
  <2>. QED
    BY <1>3, <2>4, <2>5 DEF GivesFor
<1>4. CASE Gives(t)
  <2>1. Holding(t) /\ held[t].owner = Connection
    BY <1>0, <1>4, RestoreMoves DEF Gives, ControlInv, CallInv
  <2>2. CASE Current(t)
    <3>1. wire_owner = Connection /\ wire_owner' = NoOwner
      BY <1>0, <1>4, <2>1, <2>2, RestoreMoves DEF Gives
    <3>. QED
      BY <1>0, <1>4, <3>1, OwnersAssumption DEF Gives, stmtVars, ReservationIsCursor
  <2>3. CASE ~Current(t)
    BY <1>0, <1>4, <2>3, RestoreMoves DEF Gives, stmtVars, ReservationIsCursor
  <2>. QED
    BY <2>2, <2>3
<1>5. CASE Frees(t)
  BY <1>5, OwnersAssumption DEF Frees, Uninstall, ReservationIsCursor
<1>6. CASE Installs(t)
  <2>1. wire_owner = NoOwner /\ wire_owner' = NoOwner
    BY <1>6 DEF Installs, Install, WireInv, WireDocInvariants
  <2>. QED
    BY <1>0, <1>6, <2>1, OwnersAssumption DEF Installs, stmtVars, ReservationIsCursor
<1>7. ASSUME NEW s \in Stmts, TakesFor(t, s) PROVE ReservationIsCursor'
  <2>1. /\ wire_owner' = s /\ wire_lease' # 0
        /\ wire_owner = NoOwner \/ wire_owner = s
    BY <1>0, <1>7, ClaimMoves DEF TakesFor, Owners
  <2>2. \A x \in Stmts : cursor'[x] = "Rows" => x = s
    BY <1>0, <1>7, <2>1, OwnersAssumption DEF TakesFor
  <2>. QED
    BY <2>1, <2>2 DEF ReservationIsCursor
<1>. QED
  BY <1>1, <1>2, <1>3, <1>4, <1>5, <1>6, <1>7 DEF Handles

\* Calls, guards, cursors and reservations stay in step.
LEMMA ControlStep ==
    ASSUME TypeOK, WireInv, ControlInv, NEW t \in Threads, Step(t)
    PROVE  ControlInv'
<1>1. Moves(t) /\ Handles(t)
  BY StepHandles DEF ControlInv
<1>. QED
  BY <1>1, CallInvStep, OperationInvStep, ClosedInvStep, ReservationStep DEF ControlInv

---------------------------------------------------------------------------
(* Types.                                                                  *)

\* What a round trip leaves of a session.
LEMMA RoundTrips ==
    ASSUME NEW c \in Sessions
    PROVE  /\ Killed(c) \in Sessions /\ Ended(c) \in Sessions /\ Begun(c) \in Sessions
           /\ [Ended(c) EXCEPT !.synced = FALSE] \in Sessions
           /\ InDoubt(c) \subseteq Sessions /\ Executed(c) \subseteq Sessions
           /\ \A d \in Sessions : Completes(c, d) \subseteq Sessions
  <1>1. Killed(c) \in Sessions /\ Ended(c) \in Sessions /\ Begun(c) \in Sessions
    BY DEF Killed, Ended, Begun, Sessions
  <1>2. [Ended(c) EXCEPT !.synced = FALSE] \in Sessions
    BY <1>1 DEF Sessions
  <1>3. InDoubt(c) \subseteq Sessions
    BY <1>1 DEF InDoubt, Sessions
  <1>4. [c EXCEPT !.work = @ \/ c.txn] \in Sessions
    BY DEF Sessions
  <1>5. [c EXCEPT !.txn = TRUE, !.work = TRUE] \in Sessions
    BY DEF Sessions
  <1>6. \A l \in Levels : [c EXCEPT !.level = l, !.strayed = TRUE] \in Sessions
    BY DEF Sessions
  <1>7. Executed(c) \subseteq Sessions
    BY <1>1, <1>4, <1>5, <1>6 DEF Executed
  <1>8. \A d \in Sessions : Completes(c, d) \subseteq Sessions
    BY DEF Completes
  <1> QED
    BY <1>1, <1>2, <1>3, <1>7, <1>8

\* A step leaves the sessions alone or is the work of the call that has the
\* client of one of them.
Works(t) ==
    \/ UNCHANGED session
    \/ Holding(t) /\ \E c \in Sessions : ClientBecomes(t, c)

\* Every step does.
LEMMA StepWorks ==
    ASSUME TypeOK, ControlInv, NEW t \in Threads, Step(t)
    PROVE  Works(t)
<1>t. /\ session \in [1..MaxSessions -> Sessions]
      /\ Holding(t) => Mine(t) \in Sessions
      /\ call[t].pc \in HoldPoints => Holding(t)
  BY DEF TypeOK, WireTypeOK, Holding, Mine, Leases, NoLease, ControlInv, CallInv
<1>h. \A op \in AllCalls, pc \in HoldPoints : At(t, op, pc) => Holding(t)
  BY <1>t DEF At
<1>1. ASSUME NEW s \in Stmts, ExecClaim(t, s)
      PROVE  Works(t)
  BY <1>1 DEF ExecClaim, Works
<1>2. ASSUME NEW s \in Stmts, FetchClaim(t, s)
      PROVE  Works(t)
  BY <1>2 DEF FetchClaim, Works
<1>3. ASSUME NEW s \in Stmts, CloseCursor(t, s)
      PROVE  Works(t)
  BY <1>3 DEF CloseCursor, Works
<1>4. CASE ExecBegin(t)
  BY <1>4, <1>t, RoundTrips DEF ExecBegin, At, HoldPoints, Works
<1>5. CASE ExecBeginFails(t)
  BY <1>5, <1>t, RoundTrips DEF ExecBeginFails, At, HoldPoints, Works
<1>6. CASE ExecFails(t)
  BY <1>6, <1>t, RoundTrips DEF ExecFails, At, HoldPoints, Works
<1>7. ASSUME NEW left \in {"Closed", "Rows", "Drained"}, ExecFinish(t, left)
      PROVE  Works(t)
  BY <1>7, <1>t, RoundTrips DEF ExecFinish, At, HoldPoints, Works
<1>8. ASSUME NEW left \in {"Closed", "Rows", "Drained"}, FetchFinish(t, left)
      PROVE  Works(t)
  BY <1>8, <1>t, RoundTrips DEF FetchFinish, At, HoldPoints, Works
<1>9. CASE CloseReturns(t)
  BY <1>9 DEF CloseReturns, Works, GiveUp
<1>10. ASSUME NEW s \in Stmts, SweepSkip(t, s)
       PROVE  Works(t)
  BY <1>10 DEF SweepSkip, Works
<1>11. ASSUME NEW s \in Stmts, SweepClaim(t, s)
       PROVE  Works(t)
  BY <1>11 DEF SweepClaim, Works
<1>12. ASSUME NEW s \in Stmts, SweepBusy(t, s)
       PROVE  Works(t)
  BY <1>12 DEF SweepBusy, Works
<1>13. ASSUME NEW ok \in BOOLEAN, SweepDrain(t, ok)
       PROVE  Works(t)
  BY <1>13, <1>t, RoundTrips DEF SweepDrain, At, HoldPoints, Works
<1>14. CASE SweepFailed(t)
  BY <1>14 DEF SweepFailed, Works, GiveUp
<1>15. CASE EndTran(t)
  BY <1>15 DEF EndTran, Works
<1>16. CASE EndTranNothing(t)
  BY <1>16 DEF EndTranNothing, Works, GiveUp
<1>17. CASE EndTranClaim(t)
  BY <1>17 DEF EndTranClaim, Works, ClaimDbcClient, ClaimRefused, GiveUp
<1>18. CASE EndTranFinish(t)
  BY <1>18, <1>t, RoundTrips DEF EndTranFinish, At, HoldPoints, Works
<1>19. ASSUME NEW enable \in BOOLEAN, SetAutocommit(t, enable)
       PROVE  Works(t)
  BY <1>19 DEF SetAutocommit, Works
<1>20. CASE AutocommitClaim(t)
  BY <1>20 DEF AutocommitClaim, Works, ClaimDbcClient, ClaimRefused, GiveUp
<1>21. CASE AutocommitOn(t)
  BY <1>21, <1>t, RoundTrips DEF AutocommitOn, At, HoldPoints, Works
<1>22. CASE AutocommitOff(t)
  BY <1>22, <1>t, RoundTrips DEF AutocommitOff, At, HoldPoints, Works
<1>23. ASSUME NEW level \in Levels, SetIsolation(t, level)
       PROVE  Works(t)
  BY <1>23 DEF SetIsolation, Works
<1>24. CASE IsolationClaim(t)
  BY <1>24 DEF IsolationClaim, Works, ClaimDbcClient, ClaimRefused, GiveUp
<1>25. CASE IsolationFinish(t)
  BY <1>25, <1>t, RoundTrips DEF IsolationFinish, At, HoldPoints, Works
<1>26. CASE ResetEnter(t)
  BY <1>26 DEF ResetEnter, Works
<1>27. CASE ResetClaim(t)
  BY <1>27 DEF ResetClaim, Works, ClaimDbcClient, ClaimRefused, GiveUp
<1>28. CASE ResetArm(t)
  BY <1>28, <1>t, RoundTrips DEF ResetArm, At, HoldPoints, Works
<1>29. CASE ResetFails(t)
  BY <1>29, <1>t, RoundTrips DEF ResetFails, At, HoldPoints, Works
<1>30. CASE LookupClaim(t)
  BY <1>30 DEF LookupClaim, Works
<1>31. ASSUME NEW answered \in BOOLEAN, LookupPublish(t, answered)
       PROVE  Works(t)
  BY <1>31, <1>t, RoundTrips DEF LookupPublish, At, HoldPoints, Works
<1>32. CASE Disconnect(t)
  BY <1>32 DEF Disconnect, Works
<1>33. CASE DisconnectClaim(t)
  BY <1>33 DEF DisconnectClaim, Works
<1>34. CASE DisconnectRollback(t)
  BY <1>34, <1>t, RoundTrips DEF DisconnectRollback, At, HoldPoints, Works
<1>35. CASE DisconnectFree(t)
  BY <1>35 DEF DisconnectFree, Works
<1>36. CASE Connect(t)
  BY <1>36 DEF Connect, Works
<1>37. CASE PostConnectDefault(t)
  BY <1>37 DEF PostConnectDefault, Works
<1>38. CASE MarkServerIsolationKnown(t)
  BY <1>38 DEF MarkServerIsolationKnown, Works
<1>39. CASE PostConnectClaim(t)
  BY <1>39 DEF PostConnectClaim, Works, ClaimRefused, GiveUp
<1>40. CASE PostConnectFinish(t)
  BY <1>40, <1>t, RoundTrips DEF PostConnectFinish, At, HoldPoints, Works
<1>. QED
  BY <1>1, <1>2, <1>3, <1>4, <1>5, <1>6, <1>7, <1>8, <1>9, <1>10, <1>11, <1>12, <1>13, <1>14,
     <1>15, <1>16, <1>17, <1>18, <1>19, <1>20, <1>21, <1>22, <1>23, <1>24, <1>25, <1>26, <1>27,
     <1>28, <1>29, <1>30, <1>31, <1>32, <1>33, <1>34, <1>35, <1>36, <1>37, <1>38, <1>39, <1>40
     DEF Step, Statement, Sweep, Transaction, Recycle, Life

\* The connection is connected while a client is parked or out.
Alive == wire_client # 0 \/ wire_lease # 0

\* A claim and a return leave a connection as connected as it was.
LEMMA WireAlive ==
    ASSUME WireTypeOK, WireInv, NEW t \in Threads,
           \/ UNCHANGED wireVars
           \/ \E who \in Owners, policy \in {"IdleOnly", "IdleOrOwn"} : Claim(t, who, policy)
           \/ \E how \in {"Release", "KeepReservation"} : Restore(t, how)
    PROVE  Alive' <=> Alive
<1>1. CASE UNCHANGED wireVars
  BY <1>1 DEF Alive, wireVars
<1>2. ASSUME NEW who \in Owners, NEW policy, Claim(t, who, policy) PROVE Alive' <=> Alive
  BY <1>2, ClaimMoves DEF Alive
<1>3. ASSUME NEW how, Restore(t, how) PROVE Alive' <=> Alive
  BY <1>3, CurrentIsNewest DEF Restore, Alive, Holding, Current, WireTypeOK, Leases, NoLease
<1>. QED
  BY <1>1, <1>2, <1>3

\* The attributes and caches of the connection.
DbcTypes ==
    /\ connected <=> Alive
    /\ connected \in BOOLEAN /\ autocommit \in BOOLEAN
    /\ txn_isolation \in Levels
    /\ server_isolation_unknown \in BOOLEAN /\ local_tran_started \in BOOLEAN
    /\ reset_generation \in 0..MaxResets
    /\ database_user_name \in Names
    /\ lost \subseteq {"Isolation", "Autocommit", "Disconnect"}

\* Every step keeps the attributes and caches of their types.
LEMMA DbcTypesStep ==
    ASSUME TypeOK, WireInv, ControlInv, NEW t \in Threads, Step(t)
    PROVE  DbcTypes'
<1>t. /\ DbcTypes /\ NoName \in Names /\ WireTypeOK
      /\ Holding(t) => Mine(t) \in Sessions /\ held[t].session \in 0..MaxSessions
      /\ call[t].pc \in HoldPoints => Holding(t)
      /\ Shape(call[t])
      /\ \A c : LostWith(t, c) \subseteq {"Disconnect"}
  BY MaxSessionsAssumption, ResetsAssumption
     DEF TypeOK, DbcTypes, Alive, Names, NoName, WireTypeOK, Holding, Mine, Leases, NoLease,
         ControlInv, CallInv, LostWith

<1>1. ASSUME NEW s \in Stmts, ExecClaim(t, s)
      PROVE  DbcTypes'
  BY <1>1, <1>t, WireAlive DEF ExecClaim, Owners, DbcTypes, dbcVars
<1>2. ASSUME NEW s \in Stmts, FetchClaim(t, s)
      PROVE  DbcTypes'
  BY <1>2, <1>t, WireAlive DEF FetchClaim, Owners, DbcTypes, dbcVars
<1>3. ASSUME NEW s \in Stmts, CloseCursor(t, s)
      PROVE  DbcTypes'
  BY <1>3, <1>t, WireAlive DEF CloseCursor, Owners, DbcTypes, dbcVars
<1>4. CASE ExecBegin(t)
  <2>1. Mine(t) \in Sessions
    BY <1>4, <1>t DEF ExecBegin, At, HoldPoints
  <2>s. \A c \in Sessions : c.txn \in BOOLEAN
    BY DEF Sessions
  <2>2. local_tran_started' \in BOOLEAN
    BY <1>4, <1>t, <2>1, <2>s, RoundTrips DEF ExecBegin, StartedFlag, DbcTypes
  <2>. QED
    BY <1>4, <1>t, <2>2, WireAlive DEF ExecBegin, DbcTypes
<1>5. CASE ExecBeginFails(t)
  <2>1. Mine(t) \in Sessions
    BY <1>5, <1>t DEF ExecBeginFails, At, HoldPoints
  <2>s. \A c \in Sessions : c.txn \in BOOLEAN
    BY DEF Sessions
  <2>2. local_tran_started' \in BOOLEAN
    BY <1>5, <1>t, <2>1, <2>s, RoundTrips DEF ExecBeginFails, StartedFlag, DbcTypes
  <2>. QED
    BY <1>5, <1>t, <2>2, WireAlive DEF ExecBeginFails, DbcTypes
<1>6. CASE ExecFails(t)
  BY <1>6, <1>t, WireAlive DEF ExecFails, Owners, DbcTypes, dbcVars
<1>7. ASSUME NEW left \in {"Closed", "Rows", "Drained"}, ExecFinish(t, left)
      PROVE  DbcTypes'
  BY <1>7, <1>t, WireAlive DEF ExecFinish, DbcTypes, dbcVars
<1>8. ASSUME NEW left \in {"Closed", "Rows", "Drained"}, FetchFinish(t, left)
      PROVE  DbcTypes'
  BY <1>8, <1>t, WireAlive DEF FetchFinish, FetchReturn, DbcTypes, dbcVars
<1>9. CASE CloseReturns(t)
  BY <1>9, <1>t, WireAlive DEF CloseReturns, GiveUp, Owners, DbcTypes, dbcVars
<1>10. ASSUME NEW s \in Stmts, SweepSkip(t, s)
       PROVE  DbcTypes'
  BY <1>10, <1>t, WireAlive DEF SweepSkip, Owners, DbcTypes, dbcVars
<1>11. ASSUME NEW s \in Stmts, SweepClaim(t, s)
       PROVE  DbcTypes'
  BY <1>11, <1>t, WireAlive DEF SweepClaim, Owners, DbcTypes, dbcVars
<1>12. ASSUME NEW s \in Stmts, SweepBusy(t, s)
       PROVE  DbcTypes'
  BY <1>12, <1>t, WireAlive DEF SweepBusy, Owners, DbcTypes, dbcVars
<1>13. ASSUME NEW ok \in BOOLEAN, SweepDrain(t, ok)
       PROVE  DbcTypes'
  BY <1>13, <1>t, WireAlive DEF SweepDrain, Owners, DbcTypes, dbcVars
<1>14. CASE SweepFailed(t)
  BY <1>14, <1>t, WireAlive DEF SweepFailed, GiveUp, Owners, DbcTypes, dbcVars
<1>15. CASE EndTran(t)
  BY <1>15, <1>t, WireAlive DEF EndTran, Owners, DbcTypes, dbcVars
<1>16. CASE EndTranNothing(t)
  BY <1>16, <1>t, WireAlive DEF EndTranNothing, GiveUp, Owners, DbcTypes, dbcVars
<1>17. CASE EndTranClaim(t)
  <2>1. CASE ClaimDbcClient(t)
    BY <2>1, <1>t, WireAlive DEF ClaimDbcClient, Owners, DbcTypes, dbcVars
  <2>2. CASE ClaimRefused(t)
    BY <2>2, <1>t, WireAlive DEF ClaimRefused, GiveUp, DbcTypes, dbcVars
  <2>. QED
    BY <1>17, <2>1, <2>2 DEF EndTranClaim
<1>18. CASE EndTranFinish(t)
  BY <1>18, <1>t, WireAlive DEF EndTranFinish, Owners, DbcTypes, dbcVars
<1>19. ASSUME NEW enable \in BOOLEAN, SetAutocommit(t, enable)
       PROVE  DbcTypes'
  BY <1>19, <1>t, WireAlive DEF SetAutocommit, Owners, DbcTypes, dbcVars
<1>20. CASE AutocommitClaim(t)
  <2>1. CASE ClaimDbcClient(t)
    BY <2>1, <1>t, WireAlive DEF ClaimDbcClient, Owners, DbcTypes, dbcVars
  <2>2. CASE ClaimRefused(t)
    BY <2>2, <1>t, WireAlive DEF ClaimRefused, GiveUp, DbcTypes, dbcVars
  <2>. QED
    BY <1>20, <2>1, <2>2 DEF AutocommitClaim
<1>21. CASE AutocommitOn(t)
  BY <1>21, <1>t, WireAlive DEF AutocommitOn, Owners, DbcTypes, dbcVars
<1>22. CASE AutocommitOff(t)
  BY <1>22, <1>t, WireAlive DEF AutocommitOff, Owners, DbcTypes, dbcVars
<1>23. ASSUME NEW level \in Levels, SetIsolation(t, level)
       PROVE  DbcTypes'
  BY <1>23, <1>t, WireAlive DEF SetIsolation, Owners, DbcTypes, dbcVars
<1>24. CASE IsolationClaim(t)
  <2>1. CASE ClaimDbcClient(t)
    BY <2>1, <1>t, WireAlive DEF ClaimDbcClient, Owners, DbcTypes, dbcVars
  <2>2. CASE ClaimRefused(t)
    BY <2>2, <1>t, WireAlive DEF ClaimRefused, GiveUp, DbcTypes, dbcVars
  <2>. QED
    BY <1>24, <2>1, <2>2 DEF IsolationClaim
<1>25. CASE IsolationFinish(t)
  <2>1. call[t].arg \in Levels
    BY <1>25, <1>t DEF IsolationFinish, At, Shape
  <2>2. /\ txn_isolation' \in Levels /\ server_isolation_unknown' \in BOOLEAN
        /\ lost' \subseteq {"Isolation", "Autocommit", "Disconnect"}
    BY <1>25, <1>t, <2>1 DEF IsolationFinish, DbcTypes
  <2>. QED
    BY <1>25, <1>t, <2>2, WireAlive DEF IsolationFinish, DbcTypes
<1>26. CASE ResetEnter(t)
  BY <1>26, <1>t, WireAlive DEF ResetEnter, Owners, DbcTypes, dbcVars
<1>27. CASE ResetClaim(t)
  <2>1. CASE ClaimDbcClient(t)
    BY <2>1, <1>t, WireAlive DEF ClaimDbcClient, Owners, DbcTypes, dbcVars
  <2>2. CASE ClaimRefused(t)
    BY <2>2, <1>t, WireAlive DEF ClaimRefused, GiveUp, DbcTypes, dbcVars
  <2>. QED
    BY <1>27, <2>1, <2>2 DEF ResetClaim
<1>28. CASE ResetArm(t)
  <2>1. /\ reset_generation < MaxResets /\ Restore(t, "Release")
        /\ UNCHANGED <<connected, autocommit, txn_isolation, lost>>
        /\ \/ /\ local_tran_started' = FALSE /\ database_user_name' = NoName
              /\ server_isolation_unknown' = TRUE /\ reset_generation' = reset_generation + 1
           \/ UNCHANGED <<local_tran_started, database_user_name, server_isolation_unknown,
                           reset_generation>>
    BY <1>28 DEF ResetArm, NameAfterReset, UnknownAfterReset
  <2>2. reset_generation' \in 0..MaxResets
    BY <1>t, <2>1, ResetsAssumption DEF DbcTypes
  <2>. QED
    BY <1>t, <2>1, <2>2, WireAlive DEF DbcTypes
<1>29. CASE ResetFails(t)
  BY <1>29, <1>t, WireAlive DEF ResetFails, Owners, DbcTypes, dbcVars
<1>30. CASE LookupClaim(t)
  BY <1>30, <1>t, WireAlive DEF LookupClaim, Owners, DbcTypes, dbcVars
<1>31. ASSUME NEW answered \in BOOLEAN, LookupPublish(t, answered)
       PROVE  DbcTypes'
  <2>1. held[t].session \in 0..MaxSessions
    BY <1>31, <1>t DEF LookupPublish, At, HoldPoints
  <2>2. database_user_name' \in Names
    BY <1>31, <1>t, <2>1 DEF LookupPublish, DbcTypes, Names
  <2>3. lost' \subseteq {"Isolation", "Autocommit", "Disconnect"}
    BY <1>31, <1>t DEF LookupPublish, DbcTypes
  <2>. QED
    BY <1>31, <1>t, <2>2, <2>3, WireAlive DEF LookupPublish, DbcTypes
<1>32. CASE Disconnect(t)
  BY <1>32, <1>t, WireAlive DEF Disconnect, Owners, DbcTypes, dbcVars
<1>33. CASE DisconnectClaim(t)
  BY <1>33, <1>t, WireAlive DEF DisconnectClaim, Owners, DbcTypes, dbcVars
<1>34. CASE DisconnectRollback(t)
  BY <1>34, <1>t, WireAlive DEF DisconnectRollback, Owners, DbcTypes, dbcVars
<1>35. CASE DisconnectFree(t)
  <2>1. ~Alive' /\ connected' = FALSE /\ database_user_name' = NoName
    BY <1>35 DEF DisconnectFree, ClearSession, Uninstall, Alive
  <2>2. lost' \subseteq {"Isolation", "Autocommit", "Disconnect"}
    BY <1>35, <1>t DEF DisconnectFree, ClearSession, DbcTypes
  <2>. QED
    BY <1>35, <1>t, <2>1, <2>2 DEF DisconnectFree, DbcTypes
<1>36. CASE Connect(t)
  <2>1. Alive'
    BY <1>36, <1>t DEF Connect, Install, Alive, WireTypeOK
  <2>. QED
    BY <1>36, <1>t, <2>1 DEF Connect, DbcTypes
<1>37. CASE PostConnectDefault(t)
  BY <1>37, <1>t, WireAlive DEF PostConnectDefault, Owners, DbcTypes, dbcVars
<1>38. CASE MarkServerIsolationKnown(t)
  BY <1>38, <1>t, WireAlive DEF MarkServerIsolationKnown, Owners, DbcTypes, dbcVars
<1>39. CASE PostConnectClaim(t)
  BY <1>39, <1>t, WireAlive DEF PostConnectClaim, ClaimRefused, GiveUp, Owners, DbcTypes, dbcVars
<1>40. CASE PostConnectFinish(t)
  <2>1. /\ server_isolation_unknown' \in BOOLEAN
        /\ lost' \subseteq {"Isolation", "Autocommit", "Disconnect"}
    BY <1>40, <1>t DEF PostConnectFinish, DbcTypes, UnknownAfterPost
  <2>2. CASE Restore(t, "Release") /\ UNCHANGED <<connected, database_user_name>>
    BY <1>40, <1>t, <2>1, <2>2, WireAlive DEF PostConnectFinish, DbcTypes
  <2>3. CASE /\ wire_client' = 0 /\ wire_lease' = 0
             /\ connected' = FALSE /\ database_user_name' = NoName
    BY <1>40, <1>t, <2>1, <2>3 DEF PostConnectFinish, DbcTypes, Alive
  <2>. QED
    BY <1>40, <2>2, <2>3 DEF PostConnectFinish
<1>. QED
  BY <1>1, <1>2, <1>3, <1>4, <1>5, <1>6, <1>7, <1>8, <1>9, <1>10, <1>11, <1>12, <1>13, <1>14,
     <1>15, <1>16, <1>17, <1>18, <1>19, <1>20, <1>21, <1>22, <1>23, <1>24, <1>25, <1>26, <1>27,
     <1>28, <1>29, <1>30, <1>31, <1>32, <1>33, <1>34, <1>35, <1>36, <1>37, <1>38, <1>39, <1>40
     DEF Step, Statement, Sweep, Transaction, Recycle, Life

\* The types of the connection as a whole.
LEMMA TypeStep ==
    ASSUME TypeOK, WireInv, ControlInv, NEW t \in Threads, Step(t)
    PROVE  TypeOK'
<1>1. Moves(t) /\ Handles(t)
  BY StepHandles DEF ControlInv
<1>2. WireTypeOK'
  BY <1>1, HandlesKeepWire DEF TypeOK
<1>3. DbcTypes'
  BY DbcTypesStep
<1>4. session' \in [1..MaxSessions -> Sessions]
  BY StepWorks DEF Works, ClientBecomes, TypeOK
<1>5. /\ cursor' \in [Stmts -> {"Closed", "Rows", "Drained"}]
      /\ operation' \in [Stmts -> Threads \cup {NoThread}]
  BY <1>1 DEF Handles, Stays, Takes, TakesFor, GivesFor, Gives, Frees, Installs, stmtVars, TypeOK
<1>. QED
  BY <1>1, <1>2, <1>3, <1>4, <1>5 DEF TypeOK, DbcTypes, Alive, Moves

\* Nothing changes.
LEMMA StutterStep ==
    ASSUME UNCHANGED vars
    PROVE  /\ TypeOK => TypeOK'
           /\ WireInv => WireInv'
           /\ ControlInv => ControlInv'
           /\ UserNameFresh => UserNameFresh'
<1>. USE DEF vars, wireVars, dbcVars, stmtVars
<1>1. TypeOK => TypeOK'
  BY DEF TypeOK, WireTypeOK
<1>2. WireInv => WireInv'
  BY DEF WireInv, WireDocInvariants, LeaseIsHeld, ParkedIsLive, LeasesDistinct, HeldIsOlder,
     Holding, Current
<1>3. ControlInv => ControlInv'
  BY DEF ControlInv, CallInv, OperationInv, ClosedInv, ReservationIsCursor, Holding, Current
<1>4. UserNameFresh => UserNameFresh'
  BY DEF UserNameFresh
<1>. QED
  BY <1>1, <1>2, <1>3, <1>4

---------------------------------------------------------------------------
(* The database user.                                                      *)

\* A step that neither looks up a name nor touches the session or the reset
\* count leaves a fresh name fresh.
Forgets ==
    \/ database_user_name' = NoName
    \/ UNCHANGED <<database_user_name, sessions, reset_generation>>

\* Such a step keeps UserNameFresh.
LEMMA ForgetsKeeps ==
    ASSUME UserNameFresh, Forgets
    PROVE  UserNameFresh'
  BY DEF UserNameFresh, Forgets

\* Only SQLDriverConnect makes a session.
LEMMA WireSessions ==
    ASSUME NEW t \in Threads,
           \/ UNCHANGED wireVars \/ Uninstall
           \/ \E who, policy : Claim(t, who, policy)
           \/ \E how : Restore(t, how)
    PROVE  sessions' = sessions
  BY DEF wireVars, Uninstall, Claim, Restore

\* Every step keeps UserNameFresh; a lookup publishes for the session it asked.
LEMMA UserNameStep ==
    ASSUME TypeOK, WireInv, ControlInv, UserNameFresh, NEW t \in Threads, Step(t)
    PROVE  UserNameFresh'
<1>1. ASSUME NEW s \in Stmts, ExecClaim(t, s)
      PROVE  UserNameFresh'
  BY <1>1, ForgetsKeeps, WireSessions DEF ExecClaim, Forgets, dbcVars
<1>2. ASSUME NEW s \in Stmts, FetchClaim(t, s)
      PROVE  UserNameFresh'
  BY <1>2, ForgetsKeeps, WireSessions DEF FetchClaim, Forgets, dbcVars
<1>3. ASSUME NEW s \in Stmts, CloseCursor(t, s)
      PROVE  UserNameFresh'
  BY <1>3, ForgetsKeeps, WireSessions DEF CloseCursor, Forgets, dbcVars
<1>4. CASE ExecBegin(t)
  BY <1>4, ForgetsKeeps, WireSessions DEF ExecBegin, Forgets, dbcVars
<1>5. CASE ExecBeginFails(t)
  BY <1>5, ForgetsKeeps, WireSessions DEF ExecBeginFails, Forgets, dbcVars
<1>6. CASE ExecFails(t)
  BY <1>6, ForgetsKeeps, WireSessions DEF ExecFails, Forgets, dbcVars
<1>7. ASSUME NEW left \in {"Closed", "Rows", "Drained"}, ExecFinish(t, left)
      PROVE  UserNameFresh'
  BY <1>7, ForgetsKeeps, WireSessions DEF ExecFinish, Forgets, dbcVars
<1>8. ASSUME NEW left \in {"Closed", "Rows", "Drained"}, FetchFinish(t, left)
      PROVE  UserNameFresh'
  BY <1>8, ForgetsKeeps, WireSessions DEF FetchFinish, Forgets, dbcVars
<1>9. CASE CloseReturns(t)
  BY <1>9, ForgetsKeeps, WireSessions DEF CloseReturns, GiveUp, Forgets, dbcVars
<1>10. ASSUME NEW s \in Stmts, SweepSkip(t, s)
       PROVE  UserNameFresh'
  BY <1>10, ForgetsKeeps, WireSessions DEF SweepSkip, Forgets, dbcVars
<1>11. ASSUME NEW s \in Stmts, SweepClaim(t, s)
       PROVE  UserNameFresh'
  BY <1>11, ForgetsKeeps, WireSessions DEF SweepClaim, Forgets, dbcVars
<1>12. ASSUME NEW s \in Stmts, SweepBusy(t, s)
       PROVE  UserNameFresh'
  BY <1>12, ForgetsKeeps, WireSessions DEF SweepBusy, Forgets, dbcVars
<1>13. ASSUME NEW ok \in BOOLEAN, SweepDrain(t, ok)
       PROVE  UserNameFresh'
  BY <1>13, ForgetsKeeps, WireSessions DEF SweepDrain, Forgets, dbcVars
<1>14. CASE SweepFailed(t)
  BY <1>14, ForgetsKeeps, WireSessions DEF SweepFailed, GiveUp, Forgets, dbcVars
<1>15. CASE EndTran(t)
  BY <1>15, ForgetsKeeps, WireSessions DEF EndTran, Forgets, dbcVars
<1>16. CASE EndTranNothing(t)
  BY <1>16, ForgetsKeeps, WireSessions DEF EndTranNothing, GiveUp, Forgets, dbcVars
<1>17. CASE EndTranClaim(t)
  BY <1>17, ForgetsKeeps, WireSessions
     DEF EndTranClaim, ClaimDbcClient, ClaimRefused, GiveUp, Forgets, dbcVars
<1>18. CASE EndTranFinish(t)
  BY <1>18, ForgetsKeeps, WireSessions DEF EndTranFinish, Forgets, dbcVars
<1>19. ASSUME NEW enable \in BOOLEAN, SetAutocommit(t, enable)
       PROVE  UserNameFresh'
  BY <1>19, ForgetsKeeps, WireSessions DEF SetAutocommit, Forgets, dbcVars
<1>20. CASE AutocommitClaim(t)
  BY <1>20, ForgetsKeeps, WireSessions
     DEF AutocommitClaim, ClaimDbcClient, ClaimRefused, GiveUp, Forgets, dbcVars
<1>21. CASE AutocommitOn(t)
  BY <1>21, ForgetsKeeps, WireSessions DEF AutocommitOn, Forgets, dbcVars
<1>22. CASE AutocommitOff(t)
  BY <1>22, ForgetsKeeps, WireSessions DEF AutocommitOff, Forgets, dbcVars
<1>23. ASSUME NEW level \in Levels, SetIsolation(t, level)
       PROVE  UserNameFresh'
  BY <1>23, ForgetsKeeps, WireSessions DEF SetIsolation, Forgets, dbcVars
<1>24. CASE IsolationClaim(t)
  BY <1>24, ForgetsKeeps, WireSessions
     DEF IsolationClaim, ClaimDbcClient, ClaimRefused, GiveUp, Forgets, dbcVars
<1>25. CASE IsolationFinish(t)
  BY <1>25, ForgetsKeeps, WireSessions DEF IsolationFinish, Forgets, dbcVars
<1>26. CASE ResetEnter(t)
  BY <1>26, ForgetsKeeps, WireSessions DEF ResetEnter, Forgets, dbcVars
<1>27. CASE ResetClaim(t)
  BY <1>27, ForgetsKeeps, WireSessions
     DEF ResetClaim, ClaimDbcClient, ClaimRefused, GiveUp, Forgets, dbcVars
<1>28. CASE ResetArm(t)
  BY <1>28, ForgetsKeeps, WireSessions DEF ResetArm, NameAfterReset, Forgets
<1>29. CASE ResetFails(t)
  BY <1>29, ForgetsKeeps, WireSessions DEF ResetFails, Forgets, dbcVars
<1>30. CASE LookupClaim(t)
  BY <1>30, ForgetsKeeps, WireSessions DEF LookupClaim, Forgets, dbcVars
<1>31. ASSUME NEW answered \in BOOLEAN, LookupPublish(t, answered)
       PROVE  UserNameFresh'
  <2>1. CASE Publishes(t) /\ answered
    <3>1. call[t].gen = sessions /\ call[t].op = "UserName"
      BY <1>31, <2>1 DEF LookupPublish, Publishes, At
    <3>2. held[t].session = sessions
      BY <3>1 DEF ControlInv, CallInv
    <3>. QED
      BY <1>31, <2>1, <3>2, WireSessions DEF LookupPublish, UserNameFresh
  <2>2. CASE ~(Publishes(t) /\ answered)
    BY <1>31, <2>2, ForgetsKeeps, WireSessions DEF LookupPublish, Forgets
  <2>. QED
    BY <2>1, <2>2
<1>32. CASE Disconnect(t)
  BY <1>32, ForgetsKeeps, WireSessions DEF Disconnect, Forgets, dbcVars
<1>33. CASE DisconnectClaim(t)
  BY <1>33, ForgetsKeeps, WireSessions DEF DisconnectClaim, Forgets, dbcVars
<1>34. CASE DisconnectRollback(t)
  BY <1>34, ForgetsKeeps, WireSessions DEF DisconnectRollback, Forgets, dbcVars
<1>35. CASE DisconnectFree(t)
  BY <1>35, ForgetsKeeps DEF DisconnectFree, ClearSession, Forgets
<1>36. CASE Connect(t)
  BY <1>36, ForgetsKeeps, WireSessions DEF Connect, Forgets, dbcVars
<1>37. CASE PostConnectDefault(t)
  BY <1>37, ForgetsKeeps, WireSessions DEF PostConnectDefault, Forgets, dbcVars
<1>38. CASE MarkServerIsolationKnown(t)
  BY <1>38, ForgetsKeeps, WireSessions DEF MarkServerIsolationKnown, Forgets, dbcVars
<1>39. CASE PostConnectClaim(t)
  BY <1>39, ForgetsKeeps, WireSessions
     DEF PostConnectClaim, ClaimRefused, GiveUp, Forgets, dbcVars
<1>40. CASE PostConnectFinish(t)
  <2>1. \/ Restore(t, "Release") /\ UNCHANGED <<database_user_name, reset_generation>>
        \/ database_user_name' = NoName
    BY <1>40 DEF PostConnectFinish
  <2>. QED
    BY <2>1, ForgetsKeeps, WireSessions DEF Forgets
<1>. QED
  BY <1>1, <1>2, <1>3, <1>4, <1>5, <1>6, <1>7, <1>8, <1>9, <1>10, <1>11, <1>12, <1>13, <1>14,
     <1>15, <1>16, <1>17, <1>18, <1>19, <1>20, <1>21, <1>22, <1>23, <1>24, <1>25, <1>26, <1>27,
     <1>28, <1>29, <1>30, <1>31, <1>32, <1>33, <1>34, <1>35, <1>36, <1>37, <1>38, <1>39, <1>40
     DEF Step, Statement, Sweep, Transaction, Recycle, Life

---------------------------------------------------------------------------
(* The control as a whole.                                                 *)

\* What holds of every connection, whoever calls what.
OdbcInv == TypeOK /\ WireInv /\ ControlInv /\ UserNameFresh

\* The inductive invariant holds for any threads, statements, levels, sessions
\* and resets, with or without transactions in T-SQL, and with calls that outlive
\* their session.
THEOREM OdbcInvCorrect == Spec => []OdbcInv
<1>1. Init => OdbcInv
  <2>. SUFFICES ASSUME Init PROVE OdbcInv
    OBVIOUS
  <2>1. WireTypeOK /\ WireInv
    <3>1. NoLease \in Leases
      BY DEF Leases
    <3>. QED
      BY <3>1, OwnersAssumption, MaxSessionsAssumption
         DEF Init, WireInit, WireTypeOK, WireInv, WireDocInvariants, LeaseIsHeld, ParkedIsLive,
             LeasesDistinct, HeldIsOlder, Holding, NoLease
  <2>2. FreshSession \in Sessions /\ NoName \in Names
    BY LevelsAssumption, MaxSessionsAssumption, ResetsAssumption
       DEF FreshSession, Sessions, NoName, Names
  <2>3. TypeOK
    <3>1. /\ session \in [1..MaxSessions -> Sessions] /\ call \in [Threads -> CallRecords]
          /\ cursor \in [Stmts -> {"Closed", "Rows", "Drained"}]
          /\ operation \in [Stmts -> Threads \cup {NoThread}]
      BY <2>2, NoCallType DEF Init
    <3>2. reset_generation \in 0..MaxResets /\ txn_isolation \in Levels
      BY LevelsAssumption, ResetsAssumption DEF Init
    <3>. QED
      BY <2>1, <2>2, <3>1, <3>2 DEF Init, WireInit, TypeOK
  <2>4. ~OfStatement(NoCall) /\ ~OfClosed(NoCall) /\ NoCall.pc \notin HoldPoints
    BY NoCallType DEF OfStatement, OfClosed, HoldPoints
  <2>5. CallInv
    BY <2>4, NoCallType DEF Init, WireInit, CallInv, Holding, NoLease
  <2>6. OperationInv /\ ClosedInv /\ ReservationIsCursor
    BY <2>4, OwnersAssumption
       DEF Init, WireInit, OperationInv, ClosedInv, ReservationIsCursor
  <2>. QED
    BY <2>1, <2>3, <2>5, <2>6 DEF OdbcInv, ControlInv, Init, UserNameFresh
<1>2. OdbcInv /\ [Next]_vars => OdbcInv'
  <2>1. ASSUME OdbcInv, NEW t \in Threads, Step(t) PROVE OdbcInv'
    <3>1. Moves(t) /\ Handles(t)
      BY <2>1, StepHandles DEF OdbcInv, ControlInv
    <3>2. WireInv'
      BY <2>1, <3>1, HandlesKeepWire DEF OdbcInv, TypeOK
    <3>. QED
      BY <2>1, <3>2, TypeStep, ControlStep, UserNameStep DEF OdbcInv
  <2>2. ASSUME OdbcInv, UNCHANGED vars PROVE OdbcInv'
    BY <2>2, StutterStep DEF OdbcInv
  <2>. QED
    BY <2>1, <2>2 DEF Next, Step
<1>. QED
  BY <1>1, <1>2, PTL DEF Spec

\* A handle is Connected exactly while it has a client, parked or leased
\* (DbcState), and every call's record is of its type.
THEOREM OdbcTypeCorrect == Spec => []TypeOK
  BY OdbcInvCorrect, PTL DEF OdbcInv

\* The invariants of the doc comment on ConnectionWire hold of the wire as the
\* calls of txn.rs, driver_connect.rs, disconnect.rs and the statements use it.
THEOREM OdbcWireCorrect == Spec => []WireInv
  BY OdbcInvCorrect, PTL DEF OdbcInv

\* Whatever calls interleave, one of them at a time drives the live session, a
\* reservation is honoured, and the client of a session that was disconnected
\* under its call never comes back (wire.rs as the calls use it).
THEOREM OdbcRefines == Spec => ClientExclusive
<1>1. Init => Exclusive!Init
  BY DEF Init, WireInit, Exclusive!Init, LiveSession, LiveHolder
<1>2. OdbcInv /\ [Next]_vars => [Exclusive!Next]_(Exclusive!vars)
  <2>1. ASSUME OdbcInv, NEW t \in Threads, Step(t) PROVE [Exclusive!Next]_(Exclusive!vars)
    <3>1. Handles(t)
      BY <2>1, StepHandles DEF OdbcInv, ControlInv
    <3>. QED
      BY <2>1, <3>1, HandlesRefine DEF OdbcInv, TypeOK
  <2>2. ASSUME OdbcInv, UNCHANGED vars PROVE [Exclusive!Next]_(Exclusive!vars)
    BY <2>2, WireRefinesStep DEF vars, wireVars, OdbcInv, TypeOK
  <2>. QED
    BY <2>1, <2>2 DEF Next, Step
<1>. QED
  BY <1>1, <1>2, OdbcInvCorrect, PTL DEF Spec, ClientExclusive, Exclusive!Spec

\* A cursor with rows left has the wire reserved, and nothing else does once its
\* calls have returned: no fetch reports an early end, and no reservation locks
\* the connection for good (finish_execute, release_busy_if_row_exhausted and
\* close_all_cursors).
THEOREM ReservationCorrect == Spec => []ReservationIsCursor
  BY OdbcInvCorrect, PTL DEF OdbcInv, ControlInv

\* publish_lookup: a cached database user is that of the session on the handle
\* since its last reset, even if the lookup outlived a disconnect and a connect.
THEOREM UserNameCorrect == Spec => []UserNameFresh
  BY OdbcInvCorrect, PTL DEF OdbcInv

---------------------------------------------------------------------------
(* Who calls what.                                                         *)

\* A step enters a function the caller may call, with what its entry checked,
\* goes on with the call or returns.
Goes(t) ==
    \/ call'[t].op = "None"
    \/ /\ call'[t].op = call[t].op
       /\ call[t].op # "Connect" => call'[t].arg = call[t].arg
       /\ call[t].op = "Connect" /\ call'[t].pc = "Held" =>
            call'[t].arg = txn_isolation /\ (call'[t].seen => ~autocommit)
    \/ /\ call[t].op = "None" /\ MayCall(t, call'[t].op)
       /\ call'[t].op = "Autocommit" => autocommit # call'[t].arg
       /\ call'[t].op \in {"Isolation", "Disconnect"} => ~local_tran_started
       /\ call'[t].op = "EndTran" => call'[t].seen = local_tran_started
       /\ call'[t].op = "Connect" => call'[t].pc = "Post" /\ sessions' = sessions + 1

\* Every step does.
LEMMA StepGoes ==
    ASSUME TypeOK, CallInv, NEW t \in Threads, Step(t)
    PROVE  Goes(t)
<1>t. /\ call \in [Threads -> CallRecords] /\ call[t] \in CallRecords
      /\ call[t].pc \in {"Sweep", "Drain"} => call[t].op # "Connect"
  BY DEF TypeOK, CallInv, Shape, Placed
<1>1. ASSUME NEW s \in Stmts, ExecClaim(t, s)
      PROVE  Goes(t)
  <2> DEFINE r == [NoCall EXCEPT !.op = "Exec", !.pc = "Held", !.stmt = s]
  <2>1. r.op = "Exec"
    BY NoCallType DEF CallRecords
  <2>2. call' = [call EXCEPT ![t] = r] /\ MayCall(t, "Exec")
    BY <1>1 DEF ExecClaim
  <2>. HIDE DEF r
  <2>. QED
    BY <1>t, <2>1, <2>2 DEF Goes, MayCall, Idle
<1>2. ASSUME NEW s \in Stmts, FetchClaim(t, s)
      PROVE  Goes(t)
  <2> DEFINE r == [NoCall EXCEPT !.op = "Fetch", !.pc = "Held", !.stmt = s]
  <2>1. r.op = "Fetch"
    BY NoCallType DEF CallRecords
  <2>2. call' = [call EXCEPT ![t] = r] /\ MayCall(t, "Fetch")
    BY <1>2 DEF FetchClaim
  <2>. HIDE DEF r
  <2>. QED
    BY <1>t, <2>1, <2>2 DEF Goes, MayCall, Idle
<1>3. ASSUME NEW s \in Stmts, CloseCursor(t, s)
      PROVE  Goes(t)
  <2> DEFINE r == [NoCall EXCEPT !.op = "Close", !.pc = "Sweep", !.todo = {s}]
  <2>1. r.op = "Close"
    BY NoCallType DEF CallRecords
  <2>2. call' = [call EXCEPT ![t] = r] /\ MayCall(t, "Close")
    BY <1>3 DEF CloseCursor
  <2>. HIDE DEF r
  <2>. QED
    BY <1>t, <2>1, <2>2 DEF Goes, MayCall, Idle
<1>4. CASE ExecBegin(t)
  <2>1. Goto(t, "Begun")
    BY <1>4 DEF ExecBegin
  <2>. QED
    BY <1>t, <2>1, GotoFacts DEF Goes
<1>5. CASE ExecBeginFails(t)
  <2>1. Return(t)
    BY <1>5 DEF ExecBeginFails
  <2>. QED
    BY <1>t, <2>1, ReturnFacts, NoCallType DEF Goes
<1>6. CASE ExecFails(t)
  <2>1. Return(t)
    BY <1>6 DEF ExecFails
  <2>. QED
    BY <1>t, <2>1, ReturnFacts, NoCallType DEF Goes
<1>7. ASSUME NEW left \in {"Closed", "Rows", "Drained"}, ExecFinish(t, left)
      PROVE  Goes(t)
  <2>1. Return(t)
    BY <1>7 DEF ExecFinish
  <2>. QED
    BY <1>t, <2>1, ReturnFacts, NoCallType DEF Goes
<1>8. ASSUME NEW left \in {"Closed", "Rows", "Drained"}, FetchFinish(t, left)
      PROVE  Goes(t)
  <2>1. Return(t)
    BY <1>8 DEF FetchFinish
  <2>. QED
    BY <1>t, <2>1, ReturnFacts, NoCallType DEF Goes
<1>9. CASE CloseReturns(t)
  <2>1. Return(t)
    BY <1>9 DEF CloseReturns, GiveUp
  <2>. QED
    BY <1>t, <2>1, ReturnFacts, NoCallType DEF Goes
<1>10. ASSUME NEW s \in Stmts, SweepSkip(t, s)
       PROVE  Goes(t)
  <2> DEFINE r == [call[t] EXCEPT !.todo = @ \ {s}]
  <2>1. r.op = call[t].op /\ r.arg = call[t].arg
    BY <1>t DEF CallRecords
  <2>2. call' = [call EXCEPT ![t] = r] /\ call[t].op # "Connect"
    BY <1>10, <1>t DEF SweepSkip
  <2>. HIDE DEF r
  <2>. QED
    BY <1>t, <2>1, <2>2 DEF Goes
<1>11. ASSUME NEW s \in Stmts, SweepClaim(t, s)
       PROVE  Goes(t)
  <2> DEFINE r == [call[t] EXCEPT !.pc = "Drain", !.stmt = s]
  <2>1. r.op = call[t].op /\ r.arg = call[t].arg
    BY <1>t DEF CallRecords
  <2>2. call' = [call EXCEPT ![t] = r] /\ call[t].op # "Connect"
    BY <1>11, <1>t DEF SweepClaim
  <2>. HIDE DEF r
  <2>. QED
    BY <1>t, <2>1, <2>2 DEF Goes
<1>12. ASSUME NEW s \in Stmts, SweepBusy(t, s)
       PROVE  Goes(t)
  <2> DEFINE r == [call[t] EXCEPT !.todo = @ \ {s},
                                  !.bad = @ \/ wire_owner = s
                                            \/ (wire_lease = 0 /\ wire_owner = NoOwner)]
  <2>1. r.op = call[t].op /\ r.arg = call[t].arg
    BY <1>t DEF CallRecords
  <2>2. call' = [call EXCEPT ![t] = r] /\ call[t].op # "Connect"
    BY <1>12, <1>t DEF SweepBusy
  <2>. HIDE DEF r
  <2>. QED
    BY <1>t, <2>1, <2>2 DEF Goes
<1>13. ASSUME NEW ok \in BOOLEAN, SweepDrain(t, ok)
       PROVE  Goes(t)
  <2> DEFINE r == [call[t] EXCEPT !.pc = "Sweep", !.todo = @ \ {call[t].stmt},
                                  !.stmt = NoOwner, !.bad = @ \/ ~ok \/ ~Current(t)]
  <2>1. r.op = call[t].op /\ r.arg = call[t].arg
    BY <1>t DEF CallRecords
  <2>2. call' = [call EXCEPT ![t] = r] /\ call[t].op # "Connect"
    BY <1>13, <1>t DEF SweepDrain
  <2>. HIDE DEF r
  <2>. QED
    BY <1>t, <2>1, <2>2 DEF Goes
<1>14. CASE SweepFailed(t)
  <2>1. Return(t)
    BY <1>14 DEF SweepFailed, GiveUp
  <2>. QED
    BY <1>t, <2>1, ReturnFacts, NoCallType DEF Goes
<1>15. CASE EndTran(t)
  <2>1. Enter(t, "EndTran", "Sweep", TRUE, local_tran_started, 0) /\ MayCall(t, "EndTran")
    BY <1>15 DEF EndTran
  <2>2. call'[t].op = "EndTran" /\ call'[t].seen = local_tran_started
    BY <1>t, <2>1 DEF Enter
  <2>. QED
    BY <2>1, <2>2 DEF Goes, MayCall, Idle
<1>16. CASE EndTranNothing(t)
  <2>1. Return(t)
    BY <1>16 DEF EndTranNothing, GiveUp
  <2>. QED
    BY <1>t, <2>1, ReturnFacts, NoCallType DEF Goes
<1>17. CASE EndTranClaim(t)
  <2>1. Goto(t, "Held") \/ Return(t)
    BY <1>17 DEF EndTranClaim, ClaimDbcClient, ClaimRefused, GiveUp
  <2>2. call[t].op # "Connect"
    BY <1>17, <1>t DEF EndTranClaim, Swept, At
  <2>. QED
    BY <1>t, <2>1, <2>2, GotoFacts, ReturnFacts, NoCallType DEF Goes
<1>18. CASE EndTranFinish(t)
  <2>1. Return(t)
    BY <1>18 DEF EndTranFinish
  <2>. QED
    BY <1>t, <2>1, ReturnFacts, NoCallType DEF Goes
<1>19. ASSUME NEW enable \in BOOLEAN, SetAutocommit(t, enable)
       PROVE  Goes(t)
  <2>1. CASE UNCHANGED call
    BY <1>19, <2>1 DEF SetAutocommit, MayCall, Idle, Goes
  <2>2. CASE Enter(t, "Autocommit", "Sweep", enable, FALSE, 0)
    <3>1. call'[t].op = "Autocommit" /\ call'[t].arg = enable
      BY <1>t, <2>2 DEF Enter
    <3>. QED
      BY <1>19, <3>1 DEF SetAutocommit, Goes, MayCall, Idle
  <2>. QED
    BY <1>19, <2>1, <2>2 DEF SetAutocommit
<1>20. CASE AutocommitClaim(t)
  <2>1. Goto(t, "Held") \/ Return(t)
    BY <1>20 DEF AutocommitClaim, ClaimDbcClient, ClaimRefused, GiveUp
  <2>2. call[t].op # "Connect"
    BY <1>20, <1>t DEF AutocommitClaim, Swept, At
  <2>. QED
    BY <1>t, <2>1, <2>2, GotoFacts, ReturnFacts, NoCallType DEF Goes
<1>21. CASE AutocommitOn(t)
  <2>1. Return(t)
    BY <1>21 DEF AutocommitOn
  <2>. QED
    BY <1>t, <2>1, ReturnFacts, NoCallType DEF Goes
<1>22. CASE AutocommitOff(t)
  <2>1. Return(t)
    BY <1>22 DEF AutocommitOff
  <2>. QED
    BY <1>t, <2>1, ReturnFacts, NoCallType DEF Goes
<1>23. ASSUME NEW level \in Levels, SetIsolation(t, level)
       PROVE  Goes(t)
  <2>1. CASE UNCHANGED call
    BY <1>23, <2>1 DEF SetIsolation, MayCall, Idle, Goes
  <2>2. CASE Enter(t, "Isolation", "Claim", level, FALSE, reset_generation)
    <3>1. call'[t].op = "Isolation" /\ call'[t].arg = level
      BY <1>t, <2>2 DEF Enter
    <3>. QED
      BY <1>23, <3>1 DEF SetIsolation, IsolationAllowed, Goes, MayCall, Idle
  <2>. QED
    BY <1>23, <2>1, <2>2 DEF SetIsolation
<1>24. CASE IsolationClaim(t)
  <2>1. Goto(t, "Held") \/ Return(t)
    BY <1>24 DEF IsolationClaim, ClaimDbcClient, ClaimRefused, GiveUp
  <2>2. call[t].op # "Connect"
    BY <1>24, <1>t DEF IsolationClaim, Swept, At
  <2>. QED
    BY <1>t, <2>1, <2>2, GotoFacts, ReturnFacts, NoCallType DEF Goes
<1>25. CASE IsolationFinish(t)
  <2>1. Return(t)
    BY <1>25 DEF IsolationFinish
  <2>. QED
    BY <1>t, <2>1, ReturnFacts, NoCallType DEF Goes
<1>26. CASE ResetEnter(t)
  <2>1. Enter(t, "Reset", "Sweep", TRUE, local_tran_started, 0) /\ MayCall(t, "Reset")
    BY <1>26 DEF ResetEnter
  <2>2. call'[t].op = "Reset" /\ call'[t].arg = TRUE /\ call'[t].pc = "Sweep"
    BY <1>t, <2>1 DEF Enter
  <2>. QED
    BY <2>1, <2>2 DEF Goes, MayCall, Idle
<1>27. CASE ResetClaim(t)
  <2>1. Goto(t, "Held") \/ Return(t)
    BY <1>27 DEF ResetClaim, ClaimDbcClient, ClaimRefused, GiveUp
  <2>2. call[t].op # "Connect"
    BY <1>27, <1>t DEF ResetClaim, Swept, At
  <2>. QED
    BY <1>t, <2>1, <2>2, GotoFacts, ReturnFacts, NoCallType DEF Goes
<1>28. CASE ResetArm(t)
  <2>1. Return(t)
    BY <1>28 DEF ResetArm
  <2>. QED
    BY <1>t, <2>1, ReturnFacts, NoCallType DEF Goes
<1>29. CASE ResetFails(t)
  <2>1. Return(t)
    BY <1>29 DEF ResetFails
  <2>. QED
    BY <1>t, <2>1, ReturnFacts, NoCallType DEF Goes
<1>30. CASE LookupClaim(t)
  <2>1. Enter(t, "UserName", "Held", TRUE, FALSE, sessions) /\ MayCall(t, "UserName")
    BY <1>30 DEF LookupClaim
  <2>2. call'[t].op = "UserName" /\ call'[t].arg = TRUE /\ call'[t].pc = "Held"
    BY <1>t, <2>1 DEF Enter
  <2>. QED
    BY <2>1, <2>2 DEF Goes, MayCall, Idle
<1>31. ASSUME NEW answered \in BOOLEAN, LookupPublish(t, answered)
       PROVE  Goes(t)
  <2>1. Return(t)
    BY <1>31 DEF LookupPublish
  <2>. QED
    BY <1>t, <2>1, ReturnFacts, NoCallType DEF Goes
<1>32. CASE Disconnect(t)
  <2>1. /\ Enter(t, "Disconnect", "Sweep", TRUE, FALSE, 0) /\ MayCall(t, "Disconnect")
        /\ ~local_tran_started
    BY <1>32 DEF Disconnect, DisconnectAllowed
  <2>2. call'[t].op = "Disconnect" /\ call'[t].arg = TRUE /\ call'[t].pc = "Sweep"
    BY <1>t, <2>1 DEF Enter
  <2>. QED
    BY <2>1, <2>2 DEF Goes, MayCall, Idle
<1>33. CASE DisconnectClaim(t)
  <2>1. (Goto(t, "Held") \/ Goto(t, "Free")) /\ call[t].op # "Connect"
    BY <1>33 DEF DisconnectClaim, Swept, At
  <2>. QED
    BY <1>t, <2>1, GotoFacts DEF Goes
<1>34. CASE DisconnectRollback(t)
  <2>1. Goto(t, "Free")
    BY <1>34 DEF DisconnectRollback
  <2>. QED
    BY <1>t, <2>1, GotoFacts DEF Goes
<1>35. CASE DisconnectFree(t)
  <2>1. Return(t)
    BY <1>35 DEF DisconnectFree
  <2>. QED
    BY <1>t, <2>1, ReturnFacts, NoCallType DEF Goes
<1>36. CASE Connect(t)
  <2>1. /\ Enter(t, "Connect", "Post", TRUE, FALSE, 0) /\ MayCall(t, "Connect")
        /\ sessions' = sessions + 1
    BY <1>36 DEF Connect, Install
  <2>2. call'[t].op = "Connect" /\ call'[t].arg = TRUE /\ call'[t].pc = "Post"
    BY <1>t, <2>1 DEF Enter
  <2>. QED
    BY <2>1, <2>2 DEF Goes, MayCall, Idle
<1>37. CASE PostConnectDefault(t)
  <2>1. Goto(t, "Mark")
    BY <1>37 DEF PostConnectDefault
  <2>. QED
    BY <1>t, <2>1, GotoFacts DEF Goes
<1>38. CASE MarkServerIsolationKnown(t)
  <2>1. Return(t)
    BY <1>38 DEF MarkServerIsolationKnown
  <2>. QED
    BY <1>t, <2>1, ReturnFacts, NoCallType DEF Goes
<1>39. CASE PostConnectClaim(t)
  <2>1. CASE Return(t)
    BY <1>t, <2>1, ReturnFacts, NoCallType DEF Goes
  <2>2. CASE ~Return(t)
    <3> DEFINE r == [call[t] EXCEPT !.pc = "Held", !.arg = txn_isolation, !.seen = ~autocommit]
    <3>1. /\ r.op = call[t].op /\ call[t].op = "Connect"
          /\ r.arg = txn_isolation /\ (r.seen => ~autocommit)
      BY <1>39, <1>t DEF CallRecords, PostConnectClaim, At
    <3>2. call' = [call EXCEPT ![t] = r]
      BY <1>39, <2>2 DEF PostConnectClaim, ClaimRefused, GiveUp
    <3>. HIDE DEF r
    <3>. QED
      BY <1>t, <3>1, <3>2 DEF Goes
  <2>. QED
    BY <2>1, <2>2
<1>40. CASE PostConnectFinish(t)
  <2>1. Return(t)
    BY <1>40 DEF PostConnectFinish
  <2>. QED
    BY <1>t, <2>1, ReturnFacts, NoCallType DEF Goes
<1>. QED
  BY <1>1, <1>2, <1>3, <1>4, <1>5, <1>6, <1>7, <1>8, <1>9, <1>10, <1>11, <1>12, <1>13, <1>14,
     <1>15, <1>16, <1>17, <1>18, <1>19, <1>20, <1>21, <1>22, <1>23, <1>24, <1>25, <1>26, <1>27,
     <1>28, <1>29, <1>30, <1>31, <1>32, <1>33, <1>34, <1>35, <1>36, <1>37, <1>38, <1>39, <1>40
     DEF Step, Statement, Sweep, Transaction, Recycle, Life

\* Attributes are set, connected and disconnected by the threads that do so.  If
\* that is one thread, its leases are never stale.
SetterInv ==
    /\ \A t \in Threads : call[t].op \in AttrCalls => t \in AttrThreads
    /\ \A t \in AttrThreads : Holding(t) => Current(t)

\* One thread sets the attributes, connects and disconnects.
OneSetter == \A t, u \in AttrThreads : t = u

\* Every step keeps SetterInv, if there is one such thread.
LEMMA SetterStep ==
    ASSUME OneSetter, TypeOK, WireInv, ControlInv, SetterInv, NEW t \in Threads, Step(t)
    PROVE  SetterInv'
<1>0. /\ Moves(t) /\ Handles(t) /\ Goes(t) /\ WireTypeOK
      /\ call[t].op \in AttrCalls => t \in AttrThreads
      /\ AttrThreads \subseteq Threads
  BY StepHandles, StepGoes, AttrAssumption DEF ControlInv, TypeOK, SetterInv
<1>1. call'[t].op \in AttrCalls => t \in AttrThreads
  BY <1>0 DEF Goes, MayCall, AttrCalls
<1>2. ASSUME NEW u \in AttrThreads, Holding(u)' PROVE wire_lease' = held'[u].id
  <2>1. CASE Stays(t)
    BY <1>0, <1>2, <2>1 DEF SetterInv, Stays, wireVars, Holding, Current
  <2>2. CASE Takes(t) \/ \E s \in Stmts : TakesFor(t, s)
    BY <1>0, <1>2, <2>2, ClaimMoves DEF SetterInv, Takes, TakesFor, Owners, Holding, Current
  <2>3. CASE Restore(t, "Release") \/ Restore(t, "KeepReservation")
    BY <1>0, <1>2, <2>3, RestoreMoves DEF SetterInv, Holding, Current, NoLease
  <2>4. CASE DropClient(t) /\ call[t].op = "Connect"
    <3>1. u = t
      BY <1>0, <2>4 DEF OneSetter, AttrCalls
    <3>. QED
      BY <1>0, <1>2, <2>4, <3>1, RestoreMoves DEF Holding, NoLease
  <2>5. CASE Frees(t)
    <3>1. u = t
      BY <1>0, <2>5 DEF Frees, OneSetter, AttrCalls
    <3>. QED
      BY <1>0, <1>2, <2>5, <3>1 DEF Frees, Uninstall, Holding, ControlInv, CallInv
  <2>6. CASE Installs(t)
    <3>1. u = t
      BY <1>0, <1>1, <2>6 DEF Installs, OneSetter, AttrCalls
    <3>. QED
      BY <1>0, <1>2, <2>6, <3>1
         DEF Installs, Install, Holding, ControlInv, CallInv, Shape, Placed, HoldPoints
  <2>. QED
    BY <1>0, <2>1, <2>2, <2>3, <2>4, <2>5, <2>6 DEF Handles, Gives, GivesFor
<1>. QED
  BY <1>0, <1>1, <1>2 DEF SetterInv, Moves, Current

---------------------------------------------------------------------------
(* User work.                                                              *)

\* The session on the handle.
Live == session[sessions]

\* A session that was not installed yet is fresh.
FreshInv == \A n \in 1..MaxSessions : n > sessions => session[n] = FreshSession

\* What becomes of the session on the handle when a call is done with its
\* client: a stale one is another's.
LEMMA LiveStep ==
    ASSUME TypeOK, WireInv, NEW t \in Threads, Holding(t), NEW c \in Sessions,
           ClientBecomes(t, c), sessions' = sessions
    PROVE  /\ Current(t) => Live' = c /\ Mine(t) = Live /\ connected
           /\ ~Current(t) /\ connected => Live' = Live
           /\ FreshInv => FreshInv'
<1>1. /\ held[t].session \in 1..MaxSessions /\ held[t].session <= sessions
      /\ session \in [1..MaxSessions -> Sessions] /\ sessions \in 0..MaxSessions
      /\ session' = [session EXCEPT ![held[t].session] = c]
  BY DEF TypeOK, WireTypeOK, Holding, Leases, NoLease, ClientBecomes, WireInv, HeldIsOlder
<1>2. CASE Current(t)
  <2>1. held[t].session = sessions /\ wire_lease # 0
    BY <1>2, CurrentIsNewest DEF TypeOK
  <2>2. connected
    BY <2>1 DEF TypeOK
  <2>. QED
    BY <1>1, <1>2, <2>1, <2>2 DEF Live, Mine, FreshInv
<1>3. CASE ~Current(t)
  <2>1. connected => held[t].session < sessions
    BY <1>3 DEF TypeOK, WireInv, HeldIsOlder, ParkedIsLive
  <2>. QED
    BY <1>1, <1>3, <2>1 DEF Live, FreshInv
<1>. QED
  BY <1>2, <1>3

\* What the outcomes of a round trip are.
LEMMA Outcomes ==
    ASSUME NEW c \in Sessions
    PROVE  /\ ~Ended(c).txn /\ ~Ended(c).work /\ Ended(c).dead = c.dead
           /\ ~Killed(c).work /\ Killed(c).dead /\ Killed(c).txn = c.txn
           /\ Begun(c).txn /\ Begun(c).work = c.work /\ Begun(c).dead = c.dead
           /\ \A d \in InDoubt(c) : ~d.work /\ d.txn = c.txn /\ (c.dead => d.dead)
           /\ \A d : Completes(c, d) = IF c.dead THEN {} ELSE {d}
  <1>1. [c EXCEPT !.work = FALSE] \in Sessions
    BY DEF Sessions
  <1> QED
    BY <1>1 DEF Ended, Killed, Begun, InDoubt, Completes, Sessions

\* A statement that leaves transactions to the driver adds work to the open one, or
\* has it aborted by the server.
LEMMA ExecOutcomes ==
    ASSUME NEW c \in Sessions, RawSql = FALSE, NEW d \in Executed(c)
    PROVE  /\ ~c.dead
           /\ \/ d.txn = c.txn /\ (d.work => c.work \/ c.txn) /\ ~d.dead
              \/ d = Ended(c)
  <1>1. [c EXCEPT !.work = @ \/ c.txn] \in Sessions
    BY DEF Sessions
  <1> QED
    BY <1>1 DEF Executed, Sessions

\* The work in a session is inside its transaction.  In manual-commit mode the
\* flag is up while there is work; in autocommit mode there is no work, and no
\* transaction unless the connection died while it was begun.
WorkOf(c) ==
    /\ c.work => c.txn
    /\ autocommit => ~c.work /\ (c.txn => c.dead)
    /\ ~autocommit /\ c.work => local_tran_started

\* An execution raises the flag before it runs, and a switch of the mode is from
\* the other one.
WorkInv ==
    /\ FreshInv
    /\ connected => WorkOf(Live)
    /\ \A t \in Threads : call[t].op = "Exec" /\ call[t].pc = "Begun" /\ ~autocommit
            /\ Live.txn => local_tran_started
    /\ \A t \in Threads : call[t].op = "Autocommit" => autocommit # call[t].arg
    /\ \A t \in Threads : call[t].op = "Connect" /\ call[t].pc = "Held" /\ call[t].seen
            => ~autocommit
    /\ AutocommitKeepsWork

\* Another call that executes has the client.
LEMMA ExecAlone ==
    ASSUME TypeOK, WireInv, ControlInv, NEW t \in Threads, Holding(t), Current(t),
           NEW u \in Threads, call[u].op = "Exec"
    PROVE  u = t
<1>1. OfStatement(call[u]) /\ call[u].stmt \in Stmts /\ operation[call[u].stmt] = u
  BY DEF OfStatement, ControlInv, CallInv, Shape, OperationInv
<1>2. Current(u) /\ Holding(u)
  BY <1>1, InUse, ThreadsAssumption DEF ControlInv, OperationInv
<1>. QED
  BY <1>2 DEF WireInv, LeasesDistinct, Current

\* An execution has its client when it begins.
LEMMA BeginStays ==
    ASSUME NEW t \in Threads, Handles(t), call'[t].pc = "Begun"
    PROVE  UNCHANGED wireVars /\ call[t].pc \in HoldPoints
  BY NoCallType
     DEF Handles, Stays, Takes, TakesFor, GivesFor, Gives, Frees, Installs, HoldPoints

\* A step that touches neither the sessions nor the mode and the flag.
LEMMA WorkQuiet ==
    ASSUME TypeOK, WorkInv, NEW t \in Threads, Moves(t), Goes(t), Handles(t),
           call[t].pc \notin HoldPoints,
           UNCHANGED <<session, sessions, connected, autocommit, local_tran_started, lost>>
    PROVE  WorkInv'
<1>1. FreshInv' /\ (connected' => WorkOf(Live)')
  BY DEF WorkInv, FreshInv, WorkOf, Live
<1>2. AutocommitKeepsWork'
  BY DEF WorkInv, AutocommitKeepsWork
<1>3. \A u \in Threads : call'[u].op = "Exec" /\ call'[u].pc = "Begun" /\ ~autocommit'
            /\ Live'.txn => local_tran_started'
  BY BeginStays DEF WorkInv, Live, Moves
<1>4. \A u \in Threads : call'[u].op = "Autocommit" => autocommit' # call'[u].arg
  BY DEF WorkInv, Moves, Goes
<1>5. \A u \in Threads : call'[u].op = "Connect" /\ call'[u].pc = "Held" /\ call'[u].seen
            => ~autocommit'
  BY DEF WorkInv, Moves, Goes
<1>. QED
  BY <1>1, <1>2, <1>3, <1>4, <1>5 DEF WorkInv

\* A call hands its client back: what it left in the session decides, unless its
\* lease is stale.
LEMMA WorkBack ==
    ASSUME TypeOK, WireInv, ControlInv, WorkInv, NEW t \in Threads, Moves(t), Goes(t),
           NEW c \in Sessions, ClientBecomes(t, c), Holding(t),
           Restore(t, "Release") \/ Restore(t, "KeepReservation") \/ DropClient(t),
           connected' => connected, Handles(t),
           Current(t) => WorkOf(c)',
           ~Current(t) => UNCHANGED <<autocommit, local_tran_started>>,
           autocommit' # autocommit =>
               \A u \in Threads : u # t => call[u].op \notin {"Autocommit", "Connect"},
           autocommit' # autocommit => call'[t].op = "None",
           lost' \subseteq lost \cup {"Disconnect", "Isolation"}
    PROVE  WorkInv'
<1>1. sessions' = sessions
  BY DEF Restore, DropClient
<1>2. /\ Current(t) => Live' = c /\ Mine(t) = Live /\ connected
      /\ ~Current(t) /\ connected => Live' = Live
      /\ FreshInv'
  BY <1>1, LiveStep DEF WorkInv
<1>3. connected' => WorkOf(Live)'
  <2>1. CASE Current(t)
    BY <1>2, <2>1 DEF WorkOf
  <2>2. CASE ~Current(t)
    BY <1>2, <2>2 DEF WorkInv, WorkOf
  <2>. QED
    BY <2>1, <2>2
<1>4. ASSUME NEW u \in Threads, call'[u].op = "Exec", call'[u].pc = "Begun", ~autocommit',
             Live'.txn
      PROVE  local_tran_started'
  <2>1. held'[t] # held[t]
    BY RestoreMoves DEF TypeOK, Holding, NoLease
  <2>2. u # t /\ call[u].op = "Exec" /\ call[u].pc = "Begun"
    BY <1>4, <2>1, BeginStays DEF Moves, wireVars
  <2>3. ~Current(t)
    BY <2>2, ExecAlone
  <2>4. connected
    BY <2>2, InUse, ThreadsAssumption
       DEF TypeOK, ControlInv, CallInv, Shape, OperationInv, OfStatement
  <2>. QED
    BY <1>2, <1>4, <2>2, <2>3, <2>4 DEF WorkInv
<1>5. ASSUME NEW u \in Threads, call'[u].op = "Autocommit"
      PROVE  autocommit' # call'[u].arg
  <2>1. CASE u = t
    BY <1>5, <2>1 DEF WorkInv, Goes
  <2>2. CASE u # t
    BY <1>5, <2>2 DEF WorkInv, Moves
  <2>. QED
    BY <2>1, <2>2
<1>6. ASSUME NEW u \in Threads, call'[u].op = "Connect", call'[u].pc = "Held", call'[u].seen
      PROVE  ~autocommit'
  <2>1. CASE u = t
    BY <1>6, <2>1 DEF WorkInv, Goes
  <2>2. CASE u # t
    BY <1>6, <2>2 DEF WorkInv, Moves
  <2>. QED
    BY <2>1, <2>2
<1>7. AutocommitKeepsWork'
  BY DEF WorkInv, AutocommitKeepsWork
<1>. QED
  BY <1>2, <1>3, <1>4, <1>5, <1>6, <1>7 DEF WorkInv

\* What a change of the isolation level and the settings of a new session may
\* leave of a client: never more work than it had.
LEMMA IsolationOutcomes ==
    ASSUME NEW c \in Sessions, NEW level \in Levels, NEW ok \in BOOLEAN, NEW d,
           d \in IF ok THEN Completes(c, [SetOn(Ended(c), level) EXCEPT !.txn = c.txn])
                 ELSE {c, Killed(c)} \cup
                      IF c.dead THEN {}
                      ELSE {Ended(c), SetOn(Ended(c), level),
                            [SetOn(Ended(c), level) EXCEPT !.txn = c.txn],
                            Killed(Ended(c)), Killed(SetOn(Ended(c), level)),
                            Killed([SetOn(Ended(c), level) EXCEPT !.txn = c.txn])}
    PROVE  /\ d \in Sessions /\ (d.work => c.work) /\ (d.txn => c.txn)
           /\ d.work => d.txn \/ ~c.txn
           /\ c.dead => d.dead
  <1> DEFINE e == Ended(c)
             s == SetOn(e, level)
             f == [s EXCEPT !.txn = c.txn]
  <1>1. e \in Sessions /\ ~e.txn /\ ~e.work
    BY RoundTrips, Outcomes
  <1>. HIDE DEF e
  <1>2. s \in Sessions /\ ~s.txn /\ ~s.work
    BY <1>1 DEF SetOn, Sessions
  <1>. HIDE DEF s
  <1>3. f \in Sessions /\ f.txn = c.txn /\ ~f.work
    BY <1>2 DEF Sessions
  <1>. HIDE DEF f
  <1>4. /\ Killed(c) \in Sessions /\ ~Killed(c).work /\ Killed(c).dead /\ Killed(c).txn = c.txn
        /\ Killed(e) \in Sessions /\ ~Killed(e).work /\ ~Killed(e).txn
        /\ Killed(s) \in Sessions /\ ~Killed(s).work /\ ~Killed(s).txn
        /\ Killed(f) \in Sessions /\ ~Killed(f).work /\ Killed(f).txn = c.txn
    BY <1>1, <1>2, <1>3, RoundTrips, Outcomes
  <1>5. d \in IF ok THEN Completes(c, f)
              ELSE {c, Killed(c)} \cup
                   IF c.dead THEN {} ELSE {e, s, f, Killed(e), Killed(s), Killed(f)}
    BY DEF e, s, f
  <1> QED
    BY <1>1, <1>2, <1>3, <1>4, <1>5 DEF Completes

\* The settings of a new session begin a transaction only in manual-commit mode.
LEMMA PostOutcomes ==
    ASSUME NEW m \in Sessions, NEW level \in Levels, NEW applied \in BOOLEAN,
           NEW seen \in BOOLEAN, NEW c \in Sessions, NEW d \in Sessions,
           c \in IF level = ReadCommitted THEN {m}
                 ELSE IF applied THEN Completes(m, SetOn(m, level))
                 ELSE {m, SetOn(m, level), Killed(m)},
           d \in IF seen THEN {c, Begun(c), Killed(c), Killed(Begun(c))} ELSE {c},
           c.dead => d = c
    PROVE  /\ d.work => m.work
           /\ ~seen => d.txn = m.txn
           /\ d.work => d.txn \/ ~m.txn
           /\ m.dead => d.dead
  <1> DEFINE s == SetOn(m, level)
  <1>1. /\ s.txn = m.txn /\ s.work = m.work /\ s.dead = m.dead
    BY DEF SetOn, Sessions
  <1>2. ~Killed(m).work /\ Killed(m).dead /\ Killed(m).txn = m.txn
    BY Outcomes
  <1>. HIDE DEF s
  <1>3. c \in IF level = ReadCommitted THEN {m} ELSE IF applied THEN Completes(m, s)
              ELSE {m, s, Killed(m)}
    BY DEF s
  <1>4. /\ c.work => m.work
        /\ c.txn = m.txn
        /\ m.dead => c.dead
    BY <1>1, <1>2, <1>3 DEF Completes
  <1>5. /\ Begun(c).txn /\ Begun(c).work = c.work /\ Begun(c).dead = c.dead
        /\ ~Killed(c).work /\ Killed(c).dead /\ Killed(c).txn = c.txn
    BY Outcomes
  <1>6. Begun(c) \in Sessions
    BY RoundTrips
  <1>7. ~Killed(Begun(c)).work /\ Killed(Begun(c)).dead
    BY <1>6, Outcomes
  <1> QED
    BY <1>4, <1>5, <1>7

\* Every step keeps work inside a flagged transaction, if statements leave
\* transactions to the driver and one thread sets the attributes.
LEMMA WorkStep ==
    ASSUME RawSql = FALSE, OneSetter, TypeOK, WireInv, ControlInv, SetterInv, WorkInv,
           NEW t \in Threads, Step(t)
    PROVE  WorkInv'
<1>0. /\ Moves(t) /\ Handles(t) /\ Goes(t) /\ WireTypeOK /\ Shape(call[t])
      /\ Holding(t) => Mine(t) \in Sessions
      /\ call[t].pc \in HoldPoints <=> Holding(t)
      /\ call[t].op = "None" => call[t].pc = "None"
      /\ call[t].op = "Exec" => Current(t)
      /\ \A u \in Threads : call[u].op = "Exec" =>
            connected /\ call[u].stmt \in Stmts /\ operation[call[u].stmt] # NoThread
      /\ \A c : LostWith(t, c) \subseteq {"Disconnect"}
  <2>1. \A u \in Threads : call[u].op = "Exec" =>
            call[u].stmt \in Stmts /\ operation[call[u].stmt] = u
    BY DEF ControlInv, CallInv, Shape, OperationInv, OfStatement
  <2>2. \A u \in Threads : call[u].op = "Exec" => connected /\ Current(u)
    BY <2>1, InUse, ThreadsAssumption DEF TypeOK, ControlInv, OperationInv
  <2>3. Holding(t) => Mine(t) \in Sessions
    BY DEF TypeOK, WireTypeOK, Holding, Mine, Leases, NoLease
  <2>. QED
    BY <2>1, <2>2, <2>3, StepHandles, StepGoes, ThreadsAssumption
       DEF TypeOK, ControlInv, CallInv, Shape, Placed, LostWith
<1>s. /\ \A u \in Threads : call[u].op \in AttrCalls => u \in AttrThreads
      /\ t \in AttrThreads => \A u \in Threads : call[u].op \in AttrCalls => u = t
      /\ t \in AttrThreads /\ Holding(t) => Current(t)
  BY DEF SetterInv, OneSetter
<1>1. ASSUME NEW s \in Stmts, ExecClaim(t, s)
      PROVE  WorkInv'
  BY <1>1, <1>0, WireSessions, WorkQuiet
     DEF ExecClaim, MayCall, Idle, At, Swept, HoldPoints, dbcVars
<1>2. ASSUME NEW s \in Stmts, FetchClaim(t, s)
      PROVE  WorkInv'
  BY <1>2, <1>0, WireSessions, WorkQuiet
     DEF FetchClaim, MayCall, Idle, At, Swept, HoldPoints, dbcVars
<1>3. ASSUME NEW s \in Stmts, CloseCursor(t, s)
      PROVE  WorkInv'
  BY <1>3, <1>0, WireSessions, WorkQuiet
     DEF CloseCursor, MayCall, Idle, At, Swept, HoldPoints, dbcVars
<1>4. CASE ExecBegin(t)
  <2>1. Holding(t) /\ Mine(t) \in Sessions /\ Current(t)
    BY <1>4, <1>0 DEF ExecBegin, At, HoldPoints
  <2>a. PICK c \in IF ~autocommit /\ ~Mine(t).txn THEN Completes(Mine(t), Begun(Mine(t)))
                   ELSE {Mine(t)} :
           /\ ClientBecomes(t, c)
           /\ local_tran_started' = IF autocommit THEN local_tran_started ELSE c.txn
    BY <1>4 DEF ExecBegin, StartedFlag
  <2>b. c = Mine(t) \/ (c = Begun(Mine(t)) /\ ~autocommit /\ ~Mine(t).txn)
    BY <2>1, <2>a DEF Completes
  <2>2. /\ c \in Sessions /\ ClientBecomes(t, c)
        /\ c = Mine(t) \/ (c = Begun(Mine(t)) /\ ~autocommit /\ ~Mine(t).txn)
        /\ autocommit => UNCHANGED local_tran_started
        /\ ~autocommit => local_tran_started' = c.txn
    BY <2>1, <2>a, <2>b, RoundTrips
  <2>3. UNCHANGED <<wireVars, connected, autocommit, lost>> /\ sessions' = sessions
    BY <1>4 DEF ExecBegin, wireVars
  <2>4. /\ WorkOf(Mine(t)) /\ Mine(t) = Live /\ Live' = c /\ FreshInv'
    BY <2>1, <2>2, <2>3, LiveStep DEF WorkInv
  <2>5. WorkOf(Live)'
    BY <2>1, <2>2, <2>3, <2>4, Outcomes DEF WorkOf
  <2>6. \A u \in Threads : call'[u].op = "Exec" /\ call'[u].pc = "Begun" /\ ~autocommit'
              /\ Live'.txn => local_tran_started'
    <3>1. \A u \in Threads : call'[u].op = "Exec" => u = t
      BY <1>0, <2>1, ExecAlone DEF Moves
    <3>. QED
      BY <2>2, <2>3, <2>4, <3>1
  <2>7. call'[t].op = "Exec"
    BY <1>4, <1>0, GotoFacts DEF ExecBegin, At, TypeOK
  <2>. QED
    BY <1>0, <2>3, <2>4, <2>5, <2>6, <2>7 DEF WorkInv, AutocommitKeepsWork, Moves
<1>5. CASE ExecBeginFails(t)
  <2>1. Holding(t) /\ Mine(t) \in Sessions /\ Current(t) /\ ~autocommit /\ ~Mine(t).txn
    BY <1>5, <1>0 DEF ExecBeginFails, At, HoldPoints
  <2>a. PICK c \in {Mine(t), Killed(Mine(t))} \cup Completes(Mine(t), Begun(Mine(t))) :
           ClientBecomes(t, c) /\ local_tran_started' = c.txn
    BY <1>5 DEF ExecBeginFails, StartedFlag
  <2>b. c \in {Mine(t), Killed(Mine(t)), Begun(Mine(t))}
    BY <2>1, <2>a DEF Completes
  <2>2. /\ c \in Sessions /\ ClientBecomes(t, c)
        /\ c \in {Mine(t), Killed(Mine(t)), Begun(Mine(t))}
        /\ local_tran_started' = c.txn
    BY <2>1, <2>a, <2>b, RoundTrips
  <2>3. Restore(t, "Release") /\ UNCHANGED <<connected, autocommit, lost>>
    BY <1>5 DEF ExecBeginFails
  <2>4. sessions' = sessions
    BY <2>3, WireSessions
  <2>5. WorkOf(Mine(t))
    BY <2>1, <2>2, <2>4, LiveStep DEF WorkInv
  <2>6. WorkOf(c)'
    BY <2>1, <2>2, <2>3, <2>5, Outcomes DEF WorkOf
  <2>. QED
    BY <1>0, <2>1, <2>2, <2>3, <2>6, WorkBack
<1>6. CASE ExecFails(t)
  <2>1. Holding(t) /\ Mine(t) \in Sessions
    BY <1>6, <1>0 DEF ExecFails, At, HoldPoints
  <2>2. PICK c \in Sessions : /\ ClientBecomes(t, c)
                              /\ c \in {Mine(t), Ended(Mine(t)), Killed(Mine(t))}
    BY <1>6, <2>1, RoundTrips DEF ExecFails
  <2>3. /\ Restore(t, "Release")
        /\ connected' => connected
        /\ lost' \subseteq lost \cup {"Disconnect", "Isolation"}
        /\ UNCHANGED <<autocommit, local_tran_started>>
    BY <1>6, <1>0 DEF ExecFails, dbcVars
  <2>4. sessions' = sessions
    BY <2>3, WireSessions DEF DropClient
  <2>5. Current(t) => WorkOf(Mine(t)) /\ Mine(t) = Live
    BY <2>1, <2>2, <2>4, LiveStep DEF WorkInv
  <2>6. Current(t) => WorkOf(c)'
    BY <2>1, <2>2, <2>3, <2>5, Outcomes DEF WorkOf
  <2>. QED
    BY <1>0, <2>1, <2>2, <2>3, <2>6, WorkBack
<1>7. ASSUME NEW left \in {"Closed", "Rows", "Drained"}, ExecFinish(t, left)
      PROVE  WorkInv'
  <2>1. Holding(t) /\ Mine(t) \in Sessions /\ Current(t)
    BY <1>7, <1>0 DEF ExecFinish, At, HoldPoints
  <2>2. PICK c \in Executed(Mine(t)) : ClientBecomes(t, c)
    BY <1>7 DEF ExecFinish
  <2>3. /\ Restore(t, "Release") \/ Restore(t, "KeepReservation")
        /\ UNCHANGED <<connected, autocommit, local_tran_started, lost>>
    BY <1>7 DEF ExecFinish, dbcVars
  <2>4. sessions' = sessions /\ c \in Sessions
    BY <2>1, <2>2, <2>3, WireSessions, RoundTrips
  <2>5. WorkOf(Mine(t)) /\ Mine(t) = Live
    BY <2>1, <2>2, <2>4, LiveStep DEF WorkInv
  <2>6. ~autocommit /\ Mine(t).txn => local_tran_started
    BY <1>7, <2>5 DEF ExecFinish, At, WorkInv
  <2>7. /\ ~Mine(t).dead
        /\ \/ c.txn = Mine(t).txn /\ (c.work => Mine(t).work \/ Mine(t).txn) /\ ~c.dead
           \/ c = Ended(Mine(t))
    BY <2>1, <2>2, ExecOutcomes
  <2>8. WorkOf(c)'
    BY <2>1, <2>3, <2>5, <2>6, <2>7, Outcomes DEF WorkOf
  <2>. QED
    BY <1>0, <2>1, <2>2, <2>3, <2>4, <2>8, WorkBack
<1>8. ASSUME NEW left \in {"Closed", "Rows", "Drained"}, FetchFinish(t, left)
      PROVE  WorkInv'
  <2>1. Holding(t) /\ Mine(t) \in Sessions
    BY <1>8, <1>0 DEF FetchFinish, At, HoldPoints
  <2>2. PICK c \in Sessions : /\ ClientBecomes(t, c)
                              /\ c \in {Mine(t), Ended(Mine(t)), Killed(Mine(t))}
    BY <1>8, <2>1, RoundTrips DEF FetchFinish, FetchReturn
  <2>3. /\ Restore(t, "Release") \/ Restore(t, "KeepReservation")
        /\ connected' => connected
        /\ lost' \subseteq lost \cup {"Disconnect", "Isolation"}
        /\ UNCHANGED <<autocommit, local_tran_started>>
    BY <1>8, <1>0 DEF FetchFinish, dbcVars, FetchReturn
  <2>4. sessions' = sessions
    BY <2>3, WireSessions DEF DropClient
  <2>5. Current(t) => WorkOf(Mine(t)) /\ Mine(t) = Live
    BY <2>1, <2>2, <2>4, LiveStep DEF WorkInv
  <2>6. Current(t) => WorkOf(c)'
    BY <2>1, <2>2, <2>3, <2>5, Outcomes DEF WorkOf
  <2>. QED
    BY <1>0, <2>1, <2>2, <2>3, <2>6, WorkBack
<1>9. CASE CloseReturns(t)
  BY <1>9, <1>0, WireSessions, WorkQuiet
     DEF CloseReturns, GiveUp, MayCall, Idle, At, Swept, HoldPoints, dbcVars
<1>10. ASSUME NEW s \in Stmts, SweepSkip(t, s)
       PROVE  WorkInv'
  BY <1>10, <1>0, WireSessions, WorkQuiet
     DEF SweepSkip, MayCall, Idle, At, Swept, HoldPoints, dbcVars
<1>11. ASSUME NEW s \in Stmts, SweepClaim(t, s)
       PROVE  WorkInv'
  BY <1>11, <1>0, WireSessions, WorkQuiet
     DEF SweepClaim, MayCall, Idle, At, Swept, HoldPoints, dbcVars
<1>12. ASSUME NEW s \in Stmts, SweepBusy(t, s)
       PROVE  WorkInv'
  BY <1>12, <1>0, WireSessions, WorkQuiet
     DEF SweepBusy, MayCall, Idle, At, Swept, HoldPoints, dbcVars
<1>13. ASSUME NEW ok \in BOOLEAN, SweepDrain(t, ok)
       PROVE  WorkInv'
  <2>1. Holding(t) /\ Mine(t) \in Sessions
    BY <1>13, <1>0 DEF SweepDrain, At, HoldPoints
  <2>2. PICK c \in Sessions : /\ ClientBecomes(t, c)
                              /\ c \in {Mine(t), Ended(Mine(t)), Killed(Mine(t))}
    BY <1>13, <2>1, RoundTrips DEF SweepDrain
  <2>3. /\ Restore(t, "Release")
        /\ connected' => connected
        /\ lost' \subseteq lost \cup {"Disconnect", "Isolation"}
        /\ UNCHANGED <<autocommit, local_tran_started>>
    BY <1>13, <1>0 DEF SweepDrain, dbcVars
  <2>4. sessions' = sessions
    BY <2>3, WireSessions DEF DropClient
  <2>5. Current(t) => WorkOf(Mine(t)) /\ Mine(t) = Live
    BY <2>1, <2>2, <2>4, LiveStep DEF WorkInv
  <2>6. Current(t) => WorkOf(c)'
    BY <2>1, <2>2, <2>3, <2>5, Outcomes DEF WorkOf
  <2>. QED
    BY <1>0, <2>1, <2>2, <2>3, <2>6, WorkBack
<1>14. CASE SweepFailed(t)
  BY <1>14, <1>0, WireSessions, WorkQuiet
     DEF SweepFailed, GiveUp, MayCall, Idle, At, Swept, HoldPoints, dbcVars
<1>15. CASE EndTran(t)
  BY <1>15, <1>0, WireSessions, WorkQuiet
     DEF EndTran, MayCall, Idle, At, Swept, HoldPoints, dbcVars
<1>16. CASE EndTranNothing(t)
  BY <1>16, <1>0, WireSessions, WorkQuiet
     DEF EndTranNothing, GiveUp, MayCall, Idle, At, Swept, HoldPoints, dbcVars
<1>17. CASE EndTranClaim(t)
  BY <1>17, <1>0, WireSessions, WorkQuiet
     DEF EndTranClaim, ClaimDbcClient, ClaimRefused, GiveUp, MayCall, Idle, At, Swept,
         HoldPoints, dbcVars
<1>18. CASE EndTranFinish(t)
  <2>1. Holding(t) /\ Mine(t) \in Sessions
    BY <1>18, <1>0 DEF EndTranFinish, At, HoldPoints
  <2>a. PICK c \in IF Mine(t).txn
                THEN Completes(Mine(t), Ended(Mine(t))) \cup InDoubt(Mine(t))
                ELSE {Mine(t)} : ClientBecomes(t, c)
    BY <1>18 DEF EndTranFinish
  <2>b. IF Mine(t).txn THEN c = Ended(Mine(t)) \/ c \in InDoubt(Mine(t)) ELSE c = Mine(t)
    BY <2>1, <2>a DEF Completes
  <2>2. /\ c \in Sessions /\ ClientBecomes(t, c)
        /\ IF Mine(t).txn THEN c = Ended(Mine(t)) \/ c \in InDoubt(Mine(t)) ELSE c = Mine(t)
    BY <2>1, <2>a, <2>b, RoundTrips
  <2>3. /\ Restore(t, "Release")
        /\ connected' => connected
        /\ lost' \subseteq lost \cup {"Disconnect", "Isolation"}
        /\ UNCHANGED autocommit /\ (~Current(t) => UNCHANGED local_tran_started)
    BY <1>18, <1>0 DEF EndTranFinish, dbcVars
  <2>4. sessions' = sessions
    BY <2>3, WireSessions DEF DropClient
  <2>5. Current(t) => WorkOf(Mine(t)) /\ Mine(t) = Live
    BY <2>1, <2>2, <2>4, LiveStep DEF WorkInv
  <2>6. Current(t) => WorkOf(c)'
    BY <2>1, <2>2, <2>3, <2>5, Outcomes DEF WorkOf
  <2>. QED
    BY <1>0, <2>1, <2>2, <2>3, <2>6, WorkBack
<1>19. ASSUME NEW enable \in BOOLEAN, SetAutocommit(t, enable)
       PROVE  WorkInv'
  <2>1. CASE connected
    BY <1>19, <1>0, <2>1, WireSessions, WorkQuiet DEF SetAutocommit, MayCall, Idle, HoldPoints
  <2>2. CASE ~connected
    <3>1. /\ UNCHANGED <<session, sessions, connected, lost, call>>
          /\ t \in AttrThreads /\ call[t].op = "None"
      BY <1>19, <2>2, WireSessions DEF SetAutocommit, MayCall, Idle, AttrCalls
    <3>2. \A u \in Threads : call[u].op \notin {"Autocommit", "Connect"}
      BY <1>0, <1>s, <3>1 DEF AttrCalls
    <3>3. \A u \in Threads : call[u].op # "Exec"
      BY <1>0, <2>2
    <3>. QED
      BY <2>2, <3>1, <3>2, <3>3 DEF WorkInv, FreshInv, AutocommitKeepsWork
  <2>. QED
    BY <2>1, <2>2
<1>20. CASE AutocommitClaim(t)
  BY <1>20, <1>0, WireSessions, WorkQuiet
     DEF AutocommitClaim, ClaimDbcClient, ClaimRefused, GiveUp, MayCall, Idle, At, Swept,
         HoldPoints, dbcVars
<1>21. CASE AutocommitOn(t)
  <2>1. /\ Holding(t) /\ Mine(t) \in Sessions /\ Current(t)
        /\ call[t].op = "Autocommit" /\ ~autocommit
        /\ \A u \in Threads : u # t => call[u].op \notin {"Autocommit", "Connect"}
    BY <1>21, <1>0, <1>s DEF AutocommitOn, At, HoldPoints, WorkInv, AttrCalls
  <2>2. PICK ok \in BOOLEAN, c \in Sessions :
           /\ ClientBecomes(t, c)
           /\ c \in IF ~Mine(t).txn THEN {Mine(t)}
                    ELSE IF ok THEN Completes(Mine(t), Ended(Mine(t))) ELSE InDoubt(Mine(t))
           /\ Mine(t).txn \/ ok
           /\ lost' = lost \cup LostWith(t, c) \cup
                      (IF Mine(t).txn /\ Mine(t).work /\ ok /\ ~CommitsUserWork
                       THEN {"Autocommit"} ELSE {})
           /\ autocommit' = IF Current(t) /\ ok THEN TRUE ELSE autocommit
    BY <1>21 DEF AutocommitOn
  <2>3. Restore(t, "Release") /\ UNCHANGED connected /\ Return(t)
    BY <1>21 DEF AutocommitOn
  <2>4. sessions' = sessions
    BY <2>3, WireSessions
  <2>5. WorkOf(Mine(t))
    BY <2>1, <2>2, <2>4, LiveStep DEF WorkInv
  <2>6. WorkOf(c)'
    <3>1. ~c.work /\ (ok => ~c.txn)
      BY <2>1, <2>2, <2>5, Outcomes DEF WorkOf
    <3>2. ~ok => ~autocommit'
      BY <2>1, <2>2
    <3>. QED
      BY <3>1, <3>2 DEF WorkOf
  <2>7. lost' \subseteq lost \cup {"Disconnect", "Isolation"}
    BY <1>0, <2>1, <2>2, <2>5 DEF WorkOf, CommitsUserWork
  <2>8. call'[t].op = "None"
    BY <2>3, ReturnFacts, NoCallType DEF TypeOK
  <2>. QED
    BY <1>0, <2>1, <2>2, <2>3, <2>6, <2>7, <2>8, WorkBack
<1>22. CASE AutocommitOff(t)
  <2>1. /\ Holding(t) /\ Mine(t) \in Sessions /\ Current(t)
        /\ call[t].op = "Autocommit" /\ autocommit
        /\ \A u \in Threads : u # t => call[u].op \notin {"Autocommit", "Connect"}
    BY <1>22, <1>0, <1>s DEF AutocommitOff, At, HoldPoints, WorkInv, AttrCalls, TypeOK
  <2>2. PICK ok \in BOOLEAN, c \in Sessions :
           /\ ClientBecomes(t, c)
           /\ c \in IF Mine(t).txn THEN {Mine(t)}
                    ELSE IF ok THEN Completes(Mine(t), Begun(Mine(t)))
                    ELSE {Mine(t), Killed(Mine(t)), Killed(Begun(Mine(t)))}
           /\ Mine(t).txn => ok
           /\ lost' = lost \cup LostWith(t, c)
           /\ autocommit' = IF Current(t) /\ ok THEN FALSE ELSE autocommit
    BY <1>22 DEF AutocommitOff
  <2>3. Restore(t, "Release") /\ UNCHANGED connected /\ Return(t)
    BY <1>22 DEF AutocommitOff
  <2>4. sessions' = sessions
    BY <2>3, WireSessions
  <2>5. WorkOf(Mine(t))
    BY <2>1, <2>2, <2>4, LiveStep DEF WorkInv
  <2>6. WorkOf(c)'
    <3>1. ~Mine(t).work
      BY <2>1, <2>5 DEF WorkOf
    <3>2. Begun(Mine(t)) \in Sessions
      BY <2>1, RoundTrips
    <3>3. ~c.work /\ (~ok => ~c.txn \/ c.dead)
      BY <2>1, <2>2, <3>1, <3>2, Outcomes
    <3>4. ok => ~autocommit'
      BY <2>1, <2>2
    <3>. QED
      BY <3>3, <3>4 DEF WorkOf
  <2>7. lost' \subseteq lost \cup {"Disconnect", "Isolation"}
    BY <1>0, <2>2
  <2>8. call'[t].op = "None"
    BY <2>3, ReturnFacts, NoCallType DEF TypeOK
  <2>. QED
    BY <1>0, <2>1, <2>2, <2>3, <2>6, <2>7, <2>8, WorkBack
<1>23. ASSUME NEW level \in Levels, SetIsolation(t, level)
       PROVE  WorkInv'
  BY <1>23, <1>0, WireSessions, WorkQuiet
     DEF SetIsolation, MayCall, Idle, At, Swept, HoldPoints, dbcVars
<1>24. CASE IsolationClaim(t)
  BY <1>24, <1>0, WireSessions, WorkQuiet
     DEF IsolationClaim, ClaimDbcClient, ClaimRefused, GiveUp, MayCall, Idle, At, Swept,
         HoldPoints, dbcVars
<1>25. CASE IsolationFinish(t)
  <2>1. /\ Holding(t) /\ Mine(t) \in Sessions /\ call[t].arg \in Levels
    BY <1>25, <1>0 DEF IsolationFinish, At, HoldPoints, Shape
  <2>2. PICK c \in Sessions :
           /\ ClientBecomes(t, c) /\ (c.work => Mine(t).work)
           /\ c.txn => Mine(t).txn /\ (~c.work => c.dead \/ ~Mine(t).dead)
           /\ c.work => c.txn \/ ~Mine(t).txn
           /\ Mine(t).dead => c.dead
           /\ lost' \subseteq lost \cup {"Disconnect", "Isolation"}
    BY <1>25, <1>0, <2>1, IsolationOutcomes DEF IsolationFinish
  <2>3. Restore(t, "Release") /\ UNCHANGED <<connected, autocommit, local_tran_started>>
    BY <1>25 DEF IsolationFinish
  <2>4. sessions' = sessions
    BY <2>3, WireSessions
  <2>5. Current(t) => WorkOf(Mine(t))
    BY <2>1, <2>2, <2>4, LiveStep DEF WorkInv
  <2>6. Current(t) => WorkOf(c)'
    BY <2>2, <2>3, <2>5 DEF WorkOf
  <2>. QED
    BY <1>0, <2>1, <2>2, <2>3, <2>6, WorkBack
<1>26. CASE ResetEnter(t)
  BY <1>26, <1>0, WireSessions, WorkQuiet
     DEF ResetEnter, MayCall, Idle, At, Swept, HoldPoints, dbcVars
<1>27. CASE ResetClaim(t)
  BY <1>27, <1>0, WireSessions, WorkQuiet
     DEF ResetClaim, ClaimDbcClient, ClaimRefused, GiveUp, MayCall, Idle, At, Swept, HoldPoints,
         dbcVars
<1>28. CASE ResetArm(t)
  <2>1. Holding(t) /\ Mine(t) \in Sessions
    BY <1>28, <1>0 DEF ResetArm, At, HoldPoints
  <2>a. PICK c \in Sessions : c = [Ended(Mine(t)) EXCEPT !.synced = FALSE]
    BY <2>1, RoundTrips
  <2>b. Ended(Mine(t)) \in Sessions /\ ~Ended(Mine(t)).txn /\ ~Ended(Mine(t)).work
    BY <2>1, RoundTrips, Outcomes
  <2>2. c \in Sessions /\ ~c.txn /\ ~c.work
    BY <2>a, <2>b DEF Sessions
  <2>3. /\ ClientBecomes(t, c) /\ Restore(t, "Release") /\ UNCHANGED <<connected, autocommit, lost>>
        /\ ~Current(t) => UNCHANGED local_tran_started
    BY <1>28, <2>a DEF ResetArm
  <2>4. WorkOf(c)'
    BY <2>2 DEF WorkOf
  <2>. QED
    BY <1>0, <2>1, <2>2, <2>3, <2>4, WorkBack
<1>29. CASE ResetFails(t)
  <2>1. Holding(t) /\ Mine(t) \in Sessions
    BY <1>29, <1>0 DEF ResetFails, At, HoldPoints
  <2>2. PICK c \in Sessions : ClientBecomes(t, c) /\ (c = Killed(Mine(t)))
    BY <1>29, <2>1, RoundTrips DEF ResetFails
  <2>3. /\ Restore(t, "Release")
        /\ connected' => connected
        /\ lost' \subseteq lost \cup {"Disconnect", "Isolation"}
        /\ UNCHANGED <<autocommit, local_tran_started>>
    BY <1>29, <1>0 DEF ResetFails, dbcVars
  <2>4. sessions' = sessions
    BY <2>3, WireSessions DEF DropClient
  <2>5. Current(t) => WorkOf(Mine(t)) /\ Mine(t) = Live
    BY <2>1, <2>2, <2>4, LiveStep DEF WorkInv
  <2>6. Current(t) => WorkOf(c)'
    BY <2>1, <2>2, <2>3, <2>5, Outcomes DEF WorkOf
  <2>. QED
    BY <1>0, <2>1, <2>2, <2>3, <2>6, WorkBack
<1>30. CASE LookupClaim(t)
  BY <1>30, <1>0, WireSessions, WorkQuiet
     DEF LookupClaim, MayCall, Idle, At, Swept, HoldPoints, dbcVars
<1>31. ASSUME NEW answered \in BOOLEAN, LookupPublish(t, answered)
       PROVE  WorkInv'
  <2>1. Holding(t) /\ Mine(t) \in Sessions
    BY <1>31, <1>0 DEF LookupPublish, At, HoldPoints
  <2>2. PICK c \in Sessions : ClientBecomes(t, c) /\ (c = Mine(t))
    BY <1>31, <2>1, RoundTrips DEF LookupPublish
  <2>3. /\ Restore(t, "Release")
        /\ connected' => connected
        /\ lost' \subseteq lost \cup {"Disconnect", "Isolation"}
        /\ UNCHANGED <<autocommit, local_tran_started>>
    BY <1>31, <1>0 DEF LookupPublish, dbcVars
  <2>4. sessions' = sessions
    BY <2>3, WireSessions DEF DropClient
  <2>5. Current(t) => WorkOf(Mine(t)) /\ Mine(t) = Live
    BY <2>1, <2>2, <2>4, LiveStep DEF WorkInv
  <2>6. Current(t) => WorkOf(c)'
    BY <2>1, <2>2, <2>3, <2>5, Outcomes DEF WorkOf
  <2>. QED
    BY <1>0, <2>1, <2>2, <2>3, <2>6, WorkBack
<1>32. CASE Disconnect(t)
  BY <1>32, <1>0, WireSessions, WorkQuiet
     DEF Disconnect, MayCall, Idle, At, Swept, HoldPoints, dbcVars
<1>33. CASE DisconnectClaim(t)
  BY <1>33, <1>0, WireSessions, WorkQuiet
     DEF DisconnectClaim, MayCall, Idle, At, Swept, HoldPoints, dbcVars
<1>34. CASE DisconnectRollback(t)
  <2>1. Holding(t) /\ Mine(t) \in Sessions
    BY <1>34, <1>0 DEF DisconnectRollback, At, HoldPoints
  <2>a. PICK c \in IF Mine(t).txn
                THEN Completes(Mine(t), Ended(Mine(t))) \cup {Mine(t), Killed(Mine(t))}
                ELSE {Mine(t)} : ClientBecomes(t, c)
    BY <1>34 DEF DisconnectRollback
  <2>b. c \in {Mine(t), Ended(Mine(t)), Killed(Mine(t))}
    BY <2>1, <2>a DEF Completes
  <2>2. c \in Sessions /\ ClientBecomes(t, c) /\ (c \in {Mine(t), Ended(Mine(t)), Killed(Mine(t))})
    BY <2>1, <2>a, <2>b, RoundTrips
  <2>3. /\ Restore(t, "Release")
        /\ connected' => connected
        /\ lost' \subseteq lost \cup {"Disconnect", "Isolation"}
        /\ UNCHANGED <<autocommit, local_tran_started>>
    BY <1>34, <1>0 DEF DisconnectRollback, dbcVars
  <2>4. sessions' = sessions
    BY <2>3, WireSessions DEF DropClient
  <2>5. Current(t) => WorkOf(Mine(t)) /\ Mine(t) = Live
    BY <2>1, <2>2, <2>4, LiveStep DEF WorkInv
  <2>6. Current(t) => WorkOf(c)'
    BY <2>1, <2>2, <2>3, <2>5, Outcomes DEF WorkOf
  <2>. QED
    BY <1>0, <2>1, <2>2, <2>3, <2>6, WorkBack
<1>35. CASE DisconnectFree(t)
  <2>1. /\ UNCHANGED <<session, sessions, autocommit, local_tran_started>> /\ ~connected'
        /\ lost' \subseteq lost \cup {"Disconnect"} /\ StatementsUnused
    BY <1>35 DEF DisconnectFree, ClearSession, Uninstall
  <2>2. call'[t].op = "None"
    BY <1>35, ReturnFacts, NoCallType DEF DisconnectFree, TypeOK
  <2>3. \A u \in Threads : call'[u].op # "Exec"
    BY <1>0, <2>1, <2>2 DEF StatementsUnused, Moves
  <2>. QED
    BY <1>0, <2>1, <2>2, <2>3 DEF WorkInv, FreshInv, AutocommitKeepsWork, Moves
<1>36. CASE Connect(t)
  <2>1. /\ UNCHANGED <<session, autocommit, local_tran_started, lost>>
        /\ sessions' = sessions + 1 /\ sessions < MaxSessions /\ ~connected
    BY <1>36 DEF Connect, Install
  <2>2. sessions \in 0..MaxSessions
    BY DEF TypeOK, WireTypeOK
  <2>3. FreshInv' /\ Live' = FreshSession
    BY <2>1, <2>2, MaxSessionsAssumption DEF WorkInv, FreshInv, Live
  <2>4. WorkOf(Live)'
    BY <2>3 DEF WorkOf, FreshSession
  <2>5. call'[t].op = "Connect" /\ call'[t].pc = "Post"
    BY <1>36 DEF Connect, Enter, TypeOK
  <2>6. \A u \in Threads : call'[u].op # "Exec"
    BY <1>0, <2>1, <2>5 DEF Moves
  <2>. QED
    BY <1>0, <2>1, <2>3, <2>4, <2>5, <2>6 DEF WorkInv, AutocommitKeepsWork, Moves
<1>37. CASE PostConnectDefault(t)
  BY <1>37, <1>0, WireSessions, WorkQuiet
     DEF PostConnectDefault, MayCall, Idle, At, Swept, HoldPoints, dbcVars
<1>38. CASE MarkServerIsolationKnown(t)
  BY <1>38, <1>0, WireSessions, WorkQuiet
     DEF MarkServerIsolationKnown, MayCall, Idle, At, Swept, HoldPoints, dbcVars
<1>39. CASE PostConnectClaim(t)
  BY <1>39, <1>0, WireSessions, WorkQuiet
     DEF PostConnectClaim, ClaimRefused, GiveUp, MayCall, Idle, At, Swept, HoldPoints, dbcVars
<1>40. CASE PostConnectFinish(t)
  <2>1. /\ Holding(t) /\ Mine(t) \in Sessions /\ Current(t)
        /\ call[t].arg \in Levels /\ (call[t].seen => ~autocommit)
    BY <1>40, <1>0, <1>s DEF PostConnectFinish, At, HoldPoints, Shape, WorkInv, AttrCalls
  <2>a. PICK applied \in BOOLEAN, k \in Sessions, c \in Sessions :
           /\ k \in IF call[t].arg = ReadCommitted THEN {Mine(t)}
                    ELSE IF applied THEN Completes(Mine(t), SetOn(Mine(t), call[t].arg))
                    ELSE {Mine(t), SetOn(Mine(t), call[t].arg), Killed(Mine(t))}
           /\ c \in IF call[t].seen THEN {k, Begun(k), Killed(k), Killed(Begun(k))} ELSE {k}
           /\ k.dead => c = k
           /\ ClientBecomes(t, c)
           /\ lost' = lost \cup LostWith(t, c)
    BY <1>40 DEF PostConnectFinish
  <2>b. call[t].seen \in BOOLEAN
    BY DEF TypeOK, CallRecords
  <2>2. /\ ClientBecomes(t, c) /\ (c.work => Mine(t).work)
        /\ ~call[t].seen => c.txn = Mine(t).txn
        /\ c.work => c.txn \/ ~Mine(t).txn
        /\ Mine(t).dead => c.dead
        /\ lost' = lost \cup LostWith(t, c)
    BY <2>1, <2>a, <2>b, PostOutcomes
  <2>3. /\ Restore(t, "Release") \/ DropClient(t)
        /\ connected' => connected
        /\ UNCHANGED <<autocommit, local_tran_started>>
    BY <1>40, <2>1 DEF PostConnectFinish, DropClient
  <2>4. sessions' = sessions
    BY <2>3, WireSessions DEF DropClient
  <2>5. WorkOf(Mine(t))
    BY <2>1, <2>2, <2>4, LiveStep DEF WorkInv
  <2>6. WorkOf(c)'
    BY <2>1, <2>2, <2>3, <2>5 DEF WorkOf
  <2>. QED
    BY <1>0, <2>1, <2>2, <2>3, <2>6, WorkBack
<1>. QED
  BY <1>1, <1>2, <1>3, <1>4, <1>5, <1>6, <1>7, <1>8, <1>9, <1>10, <1>11, <1>12, <1>13, <1>14,
     <1>15, <1>16, <1>17, <1>18, <1>19, <1>20, <1>21, <1>22, <1>23, <1>24, <1>25, <1>26, <1>27,
     <1>28, <1>29, <1>30, <1>31, <1>32, <1>33, <1>34, <1>35, <1>36, <1>37, <1>38, <1>39, <1>40
     DEF Step, Statement, Sweep, Transaction, Recycle, Life

\* SetterInv and WorkInv hold at the start.
LEMMA WorkInit ==
    ASSUME Init
    PROVE  SetterInv /\ WorkInv
<1>1. \A t \in Threads : call[t].op = "None"
  BY NoCallType DEF Init
<1>2. \A t \in AttrThreads : ~Holding(t)
  BY AttrAssumption DEF Init, WireInit, Holding, NoLease
<1>. QED
  BY <1>1, <1>2 DEF Init, WireInit, SetterInv, AttrCalls, WorkInv, FreshInv, AutocommitKeepsWork

\* SetterInv and WorkInv are kept by stuttering.
LEMMA WorkStutter ==
    ASSUME UNCHANGED vars
    PROVE  (SetterInv => SetterInv') /\ (WorkInv => WorkInv')
<1>. USE DEF vars, dbcVars, wireVars
<1>1. SetterInv => SetterInv'
  BY DEF SetterInv, Holding, Current
<1>2. WorkInv => WorkInv'
  BY DEF WorkInv, FreshInv, WorkOf, Live, AutocommitKeepsWork
<1>. QED
  BY <1>1, <1>2

\* The invariant on user work, for any number of threads that run statements and
\* end transactions, if one thread sets the attributes and connects.
THEOREM WorkInvCorrect ==
    ASSUME RawSql = FALSE, OneSetter
    PROVE  Spec => [](SetterInv /\ WorkInv)
<1>1. Init => SetterInv /\ WorkInv
  BY WorkInit
<1>2. OdbcInv /\ SetterInv /\ WorkInv /\ [Next]_vars => SetterInv' /\ WorkInv'
  <2>1. ASSUME OdbcInv, SetterInv, WorkInv, NEW t \in Threads, Step(t)
        PROVE  SetterInv' /\ WorkInv'
    BY <2>1, SetterStep, WorkStep DEF OdbcInv
  <2>. QED
    BY <2>1, WorkStutter DEF Next, Step
<1>. QED
  BY <1>1, <1>2, OdbcInvCorrect, PTL DEF Spec

\* In manual-commit mode a session on the handle never holds user work without
\* local_tran_started (txn.rs, begin_transaction_if_manual and end_transaction):
\* SQLEndTran cannot answer success and leave it open.
THEOREM WorkFlaggedCorrect ==
    ASSUME RawSql = FALSE, OneSetter
    PROVE  Spec => []WorkIsFlagged
<1>1. OdbcInv /\ WorkInv => WorkIsFlagged
  BY DEF OdbcInv, TypeOK, WireInv, ParkedIsLive, WorkInv, WorkOf, Live, WorkIsFlagged
<1>. QED
  BY <1>1, WorkInvCorrect, OdbcInvCorrect, PTL

\* SQLEndTran, SQL_ATTR_TXN_ISOLATION and SQLDisconnect find local_tran_started
\* clear only when no user work is open, in whichever mode and whoever has the
\* client (txn.rs, end_transaction and set_txn_isolation; disconnect.rs): work that
\* was there when one of them was called is never passed over for want of the flag.
THEOREM ClearFlagCorrect ==
    ASSUME RawSql = FALSE, OneSetter
    PROVE  Spec => ClearFlagMeansNoWork
<1> DEFINE Reads(t) == connected /\ Idle(t) /\ ~call'[t].seen
                       /\ call'[t].op \in {"EndTran", "Isolation", "Disconnect"}
<1>1. ASSUME OdbcInv, WorkInv, NEW u \in Threads, Step(u), NEW t \in Threads, Reads(t)
      PROVE  ~session[sessions].work
  <2>1. u = t
    BY <1>1, StepHandles DEF OdbcInv, ControlInv, Moves, Idle
  <2>2. ~local_tran_started
    BY <1>1, <2>1, StepGoes DEF OdbcInv, ControlInv, Goes, Idle
  <2>. QED
    BY <1>1, <2>2 DEF WorkInv, WorkOf, Live
<1>2. ASSUME UNCHANGED vars, NEW t \in Threads
      PROVE  ~Reads(t)
  BY <1>2 DEF vars, Idle
<1>3. OdbcInv /\ WorkInv /\ [Next]_vars =>
        [\A t \in Threads : Reads(t) => ~session[sessions].work]_vars
  BY <1>1, <1>2 DEF Next, Step
<1>4. [\A t \in Threads : Reads(t) => ~session[sessions].work]_vars
      => [\A t \in Threads :
             (connected /\ Idle(t) /\ call'[t].op \in {"EndTran", "Isolation", "Disconnect"}
                /\ ~call'[t].seen) => ~session[sessions].work]_vars
  OBVIOUS
<1>. QED
  BY <1>3, <1>4, WorkInvCorrect, OdbcInvCorrect, PTL DEF Spec, ClearFlagMeansNoWork

\* switch_to_autocommit rolls back only a transaction without user work.
THEOREM AutocommitCorrect ==
    ASSUME RawSql = FALSE, OneSetter
    PROVE  Spec => []AutocommitKeepsWork
<1>1. WorkInv => AutocommitKeepsWork
  BY DEF WorkInv
<1>. QED
  BY <1>1, WorkInvCorrect, PTL

---------------------------------------------------------------------------
(* The isolation cache.                                                    *)

\* A session is at the level the handle caches, as far as the driver can know.
IsoOf(c) == c.dead \/ (c.synced /\ (c.strayed \/ c.level = txn_isolation))

\* No SQLDriverConnect is under way.
NoConnect == \A t \in Threads : call[t].op # "Connect"

\* The cache is right unless the handle says it does not know; a connect is alone
\* with a fresh session, and applies the level it read.
IsoInv ==
    /\ FreshInv
    /\ connected /\ ~server_isolation_unknown /\ NoConnect => IsoOf(Live)
    /\ \A t \in Threads : call[t].op = "Connect" =>
        /\ connected
        /\ \A u \in Threads : u # t => call[u].op = "None"
        /\ Holding(t) => Current(t)
        /\ Live.synced /\ ~Live.strayed /\ Live.level = ReadCommitted
        /\ call[t].pc = "Post" => CanClaim(Connection, "IdleOnly")
        /\ call[t].pc = "Held" => call[t].arg = txn_isolation
        /\ call[t].pc = "Mark" => txn_isolation = ReadCommitted

\* What a call leaves of the level, unless it sets it.
LevelKept(c, d) ==
    /\ d.synced = c.synced /\ d.level = c.level
    /\ c.strayed => d.strayed
    /\ c.dead => d.dead

\* Ending, beginning and losing a transaction keep the level.
LEMMA LevelOutcomes ==
    ASSUME NEW c \in Sessions
    PROVE  /\ LevelKept(c, c) /\ LevelKept(c, Ended(c)) /\ LevelKept(c, Killed(c))
           /\ LevelKept(c, Begun(c))
           /\ \A d \in InDoubt(c) : LevelKept(c, d)
           /\ Killed(Begun(c)).dead
  <1>1. [c EXCEPT !.work = FALSE] \in Sessions /\ Begun(c) \in Sessions
    BY RoundTrips DEF Sessions
  <1>2. LevelKept(c, [c EXCEPT !.work = FALSE])
    BY DEF LevelKept, Sessions
  <1>3. LevelKept(c, Ended(c)) /\ LevelKept(c, Killed(c)) /\ LevelKept(c, Begun(c))
    BY DEF LevelKept, Ended, Killed, Begun, Sessions
  <1> QED
    BY <1>1, <1>2, <1>3, Outcomes DEF InDoubt, LevelKept

\* A statement may change the level behind the driver, and then it strays.
LEMMA LevelExecuted ==
    ASSUME NEW c \in Sessions, NEW d \in Executed(c)
    PROVE  LevelKept(c, d) \/ (~c.dead /\ d.synced = c.synced /\ d.strayed)
  <1>1. LevelKept(c, [c EXCEPT !.work = @ \/ c.txn])
    BY DEF LevelKept, Sessions
  <1>2. LevelKept(c, [c EXCEPT !.txn = TRUE, !.work = TRUE])
    BY DEF LevelKept, Sessions
  <1>3. \A l \in Levels : [c EXCEPT !.level = l, !.strayed = TRUE].strayed
                          /\ [c EXCEPT !.level = l, !.strayed = TRUE].synced = c.synced
    BY DEF Sessions
  <1>4. \/ d = [c EXCEPT !.work = @ \/ c.txn]
        \/ d = Ended(c)
        \/ d = [c EXCEPT !.txn = TRUE, !.work = TRUE]
        \/ ~c.dead /\ \E l \in Levels : d = [c EXCEPT !.level = l, !.strayed = TRUE]
    BY DEF Executed
  <1>a. ~c.dead
    BY DEF Executed
  <1>5. CASE \E l \in Levels : d = [c EXCEPT !.level = l, !.strayed = TRUE]
    BY <1>3, <1>5, <1>a
  <1> QED
    BY <1>1, <1>2, <1>4, <1>5, LevelOutcomes

\* The level of a session, as the driver set it.
AtLevel(c, level) == c.synced /\ c.level = level

\* A change of the level that succeeded leaves the session at it.
LEMMA IsolationLevel ==
    ASSUME NEW c \in Sessions, NEW level \in Levels,
           NEW d \in Completes(c, [SetOn(Ended(c), level) EXCEPT !.txn = c.txn])
    PROVE  AtLevel(d, level)
  <1> DEFINE s == SetOn(Ended(c), level)
  <1>1. Ended(c) \in Sessions
    BY RoundTrips
  <1>2. s \in Sessions /\ s.synced /\ s.level = level
    BY <1>1 DEF SetOn, Sessions
  <1>3. d = [s EXCEPT !.txn = c.txn]
    BY DEF Completes
  <1>. HIDE DEF s
  <1> QED
    BY <1>2, <1>3 DEF AtLevel, Sessions

\* Settings that were applied leave the session at the level asked for.
LEMMA PostLevel ==
    ASSUME NEW m \in Sessions, AtLevel(m, ReadCommitted), NEW level \in Levels,
           NEW c \in Sessions, NEW d \in Sessions,
           c \in IF level = ReadCommitted THEN {m} ELSE Completes(m, SetOn(m, level)),
           d \in {c, Begun(c), Killed(c), Killed(Begun(c))}
    PROVE  AtLevel(d, level)
  <1>1. AtLevel(c, level)
    BY DEF SetOn, Sessions, AtLevel, Completes
  <1>a. Begun(c) \in Sessions
    BY RoundTrips
  <1>b. LevelKept(c, Begun(c)) /\ LevelKept(Begun(c), Killed(Begun(c)))
    BY <1>a, LevelOutcomes
  <1>2. LevelKept(c, d)
    BY <1>b, LevelOutcomes DEF LevelKept
  <1> QED
    BY <1>1, <1>2 DEF AtLevel, LevelKept

\* A step of a call other than the connect, that leaves the sessions alone.
LEMMA IsoQuiet ==
    ASSUME TypeOK, IsoInv, NEW t \in Threads, Moves(t), Goes(t),
           NoConnect, sessions' = sessions,
           UNCHANGED session, connected' => connected,
           UNCHANGED txn_isolation \/ ~connected',
           server_isolation_unknown' = server_isolation_unknown \/ server_isolation_unknown'
    PROVE  IsoInv'
<1>1. NoConnect'
  <2>1. sessions' # sessions + 1
    BY DEF TypeOK, WireTypeOK
  <2>. QED
    BY <2>1 DEF NoConnect, Moves, Goes
<1>2. FreshInv' /\ Live' = Live
  BY DEF IsoInv, FreshInv, Live
<1>3. connected' /\ ~server_isolation_unknown' => IsoOf(Live)'
  BY <1>2 DEF IsoInv, IsoOf, Live
<1>. QED
  BY <1>1, <1>2, <1>3 DEF IsoInv, NoConnect

\* A call other than the connect hands its client back, or has begun its
\* transaction.
LEMMA IsoBack ==
    ASSUME TypeOK, WireInv, IsoInv, NEW t \in Threads, Moves(t), Goes(t),
           NoConnect, sessions' = sessions, connected' => connected,
           NEW c \in Sessions, ClientBecomes(t, c), Holding(t),
           Current(t) /\ ~server_isolation_unknown' =>
               \/ c.dead
               \/ c.synced /\ c.level = txn_isolation'
               \/ /\ \/ LevelKept(Mine(t), c)
                     \/ ~Mine(t).dead /\ c.synced = Mine(t).synced /\ c.strayed
                  /\ UNCHANGED <<txn_isolation, server_isolation_unknown>>,
           ~Current(t) => UNCHANGED <<txn_isolation, server_isolation_unknown>>
    PROVE  IsoInv'
<1>1. NoConnect'
  <2>1. sessions' # sessions + 1
    BY DEF TypeOK, WireTypeOK
  <2>. QED
    BY <2>1 DEF NoConnect, Moves, Goes
<1>2. /\ Current(t) => Live' = c /\ Mine(t) = Live /\ connected
      /\ ~Current(t) /\ connected => Live' = Live
      /\ FreshInv'
  BY LiveStep DEF IsoInv
<1>3. ASSUME connected', ~server_isolation_unknown' PROVE IsoOf(Live)'
  <2>1. CASE Current(t)
    <3>1. CASE \/ c.dead
               \/ c.synced /\ c.level = txn_isolation'
      BY <1>2, <2>1, <3>1 DEF IsoOf
    <3>2. CASE /\ LevelKept(Mine(t), c) \/ (~Mine(t).dead /\ c.synced = Mine(t).synced /\ c.strayed)
               /\ UNCHANGED <<txn_isolation, server_isolation_unknown>>
      <4>1. IsoOf(Live) /\ Mine(t) = Live
        BY <1>2, <1>3, <2>1, <3>2 DEF IsoInv
      <4>2. c.dead \/ (c.synced /\ (c.strayed \/ c.level = txn_isolation))
        BY <3>2, <4>1 DEF IsoOf, LevelKept
      <4>. QED
        BY <1>2, <2>1, <3>2, <4>2 DEF IsoOf
    <3>. QED
      BY <1>3, <2>1, <3>1, <3>2
  <2>2. CASE ~Current(t)
    BY <1>2, <1>3, <2>2 DEF IsoInv, IsoOf
  <2>. QED
    BY <2>1, <2>2
<1>. QED
  BY <1>1, <1>2, <1>3 DEF IsoInv, NoConnect

\* Every step keeps the cache right, if a connect is called with nothing else
\* under way.
LEMMA IsoStep ==
    ASSUME QuietConnect = TRUE, TypeOK, WireInv, ControlInv, IsoInv, NEW t \in Threads, Step(t)
    PROVE  IsoInv'
<1>0. /\ Moves(t) /\ Goes(t) /\ WireTypeOK /\ Shape(call[t])
      /\ Holding(t) => Mine(t) \in Sessions
      /\ call[t].pc \in HoldPoints <=> Holding(t)
      /\ call[t].op = "None" => call[t].pc = "None"
      /\ call[t].pc \in {"Sweep", "Drain"} => call[t].op \notin {"None", "Connect"}
  <2>1. Holding(t) => Mine(t) \in Sessions
    BY DEF TypeOK, WireTypeOK, Holding, Mine, Leases, NoLease
  <2>. QED
    BY <2>1, StepHandles, StepGoes DEF TypeOK, ControlInv, CallInv, Shape, Placed
<1>n. call[t].op \notin {"None", "Connect"} => NoConnect
  BY DEF IsoInv, NoConnect
<1>1. ASSUME NEW s \in Stmts, ExecClaim(t, s)
      PROVE  IsoInv'
  BY <1>1, <1>0, WireSessions, IsoQuiet DEF ExecClaim, MayCall, NoConnect, dbcVars
<1>2. ASSUME NEW s \in Stmts, FetchClaim(t, s)
      PROVE  IsoInv'
  BY <1>2, <1>0, WireSessions, IsoQuiet DEF FetchClaim, MayCall, NoConnect, dbcVars
<1>3. ASSUME NEW s \in Stmts, CloseCursor(t, s)
      PROVE  IsoInv'
  BY <1>3, <1>0, WireSessions, IsoQuiet DEF CloseCursor, MayCall, NoConnect, dbcVars
<1>4. CASE ExecBegin(t)
  <2>1. Holding(t) /\ Mine(t) \in Sessions /\ NoConnect
    BY <1>4, <1>0, <1>n DEF ExecBegin, At, HoldPoints
  <2>2. PICK c \in {Mine(t), Begun(Mine(t))} : ClientBecomes(t, c)
    BY <1>4 DEF ExecBegin, Completes
  <2>a. c \in Sessions
    BY <2>1, <2>2, RoundTrips
  <2>3. c \in Sessions /\ (LevelKept(Mine(t), c) \/ c.dead)
    BY <2>1, <2>2, <2>a, LevelOutcomes
  <2>4. sessions' = sessions /\ UNCHANGED <<connected, txn_isolation, server_isolation_unknown>>
    BY <1>4, WireSessions DEF ExecBegin, dbcVars, wireVars
  <2>. QED
    BY <1>0, <2>1, <2>2, <2>3, <2>4, IsoBack
<1>5. CASE ExecBeginFails(t)
  <2>1. Holding(t) /\ Mine(t) \in Sessions /\ NoConnect
    BY <1>5, <1>0, <1>n DEF ExecBeginFails, At, HoldPoints
  <2>2. PICK c \in {Mine(t), Killed(Mine(t)), Begun(Mine(t))} : ClientBecomes(t, c)
    BY <1>5 DEF ExecBeginFails, Completes
  <2>a. c \in Sessions
    BY <2>1, <2>2, RoundTrips
  <2>3. c \in Sessions /\ (LevelKept(Mine(t), c) \/ c.dead)
    BY <2>1, <2>2, <2>a, LevelOutcomes
  <2>4. sessions' = sessions /\ UNCHANGED <<connected, txn_isolation, server_isolation_unknown>>
    BY <1>5, WireSessions DEF ExecBeginFails, dbcVars, wireVars
  <2>. QED
    BY <1>0, <2>1, <2>2, <2>3, <2>4, IsoBack
<1>6. CASE ExecFails(t)
  <2>1. Holding(t) /\ Mine(t) \in Sessions /\ NoConnect
    BY <1>6, <1>0, <1>n DEF ExecFails, At, HoldPoints
  <2>2. PICK c \in {Mine(t), Ended(Mine(t)), Killed(Mine(t))} : ClientBecomes(t, c)
    BY <1>6 DEF ExecFails
  <2>a. c \in Sessions
    BY <2>1, <2>2, RoundTrips
  <2>3. c \in Sessions /\ (LevelKept(Mine(t), c) \/ c.dead)
    BY <2>1, <2>2, <2>a, LevelOutcomes
  <2>4. sessions' = sessions /\ UNCHANGED <<connected, txn_isolation, server_isolation_unknown>>
    BY <1>6, WireSessions DEF ExecFails, dbcVars, wireVars
  <2>. QED
    BY <1>0, <2>1, <2>2, <2>3, <2>4, IsoBack
<1>7. ASSUME NEW left \in {"Closed", "Rows", "Drained"}, ExecFinish(t, left)
      PROVE  IsoInv'
  <2>1. Holding(t) /\ Mine(t) \in Sessions /\ NoConnect
    BY <1>7, <1>0, <1>n DEF ExecFinish, At, HoldPoints
  <2>2. PICK c \in Executed(Mine(t)) : ClientBecomes(t, c)
    BY <1>7 DEF ExecFinish
  <2>3. /\ c \in Sessions
        /\ LevelKept(Mine(t), c) \/ (~Mine(t).dead /\ c.synced = Mine(t).synced /\ c.strayed)
    BY <2>1, <2>2, RoundTrips, LevelExecuted
  <2>4. /\ sessions' = sessions
        /\ UNCHANGED <<connected, txn_isolation, server_isolation_unknown>>
    BY <1>7, WireSessions DEF ExecFinish, dbcVars
  <2>. QED
    BY <1>0, <2>1, <2>2, <2>3, <2>4, IsoBack
<1>8. ASSUME NEW left \in {"Closed", "Rows", "Drained"}, FetchFinish(t, left)
      PROVE  IsoInv'
  <2>1. Holding(t) /\ Mine(t) \in Sessions /\ NoConnect
    BY <1>8, <1>0, <1>n DEF FetchFinish, At, HoldPoints
  <2>2. PICK c \in {Mine(t), Ended(Mine(t)), Killed(Mine(t))} : ClientBecomes(t, c)
    BY <1>8 DEF FetchFinish
  <2>a. c \in Sessions
    BY <2>1, <2>2, RoundTrips
  <2>3. c \in Sessions /\ (LevelKept(Mine(t), c) \/ c.dead)
    BY <2>1, <2>2, <2>a, LevelOutcomes
  <2>4. sessions' = sessions /\ UNCHANGED <<connected, txn_isolation, server_isolation_unknown>>
    BY <1>8, WireSessions DEF FetchFinish, dbcVars, wireVars
  <2>. QED
    BY <1>0, <2>1, <2>2, <2>3, <2>4, IsoBack
<1>9. CASE CloseReturns(t)
  <2>1. NoConnect
    BY <1>9, <1>0, <1>n DEF CloseReturns, At, Swept
  <2>. QED
    BY <1>9, <1>0, <2>1, WireSessions, IsoQuiet DEF CloseReturns, GiveUp, dbcVars
<1>10. ASSUME NEW s \in Stmts, SweepSkip(t, s)
       PROVE  IsoInv'
  <2>1. NoConnect
    BY <1>10, <1>0, <1>n DEF SweepSkip, At, Swept
  <2>. QED
    BY <1>10, <1>0, <2>1, WireSessions, IsoQuiet DEF SweepSkip, dbcVars
<1>11. ASSUME NEW s \in Stmts, SweepClaim(t, s)
       PROVE  IsoInv'
  <2>1. NoConnect
    BY <1>11, <1>0, <1>n DEF SweepClaim, At, Swept
  <2>. QED
    BY <1>11, <1>0, <2>1, WireSessions, IsoQuiet DEF SweepClaim, dbcVars
<1>12. ASSUME NEW s \in Stmts, SweepBusy(t, s)
       PROVE  IsoInv'
  <2>1. NoConnect
    BY <1>12, <1>0, <1>n DEF SweepBusy, At, Swept
  <2>. QED
    BY <1>12, <1>0, <2>1, WireSessions, IsoQuiet DEF SweepBusy, dbcVars
<1>13. ASSUME NEW ok \in BOOLEAN, SweepDrain(t, ok)
       PROVE  IsoInv'
  <2>1. Holding(t) /\ Mine(t) \in Sessions /\ NoConnect
    BY <1>13, <1>0, <1>n DEF SweepDrain, At, HoldPoints
  <2>2. PICK c \in {Mine(t), Ended(Mine(t)), Killed(Mine(t))} : ClientBecomes(t, c)
    BY <1>13 DEF SweepDrain
  <2>a. c \in Sessions
    BY <2>1, <2>2, RoundTrips
  <2>3. c \in Sessions /\ (LevelKept(Mine(t), c) \/ c.dead)
    BY <2>1, <2>2, <2>a, LevelOutcomes
  <2>4. sessions' = sessions /\ UNCHANGED <<connected, txn_isolation, server_isolation_unknown>>
    BY <1>13, WireSessions DEF SweepDrain, dbcVars, wireVars
  <2>. QED
    BY <1>0, <2>1, <2>2, <2>3, <2>4, IsoBack
<1>14. CASE SweepFailed(t)
  <2>1. NoConnect
    BY <1>14, <1>0, <1>n DEF SweepFailed, At, Swept
  <2>. QED
    BY <1>14, <1>0, <2>1, WireSessions, IsoQuiet DEF SweepFailed, GiveUp, dbcVars
<1>15. CASE EndTran(t)
  BY <1>15, <1>0, WireSessions, IsoQuiet DEF EndTran, MayCall, NoConnect, dbcVars
<1>16. CASE EndTranNothing(t)
  <2>1. NoConnect
    BY <1>16, <1>0, <1>n DEF EndTranNothing, At, Swept
  <2>. QED
    BY <1>16, <1>0, <2>1, WireSessions, IsoQuiet DEF EndTranNothing, GiveUp, dbcVars
<1>17. CASE EndTranClaim(t)
  <2>1. NoConnect
    BY <1>17, <1>0, <1>n DEF EndTranClaim, At, Swept
  <2>. QED
    BY <1>17, <1>0, <2>1, WireSessions, IsoQuiet
       DEF EndTranClaim, ClaimDbcClient, ClaimRefused, GiveUp, dbcVars
<1>18. CASE EndTranFinish(t)
  <2>1. Holding(t) /\ Mine(t) \in Sessions /\ NoConnect
    BY <1>18, <1>0, <1>n DEF EndTranFinish, At, HoldPoints
  <2>2. PICK c \in {Mine(t), Ended(Mine(t))} \cup InDoubt(Mine(t)) : ClientBecomes(t, c)
    BY <1>18 DEF EndTranFinish, Completes
  <2>a. c \in Sessions
    BY <2>1, <2>2, RoundTrips
  <2>3. c \in Sessions /\ (LevelKept(Mine(t), c) \/ c.dead)
    BY <2>1, <2>2, <2>a, LevelOutcomes
  <2>4. sessions' = sessions /\ UNCHANGED <<connected, txn_isolation, server_isolation_unknown>>
    BY <1>18, WireSessions DEF EndTranFinish, dbcVars, wireVars
  <2>. QED
    BY <1>0, <2>1, <2>2, <2>3, <2>4, IsoBack
<1>19. ASSUME NEW enable \in BOOLEAN, SetAutocommit(t, enable)
       PROVE  IsoInv'
  BY <1>19, <1>0, WireSessions, IsoQuiet DEF SetAutocommit, MayCall, NoConnect, dbcVars
<1>20. CASE AutocommitClaim(t)
  <2>1. NoConnect
    BY <1>20, <1>0, <1>n DEF AutocommitClaim, At, Swept
  <2>. QED
    BY <1>20, <1>0, <2>1, WireSessions, IsoQuiet
       DEF AutocommitClaim, ClaimDbcClient, ClaimRefused, GiveUp, dbcVars
<1>21. CASE AutocommitOn(t)
  <2>1. Holding(t) /\ Mine(t) \in Sessions /\ NoConnect
    BY <1>21, <1>0, <1>n DEF AutocommitOn, At, HoldPoints
  <2>2. PICK c \in {Mine(t), Ended(Mine(t))} \cup InDoubt(Mine(t)) : ClientBecomes(t, c)
    BY <1>21 DEF AutocommitOn, Completes
  <2>a. c \in Sessions
    BY <2>1, <2>2, RoundTrips
  <2>3. c \in Sessions /\ (LevelKept(Mine(t), c) \/ c.dead)
    BY <2>1, <2>2, <2>a, LevelOutcomes
  <2>4. sessions' = sessions /\ UNCHANGED <<connected, txn_isolation, server_isolation_unknown>>
    BY <1>21, WireSessions DEF AutocommitOn, dbcVars, wireVars
  <2>. QED
    BY <1>0, <2>1, <2>2, <2>3, <2>4, IsoBack
<1>22. CASE AutocommitOff(t)
  <2>1. Holding(t) /\ Mine(t) \in Sessions /\ NoConnect
    BY <1>22, <1>0, <1>n DEF AutocommitOff, At, HoldPoints
  <2>2. PICK c \in {Mine(t), Begun(Mine(t)), Killed(Mine(t)), Killed(Begun(Mine(t)))} :
           ClientBecomes(t, c)
    BY <1>22 DEF AutocommitOff, Completes
  <2>a. c \in Sessions
    BY <2>1, <2>2, RoundTrips
  <2>3. c \in Sessions /\ (LevelKept(Mine(t), c) \/ c.dead)
    BY <2>1, <2>2, <2>a, LevelOutcomes
  <2>4. sessions' = sessions /\ UNCHANGED <<connected, txn_isolation, server_isolation_unknown>>
    BY <1>22, WireSessions DEF AutocommitOff, dbcVars, wireVars
  <2>. QED
    BY <1>0, <2>1, <2>2, <2>3, <2>4, IsoBack
<1>23. ASSUME NEW level \in Levels, SetIsolation(t, level)
       PROVE  IsoInv'
  BY <1>23, <1>0, WireSessions, IsoQuiet DEF SetIsolation, MayCall, NoConnect, dbcVars
<1>24. CASE IsolationClaim(t)
  <2>1. NoConnect
    BY <1>24, <1>0, <1>n DEF IsolationClaim, At, Swept
  <2>. QED
    BY <1>24, <1>0, <2>1, WireSessions, IsoQuiet
       DEF IsolationClaim, ClaimDbcClient, ClaimRefused, GiveUp, dbcVars
<1>25. CASE IsolationFinish(t)
  <2>1. Holding(t) /\ Mine(t) \in Sessions /\ NoConnect /\ call[t].arg \in Levels
    BY <1>25, <1>0, <1>n DEF IsolationFinish, At, HoldPoints, Shape
  <2>2. PICK ok \in BOOLEAN, c \in Sessions :
           /\ c \in IF ok THEN Completes(Mine(t), [SetOn(Ended(Mine(t)), call[t].arg)
                                                     EXCEPT !.txn = Mine(t).txn])
                    ELSE {Mine(t), Killed(Mine(t))} \cup
                         IF Mine(t).dead THEN {}
                         ELSE {Ended(Mine(t)), SetOn(Ended(Mine(t)), call[t].arg),
                               [SetOn(Ended(Mine(t)), call[t].arg) EXCEPT !.txn = Mine(t).txn],
                               Killed(Ended(Mine(t))), Killed(SetOn(Ended(Mine(t)), call[t].arg)),
                               Killed([SetOn(Ended(Mine(t)), call[t].arg)
                                         EXCEPT !.txn = Mine(t).txn])}
           /\ ClientBecomes(t, c)
           /\ Current(t) => /\ txn_isolation' = call[t].arg
                            /\ ok \/ server_isolation_unknown'
           /\ ~Current(t) => UNCHANGED <<txn_isolation, server_isolation_unknown>>
    BY <1>25 DEF IsolationFinish
  <2>3. ASSUME ok PROVE c.synced /\ c.level = call[t].arg
    BY <2>1, <2>2, <2>3, IsolationLevel DEF AtLevel
  <2>4. sessions' = sessions /\ UNCHANGED connected
    BY <1>25, WireSessions DEF IsolationFinish
  <2>. QED
    BY <1>0, <2>1, <2>2, <2>3, <2>4, IsoBack
<1>26. CASE ResetEnter(t)
  BY <1>26, <1>0, WireSessions, IsoQuiet DEF ResetEnter, MayCall, NoConnect, dbcVars
<1>27. CASE ResetClaim(t)
  <2>1. NoConnect
    BY <1>27, <1>0, <1>n DEF ResetClaim, At, Swept
  <2>. QED
    BY <1>27, <1>0, <2>1, WireSessions, IsoQuiet
       DEF ResetClaim, ClaimDbcClient, ClaimRefused, GiveUp, dbcVars
<1>28. CASE ResetArm(t)
  <2>1. Holding(t) /\ Mine(t) \in Sessions /\ NoConnect
    BY <1>28, <1>0, <1>n DEF ResetArm, At, HoldPoints
  <2>2. PICK c \in Sessions : c = [Ended(Mine(t)) EXCEPT !.synced = FALSE]
    BY <2>1, RoundTrips
  <2>3. ClientBecomes(t, c)
    BY <1>28, <2>2 DEF ResetArm
  <2>4. /\ sessions' = sessions /\ UNCHANGED <<connected, txn_isolation>>
        /\ Current(t) => server_isolation_unknown'
        /\ ~Current(t) => UNCHANGED server_isolation_unknown
    BY <1>28, WireSessions DEF ResetArm, UnknownAfterReset
  <2>. QED
    BY <1>0, <2>1, <2>2, <2>3, <2>4, IsoBack
<1>29. CASE ResetFails(t)
  <2>1. Holding(t) /\ Mine(t) \in Sessions /\ NoConnect
    BY <1>29, <1>0, <1>n DEF ResetFails, At, HoldPoints
  <2>2. PICK c \in {Killed(Mine(t))} : ClientBecomes(t, c)
    BY <1>29 DEF ResetFails
  <2>a. c \in Sessions
    BY <2>1, <2>2, RoundTrips
  <2>3. c \in Sessions /\ (LevelKept(Mine(t), c) \/ c.dead)
    BY <2>1, <2>2, <2>a, LevelOutcomes
  <2>4. sessions' = sessions /\ UNCHANGED <<connected, txn_isolation, server_isolation_unknown>>
    BY <1>29, WireSessions DEF ResetFails, dbcVars, wireVars
  <2>. QED
    BY <1>0, <2>1, <2>2, <2>3, <2>4, IsoBack
<1>30. CASE LookupClaim(t)
  BY <1>30, <1>0, WireSessions, IsoQuiet DEF LookupClaim, MayCall, NoConnect, dbcVars
<1>31. ASSUME NEW answered \in BOOLEAN, LookupPublish(t, answered)
       PROVE  IsoInv'
  <2>1. Holding(t) /\ Mine(t) \in Sessions /\ NoConnect
    BY <1>31, <1>0, <1>n DEF LookupPublish, At, HoldPoints
  <2>2. PICK c \in {Mine(t)} : ClientBecomes(t, c)
    BY <1>31 DEF LookupPublish
  <2>a. c \in Sessions
    BY <2>1, <2>2, RoundTrips
  <2>3. c \in Sessions /\ (LevelKept(Mine(t), c) \/ c.dead)
    BY <2>1, <2>2, <2>a, LevelOutcomes
  <2>4. sessions' = sessions /\ UNCHANGED <<connected, txn_isolation, server_isolation_unknown>>
    BY <1>31, WireSessions DEF LookupPublish, dbcVars, wireVars
  <2>. QED
    BY <1>0, <2>1, <2>2, <2>3, <2>4, IsoBack
<1>32. CASE Disconnect(t)
  BY <1>32, <1>0, WireSessions, IsoQuiet DEF Disconnect, MayCall, NoConnect, dbcVars
<1>33. CASE DisconnectClaim(t)
  <2>1. NoConnect
    BY <1>33, <1>0, <1>n DEF DisconnectClaim, At, Swept
  <2>. QED
    BY <1>33, <1>0, <2>1, WireSessions, IsoQuiet DEF DisconnectClaim, dbcVars
<1>34. CASE DisconnectRollback(t)
  <2>1. Holding(t) /\ Mine(t) \in Sessions /\ NoConnect
    BY <1>34, <1>0, <1>n DEF DisconnectRollback, At, HoldPoints
  <2>2. PICK c \in {Mine(t), Ended(Mine(t)), Killed(Mine(t))} : ClientBecomes(t, c)
    BY <1>34 DEF DisconnectRollback, Completes
  <2>a. c \in Sessions
    BY <2>1, <2>2, RoundTrips
  <2>3. c \in Sessions /\ (LevelKept(Mine(t), c) \/ c.dead)
    BY <2>1, <2>2, <2>a, LevelOutcomes
  <2>4. sessions' = sessions /\ UNCHANGED <<connected, txn_isolation, server_isolation_unknown>>
    BY <1>34, WireSessions DEF DisconnectRollback, dbcVars, wireVars
  <2>. QED
    BY <1>0, <2>1, <2>2, <2>3, <2>4, IsoBack
<1>35. CASE DisconnectFree(t)
  <2>1. NoConnect
    BY <1>35, <1>0, <1>n DEF DisconnectFree, At, Swept
  <2>. QED
    BY <1>35, <1>0, <2>1, WireSessions, IsoQuiet DEF DisconnectFree, ClearSession, dbcVars
<1>36. CASE Connect(t)
  <2>1. /\ UNCHANGED <<session, txn_isolation>> /\ connected'
        /\ sessions' = sessions + 1 /\ sessions < MaxSessions
        /\ \A u \in Threads : call[u].op = "None"
    BY <1>36 DEF Connect, Install, MayCall, Idle
  <2>2. sessions \in 0..MaxSessions
    BY DEF TypeOK, WireTypeOK
  <2>3. FreshInv' /\ Live' = FreshSession
    BY <2>1, <2>2, MaxSessionsAssumption DEF IsoInv, FreshInv, Live
  <2>4. Live'.synced /\ ~Live'.strayed /\ Live'.level = ReadCommitted
    BY <2>3 DEF FreshSession
  <2>5. call'[t].op = "Connect" /\ call'[t].pc = "Post"
    BY <1>36 DEF Connect, Enter, TypeOK
  <2>6. ~Holding(t)' /\ CanClaim(Connection, "IdleOnly")'
    BY <1>36, <1>0, <2>1, <2>2 DEF Connect, Install, HoldPoints, Holding, CanClaim
  <2>. QED
    BY <1>0, <2>1, <2>3, <2>4, <2>5, <2>6 DEF IsoInv, NoConnect, Moves
<1>37. CASE PostConnectDefault(t)
  <2>1. /\ UNCHANGED <<wireVars, dbcVars, session>> /\ call[t].op = "Connect"
        /\ txn_isolation = ReadCommitted /\ Goto(t, "Mark")
    BY <1>37 DEF PostConnectDefault, At
  <2>2. call'[t].op = "Connect" /\ call'[t].pc = "Mark"
    BY <2>1, GotoFacts DEF TypeOK
  <2>. QED
    BY <1>0, <2>1, <2>2
       DEF IsoInv, FreshInv, Live, NoConnect, Moves, wireVars, dbcVars, Holding, Current
<1>38. CASE MarkServerIsolationKnown(t)
  <2>1. /\ UNCHANGED <<wireVars, connected, txn_isolation, session>> /\ call[t].op = "Connect"
        /\ call[t].pc = "Mark" /\ Return(t)
    BY <1>38 DEF MarkServerIsolationKnown, At
  <2>2. \A u \in Threads : call'[u].op = "None"
    BY <1>0, <2>1, ReturnFacts, NoCallType DEF IsoInv, Moves, TypeOK
  <2>3. IsoOf(Live)' /\ FreshInv'
    BY <2>1 DEF IsoInv, IsoOf, FreshInv, Live, wireVars
  <2>. QED
    BY <2>2, <2>3 DEF IsoInv
<1>39. CASE PostConnectClaim(t)
  <2>1. /\ UNCHANGED <<dbcVars, session>> /\ call[t].op = "Connect" /\ call[t].pc = "Post"
        /\ connected /\ Claim(t, Connection, "IdleOnly")
        /\ call' = [call EXCEPT ![t].pc = "Held", ![t].arg = txn_isolation,
                                 ![t].seen = ~autocommit]
    BY <1>39 DEF PostConnectClaim, At, ClaimRefused, IsoInv
  <2> DEFINE r == [call[t] EXCEPT !.pc = "Held", !.arg = txn_isolation, !.seen = ~autocommit]
  <2>2. r.op = "Connect" /\ r.pc = "Held" /\ r.arg = txn_isolation
    BY <2>1 DEF TypeOK, CallRecords
  <2>3. call' = [call EXCEPT ![t] = r]
    BY <2>1
  <2>. HIDE DEF r
  <2>4. call'[t].op = "Connect" /\ call'[t].pc = "Held" /\ call'[t].arg = txn_isolation
    BY <2>2, <2>3 DEF TypeOK
  <2>5. sessions' = sessions /\ Current(t)'
    BY <1>0, <2>1, ClaimMoves DEF Current, Owners
  <2>6. FreshInv' /\ Live' = Live
    BY <2>1, <2>5 DEF IsoInv, FreshInv, Live
  <2>. QED
    BY <1>0, <2>1, <2>4, <2>5, <2>6 DEF IsoInv, NoConnect, Moves, dbcVars
<1>40. CASE PostConnectFinish(t)
  <2>1. /\ Holding(t) /\ Mine(t) \in Sessions /\ Current(t) /\ call[t].arg \in Levels
        /\ call[t].arg = txn_isolation /\ call[t].op = "Connect"
    BY <1>40, <1>0 DEF PostConnectFinish, At, HoldPoints, Shape, IsoInv
  <2>2. PICK applied \in BOOLEAN, k \in Sessions, c \in Sessions :
           /\ k \in IF call[t].arg = ReadCommitted THEN {Mine(t)}
                    ELSE IF applied THEN Completes(Mine(t), SetOn(Mine(t), call[t].arg))
                    ELSE {Mine(t), SetOn(Mine(t), call[t].arg), Killed(Mine(t))}
           /\ c \in IF call[t].seen THEN {k, Begun(k), Killed(k), Killed(Begun(k))} ELSE {k}
           /\ k.dead => c = k
           /\ ClientBecomes(t, c)
           /\ server_isolation_unknown' = ~applied
    BY <1>40, <2>1 DEF PostConnectFinish, UnknownAfterPost
  <2>3. /\ sessions' = sessions /\ UNCHANGED txn_isolation /\ Return(t)
    BY <1>40, WireSessions DEF PostConnectFinish
  <2>4. Live' = c /\ Mine(t) = Live /\ FreshInv'
    BY <2>1, <2>2, <2>3, LiveStep DEF IsoInv
  <2>5. call[t].seen \in BOOLEAN /\ Mine(t).level = ReadCommitted /\ Mine(t).synced
        /\ ~Mine(t).strayed
    BY <2>1, <2>4 DEF TypeOK, CallRecords, IsoInv
  <2>6. ASSUME applied PROVE c.synced /\ c.level = call[t].arg
    <3>1. /\ k \in IF call[t].arg = ReadCommitted THEN {Mine(t)}
                   ELSE Completes(Mine(t), SetOn(Mine(t), call[t].arg))
          /\ c \in {k, Begun(k), Killed(k), Killed(Begun(k))}
      BY <2>2, <2>6
    <3>2. AtLevel(Mine(t), ReadCommitted)
      BY <2>5 DEF AtLevel
    <3>3. AtLevel(c, call[t].arg)
      BY <2>1, <3>1, <3>2, PostLevel
    <3>. QED
      BY <3>3 DEF AtLevel
  <2>7. \A u \in Threads : call'[u].op = "None"
    BY <1>0, <2>1, <2>3, ReturnFacts, NoCallType DEF IsoInv, Moves, TypeOK
  <2>8. ~server_isolation_unknown' => IsoOf(Live)'
    BY <2>1, <2>2, <2>3, <2>4, <2>6 DEF IsoOf
  <2>. QED
    BY <2>4, <2>7, <2>8 DEF IsoInv
<1>. QED
  BY <1>1, <1>2, <1>3, <1>4, <1>5, <1>6, <1>7, <1>8, <1>9, <1>10, <1>11, <1>12, <1>13, <1>14,
     <1>15, <1>16, <1>17, <1>18, <1>19, <1>20, <1>21, <1>22, <1>23, <1>24, <1>25, <1>26, <1>27,
     <1>28, <1>29, <1>30, <1>31, <1>32, <1>33, <1>34, <1>35, <1>36, <1>37, <1>38, <1>39, <1>40
     DEF Step, Statement, Sweep, Transaction, Recycle, Life

\* IsoInv holds at the start.
LEMMA IsoInit ==
    ASSUME Init
    PROVE  IsoInv
<1>1. \A t \in Threads : call[t].op = "None"
  BY NoCallType DEF Init
<1>. QED
  BY <1>1 DEF Init, IsoInv, FreshInv

\* IsoInv is kept by stuttering.
LEMMA IsoStutter ==
    ASSUME UNCHANGED vars, IsoInv
    PROVE  IsoInv'
  BY DEF vars, dbcVars, wireVars, IsoInv, FreshInv, NoConnect, IsoOf, Live, Holding, Current,
         CanClaim

\* A trusted isolation cache is right, whatever the threads do and whatever the
\* statements SET, if SQLDriverConnect is called with no other call under way:
\* settle_isolation_invalidation, reset_connection and the settings after login
\* leave no window.
THEOREM IsolationCacheCorrect ==
    ASSUME QuietConnect = TRUE
    PROVE  Spec => []IsolationCacheSound
<1>1. Init => IsoInv
  BY IsoInit
<1>2. OdbcInv /\ IsoInv /\ [Next]_vars => IsoInv'
  <2>1. ASSUME OdbcInv, IsoInv, NEW t \in Threads, Step(t) PROVE IsoInv'
    BY <2>1, IsoStep DEF OdbcInv
  <2>. QED
    BY <2>1, IsoStutter DEF Next, Step
<1>3. OdbcInv /\ IsoInv => IsolationCacheSound
  BY DEF OdbcInv, WireInv, ParkedIsLive, IsoInv, IsoOf, NoConnect, Live, IsolationCacheSound
<1>. QED
  BY <1>1, <1>2, <1>3, OdbcInvCorrect, PTL DEF Spec

=============================================================================
