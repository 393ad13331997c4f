----------------------------- MODULE DataAtExec -----------------------------
(***************************************************************************)
(* Data at execution on one ODBC statement (mssql-odbc/src/api/            *)
(* param_data.rs, put_data.rs, execute.rs, exec_direct.rs, cancel.rs,      *)
(* exec_common.rs; DaeState in handles/stmt.rs), over the streamed write   *)
(* of TdsClient (mssql-tds/src/connection/tds_client.rs).                  *)
(*                                                                         *)
(* SQLExecute leaves the connection's lease, and the prepared plan, in the *)
(* statement's DaeState.  SQLParamData and SQLPutData check the lease out  *)
(* for each piece of I/O, until the last parameter closes or somebody      *)
(* tears the sequence down.  The calls come one at a time: they go through *)
(* the monitor that StatementOperation implements.  SQLPrepare does not.   *)
(*                                                                         *)
(* A value is the number of chunks it got, and whether it is NULL.  Table- *)
(* valued parameters, transcoding and poisoned mutexes are left out.       *)
(***************************************************************************)
EXTENDS Naturals, Sequences, FiniteSets, FiniteSetsExt

CONSTANTS
    Threads,
    NoThread,
    ParamLists,   \* data-at-execution parameters an execution may have
    MaxCalls,     \* bound: calls on the statement
    MaxCancels,   \* bound: SQLCancel calls
    MaxPlans,     \* bound: SQLPrepare calls
    MaxOthers,    \* bound: commands of other statements of the connection
    MaxChunks     \* bound: chunks of one value

\* A parameter streams its chunks or has them buffered, and may have announced
\* its length (SQL_LEN_DATA_AT_EXEC).
NoLength == MaxChunks + 1
ParamRecords == [buffer : BOOLEAN, expected : 0..NoLength]

ASSUME ThreadAssumption == NoThread \notin Threads
ASSUME ParamsAssumption == ParamLists \subseteq Seq(ParamRecords)
ASSUME BoundsAssumption ==
    {MaxCalls, MaxCancels, MaxPlans, MaxOthers, MaxChunks} \subseteq Nat

VARIABLES
    runner, marked, cancels, inspector,   \* the statement's monitor
    call,         \* the running call: where it is, the plan and lease it holds
    hits,         \* the SQLCancel calls that found a call running
    look,         \* where the SQLCancel that has the statement to itself is
    exec_started, cursor_open,
    prepared,     \* StmtState::prepared, by the number of its SQLPrepare
    dae,          \* Option<DaeState>
    wire,         \* who has the connection's client
    client,       \* the client's command and its streamed write
    \* --- history, read by the properties only ---
    newest,       \* the plan of the last SQLPrepare, or the one a refused SQLExecute
                  \* put back over it; NoPlan after SQLExecDirect
    acked,        \* what the application was told it had supplied
    delivered,    \* what the last execution sent: one value set, or Nothing
    calls, cancelCalls, plans, others,
    freed         \* SQLFreeHandle was called

M == INSTANCE StatementMonitor

monVars == <<runner, marked, cancels, inspector>>
stmtVars == <<exec_started, cursor_open, prepared, dae>>
bounds == <<calls, cancelCalls, plans, others, freed>>
vars == <<monVars, call, hits, look, stmtVars, wire, client, newest, acked, delivered, bounds>>

NoPlan == 0
NoDae == [lease |-> FALSE]
NoCall == [fn |-> "None", at |-> "None", plan |-> NoPlan, lease |-> FALSE, params |-> <<>>]
Fresh == [chunks |-> 0, null |-> FALSE]
Nothing == <<>>
NotPut == [put |-> FALSE, chunks |-> 0, null |-> FALSE]

\* TdsClient: nothing open, a streamed write, a response to read, or dead.
\* todo: the parameters still to be streamed, in the order of the list; sent:
\* part of it left the client.
Quiet == [is |-> "Quiet", todo |-> {}, sent |-> FALSE, value |-> Fresh, vals |-> {}]
Is(x) == [Quiet EXCEPT !.is = x]

Fns == {"Execute", "ExecDirect", "ParamData", "PutData", "Close"}
Stops == {"Begin", "Claim", "ClaimFailed", "Claimed", "Send", "Sending", "Open", "Opening",
          "Chunk", "EndParam", "Publish", "PublishState", "Fail", "Unwind", "End", "Drop"}

Init ==
    /\ M!Init
    /\ call = NoCall /\ hits = {} /\ look = "None"
    /\ exec_started = FALSE /\ cursor_open = FALSE /\ prepared = NoPlan /\ dae = NoDae
    /\ wire = "Idle" /\ client = Quiet
    /\ newest = NoPlan /\ acked = <<>> /\ delivered = Nothing
    /\ calls = 0 /\ cancelCalls = 0 /\ plans = 0 /\ others = 0 /\ freed = FALSE

---------------------------------------------------------------------------
(* DaeState.                                                               *)

NeedsData == dae # NoDae
Goto(l) == call' = [call EXCEPT !.at = l]

\* cursor 0 is before the first SQLParamData.
NewDae(params, plan, deferred) ==
    [lease |-> TRUE, in_flight |-> FALSE, plan |-> plan, params |-> params, cursor |-> 0,
     progress |-> NotPut, deferred |-> deferred, buffered |-> {}]

Current(d) == d.params[d.cursor]
HasCurrent(d) == d.cursor \in 1..Len(d.params)
Advanced(d) == [d EXCEPT !.cursor = @ + 1, !.progress = NotPut]
CheckedOut(d) == [d EXCEPT !.lease = FALSE, !.in_flight = TRUE]
Returned(d) == [d EXCEPT !.lease = TRUE, !.in_flight = FALSE]
BufferedPhaseComplete(d) ==
    HasCurrent(d) /\ \A i \in d.cursor..Len(d.params) : ~d.params[i].buffer

\* Mutation: the sequence ends, and its plan with it.
TakenPlan0 == prepared

TakenPlan == dae.plan

\* take_dae and the clear of EXEC_STARTED: the plan goes back to the statement.
TakeDae ==
    /\ dae' = NoDae /\ prepared' = TakenPlan
    /\ exec_started' = FALSE

\* Mutation: the half-written request is left in the client.
Cancelled0(c) == {c}

\* cancel_streamed_write.  What was not sent is dropped; what was is withdrawn
\* with an ignore packet, and if that fails the connection is closed.
Cancelled(c) ==
    IF c.is # "Writing" THEN {c}
    ELSE IF c.sent THEN {Quiet, Is("Dead")} ELSE {Quiet}

\* A request that fails on the way is withdrawn by TdsClient, or kills it.
Failed == {Quiet, Is("Dead")}

---------------------------------------------------------------------------
(* Calls.                                                                  *)

\* In Need Data the driver manager answers the close with HY010 itself.
Start(t, fn) ==
    /\ fn = "Close" => ~NeedsData
    /\ ~freed /\ calls < MaxCalls /\ calls' = calls + 1
    /\ M!Start(t)
    /\ call' = [NoCall EXCEPT !.fn = fn, !.at = "Begin"]
    /\ UNCHANGED <<hits, look, stmtVars, wire, client, newest, acked, delivered, cancelCalls,
                   plans, others, freed>>

\* A step of the running call.
At(l) == call.at = l /\ UNCHANGED <<monVars, hits, look, bounds>>
keepStmt == UNCHANGED <<exec_started, cursor_open, prepared, dae>>
keepWire == UNCHANGED <<wire, client>>
keepHist == UNCHANGED <<newest, acked, delivered>>

---------------------------------------------------------------------------
(* SQLExecute and SQLExecDirect.                                           *)

\* stage_execution refuses a sequence in progress, an active execute and, for
\* SQLExecute, a statement without a plan; building the parameters may fail.
Executable(fn) ==
    ~NeedsData /\ ~exec_started /\ ~cursor_open /\ (fn = "Execute" => prepared # NoPlan)

StageRefused ==
    /\ At("Begin") /\ call.fn \in {"Execute", "ExecDirect"}
    /\ Goto("End") /\ keepStmt /\ keepWire /\ keepHist

\* The plan moves out of the statement, or is dropped by SQLExecDirect.
Stage ==
    /\ At("Begin") /\ call.fn \in {"Execute", "ExecDirect"} /\ Executable(call.fn)
    /\ exec_started' = TRUE /\ prepared' = NoPlan
    /\ \E ps \in ParamLists :
          /\ call' = [call EXCEPT !.at = "Claim", !.params = ps,
                                  !.plan = IF call.fn = "Execute" THEN prepared ELSE NoPlan]
          /\ acked' = [i \in 1..Len(ps) |-> [expected |-> ps[i].expected, value |-> Fresh]]
    /\ newest' = IF call.fn = "Execute" THEN newest ELSE NoPlan
    /\ delivered' = Nothing
    /\ UNCHANGED <<cursor_open, dae>> /\ keepWire

\* claim_connection.
Claim ==
    /\ At("Claim") /\ wire = "Idle"
    /\ wire' = "Lease"
    /\ call' = [call EXCEPT !.at = "Claimed", !.lease = TRUE]
    /\ keepStmt /\ keepHist /\ UNCHANGED client

\* A claim that fails clears EXEC_STARTED ...
ClaimRefused ==
    /\ At("Claim") /\ wire # "Idle"
    /\ exec_started' = FALSE
    /\ Goto("ClaimFailed")
    /\ UNCHANGED <<cursor_open, prepared, dae>> /\ keepWire /\ keepHist

\* ... and the caller then puts the plan back, over that of a SQLPrepare that
\* came in between.
ClaimFailed ==
    /\ At("ClaimFailed")
    /\ IF call.fn = "Execute" THEN prepared' = call.plan /\ newest' = call.plan
       ELSE UNCHANGED <<prepared, newest>>
    /\ call' = [call EXCEPT !.at = "End", !.plan = NoPlan]
    /\ UNCHANGED <<exec_started, cursor_open, dae, acked, delivered>> /\ keepWire

\* The plan goes back before anything is reported.
RestorePlan == prepared' = IF call.fn = "ExecDirect" THEN prepared ELSE call.plan

\* The implicit transaction, or the query timeout.
BeginFails ==
    /\ At("Claimed")
    /\ RestorePlan
    /\ client' \in {client, Is("Dead")}
    /\ call' = [call EXCEPT !.at = "Fail", !.plan = NoPlan]
    /\ UNCHANGED <<exec_started, cursor_open, dae, wire>> /\ keepHist

AnyBuffered(ps) == \E i \in 1..Len(ps) : ps[i].buffer

\* park_deferred_dae: nothing is sent before the last buffered value is in.
ParkDeferred ==
    /\ At("Claimed") /\ AnyBuffered(call.params)
    /\ dae' = NewDae(call.params, call.plan, TRUE)
    /\ call' = [call EXCEPT !.at = "End", !.plan = NoPlan, !.lease = FALSE]
    /\ UNCHANGED <<exec_started, cursor_open, prepared>> /\ keepWire /\ keepHist

\* A dead connection is recovered before the command or fails it.
Usable(c) == c.is = "Quiet" \/ c.is = "Dead"

\* begin_execute_prepared / begin_sp_executesql, then park_dae_client.  The
\* message waits in the client until a packet is full.
ParkStreaming ==
    /\ At("Claimed") /\ ~AnyBuffered(call.params) /\ call.params # <<>> /\ Usable(client)
    /\ \E sent \in BOOLEAN :
          client' = [Is("Writing") EXCEPT !.todo = 1..Len(call.params), !.sent = sent]
    /\ dae' = NewDae(call.params, call.plan, FALSE)
    /\ call' = [call EXCEPT !.at = "End", !.plan = NoPlan, !.lease = FALSE]
    /\ UNCHANGED <<exec_started, cursor_open, prepared, wire>> /\ keepHist

\* Without data at execution the request goes out whole.
Send ==
    /\ At("Claimed") /\ call.params = <<>> /\ Usable(client)
    /\ RestorePlan
    /\ client' = Is("Response") /\ delivered' = <<{}>>
    /\ call' = [call EXCEPT !.at = "Publish", !.plan = NoPlan]
    /\ UNCHANGED <<exec_started, cursor_open, dae, wire, newest, acked>>

---------------------------------------------------------------------------
(* How an execution ends.                                                  *)

\* finish_execute: rows keep the connection reserved, an empty answer ...
PublishRows ==
    /\ At("Publish")
    /\ wire' = "Reserved" /\ UNCHANGED client
    /\ call' = [call EXCEPT !.at = "PublishState", !.lease = FALSE]
    /\ keepStmt /\ keepHist

\* ... is drained and releases it.
PublishDone ==
    /\ At("Publish")
    /\ wire' = "Idle" /\ client' = Quiet
    /\ call' = [call EXCEPT !.at = "PublishState", !.lease = FALSE]
    /\ keepStmt /\ keepHist

PublishFails ==
    /\ At("Publish")
    /\ client' \in Failed
    /\ Goto("Fail") /\ keepStmt /\ keepHist /\ UNCHANGED wire

PublishState ==
    /\ At("PublishState")
    /\ exec_started' = FALSE /\ cursor_open' \in {wire = "Reserved", TRUE}
    /\ Goto("End")
    /\ UNCHANGED <<prepared, dae>> /\ keepWire /\ keepHist

\* fail_with_tds.
Fail ==
    /\ At("Fail")
    /\ wire' = "Idle" /\ exec_started' = FALSE
    /\ call' = [call EXCEPT !.at = "End", !.lease = FALSE]
    /\ UNCHANGED <<client, cursor_open, prepared, dae>> /\ keepHist

\* The I/O half of unwind_dae and of the failures that go through it.
Unwind ==
    /\ At("Unwind")
    /\ client' \in Cancelled(client)
    /\ wire' = "Idle"
    /\ call' = [call EXCEPT !.at = IF call.fn = "Settle" THEN "Drop" ELSE "End",
                            !.lease = FALSE]
    /\ keepStmt /\ keepHist

\* abort_dae_with_diag: the sequence ends under the statement's lock.
Abort ==
    /\ TakeDae
    /\ call' = [call EXCEPT !.at = "Unwind", !.lease = TRUE]
    /\ UNCHANGED cursor_open /\ keepWire /\ keepHist

---------------------------------------------------------------------------
(* SQLParamData.                                                           *)

InParamData == At("Begin") /\ call.fn = "ParamData"

OutOfSequence ==
    /\ At("Begin")
    /\ \/ call.fn = "ParamData" /\ ~NeedsData
       \/ call.fn = "PutData" /\ (NeedsData => dae.cursor = 0)
    /\ Goto("End") /\ keepStmt /\ keepWire /\ keepHist

\* The first call hands out the first token.
FirstToken ==
    /\ InParamData /\ NeedsData /\ dae.cursor = 0
    /\ dae' = Advanced(dae) /\ Goto("End")
    /\ UNCHANGED <<exec_started, cursor_open, prepared>> /\ keepWire /\ keepHist

Closing == InParamData /\ NeedsData /\ dae.cursor > 0

\* A parameter must have been supplied, in its announced length.
Closable ==
    /\ dae.progress.put
    /\ \/ dae.progress.null \/ Current(dae).expected = NoLength
       \/ Current(dae).expected = dae.progress.chunks

\* A trailing partial character may also be too long.
CloseAborts == Closing /\ Abort

Progress(d) == [chunks |-> d.progress.chunks, null |-> d.progress.null]

\* Mutation: the parameter is recorded after the cursor has moved on.
Collected0(d) == [d EXCEPT !.buffered = @ \cup {<<d.cursor + 1, Progress(d)>>}]

\* A buffered parameter closes into its buffer.
Collected(d) == [d EXCEPT !.buffered = @ \cup {<<d.cursor, Progress(d)>>}]

CloseBuffered ==
    /\ Closing /\ Closable /\ dae.deferred
    /\ LET d == Advanced(Collected(dae))
       IN  /\ dae' = d
           /\ Goto(CASE BufferedPhaseComplete(d) -> "Open"
                     [] HasCurrent(d) -> "End"
                     [] OTHER -> "Send")
    /\ UNCHANGED <<exec_started, cursor_open, prepared>> /\ keepWire /\ keepHist

\* open_deferred_rpc and run_deferred_execute convert the values first; if that
\* fails nothing was sent, and the client goes back as it is.
RebuildFails ==
    /\ At(call.at) /\ call.at \in {"Open", "Send"}
    /\ TakeDae /\ wire' = "Idle" /\ Goto("End")
    /\ UNCHANGED <<cursor_open, client>> /\ keepHist

OpenRpc ==
    /\ At("Open")
    /\ dae' = [CheckedOut(dae) EXCEPT !.plan = NoPlan]
    /\ call' = [call EXCEPT !.at = "Opening", !.lease = TRUE, !.plan = dae.plan]
    /\ UNCHANGED <<exec_started, cursor_open, prepared>> /\ keepWire /\ keepHist

\* Mutation: a parameter that need not be buffered is streamed, though it was
\* collected before one that had to be.
ToStream0(d) == {i \in 1..Len(d.params) : ~d.params[i].buffer}

ToStream(d) == {i \in 1..Len(d.params) : \A b \in d.buffered : b[1] # i}

\* begin_streaming_phase: the buffered values are in the request's prefix, and
\* the others follow in the order of the list.
Opened ==
    /\ At("Opening") /\ Usable(client)
    /\ \E sent \in BOOLEAN :
          client' = [Is("Writing") EXCEPT !.todo = ToStream(dae), !.sent = sent,
                                          !.vals = dae.buffered]
    /\ dae' = [Returned(dae) EXCEPT !.plan = call.plan, !.deferred = FALSE, !.buffered = {}]
    /\ call' = [call EXCEPT !.at = "End", !.lease = FALSE, !.plan = NoPlan]
    /\ UNCHANGED <<exec_started, cursor_open, prepared, wire>> /\ keepHist

\* The request fails with the sequence's client and plan in the call's hands:
\* opening it, writing a chunk of it, or closing a parameter.
StreamFails ==
    /\ At(call.at) /\ call.at \in {"Opening", "Chunk", "EndParam"}
    /\ client' \in Failed
    /\ dae' = NoDae /\ prepared' = IF call.at = "Chunk" THEN TakenPlan ELSE call.plan
    /\ exec_started' = FALSE
    /\ call' = [call EXCEPT !.at = "Fail", !.plan = NoPlan]
    /\ UNCHANGED <<cursor_open, wire>> /\ keepHist

\* run_deferred_execute ends the sequence, but EXEC_STARTED stays.
SendDeferred ==
    /\ At("Send")
    /\ dae' = NoDae /\ prepared' = NoPlan
    /\ call' = [call EXCEPT !.at = "Sending", !.lease = TRUE, !.plan = dae.plan]
    /\ client' = [client EXCEPT !.vals = dae.buffered]
    /\ UNCHANGED <<exec_started, cursor_open, wire>> /\ keepHist

Sent ==
    /\ At("Sending") /\ Usable(client)
    /\ RestorePlan
    /\ delivered' = <<client.vals>> /\ client' = Is("Response")
    /\ call' = [call EXCEPT !.at = "Publish", !.plan = NoPlan]
    /\ UNCHANGED <<exec_started, cursor_open, dae, wire, newest, acked>>

SendFails ==
    /\ At("Sending")
    /\ RestorePlan
    /\ client' \in Failed
    /\ call' = [call EXCEPT !.at = "Fail", !.plan = NoPlan]
    /\ UNCHANGED <<exec_started, cursor_open, dae, wire>> /\ keepHist

\* A streamed parameter closes on the wire, with the client checked out.
CloseStreamed ==
    /\ Closing /\ Closable /\ ~dae.deferred
    /\ dae' = [CheckedOut(dae) EXCEPT !.plan = NoPlan]
    /\ call' = [call EXCEPT !.at = "EndParam", !.lease = TRUE, !.plan = dae.plan]
    /\ UNCHANGED <<exec_started, cursor_open, prepared>> /\ keepWire /\ keepHist

\* The request with the open parameter closed.
WithValue(c) == c.vals \cup {<<Min(c.todo), c.value>>}

\* end_streamed_param: the next header is written ...
EndParamNext ==
    /\ At("EndParam") /\ client.todo # {Min(client.todo)}
    /\ \E sent \in {client.sent, TRUE} :
          client' = [client EXCEPT !.vals = WithValue(client), !.todo = @ \ {Min(@)},
                                   !.value = Fresh, !.sent = sent]
    /\ dae' = [Advanced(Returned(dae)) EXCEPT !.plan = call.plan]
    /\ call' = [call EXCEPT !.at = "End", !.lease = FALSE, !.plan = NoPlan]
    /\ UNCHANGED <<exec_started, cursor_open, prepared, wire>> /\ keepHist

\* ... or the request is complete, and so is the sequence.
EndParamLast ==
    /\ At("EndParam") /\ client.todo = {Min(client.todo)}
    /\ delivered' = <<WithValue(client)>> /\ client' = Is("Response")
    /\ dae' = NoDae /\ prepared' = call.plan /\ exec_started' = FALSE
    /\ call' = [call EXCEPT !.at = "Publish", !.plan = NoPlan]
    /\ UNCHANGED <<cursor_open, wire, newest, acked>>

---------------------------------------------------------------------------
(* SQLPutData.                                                             *)

Putting == At("Begin") /\ call.fn = "PutData" /\ NeedsData /\ dae.cursor > 0

\* A bad pointer or length changes nothing.
PutRefused == Putting /\ Goto("End") /\ keepStmt /\ keepWire /\ keepHist

\* NULL after data, data after NULL, more than was announced or fits: the
\* sequence is over.
PutAborts == Putting /\ Abort

Ack(v) == acked' = [acked EXCEPT ![dae.cursor].value = v]

PutNull ==
    /\ Putting /\ ~dae.progress.put
    /\ dae' = [dae EXCEPT !.progress.put = TRUE, !.progress.null = TRUE]
    /\ client' = IF dae.deferred THEN client ELSE [client EXCEPT !.value.null = TRUE]
    /\ Ack([chunks |-> 0, null |-> TRUE]) /\ Goto("End")
    /\ UNCHANGED <<exec_started, cursor_open, prepared, wire, newest, delivered>>

Fits(n) ==
    /\ ~dae.progress.null /\ dae.progress.chunks + n <= MaxChunks
    /\ Current(dae).expected = NoLength \/ dae.progress.chunks + n <= Current(dae).expected

WithChunks(d, n) == [d EXCEPT !.progress.put = TRUE, !.progress.chunks = @ + n]

\* A zero-length chunk commits the parameter to a present value; while the
\* sequence is deferred every chunk goes to a buffer.
PutHere(n) ==
    /\ Putting /\ Fits(n) /\ (n = 0 \/ dae.deferred)
    /\ dae' = WithChunks(dae, n)
    /\ Ack([chunks |-> dae.progress.chunks + n, null |-> FALSE]) /\ Goto("End")
    /\ UNCHANGED <<exec_started, cursor_open, prepared, newest, delivered>> /\ keepWire

PutStreamed ==
    /\ Putting /\ Fits(1) /\ ~dae.deferred
    /\ dae' = CheckedOut(WithChunks(dae, 1))
    /\ call' = [call EXCEPT !.at = "Chunk", !.lease = TRUE]
    /\ UNCHANGED <<exec_started, cursor_open, prepared>> /\ keepWire /\ keepHist

\* write_streamed_chunk.
ChunkWritten ==
    /\ At("Chunk")
    /\ \E sent \in {client.sent, TRUE} :
          client' = [client EXCEPT !.value.chunks = @ + 1, !.sent = sent]
    /\ dae' = Returned(dae)
    /\ Ack([chunks |-> dae.progress.chunks, null |-> FALSE])
    /\ call' = [call EXCEPT !.at = "End", !.lease = FALSE]
    /\ UNCHANGED <<exec_started, cursor_open, prepared, wire, newest, delivered>>

---------------------------------------------------------------------------
(* SQLFreeStmt(SQL_CLOSE) and SQLCloseCursor, finish_operation.            *)

\* A response still on the wire is abandoned, and the connection released.
CloseCursor ==
    /\ cursor_open' = FALSE
    /\ IF cursor_open /\ wire = "Reserved"
       THEN wire' = "Idle" /\ client' \in Failed ELSE keepWire
    /\ UNCHANGED <<exec_started, prepared, dae>>

Close ==
    /\ At("Begin") /\ call.fn = "Close"
    /\ CloseCursor /\ Goto("Drop") /\ keepHist

Finish ==
    /\ call.at = "Drop" \/ (call.at = "End" /\ ~marked)
    /\ M!Finish /\ call' = NoCall
    /\ UNCHANGED <<hits, look, stmtVars, wire, client, newest, acked, delivered, bounds>>

\* Mutation: a call that a SQLCancel hit leaves the sequence open.
SettlesDae0 == FALSE

SettlesDae == NeedsData

\* settle_late_cancellation.
Settle ==
    /\ At("End") /\ marked
    /\ IF SettlesDae
       THEN /\ TakeDae
            /\ call' = [call EXCEPT !.fn = "Settle", !.at = "Unwind", !.lease = TRUE]
            /\ UNCHANGED cursor_open /\ keepWire
       ELSE /\ IF cursor_open /\ wire = "Reserved" THEN CloseCursor
               ELSE keepStmt /\ keepWire
            /\ Goto("Drop")
    /\ keepHist

---------------------------------------------------------------------------
(* SQLCancel, SQLPrepare, SQLFreeHandle, and the rest of the connection.   *)

Cancel(t) ==
    /\ ~freed /\ runner # t /\ cancelCalls < MaxCancels /\ cancelCalls' = cancelCalls + 1
    /\ M!Cancel(t)
    /\ hits' = IF runner # NoThread THEN hits \cup {t} ELSE hits
    /\ UNCHANGED <<call, look, stmtVars, wire, client, newest, acked, delivered, calls, plans,
                   others, freed>>

\* A SQLCancel that hit a call has nothing left to do.
Inspect(t) ==
    /\ M!Inspect(t)
    /\ look' = IF t \in hits THEN "Done" ELSE "Look"
    /\ UNCHANGED <<call, hits, stmtVars, wire, client, newest, acked, delivered, bounds>>

lookRest == <<monVars, call, hits, newest, acked, delivered, bounds>>

\* Mutation: the lease is left behind when the sequence is dropped.
LookUnwind0 == "Done"

LookUnwind == "Unwind"

Look ==
    /\ look = "Look"
    /\ CASE ~NeedsData -> CloseCursor /\ look' = "Done"
         [] NeedsData /\ dae.in_flight -> look' = "Done" /\ keepStmt /\ keepWire
         [] OTHER -> TakeDae /\ look' = LookUnwind /\ UNCHANGED cursor_open /\ keepWire
    /\ UNCHANGED lookRest

\* finish_dae_unwind.
CancelUnwind ==
    /\ look = "Unwind"
    /\ client' \in Cancelled(client) /\ wire' = "Idle" /\ look' = "Done"
    /\ keepStmt /\ UNCHANGED lookRest

CancelReturn(t) ==
    /\ look = "Done" /\ M!Return(t)
    /\ look' = "None" /\ hits' = hits \ {t}
    /\ UNCHANGED <<call, stmtVars, wire, client, newest, acked, delivered, bounds>>

\* SQLPrepare does not register as an operation; only the flags hold it off.
Prepare ==
    /\ ~freed /\ plans < MaxPlans /\ plans' = plans + 1
    /\ ~exec_started /\ ~cursor_open
    /\ prepared' = plans + 1 /\ newest' = plans + 1
    /\ UNCHANGED <<monVars, call, hits, look, exec_started, cursor_open, dae, wire, client, acked,
                   delivered, calls, cancelCalls, others, freed>>

\* SQLFreeHandle, which the driver manager lets through when no call runs.
FreeHandle ==
    /\ ~freed /\ runner = NoThread /\ cancels = {}
    /\ freed' = TRUE
    /\ IF NeedsData THEN client' \in Cancelled(client)
       ELSE IF cursor_open /\ wire = "Reserved" THEN client' \in Failed
       ELSE UNCHANGED client
    /\ wire' = IF NeedsData \/ (cursor_open /\ wire = "Reserved") THEN "Idle" ELSE wire
    /\ dae' = NoDae /\ prepared' = NoPlan /\ newest' = NoPlan
    /\ exec_started' = FALSE /\ cursor_open' = FALSE
    /\ UNCHANGED <<monVars, call, hits, look, acked, delivered, calls, cancelCalls, plans, others>>

\* A command of another statement of the connection.
OtherTakes ==
    /\ wire = "Idle" /\ others < MaxOthers /\ others' = others + 1
    /\ wire' = "Other"
    /\ UNCHANGED <<monVars, call, hits, look, stmtVars, client, newest, acked, delivered, calls,
                   cancelCalls, plans, freed>>

OtherReturns ==
    /\ wire = "Other" /\ wire' = "Idle" /\ client' \in Failed
    /\ UNCHANGED <<monVars, call, hits, look, stmtVars, newest, acked, delivered, bounds>>

---------------------------------------------------------------------------
ExecuteStep == \/ StageRefused \/ Stage \/ Claim \/ ClaimRefused \/ ClaimFailed
               \/ BeginFails \/ ParkDeferred \/ ParkStreaming \/ Send
EndStep == \/ PublishRows \/ PublishDone \/ PublishFails \/ PublishState
           \/ Fail \/ Unwind \/ Close \/ Finish \/ Settle
ParamDataStep == \/ OutOfSequence \/ FirstToken \/ CloseAborts \/ CloseBuffered
                 \/ RebuildFails \/ OpenRpc \/ Opened \/ StreamFails
                 \/ SendDeferred \/ Sent \/ SendFails
                 \/ CloseStreamed \/ EndParamNext \/ EndParamLast
PutDataStep == \/ PutRefused \/ PutAborts \/ PutNull \/ (\E n \in 0..1 : PutHere(n))
               \/ PutStreamed \/ ChunkWritten

Next ==
    \/ \E t \in Threads, fn \in Fns : Start(t, fn)
    \/ ExecuteStep \/ EndStep \/ ParamDataStep \/ PutDataStep
    \/ \E t \in Threads : Cancel(t) \/ Inspect(t) \/ CancelReturn(t)
    \/ Look \/ CancelUnwind \/ Prepare \/ FreeHandle \/ OtherTakes \/ OtherReturns

Spec == Init /\ [][Next]_vars

---------------------------------------------------------------------------
(* Properties.                                                             *)

TypeOK ==
    /\ call.fn \in Fns \cup {"None", "Settle"} /\ call.at \in Stops \cup {"None"}
    /\ call.plan \in 0..MaxPlans /\ call.lease \in BOOLEAN
    /\ hits \subseteq Threads /\ look \in {"None", "Look", "Unwind", "Done"}
    /\ exec_started \in BOOLEAN /\ cursor_open \in BOOLEAN /\ prepared \in 0..MaxPlans
    /\ NeedsData => /\ dae.params \in ParamLists /\ dae.cursor \in 0..(Len(dae.params) + 1)
                    /\ dae.plan \in 0..MaxPlans
    /\ wire \in {"Idle", "Reserved", "Lease", "Other"}
    /\ client.is \in {"Quiet", "Writing", "Response", "Dead"}

AtRest == runner = NoThread /\ inspector = NoThread

\* The lease is in exactly one place while it is out.
LeaseHolders == {h \in {"call", "dae", "cancel"} :
    \/ h = "call" /\ call.lease
    \/ h = "dae" /\ NeedsData /\ dae.lease
    \/ h = "cancel" /\ look = "Unwind"}

\* The statement in Need Data has what it takes to go on: its lease is parked
\* or with the call in progress, EXEC_STARTED keeps SQLPrepare away from the
\* plan it carries, and its cursor is on the parameter the client has open.
SequenceWhole ==
    /\ TypeOK
    /\ wire = "Lease" <=> Cardinality(LeaseHolders) = 1
    /\ wire # "Lease" => LeaseHolders = {}
    /\ NeedsData =>
          /\ exec_started /\ prepared = NoPlan
          /\ dae.in_flight <=> ~dae.lease
          /\ AtRest => dae.lease
          /\ AtRest /\ ~dae.deferred =>
                /\ client.is = "Writing"
                /\ Min(client.todo) = IF dae.cursor = 0 THEN 1 ELSE dae.cursor
                /\ client.value = Progress(dae)

\* The connection is never left to a statement that has no use for it: once
\* its calls have returned, only a sequence or a cursor keeps it.
NotStranded ==
    AtRest /\ ~NeedsData /\ ~cursor_open => wire \in {"Idle", "Other"}

\* "the client never re-enters the idle pool with a half-written request
\* parked on it": whoever takes the connection next finds it quiet or dead.
CleanWhenIdle ==
    wire = "Idle" => client.is \in {"Quiet", "Dead"}

\* What the server got is what the application was told it had supplied: every
\* parameter, each with its own chunks, whichever of them were buffered, and in
\* the length announced for it.
ValuesArrive ==
    delivered # Nothing =>
        /\ delivered[1] = {<<i, acked[i].value>> : i \in DOMAIN acked}
        /\ \A i \in DOMAIN acked :
              acked[i].expected \in {NoLength, acked[i].value.chunks} \/ acked[i].value.null

\* The plans the statement, its call and its sequence hold.
PlansHeld == {prepared, call.plan} \cup (IF NeedsData THEN {dae.plan} ELSE {})

\* However an execution or a sequence ends, the plan it took is the one put back,
\* and never over a newer one: while there is a newest plan it is held, and no
\* other is, but for the plan of a refused SQLExecute on its way back.
PlanKept ==
    /\ newest # NoPlan => newest \in PlansHeld
    /\ call.at # "ClaimFailed" => PlansHeld \subseteq {newest, NoPlan}

\* A SQLCancel leaves no sequence behind: not when the call it hit returns,
\* and not when it returns itself having hit none.
CancelEndsSequence ==
    [][/\ runner # NoThread /\ runner' = NoThread /\ marked => dae' = NoDae
       /\ inspector # NoThread /\ inspector' = NoThread => dae' = NoDae]_vars
=============================================================================
