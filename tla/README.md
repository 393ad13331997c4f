# TLA+ models of mssql-rs

mssql-rs is a Rust client for SQL Server: `mssql-tds` speaks the TDS protocol,
`mssql-odbc` is an ODBC driver on top of it, and Python, JavaScript and command
line front ends use the same core. This directory models the parts of it whose
correctness depends on order: what happens when requests are cancelled half
sent, when a pooled connection is reset for its next user, when a lost
connection is replaced behind the application's back, when several threads call
one ODBC connection or statement handle, and when several attempts to connect
race.

## 1. The system and its parts

| Component | State it keeps | Operations | Interacts with | What is hard |
|---|---|---|---|---|
| `TdsClient` (`connection/tds_client.rs`) | reset handshake, transaction descriptor, prepared-handle map and pending capture, recovery flag | requests, drains, cancel, withdraw, reconnect, close | writer and transport; driven by ODBC and the bindings | a request may fail after any packet; a response may be cut after any token |
| `PacketWriter` (`io/packet_writer.rs`) | message in progress, its reset bit, what was sent | new, send, suspend, resume, abandon | takes the armed mode from the transport | the bit must be used or handed back, never both |
| `NetworkTransport` | armed mode, dispatch record, dead verdict | send, receive, ATTENTION, abort | server | timeout races a late answer |
| Session recovery (`session_recovery.rs`, `reconnect`) | session-state table, negotiated settings and login defaults, budget of the command | apply tokens, reconnect, adopt | replaces the transport under a client | a mirror judged complete that is not; retries against one deadline |
| Connection provider (`tds_connection_provider.rs`, `parallel_connect.rs`) | attempt, transport and redirect counters, sockets | create, diagnose, race, redirect, retry | resolver, DNS cache, login | sockets finish in any order; one deadline over all |
| DNS cache (`dns_cache.rs`) | allowed addresses by host, shared by the process | resolve, record, forget | every login | a verdict taken from the wrong response |
| `ConnectionWire` (`handles/wire.rs`) | parked client, owner, lease | install, uninstall, claim, restore, release | every ODBC call | leases that outlive their session |
| ODBC transactions (`api/txn.rs`) | autocommit, isolation, `local_tran_started`, generations | SQLEndTran, attributes, reset, settings after login | leases the client, sweeps cursors | flags read in one critical section and used in another |
| ODBC connection life (`driver_connect.rs`, `disconnect.rs`) | connection state, session caches | connect, disconnect | all the above | calls still running across a disconnect |
| ODBC statements and cursors | cursor state, operation guard | execute, fetch, close | wire | reservations that nobody releases |
| SQLCancel and the operation guard (`handles/stmt.rs`) | atomic word, cancel mutex, condition variable, cancel handle and its child tokens | begin, finish, drop, cancel, settle | every statement call | lost wakeups; a cancellation that reaches the wrong call |
| Data at execution (`param_data.rs`, `put_data.rs`) | `DaeState`: the parked lease, the plan, the cursor over the parameters, what is buffered | SQLExecute, SQLParamData, SQLPutData, SQLCancel, close | guard, wire, streamed write of `TdsClient` | a request half written across several calls |
| SQLGetInfo caches | database user name | lookup, publish | wire, reset, session | a late answer for a replaced session |
| SQLGetData, SQLMoreResults | position in the response | read | guard | as readers only: see section 9 |
| Bulk copy, server cursors, Python session | own state over a `TdsClient` | | | not modelled |
| TLS, authentication, parsers, data types, conversions, encryption, front ends, mock server | | | | not modelled: see section 9 |

`PROJECT.json` lists every component with its status, every modelled definition
with the lines it stands for, and every hazard with the properties that cover
it.

What makes each part correct:

* reset: nothing runs on a session that still belongs to the previous
  borrower; a connection is not thrown away for want of an acknowledgement it
  was never owed; one arm is spent once;
* request life cycle: a drain always ends; nothing is written once the
  transport is known dead; the descriptor and the handle map agree with the
  server;
* recovery: a session is replaced only when nothing of it is lost, within the
  command's time, and not after a cancellation;
* connecting: one socket survives, by the deadline, and the process's DNS cache
  holds what the last accepted login allowed;
* wire: one call at a time drives the client of a session, and a client whose
  session is gone never returns;
* statements: one call at a time, a SQLCancel reaches the call it hit and no
  other, and everybody who waits is woken;
* data at execution: the lease and the plan are in one place, the server gets
  what was supplied, the connection comes back without half a request on it;
* ODBC calls: user work is committed or rolled back only when the application
  asked, caches are right whenever they are trusted, and no reservation locks
  everyone out.

## 2. Modules

    ResetConnection          TdsClient + PacketWriter + NetworkTransport + server
      MCResetConnection        instances for TLC
      ResetConnection_proofs   proofs about the reset
      ResetSession_proofs      EXTENDS it: requests, handles, reports, transactions
    SessionRecovery          the mirror of the session and the reconnect loop
      MCSessionRecovery
      SessionRecovery_proofs
    ConnectionProvider       opening a connection; the DNS cache
      MCConnectionProvider
      ConnectionProvider_proofs
    ExclusiveClient          abstract: what a connection's client promises
    ConnectionWire           handles/wire.rs; implements ExclusiveClient
      ConnectionWire_proofs
    OdbcConnection           EXTENDS ConnectionWire: threads calling one DBC
      MCOdbcConnection
      OdbcConnection_proofs    EXTENDS ConnectionWire_proofs too
    StatementMonitor         abstract: one call at a time, and SQLCancel
    StatementOperation       the guard of a statement; implements StatementMonitor
      MCStatementOperation
      StatementOperation_proofs
    DataAtExec               INSTANCE StatementMonitor: calls of one statement
      MCDataAtExec             in a data-at-execution sequence
      DataAtExec_proofs

Operators whose name ends in `0`, and those commented as mutations, are altered
copies of the definition that follows them. No behaviour uses them: they show
that the properties notice the change.

### ResetConnection

A request goes `Ready -> Writing -> Reading -> Ready`. `Start`, `Refuse`,
`Reconnect` and `ReconnectFails` are the outcomes of the request boundary
(`settle_abandoned_reset_verification`, `check_and_reconnect`, and the send
site); `SendPacket`, `RetractUnsent`, `WithdrawPartial`, `WriteLost` and
`SendExpired` those of sending (`populate_header_and_send`, `finish_send`,
`retract_partial_request`, `withdraw_sent_message`); `ReadAck`, `ReadBody`,
`ReadDone`, `ReadCondemns`, `ReadLost` those of one token;
`InterruptRead`, `Settle*` and `Withdraw*` cancel and drain. `PrepareReset`,
`MarkDead` and `Close` come from the pool. `RecoveryAfterRetire` says when a
connection retired over an unread response also loses its right to be recovered
(`retire_after_failed_drain`): after a desync in a drain or in a batch that is
walked over its errors, which the caller may or may not have asked for.

`reset_state` is `ResetAckState` with a mode standing for `Armed(mode)`. A
response is a set of token kinds between the acknowledgement and the DONE;
tokens of the body may be read in any order, which includes the server's order.
Statement identities may be reused after their handle is gone, where the code
issues fresh ids; this only adds behaviours. The seven request kinds differ in
what their answers contain and which gates they pass. The server (`Srv*`,
`Answers`) and `NetLoss` are external: the server resets before it parses the
carrying request, acknowledges first, and drops an ignored message whole.
`ServerHonors` says whether it may also lose the bit.

The wire model holds one message (`WireFree`): a SAVE written to a retired
transport behind an unread response is not followed further.

### SessionRecovery

`ResetConnection` treats a reconnect as one step; this module opens it up. The
client keeps `table` (`SessionStateTable`: the states at login, the delta since,
and whether recovery was switched off), `settings` (the current database and
the login's), and `execution` (open batch, transaction descriptor). `Read`
applies one token of a response. A command goes through `Refuse`, `Direct` or
`Reconnect` (`check_and_reconnect`), then the loop of `reconnect`: `Wait` and
`Wake` (the interval between attempts), `Attempt`, `AttemptFails`,
`ValidateFails`, `GiveUp`, `SleepCancelled` and `Adopt`
(`validate_recovery` and `adopt_recovered_session`, with the reset state, the
handle map, the SESSIONSTATE tokens of the recovery login, `AppliedTokens`, and
the time left for the request). `Cancel` may come anywhere in the loop, and time
goes on after it: `run_until_cancelled` only refuses to begin a wait on a
cancelled handle, and what it already waits for may still win. A cancelled
attempt is noted by the loop like any failed one (`AttemptFails`), so it is the
next look at the handle that ends the loop (`SleepCancelled`), or the first packet
of the request (`Adopt`). `close_transport` may fail before it records the dead
verdict, so `Reconnect` leaves `known_dead` as it was or sets it. The server is external: it keeps the states, says which cannot be
recovered, and builds the new session from the recovery login; its
acknowledgement may be absent, complete or malformed (`Acks`). Time is in ticks,
of which `TicksPerSecond` make one second of a timeout, so that rounding shows.

### ConnectionProvider

`conn[c].at` is the point of `create_client` the call has reached: `Loop` and
`Wait` (attempts and the waits between them), `Dial` (the transports of the
action chain), `Dns`, `Race` and `Order` and `Try` (the parallel and the
sequential connect), `Prelogin`, `Login`, and `Extras` (what a diagnosis leaves
running). `Resolve` falls back to the cached addresses when the resolver fails.
In a race every address has a socket of its own; `Connected` keeps the winner and
drops the rest. `ResponseEnds` decides a login response as a whole: accepted or
rejected, an error, a route, the settings an accepted login must bring, and the
DNS verdict; a route comes only with a LOGINACK, because the client refuses a
routing ENVCHANGE that precedes it (`login.rs:639`). `ResponseBreaks` is a response
cut short, or an SSPI or FedAuth answer that cannot be made or sent, for good or
for now. `AnotherLogsIn` is another
connection of the process writing the same cache. Time passes only while the
call waits, and an expired timer fires before the next tick. The resolver, the
sockets and the servers are external and owe no answer.

### ConnectionWire and ExclusiveClient

`ConnectionWire` has one action per method. A lease carries the session it was
taken from; `sessions` counts installs. Lease ids come from a finite set and
are reused only when nobody holds them (the code's counter is 64 bits wide).
`ExclusiveClient` says only that a live session is parked or with one holder,
that check-in by anybody else has no effect, and that a session that ended
does not come back.

### OdbcConnection

The DBC mutex is held for short critical sections; network I/O happens in
between with a lease. One action is one critical section together with the I/O
that leads to it, because nobody else can see the leased client. A call that
takes several sections is a small state machine (`call[t].pc`): sweep the
cursors, claim, act, publish. `session[n]` is what the server and client of
session `n` agree on: an open transaction, whether it holds user work, the
isolation level, and whether the connection is dead. Every round trip may
succeed, fail, or fail and lose the connection. With `RawSql` statements may
also BEGIN and SET in T-SQL.

Rules assumed of the callers: no call is started while SQLDriverConnect is
running (ODBC's Driver Manager serialises it; a call started earlier may still
be running, unless `QuietConnect`); SQLDisconnect does not free a statement
that is in use (`StatementsUnused`: the handle-lifetime TODO in `disconnect.rs`).
The catalog key of the USER_NAME cache, so every lookup starts from an empty one
(`LookupClaim`), diagnostics, mutex poisoning and process shutdown are left out. A
dead client stays dead (`Completes`): its recovery, which puts another session
under the same lease, is the subject of `SessionRecovery`. The settings after
login read what they will apply and claim the client in two critical sections
(`txn.rs` 1035-1045 and 1054) that are one action here; a call could come between
them only without `QuietConnect`. A BEGIN that fails may have begun the
transaction on the server or not, and may have lost the connection
(`IsolationFinish`, `PostConnectFinish`).

### StatementOperation and StatementMonitor

`operation_state` is the atomic word as a set of its two bits. `Begin` is the
compare-and-swap of the fast path; `SlowLock`, `SlowCheck`, `SlowWake` and
`SlowStore` the slow one under the mutex; `FinishFast`, `FinishContended`,
`FinishSlow`, `Settle` and `DropSlow` are `finish_operation`, the settlement of a
cancellation and the guard's drop; `CancelCall`, `CancelSignal`, `CancelCheck`,
`CancelWake`, `Inspect` and `CancelDrop` are `cancel_operation` and what
SQLCancel does with the statement to itself. Each is one atomic access or one
critical section. `latched` is the statement's cancel handle and `token` the
child a response reads by, which outlives the handle it came from. A thread may
wake from the condition variable for no reason (`SpuriousWake`).

`StatementMonitor` is what callers may rely on. `StatementIsMonitor` maps the
thread that holds the guard to `runner` and the SQLCancel past its wait to
`inspector`.

### DataAtExec

The calls of one statement, one at a time through `StatementMonitor`'s actions,
over the connection's lease, a `TdsClient` reduced to its command and its
streamed write, and another statement that wants the connection. `Stage` to
`ParkStreaming` and `ParkDeferred` are SQLExecute and SQLExecDirect with
data-at-execution parameters; `FirstToken` to `EndParamLast` are SQLParamData,
including the request that is only opened (`OpenRpc`) or sent (`SendDeferred`)
once its buffered values are in; `PutNull`, `PutHere`, `PutStreamed` and
`ChunkWritten` SQLPutData; `Abort`, `Fail` and `Unwind` the error paths; `Settle`,
`Look` and `CancelUnwind` what a SQLCancel does, through the call it hit or
itself. SQLPrepare does not take the guard in the code, so `Prepare` may come in
the middle of a call. A SQLExecute whose claim is refused has its plan put back by
an action of its own (`ClaimFailed`), because the lock is released in between. Two
pairs of critical sections are one action, since nobody can come between them: an
error path takes the sequence and returns the client while it has the statement's
guard (`RebuildFails`, `Fail`), and EXEC_STARTED, set before the plan is moved,
keeps SQLPrepare out (`Stage`, `execute.rs:1120`). SQLCloseCursor and
SQLFreeStmt(SQL_CLOSE) in Need Data are left out: the Driver Manager answers them
with HY010, and the driver itself would let them through without effect
(`close_cursor.rs` 148-157). A value is how many chunks it got and whether it is NULL.
`client.todo` is the set of places of the parameters the streamed write has
still to get; they are written in order, so the least of them is the one open.

## 3. Runs

| Run | Instance | Checks | Shows |
|---|---|---|---|
| `reset_honest` | 1 statement, all requests, full resets, honest server | `TypeOK NeverRunsUnreset NeverCondemnsHonest TxnMirror` | the reset reaches the server before anything else runs; healthy connections are kept; the descriptor is right |
| `reset_faulty` | both modes, server may lose the bit, no SAVE, fairness | `OkImpliesReset BitSpentOnce NoWriteOnDead HandlesAlive CaptureScoped ResponseEnds` | a lost reset is noticed, the handle map is right, every drain ends |
| `recovery_session` | 2 states, 2 databases, 3 commands, 2 losses, 2 ticks per second, connect timeout of 1 second | `MirrorMatches CancelStopsTheLoop RecoveryKeepsSession WithinBudget` | the mirror is the session; nothing of a session is lost in a recovery; the loop keeps to its budget and begins nothing once cancelled |
| `provider_open` | 1 client that may diagnose, 2 hosts, 2 addresses, 2 transports, 1 retry, 1 redirect | `OneConnection WithinLoginDeadline CacheIsVerdict ConnectReturns` | races and retries leave one socket, by the deadline, and the cache right |
| `odbc_two` | 2 threads, 2 statements, 1 reset, no USER_NAME lookup | `WorkIsFlagged AutocommitKeepsWork ReservationIsCursor IsolationCacheSound ClearFlagMeansNoWork` | interleavings of statements, transactions and the pool's reset; what a call that goes by a clear flag can rely on |
| `odbc_reuse` | 2 threads, 2 sessions, 1 reset | `TypeOK WireInv UserNameFresh ClientExclusive` | calls that outlive their session |
| `stmt_cancel` | 3 threads, 4 calls | `RegistryInv SignalReaches NoStrayCancel StatementIsMonitor CancelReturns AllReturn` | the guard is a monitor, cancellations reach their call, no wakeup is lost |
| `dae_sequence` | 8 calls, 1 SQLCancel, 2 SQLPrepare, 1 other command, lists of up to 3 parameters | `SequenceWhole NotStranded CleanWhenIdle ValuesArrive PlanKept CancelEndsSequence` | a sequence ends in one piece, however it ends, and the plan it gives back is the one it took |

Runs expected to be violated, one per finding:

| Run | Property | Sequence TLC finds |
|---|---|---|
| `odbc_isolation_race` | `IsolationKeepsWork` | `set_txn_isolation` sees no user work, a statement of another thread runs, the claim succeeds and the work is rolled back |
| `odbc_disconnect_race` | `DisconnectKeepsWork` | SQLDisconnect sees no user work, a statement of another thread claims the client, the rollback is skipped, the statement's work is done and the teardown discards it |
| `stmt_error_result` | `NoStrayCancel` | SQLExecute stops on an error result, SQLCloseCursor is hit by a SQLCancel and keeps the response, the next SQLMoreResults is interrupted |
| `recovery_defaults` | `ResetByLogin` | USE, a recovery, a reset, a second recovery: it logs in to the database of the first recovery |

What holds only within the instances above, or for the patterns the driver uses:

* `IsolationKeepsWork` and `DisconnectKeepsWork` hold as long as one thread makes
  all the calls and fail for two: the two race runs. What two threads can rely on
  is `ClearFlagMeansNoWork`: the flag was right when it was read.
* `IsolationKeepsWork` also fails for one thread with `RawSql = TRUE`: a T-SQL
  BEGIN in autocommit mode is rolled back by setting the isolation level.
* `TxnMirror` fails with `ArmModes = {"Reset", "ResetSkipTran"}`: a full reset is
  armed (the descriptor is cleared), then, before any request, a
  transaction-preserving one over it, and the server keeps its transaction. The
  ODBC driver only arms full resets.
* `IsolationCacheSound` fails for two threads over two sessions with
  `QuietConnect = FALSE` and both in `AttrThreads`: a reset that began before a
  reconnect is armed on the new session, and `mark_server_isolation_known` then
  clears its invalidation. The doc comment there says no reset can be in flight.
  It also fails with one thread in `AttrThreads`: an SQLEndTran that read
  `local_tran_started` in an earlier session claims the client of the new one
  just before the settings after login do, their claim is refused (`txn.rs:1056`
  to `1066`: "Unreachable right after a successful login") and the connect
  returns with a cached level that nobody has set and nobody distrusts. With
  `QuietConnect` the property is a theorem (section 6).
* `WorkIsFlagged` and `ClearFlagMeansNoWork` fail when both threads switch autocommit: the second switch
  clears the flag of work done after the first. `odbc_two` lets one thread set
  attributes.
* `NoStrayCancel` fails when SQLCloseCursor meets an error result
  (`stmt_error_result`); `stmt_cancel` closes with SQLFreeStmt, which settles.
* `MirrorMatches` and `RecoveryKeepsSession` leave out the database while
  `rebased` holds: after the sequence of `recovery_defaults` a reset makes the
  client believe in a database the server is not in.

The generation check in `settle_isolation_invalidation` turns out to be
conservative: a SET holds the lease from its claim to its publication and the
publication is atomic with the return, so no reset can be armed in between.
Removing it breaks none of the properties.

## 4. Bounds

* Statements: one is enough in `ResetConnection` for a handle to be captured,
  dropped and named again; two in `OdbcConnection` for a cursor to be in the
  way of another statement.
* Threads: a property about two calls needs two; `stmt_cancel` has three, so
  that a running call, a SQLCancel waiting for it and a call waiting for both,
  or two SQLCancel calls, are there together.
* `MaxSessions`: two sessions let a call outlive one and return into the next.
* `MaxResets`: one arm, which may race any other call.
* `LeaseIds`: one more than the threads.
* `MaxCalls`: four calls on a statement are an execution, a call that a SQLCancel
  hits, the SQLCancel and the call that must not notice it. Eight in
  `dae_sequence` take a list of three parameters from SQLExecute through every
  SQLParamData and SQLPutData, or a shorter list twice.
* `MaxPlans`: two plans, so that an older one could come back over a newer.
* `MaxChunks`: two chunks, so that a value grows after it was acknowledged; a
  third length stands for "not announced".
* `MaxCommands`, `MaxFailures`: three commands and two losses let a recovered
  session be lost again, with a reset in between.
* `RetryCount`, `RetryInterval`, timeouts: one retry whose wait may or may not
  fit in what is left. `recovery_session` has commands with a timeout of two
  seconds and commands with none, which take the connect timeout of one second as
  their budget.
* `ProviderOpen`: two addresses make a race; `MaxParallelIps = 2`, so the refusal
  of a race over too many addresses does not occur. A login timeout of three
  ticks is longer than one connect (two) and shorter than two.
* Symmetry: the statements of `odbc_two`, the threads of `dae_sequence` and the
  session states of `recovery_session` are interchangeable; the runs that use it
  check no liveness.
* `ResetConnection` has no counter: its state space is finite as it is.

Deadlock is checked for `ResetConnection`, where the application can always do
something. The other runs end when their sessions, calls or commands are used
up, so it is off; for `StatementOperation` and `ConnectionProvider` the liveness
properties say that nobody is left waiting.

## 5. Fairness

`ResetConnection!FairSpec` assumes that a read in progress is driven by its
caller (weak fairness of `Read`), that the drains of a withdrawal and of an
ATTENTION are bounded by their deadlines (`Settle`, which includes the timeout
outcomes), and that a server that is up answers (`Server`). The application is
not obliged to send anything, and losing the network is never required.

`StatementOperation!FairSpec` assumes that a thread inside the driver keeps
running (weak fairness of all its steps taken together, so a thread that only
waits for the mutex has no claim to it while others alternate on it). The server
need not answer: `Answered` has no fairness, and `AllReturn` allows a call to
wait for it forever. `SpuriousWakesStop` assumes that a thread wakes for no
reason only finitely often. Calls are bounded, so nobody starves behind an
endless stream of new ones: std's mutex and condition variable do not promise
otherwise.

`ConnectionProvider!Spec` assumes that the call's own steps and its timers run
and that time passes. The resolver, the sockets and the servers owe nothing.

## 6. What is proved

All proofs hold for every value of the constants that satisfies the ASSUMEs of
the modules; a theorem that needs more says so, with the reason. Each invariant below was first checked by TLC on the instances of
section 3. The proof that a step keeps an invariant has one step per action.

`ResetConnection_proofs`

* `TypeCorrect`: `Spec => []TypeOK`.
* `ResetCorrect` and `NeverCondemnsCorrect`: if `ServerHonors = {TRUE}`, then
  `Spec => [](NeverRunsUnreset /\ NeverCondemnsHonest)`. Neither is inductive:
  whether a request may run depends on where the bit is. `ResetInv` follows the
  one outstanding reset from the arm, through the message that carries it, to
  the answer that acknowledges it: a session not yet reset is owed the bit by
  the client, by the message being written, or by the message the server holds
  (`ResetOwed`); the writer is armed only while the client owes it
  (`PendingIsOwed`); what the server holds is the client's message
  (`MessageOnWire`); and while a verification is open the answer starts with
  the acknowledgement or proves nothing (`AnswerAcknowledges`).

`ResetSession_proofs`, whatever the server does with the bit unless stated

* `LineCorrect`: `Spec => [](TypeOK /\ LineInv)`. `LineInv` says what may be on the
  wire in each phase of a request: one message, the client's, with the
  verification state that goes with its bit. The theorems below rest on it.
* `CaptureCorrect`: `CaptureScoped`, because the answer being read while a capture
  is pending is that of the request that armed it.
* `HandlesCorrect`: `HandlesAlive`. The map names only handles of the session,
  counting a reset on its way as done (`MapIsHeld`, `ResetEmpties`), and a
  request in flight named one that was there when it was sent (`NamedIsHeld`).
* `BitSpentCorrect`: `BitSpentOnce`. Once a carrier of an arm ran, nobody owes the
  bit: not the client, not the writer, not a message held (`NothingOwed`).
* `NoWriteOnDeadCorrect`, `ReportCorrect`: `NoWriteOnDead` and `OkImpliesReset`, if
  `"Save" \notin Kinds`. Saving a transaction and asking for the DTC address are
  the two requests that do not pass the gate (section 8); every other kind is
  allowed.
* `TxnMirrorCorrect`: `TxnMirror`, for an honest server and `ArmModes` with at most
  one element. The ODBC driver arms full resets only; over both modes it is false
  (section 3). `TxnFollows` says where the server's transaction state is while an
  answer is unread: in the flag, or in the ENVCHANGE still to come.

`SessionRecovery_proofs`, without hypotheses

* `MirrorCorrect`: `MirrorMatches`. The mirror is behind the server between a
  response and its last token; `MirrorInv` says that reading what is left makes it
  the session, with a reset token in front when a reset was armed.
* `CancelCorrect`: `CancelStopsTheLoop`, for any number of retries: after a
  cancellation the loop is in the attempt or the wait it was in, or at a point from
  which it can begin neither; `RecoveryKeeps`: the action property
  `RecoveryKeepsSession`; `BudgetCorrect`: the action property `WithinBudget`. The
  other conjuncts of `RecoveryInv` are needed: the loop runs within what it
  took from the command's budget (`LoopBudget`), nothing of the client moves
  under it (`LoopFrozen`), and an armed reset is in the mirror before its
  request is sent (`ArmedApplied`).

`ConnectionProvider_proofs`, for any number of clients, addresses and transports

* `OneConnectionCorrect`: `OneConnection`; `DeadlineCorrect`: `WithinLoginDeadline`,
  both from `ClientsInv`: at each point of `create_client`, which sockets are
  open, how much of the timers is left and how they add up to the overall
  deadline. A step of one client leaves the others' part alone.
* `CacheCorrect`: `CacheIsVerdict`, with all of them writing one cache.

`ConnectionWire_proofs`

* `WireTypeCorrect`: `WireSpec => []WireTypeOK`.
* `WireCorrect`: `WireSpec => []WireInv`, the invariants in the doc comment of
  `ConnectionWire` together with what they need: the lease out is held by one
  thread, for the newest session, and every other lease is older.
* `WireRefines`: `WireSpec => ClientExclusive`. The live session is the parked
  client or the one in the lease that is out; `CurrentIsNewest` says that the
  only lease that matches is that of the newest session, so a stale return
  maps to a stutter.

`OdbcConnection_proofs`, for any threads, statements, levels, sessions and resets

* `OdbcInvCorrect`: `OdbcInv`, the control of all forty actions, without
  hypotheses. Every step does one of seven things to the wire and the statements
  (`Handles`: stays, claims for a statement or for the connection, gives either
  back, frees, installs), and the control needs nothing else of it. A call has a
  lease exactly at its hold points (`CallInv`); a statement's guard is with the
  call that has its lease, and that lease is never stale, because SQLDisconnect
  waits for the statements (`OperationInv`); the cursor of an execution, or of a
  drain, is closed (`ClosedInv`).
* `OdbcTypeCorrect` (`TypeOK`), `OdbcWireCorrect` (`WireInv`),
  `ReservationCorrect` (`ReservationIsCursor`) and `UserNameCorrect`
  (`UserNameFresh`) follow. So does `OdbcRefines`: `Spec => ClientExclusive`, where
  all but one kind of step is a step of `ConnectionWire` and `WireRefines` has done
  the work; the connect that finds its client dead returns and uninstalls it in one
  critical section, which maps to a disconnect.
* `WorkInvCorrect`, `WorkFlaggedCorrect` (`WorkIsFlagged`) and `AutocommitCorrect`
  (`AutocommitKeepsWork`), if `RawSql = FALSE` and `AttrThreads` has at most one
  element; any number of threads may execute, fetch, close and call SQLEndTran.
  `WorkInv`: user work is inside the open transaction; in manual-commit mode
  there is none without the flag, and a statement about to run in an open
  transaction has raised it; in autocommit mode there is no work, and no
  transaction but that of a dead connection. The hypotheses are needed: both
  threads of two switching autocommit, or a BEGIN in T-SQL, break it (section 3).
* `IsolationCacheCorrect` (`IsolationCacheSound`), if `QuietConnect`; any number of
  threads may set attributes, where the runs have one, and statements may SET in
  T-SQL. `IsoInv` adds that a
  connect is alone with a fresh session and applies the level it read. `odbc_two`
  checks the property without `QuietConnect`, over one session, and section 3 shows
  that it fails over two.
* `ClearFlagCorrect` (`ClearFlagMeansNoWork`), from `WorkInv` under its hypotheses.
  That the verdict still holds when the call acts on it is not a theorem: it is
  false with two threads (`odbc_isolation_race`, `odbc_disconnect_race`).

`StatementOperation_proofs`

* `RegistryCorrect`: `Spec => []RegistryInv`. That one call runs at a time is not
  inductive: the fast path enters by the word alone, so the invariant says what
  each bit stands for. Everybody who must be woken, or who has yet to look at the
  word under the mutex, keeps NOTIFY set (`NotifyKept`); a call about to store its
  entry is alone (`StoreAlone`); a request on the record keeps NOTIFY set too, so
  that the next call takes the slow path and clears it (`RequestIsCurrent`).
* `SignalCorrect`: `Spec => []SignalReaches`, from `SignalInv`: the handle is
  latched exactly while the call in progress is signalled, and the token of an
  open response is not the child of a handle that was replaced uncancelled.
* `CancelScoped`: `Spec => []NoStrayCancel` if `"CloseCursor" \notin Kinds`, from
  `ScopeInv`: whoever drops the guard has closed the response first, so a
  cancelled token is never left to read by. With SQLCloseCursor it is false
  (`stmt_error_result`).
* `GuardRefines`: `Spec => StatementIsMonitor`, with one lemma for the steps that
  the callers cannot see, one for those that start a call and one for those that
  finish it.

`DataAtExec_proofs`, for any threads, parameter lists, chunks, calls and cancels

* `DaeInvCorrect`: `DaeInv`, a conjunction of who runs (`MonitorInv`), where the
  lease is (`LeaseInv`), when a sequence is open (`SequenceInv`), who has the plan
  (`StartedInv`), what the client has open (`ClientInv`), where the cursor over the
  parameters is (`CursorInv`), that a streamed write is at that parameter with
  what was acknowledged of it (`StreamInv`), and which values the application
  was told it has supplied (`AckedInv`, `ValuesInv`).
* `SequenceCorrect`, `NotStrandedCorrect`, `CleanWhenIdleCorrect`,
  `PlanKeptCorrect`, `ValuesArriveCorrect` state the five invariants of
  `dae_sequence`, and `CancelEndsCorrect` its action property. `ValuesArrive` is
  the strongest: the prefix of the request is what the application supplied,
  through the switch from buffered to streamed parameters. `PlanKept` follows one
  plan, not some plan: the newest is held, and nobody holds another but a refused
  SQLExecute on its way to put its own back.

## 7. What is only model-checked

The liveness properties (`ResponseEnds`, `CancelReturns`, `AllReturn`,
`ConnectReturns`): the prover has no rule for fairness or ENABLED. Every
invariant and every action property of the passing runs is a theorem, some under
the hypotheses above; outside them section 3 says what TLC finds. The four runs
that expect a violation are counterexamples and have nothing to prove.

## 8. Where the code and its own words disagree

Four disagreements have a run (section 3). The following came up while
modelling; they are not modelled by a run of their own.

* `save_transaction` and `get_dtc_address` (`tds_client.rs:9491`, `9656`) do not
  pass the gate that every request is said to pass (`1638`, `5329`), so they
  write to a transport known to be dead. `NoWriteOnDead` is violated as soon as
  `Kinds` includes `Save`; `reset_faulty` leaves it out.
* An `sp_prepexec` that carries the reset loses its handle: the acknowledgement
  clears the pending capture that this very request armed (`tds_client.rs:1141`,
  `4921`, against `4290`). The statement prepares again; no handle is
  misattributed.
* `switch_to_manual_commit` clears `local_tran_started` though a transaction begun
  in T-SQL may hold work (`txn.rs:794`, against `741`).
* A SQLExecute whose claim fails clears EXEC_STARTED before it puts the plan
  back (`exec_common.rs:348-395`, `execute.rs:247-259`), so that a concurrent
  SQLPrepare is overwritten by the older plan (`ClaimFailed`, the exception in
  `PlanKept`); the comment at `param_data.rs:930-935` describes the order that
  avoids it.
* A cancellation during the last reconnect attempt is reported as
  `SessionRecoveryFailed` (`tds_client.rs:1032`), where the doc of
  `check_and_reconnect` (`1610`) says that a cancelled reconnect is propagated;
  the number of attempts it reports is `connect_retry_count + 1` however many
  were made.
* A `connect_timeout` of zero makes every TCP connect time out at once
  (`network_transport.rs:458`, `689`), where a zero timeout means none elsewhere.
  `ConnectionProvider` assumes it is positive.

## 9. What is not modelled

Packet sizes and payloads; column metadata, row decoding and bound columns;
parameter arrays and table-valued parameters; the prepared batch; diagnostics;
mutex poisoning and process shutdown. SQLGetData and SQLMoreResults are modelled
as readers of an open response, not by the data they return. TLS,
authentication and local transports are sequential handshakes over library
code. Parsers, data types, conversions and cryptography, which are most of the
repository's lines, are pure functions over domains too large for TLC and are
covered by its unit tests; the same is true of the text handling of the front
ends. The instance cache is filled once per process and never invalidated, so
there is no protocol to state. Bulk copy and server cursors are sequential users
of the request life cycle of `ResetConnection`. Bindings, benchmarks and the mock
server hold no protocol of their own.

## 10. Plan

1. Proofs: `IsolationCacheSound` for a connect that other calls outlive, once the
   refused claim of the settings after login distrusts the cache; the safety half
   of `ResponseEnds` (a drain that goes on is one whose deadline has not passed).
2. `PacketWriter` framing (suspend, resume, packet boundaries) as the detailed
   specification of `SendPacket`.
3. The Python session and the query metadata cache of column encryption.
4. Pure algorithms against reference definitions: data source parsing, SSRP
   answers.
