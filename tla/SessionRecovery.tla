-------------------------- MODULE SessionRecovery --------------------------
(***************************************************************************)
(* Idle connection resiliency: the client mirrors the server's session     *)
(* from its tokens (mssql-tds/src/connection/session_recovery.rs), and     *)
(* when a command finds the connection dead it logs in again with that     *)
(* mirror, within the command's timeout (check_and_reconnect, reconnect    *)
(* and adopt_recovered_session in mssql-tds/src/connection/tds_client.rs). *)
(*                                                                         *)
(* The server is external: it keeps the session, resets it when a request  *)
(* carries the bit, and rebuilds it from a recovery login.  A session      *)
(* state is one of Vals, a database one of Databases; language and         *)
(* collation travel with the database.  Time passes in ticks.              *)
(***************************************************************************)
EXTENDS Naturals, Sequences, FiniteSets

CONSTANTS
    Ids, Vals, BaseVal,        \* session states and their values at login
    Databases, LoginDb,
    RetryCount, RetryInterval, \* connect_retry_count, _interval in seconds
    ConnectTimeout, Timeouts,  \* in seconds; a command timeout of 0 is none
    TicksPerSecond,
    MaxCommands,               \* bound: commands
    MaxFailures                \* bound: losses of the connection

ASSUME ValueAssumption == BaseVal \in Vals /\ LoginDb \in Databases
ASSUME TimeAssumption ==
    /\ {RetryCount, RetryInterval, MaxCommands, MaxFailures} \subseteq Nat
    /\ Timeouts \subseteq Nat
    /\ ConnectTimeout \in Nat \ {0} /\ TicksPerSecond \in Nat \ {0}

VARIABLES
    server,       \* the server's session, external
    link,         \* "Up" or "Down": whether that session is still there
    response,     \* the tokens of the response not yet read
    table,        \* SessionStateTable
    settings,     \* the database of NegotiatedSettings, and its login default
    execution,    \* ExecutionContext: open batch, transaction descriptor
    negotiated,   \* session_recovery_negotiated
    known_dead,
    armed,        \* reset_state: a reset waits for its request
    command,      \* the command in check_and_reconnect, or Idle
    clock,        \* ticks since that command began, 0 when Idle
    cancelled,    \* {}, or where that command was when its handle was cancelled
    \* --- history, read by the properties only ---
    outcome,      \* how the last command that got here ended
    retired,      \* the client was closed or lost the message boundary
    lost,         \* a response was not read to its last token
    rebased,      \* a reset restored a database that is not the login's
    commands, failures

session == <<server, link, response>>
client == <<table, settings, execution, negotiated, known_dead, armed>>
vars == <<session, client, command, clock, cancelled, outcome, retired, lost, rebased, commands,
          failures>>

NoRecord == [value |-> BaseVal, recoverable |-> TRUE, set |-> FALSE]
Record(v, r) == [value |-> v, recoverable |-> r, set |-> TRUE]
EmptyDelta == [i \in Ids |-> NoRecord]
Idle == [at |-> "Idle"]

FreshSession(state, db) ==
    [state |-> state, fixed |-> {}, off |-> FALSE, db |-> db, txn |-> FALSE]

Init ==
    /\ server = FreshSession([i \in Ids |-> BaseVal], LoginDb)
    /\ link = "Up" /\ response = <<>>
    /\ table = [initial |-> [i \in Ids |-> BaseVal], delta |-> EmptyDelta, off |-> FALSE]
    /\ settings = [database |-> LoginDb, login_database |-> LoginDb]
    /\ execution = [open |-> FALSE, txn |-> FALSE]
    /\ negotiated = TRUE /\ known_dead = FALSE /\ armed = FALSE
    /\ command = Idle /\ clock = 0 /\ cancelled = {}
    /\ outcome = <<"None">> /\ retired = FALSE /\ lost = FALSE /\ rebased = FALSE /\ commands = 0 /\ failures = 0

---------------------------------------------------------------------------
(* The server, external.                                                   *)

\* What a request does to the session, and the tokens that report it.
Works == [do : {"Set"}, id : Ids, value : Vals, recoverable : BOOLEAN]
         \cup [do : {"Use"}, db : Databases]
         \cup [do : {"Txn"}, on : BOOLEAN]
         \cup [do : {"Off"}]

Worked(s, w) ==
    CASE w.do = "Set" -> [s EXCEPT !.state[w.id] = w.value,
                                   !.fixed = IF w.recoverable THEN @ \ {w.id} ELSE @ \cup {w.id}]
      [] w.do = "Use" -> [s EXCEPT !.db = w.db]
      [] w.do = "Txn" -> [s EXCEPT !.txn = w.on]
      [] w.do = "Off" -> [s EXCEPT !.off = TRUE]

\* A reset takes the session back to the baseline of its login, or to the one
\* that a recovery login declared.
ResetSession(s) == [FreshSession([i \in Ids |-> BaseVal], LoginDb) EXCEPT !.off = s.off]

\* The session a recovery login asks for.
Rebuilt(initial, delta, db) ==
    FreshSession([i \in Ids |-> IF delta[i].set THEN delta[i].value ELSE initial[i]], db)

\* That session as the login's SESSIONSTATE tokens describe it.
Described(s, fixed, off) == [s EXCEPT !.fixed = fixed, !.off = off]

\* The acknowledgement of a recovery login: nothing, the states, or garbage.
Acks == {"None", "States", "Malformed"}

---------------------------------------------------------------------------
(* SessionStateTable and RecoveryContext.                                  *)

IsSessionRecoverable == ~table.off /\ \A i \in Ids : table.delta[i].recoverable

\* Mutation: an open transaction does not stand in the way.
IsRecoveryPossible0 == negotiated /\ IsSessionRecoverable /\ ~execution.open

IsRecoveryPossible ==
    negotiated /\ IsSessionRecoverable /\ ~execution.open /\ ~execution.txn

\* Mutation: a truncated payload leaves recovery on.
AppliedAck0(t, ack, s) ==
    CASE ack = "None" -> t
      [] ack = "States" -> [t EXCEPT !.delta = [i \in Ids |-> Record(s.state[i], TRUE)]]
      [] ack = "Malformed" -> [t EXCEPT !.delta = EmptyDelta]

\* apply_feature_ack_to_delta: the payload replaces the delta; without one it
\* stays, and a truncated one turns recovery off.
AppliedAck(t, ack, s) ==
    CASE ack = "None" -> t
      [] ack = "States" -> [t EXCEPT !.delta = [i \in Ids |-> Record(s.state[i], TRUE)]]
      [] ack = "Malformed" -> [t EXCEPT !.delta = EmptyDelta, !.off = TRUE]

\* The SESSIONSTATE tokens of the recovery login apply on top of it: the states
\* they tell of, and whether the session can be recovered at all.
AppliedTokens(t, told, s) ==
    [t EXCEPT !.delta = [i \in Ids |-> IF i \in told THEN Record(s.state[i], i \notin s.fixed)
                                      ELSE t.delta[i]],
              !.off = t.off \/ s.off]

\* process_session_state and capture_change_property, for one token.
Read ==
    /\ command = Idle /\ execution.open /\ ~known_dead /\ response # <<>>
    /\ LET w == Head(response)
       IN  /\ table' = CASE w.do = "Set" ->
                              [table EXCEPT !.delta[w.id] = Record(w.value, w.recoverable)]
                         [] w.do = "Off" -> [table EXCEPT !.off = TRUE]
                         [] w.do = "Reset" -> [table EXCEPT !.delta = EmptyDelta]
                         [] OTHER -> table
           /\ settings' = CASE w.do = "Use" -> [settings EXCEPT !.database = w.db]
                            [] w.do = "Reset" -> [settings EXCEPT !.database = settings.login_database]
                            [] OTHER -> settings
           /\ execution' = IF w.do = "Txn" THEN [execution EXCEPT !.txn = w.on] ELSE execution
           /\ armed' = (armed /\ w.do # "Reset")
           /\ rebased' = (rebased /\ w.do # "Use")
    /\ response' = Tail(response)
    /\ UNCHANGED <<server, link, negotiated, known_dead, command, clock, cancelled, outcome,
                   retired, lost, commands, failures>>

\* The final DONE closes the batch.
ReadDone ==
    /\ command = Idle /\ execution.open /\ ~known_dead /\ response = <<>>
    /\ execution' = [execution EXCEPT !.open = FALSE]
    /\ UNCHANGED <<session, table, settings, negotiated, known_dead, armed, command, clock,
                   cancelled, outcome, retired, lost, rebased, commands, failures>>

\* The read finds the connection gone; the batch is over and recovery stays on.
ReadFails ==
    /\ command = Idle /\ execution.open /\ ~known_dead /\ link = "Down"
    /\ known_dead' = TRUE /\ response' = <<>> /\ lost' = (response # <<>>)
    /\ execution' = [execution EXCEPT !.open = FALSE]
    /\ UNCHANGED <<server, link, table, settings, negotiated, armed, command, clock, cancelled,
                   outcome, retired, rebased, commands, failures>>

\* close_connection; or a decoder error in the response, which
\* retire_after_failed_drain does not let a reconnect paper over.
Retire ==
    /\ command = Idle /\ ~known_dead
    /\ known_dead' = TRUE /\ negotiated' = FALSE /\ retired' = TRUE
    /\ execution' = [execution EXCEPT !.open = FALSE] /\ response' = <<>>
    /\ UNCHANGED <<server, link, table, settings, armed, command, clock, cancelled, outcome,
                   lost, rebased, commands, failures>>

\* prepare_reset_connection, with the full reset that the ODBC pool asks for.
PrepareReset ==
    /\ command = Idle /\ ~armed /\ ~execution.open
    /\ armed' = TRUE
    /\ execution' = [execution EXCEPT !.txn = FALSE]
    /\ table' = [table EXCEPT !.delta = EmptyDelta]
    /\ settings' = [settings EXCEPT !.database = settings.login_database]
    /\ rebased' = (settings.login_database # LoginDb)
    /\ UNCHANGED <<session, negotiated, known_dead, command, clock, cancelled, outcome, retired,
                   lost, commands, failures>>

---------------------------------------------------------------------------
(* A command: check_and_reconnect, then the request.                       *)

Ticks(seconds) == seconds * TicksPerSecond

\* The budget of the reconnect: the command's, or else the connection's.
ReconnectTimeout(t) == Ticks(IF t > 0 THEN t ELSE ConnectTimeout)

\* The request goes out, with the reset if one is armed; on a dead link it
\* fails and the verdict is in.
Send(w) ==
    IF link = "Up"
    THEN /\ server' = Worked(IF armed THEN ResetSession(server) ELSE server, w)
         /\ response' = (IF armed THEN <<[do |-> "Reset"]>> ELSE <<>>) \o <<w>>
         /\ execution' = [execution EXCEPT !.open = TRUE]
         /\ UNCHANGED <<link, known_dead>>
    ELSE /\ known_dead' = TRUE /\ UNCHANGED <<session, execution>>

Begin(w, t) ==
    /\ command = Idle /\ ~execution.open /\ commands < MaxCommands
    /\ commands' = commands + 1
    /\ UNCHANGED <<clock, cancelled, failures, lost, rebased, retired>>

\* A dead verdict without recovery, or a session that cannot be recovered.
Refuse(w, t) ==
    /\ Begin(w, t)
    /\ \/ known_dead /\ (~negotiated \/ RetryCount = 0)
       \/ negotiated /\ RetryCount > 0 /\ (known_dead \/ link = "Down") /\ ~IsRecoveryPossible
    /\ outcome' = <<"Refused">>
    /\ UNCHANGED <<session, client, command>>

\* The poll may miss that the link is down.
Direct(w, t) ==
    /\ Begin(w, t)
    /\ ~known_dead
    /\ outcome' = <<"Sent">> /\ Send(w)
    /\ UNCHANGED <<table, settings, negotiated, armed, command>>

\* reconnect: the state to restore is frozen, the old transport closed.  If the
\* stream's shutdown fails, close_transport returns before it sets known_dead.
Reconnect(w, t) ==
    /\ Begin(w, t)
    /\ RetryCount > 0 /\ (known_dead \/ link = "Down") /\ IsRecoveryPossible
    /\ command' = [at |-> "Check", work |-> w, timeout |-> t, deadline |-> ReconnectTimeout(t),
                   attempt |-> 0, wake |-> 0, initial |-> table.initial,
                   delta |-> table.delta, db |-> settings.database]
    /\ outcome' = <<"None">>
    /\ link' = "Down" /\ known_dead' \in {known_dead, TRUE}
    /\ UNCHANGED <<server, response, table, settings, execution, negotiated, armed>>

---------------------------------------------------------------------------
(* The loop of reconnect.                                                  *)

At(l) ==
    /\ command.at = l
    /\ UNCHANGED <<retired, commands, failures>>

Goto(l) == command' = [command EXCEPT !.at = l]
Ended(o) == command' = Idle /\ outcome' = o /\ clock' = 0 /\ cancelled' = {}
Remaining == IF command.deadline > clock THEN command.deadline - clock ELSE 0
tracking == <<session, client, lost, rebased>>
loopRest == <<tracking, clock, cancelled, outcome>>

\* Mutation: the wait is not charged to the budget.
EnoughForWait0 == Remaining > 0

EnoughForWait == Remaining >= Ticks(RetryInterval)

\* Mutation: the wait does not look at the handle.
SleepCancels0 == FALSE

\* run_until_cancelled does not begin to wait on a cancelled handle.  Once it
\* waits, what it waits for may still win over a cancellation.
SleepCancels == cancelled # {}

AnotherTry == At("Retry") /\ command.attempt <= RetryCount /\ EnoughForWait

\* The next attempt waits for the interval, if there is time for it.
Wait ==
    /\ AnotherTry /\ ~SleepCancels
    /\ command' = [command EXCEPT !.at = "Sleep", !.wake = clock + Ticks(RetryInterval)]
    /\ UNCHANGED loopRest

SleepCancelled ==
    /\ AnotherTry \/ At("Sleep")
    /\ SleepCancels
    /\ Ended(<<"Cancelled">>) /\ UNCHANGED tracking

Wake ==
    /\ At("Sleep") /\ clock = command.wake
    /\ Goto("Check") /\ UNCHANGED loopRest

Attempt ==
    /\ At("Check") /\ clock < command.deadline /\ cancelled = {}
    /\ Goto("Attempt") /\ UNCHANGED loopRest

\* Out of attempts or out of time: SessionRecoveryFailed.
GiveUp ==
    /\ \/ At("Retry") /\ (command.attempt > RetryCount \/ ~EnoughForWait)
       \/ At("Check") /\ clock >= command.deadline
    /\ Ended(<<"Failed">>) /\ UNCHANGED tracking

AttemptLimit == command.deadline

\* An attempt fails, at the latest when its time is up; it is cancelled; or it is
\* not begun because the handle already was.  The loop only notes the error.
AttemptFails ==
    /\ \/ At("Attempt")
       \/ At("Check") /\ clock < command.deadline /\ cancelled # {}
    /\ command' = [command EXCEPT !.at = "Retry", !.attempt = @ + 1]
    /\ UNCHANGED loopRest

\* The new session is not like the old one: closed, and no further attempt.
ValidateFails ==
    /\ At("Attempt")
    /\ Ended(<<"Mismatch">>) /\ UNCHANGED tracking

\* deduct_timeout: whole elapsed seconds are charged.
Deduct(t, elapsed) ==
    IF t = 0 THEN <<"None">>
    ELSE LET s == elapsed \div TicksPerSecond
         IN  IF s >= t THEN <<"Exhausted">> ELSE <<"Left", t - s>>

\* adopt_recovered_session, and the request with what is left of the budget: a
\* spent budget or a cancelled handle stops it before its first packet.
Adopt ==
    /\ At("Attempt") /\ clock <= AttemptLimit
    /\ \E ack \in Acks, told \in SUBSET Ids, off \in BOOLEAN : \E fixed \in SUBSET told :
          LET s == Described(Rebuilt(command.initial, command.delta, command.db), fixed, off)
              budget == Deduct(command.timeout, clock)
              result == IF budget # <<"Exhausted">> /\ cancelled # {} THEN <<"Cancelled">>
                        ELSE budget
              sends == result \notin {<<"Exhausted">>, <<"Cancelled">>}
          IN  /\ server' = IF sends THEN Worked(s, command.work) ELSE s
              /\ response' = IF sends THEN <<command.work>> ELSE <<>>
              /\ table' = AppliedTokens(AppliedAck(table, ack, s), told, s)
              /\ settings' = [database |-> s.db, login_database |-> s.db]
              /\ execution' = [open |-> sends, txn |-> FALSE]
              /\ Ended(result)
    /\ link' = "Up" /\ known_dead' = FALSE /\ armed' = FALSE
    /\ lost' = FALSE /\ rebased' = FALSE
    /\ UNCHANGED negotiated

---------------------------------------------------------------------------
(* The environment.                                                        *)

\* Time passes while the loop waits for something, cancelled or not.
Tick ==
    /\ \/ At("Sleep") /\ clock < command.wake
       \/ At("Attempt") /\ clock < AttemptLimit
    /\ clock' = clock + 1
    /\ UNCHANGED <<session, client, command, cancelled, outcome, lost, rebased>>

Cancel ==
    /\ command # Idle /\ cancelled = {}
    /\ cancelled' = {[at |-> command.at, attempt |-> command.attempt]}
    /\ UNCHANGED <<session, client, command, clock, outcome, retired, lost, rebased, commands, failures>>

LinkFails ==
    /\ command = Idle /\ link = "Up" /\ failures < MaxFailures
    /\ link' = "Down" /\ failures' = failures + 1
    /\ UNCHANGED <<server, response, client, command, clock, cancelled, outcome, retired, lost, rebased,
                   commands>>

Next ==
    \/ \E w \in Works, t \in Timeouts : Refuse(w, t) \/ Direct(w, t) \/ Reconnect(w, t)
    \/ Read \/ ReadDone \/ ReadFails \/ Retire \/ PrepareReset
    \/ Wait \/ SleepCancelled \/ Wake \/ Attempt \/ GiveUp
    \/ AttemptFails \/ ValidateFails \/ Adopt
    \/ Tick \/ Cancel \/ LinkFails

Spec == Init /\ [][Next]_vars

---------------------------------------------------------------------------
(* Properties.                                                             *)

TypeOK ==
    /\ server.state \in [Ids -> Vals] /\ server.fixed \subseteq Ids /\ server.db \in Databases
    /\ link \in {"Up", "Down"} /\ Len(response) <= 2
    /\ table.initial \in [Ids -> Vals] /\ table.off \in BOOLEAN
    /\ \A i \in Ids : table.delta[i].value \in Vals
    /\ settings \in [database : Databases, login_database : Databases]
    /\ execution \in [open : BOOLEAN, txn : BOOLEAN]
    /\ {negotiated, known_dead, armed, retired, lost, rebased} \subseteq BOOLEAN
    /\ command.at \in {"Idle", "Check", "Attempt", "Retry", "Sleep"} /\ clock \in Nat

\* The client and the server are between two requests of a live session.
Settled ==
    command = Idle /\ link = "Up" /\ ~known_dead /\ ~execution.open /\ ~armed

Effective(i) == IF table.delta[i].set THEN table.delta[i].value ELSE table.initial[i]

\* Between two requests the mirror is the session: the states, which of them
\* block a recovery, the transaction, and the database that SQLGetInfo and the
\* per-database caches go by.  The one exception is rebased.
MirrorMatches ==
    /\ TypeOK
    /\ Settled =>
          /\ execution.txn = server.txn
          /\ server.off => table.off
          /\ ~rebased => settings.database = server.db
          /\ ~table.off =>
                \A i \in Ids : /\ Effective(i) = server.state[i]
                               /\ table.delta[i].recoverable <=> i \notin server.fixed

\* Adoption is the only step that brings the link back.
Adopts == link = "Down" /\ link' = "Up"

Restored == Rebuilt(command.initial, command.delta, command.db)

\* A session is replaced behind the application's back only if nothing of it
\* is lost: no transaction, no state the server called unrecoverable, every
\* setting carried over; and never after the client was retired.  With a reset
\* pending the states are those of the login instead.
RecoveryKeepsSession ==
    [][Adopts =>
          /\ ~retired
          /\ armed => Restored.state = [i \in Ids |-> BaseVal]
          /\ ~armed /\ ~lost =>
                /\ ~server.txn /\ ~server.off /\ server.fixed = {}
                /\ Restored.state = server.state
                /\ ~rebased => Restored.db = server.db]_vars

\* "the new session is already at its login defaults", the database too.
ResetByLogin ==
    [][Adopts /\ armed => Restored.db = LoginDb]_vars

\* The loop never outlives the command's budget, and the request that follows
\* it gets what is left, up to the rounding of one second: a spent budget never
\* becomes the zero that means none.
WithinBudget ==
    [][/\ command' # Idle => clock' <= command'.deadline
       /\ Adopts =>
             \/ command.timeout = 0 /\ outcome' = <<"None">>
             \/ outcome' = <<"Exhausted">>
             \/ cancelled # {} /\ outcome' = <<"Cancelled">>
             \/ /\ outcome'[1] = "Left" /\ outcome'[2] > 0
                /\ clock + Ticks(outcome'[2]) < Ticks(command.timeout + 1)]_vars

\* Once its handle is cancelled, a reconnect waits for nothing that it was not
\* already waiting for: it begins no connection attempt and no interval, however
\* the wait it was in ends, and it takes at most one more turn of its loop.
CancelStopsTheLoop ==
    command # Idle =>
        \A c \in cancelled :
            /\ command.at \in {"Attempt", "Sleep"} =>
                  command.at = c.at /\ command.attempt = c.attempt
            /\ command.attempt <= c.attempt + 1
=============================================================================
