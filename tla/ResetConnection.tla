--------------------------- MODULE ResetConnection ---------------------------
(***************************************************************************)
(* The RESETCONNECTION handshake of mssql-tds and the request life cycle   *)
(* it rides on: TdsClient (connection/tds_client.rs), the packet writer    *)
(* that consumes the armed bit (io/packet_writer.rs), the transport that   *)
(* holds it (connection/transport/network_transport.rs), and, as an        *)
(* external party, the server session at the other end of one TCP stream.  *)
(*                                                                         *)
(* A request goes Ready -> Writing -> Reading -> Ready.  A write that      *)
(* fails is retracted: dropped locally, withdrawn with EOM|IGNORE          *)
(* (Withdrawing), or, once the server holds all of it, cancelled with      *)
(* ATTENTION (Settling).  A read that times out or is cancelled also goes  *)
(* through Settling.                                                       *)
(*                                                                         *)
(* Packet payloads, result rows and diagnostics are abstracted to the      *)
(* kinds of token the client's control flow tells apart.                   *)
(***************************************************************************)

CONSTANTS
    Stmts,          \* identities a prepared statement may be given
    NoStmt,         \* "no statement"
    Kinds,          \* the requests the application issues (subset of AllKinds)
    ArmModes,       \* the resets it asks for (the ODBC pool: only "Reset")
    ServerHonors,   \* what the server may do with the bit: TRUE honours it
    Negotiated      \* was session recovery negotiated at login

Modes == {"Reset", "ResetSkipTran"}

\* SQL batch / sp_executesql, sp_prepexec, sp_execute, sp_unprepare, and the
\* transaction-manager requests BEGIN, COMMIT|ROLLBACK and SAVE.
AllKinds == {"Batch", "PrepExec", "Execute", "Unprepare", "Begin", "End", "Save"}

ASSUME StmtsAssumption == NoStmt \notin Stmts
ASSUME KindsAssumption == Kinds \subseteq AllKinds
ASSUME ArmModesAssumption == ArmModes \subseteq Modes
ASSUME ServerAssumption == ServerHonors \subseteq BOOLEAN /\ ServerHonors # {}
ASSUME NegotiatedAssumption == Negotiated \in BOOLEAN

VARIABLES
    \* --- TdsClient ---
    phase,            \* where the current request stands
    msg,              \* the PacketWriter's message, kept while its response is read
    reset_state,      \* ResetAckState: "Idle", a mode (= Armed(mode)) or "AwaitingAck"
    txn,              \* transaction_descriptor # 0
    handles,          \* keys of prepared_handles
    capture,          \* pending_capture
    errored,          \* the response being read reported an ERROR token
    recovery,         \* session_recovery_negotiated
    \* --- NetworkTransport ---
    pending_reset,    \* armed mode the next message takes, or "None"
    reset_dispatched, \* a header carrying the bit reached the wire
    known_dead,       \* the cached dead verdict
    \* --- the server and the wire (external) ---
    srv_up,           \* the TCP connection and its session exist
    inbox,            \* the message on its way to, or held by, the server
    attn,             \* an ATTENTION the server has not answered
    resp,             \* what is left to read of the server's answer
    srv_txn,          \* the session has an open transaction
    srv_handles,      \* prepared handles alive in the session
    srv_clean,        \* the session was reset (or created) since the last arm
    \* --- history, read by the properties only ---
    carriers,         \* how many messages with the bit the server has run since the last arm
    conceded,         \* an abandoned verification was settled since the last arm
    condemned,        \* ConnectionResetNotAcknowledged was raised
    wrote_dead,       \* a request was written to a transport known to be dead
    missing,          \* the server was asked to run a handle it does not hold
    ran_unclean,      \* a request ran on a session not reset since the last arm
    report            \* what the last finished request told its caller

clientVars == <<phase, msg, reset_state, txn, handles, capture, errored, recovery>>
wireVars   == <<pending_reset, reset_dispatched, known_dead>>
serverVars == <<srv_up, inbox, attn, resp, srv_txn, srv_handles, srv_clean>>
histVars   == <<carriers, conceded, condemned, wrote_dead, missing, ran_unclean, report>>
vars == <<clientVars, wireVars, serverVars, histVars>>

---------------------------------------------------------------------------
NoMsg == [kind |-> "None", stmt |-> NoStmt, mode |-> "None", first |-> FALSE,
          attempted |-> FALSE]

\* PacketWriter state that SuspendedMessage carries across suspend and resume.
Messages == [kind : AllKinds \cup {"None"}, stmt : Stmts \cup {NoStmt},
             mode : Modes \cup {"None"}, first : BOOLEAN, attempted : BOOLEAN]

\* since: the message was issued after the last arm (read by the history only).
NoInbox == [st |-> "None", kind |-> "None", stmt |-> NoStmt, mode |-> "None",
            since |-> TRUE]
Inboxes == [st : {"None", "Partial", "Complete", "Ignored"},
            kind : AllKinds \cup {"None"}, stmt : Stmts \cup {NoStmt},
            mode : Modes \cup {"None"}, since : BOOLEAN]

\* Tokens between the reset acknowledgement and the DONEs.  "Txn" is the
\* transaction ENVCHANGE, "Value" the RETURNVALUE of @handle, "Fatal" an ERROR
\* of severity 20 or more.
BodyTokens == {"Row", "Txn", "Value", "Error", "Fatal"}
NoResp == [ack |-> FALSE, body |-> {}, fin |-> {}, txn |-> FALSE, clean |-> TRUE]
Responses == [ack : BOOLEAN, body : SUBSET BodyTokens, fin : SUBSET {"Done", "Attn"},
              txn : BOOLEAN, clean : BOOLEAN]

NoReport == [kind |-> "None", stmt |-> NoStmt, ok |-> FALSE, clean |-> TRUE]
Reports == [kind : AllKinds \cup {"None"}, stmt : Stmts \cup {NoStmt},
            ok : BOOLEAN, clean : BOOLEAN]

FlagsOK ==
    /\ txn \in BOOLEAN /\ errored \in BOOLEAN /\ recovery \in BOOLEAN
    /\ reset_dispatched \in BOOLEAN /\ known_dead \in BOOLEAN
    /\ srv_up \in BOOLEAN /\ attn \in BOOLEAN
    /\ srv_txn \in BOOLEAN /\ srv_clean \in BOOLEAN
    /\ conceded \in BOOLEAN /\ condemned \in BOOLEAN /\ wrote_dead \in BOOLEAN
    /\ missing \in BOOLEAN /\ ran_unclean \in BOOLEAN

RecordsOK ==
    /\ phase \in {"Ready", "Writing", "Reading", "Settling", "Withdrawing"}
    /\ msg \in Messages
    /\ reset_state \in Modes \cup {"Idle", "AwaitingAck"}
    /\ handles \subseteq Stmts
    /\ capture \in Stmts \cup {NoStmt}
    /\ pending_reset \in Modes \cup {"None"}
    /\ inbox \in Inboxes
    /\ resp \in Responses
    /\ srv_handles \subseteq Stmts
    /\ carriers \in {"None", "One", "Many"}
    /\ report \in Reports

\* The shape of the client, the wire and the server; in particular the packet
\* writer is only ever armed with one of the two reset modes.
TypeOK == FlagsOK /\ RecordsOK

Init ==
    /\ phase = "Ready" /\ msg = NoMsg
    /\ reset_state = "Idle" /\ txn = FALSE /\ handles = {} /\ capture = NoStmt
    /\ errored = FALSE /\ recovery = Negotiated
    /\ pending_reset = "None" /\ reset_dispatched = FALSE /\ known_dead = FALSE
    /\ srv_up = TRUE /\ inbox = NoInbox /\ attn = FALSE /\ resp = NoResp
    /\ srv_txn = FALSE /\ srv_handles = {} /\ srv_clean = TRUE
    /\ carriers = "None" /\ conceded = FALSE /\ condemned = FALSE /\ wrote_dead = FALSE
    /\ missing = FALSE /\ ran_unclean = FALSE /\ report = NoReport

Armed == reset_state \in Modes

\* What a finished request tells its caller; ok is TRUE for Ok(_).
Reported(m, ok, clean) ==
    report' = [kind |-> m.kind, stmt |-> m.stmt, ok |-> ok, clean |-> clean]

---------------------------------------------------------------------------
(* Arming, and the request boundary.                                       *)

\* Mutation: the descriptor survives a full reset.
TxnKeptWhenArmed(mode) == txn

\* A full reset will discard the transaction; RESETCONNECTIONSKIPTRAN keeps it.
TxnOnceArmed(mode) == txn /\ mode = "ResetSkipTran"

\* prepare_reset_connection: arm the writer, drop what the reset will drop.
PrepareReset(mode) ==
    /\ phase = "Ready"
    /\ pending_reset' = mode
    /\ reset_dispatched' = FALSE
    /\ reset_state' = mode
    /\ txn' = TxnOnceArmed(mode)
    /\ handles' = {} /\ capture' = NoStmt
    /\ srv_clean' = FALSE /\ carriers' = "None" /\ conceded' = FALSE
    /\ inbox' = IF inbox = NoInbox THEN inbox ELSE [inbox EXCEPT !.since = FALSE]
    /\ report' = NoReport
    /\ UNCHANGED <<phase, msg, errored, recovery, known_dead, srv_up, attn,
                   resp, srv_txn, srv_handles, condemned, wrote_dead, missing, ran_unclean>>

\* Mutation: the arm is restored even though its bit went out.
RearmedThoughSent ==
    IF reset_state = "AwaitingAck" THEN "Reset"
    ELSE IF Armed THEN reset_state ELSE pending_reset

\* Mutation: the writer is armed with the tracking state, whatever it is.
RearmedUnguarded == reset_state

\* settle_abandoned_reset_verification, run at every request boundary.
Abandoned == reset_state = "AwaitingAck" \/ (Armed /\ reset_dispatched)
SettledState == IF Abandoned THEN "Idle" ELSE reset_state
SettledPending == IF Armed /\ ~reset_dispatched THEN reset_state ELSE pending_reset

\* Mutation: transaction-manager requests are left out.
TakesResetNoTm(kind) == kind \in {"Batch", "PrepExec", "Execute", "Unprepare"}

\* PacketWriter::new: SQL batch, RPC and transaction-manager messages take the
\* armed mode; every kind of request modelled here is one of the three.
TakesReset(kind) == kind \in AllKinds

NewMessage(kind, stmt, mode) ==
    [kind |-> kind, stmt |-> stmt, mode |-> IF TakesReset(kind) THEN mode ELSE "None",
     first |-> TRUE, attempted |-> FALSE]

\* The request sites open a message and, for sp_prepexec, arm the capture.
OpenMessage(kind, stmt, mode) ==
    /\ msg' = NewMessage(kind, stmt, mode)
    /\ phase' = "Writing"
    /\ errored' = FALSE
    /\ capture' = IF kind = "PrepExec" THEN stmt ELSE capture

\* Statement a request may name, given the handles the client holds:
\* execute_prepared chooses sp_execute or sp_prepexec by the map.
Names(kind, stmt, held) ==
    CASE kind = "PrepExec" -> stmt \in Stmts \ held
      [] kind \in {"Execute", "Unprepare"} -> stmt \in held
      [] OTHER -> stmt = NoStmt

\* Mutation: COMMIT and ROLLBACK skip the gate too.
GatedNotEnd(kind) == kind \notin {"Save", "End"}

\* check_and_reconnect (execute_transaction_request for COMMIT|ROLLBACK) lets a
\* request through on a transport not known to be dead.  save_transaction has
\* no such gate.
Gated(kind) == kind # "Save"

\* A request begins on the current transport.
Start(kind, stmt) ==
    /\ phase = "Ready" /\ kind \in Kinds /\ Names(kind, stmt, handles)
    /\ Gated(kind) => ~known_dead
    /\ reset_state' = SettledState
    /\ pending_reset' = IF TakesReset(kind) THEN "None" ELSE SettledPending
    /\ reset_dispatched' = FALSE
    /\ conceded' = (conceded \/ Abandoned)
    /\ OpenMessage(kind, stmt, SettledPending)
    /\ UNCHANGED <<txn, handles, recovery, known_dead, serverVars, carriers, condemned,
                   wrote_dead, missing, ran_unclean, report>>

\* is_recovery_possible, as far as this module's state decides it.
RecoveryPossible == recovery /\ ~txn

\* The request is refused with ConnectionClosed: the transport is dead and
\* recovery is unavailable, or (COMMIT|ROLLBACK, which go by the cached verdict
\* alone) never attempted.
Refuse(kind) ==
    /\ phase = "Ready" /\ kind \in Kinds /\ Gated(kind)
    /\ known_dead \/ (~srv_up /\ recovery /\ kind # "End")
    /\ kind = "End" \/ ~RecoveryPossible
    /\ reset_state' = SettledState
    /\ pending_reset' = SettledPending
    /\ reset_dispatched' = FALSE
    /\ conceded' = (conceded \/ Abandoned)
    /\ report' = [NoReport EXCEPT !.kind = kind]
    /\ UNCHANGED <<phase, msg, txn, handles, capture, errored, recovery, known_dead,
                   serverVars, carriers, condemned, wrote_dead, missing, ran_unclean>>

\* reconnect + adopt_recovered_session: a new transport to a new session takes
\* over, and the request that found the old one dead is sent on it.
Reconnect(kind, stmt) ==
    /\ phase = "Ready" /\ kind \in Kinds \ {"End", "Save"} /\ Names(kind, stmt, {})
    /\ RecoveryPossible /\ (known_dead \/ ~srv_up)
    /\ known_dead' = FALSE /\ pending_reset' = "None" /\ reset_dispatched' = FALSE
    /\ reset_state' = "Idle"
    /\ txn' = FALSE /\ handles' = {}
    /\ msg' = NewMessage(kind, stmt, "None") /\ phase' = "Writing" /\ errored' = FALSE
    /\ capture' = IF kind = "PrepExec" THEN stmt ELSE NoStmt
    /\ srv_up' = TRUE /\ inbox' = NoInbox /\ attn' = FALSE /\ resp' = NoResp
    /\ srv_txn' = FALSE /\ srv_handles' = {} /\ srv_clean' = TRUE /\ carriers' = "None"
    /\ UNCHANGED <<recovery, conceded, condemned, wrote_dead, missing, ran_unclean, report>>

\* reconnect when every attempt fails, or the new login fails validation: the
\* old transport has been closed, the request fails.
ReconnectFails(kind) ==
    /\ phase = "Ready" /\ kind \in Kinds \ {"End", "Save"}
    /\ RecoveryPossible /\ (known_dead \/ ~srv_up)
    /\ known_dead' = TRUE /\ srv_up' = FALSE
    /\ inbox' = NoInbox /\ attn' = FALSE /\ resp' = NoResp
    /\ reset_state' = SettledState
    /\ pending_reset' = SettledPending
    /\ reset_dispatched' = FALSE
    /\ conceded' = (conceded \/ Abandoned)
    /\ report' = [NoReport EXCEPT !.kind = kind]
    /\ UNCHANGED <<phase, msg, txn, handles, capture, errored, recovery, srv_txn,
                   srv_handles, srv_clean, carriers, condemned, wrote_dead, missing,
                   ran_unclean>>

---------------------------------------------------------------------------
(* Writing the request: PacketWriter::populate_header_and_send, finish_send *)
(* and retract_partial_request.                                             *)

\* The socket is shut or aborted; the server ends the session.
TransportGone ==
    srv_up' = FALSE /\ inbox' = NoInbox /\ attn' = FALSE /\ resp' = NoResp

\* Mutation: the map keeps the handle.
HandlesKept == handles

\* The handle leaves the map once sp_unprepare may have reached the server.
HandlesOnceSent == IF msg.kind = "Unprepare" THEN handles \ {msg.stmt} ELSE handles

\* The packet as the server holds it: the bit is on the first header only.
Delivered(last) ==
    IF srv_up THEN [st |-> IF last THEN "Complete" ELSE "Partial",
                    kind |-> msg.kind, stmt |-> msg.stmt,
                    mode |-> IF msg.first THEN msg.mode ELSE inbox.mode, since |-> TRUE]
              ELSE inbox

CarriesBit == msg.first /\ msg.mode # "None"
MultiPacket == msg.kind \in {"Batch", "PrepExec", "Execute"}

\* The wire model holds one message: a request written on a dead transport
\* behind an unanswered one is not followed.
WireFree == inbox.st # "Complete" /\ resp = NoResp /\ ~attn

\* populate_header_and_send completes; with the last packet finish_send returns
\* Ok and the response is awaited.
SendPacket(last) ==
    /\ phase = "Writing" /\ WireFree
    /\ last \/ MultiPacket
    /\ msg' = [msg EXCEPT !.first = FALSE, !.attempted = TRUE]
    /\ reset_dispatched' = (reset_dispatched \/ CarriesBit)
    /\ inbox' = Delivered(last)
    /\ phase' = IF last THEN "Reading" ELSE "Writing"
    /\ handles' = HandlesOnceSent
    /\ wrote_dead' = (wrote_dead \/ known_dead)
    /\ UNCHANGED <<reset_state, txn, capture, errored, recovery, pending_reset, known_dead,
                   srv_up, attn, resp, srv_txn, srv_handles, srv_clean, carriers, conceded,
                   condemned, missing, ran_unclean, report>>

\* Mutation: the dispatch record of a withdrawn message survives.
DispatchRecordKept == reset_dispatched

\* SuspendedMessage::abandon: hand the bit back, forget an earlier dispatch.
AbandonedPending == IF msg.mode # "None" THEN msg.mode ELSE pending_reset
AbandonedDispatched == IF msg.mode # "None" THEN FALSE ELSE reset_dispatched

\* Serialization fails, or cancel_streamed_write is called, before any send was
\* polled: the message is dropped locally.
RetractUnsent ==
    /\ phase = "Writing" /\ msg.kind # "Save" /\ ~msg.attempted
    /\ pending_reset' = AbandonedPending
    /\ reset_dispatched' = AbandonedDispatched
    /\ phase' = "Ready" /\ msg' = NoMsg /\ capture' = NoStmt
    /\ Reported(msg, FALSE, TRUE)
    /\ UNCHANGED <<reset_state, txn, handles, errored, recovery, known_dead, serverVars,
                   carriers, conceded, condemned, wrote_dead, missing, ran_unclean>>

\* Some packets went out and the message cannot be completed: withdraw it with
\* EOM|IGNORE and hand its reset bit back (rearm_withdrawn_reset).
WithdrawPartial ==
    /\ phase = "Writing" /\ msg.attempted
    /\ pending_reset' = AbandonedPending
    /\ reset_dispatched' = AbandonedDispatched
    /\ inbox' = IF srv_up THEN [inbox EXCEPT !.st = "Ignored"] ELSE inbox
    /\ phase' = "Withdrawing" /\ capture' = NoStmt
    /\ UNCHANGED <<msg, reset_state, txn, handles, errored, recovery, known_dead, srv_up,
                   attn, resp, srv_txn, srv_handles, srv_clean, histVars>>

\* A packet, or the IGNORE packet, is written in part (retire_without_writing),
\* or the IGNORE packet cannot be sent (abort_partial_request).  Interrupting a
\* write that was still live disables recovery; a failed one keeps it.
WriteLost(interrupted) ==
    /\ phase = "Writing" /\ (msg.kind = "Save" => ~interrupted)
    /\ recovery' = (recovery /\ ~interrupted)
    /\ known_dead' = TRUE
    /\ TransportGone
    /\ handles' = HandlesOnceSent
    /\ phase' = "Ready" /\ msg' = NoMsg /\ capture' = NoStmt
    /\ Reported(msg, FALSE, TRUE)
    /\ UNCHANGED <<reset_state, txn, errored, pending_reset, reset_dispatched, srv_txn,
                   srv_handles, srv_clean, carriers, conceded, condemned, wrote_dead,
                   missing, ran_unclean>>

\* The budget expires, or a cancellation lands, just as the last packet
\* completes: the server holds the whole request, so it is cancelled with
\* ATTENTION.  The bit is not handed back.
SendExpired ==
    /\ phase = "Writing" /\ msg.kind # "Save" /\ WireFree
    /\ msg' = [msg EXCEPT !.first = FALSE, !.attempted = TRUE]
    /\ reset_dispatched' = (reset_dispatched \/ CarriesBit)
    /\ inbox' = Delivered(TRUE)
    /\ attn' = srv_up
    /\ phase' = "Settling" /\ capture' = NoStmt
    /\ handles' = HandlesOnceSent
    /\ UNCHANGED <<reset_state, txn, errored, recovery, pending_reset, known_dead, srv_up,
                   resp, srv_txn, srv_handles, srv_clean, histVars>>

---------------------------------------------------------------------------
(* Reading the response: next_response_token and the walks over it.        *)

\* observe_response_token's two variables once a token has been seen.
ObservedState == IF Armed /\ reset_dispatched THEN "AwaitingAck" ELSE reset_state
ObservedDispatched == reset_dispatched /\ ~Armed

\* Mutation: a DONE without the acknowledgement is accepted.
ProvesNotDone(token) == token \in {"Row", "Value"}

\* proves_request_ran: ENVCHANGE, ERROR and DONE_ATTN prove nothing.
Proves(token) == token \in {"Row", "Value", "Done"}
Condemns(token) == ObservedState = "AwaitingAck" /\ Proves(token)

\* retire_after_failed_drain disarms recovery unless the transport was lost: in a
\* walk that continues over errors (abandon_failed_statement), if the call chose
\* one, and in drain_stream_or_retire.
RecoveryAfterRetire(kind) ==
    IF kind \in {"Batch", "PrepExec", "Execute", "Unprepare"} THEN {recovery, FALSE} ELSE {recovery}

\* The first token that proves the request ran came without the acknowledgement.
\* The rest of the response is left unread.
Condemn ==
    /\ reset_state' = "Idle" /\ reset_dispatched' = ObservedDispatched
    /\ known_dead' = TRUE /\ condemned' = TRUE
    /\ recovery' \in RecoveryAfterRetire(msg.kind) /\ (recovery' => msg.kind # "Unprepare")
    /\ phase' = "Ready" /\ msg' = NoMsg /\ capture' = NoStmt
    /\ Reported(msg, FALSE, TRUE)
    /\ UNCHANGED <<txn, handles, errored, pending_reset, serverVars, carriers, conceded,
                   wrote_dead, missing, ran_unclean>>

\* The ResetConnection ENVCHANGE (on_reset_connection_ack).
ReadAck ==
    /\ phase = "Reading" /\ resp.ack
    /\ reset_state' = "Idle" /\ reset_dispatched' = ObservedDispatched
    /\ handles' = {} /\ capture' = NoStmt
    /\ resp' = [resp EXCEPT !.ack = FALSE]
    /\ UNCHANGED <<phase, msg, txn, errored, recovery, pending_reset, known_dead, srv_up,
                   inbox, attn, srv_txn, srv_handles, srv_clean, histVars>>

\* Mutation: the capture stays armed after the handle is recorded.
CaptureStays(token) == capture

\* push_return_value diverts @handle while a capture is armed.
CaptureHandle(held) == IF capture = NoStmt THEN held ELSE held \cup {capture}

CaptureAfter(token) == IF token = "Value" THEN NoStmt ELSE capture

\* Any other token before the final DONE.
ReadBody(token) ==
    /\ phase = "Reading" /\ ~resp.ack /\ token \in resp.body
    /\ ~Condemns(token)
    /\ reset_state' = ObservedState /\ reset_dispatched' = ObservedDispatched
    /\ resp' = [resp EXCEPT !.body = @ \ {token}]
    /\ txn' = IF token = "Txn" THEN resp.txn ELSE txn
    /\ handles' = IF token = "Value" THEN CaptureHandle(handles) ELSE handles
    /\ capture' = CaptureAfter(token)
    /\ errored' = (errored \/ token \in {"Error", "Fatal"})
    /\ known_dead' = (known_dead \/ token = "Fatal")
    /\ UNCHANGED <<phase, msg, recovery, pending_reset, srv_up, inbox, attn, srv_txn,
                   srv_handles, srv_clean, histVars>>

\* The final DONE: the request is over, successfully or with its errors.
ReadDone ==
    /\ phase = "Reading" /\ ~resp.ack /\ resp.body = {} /\ "Done" \in resp.fin
    /\ ~Condemns("Done")
    /\ reset_state' = ObservedState /\ reset_dispatched' = ObservedDispatched
    /\ resp' = NoResp
    /\ phase' = "Ready" /\ msg' = NoMsg
    /\ capture' = IF errored THEN NoStmt ELSE capture
    /\ Reported(msg, ~errored, resp.clean)
    /\ UNCHANGED <<txn, handles, errored, recovery, pending_reset, known_dead, srv_up,
                   inbox, attn, srv_txn, srv_handles, srv_clean, carriers, conceded,
                   condemned, wrote_dead, missing, ran_unclean>>

ReadCondemns ==
    /\ phase = "Reading" /\ ~resp.ack
    /\ \/ \E token \in resp.body : Condemns(token)
       \/ resp.body = {} /\ "Done" \in resp.fin /\ Condemns("Done")
    /\ Condemn

\* Mutation: only the drain of a withdrawn message notices.
OrphanedDrain == phase = "Withdrawing" /\ ~srv_up

\* The socket fails under a read: the transport is marked dead, recovery stays.
Orphaned == phase \in {"Reading", "Withdrawing"} /\ ~srv_up

ReadLost ==
    /\ Orphaned
    /\ known_dead' = TRUE /\ TransportGone
    /\ phase' = "Ready" /\ msg' = NoMsg /\ capture' = NoStmt
    /\ Reported(msg, FALSE, TRUE)
    /\ UNCHANGED <<reset_state, txn, handles, errored, recovery, pending_reset,
                   reset_dispatched, srv_txn, srv_handles, srv_clean, carriers, conceded,
                   condemned, wrote_dead, missing, ran_unclean>>

\* A timeout or a cancellation wins over the read: ATTENTION goes out.
InterruptRead ==
    /\ phase = "Reading" /\ msg.kind # "Save" /\ ~known_dead
    /\ phase' = "Settling" /\ attn' = srv_up
    /\ UNCHANGED <<msg, reset_state, txn, handles, capture, errored, recovery, wireVars,
                   srv_up, inbox, resp, srv_txn, srv_handles, srv_clean, histVars>>

\* The same on a transport already dead: nothing is sent.
InterruptDeadRead ==
    /\ phase = "Reading" /\ msg.kind # "Save" /\ known_dead
    /\ phase' = "Ready" /\ msg' = NoMsg /\ capture' = NoStmt
    /\ Reported(msg, FALSE, TRUE)
    /\ UNCHANGED <<reset_state, txn, handles, errored, recovery, wireVars, serverVars,
                   carriers, conceded, condemned, wrote_dead, missing, ran_unclean>>

---------------------------------------------------------------------------
(* Settling an ATTENTION: drain_to_attention_ack, apply_attention_settlement *)
(* and normalize_after_attention; and draining a withdrawn message.          *)

\* Rows are not retained for replay, so only RETURNVALUE and a plain DONE count.
SettlementCondemns ==
    ~resp.ack /\ ObservedState = "AwaitingAck" /\ ("Value" \in resp.body \/ "Done" \in resp.fin)

SettleAttention ==
    /\ phase = "Settling" /\ "Attn" \in resp.fin /\ ~SettlementCondemns
    /\ reset_state' = IF resp.ack THEN "Idle" ELSE ObservedState
    /\ reset_dispatched' = ObservedDispatched
    /\ txn' = IF "Txn" \in resp.body THEN resp.txn ELSE txn
    /\ handles' = IF resp.ack THEN {}
                  ELSE IF "Value" \in resp.body THEN CaptureHandle(handles) ELSE handles
    /\ known_dead' = (known_dead \/ "Fatal" \in resp.body)
    /\ phase' = "Ready" /\ msg' = NoMsg /\ capture' = NoStmt /\ resp' = NoResp
    /\ Reported(msg, FALSE, TRUE)
    /\ UNCHANGED <<errored, recovery, pending_reset, srv_up, inbox, attn, srv_txn,
                   srv_handles, srv_clean, carriers, conceded, condemned, wrote_dead,
                   missing, ran_unclean>>

\* A retained token proves the request ran unreset: retire_after_failed_drain.
SettleCondemns ==
    /\ phase = "Settling" /\ "Attn" \in resp.fin /\ SettlementCondemns
    /\ reset_state' = "Idle" /\ reset_dispatched' = ObservedDispatched
    /\ known_dead' = TRUE /\ recovery' = FALSE /\ condemned' = TRUE
    /\ phase' = "Ready" /\ msg' = NoMsg /\ capture' = NoStmt /\ resp' = NoResp
    /\ Reported(msg, FALSE, TRUE)
    /\ UNCHANGED <<txn, handles, errored, pending_reset, srv_up, inbox, attn, srv_txn,
                   srv_handles, srv_clean, carriers, conceded, wrote_dead, missing,
                   ran_unclean>>

\* ATTENTION cannot be sent, goes unanswered within its bound, or answers with
\* more control tokens than are retained: no settlement is applied.
SettleFails ==
    /\ phase = "Settling"
    /\ known_dead' = TRUE /\ recovery' \in RecoveryAfterRetire(msg.kind)
    /\ phase' = "Ready" /\ msg' = NoMsg /\ capture' = NoStmt
    /\ Reported(msg, FALSE, TRUE)
    /\ UNCHANGED <<reset_state, txn, handles, errored, pending_reset, reset_dispatched,
                   serverVars, carriers, conceded, condemned, wrote_dead, missing, ran_unclean>>

\* The DONE the server answers an ignored message with.
WithdrawDone ==
    /\ phase = "Withdrawing" /\ "Done" \in resp.fin /\ ~Condemns("Done")
    /\ reset_state' = ObservedState /\ reset_dispatched' = ObservedDispatched
    /\ phase' = "Ready" /\ msg' = NoMsg /\ resp' = NoResp
    /\ Reported(msg, FALSE, TRUE)
    /\ UNCHANGED <<txn, handles, capture, errored, recovery, pending_reset, known_dead,
                   srv_up, inbox, attn, srv_txn, srv_handles, srv_clean, carriers, conceded,
                   condemned, wrote_dead, missing, ran_unclean>>

\* That DONE does not come within the bound, or is refused for want of an
\* acknowledgement: abort_partial_request.
DoneRefused == "Done" \in resp.fin /\ Condemns("Done")

WithdrawFails ==
    /\ phase = "Withdrawing"
    /\ reset_state' = IF DoneRefused THEN "Idle" ELSE reset_state
    /\ condemned' = (condemned \/ DoneRefused)
    /\ known_dead' = TRUE /\ TransportGone
    /\ phase' = "Ready" /\ msg' = NoMsg /\ capture' = NoStmt
    /\ Reported(msg, FALSE, TRUE)
    /\ UNCHANGED <<txn, handles, errored, recovery, pending_reset, reset_dispatched,
                   srv_txn, srv_handles, srv_clean, carriers, conceded, wrote_dead,
                   missing, ran_unclean>>

---------------------------------------------------------------------------
(* Liveness verdicts from outside a request.                               *)

\* mark_connection_dead: the ODBC pool condemns an idle connection it distrusts.
MarkDead ==
    /\ phase = "Ready" /\ ~known_dead
    /\ known_dead' = TRUE
    /\ UNCHANGED <<clientVars, pending_reset, reset_dispatched, serverVars, histVars>>

\* close_connection.
Close ==
    /\ phase = "Ready" /\ (srv_up \/ recovery)
    /\ recovery' = FALSE /\ known_dead' = TRUE /\ TransportGone
    /\ UNCHANGED <<phase, msg, reset_state, txn, handles, capture, errored, pending_reset,
                   reset_dispatched, srv_txn, srv_handles, srv_clean, histVars>>

---------------------------------------------------------------------------
(* The server (external).  It resets the session before it parses the      *)
(* carrying request, acknowledges first, and discards an ignored message   *)
(* whole.                                                                  *)

\* May running a request on a session with transaction flag t0 and handles h0
\* answer with the tokens of body and leave the session with t and h?
Answers(kind, stmt, t0, h0, body, t, h) ==
    \/ /\ kind = "Batch"
       /\ \/ body \in {{"Row"}, {"Row", "Error"}, {"Fatal"}} /\ t = t0
          \/ body = {"Txn"} /\ t # t0
       /\ h = h0
    \/ /\ kind = "PrepExec" /\ t = t0
       /\ \/ body \in {{"Value", "Row"}, {"Value", "Error"}} /\ h = h0 \cup {stmt}
          \/ body = {"Error"} /\ h = h0
    \/ /\ kind = "Execute" /\ t = t0 /\ h = h0
       /\ body = {IF stmt \in h0 THEN "Row" ELSE "Error"}
    \/ kind = "Unprepare" /\ body = {} /\ t = t0 /\ h = h0 \ {stmt}
    \/ kind = "Begin" /\ body = {IF t0 THEN "Error" ELSE "Txn"} /\ t /\ h = h0
    \/ kind = "End" /\ body = {IF t0 THEN "Txn" ELSE "Error"} /\ ~t /\ h = h0
    \/ kind = "Save" /\ body \in {{}, {"Error"}} /\ t = t0 /\ h = h0

SrvRun ==
    /\ srv_up /\ inbox.st = "Complete" /\ resp = NoResp
    /\ \E honor \in ServerHonors :
         LET reset == inbox.mode # "None" /\ honor
             live  == IF reset THEN {} ELSE srv_handles
             intxn == srv_txn /\ ~(reset /\ inbox.mode = "Reset")
         IN  /\ \E body \in SUBSET BodyTokens, t \in BOOLEAN, h \in SUBSET Stmts :
                  /\ Answers(inbox.kind, inbox.stmt, intxn, live, body, t, h)
                  /\ resp' = [ack |-> reset, body |-> body, fin |-> {"Done"}, txn |-> t,
                              clean |-> srv_clean \/ reset]
                  /\ srv_txn' = t /\ srv_handles' = h
             /\ srv_clean' = (srv_clean \/ (reset /\ inbox.since))
             /\ ran_unclean' = (ran_unclean \/ (inbox.since /\ ~srv_clean /\ ~reset))
             /\ missing' = (missing \/ (/\ inbox.kind \in {"Execute", "Unprepare"}
                                        /\ inbox.stmt \notin live))
    /\ carriers' = IF inbox.mode = "None" \/ ~inbox.since THEN carriers
                   ELSE IF carriers = "None" THEN "One" ELSE "Many"
    /\ inbox' = NoInbox
    /\ UNCHANGED <<clientVars, wireVars, srv_up, attn, conceded, condemned, wrote_dead, report>>

SrvIgnore ==
    /\ srv_up /\ inbox.st = "Ignored"
    /\ resp' = [NoResp EXCEPT !.fin = {"Done"}]
    /\ inbox' = NoInbox
    /\ UNCHANGED <<clientVars, wireVars, srv_up, attn, srv_txn, srv_handles, srv_clean, histVars>>

\* ATTENTION stops the answer after any prefix already on the wire.  The
\* transaction ENVCHANGE of a change that was made is always on it.
SrvAttention ==
    /\ srv_up /\ attn /\ inbox.st = "None"
    /\ \/ resp' = [resp EXCEPT !.fin = @ \cup {"Attn"}]
       \/ \E kept \in SUBSET resp.body :
            /\ "Txn" \in resp.body => "Txn" \in kept
            /\ resp' = [resp EXCEPT !.body = kept, !.fin = {"Attn"}]
       \/ /\ "Txn" \notin resp.body
          /\ resp' = [resp EXCEPT !.ack = FALSE, !.body = {}, !.fin = {"Attn"}]
    /\ attn' = FALSE
    /\ UNCHANGED <<clientVars, wireVars, srv_up, inbox, srv_txn, srv_handles, srv_clean, histVars>>

\* The network or the server goes away; unread tokens are lost.
NetLoss ==
    /\ srv_up
    /\ TransportGone
    /\ UNCHANGED <<clientVars, wireVars, srv_txn, srv_handles, srv_clean, histVars>>

---------------------------------------------------------------------------
Request ==
    \/ \E mode \in ArmModes : PrepareReset(mode)
    \/ \E kind \in Kinds, stmt \in Stmts \cup {NoStmt} :
          Start(kind, stmt) \/ Reconnect(kind, stmt)
    \/ \E kind \in Kinds : Refuse(kind) \/ ReconnectFails(kind)
    \/ MarkDead
    \/ Close

Write ==
    \/ \E last \in BOOLEAN : SendPacket(last)
    \/ RetractUnsent
    \/ WithdrawPartial
    \/ \E interrupted \in BOOLEAN : WriteLost(interrupted)
    \/ SendExpired

Read ==
    \/ ReadAck
    \/ \E token \in BodyTokens : ReadBody(token)
    \/ ReadDone
    \/ ReadCondemns
    \/ ReadLost

Interrupt == InterruptRead \/ InterruptDeadRead

Settle ==
    \/ SettleAttention
    \/ SettleCondemns
    \/ SettleFails
    \/ WithdrawDone
    \/ WithdrawFails

Server == SrvRun \/ SrvIgnore \/ SrvAttention

Next == Request \/ Write \/ Read \/ Interrupt \/ Settle \/ Server \/ NetLoss

Spec == Init /\ [][Next]_vars

\* A read that is in progress is driven by its caller, the drains of a
\* withdrawal and of an ATTENTION are bounded by their deadlines, and a server
\* that is up answers.  Nothing obliges the application to send.
FairSpec == Spec /\ WF_vars(Read) /\ WF_vars(Settle) /\ WF_vars(Server)

---------------------------------------------------------------------------
(* Properties.                                                             *)

\* prepare_reset_connection's contract with a server that honours the bit: no
\* request ever runs on a session that was not reset since the last arm,
\* whatever was retracted, withdrawn, cancelled or lost in between.
NeverRunsUnreset == ~ran_unclean

\* observe_response_token never condemns a connection whose server honours
\* the bit ("the failure mode this verification exists to avoid causing").
NeverCondemnsHonest == ~condemned

\* One arm is spent once: on a connection still in use the server runs at most
\* one request carrying the bit of the current arm ("Re-arming would send it
\* twice").
BitSpentOnce == known_dead \/ carriers # "Many"

\* Whatever the server does with the bit, a request that reports success ran on
\* a session reset since the last arm, unless the verification of that arm was
\* given up at a request boundary (settle_abandoned_reset_verification).
OkImpliesReset == (report.ok /\ ~conceded) => report.clean

\* The client never names a prepared handle the session does not hold (error
\* 8179), across resets, withdrawals, cancellations and reconnects.
HandlesAlive == ~missing

\* Between requests on a live connection, the client's transaction flag is the
\* server's, counting an armed full reset as already done.  is_recovery_possible
\* and the ODBC layer's commit and rollback both rest on it.
TxnMirror ==
    (phase = "Ready" /\ ~known_dead /\ srv_up)
        => txn = (srv_txn /\ reset_state # "Reset")

\* A handle capture is armed only while the sp_prepexec it belongs to is under
\* way, so no other RPC's return value can land in the handle map.
CaptureScoped ==
    capture # NoStmt =>
        /\ phase \in {"Writing", "Reading", "Settling"}
        /\ msg.kind = "PrepExec" /\ msg.stmt = capture

\* "A cached dead verdict is authoritative": nothing is written to a transport
\* the client has declared dead.
NoWriteOnDead == ~wrote_dead

\* A response being read, withdrawn or cancelled is always brought to an end,
\* with a result or an error: no drain waits for a token that never comes.
ResponseEnds == (phase \in {"Reading", "Settling", "Withdrawing"}) ~> (phase = "Ready")

---------------------------------------------------------------------------
(* The inductive invariant behind NeverRunsUnreset and NeverCondemnsHonest. *)

\* The writer is armed only while the client still owes the bit.
PendingIsOwed ==
    pending_reset # "None" =>
        phase \in {"Ready", "Withdrawing"} /\ Armed /\ ~reset_dispatched

\* A request begun while a reset is owed carries it, and no other request does.
MessageCarries ==
    /\ phase \in {"Writing", "Reading", "Settling"} /\ reset_state # "Idle"
         => msg.mode # "None"
    /\ phase = "Writing" =>
         /\ reset_state # "AwaitingAck"
         /\ msg.mode # "None" => Armed
         /\ msg.first <=> ~msg.attempted

\* What the server holds is the message the client is about.
MessageOnWire ==
    /\ ~srv_up => inbox = NoInbox /\ resp = NoResp /\ ~attn
    /\ phase = "Writing" /\ msg.attempted /\ srv_up
         => inbox.st = "Partial" /\ inbox.mode = msg.mode /\ inbox.since
    /\ phase \in {"Reading", "Settling"} /\ inbox.st = "Complete"
         => inbox.mode = msg.mode /\ inbox.since
    /\ inbox.st = "Partial" => phase = "Writing" /\ msg.attempted
    /\ inbox.st = "Ignored" => phase = "Withdrawing"
    /\ inbox.st \in {"Partial", "Ignored"} => resp = NoResp /\ ~attn

\* A session not reset since the last arm is still owed the bit, by the client,
\* by the message being written or by the message the server holds.
ResetOwed ==
    (~srv_clean /\ srv_up) =>
        \/ phase \in {"Ready", "Withdrawing"} /\ Armed /\ ~reset_dispatched
        \/ phase = "Writing" /\ msg.mode # "None"
        \/ inbox.st = "Complete" /\ inbox.mode # "None" /\ inbox.since

HeldIsCarrier ==
    inbox.st = "Complete" /\ inbox.since /\ ~srv_clean => inbox.mode # "None"

\* While a verification is open, the answer leads with the acknowledgement or
\* proves nothing; a message being withdrawn has none open.
AnswerAcknowledges ==
    /\ phase \in {"Reading", "Settling"} /\ Abandoned
         => resp.ack \/ (resp.body = {} /\ "Done" \notin resp.fin)
    /\ phase = "Withdrawing" => ~Abandoned

\* The inductive invariant: it follows the one outstanding reset from the arm,
\* through the message that carries its bit, to the answer that acknowledges it.
ResetInv ==
    /\ PendingIsOwed
    /\ MessageCarries
    /\ MessageOnWire
    /\ ResetOwed
    /\ HeldIsCarrier
    /\ AnswerAcknowledges
    /\ NeverRunsUnreset
    /\ NeverCondemnsHonest
=============================================================================
