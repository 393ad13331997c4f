------------------------ MODULE ResetSession_proofs ------------------------
(***************************************************************************)
(* Proofs about ResetConnection that hold whatever the server does with    *)
(* the reset bit: what may be on the wire in each phase of a request, and  *)
(* from it the invariants about handle capture, prepared handles, spent    *)
(* bits, successful reports and the transaction flag.                      *)
(***************************************************************************)
EXTENDS ResetConnection_proofs

---------------------------------------------------------------------------
(* The line: what the server may hold, or have answered, in each phase.    *)

InResponse == phase \in {"Reading", "Settling"}

\* One message at a time: the server holds it or has answered it, a partial one
\* is still being written, an ignored one is being withdrawn.
OneMessage ==
    /\ ~srv_up => inbox = NoInbox /\ resp = NoResp /\ ~attn
    /\ inbox.st = "None" => inbox = NoInbox
    /\ inbox.st # "None" => resp = NoResp
    /\ inbox.st = "Partial" => phase = "Writing" /\ msg.attempted /\ ~attn
    /\ inbox.st = "Ignored" => phase = "Withdrawing" /\ ~attn
    /\ phase = "Writing" /\ msg.attempted /\ srv_up => inbox.st = "Partial"
    /\ phase = "Writing" => (msg.first <=> ~msg.attempted)

\* What the server holds is what the packet writer wrote.
HeldIsMessage ==
    inbox.st = "Partial" \/ (InResponse /\ inbox.st = "Complete") =>
        /\ inbox.kind = msg.kind /\ inbox.stmt = msg.stmt /\ inbox.mode = msg.mode
        /\ inbox.since

\* Outside a response, a transport in use has nothing left on it; ATTENTION is
\* answered once.
LineQuiet ==
    /\ "Attn" \in resp.fin => ~attn
    /\ phase = "Reading" => ~attn /\ "Attn" \notin resp.fin
    /\ phase = "Ready" /\ ~known_dead => inbox = NoInbox /\ resp = NoResp /\ ~attn
    /\ phase = "Writing" /\ ~known_dead => inbox.st # "Complete" /\ resp = NoResp /\ ~attn
    /\ phase = "Withdrawing" =>
         /\ ~attn /\ inbox.st \in {"None", "Ignored"}
         /\ resp \in {NoResp, [NoResp EXCEPT !.fin = {"Done"}]}
    /\ phase = "Writing" /\ known_dead => msg.kind = "Save"

\* The verification state follows the message: the bit of a message that went
\* out is recorded as dispatched, and it is open while the server holds it.
VerificationFollows ==
    /\ InResponse /\ Armed => reset_dispatched
    /\ phase = "Ready" /\ ~known_dead /\ Armed => ~reset_dispatched
    /\ phase = "Writing" /\ Armed /\ msg.attempted => reset_dispatched
    /\ InResponse /\ inbox.st = "Complete" =>
         reset_state # "AwaitingAck" /\ (msg.mode # "None" <=> Armed)
    /\ InResponse /\ msg.mode # "None" /\ reset_state = "Idle" => capture = NoStmt

LineInv ==
    /\ PendingIsOwed
    /\ MessageCarries
    /\ OneMessage
    /\ HeldIsMessage
    /\ LineQuiet
    /\ VerificationFollows

\* LineInv is inductive, whatever the server does with the bit.
LEMMA LineStep ==
    ASSUME TypeOK, LineInv, [Next]_vars
    PROVE  LineInv'
<1>. USE KindsAssumption, ArmModesAssumption
     DEF TypeOK, FlagsOK, RecordsOK, LineInv, PendingIsOwed, MessageCarries, OneMessage,
             HeldIsMessage, LineQuiet, VerificationFollows, InResponse, Armed, Abandoned,
             Messages, Inboxes, Responses, NoInbox, NoResp, Modes,
             vars, clientVars, wireVars, serverVars, histVars
<1>1. ASSUME NEW mode \in ArmModes, PrepareReset(mode) PROVE LineInv'
  BY <1>1 DEF PrepareReset
<1>2. ASSUME NEW kind \in Kinds, NEW stmt \in Stmts \cup {NoStmt}, Start(kind, stmt) PROVE LineInv'
  BY <1>2 DEF Start, SettledState, SettledPending, TakesReset, NewMessage, OpenMessage, Gated
<1>3. ASSUME NEW kind \in Kinds, NEW stmt \in Stmts \cup {NoStmt}, Reconnect(kind, stmt)
      PROVE  LineInv'
  BY <1>3 DEF Reconnect, NewMessage, TakesReset
<1>4. ASSUME NEW kind \in Kinds, Refuse(kind) PROVE LineInv'
  BY <1>4 DEF Refuse, SettledState, SettledPending
<1>5. ASSUME NEW kind \in Kinds, ReconnectFails(kind) PROVE LineInv'
  BY <1>5 DEF ReconnectFails, SettledState, SettledPending
<1>6. CASE MarkDead
  BY <1>6 DEF MarkDead
<1>7. CASE Close
  BY <1>7 DEF Close, TransportGone
<1>8. ASSUME NEW last \in BOOLEAN, SendPacket(last) PROVE LineInv'
  <2>1. PendingIsOwed'
    BY <1>8 DEF SendPacket, WireFree, Delivered, CarriesBit
  <2>2. MessageCarries'
    BY <1>8 DEF SendPacket, WireFree, Delivered, CarriesBit
  <2>3. OneMessage'
    <3>1. CASE srv_up
      <4>1. resp' = NoResp /\ srv_up' /\ inbox'.st = IF last THEN "Complete" ELSE "Partial"
        BY <1>8, <3>1 DEF SendPacket, WireFree, Delivered, CarriesBit
      <4>2. /\ ~msg'.first /\ msg'.attempted /\ ~attn'
            /\ phase' = IF last THEN "Reading" ELSE "Writing"
        BY <1>8 DEF SendPacket, WireFree, Delivered, CarriesBit
      <4>. QED
        BY <4>1, <4>2 DEF OneMessage, NoInbox
    <3>2. CASE ~srv_up
      <4>1. inbox' = NoInbox /\ resp' = NoResp /\ ~srv_up' /\ ~attn'
        BY <1>8, <3>2 DEF SendPacket, WireFree, Delivered, CarriesBit
      <4>. QED
        BY <1>8, <4>1 DEF SendPacket, WireFree, Delivered, CarriesBit
    <3>. QED
      BY <3>1, <3>2
  <2>4. HeldIsMessage'
    BY <1>8 DEF SendPacket, WireFree, Delivered, CarriesBit
  <2>5. LineQuiet'
    BY <1>8 DEF SendPacket, WireFree, Delivered, CarriesBit
  <2>6. VerificationFollows'
    BY <1>8 DEF SendPacket, WireFree, Delivered, CarriesBit
  <2>. QED
    BY <2>1, <2>2, <2>3, <2>4, <2>5, <2>6 DEF LineInv
<1>9. CASE RetractUnsent
  BY <1>9 DEF RetractUnsent, AbandonedPending, AbandonedDispatched
<1>10. CASE WithdrawPartial
  <2>1. PendingIsOwed'
    BY <1>10 DEF WithdrawPartial, AbandonedPending, AbandonedDispatched
  <2>2. MessageCarries'
    BY <1>10 DEF WithdrawPartial, AbandonedPending, AbandonedDispatched
  <2>3. OneMessage'
    <3>1. CASE srv_up
      <4>1. resp' = NoResp /\ srv_up' /\ inbox'.st = "Ignored"
        BY <1>10, <3>1 DEF WithdrawPartial, AbandonedPending, AbandonedDispatched
      <4>. QED
        BY <1>10, <3>1, <4>1 DEF WithdrawPartial, AbandonedPending, AbandonedDispatched
    <3>2. CASE ~srv_up
      <4>1. inbox' = NoInbox /\ resp' = NoResp /\ ~srv_up' /\ ~attn'
        BY <1>10, <3>2 DEF WithdrawPartial, AbandonedPending, AbandonedDispatched
      <4>. QED
        BY <1>10, <4>1 DEF WithdrawPartial, AbandonedPending, AbandonedDispatched
    <3>. QED
      BY <3>1, <3>2
  <2>4. HeldIsMessage'
    BY <1>10 DEF WithdrawPartial, AbandonedPending, AbandonedDispatched
  <2>5. LineQuiet'
    BY <1>10 DEF WithdrawPartial, AbandonedPending, AbandonedDispatched
  <2>6. VerificationFollows'
    BY <1>10 DEF WithdrawPartial, AbandonedPending, AbandonedDispatched
  <2>. QED
    BY <2>1, <2>2, <2>3, <2>4, <2>5, <2>6 DEF LineInv
<1>11. ASSUME NEW interrupted \in BOOLEAN, WriteLost(interrupted) PROVE LineInv'
  BY <1>11 DEF WriteLost, TransportGone
<1>12. CASE SendExpired
  <2>1. PendingIsOwed'
    BY <1>12 DEF SendExpired, WireFree, Delivered, CarriesBit
  <2>2. MessageCarries'
    BY <1>12 DEF SendExpired, WireFree, Delivered, CarriesBit
  <2>3. OneMessage'
    <3>1. CASE srv_up
      <4>1. resp' = NoResp /\ srv_up' /\ inbox'.st = "Complete"
        BY <1>12, <3>1 DEF SendExpired, WireFree, Delivered, CarriesBit
      <4>. QED
        BY <1>12, <3>1, <4>1 DEF SendExpired, WireFree, Delivered, CarriesBit
    <3>2. CASE ~srv_up
      <4>1. inbox' = NoInbox /\ resp' = NoResp /\ ~srv_up' /\ ~attn'
        BY <1>12, <3>2 DEF SendExpired, WireFree, Delivered, CarriesBit
      <4>. QED
        BY <1>12, <4>1 DEF SendExpired, WireFree, Delivered, CarriesBit
    <3>. QED
      BY <3>1, <3>2
  <2>4. HeldIsMessage'
    BY <1>12 DEF SendExpired, WireFree, Delivered, CarriesBit
  <2>5. LineQuiet'
    BY <1>12 DEF SendExpired, WireFree, Delivered, CarriesBit
  <2>6. VerificationFollows'
    BY <1>12 DEF SendExpired, WireFree, Delivered, CarriesBit
  <2>. QED
    BY <2>1, <2>2, <2>3, <2>4, <2>5, <2>6 DEF LineInv
<1>13. CASE ReadAck
  BY <1>13 DEF ReadAck, ObservedDispatched
<1>14. ASSUME NEW token \in BodyTokens, ReadBody(token) PROVE LineInv'
  <2>1. PendingIsOwed'
    BY <1>14 DEF ReadBody, ObservedState, ObservedDispatched, Condemns, Proves, CaptureAfter
  <2>2. MessageCarries'
    BY <1>14 DEF ReadBody, ObservedState, ObservedDispatched, Condemns, Proves, CaptureAfter
  <2>3. OneMessage'
    BY <1>14 DEF ReadBody, ObservedState, ObservedDispatched, Condemns, Proves, CaptureAfter
  <2>4. HeldIsMessage'
    BY <1>14 DEF ReadBody, ObservedState, ObservedDispatched, Condemns, Proves, CaptureAfter
  <2>5. LineQuiet'
    BY <1>14 DEF ReadBody, ObservedState, ObservedDispatched, Condemns, Proves, CaptureAfter
  <2>6. VerificationFollows'
    BY <1>14 DEF ReadBody, ObservedState, ObservedDispatched, Condemns, Proves, CaptureAfter
  <2>. QED
    BY <2>1, <2>2, <2>3, <2>4, <2>5, <2>6 DEF LineInv
<1>15. CASE ReadDone
  BY <1>15 DEF ReadDone, ObservedState, ObservedDispatched
<1>16. CASE ReadCondemns
  BY <1>16 DEF ReadCondemns, Condemn, ObservedDispatched
<1>17. CASE ReadLost
  BY <1>17 DEF ReadLost, Orphaned, TransportGone
<1>18. CASE InterruptRead
  BY <1>18 DEF InterruptRead
<1>19. CASE InterruptDeadRead
  BY <1>19 DEF InterruptDeadRead
<1>20. CASE SettleAttention
  BY <1>20 DEF SettleAttention, ObservedState, ObservedDispatched
<1>21. CASE SettleCondemns
  BY <1>21 DEF SettleCondemns, ObservedDispatched
<1>22. CASE SettleFails
  BY <1>22 DEF SettleFails
<1>23. CASE WithdrawDone
  BY <1>23 DEF WithdrawDone, ObservedState, ObservedDispatched
<1>24. CASE WithdrawFails
  <2>1. PendingIsOwed'
    BY <1>24 DEF WithdrawFails, TransportGone, DoneRefused, Condemns, ObservedState
  <2>2. MessageCarries'
    BY <1>24 DEF WithdrawFails, TransportGone, DoneRefused, Condemns, ObservedState
  <2>3. OneMessage'
    BY <1>24 DEF WithdrawFails, TransportGone, DoneRefused, Condemns, ObservedState
  <2>4. HeldIsMessage'
    BY <1>24 DEF WithdrawFails, TransportGone, DoneRefused, Condemns, ObservedState
  <2>5. LineQuiet'
    BY <1>24 DEF WithdrawFails, TransportGone, DoneRefused, Condemns, ObservedState
  <2>6. VerificationFollows'
    BY <1>24 DEF WithdrawFails, TransportGone, DoneRefused, Condemns, ObservedState
  <2>. QED
    BY <2>1, <2>2, <2>3, <2>4, <2>5, <2>6 DEF LineInv
<1>25. CASE SrvRun
  BY <1>25 DEF SrvRun
<1>26. CASE SrvIgnore
  BY <1>26 DEF SrvIgnore
<1>27. CASE SrvAttention
  BY <1>27 DEF SrvAttention
<1>28. CASE NetLoss
  BY <1>28 DEF NetLoss, TransportGone
<1>29. CASE UNCHANGED vars
  BY <1>29
<1>. QED
  BY <1>1, <1>2, <1>3, <1>4, <1>5, <1>6, <1>7, <1>8, <1>9, <1>10, <1>11, <1>12, <1>13, <1>14,
     <1>15, <1>16, <1>17, <1>18, <1>19, <1>20, <1>21, <1>22, <1>23, <1>24, <1>25, <1>26, <1>27,
     <1>28, <1>29
     DEF Next, Request, Write, Read, Interrupt, Settle, Server

\* What is on the wire in each phase, for every set of kinds, arm modes and
\* every behaviour of the server towards the bit.
THEOREM LineCorrect == Spec => [](TypeOK /\ LineInv)
<1>1. Init => LineInv
  BY DEF Init, LineInv, PendingIsOwed, MessageCarries, OneMessage, HeldIsMessage, LineQuiet,
         VerificationFollows, InResponse, Armed, NoInbox, NoResp, Modes
<1>2. TypeOK /\ LineInv /\ [Next]_vars => LineInv'
  BY LineStep
<1>. QED
  BY <1>1, <1>2, TypeCorrect, PTL DEF Spec

---------------------------------------------------------------------------
(* The handle capture and the prepared handles.                            *)

\* A capture still armed at the DONE of its sp_prepexec met an error: the server
\* answers with the handle or with an error.
CaptureAnswered ==
    phase = "Reading" /\ capture # NoStmt /\ "Done" \in resp.fin =>
        "Value" \in resp.body \/ "Error" \in resp.body \/ errored

CaptureInv == CaptureScoped /\ CaptureAnswered

\* CaptureInv is inductive relative to LineInv.
LEMMA CaptureStep ==
    ASSUME TypeOK, LineInv, CaptureInv, [Next]_vars
    PROVE  CaptureInv'
<1>. USE KindsAssumption, ArmModesAssumption, StmtsAssumption
     DEF CaptureInv, CaptureScoped, CaptureAnswered, NoMsg,
             TypeOK, FlagsOK, RecordsOK, LineInv, PendingIsOwed, MessageCarries, OneMessage,
             HeldIsMessage, LineQuiet, VerificationFollows, InResponse, Armed, Abandoned,
             Messages, Inboxes, Responses, NoInbox, NoResp, Modes,
             vars, clientVars, wireVars, serverVars, histVars
<1>1. ASSUME NEW mode \in ArmModes, PrepareReset(mode) PROVE CaptureInv'
  BY <1>1 DEF PrepareReset
<1>2. ASSUME NEW kind \in Kinds, NEW stmt \in Stmts \cup {NoStmt}, Start(kind, stmt)
      PROVE  CaptureInv'
  BY <1>2 DEF Start, SettledState, SettledPending, TakesReset, NewMessage, OpenMessage, Names
<1>3. ASSUME NEW kind \in Kinds, NEW stmt \in Stmts \cup {NoStmt}, Reconnect(kind, stmt)
      PROVE  CaptureInv'
  BY <1>3 DEF Reconnect, NewMessage, TakesReset, Names
<1>4. ASSUME NEW kind \in Kinds, Refuse(kind) PROVE CaptureInv'
  BY <1>4 DEF Refuse, SettledState, SettledPending
<1>5. ASSUME NEW kind \in Kinds, ReconnectFails(kind) PROVE CaptureInv'
  BY <1>5 DEF ReconnectFails, SettledState, SettledPending
<1>6. CASE MarkDead
  BY <1>6 DEF MarkDead
<1>7. CASE Close
  BY <1>7 DEF Close, TransportGone
<1>8. ASSUME NEW last \in BOOLEAN, SendPacket(last) PROVE CaptureInv'
  BY <1>8 DEF SendPacket, WireFree, Delivered, CarriesBit
<1>9. CASE RetractUnsent
  BY <1>9 DEF RetractUnsent, AbandonedPending, AbandonedDispatched
<1>10. CASE WithdrawPartial
  BY <1>10 DEF WithdrawPartial, AbandonedPending, AbandonedDispatched
<1>11. ASSUME NEW interrupted \in BOOLEAN, WriteLost(interrupted) PROVE CaptureInv'
  BY <1>11 DEF WriteLost, TransportGone
<1>12. CASE SendExpired
  BY <1>12 DEF SendExpired, WireFree, Delivered, CarriesBit
<1>13. CASE ReadAck
  BY <1>13 DEF ReadAck, ObservedDispatched
<1>14. ASSUME NEW token \in BodyTokens, ReadBody(token) PROVE CaptureInv'
  BY <1>14 DEF ReadBody, ObservedState, ObservedDispatched, Condemns, Proves, CaptureAfter
<1>15. CASE ReadDone
  BY <1>15 DEF ReadDone, ObservedState, ObservedDispatched
<1>16. CASE ReadCondemns
  BY <1>16 DEF ReadCondemns, Condemn, ObservedDispatched
<1>17. CASE ReadLost
  BY <1>17 DEF ReadLost, Orphaned, TransportGone
<1>18. CASE InterruptRead
  BY <1>18 DEF InterruptRead
<1>19. CASE InterruptDeadRead
  BY <1>19 DEF InterruptDeadRead
<1>20. CASE SettleAttention
  BY <1>20 DEF SettleAttention, ObservedState, ObservedDispatched
<1>21. CASE SettleCondemns
  BY <1>21 DEF SettleCondemns, ObservedDispatched
<1>22. CASE SettleFails
  BY <1>22 DEF SettleFails
<1>23. CASE WithdrawDone
  BY <1>23 DEF WithdrawDone, ObservedState, ObservedDispatched
<1>24. CASE WithdrawFails
  BY <1>24 DEF WithdrawFails, TransportGone
<1>25. CASE SrvRun
  BY <1>25 DEF SrvRun, Answers
<1>26. CASE SrvIgnore
  BY <1>26 DEF SrvIgnore
<1>27. CASE SrvAttention
  BY <1>27 DEF SrvAttention
<1>28. CASE NetLoss
  BY <1>28 DEF NetLoss, TransportGone
<1>29. CASE UNCHANGED vars
  BY <1>29
<1>. QED
  BY <1>1, <1>2, <1>3, <1>4, <1>5, <1>6, <1>7, <1>8, <1>9, <1>10, <1>11, <1>12, <1>13, <1>14,
     <1>15, <1>16, <1>17, <1>18, <1>19, <1>20, <1>21, <1>22, <1>23, <1>24, <1>25, <1>26, <1>27,
     <1>28, <1>29
     DEF Next, Request, Write, Read, Interrupt, Settle, Server

\* A response is captured only while its sp_prepexec is under way.
THEOREM CaptureCorrect == Spec => []CaptureScoped
<1>1. Init => CaptureInv
  BY DEF Init, CaptureInv, CaptureScoped, CaptureAnswered
<1>2. TypeOK /\ LineInv /\ CaptureInv /\ [Next]_vars => CaptureInv'
  BY CaptureStep
<1>3. CaptureInv => CaptureScoped
  BY DEF CaptureInv
<1>. QED
  BY <1>1, <1>2, <1>3, LineCorrect, PTL DEF Spec

\* Nothing is in the handle map while a reset is owed or being verified.
ResetEmpties ==
    /\ reset_state # "Idle" => handles = {}
    /\ phase = "Writing" /\ msg.mode # "None" => handles = {}
    /\ inbox.mode # "None" => handles = {}

\* The map holds only handles the session holds, and a captured value is one.
MapIsHeld ==
    /\ srv_up => handles \subseteq srv_handles
    /\ "Value" \in resp.body /\ capture # NoStmt => capture \in srv_handles

\* A request under way that names a handle names one the session holds, carries
\* no reset bit, and an sp_unprepare on the wire has already left the map.
NamedIsHeld ==
    /\ phase = "Writing" /\ msg.kind \in {"Execute", "Unprepare"} =>
         /\ msg.mode = "None" /\ reset_state = "Idle"
         /\ srv_up => msg.stmt \in srv_handles
    /\ inbox.st \in {"Partial", "Complete"} /\ inbox.kind \in {"Execute", "Unprepare"} =>
         inbox.mode = "None" /\ inbox.stmt \in srv_handles
    /\ inbox.st \in {"Partial", "Complete"} /\ inbox.kind = "Unprepare" =>
         inbox.stmt \notin handles

HandlesInv == HandlesAlive /\ ResetEmpties /\ MapIsHeld /\ NamedIsHeld

\* HandlesInv is inductive relative to LineInv and CaptureInv.
LEMMA HandlesStep ==
    ASSUME TypeOK, LineInv, CaptureInv, HandlesInv, [Next]_vars
    PROVE  HandlesInv'
<1>. USE KindsAssumption, ArmModesAssumption, StmtsAssumption
     DEF CaptureInv, CaptureScoped, CaptureAnswered, NoMsg,
             HandlesInv, HandlesAlive, ResetEmpties, MapIsHeld, NamedIsHeld,
             TypeOK, FlagsOK, RecordsOK, LineInv, PendingIsOwed, MessageCarries, OneMessage,
             HeldIsMessage, LineQuiet, VerificationFollows, InResponse, Armed, Abandoned,
             Messages, Inboxes, Responses, NoInbox, NoResp, Modes,
             vars, clientVars, wireVars, serverVars, histVars
<1>1. ASSUME NEW mode \in ArmModes, PrepareReset(mode) PROVE HandlesInv'
  BY <1>1 DEF PrepareReset
<1>2. ASSUME NEW kind \in Kinds, NEW stmt \in Stmts \cup {NoStmt}, Start(kind, stmt)
      PROVE  HandlesInv'
  <2>1. HandlesAlive'
    BY <1>2
       DEF Start, SettledState, SettledPending, TakesReset, NewMessage, OpenMessage, Names, Gated
  <2>2. ResetEmpties'
    BY <1>2
       DEF Start, SettledState, SettledPending, TakesReset, NewMessage, OpenMessage, Names, Gated
  <2>3. MapIsHeld'
    BY <1>2
       DEF Start, SettledState, SettledPending, TakesReset, NewMessage, OpenMessage, Names, Gated
  <2>4. NamedIsHeld'
    BY <1>2
       DEF Start, SettledState, SettledPending, TakesReset, NewMessage, OpenMessage, Names, Gated
  <2>. QED
    BY <2>1, <2>2, <2>3, <2>4 DEF HandlesInv
<1>3. ASSUME NEW kind \in Kinds, NEW stmt \in Stmts \cup {NoStmt}, Reconnect(kind, stmt)
      PROVE  HandlesInv'
  BY <1>3 DEF Reconnect, NewMessage, TakesReset, Names
<1>4. ASSUME NEW kind \in Kinds, Refuse(kind) PROVE HandlesInv'
  BY <1>4 DEF Refuse, SettledState, SettledPending
<1>5. ASSUME NEW kind \in Kinds, ReconnectFails(kind) PROVE HandlesInv'
  BY <1>5 DEF ReconnectFails, SettledState, SettledPending
<1>6. CASE MarkDead
  BY <1>6 DEF MarkDead
<1>7. CASE Close
  BY <1>7 DEF Close, TransportGone
<1>8. ASSUME NEW last \in BOOLEAN, SendPacket(last) PROVE HandlesInv'
  BY <1>8 DEF SendPacket, WireFree, Delivered, CarriesBit, HandlesOnceSent
<1>9. CASE RetractUnsent
  BY <1>9 DEF RetractUnsent, AbandonedPending, AbandonedDispatched
<1>10. CASE WithdrawPartial
  BY <1>10 DEF WithdrawPartial, AbandonedPending, AbandonedDispatched
<1>11. ASSUME NEW interrupted \in BOOLEAN, WriteLost(interrupted) PROVE HandlesInv'
  BY <1>11 DEF WriteLost, TransportGone, HandlesOnceSent
<1>12. CASE SendExpired
  BY <1>12 DEF SendExpired, WireFree, Delivered, CarriesBit, HandlesOnceSent
<1>13. CASE ReadAck
  BY <1>13 DEF ReadAck, ObservedDispatched
<1>14. ASSUME NEW token \in BodyTokens, ReadBody(token) PROVE HandlesInv'
  BY <1>14
     DEF ReadBody, ObservedState, ObservedDispatched, Condemns, Proves, CaptureAfter,
         CaptureHandle
<1>15. CASE ReadDone
  BY <1>15 DEF ReadDone, ObservedState, ObservedDispatched
<1>16. CASE ReadCondemns
  BY <1>16 DEF ReadCondemns, Condemn, ObservedDispatched
<1>17. CASE ReadLost
  BY <1>17 DEF ReadLost, Orphaned, TransportGone
<1>18. CASE InterruptRead
  BY <1>18 DEF InterruptRead
<1>19. CASE InterruptDeadRead
  BY <1>19 DEF InterruptDeadRead
<1>20. CASE SettleAttention
  <2>1. HandlesAlive'
    BY <1>20
       DEF SettleAttention, ObservedState, ObservedDispatched, CaptureHandle, SettlementCondemns
  <2>2. ResetEmpties'
    BY <1>20
       DEF SettleAttention, ObservedState, ObservedDispatched, CaptureHandle, SettlementCondemns
  <2>3. MapIsHeld'
    BY <1>20
       DEF SettleAttention, ObservedState, ObservedDispatched, CaptureHandle, SettlementCondemns
  <2>4. NamedIsHeld'
    BY <1>20
       DEF SettleAttention, ObservedState, ObservedDispatched, CaptureHandle, SettlementCondemns
  <2>. QED
    BY <2>1, <2>2, <2>3, <2>4 DEF HandlesInv
<1>21. CASE SettleCondemns
  BY <1>21 DEF SettleCondemns, ObservedDispatched
<1>22. CASE SettleFails
  BY <1>22 DEF SettleFails
<1>23. CASE WithdrawDone
  BY <1>23 DEF WithdrawDone, ObservedState, ObservedDispatched
<1>24. CASE WithdrawFails
  BY <1>24 DEF WithdrawFails, TransportGone
<1>25. CASE SrvRun
  <2>1. HandlesAlive'
    BY <1>25 DEF SrvRun, Answers
  <2>2. ResetEmpties'
    BY <1>25 DEF SrvRun, Answers
  <2>3. MapIsHeld'
    BY <1>25 DEF SrvRun, Answers
  <2>4. NamedIsHeld'
    BY <1>25 DEF SrvRun, Answers
  <2>. QED
    BY <2>1, <2>2, <2>3, <2>4 DEF HandlesInv
<1>26. CASE SrvIgnore
  BY <1>26 DEF SrvIgnore
<1>27. CASE SrvAttention
  <2>1. HandlesAlive'
    BY <1>27 DEF SrvAttention
  <2>2. ResetEmpties'
    BY <1>27 DEF SrvAttention
  <2>3. MapIsHeld'
    <3>1. resp'.body \subseteq resp.body
      BY <1>27 DEF SrvAttention
    <3>2. UNCHANGED <<handles, srv_handles, srv_up, capture>>
      BY <1>27 DEF SrvAttention
    <3>. QED
      BY <3>1, <3>2
  <2>4. NamedIsHeld'
    BY <1>27 DEF SrvAttention
  <2>. QED
    BY <2>1, <2>2, <2>3, <2>4 DEF HandlesInv
<1>28. CASE NetLoss
  BY <1>28 DEF NetLoss, TransportGone
<1>29. CASE UNCHANGED vars
  BY <1>29
<1>. QED
  BY <1>1, <1>2, <1>3, <1>4, <1>5, <1>6, <1>7, <1>8, <1>9, <1>10, <1>11, <1>12, <1>13, <1>14,
     <1>15, <1>16, <1>17, <1>18, <1>19, <1>20, <1>21, <1>22, <1>23, <1>24, <1>25, <1>26, <1>27,
     <1>28, <1>29
     DEF Next, Request, Write, Read, Interrupt, Settle, Server

\* The client never names a prepared handle the session does not hold.
THEOREM HandlesCorrect == Spec => []HandlesAlive
<1>1. Init => CaptureInv /\ HandlesInv
  BY DEF Init, CaptureInv, CaptureScoped, CaptureAnswered, HandlesInv, HandlesAlive,
         ResetEmpties, MapIsHeld, NamedIsHeld, NoInbox, NoResp
<1>2. TypeOK /\ LineInv /\ CaptureInv /\ HandlesInv /\ [Next]_vars => CaptureInv' /\ HandlesInv'
  BY CaptureStep, HandlesStep
<1>3. HandlesInv => HandlesAlive
  BY DEF HandlesInv
<1>. QED
  BY <1>1, <1>2, <1>3, LineCorrect, PTL DEF Spec

---------------------------------------------------------------------------
(* The bit is spent once.                                                  *)

\* Once the server has run a carrier of the current arm, nobody owes the bit any
\* more: not the client, not the message being written, not the one held.
NothingOwed ==
    (~known_dead /\ carriers # "None") =>
        /\ pending_reset = "None"
        /\ phase \in {"Ready", "Withdrawing"} => ~Armed \/ reset_dispatched
        /\ phase = "Writing" => msg.mode = "None"
        /\ inbox.mode = "None" \/ ~inbox.since

SpentInv == BitSpentOnce /\ NothingOwed

\* SpentInv is inductive relative to LineInv.
LEMMA SpentStep ==
    ASSUME TypeOK, LineInv, SpentInv, [Next]_vars
    PROVE  SpentInv'
<1>. USE KindsAssumption, ArmModesAssumption
     DEF SpentInv, BitSpentOnce, NothingOwed,
             TypeOK, FlagsOK, RecordsOK, LineInv, PendingIsOwed, MessageCarries, OneMessage,
             HeldIsMessage, LineQuiet, VerificationFollows, InResponse, Armed, Abandoned,
             Messages, Inboxes, Responses, NoInbox, NoResp, Modes,
             vars, clientVars, wireVars, serverVars, histVars
<1>1. ASSUME NEW mode \in ArmModes, PrepareReset(mode) PROVE SpentInv'
  BY <1>1 DEF PrepareReset
<1>2. ASSUME NEW kind \in Kinds, NEW stmt \in Stmts \cup {NoStmt}, Start(kind, stmt) PROVE SpentInv'
  BY <1>2 DEF Start, SettledState, SettledPending, TakesReset, NewMessage, OpenMessage, Gated
<1>3. ASSUME NEW kind \in Kinds, NEW stmt \in Stmts \cup {NoStmt}, Reconnect(kind, stmt)
      PROVE  SpentInv'
  BY <1>3 DEF Reconnect, NewMessage, TakesReset
<1>4. ASSUME NEW kind \in Kinds, Refuse(kind) PROVE SpentInv'
  BY <1>4 DEF Refuse, SettledState, SettledPending
<1>5. ASSUME NEW kind \in Kinds, ReconnectFails(kind) PROVE SpentInv'
  BY <1>5 DEF ReconnectFails, SettledState, SettledPending
<1>6. CASE MarkDead
  BY <1>6 DEF MarkDead
<1>7. CASE Close
  BY <1>7 DEF Close, TransportGone
<1>8. ASSUME NEW last \in BOOLEAN, SendPacket(last) PROVE SpentInv'
  BY <1>8 DEF SendPacket, WireFree, Delivered, CarriesBit
<1>9. CASE RetractUnsent
  BY <1>9 DEF RetractUnsent, AbandonedPending, AbandonedDispatched
<1>10. CASE WithdrawPartial
  BY <1>10 DEF WithdrawPartial, AbandonedPending, AbandonedDispatched
<1>11. ASSUME NEW interrupted \in BOOLEAN, WriteLost(interrupted) PROVE SpentInv'
  BY <1>11 DEF WriteLost, TransportGone
<1>12. CASE SendExpired
  BY <1>12 DEF SendExpired, WireFree, Delivered, CarriesBit
<1>13. CASE ReadAck
  BY <1>13 DEF ReadAck, ObservedDispatched
<1>14. ASSUME NEW token \in BodyTokens, ReadBody(token) PROVE SpentInv'
  BY <1>14 DEF ReadBody, ObservedState, ObservedDispatched, Condemns, Proves
<1>15. CASE ReadDone
  BY <1>15 DEF ReadDone, ObservedState, ObservedDispatched
<1>16. CASE ReadCondemns
  BY <1>16 DEF ReadCondemns, Condemn, ObservedDispatched
<1>17. CASE ReadLost
  BY <1>17 DEF ReadLost, Orphaned, TransportGone
<1>18. CASE InterruptRead
  BY <1>18 DEF InterruptRead
<1>19. CASE InterruptDeadRead
  BY <1>19 DEF InterruptDeadRead
<1>20. CASE SettleAttention
  BY <1>20 DEF SettleAttention, ObservedState, ObservedDispatched
<1>21. CASE SettleCondemns
  BY <1>21 DEF SettleCondemns, ObservedDispatched
<1>22. CASE SettleFails
  BY <1>22 DEF SettleFails
<1>23. CASE WithdrawDone
  BY <1>23 DEF WithdrawDone, ObservedState, ObservedDispatched
<1>24. CASE WithdrawFails
  BY <1>24 DEF WithdrawFails, TransportGone
<1>25. CASE SrvRun
  BY <1>25 DEF SrvRun
<1>26. CASE SrvIgnore
  BY <1>26 DEF SrvIgnore
<1>27. CASE SrvAttention
  BY <1>27 DEF SrvAttention
<1>28. CASE NetLoss
  BY <1>28 DEF NetLoss, TransportGone
<1>29. CASE UNCHANGED vars
  BY <1>29
<1>. QED
  BY <1>1, <1>2, <1>3, <1>4, <1>5, <1>6, <1>7, <1>8, <1>9, <1>10, <1>11, <1>12, <1>13, <1>14,
     <1>15, <1>16, <1>17, <1>18, <1>19, <1>20, <1>21, <1>22, <1>23, <1>24, <1>25, <1>26, <1>27,
     <1>28, <1>29
     DEF Next, Request, Write, Read, Interrupt, Settle, Server

\* One arm is spent once, whatever the server does with the bit.
THEOREM BitSpentCorrect == Spec => []BitSpentOnce
<1>1. Init => SpentInv
  BY DEF Init, SpentInv, BitSpentOnce, NothingOwed
<1>2. TypeOK /\ LineInv /\ SpentInv /\ [Next]_vars => SpentInv'
  BY SpentStep
<1>3. SpentInv => BitSpentOnce
  BY DEF SpentInv
<1>. QED
  BY <1>1, <1>2, <1>3, LineCorrect, PTL DEF Spec

---------------------------------------------------------------------------
(* The gated requests: every kind but SAVE, which skips the check of the   *)
(* cached verdict.                                                         *)


\* No SAVE is under way, and nothing was written on a dead transport.
MessageGated == msg.kind # "Save"
GatedInv == MessageGated /\ NoWriteOnDead

\* GatedInv is inductive relative to LineInv when SAVE is not among the requests.
LEMMA GatedStep ==
    ASSUME "Save" \notin Kinds, TypeOK, LineInv, GatedInv, [Next]_vars
    PROVE  GatedInv'
<1>. USE DEF TypeOK, FlagsOK, RecordsOK, LineInv, LineQuiet, GatedInv, MessageGated, NoWriteOnDead,
             Messages, NoMsg,
             vars, clientVars, wireVars, serverVars, histVars
<1>1. ASSUME NEW mode \in ArmModes, PrepareReset(mode) PROVE GatedInv'
  BY <1>1 DEF PrepareReset
<1>2. ASSUME NEW kind \in Kinds, NEW stmt \in Stmts \cup {NoStmt}, Start(kind, stmt) PROVE GatedInv'
  BY <1>2 DEF Start, NewMessage, OpenMessage
<1>3. ASSUME NEW kind \in Kinds, NEW stmt \in Stmts \cup {NoStmt}, Reconnect(kind, stmt)
      PROVE  GatedInv'
  BY <1>3 DEF Reconnect, NewMessage
<1>4. ASSUME NEW kind \in Kinds, Refuse(kind) PROVE GatedInv'
  BY <1>4 DEF Refuse
<1>5. ASSUME NEW kind \in Kinds, ReconnectFails(kind) PROVE GatedInv'
  BY <1>5 DEF ReconnectFails
<1>6. CASE MarkDead
  BY <1>6 DEF MarkDead
<1>7. CASE Close
  BY <1>7 DEF Close
<1>8. ASSUME NEW last \in BOOLEAN, SendPacket(last) PROVE GatedInv'
  BY <1>8 DEF SendPacket
<1>9. CASE RetractUnsent
  BY <1>9 DEF RetractUnsent
<1>10. CASE WithdrawPartial
  BY <1>10 DEF WithdrawPartial
<1>11. ASSUME NEW interrupted \in BOOLEAN, WriteLost(interrupted) PROVE GatedInv'
  BY <1>11 DEF WriteLost
<1>12. CASE SendExpired
  BY <1>12 DEF SendExpired
<1>13. CASE ReadAck
  BY <1>13 DEF ReadAck
<1>14. ASSUME NEW token \in BodyTokens, ReadBody(token) PROVE GatedInv'
  BY <1>14 DEF ReadBody
<1>15. CASE ReadDone
  BY <1>15 DEF ReadDone
<1>16. CASE ReadCondemns
  <2>1. MessageGated'
    BY <1>16 DEF ReadCondemns, Condemn
  <2>2. NoWriteOnDead'
    BY <1>16 DEF ReadCondemns, Condemn
  <2>. QED
    BY <2>1, <2>2 DEF GatedInv
<1>17. CASE ReadLost
  BY <1>17 DEF ReadLost
<1>18. CASE InterruptRead
  BY <1>18 DEF InterruptRead
<1>19. CASE InterruptDeadRead
  BY <1>19 DEF InterruptDeadRead
<1>20. CASE SettleAttention
  BY <1>20 DEF SettleAttention
<1>21. CASE SettleCondemns
  BY <1>21 DEF SettleCondemns
<1>22. CASE SettleFails
  BY <1>22 DEF SettleFails
<1>23. CASE WithdrawDone
  BY <1>23 DEF WithdrawDone
<1>24. CASE WithdrawFails
  BY <1>24 DEF WithdrawFails
<1>25. CASE SrvRun
  BY <1>25 DEF SrvRun
<1>26. CASE SrvIgnore
  BY <1>26 DEF SrvIgnore
<1>27. CASE SrvAttention
  BY <1>27 DEF SrvAttention
<1>28. CASE NetLoss
  BY <1>28 DEF NetLoss
<1>29. CASE UNCHANGED vars
  BY <1>29
<1>. QED
  BY <1>1, <1>2, <1>3, <1>4, <1>5, <1>6, <1>7, <1>8, <1>9, <1>10, <1>11, <1>12, <1>13, <1>14,
     <1>15, <1>16, <1>17, <1>18, <1>19, <1>20, <1>21, <1>22, <1>23, <1>24, <1>25, <1>26, <1>27,
     <1>28, <1>29
     DEF Next, Request, Write, Read, Interrupt, Settle, Server

\* A cached dead verdict is authoritative for every request that consults it.
THEOREM NoWriteOnDeadCorrect ==
    ASSUME "Save" \notin Kinds
    PROVE  Spec => []NoWriteOnDead
<1>1. Init => GatedInv
  BY DEF Init, GatedInv, MessageGated, NoWriteOnDead, NoMsg
<1>2. TypeOK /\ LineInv /\ GatedInv /\ [Next]_vars => GatedInv'
  BY GatedStep
<1>3. GatedInv => NoWriteOnDead
  BY DEF GatedInv
<1>. QED
  BY <1>1, <1>2, <1>3, LineCorrect, PTL DEF Spec

\* A session not reset since the last arm is still being verified, was conceded,
\* or sits behind a transport the client gave up.
UncleanIsOpen ==
    srv_up /\ ~srv_clean /\ ~conceded =>
        reset_state # "Idle" \/ (known_dead /\ phase = "Ready")

\* An acknowledgement on the wire comes from a reset session.
AckIsClean ==
    /\ InResponse /\ resp.ack => srv_clean
    /\ resp.ack => resp.clean

\* An answer from an unreset session is read with the verification still open.
AnswerUnclean == phase = "Reading" /\ ~resp.clean /\ ~conceded => reset_state # "Idle"

ReportInv == OkImpliesReset /\ UncleanIsOpen /\ AckIsClean /\ AnswerUnclean

\* ReportInv is inductive relative to LineInv when every request is gated.
LEMMA ReportStep ==
    ASSUME "Save" \notin Kinds, TypeOK, LineInv, ReportInv, [Next]_vars
    PROVE  ReportInv'
<1>. USE KindsAssumption, ArmModesAssumption
     DEF ReportInv, OkImpliesReset, UncleanIsOpen, AckIsClean, AnswerUnclean,
             NoMsg, NoReport, Reports, Reported,
             TypeOK, FlagsOK, RecordsOK, LineInv, PendingIsOwed, MessageCarries, OneMessage,
             HeldIsMessage, LineQuiet, VerificationFollows, InResponse, Armed, Abandoned,
             Messages, Inboxes, Responses, NoInbox, NoResp, Modes,
             vars, clientVars, wireVars, serverVars, histVars
<1>1. ASSUME NEW mode \in ArmModes, PrepareReset(mode) PROVE ReportInv'
  BY <1>1 DEF PrepareReset
<1>2. ASSUME NEW kind \in Kinds, NEW stmt \in Stmts \cup {NoStmt}, Start(kind, stmt)
      PROVE  ReportInv'
  BY <1>2 DEF Start, SettledState, SettledPending, TakesReset, NewMessage, OpenMessage, Gated
<1>3. ASSUME NEW kind \in Kinds, NEW stmt \in Stmts \cup {NoStmt}, Reconnect(kind, stmt)
      PROVE  ReportInv'
  BY <1>3 DEF Reconnect, NewMessage, TakesReset
<1>4. ASSUME NEW kind \in Kinds, Refuse(kind) PROVE ReportInv'
  BY <1>4 DEF Refuse, SettledState, SettledPending
<1>5. ASSUME NEW kind \in Kinds, ReconnectFails(kind) PROVE ReportInv'
  BY <1>5 DEF ReconnectFails, SettledState, SettledPending
<1>6. CASE MarkDead
  BY <1>6 DEF MarkDead
<1>7. CASE Close
  BY <1>7 DEF Close, TransportGone
<1>8. ASSUME NEW last \in BOOLEAN, SendPacket(last) PROVE ReportInv'
  BY <1>8 DEF SendPacket, WireFree, Delivered, CarriesBit
<1>9. CASE RetractUnsent
  BY <1>9 DEF RetractUnsent, AbandonedPending, AbandonedDispatched
<1>10. CASE WithdrawPartial
  BY <1>10 DEF WithdrawPartial, AbandonedPending, AbandonedDispatched
<1>11. ASSUME NEW interrupted \in BOOLEAN, WriteLost(interrupted) PROVE ReportInv'
  BY <1>11 DEF WriteLost, TransportGone
<1>12. CASE SendExpired
  BY <1>12 DEF SendExpired, WireFree, Delivered, CarriesBit
<1>13. CASE ReadAck
  BY <1>13 DEF ReadAck, ObservedDispatched
<1>14. ASSUME NEW token \in BodyTokens, ReadBody(token) PROVE ReportInv'
  BY <1>14 DEF ReadBody, ObservedState, ObservedDispatched, Condemns, Proves
<1>15. CASE ReadDone
  <2>1. OkImpliesReset'
    BY <1>15 DEF ReadDone, ObservedState, ObservedDispatched, Condemns, Proves
  <2>2. UncleanIsOpen'
    BY <1>15 DEF ReadDone, ObservedState, ObservedDispatched, Condemns, Proves
  <2>3. AckIsClean'
    BY <1>15 DEF ReadDone, ObservedState, ObservedDispatched, Condemns, Proves
  <2>4. AnswerUnclean'
    BY <1>15 DEF ReadDone, ObservedState, ObservedDispatched, Condemns, Proves
  <2>. QED
    BY <2>1, <2>2, <2>3, <2>4 DEF ReportInv
<1>16. CASE ReadCondemns
  BY <1>16 DEF ReadCondemns, Condemn, ObservedDispatched
<1>17. CASE ReadLost
  BY <1>17 DEF ReadLost, Orphaned, TransportGone
<1>18. CASE InterruptRead
  BY <1>18 DEF InterruptRead
<1>19. CASE InterruptDeadRead
  BY <1>19 DEF InterruptDeadRead
<1>20. CASE SettleAttention
  BY <1>20 DEF SettleAttention, ObservedState, ObservedDispatched
<1>21. CASE SettleCondemns
  BY <1>21 DEF SettleCondemns, ObservedDispatched
<1>22. CASE SettleFails
  BY <1>22 DEF SettleFails
<1>23. CASE WithdrawDone
  BY <1>23 DEF WithdrawDone, ObservedState, ObservedDispatched
<1>24. CASE WithdrawFails
  BY <1>24 DEF WithdrawFails, TransportGone
<1>25. CASE SrvRun
  BY <1>25 DEF SrvRun
<1>26. CASE SrvIgnore
  BY <1>26 DEF SrvIgnore
<1>27. CASE SrvAttention
  BY <1>27 DEF SrvAttention
<1>28. CASE NetLoss
  BY <1>28 DEF NetLoss, TransportGone
<1>29. CASE UNCHANGED vars
  BY <1>29
<1>. QED
  BY <1>1, <1>2, <1>3, <1>4, <1>5, <1>6, <1>7, <1>8, <1>9, <1>10, <1>11, <1>12, <1>13, <1>14,
     <1>15, <1>16, <1>17, <1>18, <1>19, <1>20, <1>21, <1>22, <1>23, <1>24, <1>25, <1>26, <1>27,
     <1>28, <1>29
     DEF Next, Request, Write, Read, Interrupt, Settle, Server

\* A request that reports success ran on a session reset since the last arm,
\* unless the verification was conceded at a request boundary.
THEOREM ReportCorrect ==
    ASSUME "Save" \notin Kinds
    PROVE  Spec => []OkImpliesReset
<1>1. Init => ReportInv
  BY DEF Init, ReportInv, OkImpliesReset, UncleanIsOpen, AckIsClean, AnswerUnclean, NoReport,
         NoResp
<1>2. TypeOK /\ LineInv /\ ReportInv /\ [Next]_vars => ReportInv'
  BY ReportStep
<1>3. ReportInv => OkImpliesReset
  BY DEF ReportInv
<1>. QED
  BY <1>1, <1>2, <1>3, LineCorrect, PTL DEF Spec

---------------------------------------------------------------------------
(* The transaction flag.                                                   *)

\* Every reset asked for, carried or tracked is one of the ArmModes.
ModesAsked ==
    /\ reset_state \in ArmModes \cup {"Idle", "AwaitingAck"}
    /\ pending_reset \in ArmModes \cup {"None"}
    /\ msg.mode \in ArmModes \cup {"None"}
    /\ inbox.mode \in ArmModes \cup {"None"}

\* Until the server runs the request the flag is the session's, counting a full
\* reset on its way as done; afterwards the unread ENVCHANGE makes it so.
TxnFollows ==
    (~known_dead /\ srv_up) =>
        /\ ~InResponse \/ inbox.st = "Complete" => txn = (srv_txn /\ reset_state # "Reset")
        /\ InResponse /\ inbox.st # "Complete" =>
             IF "Txn" \in resp.body THEN resp.txn = srv_txn ELSE txn = srv_txn

TxnInv == ModesAsked /\ TxnFollows

\* TxnInv is inductive relative to LineInv with one arm mode and an honest server.
LEMMA TxnStep ==
    ASSUME ServerHonors = {TRUE}, \A m, n \in ArmModes : m = n,
           TypeOK, LineInv, ResetInv, TxnInv, [Next]_vars
    PROVE  TxnInv'
<1>. USE KindsAssumption, ArmModesAssumption
     DEF TxnInv, ModesAsked, TxnFollows, NoMsg, ResetInv, AnswerAcknowledges,
             TypeOK, FlagsOK, RecordsOK, LineInv, PendingIsOwed, MessageCarries, OneMessage,
             HeldIsMessage, LineQuiet, VerificationFollows, InResponse, Armed, Abandoned,
             Messages, Inboxes, Responses, NoInbox, NoResp, Modes,
             vars, clientVars, wireVars, serverVars, histVars
<1>1. ASSUME NEW mode \in ArmModes, PrepareReset(mode) PROVE TxnInv'
  BY <1>1 DEF PrepareReset, TxnOnceArmed
<1>2. ASSUME NEW kind \in Kinds, NEW stmt \in Stmts \cup {NoStmt}, Start(kind, stmt) PROVE TxnInv'
  <2>1. ModesAsked'
    BY <1>2 DEF Start, SettledState, SettledPending, TakesReset, NewMessage, OpenMessage, Gated
  <2>2. TxnFollows'
    BY <1>2 DEF Start, SettledState, SettledPending, TakesReset, NewMessage, OpenMessage, Gated
  <2>. QED
    BY <2>1, <2>2 DEF TxnInv
<1>3. ASSUME NEW kind \in Kinds, NEW stmt \in Stmts \cup {NoStmt}, Reconnect(kind, stmt)
      PROVE  TxnInv'
  BY <1>3 DEF Reconnect, NewMessage, TakesReset
<1>4. ASSUME NEW kind \in Kinds, Refuse(kind) PROVE TxnInv'
  BY <1>4 DEF Refuse, SettledState, SettledPending
<1>5. ASSUME NEW kind \in Kinds, ReconnectFails(kind) PROVE TxnInv'
  BY <1>5 DEF ReconnectFails, SettledState, SettledPending
<1>6. CASE MarkDead
  BY <1>6 DEF MarkDead
<1>7. CASE Close
  BY <1>7 DEF Close, TransportGone
<1>8. ASSUME NEW last \in BOOLEAN, SendPacket(last) PROVE TxnInv'
  BY <1>8 DEF SendPacket, WireFree, Delivered, CarriesBit
<1>9. CASE RetractUnsent
  BY <1>9 DEF RetractUnsent, AbandonedPending, AbandonedDispatched
<1>10. CASE WithdrawPartial
  BY <1>10 DEF WithdrawPartial, AbandonedPending, AbandonedDispatched
<1>11. ASSUME NEW interrupted \in BOOLEAN, WriteLost(interrupted) PROVE TxnInv'
  BY <1>11 DEF WriteLost, TransportGone
<1>12. CASE SendExpired
  BY <1>12 DEF SendExpired, WireFree, Delivered, CarriesBit
<1>13. CASE ReadAck
  BY <1>13 DEF ReadAck, ObservedDispatched
<1>14. ASSUME NEW token \in BodyTokens, ReadBody(token) PROVE TxnInv'
  BY <1>14 DEF ReadBody, ObservedState, ObservedDispatched, Condemns, Proves
<1>15. CASE ReadDone
  BY <1>15 DEF ReadDone, ObservedState, ObservedDispatched
<1>16. CASE ReadCondemns
  BY <1>16 DEF ReadCondemns, Condemn, ObservedDispatched
<1>17. CASE ReadLost
  BY <1>17 DEF ReadLost, Orphaned, TransportGone
<1>18. CASE InterruptRead
  BY <1>18 DEF InterruptRead
<1>19. CASE InterruptDeadRead
  BY <1>19 DEF InterruptDeadRead
<1>20. CASE SettleAttention
  BY <1>20 DEF SettleAttention, ObservedState, ObservedDispatched
<1>21. CASE SettleCondemns
  BY <1>21 DEF SettleCondemns, ObservedDispatched
<1>22. CASE SettleFails
  BY <1>22 DEF SettleFails
<1>23. CASE WithdrawDone
  BY <1>23 DEF WithdrawDone, ObservedState, ObservedDispatched
<1>24. CASE WithdrawFails
  BY <1>24 DEF WithdrawFails, TransportGone
<1>25. CASE SrvRun
  BY <1>25 DEF SrvRun, Answers
<1>26. CASE SrvIgnore
  BY <1>26 DEF SrvIgnore
<1>27. CASE SrvAttention
  <2>1. ModesAsked'
    BY <1>27 DEF SrvAttention
  <2>2. TxnFollows'
    <3>1. "Txn" \in resp'.body <=> "Txn" \in resp.body
      <4>1. CASE resp' = [resp EXCEPT !.fin = @ \cup {"Attn"}]
        BY <4>1
      <4>2. CASE \E kept \in SUBSET resp.body :
                   /\ "Txn" \in resp.body => "Txn" \in kept
                   /\ resp' = [resp EXCEPT !.body = kept, !.fin = {"Attn"}]
        BY <4>2
      <4>3. CASE /\ "Txn" \notin resp.body
                 /\ resp' = [resp EXCEPT !.ack = FALSE, !.body = {}, !.fin = {"Attn"}]
        BY <4>3
      <4>. QED
        BY <1>27, <4>1, <4>2, <4>3 DEF SrvAttention
    <3>2. resp'.txn = resp.txn
      BY <1>27 DEF SrvAttention
    <3>. QED
      BY <1>27, <3>1, <3>2 DEF SrvAttention
  <2>. QED
    BY <2>1, <2>2 DEF TxnInv
<1>28. CASE NetLoss
  BY <1>28 DEF NetLoss, TransportGone
<1>29. CASE UNCHANGED vars
  BY <1>29
<1>. QED
  BY <1>1, <1>2, <1>3, <1>4, <1>5, <1>6, <1>7, <1>8, <1>9, <1>10, <1>11, <1>12, <1>13, <1>14,
     <1>15, <1>16, <1>17, <1>18, <1>19, <1>20, <1>21, <1>22, <1>23, <1>24, <1>25, <1>26, <1>27,
     <1>28, <1>29
     DEF Next, Request, Write, Read, Interrupt, Settle, Server

\* Between requests on a live connection the client's transaction flag is the
\* server's, for an application that asks for one kind of reset.
THEOREM TxnMirrorCorrect ==
    ASSUME ServerHonors = {TRUE}, \A m, n \in ArmModes : m = n
    PROVE  Spec => []TxnMirror
<1>1. Init => ResetInv /\ TxnInv
  <2>1. Init => ResetInv
    BY DEF Init, ResetInv, PendingIsOwed, MessageCarries, MessageOnWire, ResetOwed,
           HeldIsCarrier, AnswerAcknowledges, NeverRunsUnreset, NeverCondemnsHonest,
           Armed, Abandoned, NoInbox, NoResp, Modes
  <2>2. Init => ModesAsked
    BY DEF Init, ModesAsked, NoInbox, NoMsg
  <2>3. Init => TxnFollows
    BY DEF Init, TxnFollows, InResponse
  <2>. QED
    BY <2>1, <2>2, <2>3 DEF TxnInv
<1>2. TypeOK /\ LineInv /\ ResetInv /\ TxnInv /\ [Next]_vars => ResetInv' /\ TxnInv'
  BY ResetStep, TxnStep
<1>3. TxnInv => TxnMirror
  BY DEF TxnInv, TxnFollows, TxnMirror, InResponse
<1>. QED
  BY <1>1, <1>2, <1>3, LineCorrect, PTL DEF Spec
=============================================================================
