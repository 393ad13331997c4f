------------------------ MODULE ResetConnection_proofs ------------------------
(***************************************************************************)
(* Proofs about ResetConnection, for every set of statements, every set of *)
(* request kinds and every combination of arm modes.                       *)
(***************************************************************************)
EXTENDS ResetConnection, TLAPS

\* The constant records are values of their types.
LEMMA RecordTypes ==
    /\ NoMsg \in Messages /\ NoInbox \in Inboxes
    /\ NoResp \in Responses /\ NoReport \in Reports
BY DEF NoMsg, Messages, NoInbox, Inboxes, NoResp, Responses, NoReport, Reports

\* The flags stay Boolean.
LEMMA FlagsStep == TypeOK /\ [Next]_vars => FlagsOK'
<1>. SUFFICES ASSUME TypeOK, [Next]_vars PROVE FlagsOK'
  OBVIOUS
<1>. USE DEF TypeOK, FlagsOK, RecordsOK, vars, clientVars, wireVars, serverVars, histVars
<1>1. ASSUME NEW mode \in ArmModes, PrepareReset(mode) PROVE FlagsOK'
  BY <1>1 DEF PrepareReset, TxnOnceArmed
<1>2. ASSUME NEW kind \in Kinds, NEW stmt \in Stmts \cup {NoStmt}, Start(kind, stmt) PROVE FlagsOK'
  BY <1>2 DEF Start, Abandoned, Armed, OpenMessage
<1>3. ASSUME NEW kind \in Kinds, NEW stmt \in Stmts \cup {NoStmt}, Reconnect(kind, stmt)
      PROVE  FlagsOK'
  BY <1>3 DEF Reconnect
<1>4. ASSUME NEW kind \in Kinds, Refuse(kind) PROVE FlagsOK'
  <2>1. conceded' \in BOOLEAN
    BY <1>4 DEF Refuse
  <2>. QED
    BY <1>4, <2>1 DEF Refuse
<1>5. ASSUME NEW kind \in Kinds, ReconnectFails(kind) PROVE FlagsOK'
  BY <1>5 DEF ReconnectFails, Abandoned, Armed
<1>6. CASE MarkDead
  BY <1>6 DEF MarkDead
<1>7. CASE Close
  BY <1>7 DEF Close, TransportGone
<1>8. ASSUME NEW last \in BOOLEAN, SendPacket(last) PROVE FlagsOK'
  BY <1>8 DEF SendPacket, CarriesBit
<1>9. CASE RetractUnsent
  <2>1. reset_dispatched' \in BOOLEAN
    BY <1>9 DEF RetractUnsent, AbandonedDispatched
  <2>. QED
    BY <1>9, <2>1 DEF RetractUnsent
<1>10. CASE WithdrawPartial
  <2>1. reset_dispatched' \in BOOLEAN
    BY <1>10 DEF WithdrawPartial, AbandonedDispatched
  <2>. QED
    BY <1>10, <2>1 DEF WithdrawPartial
<1>11. ASSUME NEW interrupted \in BOOLEAN, WriteLost(interrupted) PROVE FlagsOK'
  BY <1>11 DEF WriteLost, TransportGone
<1>12. CASE SendExpired
  BY <1>12 DEF SendExpired, CarriesBit
<1>13. CASE ReadAck
  BY <1>13 DEF ReadAck, ObservedDispatched
<1>14. ASSUME NEW token \in BodyTokens, ReadBody(token) PROVE FlagsOK'
  BY <1>14 DEF ReadBody, ObservedDispatched, Responses
<1>15. CASE ReadDone
  BY <1>15 DEF ReadDone, ObservedDispatched
<1>16. CASE ReadCondemns
  BY <1>16 DEF ReadCondemns, Condemn, RecoveryAfterRetire, ObservedDispatched
<1>17. CASE ReadLost
  BY <1>17 DEF ReadLost, TransportGone
<1>18. CASE InterruptRead
  BY <1>18 DEF InterruptRead
<1>19. CASE InterruptDeadRead
  BY <1>19 DEF InterruptDeadRead
<1>20. CASE SettleAttention
  BY <1>20 DEF SettleAttention, ObservedDispatched, Responses
<1>21. CASE SettleCondemns
  BY <1>21 DEF SettleCondemns, ObservedDispatched
<1>22. CASE SettleFails
  <2>1. recovery' \in BOOLEAN
    BY <1>22 DEF SettleFails, RecoveryAfterRetire
  <2>. QED
    BY <1>22, <2>1 DEF SettleFails
<1>23. CASE WithdrawDone
  BY <1>23 DEF WithdrawDone, ObservedDispatched
<1>24. CASE WithdrawFails
  BY <1>24 DEF WithdrawFails, DoneRefused, TransportGone
<1>25. CASE SrvRun
  BY <1>25 DEF SrvRun
<1>26. CASE SrvIgnore
  BY <1>26 DEF SrvIgnore
<1>27. CASE SrvAttention
  BY <1>27 DEF SrvAttention
<1>28. CASE NetLoss
  BY <1>28 DEF NetLoss, TransportGone
<1>29. CASE UNCHANGED vars
  BY <1>29
<1>. QED
  BY <1>1, <1>2, <1>3, <1>4, <1>5, <1>6, <1>7, <1>8, <1>9, <1>10, <1>11, <1>12, <1>13, <1>14, <1>15,
     <1>16, <1>17, <1>18, <1>19, <1>20, <1>21, <1>22, <1>23, <1>24, <1>25, <1>26, <1>27, <1>28,
     <1>29
     DEF Next, Request, Write, Read, Interrupt, Settle, Server

\* A delivered packet is a message the server can hold.
LEMMA DeliveredType ==
    ASSUME msg \in Messages, inbox \in Inboxes, NEW last \in BOOLEAN
    PROVE  Delivered(last) \in Inboxes
BY DEF Delivered, Messages, Inboxes

\* The other variables keep their types.
LEMMA RecordsStep == TypeOK /\ [Next]_vars => RecordsOK'
<1>. SUFFICES ASSUME TypeOK, [Next]_vars PROVE RecordsOK'
  OBVIOUS
<1>. USE RecordTypes, KindsAssumption, ArmModesAssumption
     DEF TypeOK, RecordsOK, vars, clientVars, wireVars, serverVars, histVars
<1>1. ASSUME NEW mode \in ArmModes, PrepareReset(mode) PROVE RecordsOK'
  BY <1>1 DEF PrepareReset, Inboxes, Modes
<1>2. ASSUME NEW kind \in Kinds, NEW stmt \in Stmts \cup {NoStmt}, Start(kind, stmt)
      PROVE  RecordsOK'
  BY <1>2
     DEF Start, SettledState, SettledPending, Abandoned, Armed, TakesReset, NewMessage,
         OpenMessage, Messages
<1>3. ASSUME NEW kind \in Kinds, NEW stmt \in Stmts \cup {NoStmt}, Reconnect(kind, stmt)
      PROVE  RecordsOK'
  BY <1>3 DEF Reconnect, TakesReset, NewMessage, Messages
<1>4. ASSUME NEW kind \in Kinds, Refuse(kind) PROVE RecordsOK'
  BY <1>4 DEF Refuse, SettledState, SettledPending, Abandoned, Armed, Reports, NoReport
<1>5. ASSUME NEW kind \in Kinds, ReconnectFails(kind) PROVE RecordsOK'
  BY <1>5 DEF ReconnectFails, SettledState, SettledPending, Abandoned, Armed, Reports, NoReport
<1>6. CASE MarkDead
  BY <1>6 DEF MarkDead
<1>7. CASE Close
  BY <1>7 DEF Close, TransportGone
<1>8. ASSUME NEW last \in BOOLEAN, SendPacket(last) PROVE RecordsOK'
  <2>1. inbox' \in Inboxes /\ msg' \in Messages
    BY <1>8, DeliveredType DEF SendPacket, Messages
  <2>. QED
    BY <1>8, <2>1 DEF SendPacket, HandlesOnceSent
<1>9. CASE RetractUnsent
  BY <1>9 DEF RetractUnsent, AbandonedPending, Reported, Reports, Messages
<1>10. CASE WithdrawPartial
  BY <1>10 DEF WithdrawPartial, AbandonedPending, Messages, Inboxes
<1>11. ASSUME NEW interrupted \in BOOLEAN, WriteLost(interrupted) PROVE RecordsOK'
  BY <1>11 DEF WriteLost, TransportGone, HandlesOnceSent, Reported, Reports, Messages
<1>12. CASE SendExpired
  <2>1. inbox' \in Inboxes /\ msg' \in Messages
    BY <1>12, DeliveredType DEF SendExpired, Messages
  <2>. QED
    BY <1>12, <2>1 DEF SendExpired, HandlesOnceSent
<1>13. CASE ReadAck
  BY <1>13 DEF ReadAck, Responses
<1>14. ASSUME NEW token \in BodyTokens, ReadBody(token) PROVE RecordsOK'
  BY <1>14 DEF ReadBody, ObservedState, CaptureHandle, CaptureAfter, Responses
<1>15. CASE ReadDone
  BY <1>15 DEF ReadDone, ObservedState, Reported, Reports, Messages, Responses
<1>16. CASE ReadCondemns
  BY <1>16 DEF ReadCondemns, Condemn, Reported, Reports, Messages
<1>17. CASE ReadLost
  BY <1>17 DEF ReadLost, TransportGone, Reported, Reports, Messages
<1>18. CASE InterruptRead
  BY <1>18 DEF InterruptRead
<1>19. CASE InterruptDeadRead
  BY <1>19 DEF InterruptDeadRead, Reported, Reports, Messages
<1>20. CASE SettleAttention
  BY <1>20 DEF SettleAttention, ObservedState, CaptureHandle, Reported, Reports, Messages
<1>21. CASE SettleCondemns
  BY <1>21 DEF SettleCondemns, Reported, Reports, Messages
<1>22. CASE SettleFails
  BY <1>22 DEF SettleFails, Reported, Reports, Messages
<1>23. CASE WithdrawDone
  BY <1>23 DEF WithdrawDone, ObservedState, Reported, Reports, Messages
<1>24. CASE WithdrawFails
  BY <1>24 DEF WithdrawFails, TransportGone, Reported, Reports, Messages
<1>25. CASE SrvRun
  BY <1>25 DEF SrvRun, Responses
<1>26. CASE SrvIgnore
  BY <1>26 DEF SrvIgnore, Responses, NoResp
<1>27. CASE SrvAttention
  <2>1. resp' \in Responses
    <3>1. CASE resp' = [resp EXCEPT !.fin = @ \cup {"Attn"}]
      BY <3>1 DEF Responses
    <3>2. CASE \E kept \in SUBSET resp.body :
                 resp' = [resp EXCEPT !.body = kept, !.fin = {"Attn"}]
      BY <3>2 DEF Responses
    <3>3. CASE resp' = [resp EXCEPT !.ack = FALSE, !.body = {}, !.fin = {"Attn"}]
      BY <3>3 DEF Responses
    <3>. QED
      BY <1>27, <3>1, <3>2, <3>3 DEF SrvAttention
  <2>. QED
    BY <1>27, <2>1 DEF SrvAttention
<1>28. CASE NetLoss
  BY <1>28 DEF NetLoss, TransportGone
<1>29. CASE UNCHANGED vars
  BY <1>29
<1>. QED
  BY <1>1, <1>2, <1>3, <1>4, <1>5, <1>6, <1>7, <1>8, <1>9, <1>10, <1>11, <1>12, <1>13, <1>14, <1>15,
     <1>16, <1>17, <1>18, <1>19, <1>20, <1>21, <1>22, <1>23, <1>24, <1>25, <1>26, <1>27, <1>28,
     <1>29
     DEF Next, Request, Write, Read, Interrupt, Settle, Server

\* Every variable keeps its type.
THEOREM TypeCorrect == Spec => []TypeOK
<1>1. Init => TypeOK
  <2>1. Init => FlagsOK
    BY NegotiatedAssumption DEF Init, FlagsOK
  <2>2. Init => RecordsOK
    BY RecordTypes DEF Init, RecordsOK
  <2>. QED
    BY <2>1, <2>2 DEF TypeOK
<1>2. TypeOK /\ [Next]_vars => TypeOK'
  BY FlagsStep, RecordsStep DEF TypeOK
<1>. QED
  BY <1>1, <1>2, PTL DEF Spec

\* ResetInv is inductive when the server honours the bit.
LEMMA ResetStep ==
    ASSUME ServerHonors = {TRUE}, TypeOK, ResetInv, [Next]_vars
    PROVE  ResetInv'
<1>. USE DEF TypeOK, FlagsOK, RecordsOK, ResetInv, PendingIsOwed, MessageCarries, MessageOnWire,
             ResetOwed, HeldIsCarrier, AnswerAcknowledges, NeverRunsUnreset, NeverCondemnsHonest,
             Armed, Abandoned, NoInbox, NoResp, Modes,
             vars, clientVars, wireVars, serverVars, histVars
<1>1. ASSUME NEW mode \in ArmModes, PrepareReset(mode) PROVE ResetInv'
  <2>1. PendingIsOwed'
    BY <1>1, ArmModesAssumption DEF PrepareReset, NoInbox, Inboxes
  <2>2. MessageCarries'
    BY <1>1, ArmModesAssumption DEF PrepareReset, NoInbox, Inboxes
  <2>3. MessageOnWire'
    BY <1>1, ArmModesAssumption DEF PrepareReset, NoInbox, Inboxes
  <2>4. ResetOwed'
    BY <1>1, ArmModesAssumption DEF PrepareReset, NoInbox, Inboxes
  <2>5. HeldIsCarrier'
    BY <1>1, ArmModesAssumption DEF PrepareReset, NoInbox, Inboxes
  <2>6. AnswerAcknowledges'
    BY <1>1, ArmModesAssumption DEF PrepareReset, NoInbox, Inboxes
  <2>7. (NeverRunsUnreset /\ NeverCondemnsHonest)'
    BY <1>1, ArmModesAssumption DEF PrepareReset, NoInbox, Inboxes
  <2>. QED
    BY <2>1, <2>2, <2>3, <2>4, <2>5, <2>6, <2>7
<1>2. ASSUME NEW kind \in Kinds, NEW stmt \in Stmts \cup {NoStmt}, Start(kind, stmt) PROVE ResetInv'
  <2>1. PendingIsOwed'
    BY <1>2, KindsAssumption
       DEF Start, SettledState, SettledPending, TakesReset, NewMessage, OpenMessage, Messages
  <2>2. MessageCarries'
    BY <1>2, KindsAssumption
       DEF Start, SettledState, SettledPending, TakesReset, NewMessage, OpenMessage, Messages
  <2>3. MessageOnWire'
    BY <1>2, KindsAssumption
       DEF Start, SettledState, SettledPending, TakesReset, NewMessage, OpenMessage, Messages
  <2>4. ResetOwed'
    BY <1>2, KindsAssumption
       DEF Start, SettledState, SettledPending, TakesReset, NewMessage, OpenMessage, Messages
  <2>5. HeldIsCarrier'
    BY <1>2, KindsAssumption
       DEF Start, SettledState, SettledPending, TakesReset, NewMessage, OpenMessage, Messages
  <2>6. AnswerAcknowledges'
    BY <1>2, KindsAssumption
       DEF Start, SettledState, SettledPending, TakesReset, NewMessage, OpenMessage, Messages
  <2>7. (NeverRunsUnreset /\ NeverCondemnsHonest)'
    BY <1>2, KindsAssumption
       DEF Start, SettledState, SettledPending, TakesReset, NewMessage, OpenMessage, Messages
  <2>. QED
    BY <2>1, <2>2, <2>3, <2>4, <2>5, <2>6, <2>7
<1>3. ASSUME NEW kind \in Kinds, NEW stmt \in Stmts \cup {NoStmt}, Reconnect(kind, stmt)
      PROVE  ResetInv'
  BY <1>3 DEF Reconnect, NewMessage, TakesReset
<1>4. ASSUME NEW kind \in Kinds, Refuse(kind) PROVE ResetInv'
  BY <1>4 DEF Refuse, SettledState, SettledPending
<1>5. ASSUME NEW kind \in Kinds, ReconnectFails(kind) PROVE ResetInv'
  BY <1>5 DEF ReconnectFails, SettledState, SettledPending
<1>6. CASE MarkDead
  BY <1>6 DEF MarkDead
<1>7. CASE Close
  BY <1>7 DEF Close, TransportGone
<1>8. ASSUME NEW last \in BOOLEAN, SendPacket(last) PROVE ResetInv'
  <2>1. PendingIsOwed'
    BY <1>8 DEF SendPacket, WireFree, Delivered, CarriesBit, Messages, Inboxes, Responses
  <2>2. MessageCarries'
    BY <1>8 DEF SendPacket, WireFree, Delivered, CarriesBit, Messages, Inboxes, Responses
  <2>3. MessageOnWire'
    <3>1. CASE srv_up
      <4>1. /\ inbox'.st = IF last THEN "Complete" ELSE "Partial"
            /\ inbox'.mode = msg.mode /\ inbox'.since
        BY <1>8, <3>1 DEF SendPacket, Delivered, Messages
      <4>2. msg'.mode = msg.mode /\ msg'.attempted
        BY <1>8 DEF SendPacket, Messages
      <4>3. resp' = NoResp /\ srv_up' = srv_up /\ (inbox'.st = "Partial" => ~attn')
        BY <1>8, <4>1 DEF SendPacket, WireFree
      <4>. QED
        BY <1>8, <3>1, <4>1, <4>2, <4>3 DEF SendPacket
    <3>2. CASE ~srv_up
      <4>1. inbox' = NoInbox /\ resp' = NoResp /\ ~srv_up' /\ ~attn'
        BY <1>8, <3>2 DEF SendPacket, Delivered
      <4>. QED
        BY <4>1
    <3>. QED
      BY <3>1, <3>2
  <2>4. ResetOwed'
    BY <1>8 DEF SendPacket, WireFree, Delivered, CarriesBit, Messages, Inboxes, Responses
  <2>5. HeldIsCarrier'
    BY <1>8 DEF SendPacket, WireFree, Delivered, CarriesBit, Messages, Inboxes, Responses
  <2>6. AnswerAcknowledges'
    BY <1>8 DEF SendPacket, WireFree, Delivered, CarriesBit, Messages, Inboxes, Responses
  <2>7. (NeverRunsUnreset /\ NeverCondemnsHonest)'
    BY <1>8 DEF SendPacket, WireFree, Delivered, CarriesBit, Messages, Inboxes, Responses
  <2>. QED
    BY <2>1, <2>2, <2>3, <2>4, <2>5, <2>6, <2>7
<1>9. CASE RetractUnsent
  <2>1. PendingIsOwed'
    BY <1>9 DEF RetractUnsent, AbandonedPending, AbandonedDispatched, Messages
  <2>2. MessageCarries'
    BY <1>9 DEF RetractUnsent, AbandonedPending, AbandonedDispatched, Messages
  <2>3. MessageOnWire'
    BY <1>9 DEF RetractUnsent, AbandonedPending, AbandonedDispatched, Messages
  <2>4. ResetOwed'
    BY <1>9 DEF RetractUnsent, AbandonedPending, AbandonedDispatched, Messages
  <2>5. HeldIsCarrier'
    BY <1>9 DEF RetractUnsent, AbandonedPending, AbandonedDispatched, Messages
  <2>6. AnswerAcknowledges'
    BY <1>9 DEF RetractUnsent, AbandonedPending, AbandonedDispatched, Messages
  <2>7. (NeverRunsUnreset /\ NeverCondemnsHonest)'
    BY <1>9 DEF RetractUnsent, AbandonedPending, AbandonedDispatched, Messages
  <2>. QED
    BY <2>1, <2>2, <2>3, <2>4, <2>5, <2>6, <2>7
<1>10. CASE WithdrawPartial
  <2>1. PendingIsOwed'
    BY <1>10 DEF WithdrawPartial, AbandonedPending, AbandonedDispatched, Messages, Inboxes
  <2>2. MessageCarries'
    BY <1>10 DEF WithdrawPartial, AbandonedPending, AbandonedDispatched, Messages, Inboxes
  <2>3. MessageOnWire'
    <3>1. CASE srv_up
      <4>1. inbox'.st = "Ignored" /\ resp' = NoResp /\ ~attn' /\ srv_up'
        BY <1>10, <3>1 DEF WithdrawPartial, Inboxes
      <4>. QED
        BY <1>10, <4>1 DEF WithdrawPartial
    <3>2. CASE ~srv_up
      <4>1. inbox' = NoInbox /\ resp' = NoResp /\ ~srv_up' /\ ~attn'
        BY <1>10, <3>2 DEF WithdrawPartial
      <4>. QED
        BY <4>1
    <3>. QED
      BY <3>1, <3>2
  <2>4. ResetOwed'
    BY <1>10 DEF WithdrawPartial, AbandonedPending, AbandonedDispatched, Messages, Inboxes
  <2>5. HeldIsCarrier'
    BY <1>10 DEF WithdrawPartial, AbandonedPending, AbandonedDispatched, Messages, Inboxes
  <2>6. AnswerAcknowledges'
    BY <1>10 DEF WithdrawPartial, AbandonedPending, AbandonedDispatched, Messages, Inboxes
  <2>7. (NeverRunsUnreset /\ NeverCondemnsHonest)'
    BY <1>10 DEF WithdrawPartial, AbandonedPending, AbandonedDispatched, Messages, Inboxes
  <2>. QED
    BY <2>1, <2>2, <2>3, <2>4, <2>5, <2>6, <2>7
<1>11. ASSUME NEW interrupted \in BOOLEAN, WriteLost(interrupted) PROVE ResetInv'
  BY <1>11 DEF WriteLost, TransportGone
<1>12. CASE SendExpired
  <2>1. PendingIsOwed'
    BY <1>12 DEF SendExpired, WireFree, Delivered, CarriesBit, Messages, Inboxes, Responses
  <2>2. MessageCarries'
    BY <1>12 DEF SendExpired, WireFree, Delivered, CarriesBit, Messages, Inboxes, Responses
  <2>3. MessageOnWire'
    <3>1. CASE srv_up
      <4>1. /\ inbox'.st = "Complete"
            /\ inbox'.mode = msg.mode /\ inbox'.since
        BY <1>12, <3>1 DEF SendExpired, Delivered, Messages
      <4>2. msg'.mode = msg.mode /\ msg'.attempted
        BY <1>12 DEF SendExpired, Messages
      <4>3. resp' = NoResp /\ srv_up' = srv_up /\ (inbox'.st = "Partial" => ~attn')
        BY <1>12, <4>1 DEF SendExpired, WireFree
      <4>4. phase' = "Settling"
        BY <1>12 DEF SendExpired
      <4>. QED
        BY <3>1, <4>1, <4>2, <4>3, <4>4
    <3>2. CASE ~srv_up
      <4>1. inbox' = NoInbox /\ resp' = NoResp /\ ~srv_up' /\ ~attn'
        BY <1>12, <3>2 DEF SendExpired, Delivered
      <4>. QED
        BY <4>1
    <3>. QED
      BY <3>1, <3>2
  <2>4. ResetOwed'
    BY <1>12 DEF SendExpired, WireFree, Delivered, CarriesBit, Messages, Inboxes, Responses
  <2>5. HeldIsCarrier'
    BY <1>12 DEF SendExpired, WireFree, Delivered, CarriesBit, Messages, Inboxes, Responses
  <2>6. AnswerAcknowledges'
    BY <1>12 DEF SendExpired, WireFree, Delivered, CarriesBit, Messages, Inboxes, Responses
  <2>7. (NeverRunsUnreset /\ NeverCondemnsHonest)'
    BY <1>12 DEF SendExpired, WireFree, Delivered, CarriesBit, Messages, Inboxes, Responses
  <2>. QED
    BY <2>1, <2>2, <2>3, <2>4, <2>5, <2>6, <2>7
<1>13. CASE ReadAck
  <2>1. PendingIsOwed'
    BY <1>13 DEF ReadAck, ObservedDispatched, Responses
  <2>2. MessageCarries'
    BY <1>13 DEF ReadAck, ObservedDispatched, Responses
  <2>3. MessageOnWire'
    BY <1>13 DEF ReadAck, ObservedDispatched, Responses
  <2>4. ResetOwed'
    BY <1>13 DEF ReadAck, ObservedDispatched, Responses
  <2>5. HeldIsCarrier'
    BY <1>13 DEF ReadAck, ObservedDispatched, Responses
  <2>6. AnswerAcknowledges'
    BY <1>13 DEF ReadAck, ObservedDispatched, Responses
  <2>7. (NeverRunsUnreset /\ NeverCondemnsHonest)'
    BY <1>13 DEF ReadAck, ObservedDispatched, Responses
  <2>. QED
    BY <2>1, <2>2, <2>3, <2>4, <2>5, <2>6, <2>7
<1>14. ASSUME NEW token \in BodyTokens, ReadBody(token) PROVE ResetInv'
  BY <1>14 DEF ReadBody, ObservedState, ObservedDispatched, Condemns, Proves
<1>15. CASE ReadDone
  BY <1>15 DEF ReadDone, ObservedState, ObservedDispatched
<1>16. CASE ReadCondemns
  BY <1>16 DEF ReadCondemns, Condemns, ObservedState
<1>17. CASE ReadLost
  BY <1>17 DEF ReadLost, Orphaned, TransportGone
<1>18. CASE InterruptRead
  BY <1>18 DEF InterruptRead
<1>19. CASE InterruptDeadRead
  BY <1>19 DEF InterruptDeadRead
<1>20. CASE SettleAttention
  <2>1. PendingIsOwed'
    BY <1>20 DEF SettleAttention, ObservedState, ObservedDispatched, Responses
  <2>2. MessageCarries'
    BY <1>20 DEF SettleAttention, ObservedState, ObservedDispatched, Responses
  <2>3. MessageOnWire'
    BY <1>20 DEF SettleAttention, ObservedState, ObservedDispatched, Responses
  <2>4. ResetOwed'
    BY <1>20 DEF SettleAttention, ObservedState, ObservedDispatched, Responses
  <2>5. HeldIsCarrier'
    BY <1>20 DEF SettleAttention, ObservedState, ObservedDispatched, Responses
  <2>6. AnswerAcknowledges'
    BY <1>20 DEF SettleAttention, ObservedState, ObservedDispatched, Responses
  <2>7. (NeverRunsUnreset /\ NeverCondemnsHonest)'
    BY <1>20 DEF SettleAttention, ObservedState, ObservedDispatched, Responses
  <2>. QED
    BY <2>1, <2>2, <2>3, <2>4, <2>5, <2>6, <2>7
<1>21. CASE SettleCondemns
  BY <1>21 DEF SettleCondemns, SettlementCondemns, ObservedState
<1>22. CASE SettleFails
  BY <1>22 DEF SettleFails
<1>23. CASE WithdrawDone
  BY <1>23 DEF WithdrawDone, ObservedState, ObservedDispatched
<1>24. CASE WithdrawFails
  BY <1>24 DEF WithdrawFails, DoneRefused, Condemns, ObservedState, TransportGone
<1>25. CASE SrvRun
  <2>1. PendingIsOwed'
    BY <1>25 DEF SrvRun, Inboxes, Responses
  <2>2. MessageCarries'
    BY <1>25 DEF SrvRun, Inboxes, Responses
  <2>3. MessageOnWire'
    BY <1>25 DEF SrvRun, Inboxes, Responses
  <2>4. ResetOwed'
    BY <1>25 DEF SrvRun, Inboxes, Responses
  <2>5. HeldIsCarrier'
    BY <1>25 DEF SrvRun, Inboxes, Responses
  <2>6. AnswerAcknowledges'
    BY <1>25 DEF SrvRun, Inboxes, Responses
  <2>7. (NeverRunsUnreset /\ NeverCondemnsHonest)'
    BY <1>25 DEF SrvRun, Inboxes, Responses
  <2>. QED
    BY <2>1, <2>2, <2>3, <2>4, <2>5, <2>6, <2>7
<1>26. CASE SrvIgnore
  <2>1. PendingIsOwed'
    BY <1>26 DEF SrvIgnore, Inboxes, Responses
  <2>2. MessageCarries'
    BY <1>26 DEF SrvIgnore, Inboxes, Responses
  <2>3. MessageOnWire'
    BY <1>26 DEF SrvIgnore, Inboxes, Responses
  <2>4. ResetOwed'
    BY <1>26 DEF SrvIgnore, Inboxes, Responses
  <2>5. HeldIsCarrier'
    BY <1>26 DEF SrvIgnore, Inboxes, Responses
  <2>6. AnswerAcknowledges'
    BY <1>26 DEF SrvIgnore, Inboxes, Responses
  <2>7. (NeverRunsUnreset /\ NeverCondemnsHonest)'
    BY <1>26 DEF SrvIgnore, Inboxes, Responses
  <2>. QED
    BY <2>1, <2>2, <2>3, <2>4, <2>5, <2>6, <2>7
<1>27. CASE SrvAttention
  <2>1. PendingIsOwed'
    BY <1>27 DEF SrvAttention, Responses, Inboxes
  <2>2. MessageCarries'
    BY <1>27 DEF SrvAttention, Responses, Inboxes
  <2>3. MessageOnWire'
    BY <1>27 DEF SrvAttention, Responses, Inboxes
  <2>4. ResetOwed'
    BY <1>27 DEF SrvAttention, Responses, Inboxes
  <2>5. HeldIsCarrier'
    BY <1>27 DEF SrvAttention, Responses, Inboxes
  <2>6. AnswerAcknowledges'
    <3>1. CASE resp' = [resp EXCEPT !.fin = @ \cup {"Attn"}]
      BY <1>27, <3>1 DEF SrvAttention, Responses
    <3>2. CASE \E kept \in SUBSET resp.body :
                 resp' = [resp EXCEPT !.body = kept, !.fin = {"Attn"}]
      <4>1. resp'.ack = resp.ack /\ resp'.body \subseteq resp.body /\ "Done" \notin resp'.fin
        BY <3>2 DEF Responses
      <4>. QED
        BY <1>27, <4>1 DEF SrvAttention
    <3>3. CASE resp' = [resp EXCEPT !.ack = FALSE, !.body = {}, !.fin = {"Attn"}]
      BY <1>27, <3>3 DEF SrvAttention, Responses
    <3>. QED
      BY <1>27, <3>1, <3>2, <3>3 DEF SrvAttention
  <2>7. (NeverRunsUnreset /\ NeverCondemnsHonest)'
    BY <1>27 DEF SrvAttention, Responses, Inboxes
  <2>. QED
    BY <2>1, <2>2, <2>3, <2>4, <2>5, <2>6, <2>7
<1>28. CASE NetLoss
  BY <1>28 DEF NetLoss, TransportGone
<1>29. CASE UNCHANGED vars
  BY <1>29
<1>. QED
  BY <1>1, <1>2, <1>3, <1>4, <1>5, <1>6, <1>7, <1>8, <1>9, <1>10, <1>11, <1>12, <1>13, <1>14, <1>15,
     <1>16, <1>17, <1>18, <1>19, <1>20, <1>21, <1>22, <1>23, <1>24, <1>25, <1>26, <1>27, <1>28,
     <1>29
     DEF Next, Request, Write, Read, Interrupt, Settle, Server

\* prepare_reset_connection's contract: with a server that honours the bit, no
\* request ever runs on a session that was not reset since the last arm, and no
\* connection is condemned for a missing acknowledgement.
THEOREM ResetCorrect ==
    ASSUME ServerHonors = {TRUE}
    PROVE  Spec => [](NeverRunsUnreset /\ NeverCondemnsHonest)
<1>1. Init => ResetInv
  BY DEF Init, ResetInv, PendingIsOwed, MessageCarries, MessageOnWire, ResetOwed,
         HeldIsCarrier, AnswerAcknowledges, NeverRunsUnreset, NeverCondemnsHonest,
         Armed, Abandoned, NoInbox, NoResp, Modes
<1>2. TypeOK /\ ResetInv /\ [Next]_vars => ResetInv'
  BY ResetStep
<1>3. ResetInv => NeverRunsUnreset /\ NeverCondemnsHonest
  BY DEF ResetInv
<1>. QED
  BY <1>1, <1>2, <1>3, TypeCorrect, PTL DEF Spec

\* observe_response_token never condemns a connection whose server honours the
\* bit, whatever was withdrawn, cancelled or lost before the acknowledgement.
THEOREM NeverCondemnsCorrect ==
    ASSUME ServerHonors = {TRUE}
    PROVE  Spec => []NeverCondemnsHonest
BY ResetCorrect, PTL

=============================================================================
