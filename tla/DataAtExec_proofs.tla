------------------------- MODULE DataAtExec_proofs -------------------------
(***************************************************************************)
(* Data at execution is correct for any number of threads, parameters,     *)
(* chunks, calls and cancels: the connection's lease is in one place, the  *)
(* client is never left with half a request, the plan and the values come  *)
(* through, and a SQLCancel leaves no sequence behind.                     *)
(***************************************************************************)
EXTENDS DataAtExec, FiniteSetTheorems, TLAPS

Values == [chunks : Nat, null : BOOLEAN]
Wires == {"Idle", "Reserved", "Lease", "Other"}
DaeStates ==
    [lease : BOOLEAN, in_flight : BOOLEAN, plan : 0..MaxPlans, params : ParamLists, cursor : Nat,
     progress : [put : BOOLEAN, chunks : Nat, null : BOOLEAN], deferred : BOOLEAN,
     buffered : SUBSET (Nat \X Values)]
Calls ==
    [fn : Fns \cup {"None", "Settle"}, at : Stops \cup {"None"}, plan : 0..MaxPlans,
     lease : BOOLEAN, params : ParamLists \cup {<<>>}]
Clients ==
    [is : {"Quiet", "Writing", "Response", "Dead"}, todo : SUBSET Nat, sent : BOOLEAN,
     value : Values, vals : SUBSET (Nat \X Values)]
AckRecords == [expected : 0..NoLength, value : Values]

\* The types, with those of the records' fields.
Types ==
    /\ runner \in Threads \cup {NoThread} /\ inspector \in Threads \cup {NoThread}
    /\ marked \in BOOLEAN /\ cancels \subseteq Threads /\ hits \subseteq Threads
    /\ look \in {"None", "Look", "Unwind", "Done"} /\ call \in Calls
    /\ exec_started \in BOOLEAN /\ cursor_open \in BOOLEAN
    /\ dae \in DaeStates \cup {NoDae}
    /\ wire \in Wires /\ client \in Clients
    /\ plans \in 0..MaxPlans /\ prepared \in 0..MaxPlans /\ newest \in 0..MaxPlans

\* A call runs, or a SQLCancel looks at the statement, or neither.
MonitorInv ==
    /\ runner = NoThread <=> call.at = "None"
    /\ call.at = "None" => call = NoCall
    /\ inspector # NoThread => runner = NoThread /\ inspector \in cancels
    /\ look = "None" <=> inspector = NoThread
    /\ hits \subseteq cancels

\* Where the running call has the lease in its hands, and where it took it out
\* of the sequence to do so.
Holding == {"Claimed", "Sending", "Opening", "Chunk", "EndParam", "Publish", "Fail", "Unwind"}
InFlight == {"Opening", "Chunk", "EndParam"}
DaeStops == {"Open", "Send"} \cup InFlight

\* The lease is with the call, the sequence or the SQLCancel, by where they are.
LeaseInv ==
    /\ call.lease <=> call.at \in Holding
    /\ wire = "Lease" <=> (call.lease \/ (NeedsData /\ dae.lease) \/ look = "Unwind")
    /\ wire = "Reserved" => cursor_open \/ call.at = "PublishState"
    /\ NeedsData => /\ call.at \in {"None", "Begin", "End"} \cup DaeStops
                    /\ dae.in_flight <=> ~dae.lease
                    /\ dae.in_flight <=> call.at \in InFlight

\* The sequence is open where its calls need it, and only there.
SequenceInv ==
    /\ call.at \in DaeStops => NeedsData /\ (dae.deferred <=> call.at \notin {"Chunk", "EndParam"})
    /\ look \in {"Unwind", "Done"} => ~NeedsData
    /\ call.fn = "Close" => ~NeedsData
    /\ hits # {} => IF runner = NoThread THEN ~NeedsData ELSE marked

\* PlanKept, spelled out place by place: the newest plan is with the statement,
\* the call or the sequence, and none of them has another.
PlanPlaces ==
    /\ \/ newest = NoPlan \/ newest = prepared \/ newest = call.plan
       \/ NeedsData /\ newest = dae.plan
    /\ call.at # "ClaimFailed" \/ call.plan = NoPlan =>
          /\ prepared = newest \/ prepared = NoPlan
          /\ call.plan = newest \/ call.plan = NoPlan
          /\ NeedsData => dae.plan = newest \/ dae.plan = NoPlan

\* Nobody gets at the plan while an execution carries it.
StartedInv ==
    /\ call.at \in {"Claim", "Claimed", "Sending"} \/ NeedsData
          => exec_started /\ prepared = NoPlan
    /\ call.at \in {"Claim", "ClaimFailed", "Claimed"} =>
          /\ call.fn \in {"Execute", "ExecDirect"}
          /\ call.fn = "Execute" <=> call.plan # NoPlan
    /\ call.at \in {"Send", "Sending"} => call.fn = "ParamData"
    /\ call.plan # NoPlan =>
          call.at \in {"Claim", "ClaimFailed", "Claimed", "Opening", "EndParam", "Sending"}
    /\ call.at \in {"Opening", "EndParam"} => dae.plan = NoPlan
    /\ PlanPlaces

\* What the client has open, by who has it.
ClientInv ==
    /\ wire \in {"Idle", "Other"} \/ call.at \in {"Claimed", "Sending", "Fail"} => Usable(client)
    /\ call.at = "Publish" => client.is = "Response"
    /\ call.at = "Unwind" \/ look = "Unwind" => client.is # "Response"
    /\ NeedsData => IF dae.deferred THEN Usable(client) ELSE client.is = "Writing"

\* The parameter the client has open, and what it has of it: the chunk that is
\* being written is counted by the sequence, not yet by the client.
Here(d) == IF d.cursor = 0 THEN 1 ELSE d.cursor
Written(d) ==
    [chunks |-> IF call.at = "Chunk" THEN d.progress.chunks - 1 ELSE d.progress.chunks,
     null |-> d.progress.null]

CursorInv ==
    NeedsData =>
        /\ Len(dae.params) > 0
        /\ IF call.at = "Send" THEN dae.cursor = Len(dae.params) + 1
                               ELSE dae.cursor <= Len(dae.params)
        /\ call.at \in DaeStops => dae.cursor > 0
        /\ dae.cursor = 0 \/ call.at \in {"Open", "Opening", "Send"} => ~dae.progress.put
        /\ ~dae.progress.put => dae.progress = NotPut
        /\ call.at = "Chunk" => dae.progress.chunks > 0 /\ ~dae.progress.null

StreamInv ==
    NeedsData /\ ~dae.deferred =>
        /\ client.todo = Here(dae)..Len(dae.params)
        /\ client.value = Written(dae)

\* The values as the application knows them: those of a list, the first k - 1
\* closed, v so far of the k-th, and nothing yet of the others.
AckedFor(a, ps) ==
    /\ a \in [1..Len(ps) -> AckRecords]
    /\ \A i \in 1..Len(ps) : a[i].expected = ps[i].expected
Announced(a) == a.expected \in {NoLength, a.value.chunks} \/ a.value.null
AllFresh(a, ps) == \A i \in 1..Len(ps) : a[i].value = Fresh
AckedUpTo(a, ps, k, v) ==
    /\ AckedFor(a, ps)
    /\ \A i \in 1..Len(ps) : /\ i > k => a[i].value = Fresh
                             /\ i = k => a[i].value = v
                             /\ i < k => Announced(a[i])
Acking(a, k, v) == [a EXCEPT ![k].value = v]
Supplied(a, n) == {<<i, a[i].value>> : i \in 1..n}

AckedInv ==
    /\ call.at \in {"Claim", "Claimed"} =>
          AckedFor(acked, call.params) /\ AllFresh(acked, call.params) /\ delivered = Nothing
    /\ NeedsData => /\ AckedUpTo(acked, dae.params, dae.cursor, Written(dae))
                    /\ delivered = Nothing
                    /\ call.at = "EndParam" => Announced(acked[dae.cursor])

\* What was supplied is in the request's prefix or on its way to it.
ValuesInv ==
    /\ NeedsData =>
          (IF dae.deferred THEN dae.buffered ELSE client.vals) = Supplied(acked, dae.cursor - 1)
    /\ call.at = "Sending" =>
          /\ client.vals = {<<i, acked[i].value>> : i \in DOMAIN acked}
          /\ \A i \in DOMAIN acked : Announced(acked[i])
    /\ ValuesArrive

\* A sequence in progress is told from none.
LEMMA DaeDiffers ==
    \A d \in DaeStates : d # NoDae
<1>. SUFFICES ASSUME NEW d \in DaeStates, d = NoDae PROVE FALSE
  OBVIOUS
<1>1. "cursor" \in DOMAIN d
  BY DEF DaeStates
<1>2. DOMAIN NoDae = {"lease"}
  BY DEF NoDae
<1>. QED
  BY <1>1, <1>2

\* The constants are of their types.
LEMMA Constants ==
    /\ NoCall \in Calls /\ Quiet \in Clients /\ Fresh \in Values
    /\ Is("Dead") \in Clients /\ Is("Response") \in Clients /\ Is("Writing") \in Clients
    /\ Is("Dead").is = "Dead" /\ Is("Response").is = "Response" /\ Is("Writing").is = "Writing"
    /\ Is("Writing").value = Fresh /\ Is("Writing").vals = {}
    /\ Quiet.is = "Quiet" /\ NoLength \in Nat /\ 0 \in 0..MaxPlans
<1>. USE BoundsAssumption
<1>1. Fresh \in Values
  BY DEF Fresh, Values
<1>2. 0 \in 0..MaxPlans /\ NoLength \in Nat
  BY DEF NoLength
<1>3. NoCall \in Calls
  BY <1>2 DEF NoCall, Calls, NoPlan
<1>4. Quiet \in Clients /\ Quiet.is = "Quiet" /\ Quiet.value = Fresh /\ Quiet.vals = {}
  BY <1>1 DEF Quiet, Clients
<1>5. ASSUME NEW x \in {"Dead", "Response", "Writing"}
      PROVE  Is(x) \in Clients /\ Is(x).is = x /\ Is(x).value = Fresh /\ Is(x).vals = {}
  BY <1>4 DEF Is, Clients
<1>. QED
  BY <1>1, <1>2, <1>3, <1>4, <1>5

\* A new sequence, and what its operations make of it.
LEMMA NewDaeType ==
    ASSUME NEW ps \in ParamLists, NEW plan \in 0..MaxPlans, NEW deferred \in BOOLEAN
    PROVE  NewDae(ps, plan, deferred) \in DaeStates
  BY DEF NewDae, DaeStates, NotPut

\* Moving the cursor and the lease keeps the type of a sequence, ...
LEMMA DaeTypes ==
    ASSUME NEW d \in DaeStates
    PROVE  /\ Advanced(d) \in DaeStates /\ CheckedOut(d) \in DaeStates
           /\ Returned(d) \in DaeStates /\ Progress(d) \in Values
<1>1. NotPut \in [put : BOOLEAN, chunks : Nat, null : BOOLEAN]
  BY DEF NotPut
<1>2. Advanced(d) \in DaeStates
  <2>1. d.cursor + 1 \in Nat
    BY DEF DaeStates
  <2>. QED
    BY <1>1, <2>1 DEF DaeStates, Advanced
<1>3. CheckedOut(d) \in DaeStates /\ Returned(d) \in DaeStates
  BY DEF DaeStates, CheckedOut, Returned
<1>4. Progress(d) \in Values
  BY DEF DaeStates, Progress, Values
<1>. QED
  BY <1>2, <1>3, <1>4

\* ... and so does collecting a value, ...
LEMMA CollectedType ==
    ASSUME NEW d \in DaeStates
    PROVE  Collected(d) \in DaeStates
<1>1. <<d.cursor, Progress(d)>> \in Nat \X Values
  BY DaeTypes DEF DaeStates
<1>2. d.buffered \cup {<<d.cursor, Progress(d)>>} \in SUBSET (Nat \X Values)
  BY <1>1 DEF DaeStates
<1>. QED
  BY <1>2 DEF Collected, DaeStates

\* ... a chunk, ...
LEMMA WithChunksType ==
    ASSUME NEW d \in DaeStates, NEW n \in Nat
    PROVE  WithChunks(d, n) \in DaeStates
<1>1. d.progress.chunks + n \in Nat
  BY DEF DaeStates
<1>. QED
  BY <1>1 DEF WithChunks, DaeStates

\* ... and putting the plan back.
LEMMA WithPlanType ==
    ASSUME NEW d \in DaeStates, NEW p \in 0..MaxPlans
    PROVE  /\ [d EXCEPT !.plan = p] \in DaeStates
           /\ [d EXCEPT !.plan = p, !.deferred = FALSE, !.buffered = {}] \in DaeStates
  BY DEF DaeStates

\* The parameter that closes is the first the client has open.
LEMMA MinInterval ==
    ASSUME NEW a \in Nat, NEW b \in Nat, a <= b
    PROVE  Min(a..b) = a
<1>1. \A x \in a..b : (\A y \in a..b : x =< y) <=> x = a
  OBVIOUS
<1>2. a \in a..b /\ \A y \in a..b : a =< y
  OBVIOUS
<1>3. Min(a..b) \in a..b /\ \A y \in a..b : Min(a..b) =< y
  BY <1>2 DEF Min
<1>. QED
  BY <1>1, <1>3

\* While a chunk or a parameter is on its way, the client's first parameter is
\* the sequence's.
LEMMA OpenParam ==
    ASSUME Types, SequenceInv, CursorInv, StreamInv, call.at \in {"Chunk", "EndParam"}
    PROVE  /\ NeedsData /\ dae \in DaeStates /\ dae.cursor \in 1..Len(dae.params)
           /\ Len(dae.params) \in Nat
           /\ client.todo = dae.cursor..Len(dae.params) /\ Min(client.todo) = dae.cursor
<1>1. NeedsData /\ dae \in DaeStates /\ ~dae.deferred
  BY DEF Types, SequenceInv, NeedsData, DaeStops, InFlight
<1>2. Len(dae.params) \in Nat /\ dae.cursor \in Nat
  BY <1>1, ParamsAssumption DEF DaeStates
<1>3. dae.cursor \in 1..Len(dae.params)
  BY <1>1, <1>2 DEF CursorInv, DaeStops, InFlight
<1>4. client.todo = dae.cursor..Len(dae.params)
  BY <1>1, <1>3 DEF StreamInv, Here
<1>. QED
  BY <1>1, <1>2, <1>3, <1>4, MinInterval

\* A cancelled or failed request leaves a client.
LEMMA CancelledType ==
    ASSUME NEW c \in Clients
    PROVE  Cancelled(c) \subseteq Clients /\ Failed \subseteq Clients
  BY Constants DEF Cancelled, Failed

\* Every step keeps the types.
LEMMA TypesStep ==
    ASSUME Types, SequenceInv, CursorInv, StreamInv, [Next]_vars
    PROVE  Types'
<1>. USE BoundsAssumption, ParamsAssumption, Constants DEF Types, At, Goto, keepStmt, keepWire,
     keepHist, monVars, stmtVars, bounds, NeedsData, NoPlan
<1>1. ASSUME NEW t \in Threads, NEW fn \in Fns, Start(t, fn) PROVE Types'
  BY <1>1 DEF Start, M!Start, Calls, Stops, NoCall
<1>2. CASE StageRefused
  BY <1>2 DEF StageRefused, Calls, Stops
<1>3. CASE Stage
  BY <1>3 DEF Stage, Executable, Calls, Stops
<1>4. CASE Claim
  BY <1>4 DEF Claim, Calls, Stops, Wires
<1>5. CASE ClaimRefused
  BY <1>5 DEF ClaimRefused, Calls, Stops
<1>6. CASE ClaimFailed
  BY <1>6 DEF ClaimFailed, Calls, Stops
<1>7. CASE BeginFails
  BY <1>7 DEF BeginFails, RestorePlan, Calls, Stops
<1>8. CASE ParkDeferred
  <2>1. call.params \in ParamLists
    <3>1. Len(<<>>) = 0
      OBVIOUS
    <3>2. call.params # <<>>
      BY <1>8, <3>1 DEF ParkDeferred, AnyBuffered
    <3>. QED
      BY <3>2 DEF Calls
  <2>2. dae' \in DaeStates
    BY <1>8, <2>1, NewDaeType DEF ParkDeferred, Calls
  <2>. QED
    BY <1>8, <2>2 DEF ParkDeferred, Calls, Stops
<1>9. CASE ParkStreaming
  <2>1. call.params \in ParamLists
    BY <1>9 DEF ParkStreaming, Calls
  <2>2. dae' \in DaeStates
    BY <1>9, <2>1, NewDaeType DEF ParkStreaming, Calls
  <2>3. 1..Len(call.params) \in SUBSET Nat
    OBVIOUS
  <2>4. client' \in Clients
    BY <1>9, <2>3 DEF ParkStreaming, Clients
  <2>. QED
    BY <1>9, <2>2, <2>4 DEF ParkStreaming, Calls, Stops
<1>10. CASE Send
  BY <1>10 DEF Send, RestorePlan, Calls, Stops
<1>11. CASE PublishRows
  BY <1>11 DEF PublishRows, Calls, Stops, Wires
<1>12. CASE PublishDone
  BY <1>12 DEF PublishDone, Calls, Stops, Wires
<1>13. CASE PublishFails
  BY <1>13, CancelledType DEF PublishFails, Calls, Stops
<1>14. CASE PublishState
  BY <1>14 DEF PublishState, Calls, Stops
<1>15. CASE Fail
  BY <1>15 DEF Fail, Calls, Stops, Wires
<1>16. CASE Unwind
  <2>1. (runner \in Threads \cup {NoThread} /\ inspector \in Threads \cup {NoThread})'
    BY <1>16, CancelledType DEF Unwind, Calls, Stops, Wires
  <2>2. (marked \in BOOLEAN /\ cancels \subseteq Threads /\ hits \subseteq Threads)'
    BY <1>16, CancelledType DEF Unwind, Calls, Stops, Wires
  <2>3. (look \in {"None", "Look", "Unwind", "Done"})'
    BY <1>16, CancelledType DEF Unwind, Calls, Stops, Wires
  <2>4. (call \in Calls)'
    BY <1>16, CancelledType DEF Unwind, Calls, Stops, Wires
  <2>5. (exec_started \in BOOLEAN /\ cursor_open \in BOOLEAN)'
    BY <1>16, CancelledType DEF Unwind, Calls, Stops, Wires
  <2>6. (dae \in DaeStates \cup {NoDae})'
    BY <1>16, CancelledType DEF Unwind, Calls, Stops, Wires
  <2>7. (wire \in Wires)'
    BY <1>16, CancelledType DEF Unwind, Calls, Stops, Wires
  <2>8. (client \in Clients)'
    BY <1>16, CancelledType DEF Unwind, Calls, Stops, Wires
  <2>9. (plans \in 0..MaxPlans /\ prepared \in 0..MaxPlans /\ newest \in 0..MaxPlans)'
    BY <1>16, CancelledType DEF Unwind, Calls, Stops, Wires
  <2>. QED
    BY <2>1, <2>2, <2>3, <2>4, <2>5, <2>6, <2>7, <2>8, <2>9 DEF Types
<1>17. CASE Close
  BY <1>17, CancelledType DEF Close, CloseCursor, Calls, Stops, Wires
<1>18. CASE Finish
  BY <1>18 DEF Finish, M!Finish
<1>19. CASE Settle
  <2>1. (runner \in Threads \cup {NoThread} /\ inspector \in Threads \cup {NoThread})'
    BY <1>19, CancelledType
       DEF Settle, SettlesDae, TakeDae, TakenPlan, CloseCursor, Calls, Stops, Wires, DaeStates
  <2>2. (marked \in BOOLEAN /\ cancels \subseteq Threads /\ hits \subseteq Threads)'
    <3>1. UNCHANGED <<marked, cancels, hits>>
      BY <1>19 DEF Settle
    <3>. QED
      BY <3>1
  <2>3. (look \in {"None", "Look", "Unwind", "Done"})'
    BY <1>19, CancelledType
       DEF Settle, SettlesDae, TakeDae, TakenPlan, CloseCursor, Calls, Stops, Wires, DaeStates
  <2>4. (call \in Calls)'
    <3>1. \/ call' = [call EXCEPT !.fn = "Settle", !.at = "Unwind", !.lease = TRUE]
          \/ call' = [call EXCEPT !.at = "Drop"]
      BY <1>19 DEF Settle
    <3>. QED
      BY <3>1 DEF Calls, Stops
  <2>5. (exec_started \in BOOLEAN /\ cursor_open \in BOOLEAN)'
    BY <1>19, CancelledType
       DEF Settle, SettlesDae, TakeDae, TakenPlan, CloseCursor, Calls, Stops, Wires, DaeStates
  <2>6. (dae \in DaeStates \cup {NoDae})'
    BY <1>19, CancelledType
       DEF Settle, SettlesDae, TakeDae, TakenPlan, CloseCursor, Calls, Stops, Wires, DaeStates
  <2>7. (wire \in Wires)'
    BY <1>19, CancelledType
       DEF Settle, SettlesDae, TakeDae, TakenPlan, CloseCursor, Calls, Stops, Wires, DaeStates
  <2>8. (client \in Clients)'
    BY <1>19, CancelledType
       DEF Settle, SettlesDae, TakeDae, TakenPlan, CloseCursor, Calls, Stops, Wires, DaeStates
  <2>9. (plans \in 0..MaxPlans /\ prepared \in 0..MaxPlans /\ newest \in 0..MaxPlans)'
    BY <1>19, CancelledType
       DEF Settle, SettlesDae, TakeDae, TakenPlan, CloseCursor, Calls, Stops, Wires, DaeStates
  <2>. QED
    BY <2>1, <2>2, <2>3, <2>4, <2>5, <2>6, <2>7, <2>8, <2>9 DEF Types
<1>20. CASE OutOfSequence
  BY <1>20 DEF OutOfSequence, Calls, Stops
<1>21. CASE FirstToken
  BY <1>21, DaeTypes, WithChunksType DEF FirstToken, InParamData, Calls, Stops
<1>22. CASE CloseAborts
  BY <1>22 DEF CloseAborts, Closing, InParamData, Abort, TakeDae, TakenPlan, Calls, Stops, DaeStates
<1>23. CASE CloseBuffered
  BY <1>23, DaeTypes, CollectedType DEF CloseBuffered, Closing, InParamData, Calls, Stops
<1>24. CASE RebuildFails
  BY <1>24
     DEF RebuildFails, TakeDae, TakenPlan, Calls, Stops, Wires, DaeStates, SequenceInv, DaeStops,
         InFlight
<1>25. CASE OpenRpc
  <2>1. dae \in DaeStates
    BY <1>25 DEF OpenRpc, SequenceInv, DaeStops
  <2>2. CheckedOut(dae) \in DaeStates /\ dae.plan \in 0..MaxPlans
    BY <2>1, DaeTypes DEF DaeStates
  <2>3. dae' \in DaeStates
    BY <1>25, <2>2, WithPlanType DEF OpenRpc
  <2>4. call' \in Calls
    BY <1>25, <2>2 DEF OpenRpc, Calls, Stops
  <2>. QED
    BY <1>25, <2>3, <2>4 DEF OpenRpc
<1>26. CASE Opened
  <2>1. dae \in DaeStates /\ call.plan \in 0..MaxPlans
    BY <1>26 DEF Opened, SequenceInv, DaeStops, InFlight, Calls
  <2>2. dae' \in DaeStates
    BY <1>26, <2>1, DaeTypes, WithPlanType DEF Opened
  <2>3. ToStream(dae) \in SUBSET Nat /\ dae.buffered \in SUBSET (Nat \X Values)
    BY <2>1 DEF ToStream, DaeStates
  <2>4. client' \in Clients
    BY <1>26, <2>3 DEF Opened, Clients
  <2>5. call' \in Calls
    BY <1>26 DEF Opened, Calls, Stops
  <2>. QED
    BY <1>26, <2>2, <2>4, <2>5 DEF Opened
<1>27. CASE StreamFails
  BY <1>27, CancelledType
     DEF StreamFails, TakenPlan, Calls, Stops, DaeStates, SequenceInv, DaeStops, InFlight
<1>28. CASE SendDeferred
  <2>1. dae \in DaeStates
    BY <1>28 DEF SendDeferred, SequenceInv, DaeStops
  <2>2. dae.buffered \in SUBSET (Nat \X Values) /\ dae.plan \in 0..MaxPlans
    BY <2>1 DEF DaeStates
  <2>3. client' \in Clients
    BY <1>28, <2>2 DEF SendDeferred, Clients
  <2>4. call' \in Calls
    BY <1>28, <2>2 DEF SendDeferred, Calls, Stops
  <2>. QED
    BY <1>28, <2>3, <2>4 DEF SendDeferred
<1>29. CASE Sent
  BY <1>29 DEF Sent, RestorePlan, Calls, Stops
<1>30. CASE SendFails
  BY <1>30, CancelledType DEF SendFails, RestorePlan, Calls, Stops
<1>31. CASE CloseStreamed
  <2>1. dae \in DaeStates
    BY <1>31 DEF CloseStreamed, Closing
  <2>2. CheckedOut(dae) \in DaeStates /\ dae.plan \in 0..MaxPlans
    BY <2>1, DaeTypes DEF DaeStates
  <2>3. dae' \in DaeStates
    BY <1>31, <2>2, WithPlanType DEF CloseStreamed
  <2>4. call' \in Calls
    BY <1>31, <2>2 DEF CloseStreamed, Calls, Stops
  <2>. QED
    BY <1>31, <2>3, <2>4 DEF CloseStreamed, Closing, InParamData
<1>32. CASE EndParamNext
  <2>1. /\ dae \in DaeStates /\ dae.cursor \in 1..Len(dae.params) /\ Min(client.todo) = dae.cursor
        /\ Len(dae.params) \in Nat /\ call.plan \in 0..MaxPlans
    BY <1>32, OpenParam DEF EndParamNext, Calls
  <2>2. Advanced(Returned(dae)) \in DaeStates
    BY <2>1, DaeTypes
  <2>3. dae' \in DaeStates
    BY <1>32, <2>1, <2>2, WithPlanType DEF EndParamNext
  <2>4. <<Min(client.todo), client.value>> \in Nat \X Values
    BY <2>1 DEF Clients
  <2>5. WithValue(client) \in SUBSET (Nat \X Values)
        /\ client.todo \ {Min(client.todo)} \in SUBSET Nat
    BY <2>4 DEF WithValue, Clients
  <2>6. client' \in Clients
    BY <1>32, <2>5 DEF EndParamNext, Clients
  <2>7. call' \in Calls
    BY <1>32 DEF EndParamNext, Calls, Stops
  <2>. QED
    BY <1>32, <2>3, <2>6, <2>7 DEF EndParamNext
<1>33. CASE EndParamLast
  BY <1>33 DEF EndParamLast, Calls, Stops
<1>34. CASE PutRefused
  BY <1>34 DEF PutRefused, Putting, Calls, Stops
<1>35. CASE PutAborts
  BY <1>35 DEF PutAborts, Putting, Abort, TakeDae, TakenPlan, Calls, Stops, DaeStates
<1>36. CASE PutNull
  <2>1. dae \in DaeStates
    BY <1>36 DEF PutNull, Putting
  <2>2. dae' \in DaeStates
    BY <1>36, <2>1 DEF PutNull, DaeStates
  <2>3. client' \in Clients
    BY <1>36 DEF PutNull, Clients, Values
  <2>4. call' \in Calls
    BY <1>36 DEF PutNull, Putting, Calls, Stops
  <2>. QED
    BY <1>36, <2>2, <2>3, <2>4 DEF PutNull, Putting
<1>37. ASSUME NEW n \in 0..1, PutHere(n) PROVE Types'
  <2>1. dae \in DaeStates /\ n \in Nat
    BY <1>37 DEF PutHere, Putting
  <2>2. dae' \in DaeStates
    BY <1>37, <2>1, WithChunksType DEF PutHere
  <2>. QED
    BY <1>37, <2>2 DEF PutHere, Putting, Calls, Stops
<1>38. CASE PutStreamed
  BY <1>38, DaeTypes, WithChunksType DEF PutStreamed, Putting, Calls, Stops
<1>39. CASE ChunkWritten
  <2>1. dae \in DaeStates
    BY <1>39, OpenParam DEF ChunkWritten
  <2>2. dae' \in DaeStates
    BY <1>39, <2>1, DaeTypes DEF ChunkWritten
  <2>3. client.value.chunks + 1 \in Nat
    BY DEF Clients, Values
  <2>4. client' \in Clients
    <3>1. PICK sent \in {client.sent, TRUE} :
             client' = [client EXCEPT !.value.chunks = client.value.chunks + 1, !.sent = sent]
      BY <1>39 DEF ChunkWritten
    <3>2. sent \in BOOLEAN
      BY <3>1 DEF Clients
    <3>. QED
      BY <2>3, <3>1, <3>2 DEF Clients, Values
  <2>. QED
    BY <1>39, <2>2, <2>4 DEF ChunkWritten, Calls, Stops
<1>40. ASSUME NEW t \in Threads, Cancel(t) PROVE Types'
  BY <1>40 DEF Cancel, M!Cancel
<1>41. ASSUME NEW t \in Threads, Inspect(t) PROVE Types'
  BY <1>41 DEF Inspect, M!Inspect
<1>42. CASE Look
  BY <1>42, CancelledType
     DEF Look, LookUnwind, TakeDae, TakenPlan, CloseCursor, lookRest, Wires, DaeStates
<1>43. CASE CancelUnwind
  BY <1>43, CancelledType DEF CancelUnwind, lookRest, Wires
<1>44. ASSUME NEW t \in Threads, CancelReturn(t) PROVE Types'
  BY <1>44 DEF CancelReturn, M!Return
<1>45. CASE Prepare
  BY <1>45 DEF Prepare
<1>46. CASE FreeHandle
  BY <1>46, CancelledType DEF FreeHandle, Wires
<1>47. CASE OtherTakes
  BY <1>47 DEF OtherTakes, Wires
<1>48. CASE OtherReturns
  BY <1>48, CancelledType DEF OtherReturns, Wires
<1>49. CASE UNCHANGED vars
  BY <1>49 DEF vars
<1>. QED
  BY <1>1, <1>2, <1>3, <1>4, <1>5, <1>6, <1>7, <1>8, <1>9, <1>10, <1>11, <1>12, <1>13, <1>14,
     <1>15, <1>16, <1>17, <1>18, <1>19, <1>20, <1>21, <1>22, <1>23, <1>24, <1>25, <1>26, <1>27,
     <1>28, <1>29, <1>30, <1>31, <1>32, <1>33, <1>34, <1>35, <1>36, <1>37, <1>38, <1>39, <1>40,
     <1>41, <1>42, <1>43, <1>44, <1>45, <1>46, <1>47, <1>48, <1>49
     DEF Next, ExecuteStep, EndStep, ParamDataStep, PutDataStep

\* What the steps that keep a sequence open make of it: a new one ...
LEMMA ParkStep ==
    ASSUME Types, ParkDeferred \/ ParkStreaming
    PROVE  /\ NeedsData' /\ dae' \in DaeStates /\ call.params \in ParamLists /\ Len(call.params) > 0
           /\ dae'.lease = TRUE /\ dae'.in_flight = FALSE /\ dae'.plan = call.plan
           /\ dae'.params = call.params /\ dae'.cursor = 0 /\ dae'.progress = NotPut
           /\ dae'.deferred = AnyBuffered(call.params) /\ dae'.buffered = {}
<1>1. AnyBuffered(call.params) \in BOOLEAN
  BY DEF AnyBuffered
<1>2. dae' = NewDae(call.params, call.plan, AnyBuffered(call.params))
  <2>1. CASE ParkDeferred
    <3>1. AnyBuffered(call.params) = TRUE
      BY <2>1 DEF ParkDeferred, AnyBuffered
    <3>. QED
      BY <2>1, <3>1 DEF ParkDeferred
  <2>2. CASE ParkStreaming
    <3>1. AnyBuffered(call.params) = FALSE
      BY <2>2 DEF ParkStreaming, AnyBuffered
    <3>. QED
      BY <2>2, <3>1 DEF ParkStreaming
  <2>. QED
    BY <2>1, <2>2
<1>3. call.params \in ParamLists \cup {<<>>} /\ call.plan \in 0..MaxPlans
  BY DEF Types, Calls
<1>4. call.params # <<>>
  <2>1. Len(<<>>) = 0
    OBVIOUS
  <2>2. CASE ParkDeferred
    BY <2>1, <2>2 DEF ParkDeferred, AnyBuffered
  <2>3. CASE ParkStreaming
    BY <2>3 DEF ParkStreaming
  <2>. QED
    BY <2>2, <2>3
<1>5. call.params \in ParamLists
  BY <1>3, <1>4
<1>6. Len(call.params) > 0
  BY <1>4, <1>5, ParamsAssumption
<1>7. dae' \in DaeStates
  BY <1>1, <1>2, <1>3, <1>5, NewDaeType
<1>. QED
  BY <1>2, <1>5, <1>6, <1>7, DaeDiffers DEF NeedsData, NewDae

\* ... the token after it, without ...
LEMMA FirstTokenStep ==
    ASSUME Types, SequenceInv, CursorInv, StreamInv, FirstToken
    PROVE  /\ NeedsData' /\ dae' \in DaeStates
           /\ dae'.lease = dae.lease /\ dae'.in_flight = dae.in_flight /\ dae'.plan = dae.plan
           /\ dae'.params = dae.params /\ dae'.cursor = 1 /\ dae'.progress = NotPut
           /\ dae'.deferred = dae.deferred /\ dae'.buffered = dae.buffered
<1>1. dae \in DaeStates /\ dae' = Advanced(dae) /\ dae.cursor = 0
  BY DEF FirstToken, Types, NeedsData
<1>. QED
  <2>1. dae' \in DaeStates /\ dae' # NoDae
    BY <1>1, DaeTypes, DaeDiffers
  <2>2. dae' = [dae EXCEPT !.cursor = 1, !.progress = NotPut]
    BY <1>1 DEF Advanced
  <2>. QED
    BY <1>1, <2>1, <2>2 DEF NeedsData, DaeStates

\* ... and with a value collected, ...
LEMMA CloseBufferedStep ==
    ASSUME Types, SequenceInv, CursorInv, StreamInv, CloseBuffered
    PROVE  /\ NeedsData /\ dae \in DaeStates
           /\ NeedsData' /\ dae' \in DaeStates
           /\ dae'.lease = dae.lease /\ dae'.in_flight = dae.in_flight /\ dae'.plan = dae.plan
           /\ dae'.params = dae.params /\ dae'.cursor = dae.cursor + 1 /\ dae'.progress = NotPut
           /\ dae'.deferred = dae.deferred
              /\ dae'.buffered = dae.buffered \cup {<<dae.cursor, Progress(dae)>>}
<1>1. dae \in DaeStates /\ dae' = Advanced(Collected(dae)) /\ NeedsData
  BY DEF CloseBuffered, Closing, Types, NeedsData
<1>2. Collected(dae) \in DaeStates
  BY <1>1, CollectedType
<1>3. dae' \in DaeStates
  BY <1>1, <1>2, DaeTypes
<1>. QED
  BY <1>1, <1>2, <1>3, DaeDiffers DEF NeedsData, Advanced, Collected, DaeStates

\* ... the lease checked out ...
LEMMA CheckOutStep ==
    ASSUME Types, SequenceInv, CursorInv, StreamInv, OpenRpc \/ CloseStreamed
    PROVE  /\ NeedsData /\ dae \in DaeStates
           /\ NeedsData' /\ dae' \in DaeStates
           /\ dae'.lease = FALSE /\ dae'.in_flight = TRUE /\ dae'.plan = NoPlan
           /\ dae'.params = dae.params /\ dae'.cursor = dae.cursor /\ dae'.progress = dae.progress
           /\ dae'.deferred = dae.deferred /\ dae'.buffered = dae.buffered
<1>1. dae \in DaeStates /\ NeedsData /\ dae' = [CheckedOut(dae) EXCEPT !.plan = NoPlan]
  BY DEF OpenRpc, CloseStreamed, Closing, Types, SequenceInv, DaeStops, InFlight, NeedsData, At
<1>2. CheckedOut(dae) \in DaeStates
  BY <1>1, DaeTypes
<1>3. dae' \in DaeStates
  BY <1>1, <1>2, WithPlanType, Constants DEF NoPlan
<1>. QED
  BY <1>1, <1>2, <1>3, DaeDiffers DEF NeedsData, CheckedOut, DaeStates

\* ... and back with the request open, ...
LEMMA OpenedStep ==
    ASSUME Types, SequenceInv, CursorInv, StreamInv, Opened
    PROVE  /\ NeedsData /\ dae \in DaeStates
           /\ NeedsData' /\ dae' \in DaeStates
           /\ dae'.lease = TRUE /\ dae'.in_flight = FALSE /\ dae'.plan = call.plan
           /\ dae'.params = dae.params /\ dae'.cursor = dae.cursor /\ dae'.progress = dae.progress
           /\ dae'.deferred = FALSE /\ dae'.buffered = {}
<1>1. /\ dae \in DaeStates /\ NeedsData /\ call.plan \in 0..MaxPlans
      /\ dae' = [Returned(dae) EXCEPT !.plan = call.plan, !.deferred = FALSE, !.buffered = {}]
  BY DEF Opened, Types, SequenceInv, DaeStops, InFlight, NeedsData, At, Calls
<1>2. Returned(dae) \in DaeStates
  BY <1>1, DaeTypes
<1>3. dae' \in DaeStates
  BY <1>1, <1>2, WithPlanType
<1>. QED
  BY <1>1, <1>2, <1>3, DaeDiffers DEF NeedsData, Returned, DaeStates

\* ... or a parameter closed, ...
LEMMA EndParamNextStep ==
    ASSUME Types, SequenceInv, CursorInv, StreamInv, EndParamNext
    PROVE  /\ NeedsData /\ dae \in DaeStates
           /\ NeedsData' /\ dae' \in DaeStates
           /\ dae'.lease = TRUE /\ dae'.in_flight = FALSE /\ dae'.plan = call.plan
           /\ dae'.params = dae.params /\ dae'.cursor = dae.cursor + 1 /\ dae'.progress = NotPut
           /\ dae'.deferred = dae.deferred /\ dae'.buffered = dae.buffered
<1>1. /\ dae \in DaeStates /\ NeedsData /\ call.plan \in 0..MaxPlans
      /\ dae' = [Advanced(Returned(dae)) EXCEPT !.plan = call.plan]
  BY DEF EndParamNext, Types, SequenceInv, DaeStops, InFlight, NeedsData, At, Calls
<1>2. Returned(dae) \in DaeStates /\ Advanced(Returned(dae)) \in DaeStates
  BY <1>1, DaeTypes
<1>3. dae' \in DaeStates
  BY <1>1, <1>2, WithPlanType
<1>. QED
  BY <1>1, <1>2, <1>3, DaeDiffers DEF NeedsData, Returned, Advanced, DaeStates

\* ... NULL ...
LEMMA PutNullStep ==
    ASSUME Types, SequenceInv, CursorInv, StreamInv, PutNull
    PROVE  /\ NeedsData /\ dae \in DaeStates
           /\ NeedsData' /\ dae' \in DaeStates
           /\ dae'.lease = dae.lease /\ dae'.in_flight = dae.in_flight /\ dae'.plan = dae.plan
           /\ dae'.params = dae.params /\ dae'.cursor = dae.cursor
              /\ dae'.progress = [put |-> TRUE, chunks |-> dae.progress.chunks, null |-> TRUE]
           /\ dae'.deferred = dae.deferred /\ dae'.buffered = dae.buffered
<1>1. /\ dae \in DaeStates /\ NeedsData
      /\ dae' = [dae EXCEPT !.progress.put = TRUE, !.progress.null = TRUE]
  BY DEF PutNull, Putting, Types, NeedsData
<1>2. dae' \in DaeStates
  BY <1>1 DEF DaeStates
<1>. QED
  BY <1>1, <1>2, DaeDiffers DEF NeedsData, DaeStates

\* ... or a chunk kept ...
LEMMA PutHereStep ==
    ASSUME Types, SequenceInv, CursorInv, StreamInv, NEW n \in 0..1, PutHere(n)
    PROVE  /\ NeedsData /\ dae \in DaeStates
           /\ NeedsData' /\ dae' \in DaeStates
           /\ dae'.lease = dae.lease /\ dae'.in_flight = dae.in_flight /\ dae'.plan = dae.plan
           /\ dae'.params = dae.params /\ dae'.cursor = dae.cursor
              /\ dae'.progress = [put |-> TRUE, chunks |-> dae.progress.chunks + n,
                 null |-> dae.progress.null]
           /\ dae'.deferred = dae.deferred /\ dae'.buffered = dae.buffered
<1>1. dae \in DaeStates /\ NeedsData /\ dae' = WithChunks(dae, n)
  BY DEF PutHere, Putting, Types, NeedsData
<1>2. dae' \in DaeStates
  BY <1>1, WithChunksType
<1>. QED
  BY <1>1, <1>2, DaeDiffers DEF NeedsData, DaeStates, WithChunks

\* ... on its way out ...
LEMMA PutStreamedStep ==
    ASSUME Types, SequenceInv, CursorInv, StreamInv, PutStreamed
    PROVE  /\ NeedsData /\ dae \in DaeStates
           /\ NeedsData' /\ dae' \in DaeStates
           /\ dae'.lease = FALSE /\ dae'.in_flight = TRUE /\ dae'.plan = dae.plan
           /\ dae'.params = dae.params /\ dae'.cursor = dae.cursor
              /\ dae'.progress = [put |-> TRUE, chunks |-> dae.progress.chunks + 1,
                 null |-> dae.progress.null]
           /\ dae'.deferred = dae.deferred /\ dae'.buffered = dae.buffered
<1>1. dae \in DaeStates /\ NeedsData /\ dae' = CheckedOut(WithChunks(dae, 1))
  BY DEF PutStreamed, Putting, Types, NeedsData
<1>2. WithChunks(dae, 1) \in DaeStates /\ dae' \in DaeStates
  BY <1>1, WithChunksType, DaeTypes
<1>. QED
  BY <1>1, <1>2, DaeDiffers DEF NeedsData, DaeStates, WithChunks, CheckedOut

\* ... and written.
LEMMA ChunkWrittenStep ==
    ASSUME Types, SequenceInv, CursorInv, StreamInv, ChunkWritten
    PROVE  /\ NeedsData /\ dae \in DaeStates
           /\ NeedsData' /\ dae' \in DaeStates
           /\ dae'.lease = TRUE /\ dae'.in_flight = FALSE /\ dae'.plan = dae.plan
           /\ dae'.params = dae.params /\ dae'.cursor = dae.cursor /\ dae'.progress = dae.progress
           /\ dae'.deferred = dae.deferred /\ dae'.buffered = dae.buffered
<1>1. dae \in DaeStates /\ NeedsData /\ dae' = Returned(dae)
  BY OpenParam DEF ChunkWritten, At
<1>2. dae' \in DaeStates
  BY <1>1, DaeTypes
<1>. QED
  BY <1>1, <1>2, DaeDiffers DEF NeedsData, DaeStates, Returned

\* Every step keeps the calls and the SQLCancel apart.
LEMMA MonitorStep ==
    ASSUME Types, SequenceInv, CursorInv, StreamInv, MonitorInv, [Next]_vars
    PROVE  MonitorInv'
<1>. USE ThreadAssumption DEF Types, At, Goto, keepStmt, keepWire, keepHist, monVars, stmtVars,
     bounds, Calls, NeedsData, NoPlan, MonitorInv
<1>1. ASSUME NEW t \in Threads, NEW fn \in Fns, Start(t, fn) PROVE MonitorInv'
  BY <1>1 DEF Start, M!Start, NoCall
<1>2. CASE StageRefused
  BY <1>2 DEF StageRefused
<1>3. CASE Stage
  BY <1>3 DEF Stage, Executable
<1>4. CASE Claim
  BY <1>4 DEF Claim
<1>5. CASE ClaimRefused
  BY <1>5 DEF ClaimRefused
<1>6. CASE ClaimFailed
  BY <1>6 DEF ClaimFailed
<1>7. CASE BeginFails
  BY <1>7 DEF BeginFails, RestorePlan
<1>8. CASE ParkDeferred
  BY <1>8, ParkStep DEF ParkDeferred
<1>9. CASE ParkStreaming
  BY <1>9, ParkStep DEF ParkStreaming
<1>10. CASE Send
  BY <1>10 DEF Send, RestorePlan
<1>11. CASE PublishRows
  BY <1>11 DEF PublishRows
<1>12. CASE PublishDone
  BY <1>12 DEF PublishDone
<1>13. CASE PublishFails
  BY <1>13 DEF PublishFails
<1>14. CASE PublishState
  BY <1>14 DEF PublishState
<1>15. CASE Fail
  BY <1>15 DEF Fail
<1>16. CASE Unwind
  BY <1>16 DEF Unwind
<1>17. CASE Close
  BY <1>17 DEF Close, CloseCursor
<1>18. CASE Finish
  BY <1>18 DEF Finish, M!Finish, NoCall
<1>19. CASE Settle
  BY <1>19 DEF Settle, SettlesDae, TakeDae, TakenPlan, CloseCursor
<1>20. CASE OutOfSequence
  BY <1>20 DEF OutOfSequence
<1>21. CASE FirstToken
  BY <1>21, FirstTokenStep DEF FirstToken, InParamData
<1>22. CASE CloseAborts
  BY <1>22 DEF CloseAborts, Closing, InParamData, Abort, TakeDae, TakenPlan
<1>23. CASE CloseBuffered
  BY <1>23, CloseBufferedStep DEF CloseBuffered, Closing, InParamData
<1>24. CASE RebuildFails
  BY <1>24 DEF RebuildFails, TakeDae, TakenPlan
<1>25. CASE OpenRpc
  BY <1>25, CheckOutStep DEF OpenRpc
<1>26. CASE Opened
  BY <1>26, OpenedStep DEF Opened
<1>27. CASE StreamFails
  BY <1>27 DEF StreamFails, TakenPlan
<1>28. CASE SendDeferred
  BY <1>28 DEF SendDeferred
<1>29. CASE Sent
  BY <1>29 DEF Sent, RestorePlan
<1>30. CASE SendFails
  BY <1>30 DEF SendFails, RestorePlan
<1>31. CASE CloseStreamed
  BY <1>31, CheckOutStep DEF CloseStreamed, Closing, InParamData
<1>32. CASE EndParamNext
  BY <1>32, EndParamNextStep DEF EndParamNext
<1>33. CASE EndParamLast
  BY <1>33 DEF EndParamLast
<1>34. CASE PutRefused
  BY <1>34 DEF PutRefused, Putting
<1>35. CASE PutAborts
  BY <1>35 DEF PutAborts, Putting, Abort, TakeDae, TakenPlan
<1>36. CASE PutNull
  BY <1>36, PutNullStep DEF PutNull, Putting
<1>37. ASSUME NEW n \in 0..1, PutHere(n) PROVE MonitorInv'
  BY <1>37, PutHereStep DEF PutHere, Putting
<1>38. CASE PutStreamed
  BY <1>38, PutStreamedStep DEF PutStreamed, Putting
<1>39. CASE ChunkWritten
  BY <1>39, ChunkWrittenStep DEF ChunkWritten
<1>40. ASSUME NEW t \in Threads, Cancel(t) PROVE MonitorInv'
  BY <1>40 DEF Cancel, M!Cancel
<1>41. ASSUME NEW t \in Threads, Inspect(t) PROVE MonitorInv'
  BY <1>41 DEF Inspect, M!Inspect
<1>42. CASE Look
  BY <1>42 DEF Look, LookUnwind, TakeDae, TakenPlan, CloseCursor, lookRest
<1>43. CASE CancelUnwind
  BY <1>43 DEF CancelUnwind, lookRest
<1>44. ASSUME NEW t \in Threads, CancelReturn(t) PROVE MonitorInv'
  BY <1>44 DEF CancelReturn, M!Return
<1>45. CASE Prepare
  BY <1>45 DEF Prepare
<1>46. CASE FreeHandle
  BY <1>46 DEF FreeHandle
<1>47. CASE OtherTakes
  BY <1>47 DEF OtherTakes
<1>48. CASE OtherReturns
  BY <1>48 DEF OtherReturns
<1>49. CASE UNCHANGED vars
  BY <1>49 DEF vars
<1>. QED
  BY <1>1, <1>2, <1>3, <1>4, <1>5, <1>6, <1>7, <1>8, <1>9, <1>10, <1>11, <1>12, <1>13, <1>14,
     <1>15, <1>16, <1>17, <1>18, <1>19, <1>20, <1>21, <1>22, <1>23, <1>24, <1>25, <1>26, <1>27,
     <1>28, <1>29, <1>30, <1>31, <1>32, <1>33, <1>34, <1>35, <1>36, <1>37, <1>38, <1>39, <1>40,
     <1>41, <1>42, <1>43, <1>44, <1>45, <1>46, <1>47, <1>48, <1>49
     DEF Next, ExecuteStep, EndStep, ParamDataStep, PutDataStep

\* Every step keeps the lease in one place.
LEMMA LeaseStep ==
    ASSUME Types, SequenceInv, CursorInv, StreamInv, MonitorInv, LeaseInv, [Next]_vars
    PROVE  LeaseInv'
<1>. USE ThreadAssumption DEF Types, At, Goto, keepStmt, keepWire, keepHist, monVars, stmtVars,
     bounds, Calls, NeedsData, NoPlan, MonitorInv, LeaseInv, SequenceInv, Holding, InFlight,
     DaeStops
<1>1. ASSUME NEW t \in Threads, NEW fn \in Fns, Start(t, fn) PROVE LeaseInv'
  BY <1>1 DEF Start, M!Start, NoCall
<1>2. CASE StageRefused
  BY <1>2 DEF StageRefused
<1>3. CASE Stage
  BY <1>3 DEF Stage, Executable
<1>4. CASE Claim
  BY <1>4 DEF Claim
<1>5. CASE ClaimRefused
  BY <1>5 DEF ClaimRefused
<1>6. CASE ClaimFailed
  BY <1>6 DEF ClaimFailed
<1>7. CASE BeginFails
  BY <1>7 DEF BeginFails, RestorePlan
<1>8. CASE ParkDeferred
  BY <1>8, ParkStep DEF ParkDeferred
<1>9. CASE ParkStreaming
  BY <1>9, ParkStep DEF ParkStreaming
<1>10. CASE Send
  BY <1>10 DEF Send, RestorePlan
<1>11. CASE PublishRows
  BY <1>11 DEF PublishRows
<1>12. CASE PublishDone
  BY <1>12 DEF PublishDone
<1>13. CASE PublishFails
  BY <1>13 DEF PublishFails
<1>14. CASE PublishState
  BY <1>14 DEF PublishState
<1>15. CASE Fail
  BY <1>15 DEF Fail
<1>16. CASE Unwind
  BY <1>16 DEF Unwind
<1>17. CASE Close
  BY <1>17 DEF Close, CloseCursor
<1>18. CASE Finish
  BY <1>18 DEF Finish, M!Finish, NoCall
<1>19. CASE Settle
  BY <1>19 DEF Settle, SettlesDae, TakeDae, TakenPlan, CloseCursor
<1>20. CASE OutOfSequence
  BY <1>20 DEF OutOfSequence
<1>21. CASE FirstToken
  BY <1>21, FirstTokenStep DEF FirstToken, InParamData
<1>22. CASE CloseAborts
  BY <1>22 DEF CloseAborts, Closing, InParamData, Abort, TakeDae, TakenPlan
<1>23. CASE CloseBuffered
  BY <1>23, CloseBufferedStep DEF CloseBuffered, Closing, InParamData
<1>24. CASE RebuildFails
  BY <1>24 DEF RebuildFails, TakeDae, TakenPlan
<1>25. CASE OpenRpc
  BY <1>25, CheckOutStep DEF OpenRpc
<1>26. CASE Opened
  BY <1>26, OpenedStep DEF Opened
<1>27. CASE StreamFails
  BY <1>27 DEF StreamFails, TakenPlan
<1>28. CASE SendDeferred
  BY <1>28 DEF SendDeferred
<1>29. CASE Sent
  BY <1>29 DEF Sent, RestorePlan
<1>30. CASE SendFails
  BY <1>30 DEF SendFails, RestorePlan
<1>31. CASE CloseStreamed
  BY <1>31, CheckOutStep DEF CloseStreamed, Closing, InParamData
<1>32. CASE EndParamNext
  BY <1>32, EndParamNextStep DEF EndParamNext
<1>33. CASE EndParamLast
  BY <1>33 DEF EndParamLast
<1>34. CASE PutRefused
  BY <1>34 DEF PutRefused, Putting
<1>35. CASE PutAborts
  BY <1>35 DEF PutAborts, Putting, Abort, TakeDae, TakenPlan
<1>36. CASE PutNull
  BY <1>36, PutNullStep DEF PutNull, Putting
<1>37. ASSUME NEW n \in 0..1, PutHere(n) PROVE LeaseInv'
  BY <1>37, PutHereStep DEF PutHere, Putting
<1>38. CASE PutStreamed
  BY <1>38, PutStreamedStep DEF PutStreamed, Putting
<1>39. CASE ChunkWritten
  BY <1>39, ChunkWrittenStep DEF ChunkWritten
<1>40. ASSUME NEW t \in Threads, Cancel(t) PROVE LeaseInv'
  BY <1>40 DEF Cancel, M!Cancel
<1>41. ASSUME NEW t \in Threads, Inspect(t) PROVE LeaseInv'
  BY <1>41 DEF Inspect, M!Inspect
<1>42. CASE Look
  BY <1>42 DEF Look, LookUnwind, TakeDae, TakenPlan, CloseCursor, lookRest
<1>43. CASE CancelUnwind
  BY <1>43 DEF CancelUnwind, lookRest
<1>44. ASSUME NEW t \in Threads, CancelReturn(t) PROVE LeaseInv'
  BY <1>44 DEF CancelReturn, M!Return
<1>45. CASE Prepare
  BY <1>45 DEF Prepare
<1>46. CASE FreeHandle
  BY <1>46 DEF FreeHandle
<1>47. CASE OtherTakes
  BY <1>47 DEF OtherTakes
<1>48. CASE OtherReturns
  BY <1>48 DEF OtherReturns
<1>49. CASE UNCHANGED vars
  BY <1>49 DEF vars
<1>. QED
  BY <1>1, <1>2, <1>3, <1>4, <1>5, <1>6, <1>7, <1>8, <1>9, <1>10, <1>11, <1>12, <1>13, <1>14,
     <1>15, <1>16, <1>17, <1>18, <1>19, <1>20, <1>21, <1>22, <1>23, <1>24, <1>25, <1>26, <1>27,
     <1>28, <1>29, <1>30, <1>31, <1>32, <1>33, <1>34, <1>35, <1>36, <1>37, <1>38, <1>39, <1>40,
     <1>41, <1>42, <1>43, <1>44, <1>45, <1>46, <1>47, <1>48, <1>49
     DEF Next, ExecuteStep, EndStep, ParamDataStep, PutDataStep

\* Every step keeps the sequence open where its calls need it, and nowhere else.
LEMMA SequenceStep ==
    ASSUME Types, SequenceInv, CursorInv, StreamInv, MonitorInv, LeaseInv, StartedInv, [Next]_vars
    PROVE  SequenceInv'
<1>. USE ThreadAssumption DEF Types, At, Goto, keepStmt, keepWire, keepHist, monVars, stmtVars,
     bounds, Calls, NeedsData, NoPlan, MonitorInv, LeaseInv, SequenceInv, Holding, InFlight,
     DaeStops
<1>1. ASSUME NEW t \in Threads, NEW fn \in Fns, Start(t, fn) PROVE SequenceInv'
  BY <1>1 DEF Start, M!Start, NoCall
<1>2. CASE StageRefused
  BY <1>2 DEF StageRefused
<1>3. CASE Stage
  BY <1>3 DEF Stage, Executable
<1>4. CASE Claim
  BY <1>4 DEF Claim
<1>5. CASE ClaimRefused
  BY <1>5 DEF ClaimRefused
<1>6. CASE ClaimFailed
  BY <1>6 DEF ClaimFailed
<1>7. CASE BeginFails
  BY <1>7 DEF BeginFails, RestorePlan
<1>8. CASE ParkDeferred
  <2>1. (call.at \in DaeStops => NeedsData)'
    BY <1>8, ParkStep DEF ParkDeferred, StartedInv
  <2>2. (call.at \in DaeStops => (dae.deferred <=> call.at \notin {"Chunk", "EndParam"}))'
    BY <1>8, ParkStep DEF ParkDeferred, StartedInv
  <2>3. (look \in {"Unwind", "Done"} => ~NeedsData)'
    BY <1>8, ParkStep DEF ParkDeferred, StartedInv
  <2>4. (call.fn = "Close" => ~NeedsData)'
    BY <1>8, ParkStep DEF ParkDeferred, StartedInv
  <2>5. (hits # {} => IF runner = NoThread THEN ~NeedsData ELSE marked)'
    BY <1>8, ParkStep DEF ParkDeferred, StartedInv
  <2>. QED
    BY <2>1, <2>2, <2>3, <2>4, <2>5 DEF SequenceInv
<1>9. CASE ParkStreaming
  <2>1. (call.at \in DaeStops => NeedsData)'
    BY <1>9, ParkStep DEF ParkStreaming, StartedInv
  <2>2. (call.at \in DaeStops => (dae.deferred <=> call.at \notin {"Chunk", "EndParam"}))'
    BY <1>9, ParkStep DEF ParkStreaming, StartedInv
  <2>3. (look \in {"Unwind", "Done"} => ~NeedsData)'
    BY <1>9, ParkStep DEF ParkStreaming, StartedInv
  <2>4. (call.fn = "Close" => ~NeedsData)'
    BY <1>9, ParkStep DEF ParkStreaming, StartedInv
  <2>5. (hits # {} => IF runner = NoThread THEN ~NeedsData ELSE marked)'
    BY <1>9, ParkStep DEF ParkStreaming, StartedInv
  <2>. QED
    BY <2>1, <2>2, <2>3, <2>4, <2>5 DEF SequenceInv
<1>10. CASE Send
  BY <1>10 DEF Send, RestorePlan
<1>11. CASE PublishRows
  BY <1>11 DEF PublishRows
<1>12. CASE PublishDone
  BY <1>12 DEF PublishDone
<1>13. CASE PublishFails
  BY <1>13 DEF PublishFails
<1>14. CASE PublishState
  BY <1>14 DEF PublishState
<1>15. CASE Fail
  BY <1>15 DEF Fail
<1>16. CASE Unwind
  BY <1>16 DEF Unwind
<1>17. CASE Close
  BY <1>17 DEF Close, CloseCursor
<1>18. CASE Finish
  BY <1>18 DEF Finish, M!Finish, NoCall
<1>19. CASE Settle
  BY <1>19 DEF Settle, SettlesDae, TakeDae, TakenPlan, CloseCursor
<1>20. CASE OutOfSequence
  BY <1>20 DEF OutOfSequence
<1>21. CASE FirstToken
  BY <1>21, FirstTokenStep DEF FirstToken, InParamData
<1>22. CASE CloseAborts
  BY <1>22 DEF CloseAborts, Closing, InParamData, Abort, TakeDae, TakenPlan
<1>23. CASE CloseBuffered
  BY <1>23, CloseBufferedStep DEF CloseBuffered, Closing, InParamData
<1>24. CASE RebuildFails
  BY <1>24 DEF RebuildFails, TakeDae, TakenPlan
<1>25. CASE OpenRpc
  BY <1>25, CheckOutStep DEF OpenRpc
<1>26. CASE Opened
  BY <1>26, OpenedStep DEF Opened
<1>27. CASE StreamFails
  BY <1>27 DEF StreamFails, TakenPlan
<1>28. CASE SendDeferred
  BY <1>28 DEF SendDeferred
<1>29. CASE Sent
  BY <1>29 DEF Sent, RestorePlan
<1>30. CASE SendFails
  BY <1>30 DEF SendFails, RestorePlan
<1>31. CASE CloseStreamed
  BY <1>31, CheckOutStep DEF CloseStreamed, Closing, InParamData
<1>32. CASE EndParamNext
  BY <1>32, EndParamNextStep DEF EndParamNext
<1>33. CASE EndParamLast
  BY <1>33 DEF EndParamLast
<1>34. CASE PutRefused
  BY <1>34 DEF PutRefused, Putting
<1>35. CASE PutAborts
  BY <1>35 DEF PutAborts, Putting, Abort, TakeDae, TakenPlan
<1>36. CASE PutNull
  BY <1>36, PutNullStep DEF PutNull, Putting
<1>37. ASSUME NEW n \in 0..1, PutHere(n) PROVE SequenceInv'
  BY <1>37, PutHereStep DEF PutHere, Putting
<1>38. CASE PutStreamed
  BY <1>38, PutStreamedStep DEF PutStreamed, Putting
<1>39. CASE ChunkWritten
  BY <1>39, ChunkWrittenStep DEF ChunkWritten
<1>40. ASSUME NEW t \in Threads, Cancel(t) PROVE SequenceInv'
  BY <1>40 DEF Cancel, M!Cancel
<1>41. ASSUME NEW t \in Threads, Inspect(t) PROVE SequenceInv'
  BY <1>41 DEF Inspect, M!Inspect
<1>42. CASE Look
  BY <1>42 DEF Look, LookUnwind, TakeDae, TakenPlan, CloseCursor, lookRest
<1>43. CASE CancelUnwind
  BY <1>43 DEF CancelUnwind, lookRest
<1>44. ASSUME NEW t \in Threads, CancelReturn(t) PROVE SequenceInv'
  BY <1>44 DEF CancelReturn, M!Return
<1>45. CASE Prepare
  BY <1>45 DEF Prepare
<1>46. CASE FreeHandle
  BY <1>46 DEF FreeHandle
<1>47. CASE OtherTakes
  BY <1>47 DEF OtherTakes
<1>48. CASE OtherReturns
  BY <1>48 DEF OtherReturns
<1>49. CASE UNCHANGED vars
  BY <1>49 DEF vars
<1>. QED
  BY <1>1, <1>2, <1>3, <1>4, <1>5, <1>6, <1>7, <1>8, <1>9, <1>10, <1>11, <1>12, <1>13, <1>14,
     <1>15, <1>16, <1>17, <1>18, <1>19, <1>20, <1>21, <1>22, <1>23, <1>24, <1>25, <1>26, <1>27,
     <1>28, <1>29, <1>30, <1>31, <1>32, <1>33, <1>34, <1>35, <1>36, <1>37, <1>38, <1>39, <1>40,
     <1>41, <1>42, <1>43, <1>44, <1>45, <1>46, <1>47, <1>48, <1>49
     DEF Next, ExecuteStep, EndStep, ParamDataStep, PutDataStep

\* Every step keeps the plan out of reach of SQLPrepare, and in one place.
LEMMA StartedStep ==
    ASSUME Types, SequenceInv, CursorInv, StreamInv, MonitorInv, LeaseInv, StartedInv, [Next]_vars
    PROVE  StartedInv'
<1>. USE ThreadAssumption DEF Types, At, Goto, keepStmt, keepWire, keepHist, monVars, stmtVars,
     bounds, Calls, NeedsData, NoPlan, MonitorInv, LeaseInv, SequenceInv, StartedInv, Holding,
     InFlight, DaeStops, PlanPlaces
<1>1. ASSUME NEW t \in Threads, NEW fn \in Fns, Start(t, fn) PROVE StartedInv'
  BY <1>1 DEF Start, M!Start, NoCall
<1>2. CASE StageRefused
  BY <1>2 DEF StageRefused
<1>3. CASE Stage
  BY <1>3 DEF Stage, Executable
<1>4. CASE Claim
  BY <1>4 DEF Claim
<1>5. CASE ClaimRefused
  BY <1>5 DEF ClaimRefused
<1>6. CASE ClaimFailed
  BY <1>6 DEF ClaimFailed
<1>7. CASE BeginFails
  BY <1>7 DEF BeginFails, RestorePlan
<1>8. CASE ParkDeferred
  BY <1>8, ParkStep DEF ParkDeferred
<1>9. CASE ParkStreaming
  BY <1>9, ParkStep DEF ParkStreaming
<1>10. CASE Send
  BY <1>10 DEF Send, RestorePlan
<1>11. CASE PublishRows
  BY <1>11 DEF PublishRows
<1>12. CASE PublishDone
  BY <1>12 DEF PublishDone
<1>13. CASE PublishFails
  BY <1>13 DEF PublishFails
<1>14. CASE PublishState
  BY <1>14 DEF PublishState
<1>15. CASE Fail
  BY <1>15 DEF Fail
<1>16. CASE Unwind
  BY <1>16 DEF Unwind
<1>17. CASE Close
  BY <1>17 DEF Close, CloseCursor
<1>18. CASE Finish
  BY <1>18 DEF Finish, M!Finish, NoCall
<1>19. CASE Settle
  <2>1. CASE NeedsData
    <3>1. /\ call.at = "End" /\ dae' = NoDae /\ prepared' = dae.plan /\ exec_started' = FALSE
          /\ call' = [call EXCEPT !.fn = "Settle", !.at = "Unwind", !.lease = TRUE]
          /\ UNCHANGED <<monVars, hits, look, bounds, cursor_open, wire, client, newest, acked,
             delivered>>
      BY <1>19, <2>1 DEF Settle, SettlesDae, TakeDae, TakenPlan
    <3>2. call'.fn = "Settle" /\ call'.at = "Unwind" /\ call'.lease = TRUE /\ call'.plan = call.plan
      BY <3>1
    <3>. QED
      BY <2>1, <3>1, <3>2
  <2>2. CASE ~NeedsData /\ cursor_open /\ wire = "Reserved"
    BY <1>19, <2>2 DEF Settle, SettlesDae, CloseCursor
  <2>3. CASE ~NeedsData /\ ~(cursor_open /\ wire = "Reserved")
    BY <1>19, <2>3 DEF Settle, SettlesDae
  <2>. QED
    BY <2>1, <2>2, <2>3
<1>20. CASE OutOfSequence
  BY <1>20 DEF OutOfSequence
<1>21. CASE FirstToken
  BY <1>21, FirstTokenStep DEF FirstToken, InParamData
<1>22. CASE CloseAborts
  BY <1>22 DEF CloseAborts, Closing, InParamData, Abort, TakeDae, TakenPlan
<1>23. CASE CloseBuffered
  BY <1>23, CloseBufferedStep DEF CloseBuffered, Closing, InParamData
<1>24. CASE RebuildFails
  BY <1>24 DEF RebuildFails, TakeDae, TakenPlan
<1>25. CASE OpenRpc
  BY <1>25, CheckOutStep DEF OpenRpc
<1>26. CASE Opened
  BY <1>26, OpenedStep DEF Opened
<1>27. CASE StreamFails
  BY <1>27 DEF StreamFails, TakenPlan
<1>28. CASE SendDeferred
  BY <1>28 DEF SendDeferred
<1>29. CASE Sent
  BY <1>29 DEF Sent, RestorePlan
<1>30. CASE SendFails
  BY <1>30 DEF SendFails, RestorePlan
<1>31. CASE CloseStreamed
  BY <1>31, CheckOutStep DEF CloseStreamed, Closing, InParamData
<1>32. CASE EndParamNext
  BY <1>32, EndParamNextStep DEF EndParamNext
<1>33. CASE EndParamLast
  BY <1>33 DEF EndParamLast
<1>34. CASE PutRefused
  BY <1>34 DEF PutRefused, Putting
<1>35. CASE PutAborts
  BY <1>35 DEF PutAborts, Putting, Abort, TakeDae, TakenPlan
<1>36. CASE PutNull
  BY <1>36, PutNullStep DEF PutNull, Putting
<1>37. ASSUME NEW n \in 0..1, PutHere(n) PROVE StartedInv'
  BY <1>37, PutHereStep DEF PutHere, Putting
<1>38. CASE PutStreamed
  BY <1>38, PutStreamedStep DEF PutStreamed, Putting
<1>39. CASE ChunkWritten
  BY <1>39, ChunkWrittenStep DEF ChunkWritten
<1>40. ASSUME NEW t \in Threads, Cancel(t) PROVE StartedInv'
  BY <1>40 DEF Cancel, M!Cancel
<1>41. ASSUME NEW t \in Threads, Inspect(t) PROVE StartedInv'
  BY <1>41 DEF Inspect, M!Inspect
<1>42. CASE Look
  BY <1>42 DEF Look, LookUnwind, TakeDae, TakenPlan, CloseCursor, lookRest
<1>43. CASE CancelUnwind
  BY <1>43 DEF CancelUnwind, lookRest
<1>44. ASSUME NEW t \in Threads, CancelReturn(t) PROVE StartedInv'
  BY <1>44 DEF CancelReturn, M!Return
<1>45. CASE Prepare
  BY <1>45 DEF Prepare
<1>46. CASE FreeHandle
  BY <1>46 DEF FreeHandle
<1>47. CASE OtherTakes
  BY <1>47 DEF OtherTakes
<1>48. CASE OtherReturns
  BY <1>48 DEF OtherReturns
<1>49. CASE UNCHANGED vars
  BY <1>49 DEF vars
<1>. QED
  BY <1>1, <1>2, <1>3, <1>4, <1>5, <1>6, <1>7, <1>8, <1>9, <1>10, <1>11, <1>12, <1>13, <1>14,
     <1>15, <1>16, <1>17, <1>18, <1>19, <1>20, <1>21, <1>22, <1>23, <1>24, <1>25, <1>26, <1>27,
     <1>28, <1>29, <1>30, <1>31, <1>32, <1>33, <1>34, <1>35, <1>36, <1>37, <1>38, <1>39, <1>40,
     <1>41, <1>42, <1>43, <1>44, <1>45, <1>46, <1>47, <1>48, <1>49
     DEF Next, ExecuteStep, EndStep, ParamDataStep, PutDataStep

\* Every step keeps the client in the state that its holder left it in.
LEMMA ClientStep ==
    ASSUME Types, SequenceInv, CursorInv, StreamInv, MonitorInv, LeaseInv, ClientInv, [Next]_vars
    PROVE  ClientInv'
<1>. USE Constants, ThreadAssumption DEF Types, At, Goto, keepStmt, keepWire, keepHist, monVars,
     stmtVars, bounds, Calls, NeedsData, NoPlan, MonitorInv, LeaseInv, SequenceInv, ClientInv,
     Holding, InFlight, DaeStops, Usable, Cancelled, Failed, Clients, Wires
<1>1. ASSUME NEW t \in Threads, NEW fn \in Fns, Start(t, fn) PROVE ClientInv'
  BY <1>1 DEF Start, M!Start, NoCall
<1>2. CASE StageRefused
  BY <1>2 DEF StageRefused
<1>3. CASE Stage
  BY <1>3 DEF Stage, Executable
<1>4. CASE Claim
  BY <1>4 DEF Claim
<1>5. CASE ClaimRefused
  BY <1>5 DEF ClaimRefused
<1>6. CASE ClaimFailed
  BY <1>6 DEF ClaimFailed
<1>7. CASE BeginFails
  BY <1>7 DEF BeginFails, RestorePlan
<1>8. CASE ParkDeferred
  BY <1>8, ParkStep DEF ParkDeferred
<1>9. CASE ParkStreaming
  BY <1>9, ParkStep DEF ParkStreaming
<1>10. CASE Send
  BY <1>10 DEF Send, RestorePlan
<1>11. CASE PublishRows
  BY <1>11 DEF PublishRows
<1>12. CASE PublishDone
  BY <1>12 DEF PublishDone
<1>13. CASE PublishFails
  BY <1>13 DEF PublishFails
<1>14. CASE PublishState
  BY <1>14 DEF PublishState
<1>15. CASE Fail
  BY <1>15 DEF Fail
<1>16. CASE Unwind
  BY <1>16 DEF Unwind
<1>17. CASE Close
  BY <1>17 DEF Close, CloseCursor
<1>18. CASE Finish
  BY <1>18 DEF Finish, M!Finish, NoCall
<1>19. CASE Settle
  <2>1. CASE NeedsData
    <3>1. /\ call.at = "End" /\ dae' = NoDae /\ prepared' = dae.plan /\ exec_started' = FALSE
          /\ call' = [call EXCEPT !.fn = "Settle", !.at = "Unwind", !.lease = TRUE]
          /\ UNCHANGED <<monVars, hits, look, bounds, cursor_open, wire, client, newest, acked,
             delivered>>
      BY <1>19, <2>1 DEF Settle, SettlesDae, TakeDae, TakenPlan
    <3>2. call'.fn = "Settle" /\ call'.at = "Unwind" /\ call'.lease = TRUE /\ call'.plan = call.plan
      BY <3>1
    <3>. QED
      BY <2>1, <3>1, <3>2
  <2>2. CASE ~NeedsData /\ cursor_open /\ wire = "Reserved"
    BY <1>19, <2>2 DEF Settle, SettlesDae, CloseCursor
  <2>3. CASE ~NeedsData /\ ~(cursor_open /\ wire = "Reserved")
    BY <1>19, <2>3 DEF Settle, SettlesDae
  <2>. QED
    BY <2>1, <2>2, <2>3
<1>20. CASE OutOfSequence
  BY <1>20 DEF OutOfSequence
<1>21. CASE FirstToken
  BY <1>21, FirstTokenStep DEF FirstToken, InParamData
<1>22. CASE CloseAborts
  BY <1>22 DEF CloseAborts, Closing, InParamData, Abort, TakeDae, TakenPlan
<1>23. CASE CloseBuffered
  BY <1>23, CloseBufferedStep DEF CloseBuffered, Closing, InParamData
<1>24. CASE RebuildFails
  BY <1>24 DEF RebuildFails, TakeDae, TakenPlan
<1>25. CASE OpenRpc
  BY <1>25, CheckOutStep DEF OpenRpc
<1>26. CASE Opened
  BY <1>26, OpenedStep DEF Opened
<1>27. CASE StreamFails
  BY <1>27 DEF StreamFails, TakenPlan
<1>28. CASE SendDeferred
  BY <1>28 DEF SendDeferred
<1>29. CASE Sent
  BY <1>29 DEF Sent, RestorePlan
<1>30. CASE SendFails
  BY <1>30 DEF SendFails, RestorePlan
<1>31. CASE CloseStreamed
  BY <1>31, CheckOutStep DEF CloseStreamed, Closing, InParamData
<1>32. CASE EndParamNext
  BY <1>32, EndParamNextStep DEF EndParamNext
<1>33. CASE EndParamLast
  BY <1>33 DEF EndParamLast
<1>34. CASE PutRefused
  BY <1>34 DEF PutRefused, Putting
<1>35. CASE PutAborts
  BY <1>35 DEF PutAborts, Putting, Abort, TakeDae, TakenPlan
<1>36. CASE PutNull
  BY <1>36, PutNullStep DEF PutNull, Putting
<1>37. ASSUME NEW n \in 0..1, PutHere(n) PROVE ClientInv'
  BY <1>37, PutHereStep DEF PutHere, Putting
<1>38. CASE PutStreamed
  BY <1>38, PutStreamedStep DEF PutStreamed, Putting
<1>39. CASE ChunkWritten
  BY <1>39, ChunkWrittenStep DEF ChunkWritten
<1>40. ASSUME NEW t \in Threads, Cancel(t) PROVE ClientInv'
  BY <1>40 DEF Cancel, M!Cancel
<1>41. ASSUME NEW t \in Threads, Inspect(t) PROVE ClientInv'
  BY <1>41 DEF Inspect, M!Inspect
<1>42. CASE Look
  BY <1>42 DEF Look, LookUnwind, TakeDae, TakenPlan, CloseCursor, lookRest
<1>43. CASE CancelUnwind
  BY <1>43 DEF CancelUnwind, lookRest
<1>44. ASSUME NEW t \in Threads, CancelReturn(t) PROVE ClientInv'
  BY <1>44 DEF CancelReturn, M!Return
<1>45. CASE Prepare
  BY <1>45 DEF Prepare
<1>46. CASE FreeHandle
  BY <1>46 DEF FreeHandle
<1>47. CASE OtherTakes
  BY <1>47 DEF OtherTakes
<1>48. CASE OtherReturns
  BY <1>48 DEF OtherReturns
<1>49. CASE UNCHANGED vars
  BY <1>49 DEF vars
<1>. QED
  BY <1>1, <1>2, <1>3, <1>4, <1>5, <1>6, <1>7, <1>8, <1>9, <1>10, <1>11, <1>12, <1>13, <1>14,
     <1>15, <1>16, <1>17, <1>18, <1>19, <1>20, <1>21, <1>22, <1>23, <1>24, <1>25, <1>26, <1>27,
     <1>28, <1>29, <1>30, <1>31, <1>32, <1>33, <1>34, <1>35, <1>36, <1>37, <1>38, <1>39, <1>40,
     <1>41, <1>42, <1>43, <1>44, <1>45, <1>46, <1>47, <1>48, <1>49
     DEF Next, ExecuteStep, EndStep, ParamDataStep, PutDataStep

\* The fields of a sequence.
LEMMA DaeFields ==
    ASSUME NEW d \in DaeStates
    PROVE  /\ Len(d.params) \in Nat /\ d.cursor \in Nat /\ d.params \in Seq(ParamRecords)
           /\ d.deferred \in BOOLEAN /\ d.progress.put \in BOOLEAN
           /\ d.progress.chunks \in Nat /\ d.progress.null \in BOOLEAN
           /\ d.progress = [put |-> d.progress.put, chunks |-> d.progress.chunks,
                            null |-> d.progress.null]
  BY ParamsAssumption DEF DaeStates

\* Progress before the first SQLPutData.
LEMMA NotPutFields ==
    NotPut.put = FALSE /\ NotPut.chunks = 0 /\ NotPut.null = FALSE
  BY DEF NotPut

\* Values are equal by their chunks and NULL.
LEMMA ValueFields ==
    ASSUME NEW v \in Values, NEW w \in Values, v.chunks = w.chunks, v.null = w.null
    PROVE  v = w
  BY DEF Values

\* What puts the cursor in place.
LEMMA CursorKept ==
    ASSUME call'.at \in {"End", "Chunk"}, Len(dae'.params) > 0, dae'.cursor <= Len(dae'.params),
           dae'.cursor = 0 => ~dae'.progress.put, ~dae'.progress.put => dae'.progress = NotPut,
           call'.at = "Chunk" => /\ dae'.cursor > 0 /\ dae'.progress.chunks > 0
                                 /\ ~dae'.progress.null
    PROVE  CursorInv'
  BY DEF CursorInv, DaeStops, InFlight

\* A new sequence is before its first parameter.
LEMMA CursorPark ==
    ASSUME Types, ParkDeferred \/ ParkStreaming
    PROVE  CursorInv'
<1>1. call'.at = "End"
  BY DEF ParkDeferred, ParkStreaming, Types, Calls
<1>2. Len(dae'.params) \in Nat /\ Len(dae'.params) > 0 /\ dae'.cursor = 0 /\ dae'.progress = NotPut
  BY ParkStep, DaeFields
<1>. QED
  BY <1>1, <1>2, NotPutFields, CursorKept

\* The parameter that closes was not the last one.
LEMMA CursorNext ==
    ASSUME Types, SequenceInv, CursorInv, StreamInv, EndParamNext
    PROVE  CursorInv' /\ dae.cursor < Len(dae.params)
<1>1. /\ client.todo # {dae.cursor} /\ client.todo = dae.cursor..Len(dae.params)
      /\ dae.cursor \in 1..Len(dae.params) /\ Len(dae.params) \in Nat
  BY OpenParam DEF EndParamNext, At
<1>2. dae.cursor < Len(dae.params)
  BY <1>1
<1>3. call'.at = "End"
  BY DEF EndParamNext, Types, Calls
<1>4. /\ dae'.params = dae.params /\ dae'.cursor = dae.cursor + 1 /\ dae'.progress = NotPut
  BY EndParamNextStep
<1>. QED
  BY <1>1, <1>2, <1>3, <1>4, NotPutFields, CursorKept

\* Where SQLPutData finds the cursor.
LEMMA PuttingAt ==
    ASSUME Types, CursorInv, Putting
    PROVE  /\ NeedsData /\ dae \in DaeStates /\ dae.cursor \in 1..Len(dae.params)
           /\ Len(dae.params) \in Nat /\ dae.progress.chunks \in Nat
<1>1. NeedsData /\ dae \in DaeStates /\ call.at = "Begin" /\ dae.cursor > 0
  BY DEF Putting, At, Types, NeedsData
<1>2. Len(dae.params) \in Nat /\ dae.cursor \in Nat /\ dae.progress.chunks \in Nat
  BY <1>1, DaeFields
<1>. QED
  BY <1>1, <1>2 DEF CursorInv

\* SQLPutData leaves the cursor where it is.
LEMMA CursorPut ==
    ASSUME Types, SequenceInv, CursorInv, StreamInv, NEW n \in 0..1,
           PutNull \/ PutHere(n) \/ PutStreamed
    PROVE  CursorInv'
<1>0. /\ NeedsData /\ dae \in DaeStates /\ dae.cursor \in 1..Len(dae.params)
      /\ Len(dae.params) \in Nat /\ dae.progress.chunks \in Nat
  BY PuttingAt DEF PutNull, PutHere, PutStreamed
<1>1. CASE PutNull
  <2>1. call'.at = "End"
    BY <1>1 DEF PutNull, Types, Calls, Goto
  <2>2. dae'.params = dae.params /\ dae'.cursor = dae.cursor /\ dae'.progress.put = TRUE
    BY <1>1, PutNullStep
  <2>. QED
    BY <1>0, <2>1, <2>2, CursorKept
<1>2. CASE PutHere(n)
  <2>1. call'.at = "End"
    BY <1>2 DEF PutHere, Types, Calls, Goto
  <2>2. dae'.params = dae.params /\ dae'.cursor = dae.cursor /\ dae'.progress.put = TRUE
    BY <1>2, PutHereStep
  <2>. QED
    BY <1>0, <2>1, <2>2, CursorKept
<1>3. CASE PutStreamed
  <2>1. call'.at = "Chunk"
    BY <1>3 DEF PutStreamed, Types, Calls
  <2>2. /\ dae'.params = dae.params /\ dae'.cursor = dae.cursor /\ dae'.progress.put = TRUE
        /\ dae'.progress.chunks = dae.progress.chunks + 1 /\ dae'.progress.null = dae.progress.null
    BY <1>3, PutStreamedStep
  <2>3. ~dae.progress.null
    BY <1>3 DEF PutStreamed, Fits
  <2>. QED
    BY <1>0, <2>1, <2>2, <2>3, CursorKept
<1>. QED
  BY <1>1, <1>2, <1>3

\* Every step keeps the sequence's cursor on its list, and its progress in step.
LEMMA CursorStep ==
    ASSUME Types, SequenceInv, CursorInv, StreamInv, MonitorInv, LeaseInv, StartedInv, [Next]_vars
    PROVE  CursorInv'
<1>. USE DaeFields, NotPutFields, ThreadAssumption DEF Types, At, Goto, keepStmt, keepWire,
     keepHist, monVars, stmtVars, bounds, Calls, NeedsData, NoPlan, MonitorInv, LeaseInv,
     SequenceInv, CursorInv, InFlight, DaeStops
<1>1. ASSUME NEW t \in Threads, NEW fn \in Fns, Start(t, fn) PROVE CursorInv'
  BY <1>1 DEF Start, M!Start, NoCall
<1>2. CASE StageRefused
  BY <1>2 DEF StageRefused
<1>3. CASE Stage
  BY <1>3 DEF Stage, Executable
<1>4. CASE Claim
  BY <1>4 DEF Claim
<1>5. CASE ClaimRefused
  BY <1>5 DEF ClaimRefused
<1>6. CASE ClaimFailed
  BY <1>6 DEF ClaimFailed
<1>7. CASE BeginFails
  BY <1>7 DEF BeginFails, RestorePlan
<1>8. CASE ParkDeferred
  BY <1>8, CursorPark
<1>9. CASE ParkStreaming
  BY <1>9, CursorPark
<1>10. CASE Send
  BY <1>10 DEF Send, RestorePlan
<1>11. CASE PublishRows
  BY <1>11 DEF PublishRows
<1>12. CASE PublishDone
  BY <1>12 DEF PublishDone
<1>13. CASE PublishFails
  BY <1>13 DEF PublishFails
<1>14. CASE PublishState
  BY <1>14 DEF PublishState
<1>15. CASE Fail
  BY <1>15 DEF Fail
<1>16. CASE Unwind
  BY <1>16 DEF Unwind
<1>17. CASE Close
  BY <1>17 DEF Close, CloseCursor
<1>18. CASE Finish
  BY <1>18 DEF Finish, M!Finish, NoCall
<1>19. CASE Settle
  BY <1>19 DEF Settle, SettlesDae, TakeDae, TakenPlan, CloseCursor
<1>20. CASE OutOfSequence
  BY <1>20 DEF OutOfSequence
<1>21. CASE FirstToken
  BY <1>21, FirstTokenStep DEF FirstToken, InParamData
<1>22. CASE CloseAborts
  BY <1>22 DEF CloseAborts, Closing, InParamData, Abort, TakeDae, TakenPlan
<1>23. CASE CloseBuffered
  <2>1. /\ call.at = "Begin" /\ dae.cursor > 0 /\ dae.cursor <= Len(dae.params)
        /\ Len(dae.params) \in Nat /\ dae.cursor \in Nat
    BY <1>23, CloseBufferedStep DEF CloseBuffered, Closing, InParamData
  <2>2. /\ call' = [call EXCEPT !.at = call'.at] /\ call'.at \in {"Open", "Send", "End"}
        /\ IF call'.at = "Send" THEN ~HasCurrent(dae') ELSE HasCurrent(dae')
    BY <1>23 DEF CloseBuffered, BufferedPhaseComplete
  <2>3. HasCurrent(dae') <=> dae'.cursor <= Len(dae.params)
    BY <1>23, <2>1, CloseBufferedStep DEF HasCurrent
  <2>. QED
    BY <1>23, <2>1, <2>2, <2>3, CloseBufferedStep
<1>24. CASE RebuildFails
  BY <1>24 DEF RebuildFails, TakeDae, TakenPlan
<1>25. CASE OpenRpc
  BY <1>25, CheckOutStep DEF OpenRpc
<1>26. CASE Opened
  BY <1>26, OpenedStep DEF Opened
<1>27. CASE StreamFails
  BY <1>27 DEF StreamFails, TakenPlan
<1>28. CASE SendDeferred
  BY <1>28 DEF SendDeferred
<1>29. CASE Sent
  BY <1>29 DEF Sent, RestorePlan
<1>30. CASE SendFails
  BY <1>30 DEF SendFails, RestorePlan
<1>31. CASE CloseStreamed
  BY <1>31, CheckOutStep DEF CloseStreamed, Closing, InParamData
<1>32. CASE EndParamNext
  BY <1>32, CursorNext
<1>33. CASE EndParamLast
  BY <1>33 DEF EndParamLast
<1>34. CASE PutRefused
  BY <1>34 DEF PutRefused, Putting
<1>35. CASE PutAborts
  BY <1>35 DEF PutAborts, Putting, Abort, TakeDae, TakenPlan
<1>36. CASE PutNull
  BY <1>36, CursorPut
<1>37. ASSUME NEW n \in 0..1, PutHere(n) PROVE CursorInv'
  BY <1>37, CursorPut
<1>38. CASE PutStreamed
  BY <1>38, CursorPut
<1>39. CASE ChunkWritten
  BY <1>39, ChunkWrittenStep DEF ChunkWritten
<1>40. ASSUME NEW t \in Threads, Cancel(t) PROVE CursorInv'
  BY <1>40 DEF Cancel, M!Cancel
<1>41. ASSUME NEW t \in Threads, Inspect(t) PROVE CursorInv'
  BY <1>41 DEF Inspect, M!Inspect
<1>42. CASE Look
  BY <1>42 DEF Look, LookUnwind, TakeDae, TakenPlan, CloseCursor, lookRest
<1>43. CASE CancelUnwind
  BY <1>43 DEF CancelUnwind, lookRest
<1>44. ASSUME NEW t \in Threads, CancelReturn(t) PROVE CursorInv'
  BY <1>44 DEF CancelReturn, M!Return
<1>45. CASE Prepare
  BY <1>45 DEF Prepare
<1>46. CASE FreeHandle
  BY <1>46 DEF FreeHandle
<1>47. CASE OtherTakes
  BY <1>47 DEF OtherTakes
<1>48. CASE OtherReturns
  BY <1>48 DEF OtherReturns
<1>49. CASE UNCHANGED vars
  BY <1>49 DEF vars
<1>. QED
  BY <1>1, <1>2, <1>3, <1>4, <1>5, <1>6, <1>7, <1>8, <1>9, <1>10, <1>11, <1>12, <1>13, <1>14,
     <1>15, <1>16, <1>17, <1>18, <1>19, <1>20, <1>21, <1>22, <1>23, <1>24, <1>25, <1>26, <1>27,
     <1>28, <1>29, <1>30, <1>31, <1>32, <1>33, <1>34, <1>35, <1>36, <1>37, <1>38, <1>39, <1>40,
     <1>41, <1>42, <1>43, <1>44, <1>45, <1>46, <1>47, <1>48, <1>49
     DEF Next, ExecuteStep, EndStep, ParamDataStep, PutDataStep

\* What the client has open when a sequence streams.
LEMMA StreamKept ==
    ASSUME client'.todo = Here(dae')..Len(dae'.params),
           client'.value = [chunks |-> IF call'.at = "Chunk" THEN dae'.progress.chunks - 1
                                       ELSE dae'.progress.chunks,
                            null |-> dae'.progress.null]
    PROVE  StreamInv'
  BY DEF StreamInv, Written, Here

\* While a sequence is deferred the client has nothing open.
LEMMA StreamDeferred ==
    ASSUME dae'.deferred = TRUE
    PROVE  StreamInv'
  BY DEF StreamInv

\* A new sequence is deferred, or the client has its first parameter open.
LEMMA StreamPark ==
    ASSUME Types, ParkDeferred \/ ParkStreaming
    PROVE  StreamInv'
<1>1. CASE AnyBuffered(call.params)
  <2>1. AnyBuffered(call.params) = TRUE
    BY <1>1 DEF AnyBuffered
  <2>. QED
    BY <2>1, ParkStep, StreamDeferred
<1>2. CASE ~AnyBuffered(call.params)
  <2>1. ParkStreaming
    BY <1>2 DEF ParkDeferred
  <2>2. PICK sent \in BOOLEAN :
           client' = [Is("Writing") EXCEPT !.todo = 1..Len(call.params), !.sent = sent]
    BY <2>1 DEF ParkStreaming
  <2>3. client'.todo = 1..Len(call.params) /\ client'.value = [chunks |-> 0, null |-> FALSE]
    BY <2>2, Constants DEF Clients, Fresh
  <2>4. dae'.params = call.params /\ dae'.cursor = 0 /\ dae'.progress = NotPut
    BY ParkStep
  <2>5. call'.at = "End"
    BY <2>1 DEF ParkStreaming, Types, Calls
  <2>. QED
    BY <2>3, <2>4, <2>5, NotPutFields, StreamKept DEF Here
<1>. QED
  BY <1>1, <1>2

\* The first token is that of the parameter the client has open.
LEMMA StreamFirst ==
    ASSUME Types, SequenceInv, CursorInv, StreamInv, FirstToken
    PROVE  StreamInv'
<1>1. /\ NeedsData /\ dae \in DaeStates /\ call.at = "Begin" /\ call'.at = "End" /\ dae.cursor = 0
      /\ client' = client
  BY DEF FirstToken, InParamData, At, Types, NeedsData, Goto, Calls, keepWire
<1>2. /\ dae'.deferred = dae.deferred /\ dae'.params = dae.params /\ dae'.cursor = 1
      /\ dae'.progress = NotPut
  BY FirstTokenStep
<1>3. dae.progress = NotPut
  BY <1>1 DEF CursorInv
<1>4. CASE ~dae.deferred
  <2>1. client'.todo = Here(dae')..Len(dae'.params)
    BY <1>1, <1>2, <1>4 DEF StreamInv, Here
  <2>2. client'.value = [chunks |-> dae.progress.chunks, null |-> dae.progress.null]
    BY <1>1, <1>4 DEF StreamInv, Written
  <2>. QED
    BY <1>1, <1>2, <1>3, <2>1, <2>2, StreamKept
<1>. QED
  BY <1>2, <1>4 DEF StreamInv

\* The request that is opened streams what was not collected.
LEMMA ToStreamRest ==
    ASSUME NEW d \in DaeStates, NEW S, d.cursor \in 1..Len(d.params), Len(d.params) \in Nat,
           d.buffered = Supplied(S, d.cursor - 1)
    PROVE  ToStream(d) = d.cursor..Len(d.params)
<1>1. ASSUME NEW i \in 1..Len(d.params)
      PROVE  (\A b \in d.buffered : b[1] # i) <=> i >= d.cursor
  <2>1. ASSUME i < d.cursor PROVE \E b \in d.buffered : b[1] = i
    <3>1. <<i, S[i].value>> \in d.buffered /\ <<i, S[i].value>>[1] = i
      BY <2>1 DEF Supplied
    <3>. QED
      BY <3>1
  <2>2. ASSUME i >= d.cursor, NEW b \in d.buffered PROVE b[1] # i
    BY <2>2 DEF Supplied
  <2>. QED
    BY <2>1, <2>2
<1>. QED
  BY <1>1 DEF ToStream

\* Opening the request leaves the client on the parameter of the cursor.
LEMMA StreamOpened ==
    ASSUME Types, SequenceInv, CursorInv, StreamInv, ValuesInv, Opened
    PROVE  StreamInv'
<1>1. /\ NeedsData /\ dae \in DaeStates /\ call.at = "Opening" /\ call'.at = "End" /\ dae.deferred
  BY DEF Opened, At, Types, SequenceInv, DaeStops, InFlight, NeedsData, Calls
<1>2. Len(dae.params) \in Nat /\ dae.cursor \in Nat
  BY <1>1, DaeFields
<1>3. dae.cursor \in 1..Len(dae.params) /\ dae.progress = NotPut
  BY <1>1, <1>2 DEF CursorInv, DaeStops, InFlight
<1>4. dae.buffered = Supplied(acked, dae.cursor - 1)
  BY <1>1 DEF ValuesInv
<1>5. ToStream(dae) = dae.cursor..Len(dae.params)
  BY <1>1, <1>2, <1>3, <1>4, ToStreamRest
<1>6. PICK sent \in BOOLEAN :
         client' = [Is("Writing") EXCEPT !.todo = ToStream(dae), !.sent = sent,
         !.vals = dae.buffered]
  BY DEF Opened
<1>7. client'.todo = ToStream(dae) /\ client'.value = [chunks |-> 0, null |-> FALSE]
  BY <1>6, Constants DEF Clients, Fresh
<1>8. dae'.params = dae.params /\ dae'.cursor = dae.cursor /\ dae'.progress = NotPut
  BY <1>3, OpenedStep
<1>9. client'.todo = Here(dae')..Len(dae'.params)
  BY <1>3, <1>5, <1>7, <1>8 DEF Here
<1>. QED
  BY <1>1, <1>7, <1>8, <1>9, NotPutFields, StreamKept

\* Closing a parameter moves the client and the cursor on together.
LEMMA StreamNext ==
    ASSUME Types, SequenceInv, CursorInv, StreamInv, EndParamNext
    PROVE  StreamInv'
<1>1. /\ client.todo = dae.cursor..Len(dae.params) /\ Min(client.todo) = dae.cursor
      /\ dae.cursor \in 1..Len(dae.params) /\ Len(dae.params) \in Nat
  BY OpenParam DEF EndParamNext, At
<1>2. PICK sent \in {client.sent, TRUE} :
         client' = [client EXCEPT !.vals = WithValue(client), !.todo = @ \ {Min(@)},
                                  !.value = Fresh, !.sent = sent]
  BY DEF EndParamNext
<1>3. client'.todo = client.todo \ {dae.cursor} /\ client'.value = Fresh
  BY <1>1, <1>2 DEF Types, Clients
<1>4. client'.todo = (dae.cursor + 1)..Len(dae.params)
  BY <1>1, <1>3
<1>5. dae'.params = dae.params /\ dae'.cursor = dae.cursor + 1 /\ dae'.progress = NotPut
  BY EndParamNextStep
<1>6. call'.at = "End" /\ Here(dae') = dae.cursor + 1
  BY <1>1, <1>5 DEF EndParamNext, Types, Calls, Here
<1>. QED
  BY <1>3, <1>4, <1>5, <1>6, NotPutFields, StreamKept DEF Fresh

\* A value that becomes NULL.
LEMMA NullValue ==
    ASSUME NEW v \in Values
    PROVE  [v EXCEPT !.null = TRUE] = [chunks |-> v.chunks, null |-> TRUE]
<1>. DEFINE w == [v EXCEPT !.null = TRUE]
            u == [chunks |-> v.chunks, null |-> TRUE]
<1>1. w \in Values /\ w.chunks = v.chunks /\ w.null = TRUE
  BY DEF Values
<1>2. u \in Values /\ u.chunks = v.chunks /\ u.null = TRUE
  BY DEF Values
<1>. HIDE DEF w, u
<1>3. w = u
  BY <1>1, <1>2, ValueFields
<1>. QED
  BY <1>3 DEF w, u

\* SQLPutData reaches the client, or is on its way to it.
LEMMA StreamPut ==
    ASSUME Types, SequenceInv, CursorInv, StreamInv, NEW n \in 0..1,
           PutNull \/ PutHere(n) \/ PutStreamed
    PROVE  StreamInv'
<1>0. /\ NeedsData /\ dae \in DaeStates /\ dae.cursor \in 1..Len(dae.params)
      /\ Len(dae.params) \in Nat /\ dae.progress.chunks \in Nat /\ call.at = "Begin"
  BY PuttingAt DEF PutNull, PutHere, PutStreamed, Putting, At
<1>1. dae'.params = dae.params /\ dae'.cursor = dae.cursor /\ dae'.deferred = dae.deferred
  BY PutNullStep, PutHereStep, PutStreamedStep
<1>2. CASE dae.deferred
  BY <1>1, <1>2 DEF StreamInv
<1>3. CASE ~dae.deferred
  <2>1. /\ client.todo = Here(dae')..Len(dae'.params)
        /\ client.value = [chunks |-> dae.progress.chunks, null |-> dae.progress.null]
    BY <1>0, <1>1, <1>3 DEF StreamInv, Here, Written
  <2>2. CASE PutNull
    <3>1. /\ call'.at = "End" /\ client' = [client EXCEPT !.value.null = TRUE]
      BY <1>3, <2>2 DEF PutNull, Types, Calls, Goto
    <3>2. client'.todo = client.todo /\ client'.value = [client.value EXCEPT !.null = TRUE]
      BY <3>1 DEF Types, Clients
    <3>3. dae'.progress.chunks = dae.progress.chunks /\ dae'.progress.null = TRUE
      BY <2>2, PutNullStep
    <3>4. client'.value = [chunks |-> dae.progress.chunks, null |-> TRUE]
      <4>1. client.value \in Values /\ client.value.chunks = dae.progress.chunks
        BY <2>1 DEF Types, Clients
      <4>2. [client.value EXCEPT !.null = TRUE] = [chunks |-> client.value.chunks, null |-> TRUE]
        BY <4>1, NullValue
      <4>. QED
        BY <3>2, <4>1, <4>2
    <3>5. client'.value = [chunks |-> dae'.progress.chunks, null |-> dae'.progress.null]
      BY <3>3, <3>4
    <3>6. client'.todo = Here(dae')..Len(dae'.params)
      BY <2>1, <3>2
    <3>. QED
      BY <3>1, <3>5, <3>6, StreamKept
  <2>3. CASE PutHere(n)
    <3>1. call'.at = "End" /\ client' = client /\ n = 0
      BY <1>3, <2>3 DEF PutHere, Types, Calls, Goto, keepWire
    <3>2. dae'.progress.chunks = dae.progress.chunks /\ dae'.progress.null = dae.progress.null
      BY <1>0, <2>3, <3>1, PutHereStep
    <3>. QED
      BY <2>1, <3>1, <3>2, StreamKept
  <2>4. CASE PutStreamed
    <3>1. call'.at = "Chunk" /\ client' = client
      BY <2>4 DEF PutStreamed, Types, Calls, keepWire
    <3>2. dae'.progress.chunks = dae.progress.chunks + 1 /\ dae'.progress.null = dae.progress.null
      BY <2>4, PutStreamedStep
    <3>3. dae'.progress.chunks - 1 = dae.progress.chunks
      BY <1>0, <3>2
    <3>. QED
      BY <2>1, <3>1, <3>2, <3>3, StreamKept
  <2>. QED
    BY <2>2, <2>3, <2>4
<1>. QED
  BY <1>2, <1>3

\* A chunk that was written is counted on both sides.
LEMMA StreamChunk ==
    ASSUME Types, SequenceInv, CursorInv, StreamInv, ChunkWritten
    PROVE  StreamInv'
<1>1. /\ NeedsData /\ dae \in DaeStates /\ ~dae.deferred /\ call.at = "Chunk" /\ call'.at = "End"
  BY OpenParam DEF ChunkWritten, At, SequenceInv, DaeStops, InFlight, Types, Calls
<1>2. dae.progress.chunks \in Nat
  BY <1>1, DaeFields
<1>3. /\ client.todo = Here(dae)..Len(dae.params)
      /\ client.value = [chunks |-> dae.progress.chunks - 1, null |-> dae.progress.null]
  BY <1>1 DEF StreamInv, Written
<1>4. PICK sent \in {client.sent, TRUE} :
         client' = [client EXCEPT !.value.chunks = client.value.chunks + 1, !.sent = sent]
  BY DEF ChunkWritten
<1>5. client'.todo = client.todo
      /\ client'.value = [client.value EXCEPT !.chunks = client.value.chunks + 1]
  BY <1>4 DEF Types, Clients
<1>6. client'.value = [chunks |-> dae.progress.chunks, null |-> dae.progress.null]
  BY <1>2, <1>3, <1>5
<1>7. dae'.params = dae.params /\ dae'.cursor = dae.cursor /\ dae'.progress = dae.progress
  BY ChunkWrittenStep
<1>. QED
  BY <1>1, <1>3, <1>5, <1>6, <1>7, StreamKept DEF Here

\* Every step keeps the client on the sequence's parameter, with what was put of it.
LEMMA StreamStep ==
    ASSUME Types, SequenceInv, CursorInv, StreamInv, MonitorInv, LeaseInv, ValuesInv, [Next]_vars
    PROVE  StreamInv'
<1>. USE ThreadAssumption DEF Types, At, Goto, keepStmt, keepWire, keepHist, monVars, stmtVars,
     bounds, Calls, NeedsData, NoPlan, MonitorInv, LeaseInv, SequenceInv, StreamInv, Holding,
     InFlight, DaeStops, Written, Here
<1>1. ASSUME NEW t \in Threads, NEW fn \in Fns, Start(t, fn) PROVE StreamInv'
  BY <1>1 DEF Start, M!Start, NoCall
<1>2. CASE StageRefused
  BY <1>2 DEF StageRefused
<1>3. CASE Stage
  BY <1>3 DEF Stage, Executable
<1>4. CASE Claim
  BY <1>4 DEF Claim
<1>5. CASE ClaimRefused
  BY <1>5 DEF ClaimRefused
<1>6. CASE ClaimFailed
  BY <1>6 DEF ClaimFailed
<1>7. CASE BeginFails
  BY <1>7 DEF BeginFails, RestorePlan
<1>8. CASE ParkDeferred
  BY <1>8, StreamPark
<1>9. CASE ParkStreaming
  BY <1>9, StreamPark
<1>10. CASE Send
  BY <1>10 DEF Send, RestorePlan
<1>11. CASE PublishRows
  BY <1>11 DEF PublishRows
<1>12. CASE PublishDone
  BY <1>12 DEF PublishDone
<1>13. CASE PublishFails
  BY <1>13 DEF PublishFails
<1>14. CASE PublishState
  BY <1>14 DEF PublishState
<1>15. CASE Fail
  BY <1>15 DEF Fail
<1>16. CASE Unwind
  BY <1>16 DEF Unwind
<1>17. CASE Close
  BY <1>17 DEF Close, CloseCursor
<1>18. CASE Finish
  BY <1>18 DEF Finish, M!Finish, NoCall
<1>19. CASE Settle
  BY <1>19 DEF Settle, SettlesDae, TakeDae, TakenPlan, CloseCursor
<1>20. CASE OutOfSequence
  BY <1>20 DEF OutOfSequence
<1>21. CASE FirstToken
  BY <1>21, StreamFirst
<1>22. CASE CloseAborts
  BY <1>22 DEF CloseAborts, Closing, InParamData, Abort, TakeDae, TakenPlan
<1>23. CASE CloseBuffered
  BY <1>23, CloseBufferedStep DEF CloseBuffered, Closing, InParamData
<1>24. CASE RebuildFails
  BY <1>24 DEF RebuildFails, TakeDae, TakenPlan
<1>25. CASE OpenRpc
  BY <1>25, CheckOutStep DEF OpenRpc
<1>26. CASE Opened
  BY <1>26, StreamOpened
<1>27. CASE StreamFails
  BY <1>27 DEF StreamFails, TakenPlan
<1>28. CASE SendDeferred
  BY <1>28 DEF SendDeferred
<1>29. CASE Sent
  BY <1>29 DEF Sent, RestorePlan
<1>30. CASE SendFails
  BY <1>30 DEF SendFails, RestorePlan
<1>31. CASE CloseStreamed
  BY <1>31, CheckOutStep DEF CloseStreamed, Closing, InParamData
<1>32. CASE EndParamNext
  BY <1>32, StreamNext
<1>33. CASE EndParamLast
  BY <1>33 DEF EndParamLast
<1>34. CASE PutRefused
  BY <1>34 DEF PutRefused, Putting
<1>35. CASE PutAborts
  BY <1>35 DEF PutAborts, Putting, Abort, TakeDae, TakenPlan
<1>36. CASE PutNull
  BY <1>36, StreamPut
<1>37. ASSUME NEW n \in 0..1, PutHere(n) PROVE StreamInv'
  BY <1>37, StreamPut
<1>38. CASE PutStreamed
  BY <1>38, StreamPut
<1>39. CASE ChunkWritten
  BY <1>39, StreamChunk
<1>40. ASSUME NEW t \in Threads, Cancel(t) PROVE StreamInv'
  BY <1>40 DEF Cancel, M!Cancel
<1>41. ASSUME NEW t \in Threads, Inspect(t) PROVE StreamInv'
  BY <1>41 DEF Inspect, M!Inspect
<1>42. CASE Look
  BY <1>42 DEF Look, LookUnwind, TakeDae, TakenPlan, CloseCursor, lookRest
<1>43. CASE CancelUnwind
  BY <1>43 DEF CancelUnwind, lookRest
<1>44. ASSUME NEW t \in Threads, CancelReturn(t) PROVE StreamInv'
  BY <1>44 DEF CancelReturn, M!Return
<1>45. CASE Prepare
  BY <1>45 DEF Prepare
<1>46. CASE FreeHandle
  BY <1>46 DEF FreeHandle
<1>47. CASE OtherTakes
  BY <1>47 DEF OtherTakes
<1>48. CASE OtherReturns
  BY <1>48 DEF OtherReturns
<1>49. CASE UNCHANGED vars
  BY <1>49 DEF vars
<1>. QED
  BY <1>1, <1>2, <1>3, <1>4, <1>5, <1>6, <1>7, <1>8, <1>9, <1>10, <1>11, <1>12, <1>13, <1>14,
     <1>15, <1>16, <1>17, <1>18, <1>19, <1>20, <1>21, <1>22, <1>23, <1>24, <1>25, <1>26, <1>27,
     <1>28, <1>29, <1>30, <1>31, <1>32, <1>33, <1>34, <1>35, <1>36, <1>37, <1>38, <1>39, <1>40,
     <1>41, <1>42, <1>43, <1>44, <1>45, <1>46, <1>47, <1>48, <1>49
     DEF Next, ExecuteStep, EndStep, ParamDataStep, PutDataStep

\* What the application was told, as a list is worked through.
LEMMA UpToNew ==
    ASSUME NEW a, NEW ps \in ParamLists, NEW v, AckedFor(a, ps), AllFresh(a, ps)
    PROVE  AckedUpTo(a, ps, 0, v)
  BY DEF AckedUpTo, AllFresh

\* The first token: nothing of the first parameter was supplied.
LEMMA UpToFirst ==
    ASSUME NEW a, NEW ps, NEW v, AckedUpTo(a, ps, 0, v)
    PROVE  AckedUpTo(a, ps, 1, Fresh)
  BY DEF AckedUpTo

\* A parameter closes in its announced length.
LEMMA UpToNext ==
    ASSUME NEW a, NEW ps, NEW v, NEW k \in 1..Len(ps), AckedUpTo(a, ps, k, v), Announced(a[k]),
           Len(ps) \in Nat
    PROVE  AckedUpTo(a, ps, k + 1, Fresh)
<1>1. ASSUME NEW i \in 1..Len(ps)
      PROVE  /\ i > k + 1 => a[i].value = Fresh
             /\ i = k + 1 => a[i].value = Fresh
             /\ i < k + 1 => Announced(a[i])
  <2>1. i < k + 1 => i < k \/ i = k
    OBVIOUS
  <2>. QED
    BY <2>1 DEF AckedUpTo
<1>. QED
  BY <1>1 DEF AckedUpTo

\* SQLPutData is acknowledged for the current parameter, and no other.
LEMMA UpToAck ==
    ASSUME NEW a, NEW ps, NEW v, NEW w \in Values, NEW k \in 1..Len(ps), Len(ps) \in Nat,
           AckedUpTo(a, ps, k, v), NEW b, b = Acking(a, k, w)
    PROVE  AckedUpTo(b, ps, k, w) /\ Supplied(b, k - 1) = Supplied(a, k - 1)
<1>1. a \in [1..Len(ps) -> AckRecords] /\ \A i \in 1..Len(ps) : a[i].expected = ps[i].expected
  BY DEF AckedUpTo, AckedFor
<1>2. \A i \in 1..Len(ps) : i # k => b[i] = a[i]
  BY <1>1 DEF Acking
<1>3. b[k] = [a[k] EXCEPT !.value = w] /\ a[k] \in AckRecords
  BY <1>1 DEF Acking
<1>4. b[k] \in AckRecords /\ b[k].value = w /\ b[k].expected = a[k].expected
  <2>1. ASSUME NEW r \in AckRecords
        PROVE  LET s == [r EXCEPT !.value = w]
               IN  s \in AckRecords /\ s.value = w /\ s.expected = r.expected
    BY DEF AckRecords
  <2>. QED
    BY <1>3, <2>1
<1>5. b \in [1..Len(ps) -> AckRecords]
  <2>1. DOMAIN b = 1..Len(ps) /\ b = [i \in 1..Len(ps) |-> b[i]]
    BY <1>1 DEF Acking
  <2>2. \A i \in 1..Len(ps) : b[i] \in AckRecords
    BY <1>1, <1>2, <1>4
  <2>. QED
    BY <2>1, <2>2
<1>6. AckedFor(b, ps)
  BY <1>1, <1>2, <1>4, <1>5 DEF AckedFor
<1>7. AckedUpTo(b, ps, k, w)
  BY <1>2, <1>4, <1>6 DEF AckedUpTo
<1>8. \A i \in 1..(k - 1) : b[i] = a[i]
  BY <1>2
<1>9. Supplied(b, k - 1) = Supplied(a, k - 1)
  BY <1>8 DEF Supplied
<1>. QED
  BY <1>7, <1>9

\* The values in the request, as it is worked through.
LEMMA SuppliedNone ==
    ASSUME NEW a
    PROVE  Supplied(a, 0 - 1) = {} /\ Supplied(a, 0) = {}
  BY DEF Supplied

\* A value is added to the request.
LEMMA SuppliedNext ==
    ASSUME NEW a, NEW k \in Nat, k > 0, NEW v, a[k].value = v
    PROVE  Supplied(a, k - 1) \cup {<<k, v>>} = Supplied(a, k)
<1>1. 1..k = 1..(k - 1) \cup {k}
  OBVIOUS
<1>. QED
  BY <1>1 DEF Supplied

\* The value in progress: Progress(dae), but for a chunk on its way out.
LEMMA AckedKept ==
    ASSUME call'.at = "End",
           AckedUpTo(acked', dae'.params, dae'.cursor,
                     [chunks |-> dae'.progress.chunks, null |-> dae'.progress.null]),
           delivered' = Nothing
    PROVE  AckedInv'
  BY DEF AckedInv, Written

\* A new sequence has nothing supplied.
LEMMA AckedPark ==
    ASSUME Types, AckedInv, ParkDeferred \/ ParkStreaming
    PROVE  AckedInv'
<1>1. call.at = "Claimed" /\ call'.at = "End" /\ acked' = acked /\ delivered' = delivered
  BY DEF ParkDeferred, ParkStreaming, At, Types, Calls, keepHist
<1>2. AckedFor(acked, call.params) /\ AllFresh(acked, call.params) /\ delivered = Nothing
  BY <1>1 DEF AckedInv
<1>3. call.params \in ParamLists /\ dae'.params = call.params /\ dae'.cursor = 0
  BY ParkStep
<1>. QED
  BY <1>1, <1>2, <1>3, UpToNew, AckedKept

\* The first token changes nothing the application was told.
LEMMA AckedFirst ==
    ASSUME Types, SequenceInv, CursorInv, StreamInv, AckedInv, FirstToken
    PROVE  AckedInv'
<1>1. /\ NeedsData /\ dae.cursor = 0 /\ call'.at = "End" /\ acked' = acked
      /\ delivered' = delivered
  BY DEF FirstToken, Types, Calls, Goto, keepHist
<1>2. AckedUpTo(acked, dae.params, 0, Written(dae)) /\ delivered = Nothing
  BY <1>1 DEF AckedInv
<1>3. dae'.params = dae.params /\ dae'.cursor = 1 /\ dae'.progress = NotPut
  BY FirstTokenStep
<1>4. AckedUpTo(acked, dae.params, 1, [chunks |-> 0, null |-> FALSE])
  BY <1>2, UpToFirst DEF Fresh
<1>. QED
  BY <1>1, <1>2, <1>3, <1>4, NotPutFields, AckedKept

\* Where SQLParamData finds the cursor, and the value it closes.
LEMMA ClosingAt ==
    ASSUME Types, CursorInv, AckedInv, Closing, Closable
    PROVE  /\ NeedsData /\ dae \in DaeStates /\ dae.cursor \in 1..Len(dae.params)
           /\ Len(dae.params) \in Nat /\ acked[dae.cursor].value = Progress(dae)
           /\ Announced(acked[dae.cursor]) /\ call.at = "Begin" /\ delivered = Nothing
           /\ AckedUpTo(acked, dae.params, dae.cursor, Progress(dae))
<1>1. NeedsData /\ dae \in DaeStates /\ call.at = "Begin" /\ dae.cursor > 0
  BY DEF Closing, InParamData, At, Types, NeedsData
<1>2. Len(dae.params) \in Nat /\ dae.cursor \in Nat
  BY <1>1, DaeFields
<1>3. dae.cursor \in 1..Len(dae.params)
  BY <1>1, <1>2 DEF CursorInv
<1>4. AckedUpTo(acked, dae.params, dae.cursor, Progress(dae)) /\ delivered = Nothing
  BY <1>1 DEF AckedInv, Written, Progress
<1>5. /\ acked[dae.cursor].value = Progress(dae)
      /\ acked[dae.cursor].expected = dae.params[dae.cursor].expected
  BY <1>3, <1>4 DEF AckedUpTo, AckedFor
<1>6. Announced(acked[dae.cursor])
  BY <1>5 DEF Announced, Closable, Current, Progress
<1>. QED
  BY <1>1, <1>2, <1>3, <1>4, <1>5, <1>6

\* A buffered parameter closes with what the application was told.
LEMMA AckedBuffered ==
    ASSUME Types, SequenceInv, CursorInv, StreamInv, AckedInv, CloseBuffered
    PROVE  AckedInv'
<1>1. Closing /\ Closable /\ acked' = acked /\ delivered' = delivered
  BY DEF CloseBuffered, keepHist
<1>2. call'.at \in {"Open", "Send", "End"}
  BY DEF CloseBuffered, Goto, Types, Calls
<1>3. dae'.params = dae.params /\ dae'.cursor = dae.cursor + 1 /\ dae'.progress = NotPut
  BY CloseBufferedStep
<1>4. AckedUpTo(acked, dae.params, dae.cursor + 1, Fresh) /\ delivered = Nothing
  BY <1>1, ClosingAt, UpToNext
<1>. QED
  BY <1>1, <1>2, <1>3, <1>4, NotPutFields DEF AckedInv, Written, Fresh

\* A streamed parameter starts to close with what the application was told.
LEMMA AckedClose ==
    ASSUME Types, SequenceInv, CursorInv, StreamInv, AckedInv, CloseStreamed
    PROVE  AckedInv'
<1>1. Closing /\ Closable /\ acked' = acked /\ delivered' = delivered
  BY DEF CloseStreamed, keepHist
<1>2. call'.at = "EndParam"
  BY DEF CloseStreamed, Types, Calls
<1>3. dae'.params = dae.params /\ dae'.cursor = dae.cursor /\ dae'.progress = dae.progress
  BY CheckOutStep
<1>. QED
  BY <1>1, <1>2, <1>3, ClosingAt DEF AckedInv, Written, Progress

\* A streamed parameter has closed.
LEMMA AckedNext ==
    ASSUME Types, SequenceInv, CursorInv, StreamInv, AckedInv, EndParamNext
    PROVE  AckedInv'
<1>1. /\ call.at = "EndParam" /\ call'.at = "End" /\ acked' = acked /\ delivered' = delivered
  BY DEF EndParamNext, At, Types, Calls, keepHist
<1>2. NeedsData /\ dae.cursor \in 1..Len(dae.params) /\ Len(dae.params) \in Nat
  BY <1>1, OpenParam
<1>3. /\ AckedUpTo(acked, dae.params, dae.cursor, Written(dae)) /\ delivered = Nothing
      /\ Announced(acked[dae.cursor])
  BY <1>1, <1>2 DEF AckedInv
<1>4. dae'.params = dae.params /\ dae'.cursor = dae.cursor + 1 /\ dae'.progress = NotPut
  BY EndParamNextStep
<1>5. AckedUpTo(acked, dae.params, dae.cursor + 1, [chunks |-> 0, null |-> FALSE])
  BY <1>2, <1>3, UpToNext DEF Fresh
<1>. QED
  BY <1>1, <1>3, <1>4, <1>5, NotPutFields, AckedKept

\* What SQLPutData acknowledges.
LEMMA AckedAck ==
    ASSUME Types, AckedInv, NEW w \in Values, NeedsData, dae.cursor \in 1..Len(dae.params),
           Len(dae.params) \in Nat, Ack(w), call'.at = "End", delivered' = delivered,
           dae'.params = dae.params, dae'.cursor = dae.cursor,
           w = [chunks |-> dae'.progress.chunks, null |-> dae'.progress.null]
    PROVE  AckedInv' /\ Supplied(acked', dae.cursor - 1) = Supplied(acked, dae.cursor - 1)
<1>1. AckedUpTo(acked, dae.params, dae.cursor, Written(dae)) /\ delivered = Nothing
  BY DEF AckedInv
<1>2. acked' = Acking(acked, dae.cursor, w)
  BY DEF Ack, Acking
<1>3. /\ AckedUpTo(acked', dae.params, dae.cursor, w)
      /\ Supplied(acked', dae.cursor - 1) = Supplied(acked, dae.cursor - 1)
  <2>. DEFINE ps == dae.params
              k == dae.cursor
              v == Written(dae)
              b == acked'
  <2>1. /\ k \in 1..Len(ps) /\ Len(ps) \in Nat /\ AckedUpTo(acked, ps, k, v)
        /\ b = Acking(acked, k, w)
    BY <1>1, <1>2
  <2>. HIDE DEF ps, k, v, b
  <2>2. AckedUpTo(b, ps, k, w) /\ Supplied(b, k - 1) = Supplied(acked, k - 1)
    BY <2>1, UpToAck
  <2>. QED
    BY <2>2 DEF ps, k, b
<1>. QED
  BY <1>1, <1>3, AckedKept

\* SQLPutData is acknowledged with the sequence's progress.
LEMMA AckedPut ==
    ASSUME Types, SequenceInv, CursorInv, StreamInv, AckedInv, NEW n \in 0..1,
           PutNull \/ PutHere(n) \/ ChunkWritten
    PROVE  AckedInv' /\ Supplied(acked', dae.cursor - 1) = Supplied(acked, dae.cursor - 1)
<1>1. /\ NeedsData /\ dae \in DaeStates /\ dae.cursor \in 1..Len(dae.params)
      /\ Len(dae.params) \in Nat
  BY PuttingAt, OpenParam DEF PutNull, PutHere, ChunkWritten, At
<1>2. dae'.params = dae.params /\ dae'.cursor = dae.cursor
  BY PutNullStep, PutHereStep, ChunkWrittenStep
<1>3. call'.at = "End" /\ delivered' = delivered
  BY DEF PutNull, PutHere, ChunkWritten, Types, Calls, Goto
<1>4. dae.progress.chunks \in Nat
  BY <1>1, DaeFields
<1>5. CASE PutNull
  <2>1. dae.progress.chunks = 0
    BY <1>1, <1>5, NotPutFields DEF PutNull, CursorInv
  <2>2. dae'.progress.chunks = 0 /\ dae'.progress.null = TRUE
    BY <1>5, <2>1, PutNullStep
  <2>3. [chunks |-> 0, null |-> TRUE] \in Values
    BY DEF Values
  <2>4. Ack([chunks |-> 0, null |-> TRUE])
    BY <1>5 DEF PutNull
  <2>5. [chunks |-> 0, null |-> TRUE] = [chunks |-> dae'.progress.chunks,
        null |-> dae'.progress.null]
    BY <2>2
  <2>. QED
    BY <1>1, <1>2, <1>3, <2>3, <2>4, <2>5, AckedAck
<1>6. CASE PutHere(n)
  <2>. DEFINE k == dae.progress.chunks + n
  <2>1. dae'.progress.chunks = k /\ dae'.progress.null = FALSE
    <3>1. dae'.progress.chunks = k /\ dae'.progress.null = dae.progress.null
      BY <1>6, PutHereStep
    <3>2. ~dae.progress.null /\ dae.progress.null \in BOOLEAN
      BY <1>1, <1>6, DaeFields DEF PutHere, Fits
    <3>. QED
      BY <3>1, <3>2
  <2>2. [chunks |-> k, null |-> FALSE] \in Values
    BY <1>4 DEF Values
  <2>3. Ack([chunks |-> k, null |-> FALSE])
    BY <1>6 DEF PutHere
  <2>. HIDE DEF k
  <2>. QED
    BY <1>1, <1>2, <1>3, <2>1, <2>2, <2>3, AckedAck
<1>7. CASE ChunkWritten
  <2>. DEFINE k == dae.progress.chunks
  <2>1. dae'.progress.chunks = k /\ dae'.progress.null = FALSE
    <3>1. dae'.progress = dae.progress
      BY <1>7, ChunkWrittenStep
    <3>2. ~dae.progress.null /\ dae.progress.null \in BOOLEAN
      BY <1>1, <1>7, DaeFields DEF ChunkWritten, At, CursorInv
    <3>. QED
      BY <3>1, <3>2
  <2>2. [chunks |-> k, null |-> FALSE] \in Values
    BY <1>4 DEF Values
  <2>3. Ack([chunks |-> k, null |-> FALSE])
    BY <1>7 DEF ChunkWritten
  <2>. HIDE DEF k
  <2>. QED
    BY <1>1, <1>2, <1>3, <2>1, <2>2, <2>3, AckedAck
<1>. QED
  BY <1>5, <1>6, <1>7

\* A chunk on its way out is not acknowledged yet.
LEMMA AckedStreamed ==
    ASSUME Types, SequenceInv, CursorInv, StreamInv, AckedInv, PutStreamed
    PROVE  AckedInv'
<1>1. NeedsData /\ dae \in DaeStates /\ dae.progress.chunks \in Nat /\ call.at = "Begin"
  BY PuttingAt DEF PutStreamed, Putting, At
<1>2. call'.at = "Chunk" /\ acked' = acked /\ delivered' = delivered
  BY DEF PutStreamed, Types, Calls, keepHist
<1>3. /\ dae'.params = dae.params /\ dae'.cursor = dae.cursor
      /\ dae'.progress.chunks = dae.progress.chunks + 1 /\ dae'.progress.null = dae.progress.null
  BY PutStreamedStep
<1>4. dae'.progress.chunks - 1 = dae.progress.chunks
  BY <1>1, <1>3
<1>. QED
  BY <1>1, <1>2, <1>3, <1>4 DEF AckedInv, Written

\* An execution starts with nothing supplied.
LEMMA StagedAcks ==
    ASSUME NEW ps \in ParamLists
    PROVE  LET a == [i \in 1..Len(ps) |-> [expected |-> ps[i].expected, value |-> Fresh]]
           IN  AckedFor(a, ps) /\ AllFresh(a, ps)
<1>. DEFINE r(i) == [expected |-> ps[i].expected, value |-> Fresh]
            a == [i \in 1..Len(ps) |-> r(i)]
<1>1. ASSUME NEW i \in 1..Len(ps)
      PROVE  r(i) \in AckRecords /\ r(i).expected = ps[i].expected /\ r(i).value = Fresh
  <2>1. ps[i] \in ParamRecords
    BY ParamsAssumption
  <2>. QED
    BY <2>1, Constants DEF ParamRecords, AckRecords
<1>. HIDE DEF r
<1>2. a \in [1..Len(ps) -> AckRecords] /\ \A i \in 1..Len(ps) : a[i] = r(i)
  BY <1>1
<1>. HIDE DEF a
<1>3. AckedFor(a, ps) /\ AllFresh(a, ps)
  BY <1>1, <1>2 DEF AckedFor, AllFresh
<1>. QED
  BY <1>3 DEF a, r

\* Every step keeps what the application was told in line with the sequence.
LEMMA AckedStep ==
    ASSUME Types, SequenceInv, CursorInv, StreamInv, MonitorInv, LeaseInv, AckedInv, [Next]_vars
    PROVE  AckedInv'
<1>. USE ThreadAssumption DEF Types, At, Goto, keepStmt, keepWire, keepHist, monVars, stmtVars,
     bounds, Calls, NeedsData, NoPlan, MonitorInv, LeaseInv, SequenceInv, AckedInv, Holding,
     InFlight, DaeStops, Written
<1>1. ASSUME NEW t \in Threads, NEW fn \in Fns, Start(t, fn) PROVE AckedInv'
  BY <1>1 DEF Start, M!Start, NoCall
<1>2. CASE StageRefused
  BY <1>2 DEF StageRefused
<1>3. CASE Stage
  <2>1. call'.at = "Claim" /\ ~NeedsData /\ dae' = dae /\ delivered' = Nothing
    BY <1>3 DEF Stage, Executable
  <2>2. PICK ps \in ParamLists :
           /\ call'.params = ps
           /\ acked' = [i \in 1..Len(ps) |-> [expected |-> ps[i].expected, value |-> Fresh]]
    BY <1>3 DEF Stage
  <2>3. AckedFor(acked', ps) /\ AllFresh(acked', ps)
    BY <2>2, StagedAcks
  <2>. QED
    BY <2>1, <2>2, <2>3
<1>4. CASE Claim
  BY <1>4 DEF Claim
<1>5. CASE ClaimRefused
  BY <1>5 DEF ClaimRefused
<1>6. CASE ClaimFailed
  BY <1>6 DEF ClaimFailed
<1>7. CASE BeginFails
  BY <1>7 DEF BeginFails, RestorePlan
<1>8. CASE ParkDeferred
  BY <1>8, AckedPark
<1>9. CASE ParkStreaming
  BY <1>9, AckedPark
<1>10. CASE Send
  BY <1>10 DEF Send, RestorePlan
<1>11. CASE PublishRows
  BY <1>11 DEF PublishRows
<1>12. CASE PublishDone
  BY <1>12 DEF PublishDone
<1>13. CASE PublishFails
  BY <1>13 DEF PublishFails
<1>14. CASE PublishState
  BY <1>14 DEF PublishState
<1>15. CASE Fail
  BY <1>15 DEF Fail
<1>16. CASE Unwind
  BY <1>16 DEF Unwind
<1>17. CASE Close
  BY <1>17 DEF Close, CloseCursor
<1>18. CASE Finish
  BY <1>18 DEF Finish, M!Finish, NoCall
<1>19. CASE Settle
  BY <1>19 DEF Settle, SettlesDae, TakeDae, TakenPlan, CloseCursor
<1>20. CASE OutOfSequence
  BY <1>20 DEF OutOfSequence
<1>21. CASE FirstToken
  BY <1>21, AckedFirst
<1>22. CASE CloseAborts
  BY <1>22 DEF CloseAborts, Closing, InParamData, Abort, TakeDae, TakenPlan
<1>23. CASE CloseBuffered
  BY <1>23, AckedBuffered
<1>24. CASE RebuildFails
  BY <1>24 DEF RebuildFails, TakeDae, TakenPlan
<1>25. CASE OpenRpc
  BY <1>25, CheckOutStep DEF OpenRpc
<1>26. CASE Opened
  BY <1>26, OpenedStep DEF Opened
<1>27. CASE StreamFails
  BY <1>27 DEF StreamFails, TakenPlan
<1>28. CASE SendDeferred
  BY <1>28 DEF SendDeferred
<1>29. CASE Sent
  BY <1>29 DEF Sent, RestorePlan
<1>30. CASE SendFails
  BY <1>30 DEF SendFails, RestorePlan
<1>31. CASE CloseStreamed
  BY <1>31, AckedClose
<1>32. CASE EndParamNext
  BY <1>32, AckedNext
<1>33. CASE EndParamLast
  BY <1>33 DEF EndParamLast
<1>34. CASE PutRefused
  BY <1>34 DEF PutRefused, Putting
<1>35. CASE PutAborts
  BY <1>35 DEF PutAborts, Putting, Abort, TakeDae, TakenPlan
<1>36. CASE PutNull
  BY <1>36, AckedPut
<1>37. ASSUME NEW n \in 0..1, PutHere(n) PROVE AckedInv'
  BY <1>37, AckedPut
<1>38. CASE PutStreamed
  BY <1>38, AckedStreamed
<1>39. CASE ChunkWritten
  BY <1>39, AckedPut
<1>40. ASSUME NEW t \in Threads, Cancel(t) PROVE AckedInv'
  BY <1>40 DEF Cancel, M!Cancel
<1>41. ASSUME NEW t \in Threads, Inspect(t) PROVE AckedInv'
  BY <1>41 DEF Inspect, M!Inspect
<1>42. CASE Look
  BY <1>42 DEF Look, LookUnwind, TakeDae, TakenPlan, CloseCursor, lookRest
<1>43. CASE CancelUnwind
  BY <1>43 DEF CancelUnwind, lookRest
<1>44. ASSUME NEW t \in Threads, CancelReturn(t) PROVE AckedInv'
  BY <1>44 DEF CancelReturn, M!Return
<1>45. CASE Prepare
  BY <1>45 DEF Prepare
<1>46. CASE FreeHandle
  BY <1>46 DEF FreeHandle
<1>47. CASE OtherTakes
  BY <1>47 DEF OtherTakes
<1>48. CASE OtherReturns
  BY <1>48 DEF OtherReturns
<1>49. CASE UNCHANGED vars
  BY <1>49 DEF vars
<1>. QED
  BY <1>1, <1>2, <1>3, <1>4, <1>5, <1>6, <1>7, <1>8, <1>9, <1>10, <1>11, <1>12, <1>13, <1>14,
     <1>15, <1>16, <1>17, <1>18, <1>19, <1>20, <1>21, <1>22, <1>23, <1>24, <1>25, <1>26, <1>27,
     <1>28, <1>29, <1>30, <1>31, <1>32, <1>33, <1>34, <1>35, <1>36, <1>37, <1>38, <1>39, <1>40,
     <1>41, <1>42, <1>43, <1>44, <1>45, <1>46, <1>47, <1>48, <1>49
     DEF Next, ExecuteStep, EndStep, ParamDataStep, PutDataStep

\* A sequence that is not over has sent nothing.
LEMMA ValuesKept ==
    ASSUME delivered' = Nothing, call'.at # "Sending",
           (IF dae'.deferred THEN dae'.buffered ELSE client'.vals) = Supplied(acked',
           dae'.cursor - 1)
    PROVE  ValuesInv'
  BY DEF ValuesInv, ValuesArrive

\* A new sequence has an empty request.
LEMMA ValuesPark ==
    ASSUME Types, AckedInv, ParkDeferred \/ ParkStreaming
    PROVE  ValuesInv'
<1>1. call.at = "Claimed" /\ call'.at = "End" /\ acked' = acked /\ delivered' = delivered
  BY DEF ParkDeferred, ParkStreaming, At, Types, Calls, keepHist
<1>2. delivered = Nothing
  BY <1>1 DEF AckedInv
<1>3. dae'.cursor = 0 /\ dae'.buffered = {} /\ dae'.deferred = AnyBuffered(call.params)
  BY ParkStep
<1>4. ~AnyBuffered(call.params) => client'.vals = {}
  BY Constants DEF ParkDeferred, ParkStreaming, Clients
<1>. QED
  BY <1>1, <1>2, <1>3, <1>4, SuppliedNone, ValuesKept

\* The first token leaves the request as it is.
LEMMA ValuesFirst ==
    ASSUME Types, SequenceInv, CursorInv, StreamInv, AckedInv, ValuesInv, FirstToken
    PROVE  ValuesInv'
<1>1. /\ NeedsData /\ dae.cursor = 0 /\ call'.at = "End" /\ acked' = acked
      /\ delivered' = delivered /\ client' = client
  BY DEF FirstToken, Types, Calls, Goto, keepHist, keepWire
<1>2. (IF dae.deferred THEN dae.buffered ELSE client.vals) = {} /\ delivered = Nothing
  BY <1>1, SuppliedNone DEF AckedInv, ValuesInv
<1>3. dae'.cursor - 1 = 0 /\ dae'.deferred = dae.deferred /\ dae'.buffered = dae.buffered
  BY FirstTokenStep
<1>. QED
  BY <1>1, <1>2, <1>3, SuppliedNone, ValuesKept

\* A buffered value goes to its place in the request.
LEMMA ValuesBuffered ==
    ASSUME Types, SequenceInv, CursorInv, StreamInv, AckedInv, ValuesInv, CloseBuffered
    PROVE  ValuesInv'
<1>1. Closing /\ Closable /\ acked' = acked /\ delivered' = delivered /\ dae.deferred
  BY DEF CloseBuffered, keepHist
<1>2. call'.at \in {"Open", "Send", "End"}
  BY DEF CloseBuffered, Goto, Types, Calls
<1>3. /\ dae'.cursor = dae.cursor + 1 /\ dae'.deferred = dae.deferred
      /\ dae'.buffered = dae.buffered \cup {<<dae.cursor, Progress(dae)>>}
  BY CloseBufferedStep
<1>4. /\ NeedsData /\ dae.cursor \in Nat /\ dae.cursor > 0 /\ delivered = Nothing
      /\ acked[dae.cursor].value = Progress(dae)
  BY <1>1, ClosingAt
<1>5. dae.buffered = Supplied(acked, dae.cursor - 1)
  BY <1>1, <1>4 DEF ValuesInv
<1>6. dae'.buffered = Supplied(acked, dae.cursor) /\ dae'.cursor - 1 = dae.cursor
  BY <1>3, <1>4, <1>5, SuppliedNext
<1>. QED
  BY <1>1, <1>2, <1>3, <1>4, <1>6, ValuesKept

\* The buffered values are the prefix of the request that is opened.
LEMMA ValuesOpened ==
    ASSUME Types, SequenceInv, CursorInv, StreamInv, AckedInv, ValuesInv, Opened
    PROVE  ValuesInv'
<1>1. /\ NeedsData /\ call.at = "Opening" /\ call'.at = "End" /\ dae.deferred
      /\ acked' = acked /\ delivered' = delivered
  BY DEF Opened, At, SequenceInv, DaeStops, InFlight, Types, Calls, keepHist
<1>2. dae.buffered = Supplied(acked, dae.cursor - 1) /\ delivered = Nothing
  BY <1>1 DEF AckedInv, ValuesInv
<1>3. client'.vals = dae.buffered
  BY Constants DEF Opened, Clients
<1>4. dae'.deferred = FALSE /\ dae'.cursor = dae.cursor
  BY OpenedStep
<1>. QED
  BY <1>1, <1>2, <1>3, <1>4, ValuesKept

\* The value that closes on the wire is the one the application knows of.
LEMMA ValueCloses ==
    ASSUME Types, SequenceInv, CursorInv, StreamInv, AckedInv, ValuesInv, call.at = "EndParam"
    PROVE  /\ NeedsData /\ dae.cursor \in 1..Len(dae.params) /\ Len(dae.params) \in Nat
           /\ WithValue(client) = Supplied(acked, dae.cursor) /\ delivered = Nothing
           /\ AckedFor(acked, dae.params)
           /\ \A i \in 1..dae.cursor : Announced(acked[i])
<1>1. /\ NeedsData /\ dae \in DaeStates /\ dae.cursor \in 1..Len(dae.params)
      /\ Len(dae.params) \in Nat /\ Min(client.todo) = dae.cursor /\ ~dae.deferred
  BY OpenParam DEF SequenceInv, DaeStops, InFlight
<1>2. /\ AckedUpTo(acked, dae.params, dae.cursor, Written(dae)) /\ delivered = Nothing
      /\ Announced(acked[dae.cursor]) /\ client.value = Written(dae)
      /\ client.vals = Supplied(acked, dae.cursor - 1)
  BY <1>1 DEF AckedInv, StreamInv, ValuesInv
<1>3. acked[dae.cursor].value = client.value /\ AckedFor(acked, dae.params)
  BY <1>1, <1>2 DEF AckedUpTo
<1>4. WithValue(client) = Supplied(acked, dae.cursor)
  BY <1>1, <1>2, <1>3, SuppliedNext DEF WithValue
<1>5. ASSUME NEW i \in 1..dae.cursor PROVE Announced(acked[i])
  <2>1. i \in 1..Len(dae.params) /\ (i < dae.cursor \/ i = dae.cursor)
    BY <1>1
  <2>. QED
    BY <1>2, <2>1 DEF AckedUpTo
<1>. QED
  BY <1>1, <1>2, <1>3, <1>4, <1>5

\* A streamed value is in its place.
LEMMA ValuesNext ==
    ASSUME Types, SequenceInv, CursorInv, StreamInv, AckedInv, ValuesInv, EndParamNext
    PROVE  ValuesInv'
<1>1. call.at = "EndParam" /\ call'.at = "End" /\ acked' = acked /\ delivered' = delivered
  BY DEF EndParamNext, At, Types, Calls, keepHist
<1>2. client'.vals = WithValue(client)
  BY DEF EndParamNext, Types, Clients
<1>3. /\ WithValue(client) = Supplied(acked, dae.cursor) /\ delivered = Nothing
      /\ dae.cursor \in Nat
  BY <1>1, ValueCloses
<1>4. ~dae.deferred
  BY <1>1 DEF SequenceInv, DaeStops, InFlight
<1>5. dae'.cursor = dae.cursor + 1 /\ dae'.deferred = dae.deferred
  BY EndParamNextStep
<1>6. dae'.cursor - 1 = dae.cursor
  BY <1>3, <1>5
<1>. QED
  BY <1>1, <1>2, <1>3, <1>4, <1>5, <1>6, ValuesKept

\* The sequence that ends has sent every value.
LEMMA ValuesLast ==
    ASSUME Types, SequenceInv, CursorInv, StreamInv, AckedInv, ValuesInv, EndParamLast
    PROVE  ValuesInv'
<1>1. /\ call.at = "EndParam" /\ call'.at = "Publish" /\ acked' = acked /\ dae' = NoDae
      /\ delivered' = <<WithValue(client)>> /\ client.todo = {Min(client.todo)}
  BY DEF EndParamLast, At, Types, Calls
<1>2. client.todo = dae.cursor..Len(dae.params) /\ Min(client.todo) = dae.cursor
  BY <1>1, OpenParam
<1>3. /\ WithValue(client) = Supplied(acked, dae.cursor) /\ AckedFor(acked, dae.params)
      /\ dae.cursor \in 1..Len(dae.params) /\ Len(dae.params) \in Nat
      /\ \A i \in 1..dae.cursor : Announced(acked[i])
  BY <1>1, ValueCloses
<1>4. dae.cursor = Len(dae.params)
  BY <1>1, <1>2, <1>3
<1>5. DOMAIN acked = 1..dae.cursor
  BY <1>3, <1>4 DEF AckedFor
<1>6. ValuesArrive'
  BY <1>1, <1>3, <1>5 DEF ValuesArrive, Supplied, Announced
<1>. QED
  BY <1>1, <1>6 DEF ValuesInv, NeedsData

\* The request that goes out whole has every value.
LEMMA ValuesDeferred ==
    ASSUME Types, SequenceInv, CursorInv, StreamInv, AckedInv, ValuesInv, SendDeferred
    PROVE  ValuesInv'
<1>1. /\ call.at = "Send" /\ call'.at = "Sending" /\ acked' = acked /\ dae' = NoDae
      /\ delivered' = delivered /\ client'.vals = dae.buffered
  BY DEF SendDeferred, At, Types, Calls, Clients, keepHist
<1>2. NeedsData /\ dae.deferred /\ dae \in DaeStates
  BY <1>1 DEF SequenceInv, DaeStops, Types, NeedsData
<1>3. Len(dae.params) \in Nat /\ dae.cursor = Len(dae.params) + 1
  BY <1>1, <1>2, DaeFields DEF CursorInv
<1>4. /\ dae.buffered = Supplied(acked, Len(dae.params)) /\ delivered = Nothing
      /\ AckedUpTo(acked, dae.params, dae.cursor, Written(dae))
  <2>1. dae.cursor - 1 = Len(dae.params)
    BY <1>3
  <2>. QED
    BY <1>2, <2>1 DEF AckedInv, ValuesInv
<1>5. DOMAIN acked = 1..Len(dae.params)
  BY <1>4 DEF AckedUpTo, AckedFor
<1>6. \A i \in DOMAIN acked : Announced(acked[i])
  BY <1>3, <1>4, <1>5 DEF AckedUpTo
<1>7. client'.vals = {<<i, acked[i].value>> : i \in DOMAIN acked}
  BY <1>1, <1>4, <1>5 DEF Supplied
<1>. QED
  BY <1>1, <1>4, <1>6, <1>7 DEF ValuesInv, ValuesArrive, NeedsData

\* The request that went out is what the application was told.
LEMMA ValuesSent ==
    ASSUME Types, LeaseInv, AckedInv, ValuesInv, Sent \/ Send
    PROVE  ValuesInv'
<1>1. call'.at = "Publish" /\ acked' = acked /\ dae' = dae /\ call.at \in {"Sending", "Claimed"}
  BY DEF Sent, Send, At, Types, Calls
<1>2. ~NeedsData
  BY <1>1 DEF LeaseInv, DaeStops, InFlight
<1>3. CASE Sent
  <2>1. delivered' = <<client.vals>> /\ call.at = "Sending"
    BY <1>3 DEF Sent, At
  <2>2. ValuesArrive'
    BY <1>1, <2>1 DEF ValuesInv, ValuesArrive, Announced
  <2>. QED
    BY <1>1, <1>2, <2>2 DEF ValuesInv, NeedsData
<1>4. CASE Send
  <2>1. delivered' = <<{}>> /\ call.at = "Claimed" /\ call.params = <<>>
    BY <1>4 DEF Send, At
  <2>2. DOMAIN acked = {}
    BY <2>1 DEF AckedInv, AckedFor
  <2>3. ValuesArrive'
    BY <1>1, <2>1, <2>2 DEF ValuesArrive
  <2>. QED
    BY <1>1, <1>2, <2>3 DEF ValuesInv, NeedsData
<1>. QED
  BY <1>3, <1>4

\* SQLPutData changes no value that is closed.
LEMMA ValuesPut ==
    ASSUME Types, SequenceInv, CursorInv, StreamInv, AckedInv, ValuesInv, NEW n \in 0..1,
           PutNull \/ PutHere(n) \/ ChunkWritten
    PROVE  ValuesInv'
<1>1. NeedsData /\ dae \in DaeStates
  BY PuttingAt, OpenParam DEF PutNull, PutHere, ChunkWritten, At
<1>2. call'.at = "End" /\ delivered' = delivered
  BY DEF PutNull, PutHere, ChunkWritten, Types, Calls, Goto
<1>3. client'.vals = client.vals
  BY DEF PutNull, PutHere, ChunkWritten, keepWire, Types, Clients
<1>4. Supplied(acked', dae.cursor - 1) = Supplied(acked, dae.cursor - 1)
  BY AckedPut
<1>5. dae'.cursor = dae.cursor /\ dae'.deferred = dae.deferred /\ dae'.buffered = dae.buffered
  BY PutNullStep, PutHereStep, ChunkWrittenStep
<1>6. /\ (IF dae.deferred THEN dae.buffered ELSE client.vals) = Supplied(acked, dae.cursor - 1)
      /\ delivered = Nothing
  BY <1>1 DEF AckedInv, ValuesInv
<1>. QED
  BY <1>2, <1>3, <1>4, <1>5, <1>6, ValuesKept

\* Every step keeps the request to what was supplied.
LEMMA ValuesStep ==
    ASSUME Types, SequenceInv, CursorInv, StreamInv, MonitorInv, LeaseInv, AckedInv, ValuesInv,
           [Next]_vars
    PROVE  ValuesInv'
<1>. USE ThreadAssumption DEF Types, At, Goto, keepStmt, keepWire, keepHist, monVars, stmtVars,
     bounds, Calls, NeedsData, NoPlan, MonitorInv, LeaseInv, SequenceInv, ValuesInv, ValuesArrive,
     Holding, InFlight, DaeStops
<1>1. ASSUME NEW t \in Threads, NEW fn \in Fns, Start(t, fn) PROVE ValuesInv'
  BY <1>1 DEF Start, M!Start, NoCall
<1>2. CASE StageRefused
  BY <1>2 DEF StageRefused
<1>3. CASE Stage
  BY <1>3 DEF Stage, Executable
<1>4. CASE Claim
  BY <1>4 DEF Claim
<1>5. CASE ClaimRefused
  BY <1>5 DEF ClaimRefused
<1>6. CASE ClaimFailed
  BY <1>6 DEF ClaimFailed
<1>7. CASE BeginFails
  BY <1>7 DEF BeginFails, RestorePlan
<1>8. CASE ParkDeferred
  BY <1>8, ValuesPark
<1>9. CASE ParkStreaming
  BY <1>9, ValuesPark
<1>10. CASE Send
  BY <1>10, ValuesSent
<1>11. CASE PublishRows
  BY <1>11 DEF PublishRows
<1>12. CASE PublishDone
  BY <1>12 DEF PublishDone
<1>13. CASE PublishFails
  BY <1>13 DEF PublishFails
<1>14. CASE PublishState
  BY <1>14 DEF PublishState
<1>15. CASE Fail
  BY <1>15 DEF Fail
<1>16. CASE Unwind
  BY <1>16 DEF Unwind
<1>17. CASE Close
  BY <1>17 DEF Close, CloseCursor
<1>18. CASE Finish
  BY <1>18 DEF Finish, M!Finish, NoCall
<1>19. CASE Settle
  <2>1. CASE NeedsData
    <3>1. /\ call.at = "End" /\ dae' = NoDae /\ prepared' = dae.plan /\ exec_started' = FALSE
          /\ call' = [call EXCEPT !.fn = "Settle", !.at = "Unwind", !.lease = TRUE]
          /\ UNCHANGED <<monVars, hits, look, bounds, cursor_open, wire, client, newest, acked,
             delivered>>
      BY <1>19, <2>1 DEF Settle, SettlesDae, TakeDae, TakenPlan
    <3>2. call'.fn = "Settle" /\ call'.at = "Unwind" /\ call'.lease = TRUE /\ call'.plan = call.plan
      BY <3>1
    <3>. QED
      BY <2>1, <3>1, <3>2
  <2>2. CASE ~NeedsData /\ cursor_open /\ wire = "Reserved"
    BY <1>19, <2>2 DEF Settle, SettlesDae, CloseCursor
  <2>3. CASE ~NeedsData /\ ~(cursor_open /\ wire = "Reserved")
    BY <1>19, <2>3 DEF Settle, SettlesDae
  <2>. QED
    BY <2>1, <2>2, <2>3
<1>20. CASE OutOfSequence
  BY <1>20 DEF OutOfSequence
<1>21. CASE FirstToken
  BY <1>21, ValuesFirst
<1>22. CASE CloseAborts
  BY <1>22 DEF CloseAborts, Closing, InParamData, Abort, TakeDae, TakenPlan
<1>23. CASE CloseBuffered
  BY <1>23, ValuesBuffered
<1>24. CASE RebuildFails
  BY <1>24 DEF RebuildFails, TakeDae, TakenPlan
<1>25. CASE OpenRpc
  <2>1. (NeedsData => (IF dae.deferred THEN dae.buffered ELSE client.vals) = Supplied(acked,
        dae.cursor - 1))'
    BY <1>25, CheckOutStep DEF OpenRpc
  <2>2. (call.at = "Sending" => client.vals = {<<i, acked[i].value>> : i \in DOMAIN acked}
        /\ \A i \in DOMAIN acked : Announced(acked[i]))'
    BY <1>25, CheckOutStep DEF OpenRpc
  <2>3. ValuesArrive'
    BY <1>25, CheckOutStep DEF OpenRpc
  <2>. QED
    BY <2>1, <2>2, <2>3 DEF ValuesInv
<1>26. CASE Opened
  BY <1>26, ValuesOpened
<1>27. CASE StreamFails
  BY <1>27 DEF StreamFails, TakenPlan
<1>28. CASE SendDeferred
  BY <1>28, ValuesDeferred
<1>29. CASE Sent
  BY <1>29, ValuesSent
<1>30. CASE SendFails
  BY <1>30 DEF SendFails, RestorePlan
<1>31. CASE CloseStreamed
  <2>1. (NeedsData => (IF dae.deferred THEN dae.buffered ELSE client.vals) = Supplied(acked,
        dae.cursor - 1))'
    BY <1>31, CheckOutStep DEF CloseStreamed, Closing, InParamData
  <2>2. (call.at = "Sending" => client.vals = {<<i, acked[i].value>> : i \in DOMAIN acked}
        /\ \A i \in DOMAIN acked : Announced(acked[i]))'
    BY <1>31, CheckOutStep DEF CloseStreamed, Closing, InParamData
  <2>3. ValuesArrive'
    BY <1>31, CheckOutStep DEF CloseStreamed, Closing, InParamData
  <2>. QED
    BY <2>1, <2>2, <2>3 DEF ValuesInv
<1>32. CASE EndParamNext
  BY <1>32, ValuesNext
<1>33. CASE EndParamLast
  BY <1>33, ValuesLast
<1>34. CASE PutRefused
  BY <1>34 DEF PutRefused, Putting
<1>35. CASE PutAborts
  BY <1>35 DEF PutAborts, Putting, Abort, TakeDae, TakenPlan
<1>36. CASE PutNull
  BY <1>36, ValuesPut
<1>37. ASSUME NEW n \in 0..1, PutHere(n) PROVE ValuesInv'
  BY <1>37, ValuesPut
<1>38. CASE PutStreamed
  <2>1. (NeedsData => (IF dae.deferred THEN dae.buffered ELSE client.vals) = Supplied(acked,
        dae.cursor - 1))'
    BY <1>38, PutStreamedStep DEF PutStreamed, Putting
  <2>2. (call.at = "Sending" => client.vals = {<<i, acked[i].value>> : i \in DOMAIN acked}
        /\ \A i \in DOMAIN acked : Announced(acked[i]))'
    BY <1>38, PutStreamedStep DEF PutStreamed, Putting
  <2>3. ValuesArrive'
    BY <1>38, PutStreamedStep DEF PutStreamed, Putting
  <2>. QED
    BY <2>1, <2>2, <2>3 DEF ValuesInv
<1>39. CASE ChunkWritten
  BY <1>39, ValuesPut
<1>40. ASSUME NEW t \in Threads, Cancel(t) PROVE ValuesInv'
  BY <1>40 DEF Cancel, M!Cancel
<1>41. ASSUME NEW t \in Threads, Inspect(t) PROVE ValuesInv'
  BY <1>41 DEF Inspect, M!Inspect
<1>42. CASE Look
  BY <1>42 DEF Look, LookUnwind, TakeDae, TakenPlan, CloseCursor, lookRest
<1>43. CASE CancelUnwind
  BY <1>43 DEF CancelUnwind, lookRest
<1>44. ASSUME NEW t \in Threads, CancelReturn(t) PROVE ValuesInv'
  BY <1>44 DEF CancelReturn, M!Return
<1>45. CASE Prepare
  BY <1>45 DEF Prepare
<1>46. CASE FreeHandle
  BY <1>46 DEF FreeHandle
<1>47. CASE OtherTakes
  BY <1>47 DEF OtherTakes
<1>48. CASE OtherReturns
  BY <1>48 DEF OtherReturns
<1>49. CASE UNCHANGED vars
  BY <1>49 DEF vars
<1>. QED
  BY <1>1, <1>2, <1>3, <1>4, <1>5, <1>6, <1>7, <1>8, <1>9, <1>10, <1>11, <1>12, <1>13, <1>14,
     <1>15, <1>16, <1>17, <1>18, <1>19, <1>20, <1>21, <1>22, <1>23, <1>24, <1>25, <1>26, <1>27,
     <1>28, <1>29, <1>30, <1>31, <1>32, <1>33, <1>34, <1>35, <1>36, <1>37, <1>38, <1>39, <1>40,
     <1>41, <1>42, <1>43, <1>44, <1>45, <1>46, <1>47, <1>48, <1>49
     DEF Next, ExecuteStep, EndStep, ParamDataStep, PutDataStep

\* The inductive invariant.
DaeInv ==
    /\ Types /\ MonitorInv /\ LeaseInv /\ SequenceInv /\ StartedInv /\ ClientInv
    /\ CursorInv /\ StreamInv /\ AckedInv /\ ValuesInv

\* The inductive invariant holds in every reachable state: the calls of a
\* sequence, the connection's lease, the client and the parameters are in step.
THEOREM DaeInvCorrect == Spec => []DaeInv
<1>1. Init => DaeInv
  <2>. SUFFICES ASSUME Init PROVE DaeInv
    OBVIOUS
  <2>. USE Constants, BoundsAssumption DEF Init, M!Init
  <2>1. Types
    BY DEF Types, Wires, NoPlan
  <2>2. MonitorInv /\ LeaseInv /\ SequenceInv
    BY DEF MonitorInv, LeaseInv, SequenceInv, NeedsData, NoCall, Holding, InFlight, DaeStops
  <2>3. StartedInv /\ ClientInv
    BY DEF StartedInv, ClientInv, PlanPlaces, Usable, NeedsData, NoCall
  <2>4. CursorInv /\ StreamInv /\ AckedInv /\ ValuesInv
    BY DEF CursorInv, StreamInv, AckedInv, ValuesInv, ValuesArrive, NeedsData, NoCall
  <2>. QED
    BY <2>1, <2>2, <2>3, <2>4 DEF DaeInv
<1>2. DaeInv /\ [Next]_vars => DaeInv'
  BY TypesStep, MonitorStep, LeaseStep, SequenceStep, StartedStep, ClientStep, CursorStep,
     StreamStep, AckedStep, ValuesStep DEF DaeInv
<1>. QED
  BY <1>1, <1>2, PTL DEF Spec

\* The lease has one holder while it is out, and none otherwise.
LEMMA OneHolder ==
    ASSUME DaeInv
    PROVE  /\ wire = "Lease" <=> Cardinality(LeaseHolders) = 1
           /\ wire # "Lease" => LeaseHolders = {}
<1>. DEFINE inCall == call.lease
            inDae == NeedsData /\ dae.lease
            inCancel == look = "Unwind"
<1>. USE DEF DaeInv, MonitorInv, LeaseInv, SequenceInv, NoCall, Holding, InFlight, DaeStops
<1>1. /\ ~(inCall /\ inDae) /\ ~(inCall /\ inCancel) /\ ~(inDae /\ inCancel)
  BY DEF DaeInv
<1>2. wire = "Lease" <=> inCall \/ inDae \/ inCancel
  BY DEF DaeInv
<1>3. /\ "call" \in LeaseHolders <=> inCall
      /\ "dae" \in LeaseHolders <=> inDae
      /\ "cancel" \in LeaseHolders <=> inCancel
      /\ LeaseHolders \subseteq {"call", "dae", "cancel"}
  BY DEF LeaseHolders
<1>. HIDE DEF inCall, inDae, inCancel
<1>4. wire # "Lease" => LeaseHolders = {}
  BY <1>2, <1>3
<1>5. wire = "Lease" => \E h : LeaseHolders = {h}
  <2>1. CASE inCall
    <3>1. LeaseHolders = {"call"}
      BY <1>1, <1>3, <2>1
    <3>. QED
      BY <3>1
  <2>2. CASE inDae
    <3>1. LeaseHolders = {"dae"}
      BY <1>1, <1>3, <2>2
    <3>. QED
      BY <3>1
  <2>3. CASE inCancel
    <3>1. LeaseHolders = {"cancel"}
      BY <1>1, <1>3, <2>3
    <3>. QED
      BY <3>1
  <2>. QED
    BY <1>2, <2>1, <2>2, <2>3
<1>6. wire = "Lease" => Cardinality(LeaseHolders) = 1
  BY <1>5, FS_Singleton
<1>7. wire # "Lease" => Cardinality(LeaseHolders) # 1
  <2>1. Cardinality({}) # 1
    BY FS_EmptySet
  <2>. QED
    BY <1>4, <2>1
<1>. QED
  BY <1>4, <1>6, <1>7

\* The statement in Need Data has what it takes to go on (DaeState, checked out
\* and parked by SQLParamData and SQLPutData), however its calls interleave
\* with SQLCancel, SQLPrepare and other statements of the connection.
THEOREM SequenceCorrect == Spec => []SequenceWhole
<1>1. DaeInv => SequenceWhole
  <2>. SUFFICES ASSUME DaeInv PROVE SequenceWhole
    OBVIOUS
  <2>1. TypeOK
    <3>1. NeedsData => /\ dae.params \in ParamLists /\ dae.cursor \in 0..(Len(dae.params) + 1)
                       /\ dae.plan \in 0..MaxPlans
      <4>. SUFFICES ASSUME NeedsData
                    PROVE  /\ dae.params \in ParamLists /\ dae.cursor \in 0..(Len(dae.params) + 1)
                           /\ dae.plan \in 0..MaxPlans
        OBVIOUS
      <4>1. dae \in DaeStates
        BY DEF DaeInv, Types, NeedsData
      <4>2. Len(dae.params) \in Nat /\ dae.cursor \in Nat
        BY <4>1, DaeFields
      <4>3. dae.cursor <= Len(dae.params) + 1
        BY <4>2 DEF DaeInv, CursorInv
      <4>. QED
        BY <4>1, <4>2, <4>3 DEF DaeStates
    <3>. QED
      BY <3>1 DEF DaeInv, Types, TypeOK, Calls, Clients, Wires
  <2>2. NeedsData /\ AtRest => call.at = "None" /\ dae.lease
    BY DEF DaeInv, AtRest, MonitorInv, LeaseInv, InFlight
  <2>3. ASSUME NeedsData, AtRest, ~dae.deferred
        PROVE  /\ client.is = "Writing"
               /\ Min(client.todo) = IF dae.cursor = 0 THEN 1 ELSE dae.cursor
               /\ client.value = Progress(dae)
    <3>1. dae \in DaeStates /\ call.at = "None"
      BY <2>2, <2>3 DEF DaeInv, Types, NeedsData
    <3>2. Len(dae.params) \in Nat /\ dae.cursor \in Nat
      BY <3>1, DaeFields
    <3>3. Len(dae.params) > 0 /\ dae.cursor <= Len(dae.params)
      BY <2>3, <3>1 DEF DaeInv, CursorInv
    <3>4. Here(dae) \in Nat /\ Here(dae) <= Len(dae.params)
      BY <3>2, <3>3 DEF Here
    <3>5. Min(client.todo) = Here(dae) /\ client.value = Progress(dae)
      BY <2>3, <3>1, <3>2, <3>4, MinInterval DEF DaeInv, StreamInv, Written, Progress
    <3>. QED
      BY <2>3, <3>5 DEF DaeInv, ClientInv, Here
  <2>. QED
    BY <2>1, <2>2, <2>3, OneHolder DEF DaeInv, SequenceWhole, LeaseInv, StartedInv
<1>. QED
  BY <1>1, DaeInvCorrect, PTL

\* Once its calls have returned, a statement without a sequence or a cursor has
\* let go of the connection (the unwinds of param_data.rs and cancel.rs).
THEOREM NotStrandedCorrect == Spec => []NotStranded
<1>1. DaeInv => NotStranded
  BY DEF DaeInv, NotStranded, AtRest, Types, Wires, MonitorInv, LeaseInv, NoCall
<1>. QED
  BY <1>1, DaeInvCorrect, PTL

\* The client never goes back to the idle connection with a half-written
\* request in it (cancel_streamed_write before every release).
THEOREM CleanWhenIdleCorrect == Spec => []CleanWhenIdle
<1>1. DaeInv => CleanWhenIdle
  BY DEF DaeInv, CleanWhenIdle, ClientInv, Usable
<1>. QED
  BY <1>1, DaeInvCorrect, PTL

\* However a sequence ends, the very plan it carried goes back to the statement
\* or is with the call that is putting it there, and it is the newest one: no
\* older plan comes back over it (take_dae, RestorePlan), the one refused
\* SQLExecute of execute.rs 247-259 apart.
THEOREM PlanKeptCorrect == Spec => []PlanKept
<1>1. PlanPlaces => PlanKept
  BY DEF PlanPlaces, PlanKept, PlansHeld
<1>2. DaeInv => PlanKept
  BY <1>1 DEF DaeInv, StartedInv
<1>. QED
  BY <1>2, DaeInvCorrect, PTL

\* What the server got is what the application was told it had supplied, for
\* every mix of buffered and streamed parameters and any number of chunks.
THEOREM ValuesArriveCorrect == Spec => []ValuesArrive
<1>1. DaeInv => ValuesArrive
  BY DEF DaeInv, ValuesInv
<1>. QED
  BY <1>1, DaeInvCorrect, PTL

\* A step that changes the thread of a call or of the SQLCancel that looks at
\* the statement.
LEMMA MonitorMoves ==
    ASSUME [Next]_vars
    PROVE  \/ UNCHANGED <<runner, inspector>>
           \/ \E t \in Threads, fn \in Fns : Start(t, fn)
           \/ Finish
           \/ \E t \in Threads : Inspect(t) \/ CancelReturn(t)
<1>. USE DEF At, monVars
<1>1. ASSUME StageRefused PROVE UNCHANGED <<runner, inspector>>
  BY <1>1 DEF StageRefused
<1>2. ASSUME Stage PROVE UNCHANGED <<runner, inspector>>
  BY <1>2 DEF Stage
<1>3. ASSUME Claim PROVE UNCHANGED <<runner, inspector>>
  BY <1>3 DEF Claim
<1>4. ASSUME ClaimRefused PROVE UNCHANGED <<runner, inspector>>
  BY <1>4 DEF ClaimRefused
<1>5. ASSUME ClaimFailed PROVE UNCHANGED <<runner, inspector>>
  BY <1>5 DEF ClaimFailed
<1>6. ASSUME BeginFails PROVE UNCHANGED <<runner, inspector>>
  BY <1>6 DEF BeginFails
<1>7. ASSUME ParkDeferred PROVE UNCHANGED <<runner, inspector>>
  BY <1>7 DEF ParkDeferred
<1>8. ASSUME ParkStreaming PROVE UNCHANGED <<runner, inspector>>
  BY <1>8 DEF ParkStreaming
<1>9. ASSUME Send PROVE UNCHANGED <<runner, inspector>>
  BY <1>9 DEF Send
<1>10. ASSUME PublishRows PROVE UNCHANGED <<runner, inspector>>
  BY <1>10 DEF PublishRows
<1>11. ASSUME PublishDone PROVE UNCHANGED <<runner, inspector>>
  BY <1>11 DEF PublishDone
<1>12. ASSUME PublishFails PROVE UNCHANGED <<runner, inspector>>
  BY <1>12 DEF PublishFails
<1>13. ASSUME PublishState PROVE UNCHANGED <<runner, inspector>>
  BY <1>13 DEF PublishState
<1>14. ASSUME Fail PROVE UNCHANGED <<runner, inspector>>
  BY <1>14 DEF Fail
<1>15. ASSUME Unwind PROVE UNCHANGED <<runner, inspector>>
  BY <1>15 DEF Unwind
<1>16. ASSUME Close PROVE UNCHANGED <<runner, inspector>>
  BY <1>16 DEF Close
<1>17. ASSUME Settle PROVE UNCHANGED <<runner, inspector>>
  BY <1>17 DEF Settle
<1>18. ASSUME OutOfSequence PROVE UNCHANGED <<runner, inspector>>
  BY <1>18 DEF OutOfSequence
<1>19. ASSUME FirstToken PROVE UNCHANGED <<runner, inspector>>
  BY <1>19 DEF FirstToken, InParamData
<1>20. ASSUME CloseAborts PROVE UNCHANGED <<runner, inspector>>
  BY <1>20 DEF CloseAborts, Closing, InParamData
<1>21. ASSUME CloseBuffered PROVE UNCHANGED <<runner, inspector>>
  BY <1>21 DEF CloseBuffered, Closing, InParamData
<1>22. ASSUME RebuildFails PROVE UNCHANGED <<runner, inspector>>
  BY <1>22 DEF RebuildFails
<1>23. ASSUME OpenRpc PROVE UNCHANGED <<runner, inspector>>
  BY <1>23 DEF OpenRpc
<1>24. ASSUME Opened PROVE UNCHANGED <<runner, inspector>>
  BY <1>24 DEF Opened
<1>25. ASSUME StreamFails PROVE UNCHANGED <<runner, inspector>>
  BY <1>25 DEF StreamFails
<1>26. ASSUME SendDeferred PROVE UNCHANGED <<runner, inspector>>
  BY <1>26 DEF SendDeferred
<1>27. ASSUME Sent PROVE UNCHANGED <<runner, inspector>>
  BY <1>27 DEF Sent
<1>28. ASSUME SendFails PROVE UNCHANGED <<runner, inspector>>
  BY <1>28 DEF SendFails
<1>29. ASSUME CloseStreamed PROVE UNCHANGED <<runner, inspector>>
  BY <1>29 DEF CloseStreamed, Closing, InParamData
<1>30. ASSUME EndParamNext PROVE UNCHANGED <<runner, inspector>>
  BY <1>30 DEF EndParamNext
<1>31. ASSUME EndParamLast PROVE UNCHANGED <<runner, inspector>>
  BY <1>31 DEF EndParamLast
<1>32. ASSUME PutRefused PROVE UNCHANGED <<runner, inspector>>
  BY <1>32 DEF PutRefused, Putting
<1>33. ASSUME PutAborts PROVE UNCHANGED <<runner, inspector>>
  BY <1>33 DEF PutAborts, Putting
<1>34. ASSUME PutNull PROVE UNCHANGED <<runner, inspector>>
  BY <1>34 DEF PutNull, Putting
<1>35. ASSUME NEW n \in 0..1, PutHere(n) PROVE UNCHANGED <<runner, inspector>>
  BY <1>35 DEF PutHere, Putting
<1>36. ASSUME PutStreamed PROVE UNCHANGED <<runner, inspector>>
  BY <1>36 DEF PutStreamed, Putting
<1>37. ASSUME ChunkWritten PROVE UNCHANGED <<runner, inspector>>
  BY <1>37 DEF ChunkWritten
<1>38. ASSUME NEW t \in Threads, Cancel(t) PROVE UNCHANGED <<runner, inspector>>
  BY <1>38 DEF Cancel, M!Cancel
<1>39. ASSUME Look PROVE UNCHANGED <<runner, inspector>>
  BY <1>39 DEF Look, lookRest
<1>40. ASSUME CancelUnwind PROVE UNCHANGED <<runner, inspector>>
  BY <1>40 DEF CancelUnwind, lookRest
<1>41. ASSUME Prepare PROVE UNCHANGED <<runner, inspector>>
  BY <1>41 DEF Prepare
<1>42. ASSUME FreeHandle PROVE UNCHANGED <<runner, inspector>>
  BY <1>42 DEF FreeHandle
<1>43. ASSUME OtherTakes PROVE UNCHANGED <<runner, inspector>>
  BY <1>43 DEF OtherTakes
<1>44. ASSUME OtherReturns PROVE UNCHANGED <<runner, inspector>>
  BY <1>44 DEF OtherReturns
<1>45. ASSUME UNCHANGED vars PROVE UNCHANGED <<runner, inspector>>
  BY <1>45 DEF vars
<1>. QED
  BY <1>1, <1>2, <1>3, <1>4, <1>5, <1>6, <1>7, <1>8, <1>9, <1>10, <1>11, <1>12, <1>13, <1>14,
     <1>15, <1>16, <1>17, <1>18, <1>19, <1>20, <1>21, <1>22, <1>23, <1>24, <1>25, <1>26, <1>27,
     <1>28, <1>29, <1>30, <1>31, <1>32, <1>33, <1>34, <1>35, <1>36, <1>37, <1>38, <1>39, <1>40,
     <1>41, <1>42, <1>43, <1>44, <1>45
     DEF Next, ExecuteStep, EndStep, ParamDataStep, PutDataStep

\* A SQLCancel leaves no sequence behind: not when the call it hit returns, and
\* not when it returns itself having hit none (settle_late_cancellation and the
\* inspection of cancel.rs).
THEOREM CancelEndsCorrect == Spec => CancelEndsSequence
<1>. DEFINE Ends == /\ runner # NoThread /\ runner' = NoThread /\ marked => dae' = NoDae
                    /\ inspector # NoThread /\ inspector' = NoThread => dae' = NoDae
<1>1. ASSUME DaeInv, [Next]_vars PROVE [Ends]_vars
  <2>1. CASE UNCHANGED <<runner, inspector>>
    BY <2>1
  <2>2. ASSUME NEW t \in Threads, NEW fn \in Fns, Start(t, fn) PROVE Ends
    BY <1>1, <2>2 DEF Start, M!Start, DaeInv, MonitorInv
  <2>3. CASE Finish
    BY <1>1, <2>3 DEF Finish, M!Finish, stmtVars, DaeInv, LeaseInv, DaeStops, InFlight, NeedsData
  <2>4. ASSUME NEW t \in Threads, Inspect(t) PROVE Ends
    BY <1>1, <2>4 DEF Inspect, M!Inspect, DaeInv, MonitorInv
  <2>5. ASSUME NEW t \in Threads, CancelReturn(t) PROVE Ends
    BY <1>1, <2>5 DEF CancelReturn, M!Return, stmtVars, DaeInv, MonitorInv, SequenceInv, NeedsData
  <2>. QED
    BY <1>1, <2>1, <2>2, <2>3, <2>4, <2>5, MonitorMoves
<1>. QED
  BY <1>1, DaeInvCorrect, PTL DEF Spec, CancelEndsSequence
=============================================================================
