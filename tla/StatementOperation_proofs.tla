---------------------- MODULE StatementOperation_proofs ----------------------
(***************************************************************************)
(* The operation guard of a statement handle is correct for any number of  *)
(* threads and calls: the registry invariant, what a SQLCancel reaches and *)
(* what it does not, and the refinement of StatementMonitor.               *)
(***************************************************************************)
EXTENDS StatementOperation, TLAPS

USE ThreadAssumption, KindsAssumption, CallsAssumption

\* Every step of a thread keeps the types.
LEMMA TypeStep ==
    ASSUME TypeOK, [Next]_vars
    PROVE  TypeOK'
  <1> USE DEF TypeOK, Inside, Entering, Counted, Cancelling, ACTIVE, NOTIFY, Cursors, Tokens,
              AllKinds, regVars
  <1>1. ASSUME NEW t \in Threads, NEW k \in Kinds, Begin(t, k)
        PROVE  TypeOK'
    <2>1. calls' \in 0..MaxCalls
      BY <1>1 DEF Begin, Call
    <2>2. kind' \in [Threads -> AllKinds \cup {"None"}]
      BY <1>1 DEF Begin, Call
    <2>3. /\ pc' \in [Threads -> {"Idle"} \cup Inside \cup Entering \cup Cancelling]
          /\ operation_state' \subseteq {ACTIVE, NOTIFY} /\ signalled' \in BOOLEAN
      BY <1>1 DEF Begin, Goto
    <2> QED
      BY <1>1, <2>1, <2>2, <2>3 DEF Begin
  <1>2. ASSUME NEW t \in Threads, SlowLock(t)
        PROVE  TypeOK'
    BY <1>2 DEF SlowLock, Lock, Goto
  <1>3. ASSUME NEW t \in Threads, SlowCheck(t)
        PROVE  TypeOK'
    <2>1. CASE MustWait
      BY <1>3, <2>1 DEF SlowCheck, Unlock, Goto
    <2>2. CASE ~MustWait
      BY <1>3, <2>2 DEF SlowCheck, Unlock, Goto
    <2> QED
      BY <2>1, <2>2
  <1>4. ASSUME NEW t \in Threads, SlowWake(t)
        PROVE  TypeOK'
    BY <1>4 DEF SlowWake, Lock, Goto
  <1>5. ASSUME NEW t \in Threads, SlowStore(t)
        PROVE  TypeOK'
    BY <1>5 DEF SlowStore, EnterState, Unlock, Goto
  <1>6. ASSUME NEW t \in Threads, RunExec(t)
        PROVE  TypeOK'
    BY <1>6 DEF RunExec, LockBriefly, InheritedRequest, bodyRest, Goto
  <1>7. ASSUME NEW t \in Threads, RunRead(t)
        PROVE  TypeOK'
    BY <1>7 DEF RunRead, bodyRest, Goto
  <1>8. ASSUME NEW t \in Threads, Answered(t)
        PROVE  TypeOK'
    BY <1>8 DEF Answered, bodyRest, Goto
  <1>9. ASSUME NEW t \in Threads, Interrupted(t)
        PROVE  TypeOK'
    BY <1>9 DEF Interrupted, bodyRest, Goto
  <1>10. ASSUME NEW t \in Threads, RunClose(t)
        PROVE  TypeOK'
    BY <1>10 DEF RunClose, bodyRest, Goto
  <1>11. ASSUME NEW t \in Threads, FinishFast(t)
        PROVE  TypeOK'
    BY <1>11 DEF FinishFast, Return, finishRest, Goto
  <1>12. ASSUME NEW t \in Threads, FinishContended(t)
        PROVE  TypeOK'
    BY <1>12 DEF FinishContended, finishRest, Goto
  <1>13. ASSUME NEW t \in Threads, FinishSlow(t)
        PROVE  TypeOK'
    <2>1. CASE requested
      BY <1>13, <2>1 DEF FinishSlow, LockBriefly, Notify, Return, finishRest, Goto
    <2>2. CASE ~requested
      BY <1>13, <2>2 DEF FinishSlow, LockBriefly, Notify, Return, finishRest, Goto
    <2> QED
      BY <2>1, <2>2
  <1>14. ASSUME NEW t \in Threads, Settle(t)
        PROVE  TypeOK'
    BY <1>14 DEF Settle, SettledCursor, finishRest, Goto
  <1>15. ASSUME NEW t \in Threads, DropSlow(t)
        PROVE  TypeOK'
    BY <1>15 DEF DropSlow, LockBriefly, ReplaceHandle, DropNotify, Notify, Return, finishRest, Goto
  <1>16. ASSUME NEW t \in Threads, CancelCall(t)
        PROVE  TypeOK'
    BY <1>16 DEF CancelCall, Lock, Goto
  <1>17. ASSUME NEW t \in Threads, CancelSignal(t)
        PROVE  TypeOK'
    BY <1>17 DEF CancelSignal, Goto
  <1>18. ASSUME NEW t \in Threads, CancelCheck(t)
        PROVE  TypeOK'
    <2>1. CASE CancelMustWait
      BY <1>18, <2>1 DEF CancelCheck, Unlock, Goto
    <2>2. CASE ~CancelMustWait
      BY <1>18, <2>2 DEF CancelCheck, Unlock, Goto
    <2> QED
      BY <2>1, <2>2
  <1>19. ASSUME NEW t \in Threads, CancelWake(t)
        PROVE  TypeOK'
    BY <1>19 DEF CancelWake, Lock, Goto
  <1>20. ASSUME NEW t \in Threads, Inspect(t)
        PROVE  TypeOK'
    BY <1>20 DEF Inspect, Goto
  <1>21. ASSUME NEW t \in Threads, CancelDrop(t)
        PROVE  TypeOK'
    BY <1>21 DEF CancelDrop, LockBriefly, Notify, Return, Goto
  <1>22. ASSUME NEW t \in Threads, SpuriousWake(t)
        PROVE  TypeOK'
    BY <1>22 DEF SpuriousWake
  <1>23. CASE UNCHANGED vars
    BY <1>23 DEF vars
  <1> QED
    BY <1>1, <1>2, <1>3, <1>4, <1>5, <1>6, <1>7, <1>8, <1>9, <1>10, <1>11, <1>12, <1>13, <1>14,
       <1>15, <1>16, <1>17, <1>18, <1>19, <1>20, <1>21, <1>22, <1>23
       DEF Next, EnterStep, BodyStep, FinishStep, CancelStep

---------------------------------------------------------------------------
(* The registry.                                                           *)


\* begin_operation, on the fast path and under the mutex, keeps the registry.
LEMMA EnterKeeps ==
    ASSUME RegistryInv, NEW t \in Threads,
           \/ (\E k \in Kinds : Begin(t, k))
           \/ SlowLock(t)
           \/ SlowCheck(t)
           \/ SlowWake(t)
           \/ SlowStore(t),
           TypeOK'
    PROVE  RegistryInv'
  <1> USE DEF RegistryInv, TypeOK, GuardIsBit, BitIsGuard, OneCall, MutexHeld, WaitersCounted,
              NotifyKept, StoreAlone, FenceHeld, FenceOfOne, HitIsActive, RequestIsCurrent,
              Inside, Entering, Counted, Cancelling, Locked, ACTIVE, NOTIFY, regVars
  \* Nobody waits or cancels when the word is zero, so the fast path hides from nobody.
  <1>1. ASSUME NEW k \in Kinds, Begin(t, k)
        PROVE  RegistryInv'
    <2> USE <1>1 DEF Begin, Call, FastFree, Goto
    <2>1. (GuardIsBit /\ BitIsGuard /\ OneCall)'
      OBVIOUS
    <2>2. (MutexHeld /\ WaitersCounted)'
      OBVIOUS
    <2>3. (NotifyKept /\ StoreAlone)'
      OBVIOUS
    <2>4. (FenceHeld /\ FenceOfOne /\ HitIsActive)'
      OBVIOUS
    <2>5. RequestIsCurrent'
      OBVIOUS
    <2> QED
      BY <2>1, <2>2, <2>3, <2>4, <2>5
  <1>2. CASE SlowLock(t)
    BY <1>2 DEF SlowLock, Lock, Goto
  <1>3. CASE SlowCheck(t)
    BY <1>3 DEF SlowCheck, MustWait, Unlock, Goto
  <1>4. CASE SlowWake(t)
    BY <1>4 DEF SlowWake, Lock, Goto
  \* The calls left behind are those in operation_waiters: no SQLCancel is about.
  <1>5. CASE SlowStore(t)
    <2> USE <1>5 DEF SlowStore, EnterState, Unlock, Goto
    <2>1. (GuardIsBit /\ BitIsGuard /\ OneCall)'
      OBVIOUS
    <2>2. (MutexHeld /\ WaitersCounted)'
      OBVIOUS
    <2>3. (NotifyKept /\ StoreAlone)'
      OBVIOUS
    <2>4. (FenceHeld /\ FenceOfOne /\ HitIsActive)'
      OBVIOUS
    <2>5. RequestIsCurrent'
      OBVIOUS
    <2> QED
      BY <2>1, <2>2, <2>3, <2>4, <2>5
  <1> QED
    BY <1>1, <1>2, <1>3, <1>4, <1>5

\* The body of a call does not touch the registry.
LEMMA BodyKeeps ==
    ASSUME RegistryInv, NEW t \in Threads,
           \/ RunExec(t)
           \/ RunRead(t)
           \/ Answered(t)
           \/ Interrupted(t)
           \/ RunClose(t),
           TypeOK'
    PROVE  RegistryInv'
  <1> USE DEF RegistryInv, TypeOK, GuardIsBit, BitIsGuard, OneCall, MutexHeld, WaitersCounted,
              NotifyKept, StoreAlone, FenceHeld, FenceOfOne, HitIsActive, RequestIsCurrent,
              Inside, Entering, Counted, Cancelling, Locked, ACTIVE, NOTIFY, regVars
  <1>1. CASE RunExec(t)
    BY <1>1 DEF RunExec, LockBriefly, InheritedRequest, bodyRest, Goto
  <1>2. CASE RunRead(t)
    BY <1>2 DEF RunRead, bodyRest, Goto
  <1>3. CASE Answered(t)
    BY <1>3 DEF Answered, bodyRest, Goto
  <1>4. CASE Interrupted(t)
    BY <1>4 DEF Interrupted, bodyRest, Goto
  <1>5. CASE RunClose(t)
    BY <1>5 DEF RunClose, bodyRest, Goto
  <1> QED
    BY <1>1, <1>2, <1>3, <1>4, <1>5

\* finish_operation, the settlement and the drop of the guard keep the registry.
LEMMA FinishKeeps ==
    ASSUME RegistryInv, NEW t \in Threads,
           \/ FinishFast(t)
           \/ FinishContended(t)
           \/ FinishSlow(t)
           \/ Settle(t)
           \/ DropSlow(t),
           TypeOK'
    PROVE  RegistryInv'
  <1> USE DEF RegistryInv, TypeOK, GuardIsBit, BitIsGuard, OneCall, MutexHeld, WaitersCounted,
              NotifyKept, StoreAlone, FenceHeld, FenceOfOne, HitIsActive, RequestIsCurrent,
              Inside, Entering, Counted, Cancelling, Locked, ACTIVE, NOTIFY, regVars
  \* Without the NOTIFY bit nobody waits, and no request is on the record.
  <1>1. CASE FinishFast(t)
    <2> USE <1>1 DEF FinishFast, Return, finishRest, Goto
    <2>1. (GuardIsBit /\ BitIsGuard /\ OneCall)'
      OBVIOUS
    <2>2. (MutexHeld /\ WaitersCounted)'
      OBVIOUS
    <2>3. (NotifyKept /\ StoreAlone)'
      OBVIOUS
    <2>4. (FenceHeld /\ FenceOfOne /\ HitIsActive)'
      OBVIOUS
    <2>5. RequestIsCurrent'
      OBVIOUS
    <2> QED
      BY <2>1, <2>2, <2>3, <2>4, <2>5
  <1>2. CASE FinishContended(t)
    BY <1>2 DEF FinishContended, finishRest, Goto
  <1>3. CASE FinishSlow(t)
    <2> USE <1>3 DEF FinishSlow, LockBriefly, Notify, Return, finishRest, Goto
    <2>1. (GuardIsBit /\ BitIsGuard /\ OneCall)'
      OBVIOUS
    <2>2. (MutexHeld /\ WaitersCounted)'
      OBVIOUS
    <2>3. (NotifyKept /\ StoreAlone)'
      OBVIOUS
    <2>4. (FenceHeld /\ FenceOfOne /\ HitIsActive)'
      OBVIOUS
    <2>5. RequestIsCurrent'
      OBVIOUS
    <2> QED
      BY <2>1, <2>2, <2>3, <2>4, <2>5
  <1>4. CASE Settle(t)
    BY <1>4 DEF Settle, SettledCursor, finishRest, Goto
  <1>5. CASE DropSlow(t)
    <2> USE <1>5 DEF DropSlow, LockBriefly, ReplaceHandle, DropNotify, Notify, Return, finishRest,
    Goto
    <2>1. (GuardIsBit /\ BitIsGuard /\ OneCall)'
      OBVIOUS
    <2>2. (MutexHeld /\ WaitersCounted)'
      OBVIOUS
    <2>3. (NotifyKept /\ StoreAlone)'
      OBVIOUS
    <2>4. (FenceHeld /\ FenceOfOne /\ HitIsActive)'
      OBVIOUS
    <2>5. RequestIsCurrent'
      OBVIOUS
    <2> QED
      BY <2>1, <2>2, <2>3, <2>4, <2>5
  <1> QED
    BY <1>1, <1>2, <1>3, <1>4, <1>5

\* SQLCancel notes whether it found a call running.
LEMMA HitKnown ==
    ASSUME TypeOK, NEW t \in Threads, CancelCall(t)
    PROVE  interrupted'[t] = (ACTIVE \in operation_state)
  <1>1. interrupted \in [Threads -> BOOLEAN]
    BY DEF TypeOK
  <1>2. interrupted' = [interrupted EXCEPT ![t] = ACTIVE \in operation_state]
    BY DEF CancelCall
  <1> QED
    BY <1>1, <1>2, Zenon

\* cancel_operation and its end keep the registry.
LEMMA CancelKeeps ==
    ASSUME RegistryInv, NEW t \in Threads,
           \/ CancelCall(t)
           \/ CancelSignal(t)
           \/ CancelCheck(t)
           \/ CancelWake(t)
           \/ Inspect(t)
           \/ CancelDrop(t)
           \/ SpuriousWake(t),
           TypeOK'
    PROVE  RegistryInv'
  <1> USE DEF RegistryInv, TypeOK, GuardIsBit, BitIsGuard, OneCall, MutexHeld, WaitersCounted,
              NotifyKept, StoreAlone, FenceHeld, FenceOfOne, HitIsActive, RequestIsCurrent,
              Inside, Entering, Counted, Cancelling, Locked, ACTIVE, NOTIFY, regVars
  <1>1. CASE CancelCall(t)
    <2> USE <1>1 DEF CancelCall, Lock, Goto
    <2>1. (GuardIsBit /\ BitIsGuard /\ OneCall)'
      OBVIOUS
    <2>2. (MutexHeld /\ WaitersCounted)'
      OBVIOUS
    <2>3. (NotifyKept /\ StoreAlone)'
      OBVIOUS
    <2>4. (FenceHeld /\ FenceOfOne)'
      OBVIOUS
    <2>5. HitIsActive'
      <3>1. interrupted'[t] = (ACTIVE \in operation_state)
        BY HitKnown
      <3>2. ACTIVE \in operation_state <=> ACTIVE \in operation_state'
        OBVIOUS
      <3>3. ASSUME NEW u \in Threads, u # t
            PROVE  pc'[u] # "CancelSignal"
        BY <3>3
      <3> QED
        BY <3>1, <3>2, <3>3, Zenon
    <2>6. RequestIsCurrent'
      OBVIOUS
    <2> QED
      BY <2>1, <2>2, <2>3, <2>4, <2>5, <2>6
  <1>2. CASE CancelSignal(t)
    <2> USE <1>2 DEF CancelSignal, Goto
    <2>1. (GuardIsBit /\ BitIsGuard /\ OneCall)'
      OBVIOUS
    <2>2. (MutexHeld /\ WaitersCounted)'
      OBVIOUS
    <2>3. (NotifyKept /\ StoreAlone)'
      OBVIOUS
    <2>4. (FenceHeld /\ FenceOfOne /\ HitIsActive)'
      OBVIOUS
    <2>5. RequestIsCurrent'
      OBVIOUS
    <2> QED
      BY <2>1, <2>2, <2>3, <2>4, <2>5
  <1>3. CASE CancelCheck(t)
    <2> USE <1>3 DEF CancelCheck, CancelMustWait, Unlock, Goto
    <2>1. (GuardIsBit /\ BitIsGuard /\ OneCall)'
      OBVIOUS
    <2>2. (MutexHeld /\ WaitersCounted)'
      OBVIOUS
    <2>3. (NotifyKept /\ StoreAlone)'
      OBVIOUS
    <2>4. (FenceHeld /\ FenceOfOne /\ HitIsActive)'
      OBVIOUS
    <2>5. RequestIsCurrent'
      OBVIOUS
    <2> QED
      BY <2>1, <2>2, <2>3, <2>4, <2>5
  <1>4. CASE CancelWake(t)
    BY <1>4 DEF CancelWake, Lock, Goto
  <1>5. CASE Inspect(t)
    BY <1>5 DEF Inspect, Goto
  <1>6. CASE CancelDrop(t)
    <2> USE <1>6 DEF CancelDrop, LockBriefly, Notify, Return, Goto
    <2>1. (GuardIsBit /\ BitIsGuard /\ OneCall)'
      OBVIOUS
    <2>2. (MutexHeld /\ WaitersCounted)'
      OBVIOUS
    <2>3. (NotifyKept /\ StoreAlone)'
      OBVIOUS
    <2>4. (FenceHeld /\ FenceOfOne /\ HitIsActive)'
      OBVIOUS
    <2>5. RequestIsCurrent'
      OBVIOUS
    <2> QED
      BY <2>1, <2>2, <2>3, <2>4, <2>5
  <1>7. CASE SpuriousWake(t)
    BY <1>7 DEF SpuriousWake
  <1> QED
    BY <1>1, <1>2, <1>3, <1>4, <1>5, <1>6, <1>7
\* The registry of a statement is right in every reachable state: a call runs
\* alone, the ACTIVE bit is its guard, the NOTIFY bit stands for everybody who
\* must be woken, a SQLCancel that inspects the statement is alone with it, and
\* the request on the record is that of the call in progress.
THEOREM RegistryCorrect == Spec => []RegistryInv
  <1>1. Init => RegistryInv
    <2> SUFFICES ASSUME Init PROVE RegistryInv
      OBVIOUS
    <2> USE DEF Init
    <2>1. TypeOK
      <3>1. interrupted \in [Threads -> BOOLEAN]
        OBVIOUS
      <3>2. /\ pc \in [Threads -> {"Idle"} \cup Inside \cup Entering \cup Cancelling]
            /\ kind \in [Threads -> AllKinds \cup {"None"}]
        OBVIOUS
      <3>3. calls \in 0..MaxCalls /\ cursor \in Cursors /\ token \in Tokens
        BY DEF Cursors, Tokens
      <3>4. operation_state \subseteq {ACTIVE, NOTIFY}
        OBVIOUS
      <3> QED
        BY <3>1, <3>2, <3>3, <3>4 DEF TypeOK
    <2>2. GuardIsBit /\ BitIsGuard /\ OneCall /\ MutexHeld /\ WaitersCounted
      BY DEF GuardIsBit, BitIsGuard, OneCall, MutexHeld, WaitersCounted, Inside, Locked, Counted
    <2>3. NotifyKept /\ StoreAlone /\ FenceHeld /\ FenceOfOne /\ HitIsActive
      BY DEF NotifyKept, StoreAlone, FenceHeld, FenceOfOne, HitIsActive, Counted, Cancelling
    <2>4. RequestIsCurrent
      BY DEF RequestIsCurrent, Inside
    <2> QED
      BY <2>1, <2>2, <2>3, <2>4 DEF RegistryInv
  <1>2. RegistryInv /\ [Next]_vars => RegistryInv'
    <2> SUFFICES ASSUME RegistryInv, [Next]_vars
                 PROVE  RegistryInv'
      OBVIOUS
    <2>1. TypeOK'
      BY TypeStep DEF RegistryInv
    <2>2. CASE UNCHANGED vars
      BY <2>2 DEF vars, regVars, RegistryInv, TypeOK, GuardIsBit, BitIsGuard, OneCall, MutexHeld,
                  WaitersCounted, NotifyKept, StoreAlone, FenceHeld, FenceOfOne, HitIsActive,
                  RequestIsCurrent
    <2>3. CASE Next
      BY <2>1, <2>3, EnterKeeps, BodyKeeps, FinishKeeps, CancelKeeps
         DEF Next, EnterStep, BodyStep, FinishStep, CancelStep
    <2> QED
      BY <2>2, <2>3
  <1> QED
    BY <1>1, <1>2, PTL DEF Spec

---------------------------------------------------------------------------
(* What a SQLCancel reaches.                                               *)

OpenCursor == cursor \in {"Pending", "Error"}

\* Neither property is inductive.  The handle is cancelled exactly while the
\* call in progress is signalled, and the token of an open response is the
\* child of a handle that was not replaced before it was cancelled.
LatchIsSignal == latched <=> signalled
TokenLive == OpenCursor \/ (\E t \in Threads : pc[t] = "Io") => token # "Stale"
KindsCalled == \A t \in Threads : kind[t] \in Kinds \cup {"None"}
SignalInv == LatchIsSignal /\ TokenLive /\ KindsCalled

\* Without SQLCloseCursor, whoever gives the guard up with a signal on the
\* record has closed the response, and no cancelled token is left to read by.
SettledAtDrop == \A t \in Threads : pc[t] \in {"Drop", "DropSlow"} => ~OpenCursor
CancelledIsClosed ==
    token = "Cancelled" => ~OpenCursor /\ \A t \in Threads : pc[t] # "Io"
ScopeInv == SettledAtDrop /\ CancelledIsClosed

\* Every step keeps the signal, the latch and the tokens together.
LEMMA SignalStep ==
    ASSUME RegistryInv, SignalInv, [Next]_vars
    PROVE  SignalInv'
  <1> USE DEF SignalInv, LatchIsSignal, TokenLive, KindsCalled, OpenCursor, RegistryInv, TypeOK,
              GuardIsBit, OneCall, StoreAlone, HitIsActive, RequestIsCurrent, Inside, ACTIVE,
              NOTIFY,
              Cursors, Tokens, regVars
  <1>1. ASSUME NEW t \in Threads, NEW k \in Kinds, Begin(t, k)
        PROVE  SignalInv'
    BY <1>1 DEF Begin, Call, FastFree, Goto
  <1>2. ASSUME NEW t \in Threads, SlowLock(t)
        PROVE  SignalInv'
    BY <1>2 DEF SlowLock, Lock, Goto
  <1>3. ASSUME NEW t \in Threads, SlowCheck(t)
        PROVE  SignalInv'
    BY <1>3 DEF SlowCheck, MustWait, Unlock, Goto
  <1>4. ASSUME NEW t \in Threads, SlowWake(t)
        PROVE  SignalInv'
    BY <1>4 DEF SlowWake, Lock, Goto
  <1>5. ASSUME NEW t \in Threads, SlowStore(t)
        PROVE  SignalInv'
    BY <1>5 DEF SlowStore, EnterState, Unlock, Goto
  <1>6. ASSUME NEW t \in Threads, RunExec(t)
        PROVE  SignalInv'
    BY <1>6 DEF RunExec, LockBriefly, InheritedRequest, bodyRest, Goto
  <1>7. ASSUME NEW t \in Threads, RunRead(t)
        PROVE  SignalInv'
    BY <1>7 DEF RunRead, bodyRest, Goto
  <1>8. ASSUME NEW t \in Threads, Answered(t)
        PROVE  SignalInv'
    BY <1>8 DEF Answered, bodyRest, Goto
  <1>9. ASSUME NEW t \in Threads, Interrupted(t)
        PROVE  SignalInv'
    BY <1>9 DEF Interrupted, bodyRest, Goto
  <1>10. ASSUME NEW t \in Threads, RunClose(t)
        PROVE  SignalInv'
    BY <1>10 DEF RunClose, bodyRest, Goto
  <1>11. ASSUME NEW t \in Threads, FinishFast(t)
        PROVE  SignalInv'
    BY <1>11 DEF FinishFast, Return, finishRest, Goto
  <1>12. ASSUME NEW t \in Threads, FinishContended(t)
        PROVE  SignalInv'
    BY <1>12 DEF FinishContended, finishRest, Goto
  <1>13. ASSUME NEW t \in Threads, FinishSlow(t)
        PROVE  SignalInv'
    BY <1>13 DEF FinishSlow, LockBriefly, Notify, Return, finishRest, Goto
  <1>14. ASSUME NEW t \in Threads, Settle(t)
        PROVE  SignalInv'
    BY <1>14 DEF Settle, SettledCursor, finishRest, Goto
  <1>15. ASSUME NEW t \in Threads, DropSlow(t)
        PROVE  SignalInv'
    BY <1>15 DEF DropSlow, LockBriefly, ReplaceHandle, DropNotify, Notify, Return, finishRest, Goto
  <1>16. ASSUME NEW t \in Threads, CancelCall(t)
        PROVE  SignalInv'
    BY <1>16 DEF CancelCall, Lock, Goto
  <1>17. ASSUME NEW t \in Threads, CancelSignal(t)
        PROVE  SignalInv'
    BY <1>17 DEF CancelSignal, Goto
  <1>18. ASSUME NEW t \in Threads, CancelCheck(t)
        PROVE  SignalInv'
    BY <1>18 DEF CancelCheck, CancelMustWait, Unlock, Goto
  <1>19. ASSUME NEW t \in Threads, CancelWake(t)
        PROVE  SignalInv'
    BY <1>19 DEF CancelWake, Lock, Goto
  <1>20. ASSUME NEW t \in Threads, Inspect(t)
        PROVE  SignalInv'
    BY <1>20 DEF Inspect, Goto
  <1>21. ASSUME NEW t \in Threads, CancelDrop(t)
        PROVE  SignalInv'
    BY <1>21 DEF CancelDrop, LockBriefly, Notify, Return, Goto
  <1>22. ASSUME NEW t \in Threads, SpuriousWake(t)
        PROVE  SignalInv'
    BY <1>22 DEF SpuriousWake
  <1>23. CASE UNCHANGED vars
    BY <1>23 DEF vars
  <1> QED
    BY <1>1, <1>2, <1>3, <1>4, <1>5, <1>6, <1>7, <1>8, <1>9, <1>10, <1>11, <1>12, <1>13, <1>14,
       <1>15, <1>16, <1>17, <1>18, <1>19, <1>20, <1>21, <1>22, <1>23
       DEF Next, EnterStep, BodyStep, FinishStep, CancelStep

\* Every step leaves a cancelled token behind a closed response only.
LEMMA ScopeStep ==
    ASSUME "CloseCursor" \notin Kinds, RegistryInv, SignalInv, ScopeInv, [Next]_vars
    PROVE  ScopeInv'
  <1> USE DEF ScopeInv, SettledAtDrop, CancelledIsClosed, SignalInv, KindsCalled, OpenCursor,
              RegistryInv, TypeOK, OneCall, Inside, Cursors, Tokens, regVars
  <1>1. ASSUME NEW t \in Threads, NEW k \in Kinds, Begin(t, k)
        PROVE  ScopeInv'
    BY <1>1 DEF Begin, Call, FastFree, Goto
  <1>2. ASSUME NEW t \in Threads, SlowLock(t)
        PROVE  ScopeInv'
    BY <1>2 DEF SlowLock, Lock, Goto
  <1>3. ASSUME NEW t \in Threads, SlowCheck(t)
        PROVE  ScopeInv'
    BY <1>3 DEF SlowCheck, MustWait, Unlock, Goto
  <1>4. ASSUME NEW t \in Threads, SlowWake(t)
        PROVE  ScopeInv'
    BY <1>4 DEF SlowWake, Lock, Goto
  <1>5. ASSUME NEW t \in Threads, SlowStore(t)
        PROVE  ScopeInv'
    BY <1>5 DEF SlowStore, EnterState, Unlock, Goto
  <1>6. ASSUME NEW t \in Threads, RunExec(t)
        PROVE  ScopeInv'
    BY <1>6 DEF RunExec, LockBriefly, InheritedRequest, bodyRest, Goto
  <1>7. ASSUME NEW t \in Threads, RunRead(t)
        PROVE  ScopeInv'
    BY <1>7 DEF RunRead, bodyRest, Goto
  <1>8. ASSUME NEW t \in Threads, Answered(t)
        PROVE  ScopeInv'
    BY <1>8 DEF Answered, bodyRest, Goto
  <1>9. ASSUME NEW t \in Threads, Interrupted(t)
        PROVE  ScopeInv'
    BY <1>9 DEF Interrupted, bodyRest, Goto
  <1>10. ASSUME NEW t \in Threads, RunClose(t)
        PROVE  ScopeInv'
    BY <1>10 DEF RunClose, bodyRest, Goto
  <1>11. ASSUME NEW t \in Threads, FinishFast(t)
        PROVE  ScopeInv'
    BY <1>11 DEF FinishFast, Return, finishRest, Goto
  <1>12. ASSUME NEW t \in Threads, FinishContended(t)
        PROVE  ScopeInv'
    BY <1>12 DEF FinishContended, finishRest, Goto
  <1>13. ASSUME NEW t \in Threads, FinishSlow(t)
        PROVE  ScopeInv'
    BY <1>13 DEF FinishSlow, LockBriefly, Notify, Return, finishRest, Goto
  <1>14. ASSUME NEW t \in Threads, Settle(t)
        PROVE  ScopeInv'
    BY <1>14 DEF Settle, SettledCursor, finishRest, Goto
  <1>15. ASSUME NEW t \in Threads, DropSlow(t)
        PROVE  ScopeInv'
    BY <1>15 DEF DropSlow, LockBriefly, ReplaceHandle, DropNotify, Notify, Return, finishRest, Goto
  <1>16. ASSUME NEW t \in Threads, CancelCall(t)
        PROVE  ScopeInv'
    BY <1>16 DEF CancelCall, Lock, Goto
  <1>17. ASSUME NEW t \in Threads, CancelSignal(t)
        PROVE  ScopeInv'
    BY <1>17 DEF CancelSignal, Goto
  <1>18. ASSUME NEW t \in Threads, CancelCheck(t)
        PROVE  ScopeInv'
    BY <1>18 DEF CancelCheck, CancelMustWait, Unlock, Goto
  <1>19. ASSUME NEW t \in Threads, CancelWake(t)
        PROVE  ScopeInv'
    BY <1>19 DEF CancelWake, Lock, Goto
  <1>20. ASSUME NEW t \in Threads, Inspect(t)
        PROVE  ScopeInv'
    BY <1>20 DEF Inspect, Goto
  <1>21. ASSUME NEW t \in Threads, CancelDrop(t)
        PROVE  ScopeInv'
    BY <1>21 DEF CancelDrop, LockBriefly, Notify, Return, Goto
  <1>22. ASSUME NEW t \in Threads, SpuriousWake(t)
        PROVE  ScopeInv'
    BY <1>22 DEF SpuriousWake
  <1>23. CASE UNCHANGED vars
    BY <1>23 DEF vars
  <1> QED
    BY <1>1, <1>2, <1>3, <1>4, <1>5, <1>6, <1>7, <1>8, <1>9, <1>10, <1>11, <1>12, <1>13, <1>14,
       <1>15, <1>16, <1>17, <1>18, <1>19, <1>20, <1>21, <1>22, <1>23
       DEF Next, EnterStep, BodyStep, FinishStep, CancelStep

\* A SQLCancel that hits a call reaches the wait the call is in, for any number
\* of threads and calls.
THEOREM SignalCorrect == Spec => []SignalReaches
  <1>1. Init => SignalInv
    BY DEF Init, SignalInv, LatchIsSignal, TokenLive, KindsCalled, OpenCursor
  <1>2. RegistryInv /\ SignalInv /\ [Next]_vars => SignalInv'
    BY SignalStep
  <1>3. RegistryInv /\ SignalInv => SignalReaches
    BY DEF RegistryInv, TypeOK, SignalInv, LatchIsSignal, TokenLive, SignalReaches,
           TokenCancelled, Tokens
  <1> QED
    BY <1>1, <1>2, <1>3, RegistryCorrect, PTL DEF Spec

\* An application that never calls SQLCloseCursor never has a call interrupted
\* by a SQLCancel that was meant for an earlier one.  The assumption is needed:
\* SQLCloseCursor keeps an error result and does not settle the signal.
THEOREM CancelScoped ==
    ASSUME "CloseCursor" \notin Kinds
    PROVE  Spec => []NoStrayCancel
  <1>1. Init => SignalInv /\ ScopeInv
    BY DEF Init, SignalInv, LatchIsSignal, TokenLive, KindsCalled, OpenCursor,
           ScopeInv, SettledAtDrop, CancelledIsClosed
  <1>2. RegistryInv /\ SignalInv /\ ScopeInv /\ [Next]_vars => SignalInv' /\ ScopeInv'
    BY SignalStep, ScopeStep
  <1>3. SignalInv /\ ScopeInv => NoStrayCancel
    BY DEF SignalInv, LatchIsSignal, ScopeInv, CancelledIsClosed, NoStrayCancel, TokenCancelled
  <1> QED
    BY <1>1, <1>2, <1>3, RegistryCorrect, PTL DEF Spec

---------------------------------------------------------------------------
(* The guard implements the monitor.                                       *)

\* Who holds a place that only one thread can be at.
LEMMA HolderIs ==
    ASSUME NEW at, NEW S, NEW t \in Threads, at[t] \in S,
           \A u \in Threads : at[u] \in S => u = t
    PROVE  Holder(at, S) = t
  BY DEF Holder

\* Nobody is at the place.
LEMMA HolderNone ==
    ASSUME NEW at, NEW S, \A u \in Threads : at[u] \notin S
    PROVE  Holder(at, S) = NoThread
  BY DEF Holder

\* The holder is the same while nobody enters or leaves the place.
LEMMA HolderSame ==
    ASSUME NEW at, NEW bt, NEW S,
           \A t, u \in Threads : at[t] \in S /\ at[u] \in S => t = u,
           \A u \in Threads : at[u] \in S <=> bt[u] \in S
    PROVE  Holder(at, S) = Holder(bt, S)
  <1>1. CASE \E t \in Threads : at[t] \in S
    <2>1. PICK t \in Threads : at[t] \in S
      BY <1>1
    <2>2. Holder(at, S) = t
      BY <2>1, HolderIs
    <2>3. Holder(bt, S) = t
      BY <2>1, HolderIs
    <2> QED
      BY <2>2, <2>3
  <1>2. CASE ~\E t \in Threads : at[t] \in S
    BY <1>2 DEF Holder
  <1> QED
    BY <1>1, <1>2

\* Where the guard and the fence are, in terms of the abstract monitor.
LEMMA MonitorState ==
    ASSUME RegistryInv
    PROVE  /\ \A t \in Threads : pc[t] \in Inside => Runner = t
           /\ ACTIVE \notin operation_state => Runner = NoThread
           /\ ACTIVE \in operation_state => Runner # NoThread
           /\ \A t \in Threads : pc[t] \in {"Inspect", "CancelDrop"} => Inspector = t
           /\ ~cancelling => Inspector = NoThread
  <1>1. \A t \in Threads : pc[t] \in Inside => Runner = t
    BY HolderIs DEF Runner, RegistryInv, OneCall
  <1>2. ACTIVE \notin operation_state => Runner = NoThread
    BY HolderNone DEF Runner, RegistryInv, GuardIsBit
  <1>3. ACTIVE \in operation_state => Runner # NoThread
    BY <1>1 DEF RegistryInv, BitIsGuard
  <1>4. \A t \in Threads : pc[t] \in {"Inspect", "CancelDrop"} => Inspector = t
    BY HolderIs DEF Inspector, RegistryInv, FenceOfOne
  <1>5. ~cancelling => Inspector = NoThread
    BY HolderNone DEF Inspector, RegistryInv, FenceHeld
  <1> QED
    BY <1>1, <1>2, <1>3, <1>4, <1>5

\* A thread that neither enters nor leaves the guard does not change the runner,
\* and one that neither enters nor leaves the fence not the inspector.
LEMMA SameRunner ==
    ASSUME RegistryInv, \A u \in Threads : pc[u] \in Inside <=> pc'[u] \in Inside
    PROVE  Runner' = Runner
  BY HolderSame DEF Runner, RegistryInv, OneCall

\* The inspector is the same while nobody enters or leaves.
LEMMA SameInspector ==
    ASSUME RegistryInv,
           \A u \in Threads : pc[u] \in {"Inspect", "CancelDrop"}
                                <=> pc'[u] \in {"Inspect", "CancelDrop"}
    PROVE  Inspector' = Inspector
  BY HolderSame DEF Inspector, RegistryInv, FenceOfOne

\* Most steps are invisible to the callers of the monitor.
LEMMA Stutters ==
    ASSUME RegistryInv, NEW t \in Threads, NEW l, pc' = [pc EXCEPT ![t] = l],
           pc[t] \in Inside <=> l \in Inside,
           pc[t] \in {"Inspect", "CancelDrop"} <=> l \in {"Inspect", "CancelDrop"},
           UNCHANGED <<signalled, waiters>>
    PROVE  UNCHANGED Monitor!vars
  <1>1. Runner' = Runner
    BY SameRunner DEF RegistryInv, TypeOK
  <1>2. Inspector' = Inspector
    BY SameInspector DEF RegistryInv, TypeOK
  <1> QED
    BY <1>1, <1>2 DEF Monitor!vars

\* A call that enters the guard starts.
LEMMA Starts ==
    ASSUME RegistryInv, NEW t \in Threads, ACTIVE \notin operation_state, waiters = {},
           pc[t] \notin {"Inspect", "CancelDrop"},
           pc' = [pc EXCEPT ![t] = "Run"], signalled' = FALSE, UNCHANGED waiters
    PROVE  Monitor!Start(t)
  <1> USE DEF RegistryInv, TypeOK
  <1>1. Runner = NoThread
    BY MonitorState
  <1>2. Runner' = t
    <2>1. pc'[t] \in Inside /\ \A u \in Threads : pc'[u] \in Inside => u = t
      BY DEF GuardIsBit, Inside
    <2> QED
      BY <2>1, HolderIs DEF Runner
  <1>3. Inspector' = Inspector
    BY SameInspector
  <1> QED
    BY <1>1, <1>2, <1>3 DEF Monitor!Start

\* A call that gives the guard up finishes.
LEMMA Finishes ==
    ASSUME RegistryInv, NEW t \in Threads, pc[t] \in Inside,
           pc' = [pc EXCEPT ![t] = "Idle"], signalled' = FALSE, UNCHANGED waiters
    PROVE  Monitor!Finish
  <1> USE DEF RegistryInv, TypeOK
  <1>1. Runner # NoThread
    BY MonitorState
  <1>2. Runner' = NoThread
    <2>1. \A u \in Threads : pc'[u] \notin Inside
      BY DEF OneCall, Inside
    <2> QED
      BY <2>1, HolderNone DEF Runner
  <1>3. Inspector' = Inspector
    BY SameInspector DEF Inside
  <1> QED
    BY <1>1, <1>2, <1>3 DEF Monitor!Finish

\* Every step of the guard is a step of the monitor or changes nothing of it.
LEMMA MonitorStep ==
    ASSUME RegistryInv, [Next]_vars
    PROVE  [Monitor!Next]_(Monitor!vars)
  <1> USE DEF RegistryInv, TypeOK, Inside, Entering, Counted, Cancelling, ACTIVE, NOTIFY, regVars
  <1>1. ASSUME NEW t \in Threads, NEW k \in Kinds, Begin(t, k)
        PROVE  [Monitor!Next]_(Monitor!vars)
    <2>1. CASE FastFree
      <3>1. waiters = {} /\ ACTIVE \notin operation_state
        BY <2>1 DEF FastFree, NotifyKept, WaitersCounted
      <3>2. Monitor!Start(t)
        BY <1>1, <2>1, <3>1, Starts DEF Begin, Call, Goto
      <3> QED
        BY <3>2 DEF Monitor!Next
    <2>2. CASE ~FastFree
      BY <1>1, <2>2, Stutters DEF Begin, Call, Goto
    <2> QED
      BY <2>1, <2>2
  <1>2. ASSUME NEW t \in Threads, SlowLock(t)
        PROVE  [Monitor!Next]_(Monitor!vars)
    BY <1>2, Stutters DEF SlowLock, Lock, Goto
  <1>3. ASSUME NEW t \in Threads, SlowCheck(t)
        PROVE  [Monitor!Next]_(Monitor!vars)
    BY <1>3, Stutters DEF SlowCheck, MustWait, Unlock, Goto
  <1>4. ASSUME NEW t \in Threads, SlowWake(t)
        PROVE  [Monitor!Next]_(Monitor!vars)
    BY <1>4, Stutters DEF SlowWake, Lock, Goto
  <1>5. ASSUME NEW t \in Threads, SlowStore(t)
        PROVE  [Monitor!Next]_(Monitor!vars)
    <2>1. Monitor!Start(t)
      BY <1>5, Starts DEF SlowStore, StoreAlone, Goto
    <2> QED
      BY <2>1 DEF Monitor!Next
  <1>6. ASSUME NEW t \in Threads, RunExec(t)
        PROVE  [Monitor!Next]_(Monitor!vars)
    BY <1>6, Stutters DEF RunExec, LockBriefly, InheritedRequest, bodyRest, Goto
  <1>7. ASSUME NEW t \in Threads, RunRead(t)
        PROVE  [Monitor!Next]_(Monitor!vars)
    BY <1>7, Stutters DEF RunRead, bodyRest, Goto
  <1>8. ASSUME NEW t \in Threads, Answered(t)
        PROVE  [Monitor!Next]_(Monitor!vars)
    BY <1>8, Stutters DEF Answered, bodyRest, Goto
  <1>9. ASSUME NEW t \in Threads, Interrupted(t)
        PROVE  [Monitor!Next]_(Monitor!vars)
    BY <1>9, Stutters DEF Interrupted, bodyRest, Goto
  <1>10. ASSUME NEW t \in Threads, RunClose(t)
        PROVE  [Monitor!Next]_(Monitor!vars)
    BY <1>10, Stutters DEF RunClose, bodyRest, Goto
  <1>11. ASSUME NEW t \in Threads, FinishFast(t)
        PROVE  [Monitor!Next]_(Monitor!vars)
    <2>1. Monitor!Finish
      BY <1>11, Finishes DEF FinishFast, Return, finishRest, Goto
    <2> QED
      BY <2>1 DEF Monitor!Next
  <1>12. ASSUME NEW t \in Threads, FinishContended(t)
        PROVE  [Monitor!Next]_(Monitor!vars)
    BY <1>12, Stutters DEF FinishContended, finishRest, Goto
  <1>13. ASSUME NEW t \in Threads, FinishSlow(t)
        PROVE  [Monitor!Next]_(Monitor!vars)
    <2>1. CASE requested
      BY <1>13, <2>1, Stutters DEF FinishSlow, finishRest, Goto
    <2>2. CASE ~requested
      <3>1. Monitor!Finish
        BY <1>13, <2>2, Finishes DEF FinishSlow, Return, finishRest, Goto
      <3> QED
        BY <3>1 DEF Monitor!Next
    <2> QED
      BY <2>1, <2>2
  <1>14. ASSUME NEW t \in Threads, Settle(t)
        PROVE  [Monitor!Next]_(Monitor!vars)
    BY <1>14, Stutters DEF Settle, SettledCursor, finishRest, Goto
  <1>15. ASSUME NEW t \in Threads, DropSlow(t)
        PROVE  [Monitor!Next]_(Monitor!vars)
    <2>1. Monitor!Finish
      BY <1>15, Finishes DEF DropSlow, Return, finishRest, Goto
    <2> QED
      BY <2>1 DEF Monitor!Next
  <1>16. ASSUME NEW t \in Threads, CancelCall(t)
        PROVE  [Monitor!Next]_(Monitor!vars)
    BY <1>16, Stutters DEF CancelCall, Lock, Goto
  <1>17. ASSUME NEW t \in Threads, CancelSignal(t)
        PROVE  [Monitor!Next]_(Monitor!vars)
    <2>1. Runner' = Runner /\ Inspector' = Inspector
      BY <1>17, SameRunner, SameInspector DEF CancelSignal, Goto
    <2>2. t \notin waiters /\ waiters' = waiters \cup {t}
      BY <1>17 DEF CancelSignal, WaitersCounted
    <2>3. signalled' = (Runner # NoThread)
      <3>1. CASE interrupted[t]
        BY <1>17, <3>1, MonitorState DEF CancelSignal, HitIsActive
      <3>2. CASE ~interrupted[t]
        BY <1>17, <3>2, MonitorState DEF CancelSignal, HitIsActive, RequestIsCurrent
      <3> QED
        BY <3>1, <3>2
    <2> QED
      BY <2>1, <2>2, <2>3 DEF Monitor!Next, Monitor!Cancel
  <1>18. ASSUME NEW t \in Threads, CancelCheck(t)
        PROVE  [Monitor!Next]_(Monitor!vars)
    <2>1. CASE CancelMustWait
      BY <1>18, <2>1, Stutters DEF CancelCheck, Goto
    <2>2. CASE ~CancelMustWait
      <3>1. Runner' = Runner
        BY <1>18, <2>2, SameRunner DEF CancelCheck, Goto
      <3>2. Runner = NoThread /\ Inspector = NoThread
        BY <2>2, MonitorState DEF CancelMustWait
      <3>3. Inspector' = t
        <4>1. /\ pc'[t] \in {"Inspect", "CancelDrop"}
              /\ \A u \in Threads : pc'[u] \in {"Inspect", "CancelDrop"} => u = t
          BY <1>18, <2>2 DEF CancelCheck, CancelMustWait, FenceHeld, Goto
        <4> QED
          BY <4>1, HolderIs DEF Inspector
      <3>4. t \in waiters /\ UNCHANGED <<signalled, waiters>>
        BY <1>18 DEF CancelCheck, WaitersCounted
      <3> QED
        BY <3>1, <3>2, <3>3, <3>4 DEF Monitor!Next, Monitor!Inspect
    <2> QED
      BY <2>1, <2>2
  <1>19. ASSUME NEW t \in Threads, CancelWake(t)
        PROVE  [Monitor!Next]_(Monitor!vars)
    BY <1>19, Stutters DEF CancelWake, Lock, Goto
  <1>20. ASSUME NEW t \in Threads, Inspect(t)
        PROVE  [Monitor!Next]_(Monitor!vars)
    BY <1>20, Stutters DEF Inspect, Goto
  <1>21. ASSUME NEW t \in Threads, CancelDrop(t)
        PROVE  [Monitor!Next]_(Monitor!vars)
    <2>1. Runner' = Runner
      BY <1>21, SameRunner DEF CancelDrop, Return, Goto
    <2>2. Inspector = t
      BY <1>21, MonitorState DEF CancelDrop
    <2>3. Inspector' = NoThread
      <3>1. \A u \in Threads : pc'[u] \notin {"Inspect", "CancelDrop"}
        BY <1>21 DEF CancelDrop, Return, Goto, FenceOfOne
      <3> QED
        BY <3>1, HolderNone DEF Inspector
    <2>4. waiters' = waiters \ {t} /\ UNCHANGED signalled
      BY <1>21 DEF CancelDrop
    <2> QED
      BY <2>1, <2>2, <2>3, <2>4 DEF Monitor!Next, Monitor!Return
  <1>22. ASSUME NEW t \in Threads, SpuriousWake(t)
        PROVE  [Monitor!Next]_(Monitor!vars)
    BY <1>22 DEF SpuriousWake, Monitor!vars, Runner, Inspector
  <1>23. CASE UNCHANGED vars
    BY <1>23 DEF vars, Monitor!vars, Runner, Inspector
  <1> QED
    BY <1>1, <1>2, <1>3, <1>4, <1>5, <1>6, <1>7, <1>8, <1>9, <1>10, <1>11, <1>12, <1>13, <1>14,
       <1>15, <1>16, <1>17, <1>18, <1>19, <1>20, <1>21, <1>22, <1>23
       DEF Next, EnterStep, BodyStep, FinishStep, CancelStep

\* The atomic word, the mutex and the condition variable of a statement handle
\* implement the monitor its callers rely on, for any number of threads.
THEOREM GuardRefines == Spec => StatementIsMonitor
  <1>1. Init => Monitor!Init
    <2> SUFFICES ASSUME Init PROVE Monitor!Init
      OBVIOUS
    <2>1. Runner = NoThread
      BY HolderNone DEF Init, Runner, Inside
    <2>2. Inspector = NoThread
      BY HolderNone DEF Init, Inspector
    <2> QED
      BY <2>1, <2>2 DEF Init, Monitor!Init
  <1>2. RegistryInv /\ [Next]_vars => [Monitor!Next]_(Monitor!vars)
    BY MonitorStep
  <1> QED
    BY <1>1, <1>2, RegistryCorrect, PTL DEF Spec, StatementIsMonitor, Monitor!Spec
=============================================================================
