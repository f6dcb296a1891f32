------------------------- MODULE WaiterBudgetProofs -------------------------
(***************************************************************************)
(* For every set of callers, batches and Flush calls, and every cap: no    *)
(* wakeup of producerBudget is lost, and its steps are steps of Budget.    *)
(***************************************************************************)
EXTENDS WaiterBudget, TLAPS

USE DEF budgetVars, batchVars

\* A new budget is empty.
LEMMA TypeInit == Init => TypeOK
<1> SUFFICES ASSUME Init PROVE TypeOK
  OBVIOUS
<1>1. waiter \in BOOLEAN /\ drainCh \in BOOLEAN /\ shutdown \in BOOLEAN
  BY Zenon DEF Init
<1> QED
  BY <1>1, BudgetAssumption DEF Init, TypeOK, CallStates, EmitStates, FlushStates

\* release keeps the types of what it changes.
LEMMA ReleaseType ==
  ASSUME TypeOK, NEW n \in Nat, NEW k \in {0, 1}, NEW S, Release(n, k, S)
  PROVE  /\ bytesUsed' \in Nat /\ batchesUsed' \in 0 .. maxBatches
         /\ waiter' \in BOOLEAN /\ drainCh' \in BOOLEAN
         /\ call' \in [Callers -> CallStates] /\ flush' \in [Flushers -> FlushStates]
<1>1. bytesUsed' \in Nat /\ batchesUsed' \in 0 .. maxBatches
  BY BudgetAssumption DEF TypeOK, Release
<1>2. waiter' \in BOOLEAN /\ drainCh' \in BOOLEAN
  BY Zenon DEF Release
<1>3. call' \in [Callers -> CallStates] /\ flush' \in [Flushers -> FlushStates]
  BY DEF TypeOK, Release, Woken, CallStates, FlushStates
<1> QED
  BY <1>1, <1>2, <1>3

\* Every step keeps the types.
LEMMA TypeStep == ASSUME TypeOK, [Next]_vars PROVE TypeOK'
<1> USE BudgetAssumption
<1>1. ASSUME NEW c \in Callers, ReserveStart(c) PROVE TypeOK'
  BY <1>1 DEF ReserveStart, TypeOK, CallStates
<1>2. ASSUME NEW c \in Callers, ReserveCheck(c) PROVE TypeOK'
  <2>1. waiter' \in BOOLEAN
    BY <1>2, Zenon DEF ReserveCheck, TypeOK
  <2> QED
    BY <1>2, <2>1 DEF ReserveCheck, TypeOK, CallStates
<1>3. ASSUME NEW c \in Callers, ReserveGivesUp(c) PROVE TypeOK'
  BY <1>3 DEF ReserveGivesUp, TypeOK, CallStates
<1>4. ASSUME NEW c \in Callers, Unreserve(c) PROVE TypeOK'
  BY <1>4, ReleaseType DEF Unreserve, TypeOK, Woken, EmitStates
<1>5. ASSUME NEW c \in Callers, Take(c) PROVE TypeOK'
  BY <1>5 DEF Take, TypeOK, CallStates
<1>6. ASSUME EmitStart PROVE TypeOK'
  BY <1>6 DEF EmitStart, TypeOK, EmitStates
<1>7. ASSUME SlotCheck PROVE TypeOK'
  <2>1. waiter' \in BOOLEAN
    BY <1>7, Zenon DEF SlotCheck, TypeOK
  <2> QED
    BY <1>7, <2>1 DEF SlotCheck, SlotFree, TypeOK, EmitStates
<1>8. ASSUME SlotGivesUp PROVE TypeOK'
  BY <1>8, ReleaseType DEF SlotGivesUp, TypeOK, EmitStates
<1>9. ASSUME NEW b \in Batches, ChargeFraming(b) PROVE TypeOK'
  <2>1. waiter' \in BOOLEAN
    BY <1>9, Zenon DEF ChargeFraming, TypeOK
  <2> QED
    BY <1>9, <2>1 DEF ChargeFraming, TypeOK, Woken, CallStates, EmitStates
<1>10. ASSUME NEW b \in Batches, ReleaseBatch(b) PROVE TypeOK'
  BY <1>10, ReleaseType DEF ReleaseBatch, TypeOK, Woken, EmitStates
<1>11. ASSUME NEW f \in Flushers, DrainStart(f) \/ DrainGivesUp(f) PROVE TypeOK'
  BY <1>11 DEF DrainStart, DrainGivesUp, TypeOK, FlushStates
<1>12. ASSUME NEW f \in Flushers, DrainCheck(f) PROVE TypeOK'
  BY <1>12, Zenon DEF DrainCheck, TypeOK, FlushStates
<1>13. ASSUME ShutdownFires \/ UNCHANGED vars PROVE TypeOK'
  BY <1>13, Zenon DEF ShutdownFires, vars, TypeOK
<1> QED
  BY <1>1, <1>2, <1>3, <1>4, <1>5, <1>6, <1>7, <1>8, <1>9, <1>10, <1>11, <1>12, <1>13 DEF Next

-----------------------------------------------------------------------------
\* After release nobody waits for the waiter channel, and nobody for drainCh
\* unless batches are left.
LEMMA ReleaseWakes ==
  ASSUME TypeOK, NoLostWakeup, NEW n \in Nat, NEW k \in {0, 1}, NEW S, Release(n, k, S)
  PROVE  /\ \A c \in Callers : call'[c] # "wait"
         /\ \A f \in Flushers : flush'[f] = "wait" => drainCh' /\ batchesUsed' > 0
         /\ Woken(CloseWaiter, emit) # "wait"
<1>1. \A c \in Callers : call'[c] # "wait"
  BY DEF TypeOK, NoLostWakeup, Release, Woken, CloseWaiter
<1>2. \A f \in Flushers : flush'[f] = "wait" => drainCh' /\ batchesUsed' > 0
  BY BudgetAssumption, ReleaseType DEF TypeOK, NoLostWakeup, Release, Woken, CloseDrainCh
<1>3. Woken(CloseWaiter, emit) # "wait"
  BY DEF NoLostWakeup, Woken, CloseWaiter
<1> QED
  BY <1>1, <1>2, <1>3

\* Every step keeps NoLostWakeup.
LEMMA WakeupStep == ASSUME TypeOK, NoLostWakeup, [Next]_vars PROVE NoLostWakeup'
<1> USE BudgetAssumption DEF NoLostWakeup, CanReserve, SlotFree
<1>1. ASSUME NEW c \in Callers, ReserveStart(c) PROVE NoLostWakeup'
  BY <1>1 DEF ReserveStart, TypeOK
<1>2. ASSUME NEW c \in Callers, ReserveCheck(c) PROVE NoLostWakeup'
  BY <1>2 DEF ReserveCheck, TypeOK
<1>3. ASSUME NEW c \in Callers, ReserveGivesUp(c) PROVE NoLostWakeup'
  BY <1>3 DEF ReserveGivesUp, TypeOK
<1>4. ASSUME NEW c \in Callers, Unreserve(c) PROVE NoLostWakeup'
  BY <1>4, ReleaseWakes DEF Unreserve
<1>5. ASSUME NEW c \in Callers, Take(c) PROVE NoLostWakeup'
  BY <1>5 DEF Take, TypeOK
<1>6. ASSUME EmitStart PROVE NoLostWakeup'
  BY <1>6 DEF EmitStart
<1>7. ASSUME SlotCheck PROVE NoLostWakeup'
  BY <1>7 DEF SlotCheck, TypeOK
<1>8. ASSUME SlotGivesUp PROVE NoLostWakeup'
  BY <1>8, ReleaseWakes DEF SlotGivesUp, TypeOK
<1>9. ASSUME NEW b \in Batches, ChargeFraming(b) PROVE NoLostWakeup'
  BY <1>9 DEF ChargeFraming, TypeOK, Woken
<1>10. ASSUME NEW b \in Batches, ReleaseBatch(b) PROVE NoLostWakeup'
  BY <1>10, ReleaseWakes DEF ReleaseBatch, TypeOK
<1>11. ASSUME NEW f \in Flushers, DrainStart(f) \/ DrainGivesUp(f) PROVE NoLostWakeup'
  BY <1>11 DEF DrainStart, DrainGivesUp, TypeOK
<1>12. ASSUME NEW f \in Flushers, DrainCheck(f) PROVE NoLostWakeup'
  BY <1>12 DEF DrainCheck, TypeOK
<1>13. ASSUME ShutdownFires \/ UNCHANGED vars PROVE NoLostWakeup'
  BY <1>13 DEF ShutdownFires, vars
<1> QED
  BY <1>1, <1>2, <1>3, <1>4, <1>5, <1>6, <1>7, <1>8, <1>9, <1>10, <1>11, <1>12, <1>13 DEF Next

\* The budget never has more than maxBatches batches, for every cap.
THEOREM BudgetTyped == Spec => []TypeOK
<1>1. TypeOK /\ [Next]_vars => TypeOK'
  BY TypeStep
<1> QED
  BY TypeInit, <1>1, PTL DEF Spec

\* reserveBytes, acquireBatchSlot and waitDrained never sleep through the
\* release that would let them go on.
THEOREM WakeupsAreNotLost == Spec => []NoLostWakeup
<1>1. Init => NoLostWakeup
  BY DEF Init, NoLostWakeup
<1>2. TypeOK /\ NoLostWakeup /\ [Next]_vars => NoLostWakeup'
  BY WakeupStep
<1> QED
  BY <1>1, <1>2, BudgetTyped, PTL DEF Spec

-----------------------------------------------------------------------------
\* Waking the waiters is invisible in Budget, where they stay blocked.
LEMMA WokenIsBlocked ==
  ASSUME NEW closed \in BOOLEAN, NEW s, NEW first
  PROVE  Blocking(Woken(closed, s), first) = Blocking(s, first)
BY DEF Blocking, Woken

\* release, seen from Budget.
LEMMA ReleaseMaps ==
  ASSUME TypeOK, NEW n, NEW k, NEW S \in SUBSET Callers, Release(n, k, S)
  PROVE  /\ bytesUsed' = B!Minus(bytesUsed, n) /\ batchesUsed' = B!Minus(batchesUsed, k)
         /\ [c \in Callers |-> Blocking(call'[c], "reserve")]
              = [c \in Callers |-> IF c \in S THEN "idle" ELSE Blocking(call[c], "reserve")]
         /\ [f \in Flushers |-> Blocking(flush'[f], "drain")]
              = [f \in Flushers |-> Blocking(flush[f], "drain")]
<1>1. CloseWaiter \in BOOLEAN /\ CloseDrainCh \in BOOLEAN
  BY Zenon DEF CloseWaiter, CloseDrainCh, TypeOK
<1>2. Blocking("idle", "reserve") = "idle"
  BY DEF Blocking
<1>3. bytesUsed' = B!Minus(bytesUsed, n) /\ batchesUsed' = B!Minus(batchesUsed, k)
  BY DEF Release, B!Minus
<1>4. \A c \in Callers : Blocking(call'[c], "reserve")
                           = IF c \in S THEN "idle" ELSE Blocking(call[c], "reserve")
  BY <1>1, <1>2, WokenIsBlocked DEF Release
<1>5. \A f \in Flushers : Blocking(flush'[f], "drain") = Blocking(flush[f], "drain")
  BY <1>1, WokenIsBlocked DEF Release
<1> QED
  BY <1>3, <1>4, <1>5

\* Every step is a step of Budget or leaves its state alone.
LEMMA StepMaps == ASSUME TypeOK, TypeOK', [Next]_vars PROVE [B!Next]_(B!vars)
<1> USE DEF B!budgetVars, B!batchVars, B!CallersGoTo, B!FlushGoesTo
<1>1. ASSUME NEW c \in Callers, ReserveStart(c) PROVE B!ReserveStart(c)
  BY <1>1 DEF ReserveStart, B!ReserveStart, Blocking, TypeOK
<1>2. ASSUME NEW c \in Callers, ReserveCheck(c)
      PROVE  B!ReserveGrants(c) \/ B!ReserveBlocks(c) \/ UNCHANGED B!vars
  BY <1>2 DEF ReserveCheck, CanReserve, B!ReserveGrants, B!ReserveBlocks, B!vars, B!CanReserve,
              Blocking, TypeOK
<1>3. ASSUME NEW c \in Callers, ReserveGivesUp(c) PROVE B!ReserveGivesUp(c)
  BY <1>3 DEF ReserveGivesUp, B!ReserveGivesUp, Blocking, TypeOK
<1>4. ASSUME NEW c \in Callers, Unreserve(c) PROVE B!Unreserve(c)
  <2>1. Blocking(emit', "acquire") = Blocking(emit, "acquire")
    BY <1>4, WokenIsBlocked DEF Unreserve, CloseWaiter, TypeOK
  <2>2. Blocking(call[c], "reserve") = "held"
    BY <1>4 DEF Unreserve, Blocking
  <2>3. Release(Cost[c], 0, {c})
    BY <1>4 DEF Unreserve
  <2>4. batchesUsed' = batchesUsed
    BY <2>3 DEF Release, TypeOK
  <2> QED
    BY <1>4, <2>1, <2>2, <2>3, <2>4, ReleaseMaps DEF Unreserve, B!Unreserve
<1>5. ASSUME NEW c \in Callers, Take(c) PROVE B!Take(c)
  BY <1>5 DEF Take, B!Take, Blocking, TypeOK
<1>6. ASSUME EmitStart PROVE B!EmitStart
  BY <1>6 DEF EmitStart, B!EmitStart, Blocking, TypeOK
<1>7. ASSUME SlotCheck PROVE B!SlotGrants \/ B!SlotBlocks \/ UNCHANGED B!vars
  BY <1>7 DEF SlotCheck, SlotFree, B!SlotGrants, B!SlotBlocks, B!vars, B!SlotFree, Blocking, TypeOK
<1>8. ASSUME SlotGivesUp PROVE B!SlotGivesUp
  <2>1. Release(openCost, 0, open) /\ open \in SUBSET Callers
    BY <1>8 DEF SlotGivesUp, TypeOK
  <2>2. batchesUsed' = batchesUsed
    BY <2>1 DEF Release, TypeOK
  <2>3. Blocking(emit, "acquire") = "blocked" /\ Blocking(emit', "acquire") = "idle"
    BY <1>8 DEF SlotGivesUp, Blocking
  <2> QED
    BY <1>8, <2>1, <2>2, <2>3, ReleaseMaps DEF SlotGivesUp, B!SlotGivesUp
<1>9. ASSUME NEW b \in Batches, ChargeFraming(b) PROVE B!ChargeFraming(b)
  <2>1. \A c \in Callers : Blocking(call'[c], "reserve") = Blocking(call[c], "reserve")
    BY <1>9, WokenIsBlocked DEF ChargeFraming, TypeOK
  <2>2. Blocking(emit, "acquire") = "framing" /\ Blocking(emit', "acquire") = "idle"
    BY <1>9 DEF ChargeFraming, Blocking
  <2> QED
    BY <1>9, <2>1, <2>2 DEF ChargeFraming, B!ChargeFraming
<1>10. ASSUME NEW b \in Batches, ReleaseBatch(b) PROVE B!Release(b)
  BY <1>10, ReleaseMaps, WokenIsBlocked DEF ReleaseBatch, CloseWaiter, B!Release, TypeOK
<1>11. ASSUME NEW f \in Flushers, DrainStart(f) PROVE B!DrainStart(f)
  BY <1>11, Zenon DEF DrainStart, B!DrainStart, Blocking, TypeOK
<1>12. ASSUME NEW f \in Flushers, DrainGivesUp(f) PROVE B!DrainGivesUp(f)
  BY <1>12, Zenon DEF DrainGivesUp, B!DrainGivesUp, Blocking, TypeOK
<1>13. ASSUME NEW f \in Flushers, DrainCheck(f)
       PROVE  B!DrainReturns(f) \/ B!DrainBlocks(f) \/ UNCHANGED B!vars
  <2>1. CASE batchesUsed = 0
    BY <1>13, <2>1, Zenon DEF DrainCheck, B!DrainReturns, Blocking, TypeOK
  <2>2. CASE batchesUsed # 0 /\ flush[f] = "check"
    <3>1. batchesUsed > 0 /\ Blocking(flush[f], "drain") = "drain"
      BY <2>2 DEF Blocking, TypeOK
    <3>2. \A g \in Flushers : Blocking(flush'[g], "drain")
                               = IF g = f THEN "blocked" ELSE Blocking(flush[g], "drain")
      BY <1>13, <2>2 DEF DrainCheck, Blocking, TypeOK
    <3> QED
      BY <1>13, <3>1, <3>2, Zenon DEF DrainCheck, B!DrainBlocks
  <2>3. CASE batchesUsed # 0 /\ flush[f] = "woken"
    <3>1. \A g \in Flushers : Blocking(flush'[g], "drain") = Blocking(flush[g], "drain")
      BY <1>13, <2>3 DEF DrainCheck, Blocking, TypeOK
    <3> QED
      BY <1>13, <2>3, <3>1 DEF DrainCheck, B!vars
  <2> QED
    BY <1>13, <2>1, <2>2, <2>3 DEF DrainCheck
<1>14. ASSUME ShutdownFires PROVE B!ShutdownFires
  BY <1>14 DEF ShutdownFires, B!ShutdownFires
<1>15. ASSUME UNCHANGED vars PROVE UNCHANGED B!vars
  BY <1>15 DEF vars, B!vars
<1> QED
  BY <1>1, <1>2, <1>3, <1>4, <1>5, <1>6, <1>7, <1>8, <1>9, <1>10, <1>11, <1>12, <1>13, <1>14,
     <1>15 DEF Next, B!Next

\* reserveBytes, acquireBatchSlot, release and waitDrained implement the guards
\* of Budget: every step of theirs is one of its steps, or invisible.
THEOREM StepsImplementBudget == Spec => B!Init /\ [][B!Next]_(B!vars)
<1>1. Init => B!Init
  BY DEF Init, B!Init, Blocking
<1>2. TypeOK /\ TypeOK' /\ [Next]_vars => [B!Next]_(B!vars)
  BY StepMaps
<1> QED
  BY <1>1, <1>2, BudgetTyped, PTL DEF Spec
=============================================================================
