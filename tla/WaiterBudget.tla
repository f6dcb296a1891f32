---------------------------- MODULE WaiterBudget ----------------------------
(***************************************************************************)
(* producerBudget of buffer/budget.go.  The sections under the mutex are   *)
(* the steps.  A call that finds no capacity waits for a channel that      *)
(* release and addReservation close and forget; the next call that has to  *)
(* wait allocates another one.  So of all the channels handed out only the *)
(* current one is open: waiter and drainCh say whether there is one, a     *)
(* call in state "wait" waits for it, and a call in state "woken" waits    *)
(* for one that was closed.                                                *)
(***************************************************************************)
EXTENDS Integers

CONSTANTS Callers, Cost, Batches, Flushers, Framing, maxBytes, maxBatches

ASSUME BudgetAssumption ==
  /\ Cost \in [Callers -> Nat]
  /\ Framing \in Nat
  /\ maxBytes \in Nat \ {0} /\ maxBatches \in Nat \ {0}

VARIABLES
  bytesUsed, batchesUsed, waiter, drainCh,                       \* producerBudget
  call, emit, open, openCost, batch, batchCost, flush, shutdown   \* clients, as in Budget

budgetVars == <<bytesUsed, batchesUsed, waiter, drainCh>>
batchVars  == <<open, openCost, batch, batchCost>>

vars == <<budgetVars, call, emit, batchVars, flush, shutdown>>

CallStates == {"idle", "check", "wait", "woken", "held", "batched"}
EmitStates == {"idle", "check", "wait", "woken", "framing"}
FlushStates == {"idle", "check", "wait", "woken"}

Init ==
  /\ bytesUsed = 0 /\ batchesUsed = 0 /\ waiter = FALSE /\ drainCh = FALSE
  /\ call = [c \in Callers |-> "idle"]
  /\ emit = "idle" /\ open = {} /\ openCost = 0
  /\ batch = [b \in Batches |-> {}] /\ batchCost = [b \in Batches |-> 0]
  /\ flush = [f \in Flushers |-> "idle"]
  /\ shutdown = FALSE

CanReserve(n) == bytesUsed = 0 \/ bytesUsed + n <= maxBytes

\* Mutant: one slot too many.
SlotFreeOffByOne == batchesUsed <= maxBatches

SlotFree == batchesUsed < maxBatches

\* A client that waits for a channel, after the channel was closed or not.
Woken(closed, s) == IF closed /\ s = "wait" THEN "woken" ELSE s

\* Mutant: only a full budget wakes the waiters.
CloseWaiterWhenFull == waiter /\ bytesUsed >= maxBytes

\* release closes the waiter channel when there is one.
CloseWaiter == waiter

\* release closes drainCh when the last batch has ended.
CloseDrainCh == drainCh /\ batchesUsed' = 0

\* release(bytes, batches), by which the callers in S become idle.
Release(bytes, batches, S) ==
  /\ bytesUsed' = IF bytesUsed < bytes THEN 0 ELSE bytesUsed - bytes
  /\ batchesUsed' = IF batchesUsed < batches THEN 0 ELSE batchesUsed - batches
  /\ waiter' = (waiter /\ ~CloseWaiter)
  /\ call' = [c \in Callers |-> IF c \in S THEN "idle" ELSE Woken(CloseWaiter, call[c])]
  /\ drainCh' = (drainCh /\ ~CloseDrainCh)
  /\ flush' = [f \in Flushers |-> Woken(CloseDrainCh, flush[f])]

-----------------------------------------------------------------------------
(* reserveBytes *)

ReserveStart(c) ==
  /\ call[c] = "idle"
  /\ call' = [call EXCEPT ![c] = "check"]
  /\ UNCHANGED <<budgetVars, emit, batchVars, flush, shutdown>>

\* Mutant: a call that was woken does not look again.
ReserveCheckOnce(c) ==
  /\ call[c] \in {"check", "woken"}
  /\ IF CanReserve(Cost[c]) \/ call[c] = "woken"
       THEN /\ bytesUsed' = bytesUsed + Cost[c]
            /\ call' = [call EXCEPT ![c] = "held"]
            /\ UNCHANGED waiter
       ELSE /\ waiter' = TRUE
            /\ call' = [call EXCEPT ![c] = "wait"]
            /\ UNCHANGED bytesUsed
  /\ UNCHANGED <<batchesUsed, drainCh, emit, batchVars, flush, shutdown>>

\* One round of the loop, up to the select.
ReserveCheck(c) ==
  /\ call[c] \in {"check", "woken"}
  /\ IF CanReserve(Cost[c])
       THEN /\ bytesUsed' = bytesUsed + Cost[c]
            /\ call' = [call EXCEPT ![c] = "held"]
            /\ UNCHANGED waiter
       ELSE /\ waiter' = TRUE
            /\ call' = [call EXCEPT ![c] = "wait"]
            /\ UNCHANGED bytesUsed
  /\ UNCHANGED <<batchesUsed, drainCh, emit, batchVars, flush, shutdown>>

\* The select takes ctx.Done() or shutdown, also when the channel is closed.
ReserveGivesUp(c) ==
  /\ call[c] \in {"wait", "woken"}
  /\ call' = [call EXCEPT ![c] = "idle"]
  /\ UNCHANGED <<budgetVars, emit, batchVars, flush, shutdown>>

\* AppendContext could not submit its message: release(cost, 0).
Unreserve(c) ==
  /\ call[c] = "held"
  /\ Release(Cost[c], 0, {c})
  /\ emit' = Woken(CloseWaiter, emit)
  /\ UNCHANGED <<batchVars, shutdown>>

-----------------------------------------------------------------------------
(* acquireBatchSlot and addReservation, by the rotator *)

Take(c) ==
  /\ emit = "idle" /\ call[c] = "held"
  /\ open' = open \cup {c} /\ openCost' = openCost + Cost[c]
  /\ call' = [call EXCEPT ![c] = "batched"]
  /\ UNCHANGED <<budgetVars, emit, batch, batchCost, flush, shutdown>>

EmitStart ==
  /\ emit = "idle" /\ open # {}
  /\ emit' = "check"
  /\ UNCHANGED <<budgetVars, call, batchVars, flush, shutdown>>

SlotCheck ==
  /\ emit \in {"check", "woken"}
  /\ IF SlotFree
       THEN batchesUsed' = batchesUsed + 1 /\ emit' = "framing" /\ UNCHANGED waiter
       ELSE waiter' = TRUE /\ emit' = "wait" /\ UNCHANGED batchesUsed
  /\ UNCHANGED <<bytesUsed, drainCh, call, batchVars, flush, shutdown>>

\* The select takes shutdown: the rotator drops the batch, release(bytes, 0).
SlotGivesUp ==
  /\ emit \in {"wait", "woken"} /\ shutdown
  /\ Release(openCost, 0, open)
  /\ emit' = "idle" /\ open' = {} /\ openCost' = 0
  /\ UNCHANGED <<batch, batchCost, shutdown>>

\* addReservation(Framing); the batch enters the pipeline.
ChargeFraming(b) ==
  /\ emit = "framing" /\ batch[b] = {}
  /\ bytesUsed' = bytesUsed + Framing
  /\ waiter' = FALSE
  /\ call' = [c \in Callers |-> Woken(waiter, call[c])]
  /\ batch' = [batch EXCEPT ![b] = open]
  /\ batchCost' = [batchCost EXCEPT ![b] = openCost + Framing]
  /\ emit' = "idle" /\ open' = {} /\ openCost' = 0
  /\ UNCHANGED <<batchesUsed, drainCh, flush, shutdown>>

\* The watcher resolver: release(byteCost, 1).
ReleaseBatch(b) ==
  /\ batch[b] # {}
  /\ Release(batchCost[b], 1, batch[b])
  /\ emit' = Woken(CloseWaiter, emit)
  /\ batch' = [batch EXCEPT ![b] = {}]
  /\ batchCost' = [batchCost EXCEPT ![b] = 0]
  /\ UNCHANGED <<open, openCost, shutdown>>

-----------------------------------------------------------------------------
(* waitDrained *)

DrainStart(f) ==
  /\ flush[f] = "idle"
  /\ flush' = [flush EXCEPT ![f] = "check"]
  /\ UNCHANGED <<budgetVars, call, emit, batchVars, shutdown>>

DrainCheck(f) ==
  /\ flush[f] \in {"check", "woken"}
  /\ IF batchesUsed = 0
       THEN flush' = [flush EXCEPT ![f] = "idle"] /\ UNCHANGED drainCh
       ELSE flush' = [flush EXCEPT ![f] = "wait"] /\ drainCh' = TRUE
  /\ UNCHANGED <<bytesUsed, batchesUsed, waiter, call, emit, batchVars, shutdown>>

DrainGivesUp(f) ==
  /\ flush[f] \in {"wait", "woken"}
  /\ flush' = [flush EXCEPT ![f] = "idle"]
  /\ UNCHANGED <<budgetVars, call, emit, batchVars, shutdown>>

ShutdownFires ==
  /\ ~shutdown /\ shutdown' = TRUE
  /\ UNCHANGED <<budgetVars, call, emit, batchVars, flush>>

-----------------------------------------------------------------------------
Next ==
  \/ \E c \in Callers :
       ReserveStart(c) \/ ReserveCheck(c) \/ ReserveGivesUp(c) \/ Unreserve(c) \/ Take(c)
  \/ EmitStart \/ SlotCheck \/ SlotGivesUp
  \/ \E b \in Batches : ChargeFraming(b) \/ ReleaseBatch(b)
  \/ \E f \in Flushers : DrainStart(f) \/ DrainCheck(f) \/ DrainGivesUp(f)
  \/ ShutdownFires

\* A goroutine that can run, runs, also when shutdownCh is what it can receive
\* from; every batch ends.
Fairness ==
  /\ \A c \in Callers : WF_vars(ReserveCheck(c))
  /\ WF_vars(SlotCheck)
  /\ \A f \in Flushers : WF_vars(DrainCheck(f))
  /\ \A b \in Batches : WF_vars(ReleaseBatch(b))
  /\ \A c \in Callers : WF_vars(shutdown /\ ReserveGivesUp(c))
  /\ WF_vars(SlotGivesUp)
  /\ \A f \in Flushers : WF_vars(shutdown /\ DrainGivesUp(f))

Spec == Init /\ [][Next]_vars /\ Fairness

-----------------------------------------------------------------------------
\* Every variable has its type, and the batch cap holds.
TypeOK ==
  /\ bytesUsed \in Nat /\ batchesUsed \in 0 .. maxBatches
  /\ waiter \in BOOLEAN /\ drainCh \in BOOLEAN
  /\ call \in [Callers -> CallStates]
  /\ emit \in EmitStates
  /\ open \subseteq Callers /\ openCost \in Nat
  /\ batch \in [Batches -> SUBSET Callers] /\ batchCost \in [Batches -> Nat]
  /\ flush \in [Flushers -> FlushStates]
  /\ shutdown \in BOOLEAN

\* No wakeup is lost between the check under the mutex and the receive in the
\* select: a call whose channel is still open could not be granted now, and
\* the budget still knows the channel.
NoLostWakeup ==
  /\ \A c \in Callers : call[c] = "wait" => waiter /\ ~CanReserve(Cost[c])
  /\ emit = "wait" => waiter /\ ~SlotFree
  /\ \A f \in Flushers : flush[f] = "wait" => drainCh /\ batchesUsed > 0

\* The state in Budget of a client in state s.
Blocking(s, first) ==
  CASE s = "check" -> first [] s \in {"wait", "woken"} -> "blocked" [] OTHER -> s

B == INSTANCE Budget WITH
       call  <- [c \in Callers |-> Blocking(call[c], "reserve")],
       emit  <- Blocking(emit, "acquire"),
       flush <- [f \in Flushers |-> Blocking(flush[f], "drain")]

\* The channels implement the guards: calls are granted, blocked and given up
\* as in Budget, and a call whose guard stays true does not stay blocked.
ImplementsBudget == B!Spec

\* "wait for any other in-flight batches (size/time triggers from before Flush
\* was called) to terminate" (producer.go): as every batch terminates, so does
\* the wait.
DrainEnds == \A f \in Flushers : flush[f] = "wait" ~> flush[f] = "idle"
=============================================================================
