------------------------------- MODULE Budget -------------------------------
(***************************************************************************)
(* What producerBudget promises to the pipeline: the byte and batch caps   *)
(* as guards.  A blocked call is granted when its guard holds; only a      *)
(* blocked call may give up.  WaiterBudget models how budget.go does it.   *)
(*                                                                         *)
(* The clients are those of producer.go.  Callers reserve bytes and submit *)
(* a message; the rotator takes what was submitted, acquires a slot and    *)
(* charges the framing; the resolver releases batches in any order;        *)
(* Flush calls wait until no batch is in flight.                           *)
(***************************************************************************)
EXTENDS Integers

CONSTANTS
  Callers, Cost,      \* AppendContext callers, and the byte cost of a call
  Batches,            \* names for the batches in flight
  Flushers,           \* Flush calls in their second phase
  Framing,            \* what addReservation charges for a batch
  maxBytes, maxBatches

VARIABLES
  bytesUsed, batchesUsed,
  call,          \* the call of each caller
  emit,          \* the call of the rotator
  open, openCost,      \* the open batch: its callers and their cost
  batch, batchCost,    \* each batch in flight: its callers and its byteCost
  flush,         \* the call of each Flush
  shutdown       \* shutdownCh is closed

budgetVars == <<bytesUsed, batchesUsed>>
batchVars  == <<open, openCost, batch, batchCost>>

vars == <<budgetVars, call, emit, batchVars, flush, shutdown>>

CallStates == {"idle", "reserve", "blocked", "held", "batched"}
EmitStates == {"idle", "acquire", "blocked", "framing"}
FlushStates == {"idle", "drain", "blocked"}

CanReserve(n) == bytesUsed = 0 \/ bytesUsed + n <= maxBytes
SlotFree == batchesUsed < maxBatches
Minus(used, n) == IF used < n THEN 0 ELSE used - n

Init ==
  /\ bytesUsed = 0 /\ batchesUsed = 0
  /\ call = [c \in Callers |-> "idle"]
  /\ emit = "idle" /\ open = {} /\ openCost = 0
  /\ batch = [b \in Batches |-> {}] /\ batchCost = [b \in Batches |-> 0]
  /\ flush = [f \in Flushers |-> "idle"]
  /\ shutdown = FALSE

\* The callers in S go to state s.
CallersGoTo(S, s) == call' = [c \in Callers |-> IF c \in S THEN s ELSE call[c]]

-----------------------------------------------------------------------------
ReserveStart(c) ==
  /\ call[c] = "idle"
  /\ CallersGoTo({c}, "reserve")
  /\ UNCHANGED <<budgetVars, emit, batchVars, flush, shutdown>>

ReserveBlocks(c) ==
  /\ call[c] = "reserve" /\ ~CanReserve(Cost[c])
  /\ CallersGoTo({c}, "blocked")
  /\ UNCHANGED <<budgetVars, emit, batchVars, flush, shutdown>>

ReserveGrants(c) ==
  /\ call[c] \in {"reserve", "blocked"} /\ CanReserve(Cost[c])
  /\ bytesUsed' = bytesUsed + Cost[c]
  /\ CallersGoTo({c}, "held")
  /\ UNCHANGED <<batchesUsed, emit, batchVars, flush, shutdown>>

\* The caller's context fires, or shutdownCh is closed.
ReserveGivesUp(c) ==
  /\ call[c] = "blocked"
  /\ CallersGoTo({c}, "idle")
  /\ UNCHANGED <<budgetVars, emit, batchVars, flush, shutdown>>

\* AppendContext could not submit its message.
Unreserve(c) ==
  /\ call[c] = "held"
  /\ bytesUsed' = Minus(bytesUsed, Cost[c])
  /\ CallersGoTo({c}, "idle")
  /\ UNCHANGED <<batchesUsed, emit, batchVars, flush, shutdown>>

-----------------------------------------------------------------------------
\* The rotator adds a submitted message to the open batch.
Take(c) ==
  /\ emit = "idle" /\ call[c] = "held"
  /\ open' = open \cup {c} /\ openCost' = openCost + Cost[c]
  /\ CallersGoTo({c}, "batched")
  /\ UNCHANGED <<budgetVars, emit, batch, batchCost, flush, shutdown>>

EmitStart ==
  /\ emit = "idle" /\ open # {}
  /\ emit' = "acquire"
  /\ UNCHANGED <<budgetVars, call, batchVars, flush, shutdown>>

SlotBlocks ==
  /\ emit = "acquire" /\ ~SlotFree
  /\ emit' = "blocked"
  /\ UNCHANGED <<budgetVars, call, batchVars, flush, shutdown>>

SlotGrants ==
  /\ emit \in {"acquire", "blocked"} /\ SlotFree
  /\ batchesUsed' = batchesUsed + 1
  /\ emit' = "framing"
  /\ UNCHANGED <<bytesUsed, call, batchVars, flush, shutdown>>

\* The batch is dropped.
SlotGivesUp ==
  /\ emit = "blocked" /\ shutdown
  /\ bytesUsed' = Minus(bytesUsed, openCost)
  /\ CallersGoTo(open, "idle")
  /\ emit' = "idle" /\ open' = {} /\ openCost' = 0
  /\ UNCHANGED <<batchesUsed, batch, batchCost, flush, shutdown>>

\* The batch enters the pipeline.
ChargeFraming(b) ==
  /\ emit = "framing" /\ batch[b] = {}
  /\ bytesUsed' = bytesUsed + Framing
  /\ batch' = [batch EXCEPT ![b] = open]
  /\ batchCost' = [batchCost EXCEPT ![b] = openCost + Framing]
  /\ emit' = "idle" /\ open' = {} /\ openCost' = 0
  /\ UNCHANGED <<batchesUsed, call, flush, shutdown>>

\* The resolver releases a batch.
Release(b) ==
  /\ batch[b] # {}
  /\ bytesUsed' = Minus(bytesUsed, batchCost[b])
  /\ batchesUsed' = Minus(batchesUsed, 1)
  /\ CallersGoTo(batch[b], "idle")
  /\ batch' = [batch EXCEPT ![b] = {}]
  /\ batchCost' = [batchCost EXCEPT ![b] = 0]
  /\ UNCHANGED <<emit, open, openCost, flush, shutdown>>

-----------------------------------------------------------------------------
FlushGoesTo(f, s) == flush' = [flush EXCEPT ![f] = s]

DrainStart(f) ==
  /\ flush[f] = "idle" /\ FlushGoesTo(f, "drain")
  /\ UNCHANGED <<budgetVars, call, emit, batchVars, shutdown>>

DrainBlocks(f) ==
  /\ flush[f] = "drain" /\ batchesUsed > 0 /\ FlushGoesTo(f, "blocked")
  /\ UNCHANGED <<budgetVars, call, emit, batchVars, shutdown>>

DrainReturns(f) ==
  /\ flush[f] \in {"drain", "blocked"} /\ batchesUsed = 0 /\ FlushGoesTo(f, "idle")
  /\ UNCHANGED <<budgetVars, call, emit, batchVars, shutdown>>

DrainGivesUp(f) ==
  /\ flush[f] = "blocked" /\ FlushGoesTo(f, "idle")
  /\ UNCHANGED <<budgetVars, call, emit, batchVars, shutdown>>

ShutdownFires ==
  /\ ~shutdown /\ shutdown' = TRUE
  /\ UNCHANGED <<budgetVars, call, emit, batchVars, flush>>

-----------------------------------------------------------------------------
Next ==
  \/ \E c \in Callers :
       \/ ReserveStart(c) \/ ReserveBlocks(c) \/ ReserveGrants(c)
       \/ ReserveGivesUp(c) \/ Unreserve(c) \/ Take(c)
  \/ EmitStart \/ SlotBlocks \/ SlotGrants \/ SlotGivesUp
  \/ \E b \in Batches : ChargeFraming(b) \/ Release(b)
  \/ \E f \in Flushers :
       DrainStart(f) \/ DrainBlocks(f) \/ DrainReturns(f) \/ DrainGivesUp(f)
  \/ ShutdownFires

\* A guard that stays true is noticed: the call does not stay blocked.
Grants ==
  /\ \A c \in Callers : WF_vars(ReserveGrants(c))
  /\ WF_vars(SlotGrants)
  /\ \A f \in Flushers : WF_vars(DrainReturns(f))

Spec == Init /\ [][Next]_vars /\ Grants
=============================================================================
