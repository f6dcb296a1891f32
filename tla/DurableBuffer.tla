--------------------------- MODULE DurableBuffer ---------------------------
(***************************************************************************)
(* What a producer promises to those who call it: Append accepts a message *)
(* or refuses it; an accepted message is stored, reported to the observer  *)
(* and resolved, without an error only if it is stored; and Close returns  *)
(* when everything accepted is resolved, unless its context ends it.       *)
(***************************************************************************)
CONSTANT Msgs

VARIABLES
  call,       \* the Append call of each message
  outcome,    \* what its watcher holds
  durable,    \* the messages that a consumer of the queue will find
  flushed,    \* the messages that OnFlush has reported
  closing     \* Close: not called, under way, returned, given up with ctx.Err()

vars == <<call, outcome, durable, flushed, closing>>

Accepted == {m \in Msgs : call[m] = "accepted"}
Pending == {m \in Accepted : outcome[m] = "pending"}

Init ==
  /\ call = [m \in Msgs |-> "idle"]
  /\ outcome = [m \in Msgs |-> "pending"]
  /\ durable = {} /\ flushed = {} /\ closing = "open"

CallGoesTo(m, s) ==
  call' = [call EXCEPT ![m] = s] /\ UNCHANGED <<outcome, durable, flushed, closing>>

Begin(m) == call[m] = "idle" /\ CallGoesTo(m, "open")

Accept(m) == call[m] = "open" /\ closing \in {"open", "closing"} /\ CallGoesTo(m, "accepted")

Refuse(m) == call[m] \in {"idle", "open"} /\ CallGoesTo(m, "refused")

\* A call that meets a closed appendCh.
Panic(m) == call[m] = "open" /\ closing # "open" /\ CallGoesTo(m, "panicked")

\* Stored, also without an acknowledgement or after an error was reported.
Store(S) ==
  /\ S \subseteq Accepted
  /\ durable' = durable \cup S
  /\ UNCHANGED <<call, outcome, flushed, closing>>

OnFlush(S) ==
  /\ S \subseteq Pending \ flushed
  /\ flushed' = flushed \cup S
  /\ UNCHANGED <<call, outcome, durable, closing>>

Settle(S, e) ==
  /\ outcome' = [m \in Msgs |-> IF m \in S THEN e ELSE outcome[m]]
  /\ UNCHANGED <<call, durable, flushed, closing>>

Resolve(S, e) ==
  /\ S \subseteq Pending \cap flushed
  /\ e = "nil" => S \subseteq durable
  /\ Settle(S, e)

\* The rotator gives up a batch, unseen by the observer.
Drop(S) ==
  /\ closing = "forced"
  /\ S \subseteq Pending \ flushed
  /\ Settle(S, "error")

CloseGoesTo(s) == closing' = s /\ UNCHANGED <<call, outcome, durable, flushed>>

CloseBegin == closing = "open" /\ CloseGoesTo("closing")

CloseEnd == closing = "closing" /\ Pending = {} /\ CloseGoesTo("closed")

CloseForce == closing = "closing" /\ CloseGoesTo("forced")

Next ==
  \/ \E m \in Msgs : Begin(m) \/ Accept(m) \/ Refuse(m) \/ Panic(m)
  \/ \E S \in SUBSET (Accepted \ durable) : Store(S)
  \/ \E S \in SUBSET Pending :
       OnFlush(S) \/ Drop(S) \/ \E e \in {"nil", "error"} : Resolve(S, e)
  \/ CloseBegin \/ CloseEnd \/ CloseForce

Spec == Init /\ [][Next]_vars
=============================================================================
