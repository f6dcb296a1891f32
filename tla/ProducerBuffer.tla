--------------------------- MODULE ProducerBuffer ---------------------------
(***************************************************************************)
(* What Producer promises to its callers, as the abstract DurableBuffer    *)
(* that it implements, and the flow of messages and batches through the    *)
(* pipeline that the promise rests on.                                     *)
(***************************************************************************)
EXTENDS ProducerInvariants

\* Uploads finish in any order, but the committer appends ordinals in order
\* and each at most once.  An entry out of order or repeated is one whose CAS
\* was applied without an acknowledgement, and was retried.
CommitOrder ==
  \A i, j \in DOMAIN manifest :
    (i < j /\ manifest[i] # Other /\ manifest[j] # Other /\ manifest[j] \notin unacked)
      => manifest[i] < manifest[j]

\* The CAS of this producer never overwrites an entry of another one.
OthersKept == Cardinality({i \in DOMAIN manifest : manifest[i] = Other}) = otherWrites

\* AppendContext sent m before n; a sequence, and two sets, in that order.
Earlier(m, n) == \E i, j \in DOMAIN accepted : i < j /\ accepted[i] = m /\ accepted[j] = n
InOrder(ms) == \A i, j \in DOMAIN ms : i < j => Earlier(ms[i], ms[j])
Before(S, T) == \A m \in S, n \in T : Earlier(m, n)

\* Messages reach batches in the order in which AppendContext sent them on
\* appendCh, whatever triggers cut the batches.
BatchOrder ==
  /\ \A o \in Ordinals : InOrder(batches[o].msgs)
  /\ \A o, p \in Ordinals : o < p => Before(Range(batches[o].msgs), Range(batches[p].msgs))

\* A watcher that resolves with an error belongs to a batch the manifest does
\* not contain, unless the acknowledgement of its CAS was lost.
FailedIsAbsent ==
  \A m \in Msgs, o \in Ordinals :
    (watch[m] \notin {"pending", "nil"} /\ m \in Range(batches[o].msgs) /\ o \notin unacked)
      => o \notin Range(manifest)

InFlight == Ordinals \ In({"done"})

Resolved(m) == watch[m] # "pending"

\* A Flush that returns the outcome of its batch has waited for everything
\* that was accepted before it was called.
FlushCovers ==
  \A f \in FlushCalls :
    fpc[f] \in Errors \ {"ErrShutdown"} => \A m \in covers[f] : Resolved(m)

\* When the resolver has exited, every accepted message has its outcome and
\* no batch is left anywhere in the pipeline: the committer's ready map has no
\* holes at the end.
ExitLeavesNothing ==
  vpc = "done" => /\ \A m \in Range(accepted) : Resolved(m)
                  /\ InFlight = {} /\ batchesUsed = 0

\* An encoder or uploader with a completion to send never blocks: the buffer
\* of uploadCompletionCh has room while some worker holds a batch.
CompletionNeverBlocks == In({"encoding", "uploading"}) # {} => CompletionRoom

\* After a halt the producer writes nothing more to the manifest, for good.
HaltIsFinal ==
  [][halted => halted' /\ manifest' \in {manifest, Append(manifest, Other)}]_vars

-----------------------------------------------------------------------------
(* Where messages and batches are *)

\* The messages of the batches in O.
MsgsOf(O) == UNION {Range(batches[o].msgs) : o \in O}

Waiting == Range(appendCh) \cup Range(acc.msgs)

\* Close closes appendCh before anything else ends, and the rotator leaves
\* with an empty accumulator and an empty channel.
RotatorFlow ==
  /\ appendClosed <=> clpc \notin {"idle", "flush"}
  /\ shutdown => clpc = "forced"
  /\ rexit => rpc \in {"slot", "blocked", "send", "done"}
  /\ (rexit \/ rpc = "done") => appendClosed /\ appendCh = <<>>
  /\ rpc \in {"send", "done"} => acc.msgs = <<>>

\* Every batch on its way has a goroutine that moves it on.
StageFlow ==
  \A o \in Ordinals :
    /\ stage[o] = "pending" => rpc = "send" /\ o = nextOrdinal - 1
    /\ stage[o] = "ready" => ~halted
    /\ stage[o] = "group" => o \in Range(group)
    /\ stage[o] = "failed" => o \in Range(failed)
    /\ stage[o] = "abandoned" => halted /\ cpc = "resolve"
    /\ stage[o] = "resolving" => o = cur /\ vpc \notin {"recv", "done"}

\* The committer has taken the ordinals below next, and no others until it
\* halts; a halted one never builds a group again.
CommitterFlow ==
  /\ next <= nextOrdinal
  /\ \A o \in Ordinals : o < next => stage[o] \in {"group", "failed", "resolving", "done"}
  /\ ~halted => \A o \in Ordinals :
                  stage[o] \in {"group", "failed", "resolving", "done"} => o < next
  /\ halted => cpc \in {"recv", "resolve", "done"}
  /\ cpc \in {"recv", "done"} => group = <<>> /\ failed = <<>>

\* The goroutines exit in the order of the pipeline, each with nothing left.
ExitFlow ==
  /\ encodersDone => rpc = "done" /\ In({"encoding"}) = {}
  /\ uploadersDone => encodersDone /\ In({"uploading"}) = {}
  /\ sawClosed => uploadersDone /\ In({"completed"}) = {}
  /\ cpc = "done" => sawClosed /\ In({"ready"}) = {}
  /\ vpc = "done" => cpc = "done"

\* Every batch has its place in the pipeline, and the pipeline can only end
\* when it is empty.
PipelineFlow == RotatorFlow /\ StageFlow /\ CommitterFlow /\ ExitFlow

\* Has the resolver still to resolve the watchers of batch o?
Unresolved(o) ==
  \/ stage[o] \notin {"resolving", "done"}
  \/ stage[o] = "resolving" /\ vpc \in {"observe", "watchers"}

\* A message is in one place only.
OnePlace ==
  /\ \A i, j \in DOMAIN appendCh : appendCh[i] = appendCh[j] => i = j
  /\ Range(appendCh) \cap Range(acc.msgs) = {}
  /\ \A o \in Ordinals : Range(batches[o].msgs) \cap Waiting = {}
  /\ \A o, p \in Ordinals : o # p => Range(batches[o].msgs) \cap Range(batches[p].msgs) = {}

\* What was accepted is somewhere until its watcher is resolved, and the
\* watchers of a batch are resolved together, with the error of the batch.
WatchersFlow ==
  /\ \A m \in Waiting \cup MsgsOf(Ordinals) : apc[m] = "accepted"
  /\ \A m \in Msgs : apc[m] # "accepted" => watch[m] = "pending"
  /\ \A m \in Msgs : apc[m] = "accepted" /\ watch[m] = "pending"
                     => m \in Waiting \cup MsgsOf(Ordinals)
  /\ \A m \in Waiting : watch[m] = "pending"
  /\ \A o \in Ordinals : \A m \in Range(batches[o].msgs) :
       watch[m] = IF Unresolved(o) THEN "pending" ELSE err[o]
  /\ Range(accepted) = {m \in Msgs : apc[m] = "accepted"}

ObserverFlow ==
  observed = In({"done"}) \cup {o \in In({"resolving"}) : vpc # "observe"}

\* Every message is accounted for, from AppendContext to its watcher.
MessageFlow == OnePlace /\ WatchersFlow /\ ObserverFlow

\* No trigger of the rotator lets a message pass another.
OrderFlow ==
  /\ \A i, j \in DOMAIN accepted : accepted[i] = accepted[j] => i = j
  /\ InOrder(appendCh) /\ InOrder(acc.msgs) /\ Before(Range(acc.msgs), Range(appendCh))
  /\ \A o \in Ordinals : Before(Range(batches[o].msgs), Waiting)
  /\ BatchOrder

\* The rotator has passed the flushAck of f on with a batch, or answered it.
PassedOn(f) == ackCh[f] # "none" \/ \E o \in Ordinals : batches[o].ack = f

\* By then everything that was accepted before the call is in batches, and it
\* has left appendCh when the rotator is done with draining it.
FlushFlow ==
  /\ clpc = "idle" => fpc[CloseFlush] = "idle"
  /\ \A f \in FlushCalls :
       /\ covers[f] \subseteq Range(accepted)
       /\ fpc[f] \in {"idle", "send"} => rack # f /\ ~PassedOn(f)
       /\ rack = f => ~PassedOn(f)
       /\ rack = f /\ rpc # "drain" => covers[f] \cap Range(appendCh) = {}
       /\ PassedOn(f) => covers[f] \cap Waiting = {}
  /\ FlushCovers

\* The committer's group is ascending, and until it is resolved without an
\* error and newer than the manifest, but for what is there unacknowledged.
GroupFlow ==
  /\ \A i, j \in DOMAIN group : i < j => group[i] < group[j]
  /\ \A i \in DOMAIN group : group[i] < next
  /\ cpc # "resolve" =>
       \A i \in DOMAIN group :
         /\ err[group[i]] = "nil"
         /\ \/ group[i] \in unacked
            \/ \A o \in Range(manifest) \ {Other} : o < group[i]

\* What is in the manifest was taken by the committer, and is resolved without
\* an error unless its CAS was not acknowledged.
CommittedFlow ==
  /\ objects \subseteq Ordinals
  /\ \A o \in Range(manifest) \ {Other} : o < next
  /\ \A o \in Ordinals : o \in Range(manifest) \ unacked => err[o] = "nil"

\* The manifest grows by ascending groups, each acknowledged as a whole.
ManifestFlow == GroupFlow /\ CommittedFlow /\ CommitOrder

-----------------------------------------------------------------------------
(* What the budget is used for *)

\* The sum of f[x] over the members x of a finite set S, as the number of the
\* units that f gives to them.
Units(f, S) == UNION {{x} \X (1 .. f[x]) : x \in S}
SumOf(f, S) == Cardinality(Units(f, S))

\* The messages whose bytes are reserved and not yet in the accumulator.
Reserved == {m \in Msgs : apc[m] \in {"send", "panicked"}} \cup Range(appendCh)

\* The messages that hold bytes of the budget.
Holders == Reserved \cup Range(acc.msgs) \cup MsgsOf(InFlight)

\* The byteCost of each batch, and the framing in it.
Costs == [o \in Ordinals |-> batches[o].cost]
Framings == [o \in Ordinals |-> batches[o].cost - SumOf(ByteCost, Range(batches[o].msgs))]

\* The budget is exactly what the calls, the channel, the accumulator and the
\* batches in flight hold: nothing leaks and nothing is released twice, so the
\* clamps of release never act.
BudgetExact ==
  /\ batchesUsed = Cardinality(InFlight)
  /\ bytesUsed = SumOf(ByteCost, Reserved) + acc.bytes + SumOf(Costs, InFlight)

\* MaxInFlightBatches is never exceeded, and neither is MaxInFlightBytes but
\* for the framing added at rotation and one oversize message at a time.
InFlightBound ==
  /\ batchesUsed <= MaxInFlightBatches
  /\ \/ SumOf(ByteCost, Holders) <= MaxInFlightBytes
     \/ Cardinality({m \in Holders : ByteCost[m] > 0}) = 1

\* The accumulator and the batches know what their messages cost, and all but
\* the framing of the batches in flight is the cost of the holders.
BudgetFlow ==
  /\ IsFiniteSet(Holders)
  /\ acc.bytes = SumOf(ByteCost, Range(acc.msgs))
  /\ \A o \in Ordinals : batches[o].cost >= SumOf(ByteCost, Range(batches[o].msgs))
  /\ bytesUsed = SumOf(ByteCost, Holders) + SumOf(Framings, InFlight)
  /\ BudgetExact /\ InFlightBound

-----------------------------------------------------------------------------
(* The refinement mapping *)

CallOf(pc) ==
  IF pc \in {"idle", "accepted", "panicked"} THEN pc
  ELSE IF pc \in {"reserve", "blocked", "send"} THEN "open" ELSE "refused"

Call == [m \in Msgs |-> CallOf(apc[m])]

Outcome == [m \in Msgs |-> IF watch[m] \in {"pending", "nil"} THEN watch[m] ELSE "error"]

Durable == MsgsOf(Range(manifest) \cap Ordinals)

Flushed == MsgsOf(observed)

Closing ==
  IF clpc = "idle" THEN "open" ELSE IF clpc \in {"closed", "forced"} THEN clpc ELSE "closing"

Buffer == INSTANCE DurableBuffer WITH
  call <- Call, outcome <- Outcome, durable <- Durable, flushed <- Flushed, closing <- Closing

\* The goroutines and channels of the pipeline implement the abstract buffer:
\* among other things a message has one outcome, which the observer hears of
\* first, nothing is accepted once Close has closed appendCh, and a Close that
\* returns without ctx.Err() leaves nothing unresolved.
ImplementsBuffer == Buffer!Spec
=============================================================================
