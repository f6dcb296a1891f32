------------------------------ MODULE Producer ------------------------------
(***************************************************************************)
(* The pipelined producer of buffer/producer.go: AppendContext and Flush   *)
(* callers, the rotator, the encoder and uploader pools, the manifest      *)
(* committer, the watcher resolver, and Close.                             *)
(*                                                                         *)
(* A batch is identified by its ordinal, and stage[o] says which goroutine *)
(* or channel holds it.  The workers of a pool are interchangeable, so a   *)
(* pool is the set of batches its workers hold.  The unbuffered channels   *)
(* (flushCh, pendingCh, encodedCh, resolverCh) are rendezvous: one step    *)
(* moves sender and receiver.  appendCh keeps its order.                   *)
(* uploadCompletionCh is the set of batches in stage "completed": the      *)
(* committer indexes completions by ordinal, so their order is not used.   *)
(***************************************************************************)
EXTENDS Integers, Sequences, FiniteSets, Functions

CONSTANTS
  Msgs,                     \* AppendContext calls; each submits one message
  ByteCost,                 \* appendByteCost of each message
  EntryCount,               \* number of entries of each message
  FlushCalls,               \* calls of Flush
  CloseFlush,               \* the one that Close makes
  NoFlush,                  \* the nil flushAck of a batch no Flush waits for
  Other,                    \* a manifest entry of another producer
  MaxBufferedInputs, FlushSizeBytes, EncodeConcurrency, UploadConcurrency,
  MaxInFlightBatches, MaxInFlightBytes, ManifestAppendBatchSize,
  UploadMaxAttempts, ManifestMaxAttempts,      \* the fields of ProducerConfig
  Faults,                   \* the environment failures that may happen
  MaxOtherWrites,           \* bound: manifest writes by other producers
  Disciplined               \* no Append call is open when Close starts, or after

ASSUME MessagesAssumption ==
  ByteCost \in [Msgs -> Nat] /\ EntryCount \in [Msgs -> Nat \ {0}]

ASSUME FlushAssumption == CloseFlush \in FlushCalls /\ NoFlush \notin FlushCalls

ASSUME ConfigAssumption ==
  /\ FlushSizeBytes \in Nat
  /\ {MaxBufferedInputs, EncodeConcurrency, UploadConcurrency, MaxInFlightBatches,
      MaxInFlightBytes, ManifestAppendBatchSize, UploadMaxAttempts,
      ManifestMaxAttempts} \subseteq Nat \ {0}

ASSUME EnvironmentAssumption ==
  /\ Other \notin Nat
  /\ Faults \subseteq {"ctx", "encode", "put", "get", "cas", "lostAck"}
  /\ MaxOtherWrites \in Nat
  /\ Disciplined \in BOOLEAN

VARIABLES
  (* AppendContext callers *)
  apc,            \* where each call is, or what it returned
  watch,          \* DurabilityWatcher of each message
  accepted,       \* history: the messages sent on appendCh, in order
  appendCh, appendClosed,
  (* rotator *)
  rpc, acc,       \* program counter, batchAccumulator
  rack, rexit,    \* flushAck of the emit in progress; does it end the rotator
  nextOrdinal,
  (* batches, by ordinal *)
  batches, stage, err, tries,
  encodersDone, uploadersDone,
  (* manifest committer *)
  cpc, next, group, failed, casTries, snap, sawClosed, halted,
  (* watcher resolver *)
  vpc, cur, observed,
  (* object store; unacked is history: ordinals whose CAS lost its answer *)
  objects, manifest, version, unacked, otherWrites,
  (* producerBudget *)
  bytesUsed, batchesUsed,
  (* Flush callers; covers is history: what each call has to wait for *)
  fpc, ackCh, covers,
  (* Close *)
  clpc, closeCtx, cancelled, shutdown

appVars     == <<apc, watch, accepted, appendCh, appendClosed>>
rotVars     == <<rpc, acc, rack, rexit, nextOrdinal, batches>>
workVars    == <<stage, err, tries, encodersDone, uploadersDone>>
commitVars  == <<cpc, next, group, failed, casTries, snap, sawClosed, halted>>
resolveVars == <<vpc, cur, observed>>
storeVars   == <<objects, manifest, version, unacked, otherWrites>>
budgetVars  == <<bytesUsed, batchesUsed>>
flushVars   == <<fpc, ackCh, covers>>
closeVars   == <<clpc, closeCtx, cancelled, shutdown>>

vars == <<appVars, rotVars, workVars, commitVars, resolveVars, storeVars,
          budgetVars, flushVars, closeVars>>

-----------------------------------------------------------------------------
Errors == {"nil", "ErrEncode", "ErrStorage", "ErrShutdown", "ErrProducerHalted"}

AppendStates == {"idle", "reserve", "blocked", "send", "accepted", "panicked",
                 "ctx", "ErrShutdown", "ErrProducerHalted"}

FlushWaits == {"send", "ack", "waitDrained", "draining"}

\* Where a batch is, from the blocked send on pendingCh to its last release.
Stages == {"pending", "encoding", "uploading", "completed", "ready", "group",
           "failed", "abandoned", "resolving", "done"}

batchEntryLenSize == 4
batchFooterSize == 7

Ordinals == 0 .. nextOrdinal - 1
In(S) == {o \in Ordinals : stage[o] \in S}

(* batchAccumulator *)

EmptyAcc == [msgs |-> <<>>, bytes |-> 0, entries |-> 0]

\* Mutant: add puts the message first.
AddInFront(a, m) == [msgs |-> <<m>> \o a.msgs, bytes |-> a.bytes + ByteCost[m],
                     entries |-> a.entries + EntryCount[m]]

\* sizeBytes and byteCost of the accumulator grow by the same amount: bytes.
Add(a, m) == [msgs |-> Append(a.msgs, m), bytes |-> a.bytes + ByteCost[m],
              entries |-> a.entries + EntryCount[m]]

\* Mutant: the footer is subtracted.
FramingExtraMinusFooter(a) == batchEntryLenSize * a.entries - batchFooterSize

FramingExtra(a) == batchEntryLenSize * a.entries + batchFooterSize

(* producerBudget *)

\* Mutant: the request itself is not counted.
CanReserveIgnoresRequest(n) == bytesUsed <= MaxInFlightBytes

CanReserve(n) == bytesUsed = 0 \/ bytesUsed + n <= MaxInFlightBytes

\* Mutant: one slot too many.
SlotFreeOffByOne == batchesUsed <= MaxInFlightBatches

SlotFree == batchesUsed < MaxInFlightBatches

\* Mutant: release forgets to subtract.
ReleasedNothing(used, n) == used

\* release clamps at zero.
Released(used, n) == IF used < n THEN 0 ELSE used - n

(* DurabilityWatcher *)

\* The watchers of the messages ms after resolve(e): the first outcome stays.
WatchersResolved(ms, e) ==
  [m \in Msgs |-> IF m \in ms /\ watch[m] = "pending" THEN e ELSE watch[m]]

\* The flushAck channels after e is sent to f, if f is a Flush at all.
Acked(f, e) == [g \in FlushCalls |-> IF g = f THEN e ELSE ackCh[g]]

-----------------------------------------------------------------------------
Init ==
  /\ apc = [m \in Msgs |-> "idle"]
  /\ watch = [m \in Msgs |-> "pending"]
  /\ accepted = <<>> /\ appendCh = <<>> /\ appendClosed = FALSE
  /\ rpc = "select" /\ acc = EmptyAcc /\ rack = NoFlush /\ rexit = FALSE
  /\ nextOrdinal = 0
  /\ batches = <<>> /\ stage = <<>> /\ err = <<>> /\ tries = <<>>
  /\ encodersDone = FALSE /\ uploadersDone = FALSE
  /\ cpc = "recv" /\ next = 0 /\ group = <<>> /\ failed = <<>>
  /\ casTries = 0 /\ snap = [data |-> <<>>, version |-> 0]
  /\ sawClosed = FALSE /\ halted = FALSE
  /\ vpc = "recv" /\ cur = 0 /\ observed = {}
  /\ objects = {} /\ manifest = <<>> /\ version = 0
  /\ unacked = {} /\ otherWrites = 0
  /\ bytesUsed = 0 /\ batchesUsed = 0
  /\ fpc = [f \in FlushCalls |-> "idle"]
  /\ ackCh = [f \in FlushCalls |-> "none"]
  /\ covers = [f \in FlushCalls |-> {}]
  /\ clpc = "idle" /\ closeCtx = FALSE /\ cancelled = FALSE /\ shutdown = FALSE

-----------------------------------------------------------------------------
(* AppendContext.  The call of message m has returned when apc[m] is       *)
(* "accepted" or the name of an error.                                     *)

AppendFrame ==
  UNCHANGED <<watch, appendClosed, rotVars, workVars, commitVars, resolveVars,
              storeVars, batchesUsed, flushVars, closeVars>>

AppendGoesTo(m, pc) == apc' = [apc EXCEPT ![m] = pc]

AppendStart(m) ==
  /\ apc[m] = "idle"
  /\ Disciplined => clpc = "idle"
  /\ AppendGoesTo(m, IF halted THEN "ErrProducerHalted" ELSE "reserve")
  /\ UNCHANGED <<accepted, appendCh, bytesUsed>> /\ AppendFrame

\* reserveBytes grants, at once or after a wait.
AppendReserve(m) ==
  /\ apc[m] \in {"reserve", "blocked"}
  /\ CanReserve(ByteCost[m])
  /\ bytesUsed' = bytesUsed + ByteCost[m]
  /\ AppendGoesTo(m, "send")
  /\ UNCHANGED <<accepted, appendCh>> /\ AppendFrame

AppendBlocks(m) ==
  /\ apc[m] = "reserve"
  /\ ~CanReserve(ByteCost[m])
  /\ AppendGoesTo(m, "blocked")
  /\ UNCHANGED <<accepted, appendCh, bytesUsed>> /\ AppendFrame

\* reserveBytes gives up: only a call that has blocked looks at ctx and
\* shutdownCh, and it may do so although capacity has just been freed.
AppendReserveFails(m) ==
  /\ apc[m] = "blocked"
  /\ \/ "ctx" \in Faults /\ AppendGoesTo(m, "ctx")
     \/ shutdown /\ AppendGoesTo(m, "ErrShutdown")
  /\ UNCHANGED <<accepted, appendCh, bytesUsed>> /\ AppendFrame

AppendSend(m) ==
  /\ apc[m] = "send"
  /\ ~appendClosed /\ Len(appendCh) < MaxBufferedInputs
  /\ appendCh' = Append(appendCh, m)
  /\ accepted' = Append(accepted, m)
  /\ AppendGoesTo(m, "accepted")
  /\ UNCHANGED bytesUsed /\ AppendFrame

\* The send case of the select panics once Close has closed appendCh; the
\* call never returns and its reservation stays.
AppendSendOnClosed(m) ==
  /\ apc[m] = "send"
  /\ appendClosed
  /\ AppendGoesTo(m, "panicked")
  /\ UNCHANGED <<accepted, appendCh, bytesUsed>> /\ AppendFrame

\* The other cases of the select, ctx.Done() and rotatorDone: the message
\* never entered the pipeline and its bytes are released.
AppendSendFails(m) ==
  /\ apc[m] = "send"
  /\ \/ "ctx" \in Faults /\ AppendGoesTo(m, "ctx")
     \/ rpc = "done" /\ AppendGoesTo(m, "ErrShutdown")
  /\ bytesUsed' = Released(bytesUsed, ByteCost[m])
  /\ UNCHANGED <<accepted, appendCh>> /\ AppendFrame

-----------------------------------------------------------------------------
(* rotator *)

SelectFrame ==
  UNCHANGED <<apc, watch, accepted, appendClosed, nextOrdinal, batches, workVars,
              commitVars, resolveVars, storeVars, budgetVars, covers, closeVars>>

\* emit on a non-empty accumulator goes on to acquireBatchSlot.
Emit(ack, exit) == rpc' = "slot" /\ rack' = ack /\ rexit' = exit

\* batch.add of the message at the head of appendCh.
ReceiveAppend ==
  /\ appendCh # <<>>
  /\ acc' = Add(acc, Head(appendCh))
  /\ appendCh' = Tail(appendCh)

RotatorReceive ==
  /\ rpc = "select"
  /\ ReceiveAppend
  /\ IF acc'.bytes >= FlushSizeBytes
       THEN Emit(NoFlush, FALSE)
       ELSE UNCHANGED <<rpc, rack, rexit>>
  /\ UNCHANGED <<fpc, ackCh>> /\ SelectFrame

\* Mutant: the open accumulator is not emitted at the end.
RotatorClosedNoEmit ==
  /\ rpc = "select"
  /\ appendClosed /\ appendCh = <<>>
  /\ rpc' = "done"
  /\ UNCHANGED <<acc, appendCh, rack, rexit, fpc, ackCh>> /\ SelectFrame

\* appendCh is closed and drained: emit what is left, then return.
RotatorClosed ==
  /\ rpc = "select"
  /\ appendClosed /\ appendCh = <<>>
  /\ IF acc.msgs = <<>>
       THEN rpc' = "done" /\ UNCHANGED <<rack, rexit>>
       ELSE Emit(NoFlush, TRUE)
  /\ UNCHANGED <<acc, appendCh, fpc, ackCh>> /\ SelectFrame

\* The flush timer runs while the accumulator holds a message.
RotatorTimer ==
  /\ rpc = "select"
  /\ acc.msgs # <<>>
  /\ Emit(NoFlush, FALSE)
  /\ UNCHANGED <<acc, appendCh, fpc, ackCh>> /\ SelectFrame

RotatorFlush(f) ==
  /\ rpc = "select"
  /\ fpc[f] = "send"
  /\ rpc' = "drain" /\ rack' = f /\ rexit' = FALSE
  /\ fpc' = [fpc EXCEPT ![f] = "ack"]
  /\ UNCHANGED <<acc, appendCh, ackCh>> /\ SelectFrame

\* One round of drainAppendChInto.
RotatorDrain ==
  /\ rpc = "drain"
  /\ ReceiveAppend
  /\ UNCHANGED <<rpc, rack, rexit, fpc, ackCh>> /\ SelectFrame

\* drainAppendChInto returns; emit answers a Flush of an empty accumulator.
RotatorDrained ==
  /\ rpc = "drain"
  /\ appendCh = <<>>
  /\ IF acc.msgs = <<>>
       THEN rpc' = "select" /\ rack' = NoFlush /\ ackCh' = Acked(rack, "nil")
       ELSE rpc' = "slot" /\ UNCHANGED <<rack, ackCh>>
  /\ UNCHANGED <<acc, appendCh, rexit, fpc>> /\ SelectFrame

\* acquireBatchSlot finds no slot free.
RotatorBlocks ==
  /\ rpc = "slot"
  /\ ~SlotFree
  /\ rpc' = "blocked"
  /\ UNCHANGED <<acc, appendCh, rack, rexit, fpc, ackCh>> /\ SelectFrame

EmitFrame ==
  /\ acc' = EmptyAcc /\ rack' = NoFlush
  /\ UNCHANGED <<apc, accepted, appendCh, appendClosed, rexit, encodersDone,
                 uploadersDone, commitVars, resolveVars, storeVars, fpc, covers,
                 closeVars>>

\* f with a value for the next ordinal.
WithNext(f, v) == [o \in 0 .. nextOrdinal |-> IF o = nextOrdinal THEN v ELSE f[o]]

\* acquireBatchSlot grants, addReservation reconciles the framing, and the
\* rotator blocks in the send on pendingCh.  (The two budget calls commute
\* with every step that could come between them.)
RotatorAcquire ==
  /\ rpc \in {"slot", "blocked"}
  /\ SlotFree
  /\ batchesUsed' = batchesUsed + 1
  /\ bytesUsed' = bytesUsed + FramingExtra(acc)
  /\ batches' = WithNext(batches, [msgs |-> acc.msgs, ack |-> rack,
                                   cost |-> acc.bytes + FramingExtra(acc)])
  /\ stage' = WithNext(stage, "pending")
  /\ err' = WithNext(err, "nil")
  /\ tries' = WithNext(tries, 0)
  /\ nextOrdinal' = nextOrdinal + 1
  /\ rpc' = "send"
  /\ UNCHANGED <<watch, ackCh>> /\ EmitFrame

\* After emit: the next round of the loop, or the end of the rotator.
AfterEmit == IF rexit THEN "done" ELSE "select"

\* Mutant: the watchers of a dropped batch are not resolved.
RotatorDropSilently ==
  /\ rpc = "blocked"
  /\ shutdown
  /\ bytesUsed' = Released(bytesUsed, acc.bytes)
  /\ ackCh' = Acked(rack, "ErrShutdown")
  /\ rpc' = AfterEmit
  /\ UNCHANGED <<watch, batchesUsed, batches, stage, err, tries, nextOrdinal>> /\ EmitFrame

\* A blocked acquireBatchSlot sees shutdownCh: emit drops the batch, and the
\* rotator goes on with its loop.
RotatorDrop ==
  /\ rpc = "blocked"
  /\ shutdown
  /\ bytesUsed' = Released(bytesUsed, acc.bytes)
  /\ watch' = WatchersResolved(Range(acc.msgs), "ErrShutdown")
  /\ ackCh' = Acked(rack, "ErrShutdown")
  /\ rpc' = AfterEmit
  /\ UNCHANGED <<batchesUsed, batches, stage, err, tries, nextOrdinal>> /\ EmitFrame

-----------------------------------------------------------------------------
(* encoderPool, uploaderPool.  A worker holds its batch until it has sent  *)
(* it on; uploadCompletionCh has room for MaxInFlightBatches.              *)

WorkFrame ==
  UNCHANGED <<appVars, acc, rack, rexit, nextOrdinal, batches, commitVars,
              resolveVars, manifest, version, unacked, otherWrites, budgetVars,
              flushVars, closeVars>>

Idle(workers, s) == Cardinality(In({s})) < workers
CompletionRoom == Cardinality(In({"completed"})) < MaxInFlightBatches

\* Mutant: the putError is lost.
CompleteWithoutError(o, e) ==
  /\ CompletionRoom
  /\ stage' = [stage EXCEPT ![o] = "completed"]
  /\ tries' = [tries EXCEPT ![o] = 0]
  /\ UNCHANGED err

\* o leaves its worker for uploadCompletionCh with putError e.
Complete(o, e) ==
  /\ CompletionRoom
  /\ stage' = [stage EXCEPT ![o] = "completed"]
  /\ err' = [err EXCEPT ![o] = e]
  /\ tries' = [tries EXCEPT ![o] = 0]

\* An encoder takes the batch the rotator is sending.
EncoderReceive ==
  /\ rpc = "send"
  /\ Idle(EncodeConcurrency, "encoding")
  /\ stage' = [stage EXCEPT ![nextOrdinal - 1] = "encoding"]
  /\ rpc' = AfterEmit
  /\ UNCHANGED <<err, tries, encodersDone, uploadersDone, objects>> /\ WorkFrame

\* EncodeBatch succeeded and an uploader takes the batch from encodedCh.
EncoderSend(o) ==
  /\ stage[o] = "encoding"
  /\ Idle(UploadConcurrency, "uploading")
  /\ stage' = [stage EXCEPT ![o] = "uploading"]
  /\ UNCHANGED <<rpc, err, tries, encodersDone, uploadersDone, objects>> /\ WorkFrame

\* EncodeBatch failed: a synthetic completion.
EncoderFails(o) ==
  /\ "encode" \in Faults
  /\ stage[o] = "encoding"
  /\ Complete(o, "ErrEncode")
  /\ UNCHANGED <<rpc, encodersDone, uploadersDone, objects>> /\ WorkFrame

\* putWithRetry: the PUT succeeded.
UploadOk(o) ==
  /\ stage[o] = "uploading"
  /\ objects' = objects \cup {o}
  /\ Complete(o, "nil")
  /\ UNCHANGED <<rpc, encodersDone, uploadersDone>> /\ WorkFrame

\* The PUT returned an error, with or without effect, and is retried after a
\* backoff, unless it was the last attempt.
UploadFails(o) ==
  /\ stage[o] = "uploading"
  /\ "put" \in Faults \/ cancelled
  /\ objects' \in {objects, objects \cup {o}}
  /\ IF tries[o] + 1 < UploadMaxAttempts
       THEN tries' = [tries EXCEPT ![o] = @ + 1] /\ UNCHANGED <<stage, err>>
       ELSE Complete(o, "ErrStorage")
  /\ UNCHANGED <<rpc, encodersDone, uploadersDone>> /\ WorkFrame

\* The backoff between two attempts sees shutdownCh.
UploadAborted(o) ==
  /\ stage[o] = "uploading"
  /\ tries[o] > 0 /\ shutdown
  /\ Complete(o, "ErrShutdown")
  /\ UNCHANGED <<rpc, encodersDone, uploadersDone, objects>> /\ WorkFrame

\* pendingCh closed and every encoder returned: encodedCh is closed.
EncoderPoolExit ==
  /\ ~encodersDone
  /\ rpc = "done" /\ In({"encoding"}) = {}
  /\ encodersDone' = TRUE
  /\ UNCHANGED <<rpc, stage, err, tries, uploadersDone, objects>> /\ WorkFrame

\* encodedCh closed and every uploader returned: uploadCompletionCh is closed.
UploaderPoolExit ==
  /\ ~uploadersDone
  /\ encodersDone /\ In({"uploading"}) = {}
  /\ uploadersDone' = TRUE
  /\ UNCHANGED <<rpc, stage, err, tries, encodersDone, objects>> /\ WorkFrame

-----------------------------------------------------------------------------
(* manifestCommitter: receiving completions and building groups *)

DrainFrame ==
  UNCHANGED <<appVars, rotVars, tries, encodersDone, uploadersDone, snap, halted,
              observed, storeVars, budgetVars, flushVars, closeVars>>

\* Mutant: the committer gathers and commits also when halted.
CommitterGatherHalted ==
  /\ cpc = "recv" /\ In({"completed"}) # {}
  /\ stage' = [o \in Ordinals |-> IF stage[o] = "completed" THEN "ready" ELSE stage[o]]
  /\ sawClosed' = uploadersDone
  /\ cpc' = "drain"
  /\ UNCHANGED <<err, next, group, failed, casTries, vpc, cur>> /\ DrainFrame

\* Blocking receive plus gather: everything in the channel becomes ready.
CommitterGather ==
  /\ cpc = "recv" /\ ~halted /\ In({"completed"}) # {}
  /\ stage' = [o \in Ordinals |-> IF stage[o] = "completed" THEN "ready" ELSE stage[o]]
  /\ sawClosed' = uploadersDone
  /\ cpc' = "drain"
  /\ UNCHANGED <<err, next, group, failed, casTries, vpc, cur>> /\ DrainFrame

\* In halted mode each receive is resolved with ErrProducerHalted.
CommitterReceiveHalted(o) ==
  /\ cpc = "recv" /\ halted
  /\ stage[o] = "completed"
  /\ stage' = [stage EXCEPT ![o] = "abandoned"]
  /\ err' = [err EXCEPT ![o] = "ErrProducerHalted"]
  /\ cpc' = "resolve"
  /\ UNCHANGED <<next, group, failed, casTries, sawClosed, vpc, cur>> /\ DrainFrame

\* Mutant: a halted committer receives from the closed channel again and again.
CommitterClosedSpins ==
  /\ cpc = "recv"
  /\ uploadersDone /\ In({"completed"}) = {}
  /\ sawClosed' = ~halted
  /\ cpc' = IF halted THEN "recv" ELSE "drain"
  /\ UNCHANGED <<stage, err, next, group, failed, casTries, vpc, cur>> /\ DrainFrame

\* uploadCompletionCh is closed and empty: a last drain, unless halted.
CommitterClosed ==
  /\ cpc = "recv"
  /\ uploadersDone /\ In({"completed"}) = {}
  /\ sawClosed' = TRUE
  /\ cpc' = IF halted THEN "done" ELSE "drain"
  /\ UNCHANGED <<stage, err, next, group, failed, casTries, vpc, cur>> /\ DrainFrame

NextIsReady == next \in Ordinals /\ stage[next] = "ready"
GroupHasRoom == Len(group) + Len(failed) < ManifestAppendBatchSize

\* o goes from ready to the group, or to failed when its upload failed.
TakeReady(o) ==
  /\ stage' = [stage EXCEPT ![o] = IF err[o] = "nil" THEN "group" ELSE "failed"]
  /\ group' = IF err[o] = "nil" THEN Append(group, o) ELSE group
  /\ failed' = IF err[o] = "nil" THEN failed ELSE Append(failed, o)
  /\ next' = next + 1

\* Mutant: completions are committed as they arrive.
CommitterTakeAnyReady ==
  /\ cpc = "drain" /\ GroupHasRoom
  /\ \E o \in In({"ready"}) : TakeReady(o)
  /\ UNCHANGED <<err, cpc, casTries, sawClosed, vpc, cur>> /\ DrainFrame

\* One round of the loop that builds a commit group.
CommitterTake ==
  /\ cpc = "drain" /\ GroupHasRoom
  /\ NextIsReady /\ TakeReady(next)
  /\ UNCHANGED <<err, cpc, casTries, sawClosed, vpc, cur>> /\ DrainFrame

\* The group is built: commit it, or return from drain when there is none.
CommitterTaken ==
  /\ cpc = "drain"
  /\ ~(GroupHasRoom /\ NextIsReady)
  /\ cpc' = IF group # <<>> THEN "read"
            ELSE IF failed # <<>> THEN "resolve"
            ELSE IF sawClosed THEN "done" ELSE "recv"
  /\ UNCHANGED <<stage, err, next, group, failed, casTries, sawClosed, vpc, cur>>
  /\ DrainFrame

\* The backoff of casWithRetry ends.
CommitterRetry ==
  /\ cpc = "backoff"
  /\ cpc' = "read"
  /\ UNCHANGED <<stage, err, next, group, failed, casTries, sawClosed, vpc, cur>>
  /\ DrainFrame

\* The backoff sees shutdownCh: the group fails, the producer is not halted.
CommitterAborted ==
  /\ cpc = "backoff"
  /\ shutdown
  /\ err' = [o \in Ordinals |-> IF o \in Range(group) THEN "ErrShutdown" ELSE err[o]]
  /\ casTries' = 0
  /\ cpc' = "resolve"
  /\ UNCHANGED <<stage, next, group, failed, sawClosed, vpc, cur>> /\ DrainFrame

\* resolve hands o to the watcher resolver.
Resolve(o) ==
  /\ vpc = "recv"
  /\ vpc' = "observe" /\ cur' = o
  /\ stage' = [stage EXCEPT ![o] = "resolving"]

\* The group first, then the failed ones, then (when halting) what was ready.
CommitterResolve ==
  /\ cpc = "resolve"
  /\ \/ /\ group # <<>> /\ Resolve(Head(group))
        /\ group' = Tail(group) /\ UNCHANGED failed
     \/ /\ group = <<>> /\ failed # <<>> /\ Resolve(Head(failed))
        /\ failed' = Tail(failed) /\ UNCHANGED group
     \/ /\ group = <<>> /\ failed = <<>> /\ \E o \in In({"abandoned"}) : Resolve(o)
        /\ UNCHANGED <<group, failed>>
  /\ UNCHANGED <<err, cpc, next, casTries, sawClosed>> /\ DrainFrame

\* drain loops for the next group; when halted it has returned.
CommitterResolved ==
  /\ cpc = "resolve"
  /\ group = <<>> /\ failed = <<>> /\ In({"abandoned"}) = {}
  /\ cpc' = IF ~halted THEN "drain" ELSE IF sawClosed THEN "done" ELSE "recv"
  /\ UNCHANGED <<stage, err, next, group, failed, casTries, sawClosed, vpc, cur>>
  /\ DrainFrame

-----------------------------------------------------------------------------
(* manifestCommitter: casWithRetry and enqueueBatch *)

CasFrame ==
  UNCHANGED <<appVars, rotVars, tries, encodersDone, uploadersDone, next, group,
              failed, sawClosed, resolveVars, objects, otherWrites, budgetVars,
              flushVars, closeVars>>

\* readManifest.  Version 0 stands for a manifest that does not exist yet.
CommitterRead ==
  /\ cpc = "read"
  /\ snap' = [data |-> manifest, version |-> version]
  /\ cpc' = "put"
  /\ UNCHANGED <<stage, err, casTries, halted, manifest, version, unacked>> /\ CasFrame

\* Mutant: the group keeps its nil error.
FailedByHaltSparesGroup(o) == stage[o] = "ready"

\* Mutant: also the batch the resolver is working on is failed.
FailedByHaltResolving(o) == o \in Range(group) \/ stage[o] \in {"ready", "resolving"}

FailedByHalt(o) == o \in Range(group) \/ stage[o] = "ready"

\* enterHalted, after the last attempt of casWithRetry: the group and all that
\* is ready end with ErrProducerHalted.
Halt ==
  /\ halted' = TRUE
  /\ stage' = [o \in Ordinals |-> IF stage[o] = "ready" THEN "abandoned" ELSE stage[o]]
  /\ err' = [o \in Ordinals |-> IF FailedByHalt(o) THEN "ErrProducerHalted" ELSE err[o]]
  /\ cpc' = "resolve"
  /\ casTries' = 0

\* enqueueBatch returned a storage error: back off, or halt.
\* Mutant: the attempts are not counted.
CasAttemptRetries == cpc' = "backoff" /\ UNCHANGED <<casTries, stage, err, halted>>

CasAttemptFails ==
  IF casTries + 1 < ManifestMaxAttempts
    THEN /\ casTries' = casTries + 1
         /\ cpc' = "backoff"
         /\ UNCHANGED <<stage, err, halted>>
    ELSE Halt

CommitterReadFails ==
  /\ cpc = "read"
  /\ "get" \in Faults \/ cancelled
  /\ CasAttemptFails
  /\ UNCHANGED <<snap, manifest, version, unacked>> /\ CasFrame

\* Mutant: an unconditional put.
WriteManifestUnconditionally ==
  manifest' = snap.data \o group /\ version' = version + 1

\* PutIfMatch writes the manifest that was read plus the group.
WriteManifest ==
  /\ snap.version = version
  /\ manifest' = snap.data \o group /\ version' = version + 1

CommitterPut ==
  /\ cpc = "put"
  /\ WriteManifest
  /\ casTries' = 0
  /\ cpc' = "resolve"
  /\ UNCHANGED <<stage, err, snap, halted, unacked>> /\ CasFrame

\* ErrPreconditionFailed: enqueueBatch reads again at once.
CommitterConflict ==
  /\ cpc = "put"
  /\ snap.version # version
  /\ cpc' = "read"
  /\ UNCHANGED <<stage, err, casTries, snap, halted, manifest, version, unacked>>
  /\ CasFrame

\* PutIfMatch returns another error.  The write may have happened all the same
\* when only its acknowledgement was lost.
CommitterPutFails ==
  /\ cpc = "put"
  /\ "cas" \in Faults \/ cancelled
  /\ \/ UNCHANGED <<manifest, version, unacked>>
     \/ "lostAck" \in Faults /\ WriteManifest /\ unacked' = unacked \cup Range(group)
  /\ CasAttemptFails
  /\ UNCHANGED snap /\ CasFrame

-----------------------------------------------------------------------------
(* watcherResolver: the observer's OnFlush and OnBatchOutcome, the         *)
(* watchers, the Flush that waits for the batch, the budget.               *)

ResolverFrame ==
  UNCHANGED <<apc, accepted, appendCh, appendClosed, rotVars, err, tries,
              encodersDone, uploadersDone, commitVars, cur, storeVars, fpc,
              covers, closeVars>>

ResolverObserve ==
  /\ vpc = "observe" /\ vpc' = "watchers"
  /\ observed' = observed \cup {cur}
  /\ UNCHANGED <<watch, stage, budgetVars, ackCh>> /\ ResolverFrame

ResolverWatchers ==
  /\ vpc = "watchers" /\ vpc' = "ack"
  /\ watch' = WatchersResolved(Range(batches[cur].msgs), err[cur])
  /\ UNCHANGED <<stage, observed, budgetVars, ackCh>> /\ ResolverFrame

ResolverAck ==
  /\ vpc = "ack" /\ vpc' = "release"
  /\ ackCh' = Acked(batches[cur].ack, err[cur])
  /\ UNCHANGED <<watch, stage, observed, budgetVars>> /\ ResolverFrame

ResolverRelease ==
  /\ vpc = "release" /\ vpc' = "recv"
  /\ bytesUsed' = Released(bytesUsed, batches[cur].cost)
  /\ batchesUsed' = Released(batchesUsed, 1)
  /\ stage' = [stage EXCEPT ![cur] = "done"]
  /\ UNCHANGED <<watch, observed, ackCh>> /\ ResolverFrame

\* The supervisor of NewProducer closes resolverCh after the committer exits.
ResolverExit ==
  /\ vpc = "recv" /\ cpc = "done"
  /\ vpc' = "done"
  /\ UNCHANGED <<watch, stage, observed, budgetVars, ackCh>> /\ ResolverFrame

-----------------------------------------------------------------------------
(* Flush.  The call f has returned when fpc[f] is the name of an error.    *)

FlushFrame ==
  UNCHANGED <<appVars, rotVars, workVars, commitVars, resolveVars, storeVars,
              budgetVars, ackCh>>

FlushGoesTo(f, pc) == fpc' = [fpc EXCEPT ![f] = pc]
BeginFlush(f) ==
  /\ FlushGoesTo(f, "send")
  /\ covers' = [covers EXCEPT ![f] = Range(accepted)]

FlushStart(f) ==
  /\ f # CloseFlush /\ fpc[f] = "idle"
  /\ BeginFlush(f)
  /\ UNCHANGED closeVars /\ FlushFrame

\* Phase 1 ends: the outcome of the flushed batch is on fm.result.
FlushAck(f) ==
  /\ fpc[f] = "ack" /\ ackCh[f] # "none"
  /\ FlushGoesTo(f, "waitDrained")
  /\ UNCHANGED <<covers, closeVars>> /\ FlushFrame

\* Mutant: Flush returns without its second phase.
FlushDrainedAtOnce(f) ==
  /\ fpc[f] \in {"waitDrained", "draining"}
  /\ FlushGoesTo(f, ackCh[f])
  /\ UNCHANGED <<covers, closeVars>> /\ FlushFrame

\* waitDrained sees no batch in flight, at once or after a wait.
FlushDrained(f) ==
  /\ fpc[f] \in {"waitDrained", "draining"} /\ batchesUsed = 0
  /\ FlushGoesTo(f, ackCh[f])
  /\ UNCHANGED <<covers, closeVars>> /\ FlushFrame

FlushBlocks(f) ==
  /\ fpc[f] = "waitDrained" /\ batchesUsed > 0
  /\ FlushGoesTo(f, "draining")
  /\ UNCHANGED <<covers, closeVars>> /\ FlushFrame

\* The ErrShutdown returns: rotatorDone, resolverDone, shutdownCh.
FlushShutdown(f) ==
  /\ \/ fpc[f] = "send" /\ rpc = "done"
     \/ fpc[f] = "ack" /\ vpc = "done"
     \/ fpc[f] = "draining" /\ shutdown
  /\ FlushGoesTo(f, "ErrShutdown")
  /\ UNCHANGED <<covers, closeVars>> /\ FlushFrame

\* ctx.Done() in any of the three waits.
FlushCtx(f) ==
  /\ IF f = CloseFlush THEN closeCtx ELSE "ctx" \in Faults
  /\ fpc[f] \in {"send", "ack", "draining"}
  /\ FlushGoesTo(f, "ctx")
  /\ UNCHANGED <<covers, closeVars>> /\ FlushFrame

-----------------------------------------------------------------------------
(* Close *)

CloseFrame ==
  UNCHANGED <<apc, watch, accepted, appendCh, rotVars, workVars, commitVars,
              resolveVars, storeVars, budgetVars, flushVars>>

Finished(m) == apc[m] \notin {"reserve", "blocked", "send"}

CloseStart ==
  /\ clpc = "idle"
  /\ Disciplined => \A m \in Msgs : Finished(m)
  /\ clpc' = "flush"
  /\ BeginFlush(CloseFlush)
  /\ UNCHANGED <<closeCtx, cancelled, shutdown>> /\ FlushFrame

\* The context given to Close fires.
CloseCtxFires ==
  /\ "ctx" \in Faults
  /\ clpc \in {"flush", "wait"} /\ ~closeCtx
  /\ closeCtx' = TRUE
  /\ UNCHANGED <<appendClosed, clpc, cancelled, shutdown>> /\ CloseFrame

CloseAppendCh ==
  /\ clpc = "flush" /\ fpc[CloseFlush] \notin FlushWaits
  /\ appendClosed' = TRUE
  /\ clpc' = "wait"
  /\ UNCHANGED <<closeCtx, cancelled, shutdown>> /\ CloseFrame

\* Mutant: Close does not wait for the resolver.
AllDoneButResolver == rpc = "done" /\ encodersDone /\ uploadersDone /\ cpc = "done"

\* The five done channels are closed.
AllDone == rpc = "done" /\ encodersDone /\ uploadersDone /\ cpc = "done" /\ vpc = "done"

CloseDone ==
  /\ clpc = "wait" /\ AllDone
  /\ clpc' = "closed"
  /\ UNCHANGED <<appendClosed, closeCtx, cancelled, shutdown>> /\ CloseFrame

\* Mutant: a forced Close does not cancel the store calls.
CloseCancelNothing ==
  /\ clpc = "wait" /\ closeCtx
  /\ clpc' = "cancel"
  /\ UNCHANGED <<appendClosed, closeCtx, cancelled, shutdown>> /\ CloseFrame

\* ctx fired while waiting: cancelShutdown aborts the store calls ...
CloseCancel ==
  /\ clpc = "wait" /\ closeCtx
  /\ cancelled' = TRUE
  /\ clpc' = "cancel"
  /\ UNCHANGED <<appendClosed, closeCtx, shutdown>> /\ CloseFrame

\* ... and shutdownCh is closed; Close returns ctx.Err().
CloseForced ==
  /\ clpc = "cancel"
  /\ shutdown' = TRUE
  /\ clpc' = "forced"
  /\ UNCHANGED <<appendClosed, closeCtx, cancelled>> /\ CloseFrame

-----------------------------------------------------------------------------
\* Another producer appends to the same manifest.
OtherWrite ==
  /\ otherWrites < MaxOtherWrites
  /\ otherWrites' = otherWrites + 1
  /\ manifest' = Append(manifest, Other)
  /\ version' = version + 1
  /\ UNCHANGED <<appVars, rotVars, workVars, commitVars, resolveVars, objects,
                 unacked, budgetVars, flushVars, closeVars>>

\* Everything has returned and every goroutine has exited.
Terminated ==
  /\ AllDone /\ clpc \in {"closed", "forced"}
  /\ \A m \in Msgs : Finished(m)
  /\ \A f \in FlushCalls : fpc[f] \notin FlushWaits
  /\ UNCHANGED vars

-----------------------------------------------------------------------------
AppendStep(m) ==
  \/ AppendReserve(m) \/ AppendBlocks(m) \/ AppendReserveFails(m)
  \/ AppendSend(m) \/ AppendSendOnClosed(m) \/ AppendSendFails(m)

Rotator ==
  \/ RotatorReceive \/ RotatorClosed \/ RotatorTimer
  \/ \E f \in FlushCalls : RotatorFlush(f)
  \/ RotatorDrain \/ RotatorDrained \/ RotatorBlocks \/ RotatorAcquire \/ RotatorDrop

Encoders ==
  \/ EncoderReceive \/ EncoderPoolExit
  \/ \E o \in Ordinals : EncoderSend(o) \/ EncoderFails(o)

UploadStep(o) == UploadOk(o) \/ UploadFails(o) \/ UploadAborted(o)

\* The steps of the committer that are store calls, and the others.
CommitterStore ==
  \/ CommitterRead \/ CommitterReadFails
  \/ CommitterPut \/ CommitterConflict \/ CommitterPutFails

CommitterLocal ==
  \/ CommitterGather \/ CommitterClosed
  \/ \E o \in Ordinals : CommitterReceiveHalted(o)
  \/ CommitterTake \/ CommitterTaken \/ CommitterRetry \/ CommitterAborted
  \/ CommitterResolve \/ CommitterResolved

Resolver ==
  \/ ResolverObserve \/ ResolverWatchers \/ ResolverAck \/ ResolverRelease
  \/ ResolverExit

FlushStep(f) ==
  FlushAck(f) \/ FlushDrained(f) \/ FlushBlocks(f) \/ FlushShutdown(f) \/ FlushCtx(f)

Close == CloseAppendCh \/ CloseDone \/ CloseCancel \/ CloseForced

Next ==
  \/ \E m \in Msgs : AppendStart(m) \/ AppendStep(m)
  \/ Rotator
  \/ Encoders
  \/ \E o \in Ordinals : UploadStep(o)
  \/ UploaderPoolExit
  \/ CommitterStore
  \/ CommitterLocal
  \/ Resolver
  \/ \E f \in FlushCalls : FlushStart(f) \/ FlushStep(f)
  \/ CloseStart
  \/ CloseCtxFires
  \/ Close
  \/ OtherWrite
  \/ Terminated

Spec == Init /\ [][Next]_vars

\* The Go scheduler runs every runnable goroutine, select is fair to its
\* cases, and timers fire.  Nothing obliges a client to call, the context of a
\* call to fire, or another producer to write.
LocalFairness ==
  /\ \A m \in Msgs : WF_vars(AppendStep(m) /\ apc'[m] # "ctx")
  /\ WF_vars(Rotator)
  /\ WF_vars(Encoders)
  /\ WF_vars(UploaderPoolExit)
  /\ WF_vars(CommitterLocal)
  /\ WF_vars(Resolver)
  /\ \A f \in FlushCalls : WF_vars(FlushStep(f) /\ (fpc'[f] = "ctx" => f = CloseFlush))
  /\ WF_vars(Close)

\* A store whose calls may hang until the context they were given is cancelled.
FairSpec ==
  /\ Spec /\ LocalFairness
  /\ WF_vars(cancelled /\ \E o \in Ordinals : UploadStep(o))
  /\ WF_vars(cancelled /\ CommitterStore)

\* Store calls return: what liveness needs of the store when nobody cancels.
StoreAnswers ==
  /\ WF_vars(\E o \in Ordinals : UploadStep(o))
  /\ WF_vars(CommitterStore)
=============================================================================
