------------------------------ MODULE Exporter ------------------------------
(***************************************************************************)
(* The collector exporter of exporter.go around one producer, which is the *)
(* abstract buffer: Start with its configuration, Consume requests with    *)
(* their timeouts, Shutdown, and the pending_inputs counter of             *)
(* telemetry.go, which the observer hooks of the producer drive.  The      *)
(* collector starts an exporter once.                                      *)
(***************************************************************************)
EXTENDS Integers, FiniteSets

CONSTANTS
  Requests,     \* Consume calls; each appends one message
  Configs       \* configurations of the exporter

\* The numbers that Start forwards, and those it leaves at their defaults.
Forwarded == {"FlushSizeBytes", "UploadConcurrency", "EncodeConcurrency",
              "MaxInFlightBatches", "MaxInFlightBytes", "ManifestAppendBatchSize"}
Unset == {"MaxBufferedInputs", "UploadMaxAttempts", "ManifestMaxAttempts"}

ASSUME RequestsAssumption == IsFiniteSet(Requests)

\* complete: the texts are there, the durations and the queue are valid.
ASSUME ConfigsAssumption ==
  Configs \subseteq [limits : [Forwarded -> Int], complete : BOOLEAN, compression : STRING]

VARIABLES
  (* openDataExporter *)
  config,
  producer,       \* is e.producer set
  producerConfig, \* of the producer that runs, NoProducer before
  req,            \* where each request is, or what it returned
  ctxDone,        \* has its context fired
  (* exporterTelemetry *)
  pendingInputs,
  (* the producer *)
  call, outcome, durable, flushed, closing

expVars == <<config, producer, producerConfig, req, ctxDone, pendingInputs>>
bufVars == <<call, outcome, durable, flushed, closing>>
vars == <<expVars, bufVars>>

Buffer == INSTANCE DurableBuffer WITH Msgs <- Requests

RequestErrors == {"errMarshal", "errNotStarted", "errEnqueue", "errDurable", "errCtx"}
Returned(r) == req[r] \in RequestErrors \cup {"nil"}

-----------------------------------------------------------------------------
(* Configuration *)

NoProducer == <<>>

DefaultProducerConfig ==
  [k \in Forwarded \cup Unset |->
     CASE k = "FlushSizeBytes" -> 67108864
       [] k = "MaxBufferedInputs" -> 1000
       [] k = "MaxInFlightBatches" -> 64
       [] k = "MaxInFlightBytes" -> 268435456
       [] k \in {"UploadMaxAttempts", "ManifestMaxAttempts"} -> 6
       [] OTHER -> 1]

\* What the factory gives a configuration; a bucket and a region are missing.
createDefaultConfig ==
  [limits |-> [k \in Forwarded |->
                 IF k = "FlushSizeBytes" THEN 1048576 ELSE DefaultProducerConfig[k]],
   complete |-> FALSE, compression |-> "zstd"]

\* Mutant: the worker counts are not checked.
ValidateWithoutWorkers(c) ==
  /\ c.complete
  /\ \A k \in Forwarded \ {"UploadConcurrency", "EncodeConcurrency"} : c.limits[k] >= 1
  /\ c.compression \in {"none", "zstd"}

Validate(c) ==
  /\ c.complete
  /\ \A k \in Forwarded : c.limits[k] >= 1
  /\ c.compression \in {"none", "zstd"}

\* NewProducer replaces limits and attempt counts that are not positive.
WithDefaults(p) ==
  [k \in DOMAIN p |->
     IF /\ k \in {"MaxInFlightBytes", "MaxInFlightBatches", "UploadMaxAttempts",
                  "ManifestMaxAttempts"}
        /\ p[k] < 1
       THEN DefaultProducerConfig[k] ELSE p[k]]

\* Mutant: Start does not begin with the defaults.
ForwardedConfigOnly(c) == c.limits

ForwardedConfig(c) ==
  [k \in DOMAIN DefaultProducerConfig |->
     IF k \in Forwarded THEN c.limits[k] ELSE DefaultProducerConfig[k]]

-----------------------------------------------------------------------------
Init ==
  /\ config \in Configs /\ producer = FALSE /\ producerConfig = NoProducer
  /\ req = [r \in Requests |-> "idle"] /\ ctxDone = [r \in Requests |-> FALSE]
  /\ pendingInputs = 0
  /\ Buffer!Init

\* A second Start finds a producer and returns nil; one that fails changes nothing.
Start ==
  /\ Validate(config)
  /\ ~producer /\ closing = "open"
  /\ producer' = TRUE
  /\ producerConfig' = WithDefaults(ForwardedConfig(config))
  /\ UNCHANGED <<config, req, ctxDone, pendingInputs, bufVars>>

\* Shutdown takes the producer and closes it, outside of the lock.  A Shutdown
\* that finds no producer returns nil.
Shutdown ==
  /\ producer
  /\ producer' = FALSE
  /\ Buffer!CloseBegin
  /\ UNCHANGED <<config, producerConfig, req, ctxDone, pendingInputs>>

-----------------------------------------------------------------------------
(* ConsumeMetrics, ConsumeLogs and appendAndAwait *)

RequestGoesTo(r, s) ==
  /\ req' = [req EXCEPT ![r] = s]
  /\ UNCHANGED <<config, producer, producerConfig, ctxDone>>

Consume(r) ==
  /\ req[r] = "idle"
  /\ RequestGoesTo(r, "load") \/ RequestGoesTo(r, "errMarshal")
  /\ UNCHANGED <<pendingInputs, bufVars>>

\* The producer is read under the lock, and used after it.
LoadProducer(r) ==
  /\ req[r] = "load"
  /\ \/ ~producer /\ RequestGoesTo(r, "errNotStarted") /\ UNCHANGED bufVars
     \/ producer /\ RequestGoesTo(r, "append") /\ Buffer!Begin(r)
  /\ UNCHANGED pendingInputs

\* Append returns, when the buffer lets it: it is not given the context.
AppendReturns(r) ==
  /\ req[r] = "append"
  /\ \/ Buffer!Accept(r) /\ RequestGoesTo(r, "count")
     \/ Buffer!Refuse(r) /\ RequestGoesTo(r, "errEnqueue")
     \/ Buffer!Panic(r) /\ RequestGoesTo(r, "panicked")
  /\ UNCHANGED pendingInputs

\* The call of OnAccepted comes after the send on appendCh.
OnAccepted(r) ==
  /\ req[r] = "count"
  /\ RequestGoesTo(r, "await")
  /\ pendingInputs' = pendingInputs + 1
  /\ UNCHANGED bufVars

\* Mutant: any outcome will do.
AwaitDurableAny(r) ==
  /\ req[r] = "await" /\ outcome[r] # "pending"
  /\ RequestGoesTo(r, "nil")
  /\ UNCHANGED <<pendingInputs, bufVars>>

\* Mutant: only a success ends the wait.
AwaitDurableNil(r) ==
  /\ req[r] = "await" /\ outcome[r] = "nil"
  /\ RequestGoesTo(r, "nil")
  /\ UNCHANGED <<pendingInputs, bufVars>>

AwaitDurable(r) ==
  /\ req[r] = "await" /\ outcome[r] # "pending"
  /\ RequestGoesTo(r, IF outcome[r] = "nil" THEN "nil" ELSE "errDurable")
  /\ UNCHANGED <<pendingInputs, bufVars>>

\* Mutant: a wait that the context ended counts as a failure to enqueue.
AwaitCtxRefused(r) ==
  /\ req[r] = "await" /\ ctxDone[r]
  /\ RequestGoesTo(r, "errEnqueue")
  /\ UNCHANGED <<pendingInputs, bufVars>>

\* Mutant: the wait is not given the context.
AwaitCtxNever(r) == FALSE /\ UNCHANGED vars

AwaitCtx(r) ==
  /\ req[r] = "await" /\ ctxDone[r]
  /\ RequestGoesTo(r, "errCtx")
  /\ UNCHANGED <<pendingInputs, bufVars>>

\* The timeout that exporterhelper sets, or a cancellation.
CtxFires(r) ==
  /\ req[r] # "idle" /\ ~Returned(r) /\ ~ctxDone[r]
  /\ ctxDone' = [ctxDone EXCEPT ![r] = TRUE]
  /\ UNCHANGED <<config, producer, producerConfig, req, pendingInputs, bufVars>>

-----------------------------------------------------------------------------
(* The producer works, and tells the telemetry what it flushed. *)

\* Mutant: a flush counts as one input.
InputsOne(S) == 1

\* stats.Inputs of a batch.
Inputs(S) == Cardinality(S)

OnFlush(S) ==
  /\ Buffer!OnFlush(S)
  /\ pendingInputs' = pendingInputs - Inputs(S)
  /\ UNCHANGED <<config, producer, producerConfig, req, ctxDone>>

ProducerStep ==
  /\ \/ \E S \in SUBSET (Buffer!Accepted \ durable) : Buffer!Store(S)
     \/ \E S \in SUBSET Buffer!Pending :
          Buffer!Drop(S) \/ \E e \in {"nil", "error"} : Buffer!Resolve(S, e)
     \/ Buffer!CloseEnd
     \/ Buffer!CloseForce
  /\ UNCHANGED expVars

-----------------------------------------------------------------------------
RequestStep(r) ==
  \/ LoadProducer(r) \/ OnAccepted(r) \/ AwaitDurable(r) \/ AwaitCtx(r)

Next ==
  \/ Start
  \/ Shutdown
  \/ \E r \in Requests : Consume(r) \/ CtxFires(r) \/ AppendReturns(r) \/ RequestStep(r)
  \/ \E S \in SUBSET Buffer!Pending : OnFlush(S)
  \/ ProducerStep

Spec == Init /\ [][Next]_vars

\* The collector runs its goroutines.  Append waits only for a budget that
\* accepted messages hold, and not after Close has returned.  What else the
\* producer does is not fair: the store may hang.
FairSpec ==
  /\ Spec
  /\ \A r \in Requests :
       /\ WF_vars(RequestStep(r))
       /\ WF_vars((Buffer!Pending = {} \/ closing \in {"closed", "forced"}) /\ AppendReturns(r))

-----------------------------------------------------------------------------
\* Every variable has its type.
TypeOK ==
  /\ config \in Configs /\ producer \in BOOLEAN
  /\ producerConfig \in {NoProducer} \cup [Forwarded \cup Unset -> Int]
  /\ req \in [Requests -> {"idle", "load", "append", "count", "await", "nil", "panicked"}
                            \cup RequestErrors]
  /\ ctxDone \in [Requests -> BOOLEAN]
  /\ pendingInputs \in Int
  /\ call \in [Requests -> {"idle", "open", "accepted", "refused", "panicked"}]
  /\ outcome \in [Requests -> {"pending", "nil", "error"}]
  /\ durable \subseteq Requests /\ flushed \subseteq Requests
  /\ closing \in {"open", "closing", "closed", "forced"}

\* A Consume call that returns nil has its data in the queue, whatever
\* timeouts, a Shutdown and failures of the producer came between.
ConsumedIsDurable == \A r \in Requests : req[r] = "nil" => r \in durable

\* A Consume call that fails before or in Append leaves nothing behind: a
\* collector that sends the data again does not duplicate it.
RefusedIsAbsent ==
  \A r \in Requests :
    req[r] \in {"errMarshal", "errNotStarted", "errEnqueue"} => r \notin durable

\* pending_inputs is exact while no call is between its send and OnAccepted
\* (a flush may overtake the call, and the counter is then below zero); it is
\* back at zero after a Shutdown whose context did not end it.
PendingInputsSettle ==
  (\A r \in Requests : req[r] # "count") =>
    /\ pendingInputs = Cardinality(Buffer!Accepted \ flushed)
    /\ closing = "closed" => pendingInputs = 0

\* A producer that Start has built runs with the numbers of the configuration,
\* and with limits that the pipeline can work with.
StartedAsConfigured ==
  producerConfig # NoProducer =>
    /\ \A k \in Forwarded : producerConfig[k] = config.limits[k]
    /\ \A k \in DOMAIN producerConfig : producerConfig[k] >= 1

\* A request and its Append call go together, and of the buffer it can tell
\* that a message is stored before its watcher says so, and flushed before it
\* is resolved, unless Close was forced.
RequestFlow ==
  /\ \A r \in Requests :
       /\ req[r] \in {"idle", "load", "errMarshal", "errNotStarted"} <=> call[r] = "idle"
       /\ req[r] = "append" <=> call[r] = "open"
       /\ req[r] = "errEnqueue" <=> call[r] = "refused"
       /\ req[r] = "panicked" <=> call[r] = "panicked"
       /\ req[r] = "nil" => outcome[r] = "nil"
       /\ outcome[r] = "nil" => r \in durable
       /\ r \in durable \cup flushed \/ outcome[r] # "pending" => call[r] = "accepted"
       /\ call[r] = "accepted" /\ closing = "closed" => outcome[r] # "pending"
       /\ outcome[r] # "pending" /\ closing # "forced" => r \in flushed

Uncounted == {r \in Requests : req[r] = "count"}

\* The counter is behind by the calls that have still to count their message.
CounterFlow ==
  pendingInputs = Cardinality(Buffer!Accepted \ flushed) - Cardinality(Uncounted)

\* The context of a request ends its wait for durability, also when the
\* producer never resolves it.
TimeoutEndsWait ==
  \A r \in Requests : (req[r] = "await" /\ ctxDone[r]) ~> Returned(r)

\* What the pipeline of the producer does when the store answers: Append calls
\* return, and what was accepted is reported and resolved.
ProducerAnswers ==
  /\ \A r \in Requests : WF_vars(AppendReturns(r))
  /\ WF_vars(\E S \in SUBSET Buffer!Pending : S # {} /\ OnFlush(S))
  /\ WF_vars(\E S \in SUBSET Buffer!Pending :
               /\ S # {} /\ \E e \in {"nil", "error"} : Buffer!Resolve(S, e)
               /\ UNCHANGED expVars)

\* If the producer lets Append return and resolves what it accepted, every
\* request returns, without a timeout.
RequestsReturn ==
  ProducerAnswers =>
    \A r \in Requests : req[r] = "load" ~> (Returned(r) \/ req[r] = "panicked")

\* "Crossing it cancels the in-flight call" (config.go, Timeout): a request
\* whose timeout has fired returns.
TimeoutEndsRequest ==
  \A r \in Requests : ctxDone[r] ~> (Returned(r) \/ req[r] = "panicked")
=============================================================================
