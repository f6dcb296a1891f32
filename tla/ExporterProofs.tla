--------------------------- MODULE ExporterProofs ---------------------------
(***************************************************************************)
(* What a Consume call of the exporter means when it returns, and what     *)
(* pending_inputs counts, for any number of requests and configurations.   *)
(***************************************************************************)
EXTENDS Exporter, FiniteSetTheorems, TLAPS

\* The values of a type that a step gives to the request it moves.
LEMMA RequestMoves ==
  ASSUME TypeOK, NEW r \in Requests, NEW s, RequestGoesTo(r, s)
  PROVE  /\ \A q \in Requests : req'[q] = IF q = r THEN s ELSE req[q]
         /\ UNCHANGED <<config, producer, producerConfig, ctxDone>>
BY Zenon DEF TypeOK, RequestGoesTo

\* The same for its Append call.
LEMMA CallMoves ==
  ASSUME TypeOK, NEW r \in Requests, NEW s, Buffer!CallGoesTo(r, s)
  PROVE  /\ \A q \in Requests : call'[q] = IF q = r THEN s ELSE call[q]
         /\ UNCHANGED <<outcome, durable, flushed, closing>>
BY Zenon DEF TypeOK, Buffer!CallGoesTo

-----------------------------------------------------------------------------
(* Types *)

\* Start builds a configuration of numbers.
LEMMA StartTyped ==
  ASSUME TypeOK
  PROVE  WithDefaults(ForwardedConfig(config)) \in [Forwarded \cup Unset -> Int]
<1>1. \A k \in Forwarded : config.limits[k] \in Int
  BY ConfigsAssumption, Zenon DEF TypeOK
<1>2. DefaultProducerConfig \in [Forwarded \cup Unset -> Int]
  BY DEF DefaultProducerConfig
<1>3. ForwardedConfig(config) \in [Forwarded \cup Unset -> Int]
  BY <1>1, <1>2 DEF ForwardedConfig
<1> QED
  BY <1>2, <1>3, Zenon DEF WithDefaults

\* The steps of the buffer keep the types of what callers and consumers see.
LEMMA BufferTyped ==
  ASSUME TypeOK,
         \/ \E S \in SUBSET (Buffer!Accepted \ durable) : Buffer!Store(S)
         \/ \E S \in SUBSET Buffer!Pending :
              \/ Buffer!OnFlush(S) \/ Buffer!Drop(S)
              \/ \E e \in {"nil", "error"} : Buffer!Resolve(S, e)
         \/ Buffer!CloseBegin \/ Buffer!CloseEnd \/ Buffer!CloseForce
  PROVE  /\ call' = call
         /\ outcome' \in [Requests -> {"pending", "nil", "error"}]
         /\ durable' \subseteq Requests /\ flushed' \subseteq Requests
         /\ closing' \in {"open", "closing", "closed", "forced"}
<1>1. /\ outcome \in [Requests -> {"pending", "nil", "error"}]
      /\ durable \subseteq Requests /\ flushed \subseteq Requests
      /\ closing \in {"open", "closing", "closed", "forced"}
  BY DEF TypeOK
<1>2. Buffer!Accepted \subseteq Requests /\ Buffer!Pending \subseteq Requests
  BY DEF Buffer!Accepted, Buffer!Pending
<1>3. ASSUME NEW S \in SUBSET Buffer!Pending, NEW e \in {"nil", "error"}, Buffer!Settle(S, e)
      PROVE  outcome' \in [Requests -> {"pending", "nil", "error"}]
  BY <1>1, <1>3 DEF Buffer!Settle
<1>4. CASE \E S \in SUBSET (Buffer!Accepted \ durable) : Buffer!Store(S)
  BY <1>1, <1>2, <1>4 DEF Buffer!Store
<1>5. ASSUME NEW S \in SUBSET Buffer!Pending, Buffer!OnFlush(S)
      PROVE  /\ flushed' \subseteq Requests /\ UNCHANGED <<call, outcome, durable, closing>>
  BY <1>1, <1>2, <1>5 DEF Buffer!OnFlush
<1>6. ASSUME NEW S \in SUBSET Buffer!Pending,
             Buffer!Drop(S) \/ \E e \in {"nil", "error"} : Buffer!Resolve(S, e)
      PROVE  /\ outcome' \in [Requests -> {"pending", "nil", "error"}]
             /\ UNCHANGED <<call, durable, flushed, closing>>
  <2>1. PICK e \in {"nil", "error"} : Buffer!Settle(S, e)
    BY <1>6, Zenon DEF Buffer!Drop, Buffer!Resolve
  <2> QED
    BY <1>3, <2>1 DEF Buffer!Settle
<1>7. CASE Buffer!CloseBegin \/ Buffer!CloseEnd \/ Buffer!CloseForce
  BY <1>1, <1>7 DEF Buffer!CloseBegin, Buffer!CloseEnd, Buffer!CloseForce, Buffer!CloseGoesTo
<1> QED
  BY <1>1, <1>4, <1>5, <1>6, <1>7

\* A step of a request gives it and its Append call another state.
LEMMA RequestTyped ==
  ASSUME TypeOK, NEW r \in Requests,
         Consume(r) \/ CtxFires(r) \/ AppendReturns(r) \/ RequestStep(r)
  PROVE  TypeOK'
<1>1. CASE CtxFires(r)
  BY <1>1 DEF CtxFires, TypeOK, bufVars
<1>2. ASSUME NEW s, RequestGoesTo(r, s),
             s \in {"load", "append", "count", "await", "nil", "panicked"} \cup RequestErrors,
             pendingInputs' \in Int,
             UNCHANGED bufVars \/ (\E t \in {"open", "accepted", "refused", "panicked"} :
                                     Buffer!CallGoesTo(r, t))
      PROVE  TypeOK'
  <2>1. /\ req' = [req EXCEPT ![r] = s] /\ UNCHANGED <<config, producer, producerConfig, ctxDone>>
    BY <1>2 DEF RequestGoesTo
  <2>2. /\ call' \in [Requests -> {"idle", "open", "accepted", "refused", "panicked"}]
        /\ UNCHANGED <<outcome, durable, flushed, closing>>
    BY <1>2 DEF TypeOK, bufVars, Buffer!CallGoesTo
  <2> QED
    BY <1>2, <2>1, <2>2, Zenon DEF TypeOK
<1>3. pendingInputs \in Int
  BY DEF TypeOK
<1>4. CASE Consume(r)
  BY <1>2, <1>3, <1>4 DEF Consume, RequestErrors
<1>5. CASE LoadProducer(r)
  BY <1>2, <1>3, <1>5 DEF LoadProducer, RequestErrors, Buffer!Begin
<1>6. CASE AppendReturns(r)
  BY <1>2, <1>3, <1>6 DEF AppendReturns, RequestErrors, Buffer!Accept, Buffer!Refuse, Buffer!Panic
<1>7. CASE OnAccepted(r) \/ AwaitDurable(r) \/ AwaitCtx(r)
  BY <1>2, <1>3, <1>7 DEF OnAccepted, AwaitDurable, AwaitCtx, RequestErrors
<1> QED
  BY <1>1, <1>4, <1>5, <1>6, <1>7 DEF RequestStep

\* Types are preserved by every step.
LEMMA TypeStep ==
  ASSUME TypeOK, [Next]_vars
  PROVE  TypeOK'
<1>1. CASE Start
  BY <1>1, StartTyped DEF Start, TypeOK, bufVars
<1>2. CASE Shutdown
  <2>1. Buffer!CloseBegin /\ producer' = FALSE
        /\ UNCHANGED <<config, producerConfig, req, ctxDone, pendingInputs>>
    BY <1>2 DEF Shutdown
  <2> QED
    BY <2>1, BufferTyped, Zenon DEF TypeOK
<1>3. ASSUME NEW S \in SUBSET Buffer!Pending, OnFlush(S) PROVE TypeOK'
  <2>1. /\ Buffer!OnFlush(S) /\ pendingInputs' = pendingInputs - Inputs(S)
        /\ UNCHANGED <<config, producer, producerConfig, req, ctxDone>>
    BY <1>3 DEF OnFlush
  <2>2. Inputs(S) \in Int
    <3>1. IsFiniteSet(S)
      BY RequestsAssumption, FS_Subset DEF Buffer!Pending, Buffer!Accepted
    <3> QED
      BY <3>1, FS_CardinalityType DEF Inputs
  <2> QED
    BY <2>1, <2>2, BufferTyped DEF TypeOK
<1>4. CASE ProducerStep
  <2>1. UNCHANGED expVars
    BY <1>4 DEF ProducerStep
  <2> QED
    BY <1>4, <2>1, BufferTyped DEF ProducerStep, TypeOK, expVars
<1>5. CASE UNCHANGED vars
  BY <1>5 DEF vars, expVars, bufVars, TypeOK
<1> QED
  BY <1>1, <1>2, <1>3, <1>4, <1>5, RequestTyped DEF Next

\* Types hold at the start.
LEMMA TypeInit == Init => TypeOK
<1> SUFFICES ASSUME Init PROVE TypeOK
  OBVIOUS
<1>1. config \in Configs /\ producerConfig = NoProducer /\ pendingInputs \in Int
  BY DEF Init
<1>2. req \in [Requests -> {"idle"}]
  BY DEF Init
<1>3. /\ call \in [Requests -> {"idle"}] /\ outcome \in [Requests -> {"pending"}]
      /\ durable = {} /\ flushed = {} /\ closing = "open"
  BY DEF Init, Buffer!Init
<1>4. producer \in BOOLEAN
  BY Zenon DEF Init
<1>5. ctxDone \in [Requests -> BOOLEAN]
  BY Zenon DEF Init
<1> QED
  BY <1>1, <1>2, <1>3, <1>4, <1>5 DEF TypeOK

\* For any requests and configurations every variable has its type.
THEOREM ExporterTyped == Spec => []TypeOK
<1>1. TypeOK /\ [Next]_vars => TypeOK'
  BY TypeStep
<1> QED
  BY <1>1, TypeInit, PTL DEF Spec

-----------------------------------------------------------------------------
(* Requests *)

\* Nothing has happened at the start.
LEMMA RequestInit == Init => RequestFlow
BY DEF Init, RequestFlow, Buffer!Init, RequestErrors

\* The step of one request leaves the others and what the buffer has done.
LEMMA RequestFlows ==
  ASSUME TypeOK, RequestFlow, NEW r \in Requests,
         Consume(r) \/ CtxFires(r) \/ AppendReturns(r) \/ RequestStep(r)
  PROVE  RequestFlow'
<1>1. CASE CtxFires(r)
  BY <1>1 DEF CtxFires, RequestFlow, bufVars
<1>2. ASSUME NEW s, RequestGoesTo(r, s), UNCHANGED bufVars,
             s \in {"load", "errMarshal", "errNotStarted"} <=> call[r] = "idle",
             s \notin {"idle", "append", "errEnqueue", "panicked"},
             call[r] \in {"idle", "accepted"},
             s = "nil" => outcome[r] = "nil"
      PROVE  RequestFlow'
  <2>1. \A q \in Requests : req'[q] = IF q = r THEN s ELSE req[q]
    BY <1>2, RequestMoves
  <2> QED
    BY <1>2, <2>1 DEF RequestFlow, bufVars
<1>3. ASSUME NEW s, NEW t, RequestGoesTo(r, s), Buffer!CallGoesTo(r, t),
             <<s, t>> \in {<<"append", "open">>, <<"errEnqueue", "refused">>,
                           <<"panicked", "panicked">>, <<"count", "accepted">>},
             call[r] # "accepted",
             t = "accepted" => closing # "closed"
      PROVE  RequestFlow'
  <2>1. \A q \in Requests : req'[q] = IF q = r THEN s ELSE req[q]
    BY <1>3, RequestMoves
  <2>2. /\ \A q \in Requests : call'[q] = IF q = r THEN t ELSE call[q]
        /\ UNCHANGED <<outcome, durable, flushed, closing>>
    BY <1>3, CallMoves
  <2>3. /\ r \notin durable \cup flushed /\ outcome[r] = "pending"
        /\ s # "nil"
    BY <1>3 DEF RequestFlow
  <2>4. ASSUME NEW q \in Requests, q # r PROVE req'[q] = req[q] /\ call'[q] = call[q]
    BY <2>1, <2>2, <2>4
  <2>5. req'[r] = s /\ call'[r] = t
    BY <2>1, <2>2
  <2> QED
    BY <1>3, <2>2, <2>3, <2>4, <2>5 DEF RequestFlow
<1>4. CASE Consume(r)
  BY <1>2, <1>4 DEF Consume, RequestFlow
<1>5. CASE LoadProducer(r)
  <2>1. CASE RequestGoesTo(r, "errNotStarted") /\ UNCHANGED bufVars
    BY <1>2, <1>5, <2>1 DEF LoadProducer, RequestFlow
  <2>2. CASE RequestGoesTo(r, "append") /\ Buffer!Begin(r)
    BY <1>3, <2>2 DEF Buffer!Begin
  <2> QED
    BY <1>5, <2>1, <2>2 DEF LoadProducer
<1>6. CASE AppendReturns(r)
  <2>1. call[r] = "open"
    BY <1>6 DEF AppendReturns, RequestFlow
  <2>2. CASE Buffer!Accept(r) /\ RequestGoesTo(r, "count")
    BY <1>3, <2>1, <2>2 DEF Buffer!Accept
  <2>3. CASE Buffer!Refuse(r) /\ RequestGoesTo(r, "errEnqueue")
    BY <1>3, <2>1, <2>3 DEF Buffer!Refuse
  <2>4. CASE Buffer!Panic(r) /\ RequestGoesTo(r, "panicked")
    BY <1>3, <2>1, <2>4 DEF Buffer!Panic
  <2> QED
    BY <1>6, <2>2, <2>3, <2>4 DEF AppendReturns
<1>7. CASE OnAccepted(r) \/ AwaitDurable(r) \/ AwaitCtx(r)
  <2>1. req[r] \in {"count", "await"}
    BY <1>7 DEF OnAccepted, AwaitDurable, AwaitCtx
  <2>2. call[r] = "accepted"
    BY <2>1 DEF RequestFlow, TypeOK
  <2> QED
    BY <1>2, <1>7, <2>2 DEF OnAccepted, AwaitDurable, AwaitCtx
<1> QED
  BY <1>1, <1>4, <1>5, <1>6, <1>7 DEF RequestStep

\* Storing, flushing, resolving and closing keep their order.
LEMMA BufferFlows ==
  ASSUME TypeOK, RequestFlow, UNCHANGED req,
         \/ \E S \in SUBSET (Buffer!Accepted \ durable) : Buffer!Store(S)
         \/ \E S \in SUBSET Buffer!Pending :
              \/ Buffer!OnFlush(S) \/ Buffer!Drop(S)
              \/ \E e \in {"nil", "error"} : Buffer!Resolve(S, e)
         \/ Buffer!CloseBegin \/ Buffer!CloseEnd \/ Buffer!CloseForce
  PROVE  RequestFlow'
<1>1. CASE \E S \in SUBSET (Buffer!Accepted \ durable) : Buffer!Store(S)
  BY <1>1 DEF Buffer!Store, Buffer!Accepted, RequestFlow
<1>2. ASSUME NEW S \in SUBSET Buffer!Pending, Buffer!OnFlush(S) PROVE RequestFlow'
  BY <1>2 DEF Buffer!OnFlush, Buffer!Pending, Buffer!Accepted, RequestFlow
<1>3. ASSUME NEW S \in SUBSET Buffer!Pending, NEW e \in {"nil", "error"}, Buffer!Settle(S, e),
             e = "nil" => S \subseteq durable, closing = "forced" \/ S \subseteq flushed
      PROVE  RequestFlow'
  <2>1. /\ \A q \in Requests : outcome'[q] = IF q \in S THEN e ELSE outcome[q]
        /\ UNCHANGED <<call, durable, flushed, closing>>
    BY <1>3 DEF Buffer!Settle
  <2>2. \A q \in S : call[q] = "accepted" /\ outcome[q] = "pending"
    BY DEF Buffer!Pending, Buffer!Accepted
  <2> QED
    BY <1>3, <2>1, <2>2 DEF RequestFlow
<1>4. CASE Buffer!CloseBegin \/ Buffer!CloseEnd \/ Buffer!CloseForce
  BY <1>4 DEF Buffer!CloseBegin, Buffer!CloseEnd, Buffer!CloseForce, Buffer!CloseGoesTo,
              Buffer!Pending, Buffer!Accepted, RequestFlow
<1> QED
  BY <1>1, <1>2, <1>3, <1>4 DEF Buffer!Drop, Buffer!Resolve

\* Every step keeps requests and buffer together.
LEMMA FlowStep ==
  ASSUME TypeOK, RequestFlow, [Next]_vars
  PROVE  RequestFlow'
<1>1. CASE Start
  BY <1>1 DEF Start, RequestFlow, bufVars
<1>2. CASE Shutdown
  <2>1. Buffer!CloseBegin /\ UNCHANGED req
    BY <1>2 DEF Shutdown
  <2> QED
    BY <2>1, BufferFlows
<1>3. ASSUME NEW S \in SUBSET Buffer!Pending, OnFlush(S) PROVE RequestFlow'
  <2>1. Buffer!OnFlush(S) /\ UNCHANGED req
    BY <1>3 DEF OnFlush
  <2> QED
    BY <2>1, BufferFlows
<1>4. CASE ProducerStep
  <2>1. UNCHANGED req
    BY <1>4 DEF ProducerStep, expVars
  <2> QED
    BY <1>4, <2>1, BufferFlows DEF ProducerStep
<1>5. CASE UNCHANGED vars
  BY <1>5 DEF vars, expVars, bufVars, RequestFlow
<1> QED
  BY <1>1, <1>2, <1>3, <1>4, <1>5, RequestFlows DEF Next

\* For any number of requests: a request and its Append call go together, and
\* an outcome is announced only after what it promises.
THEOREM RequestInvariant == Spec => []RequestFlow
<1>1. TypeOK /\ RequestFlow /\ [Next]_vars => RequestFlow'
  BY FlowStep
<1> QED
  BY <1>1, RequestInit, ExporterTyped, PTL DEF Spec

\* For any number of requests: the data of a Consume call that returned nil is
\* in the queue.
THEOREM ConsumedAreDurable == Spec => []ConsumedIsDurable
<1>1. RequestFlow => ConsumedIsDurable
  BY DEF RequestFlow, ConsumedIsDurable
<1> QED
  BY <1>1, RequestInvariant, PTL

\* For any number of requests: a Consume call that failed in Append or before
\* has left nothing in the queue.
THEOREM RefusedAreAbsent == Spec => []RefusedIsAbsent
<1>1. RequestFlow => RefusedIsAbsent
  BY DEF RequestFlow, RefusedIsAbsent
<1> QED
  BY <1>1, RequestInvariant, PTL

-----------------------------------------------------------------------------
(* pending_inputs *)

\* The accepted messages that no flush has reported are finitely many, and so
\* are the calls that have still to count theirs.
LEMMA CountsAreFinite ==
  /\ IsFiniteSet(Buffer!Accepted \ flushed)
  /\ IsFiniteSet(Uncounted)
  /\ Cardinality(Buffer!Accepted \ flushed) \in Nat
  /\ Cardinality(Uncounted) \in Nat
<1>1. Buffer!Accepted \ flushed \subseteq Requests /\ Uncounted \subseteq Requests
  BY DEF Buffer!Accepted, Uncounted
<1>2. IsFiniteSet(Buffer!Accepted \ flushed) /\ IsFiniteSet(Uncounted)
  BY <1>1, RequestsAssumption, FS_Subset
<1> QED
  BY <1>2, FS_CardinalityType

\* Nothing to count at the start.
LEMMA CounterInit == Init => CounterFlow
<1> SUFFICES ASSUME Init PROVE CounterFlow
  OBVIOUS
<1>1. Buffer!Accepted \ flushed = {} /\ Uncounted = {} /\ pendingInputs = 0
  BY DEF Init, Buffer!Init, Buffer!Accepted, Uncounted
<1> QED
  BY <1>1, FS_EmptySet DEF CounterFlow

\* A step that neither sends, counts nor flushes.
LEMMA CounterKept ==
  ASSUME CounterFlow, UNCHANGED <<call, flushed, pendingInputs>>, Uncounted' = Uncounted
  PROVE  CounterFlow'
BY DEF CounterFlow, Buffer!Accepted

\* An accepted message is owed to the counter until its call has counted it.
LEMMA CounterRequest ==
  ASSUME TypeOK, RequestFlow, CounterFlow, NEW r \in Requests,
         Consume(r) \/ CtxFires(r) \/ AppendReturns(r) \/ RequestStep(r)
  PROVE  CounterFlow'
<1>1. CASE CtxFires(r)
  BY <1>1, CounterKept DEF CtxFires, bufVars, Uncounted
<1>2. ASSUME NEW s, RequestGoesTo(r, s), s # "count", req[r] # "count",
             UNCHANGED <<pendingInputs, flushed>>,
             Buffer!Accepted' = Buffer!Accepted
      PROVE  CounterFlow'
  <2>1. Uncounted' = Uncounted
    BY <1>2, RequestMoves DEF Uncounted
  <2> QED
    BY <1>2, <2>1 DEF CounterFlow
<1>3. CASE Consume(r) \/ AwaitDurable(r) \/ AwaitCtx(r)
  <2>1. UNCHANGED <<pendingInputs, bufVars>> /\ req[r] # "count"
    BY <1>3 DEF Consume, AwaitDurable, AwaitCtx
  <2>2. UNCHANGED flushed /\ Buffer!Accepted' = Buffer!Accepted
    BY <2>1 DEF bufVars, Buffer!Accepted
  <2> QED
    BY <1>2, <1>3, <2>1, <2>2 DEF Consume, AwaitDurable, AwaitCtx
<1>4. ASSUME NEW t, Buffer!CallGoesTo(r, t), call[r] # "accepted", t # "accepted"
      PROVE  Buffer!Accepted' = Buffer!Accepted /\ UNCHANGED flushed
  BY <1>4, CallMoves DEF Buffer!Accepted
<1>5. CASE LoadProducer(r)
  <2>1. UNCHANGED bufVars => UNCHANGED flushed /\ Buffer!Accepted' = Buffer!Accepted
    BY DEF bufVars, Buffer!Accepted
  <2>2. Buffer!Begin(r) => UNCHANGED flushed /\ Buffer!Accepted' = Buffer!Accepted
    BY <1>4 DEF Buffer!Begin
  <2> QED
    BY <1>2, <1>5, <2>1, <2>2 DEF LoadProducer
<1>6. CASE AppendReturns(r)
  <2>1. req[r] = "append" /\ call[r] = "open" /\ UNCHANGED pendingInputs
    BY <1>6 DEF AppendReturns, RequestFlow
  <2>2. CASE Buffer!Refuse(r) /\ RequestGoesTo(r, "errEnqueue")
    BY <1>2, <1>4, <2>1, <2>2 DEF Buffer!Refuse
  <2>3. CASE Buffer!Panic(r) /\ RequestGoesTo(r, "panicked")
    BY <1>2, <1>4, <2>1, <2>3 DEF Buffer!Panic
  <2>4. CASE Buffer!Accept(r) /\ RequestGoesTo(r, "count")
    <3>1. UNCHANGED flushed /\ \A q \in Requests : call'[q] = IF q = r THEN "accepted" ELSE call[q]
      BY <2>4, CallMoves DEF Buffer!Accept
    <3>2. r \notin flushed
      BY <2>1 DEF RequestFlow
    <3>3. /\ (Buffer!Accepted \ flushed)' = (Buffer!Accepted \ flushed) \cup {r}
          /\ r \notin Buffer!Accepted \ flushed
      BY <2>1, <3>1, <3>2 DEF Buffer!Accepted
    <3>4. Uncounted' = Uncounted \cup {r} /\ r \notin Uncounted
      BY <2>1, <2>4, RequestMoves DEF Uncounted
    <3>5. /\ Cardinality((Buffer!Accepted \ flushed)') = Cardinality(Buffer!Accepted \ flushed) + 1
          /\ Cardinality(Uncounted') = Cardinality(Uncounted) + 1
      BY <3>3, <3>4, CountsAreFinite, FS_AddElement, Zenon
    <3> QED
      BY <2>1, <3>5, CountsAreFinite DEF CounterFlow
  <2> QED
    BY <1>6, <2>2, <2>3, <2>4 DEF AppendReturns
<1>7. CASE OnAccepted(r)
  <2>1. /\ req[r] = "count" /\ RequestGoesTo(r, "await") /\ pendingInputs' = pendingInputs + 1
        /\ UNCHANGED <<call, flushed>>
    BY <1>7 DEF OnAccepted, bufVars
  <2>2. Uncounted' = Uncounted \ {r} /\ r \in Uncounted
    BY <2>1, RequestMoves DEF Uncounted
  <2>3. Cardinality(Uncounted') = Cardinality(Uncounted) - 1
    BY <2>2, CountsAreFinite, FS_RemoveElement, Zenon
  <2>4. (Buffer!Accepted \ flushed)' = Buffer!Accepted \ flushed
    BY <2>1 DEF Buffer!Accepted
  <2>5. /\ pendingInputs = Cardinality(Buffer!Accepted \ flushed) - Cardinality(Uncounted)
        /\ Cardinality((Buffer!Accepted \ flushed)') = Cardinality(Buffer!Accepted \ flushed)
    BY <2>4 DEF CounterFlow
  <2>6. pendingInputs' = Cardinality((Buffer!Accepted \ flushed)') - Cardinality(Uncounted')
    BY <2>1, <2>3, <2>5, CountsAreFinite
  <2> QED
    BY <2>6 DEF CounterFlow
<1> QED
  BY <1>1, <1>3, <1>5, <1>6, <1>7 DEF RequestStep

\* A flush takes off what it reports, once for each message.
LEMMA CounterFlush ==
  ASSUME TypeOK, CounterFlow, NEW S \in SUBSET Buffer!Pending, OnFlush(S)
  PROVE  CounterFlow'
<1>1. /\ S \subseteq Buffer!Accepted \ flushed /\ flushed' = flushed \cup S
      /\ UNCHANGED <<call, req>> /\ pendingInputs' = pendingInputs - Cardinality(S)
  BY DEF OnFlush, Inputs, Buffer!OnFlush, Buffer!Pending
<1>2. (Buffer!Accepted \ flushed)' = (Buffer!Accepted \ flushed) \ S
  BY <1>1 DEF Buffer!Accepted
<1>3. IsFiniteSet(S) /\ Cardinality(S) \in Nat
  BY <1>1, CountsAreFinite, FS_Subset, FS_CardinalityType
<1>4. Cardinality((Buffer!Accepted \ flushed)')
        = Cardinality(Buffer!Accepted \ flushed) - Cardinality(S)
  <2>1. (Buffer!Accepted \ flushed) \cap S = S
    BY <1>1
  <2>2. \A A : IsFiniteSet(A) => Cardinality(A \ S) = Cardinality(A) - Cardinality(A \cap S)
    BY FS_Difference
  <2>3. IsFiniteSet(Buffer!Accepted \ flushed)
    BY CountsAreFinite
  <2> QED
    BY <1>2, <2>1, <2>2, <2>3
<1>5. Uncounted' = Uncounted
  BY <1>1 DEF Uncounted
<1> QED
  BY <1>1, <1>3, <1>4, <1>5, CountsAreFinite DEF CounterFlow

\* The counter is preserved by every step.
LEMMA CounterStep ==
  ASSUME TypeOK, RequestFlow, CounterFlow, [Next]_vars
  PROVE  CounterFlow'
<1>1. CASE Start \/ Shutdown
  BY <1>1, CounterKept
  DEF Start, Shutdown, bufVars, Uncounted, Buffer!CloseBegin, Buffer!CloseGoesTo
<1>2. CASE ProducerStep
  <2>1. UNCHANGED <<req, pendingInputs>>
    BY <1>2 DEF ProducerStep, expVars
  <2>2. UNCHANGED <<call, flushed>>
    BY <1>2 DEF ProducerStep, Buffer!Store, Buffer!Drop, Buffer!Resolve, Buffer!Settle,
                Buffer!CloseEnd, Buffer!CloseForce, Buffer!CloseGoesTo
  <2> QED
    BY <2>1, <2>2, CounterKept DEF Uncounted
<1>3. CASE UNCHANGED vars
  BY <1>3, CounterKept DEF vars, expVars, bufVars, Uncounted
<1> QED
  BY <1>1, <1>2, <1>3, CounterRequest, CounterFlush DEF Next

\* For any number of requests: pending_inputs is exact when no call is about
\* to count, and zero after a Shutdown that was not cut short.
THEOREM PendingInputsAreExact == Spec => []PendingInputsSettle
<1>1. TypeOK /\ RequestFlow /\ CounterFlow /\ [Next]_vars => CounterFlow'
  BY CounterStep
<1>2. TypeOK /\ RequestFlow /\ CounterFlow => PendingInputsSettle
  <2> SUFFICES ASSUME RequestFlow, CounterFlow, \A r \in Requests : req[r] # "count"
               PROVE  /\ pendingInputs = Cardinality(Buffer!Accepted \ flushed)
                      /\ closing = "closed" => pendingInputs = 0
    BY DEF PendingInputsSettle
  <2>1. Uncounted = {}
    BY DEF Uncounted
  <2>2. pendingInputs = Cardinality(Buffer!Accepted \ flushed)
    BY <2>1, CountsAreFinite, FS_EmptySet DEF CounterFlow
  <2>3. closing = "closed" => Buffer!Accepted \ flushed = {}
    BY DEF RequestFlow, Buffer!Accepted
  <2> QED
    BY <2>2, <2>3, FS_EmptySet
<1> QED
  BY <1>1, <1>2, CounterInit, ExporterTyped, RequestInvariant, PTL DEF Spec

-----------------------------------------------------------------------------
(* Configuration *)

\* What Start builds from a valid configuration.
LEMMA StartConfigures ==
  ASSUME TypeOK, Start
  PROVE  StartedAsConfigured'
<1> DEFINE p == WithDefaults(ForwardedConfig(config))
<1>1. producerConfig' = p /\ UNCHANGED config /\ Validate(config)
  BY DEF Start
<1>2. \A k \in Forwarded : config.limits[k] \in Int /\ config.limits[k] >= 1
  BY <1>1, ConfigsAssumption DEF TypeOK, Validate
<1>3. /\ DOMAIN DefaultProducerConfig = Forwarded \cup Unset
      /\ \A k \in Forwarded \cup Unset : DefaultProducerConfig[k] \in Int
                                         /\ DefaultProducerConfig[k] >= 1
  BY DEF DefaultProducerConfig
<1>4. /\ DOMAIN ForwardedConfig(config) = Forwarded \cup Unset
      /\ \A k \in Forwarded : ForwardedConfig(config)[k] = config.limits[k]
      /\ \A k \in Unset \ Forwarded : ForwardedConfig(config)[k] = DefaultProducerConfig[k]
  BY <1>3, Zenon DEF ForwardedConfig
<1>5. /\ DOMAIN p = Forwarded \cup Unset
      /\ \A k \in Forwarded : p[k] = config.limits[k]
      /\ \A k \in DOMAIN p : p[k] >= 1
  BY <1>2, <1>3, <1>4 DEF WithDefaults
<1> QED
  BY <1>1, <1>5 DEF StartedAsConfigured

\* For any configurations: a producer that was started runs with the numbers
\* of a configuration that Validate accepted, all of them at least 1.
THEOREM StartsAreConfigured == Spec => []StartedAsConfigured
<1>1. Init => StartedAsConfigured
  BY DEF Init, StartedAsConfigured
<1>2. ASSUME TypeOK, StartedAsConfigured, [Next]_vars PROVE StartedAsConfigured'
  <2>1. ASSUME UNCHANGED <<config, producerConfig>> PROVE StartedAsConfigured'
    BY <1>2, <2>1 DEF StartedAsConfigured
  <2>2. CASE Shutdown \/ ProducerStep \/ UNCHANGED vars
    BY <2>1, <2>2 DEF Shutdown, ProducerStep, vars, expVars
  <2>3. ASSUME NEW S \in SUBSET Buffer!Pending, OnFlush(S) PROVE StartedAsConfigured'
    BY <2>1, <2>3 DEF OnFlush
  <2>4. ASSUME NEW r \in Requests,
               Consume(r) \/ CtxFires(r) \/ AppendReturns(r) \/ RequestStep(r)
        PROVE  StartedAsConfigured'
    BY <2>1, <2>4 DEF Consume, CtxFires, AppendReturns, RequestStep, LoadProducer, OnAccepted,
                      AwaitDurable, AwaitCtx, RequestGoesTo
  <2> QED
    BY <1>2, <2>2, <2>3, <2>4, StartConfigures DEF Next
<1>3. TypeOK /\ StartedAsConfigured /\ [Next]_vars => StartedAsConfigured'
  BY <1>2
<1> QED
  BY <1>1, <1>3, ExporterTyped, PTL DEF Spec
=============================================================================
