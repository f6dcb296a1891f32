--------------------------- MODULE ProducerProofs ---------------------------
(***************************************************************************)
(* Every action of Producer keeps the types of the variables, Durability   *)
(* and PipelineFlow, and the theorems about producers of every size that   *)
(* follow.                                                                 *)
(***************************************************************************)
EXTENDS ProducerBuffer, TLAPS

USE DEF appVars, rotVars, workVars, commitVars, resolveVars, storeVars, budgetVars,
        flushVars, closeVars

-----------------------------------------------------------------------------
(* Sequences *)

\* Taking the first element off a sequence without repetitions.
LEMMA TailOfDistinct ==
  ASSUME NEW S, NEW s \in Seq(S), s # <<>>, \A i, j \in DOMAIN s : s[i] = s[j] => i = j
  PROVE  /\ \A i \in DOMAIN Tail(s) : /\ i + 1 \in DOMAIN s
                                      /\ Tail(s)[i] = s[i + 1] /\ Tail(s)[i] # Head(s)
         /\ \A i, j \in DOMAIN Tail(s) : Tail(s)[i] = Tail(s)[j] => i = j
<1>1. /\ DOMAIN s = 1 .. Len(s) /\ Head(s) = s[1] /\ Len(s) \in Nat \ {0}
      /\ DOMAIN Tail(s) = 1 .. Len(s) - 1
      /\ \A i \in 1 .. Len(s) - 1 : Tail(s)[i] = s[i + 1]
  OBVIOUS
<1>2. \A i \in DOMAIN Tail(s) : i \in Int /\ i + 1 \in DOMAIN s /\ i + 1 # 1
  BY <1>1
<1>3. 1 \in DOMAIN s
  BY <1>1
<1> QED
  BY <1>1, <1>2, <1>3

\* What two sequences have one after the other.
LEMMA RangeOfConcatenation ==
  ASSUME NEW S, NEW s \in Seq(S), NEW t \in Seq(S)
  PROVE  Range(s \o t) = Range(s) \cup Range(t)
<1>1. \A i \in DOMAIN s : i \in DOMAIN (s \o t) /\ (s \o t)[i] = s[i]
  OBVIOUS
<1>2. \A i \in DOMAIN t : Len(s) + i \in DOMAIN (s \o t) /\ (s \o t)[Len(s) + i] = t[i]
  OBVIOUS
<1>3. \A i \in DOMAIN (s \o t) :
        i \in DOMAIN s \/ (i - Len(s) \in DOMAIN t /\ i = Len(s) + (i - Len(s)))
  OBVIOUS
<1>4. Range(s) \subseteq Range(s \o t)
  BY <1>1, Zenon DEF Range
<1>5. Range(t) \subseteq Range(s \o t)
  BY <1>2, Zenon DEF Range
<1>6. ASSUME NEW i \in DOMAIN (s \o t) PROVE (s \o t)[i] \in Range(s) \cup Range(t)
  <2>1. CASE i \in DOMAIN s
    BY <1>1, <2>1, Zenon DEF Range
  <2>2. CASE i \notin DOMAIN s
    BY <1>2, <1>3, <2>2, Zenon DEF Range
  <2> QED
    BY <2>1, <2>2, Zenon
<1>7. Range(s \o t) \subseteq Range(s) \cup Range(t)
  <2>1. \A x \in Range(s \o t) : \E i \in DOMAIN (s \o t) : x = (s \o t)[i]
    BY Zenon DEF Range
  <2> QED
    BY <1>6, <2>1, Zenon
<1> QED
  BY <1>4, <1>5, <1>7, Zenon

\* What a sequence has besides its head is in its tail.
LEMMA RangeOfTail ==
  ASSUME NEW S, NEW s \in Seq(S), s # <<>>
  PROVE  Range(s) = {Head(s)} \cup Range(Tail(s))
<1>1. /\ DOMAIN s = 1 .. Len(s) /\ Head(s) = s[1] /\ Len(s) \in Nat \ {0}
      /\ DOMAIN Tail(s) = 1 .. Len(s) - 1
      /\ \A i \in 1 .. Len(s) - 1 : Tail(s)[i] = s[i + 1]
  OBVIOUS
<1>2. \A i \in DOMAIN s : i = 1 \/ (i - 1 \in DOMAIN Tail(s) /\ Tail(s)[i - 1] = s[i])
  BY <1>1
<1>3. \A i \in DOMAIN Tail(s) : i + 1 \in DOMAIN s /\ Tail(s)[i] = s[i + 1]
  BY <1>1
<1>4. 1 \in DOMAIN s
  BY <1>1
<1>5. \A i \in DOMAIN s : s[i] \in {Head(s)} \cup Range(Tail(s))
  BY <1>1, <1>2, Zenon DEF Range
<1>6. \A i \in DOMAIN Tail(s) : Tail(s)[i] \in Range(s)
  BY <1>3, Zenon DEF Range
<1>7. Head(s) \in Range(s)
  BY <1>1, <1>4, Zenon DEF Range
<1> QED
  BY <1>5, <1>6, <1>7, Zenon DEF Range

\* What a sequence has after an element is appended.
LEMMA RangeOfAppend ==
  ASSUME NEW S, NEW s \in Seq(S), NEW x \in S
  PROVE  Range(Append(s, x)) = Range(s) \cup {x}
<1>1. /\ DOMAIN s = 1 .. Len(s) /\ Len(s) \in Nat
      /\ DOMAIN Append(s, x) = 1 .. Len(s) + 1
      /\ \A i \in 1 .. Len(s) : Append(s, x)[i] = s[i]
      /\ Append(s, x)[Len(s) + 1] = x
  OBVIOUS
<1>2. \A i \in DOMAIN Append(s, x) : i \in DOMAIN s \/ i = Len(s) + 1
  BY <1>1
<1>3. \A i \in DOMAIN s : i \in DOMAIN Append(s, x)
  BY <1>1
<1>4. Len(s) + 1 \in DOMAIN Append(s, x)
  BY <1>1
<1> QED
  BY <1>1, <1>2, <1>3, <1>4, Zenon DEF Range

-----------------------------------------------------------------------------
(* Types *)

\* The empty sequence is a function on an empty range.
LEMMA EmptyFunction == \A S : <<>> \in [0 .. 0 - 1 -> S]
<1>1. 0 .. 0 - 1 = 1 .. 0
  OBVIOUS
<1>2. \A S : <<>> \in [1 .. 0 -> S]
  OBVIOUS
<1> QED
  BY <1>1, <1>2, Zenon

\* The goroutines and channels NewProducer makes are well typed.
LEMMA TypeInit == Init => TypeOK
<1> SUFFICES ASSUME Init PROVE TypeOK
  OBVIOUS
<1>0. \A S : <<>> \in Seq(S)
  OBVIOUS
<1>1. AppendTypes /\ RotatorTypes
  BY <1>0, Zenon DEF Init, AppendTypes, RotatorTypes, AppendStates, EmptyAcc
<1>2. BatchTypes
  BY EmptyFunction, Zenon DEF Init, BatchTypes, Ordinals
<1>3. CommitterTypes /\ ResolverTypes /\ StoreTypes
  BY <1>0, Zenon DEF Init, CommitterTypes, ResolverTypes, StoreTypes
<1>4. FlushTypes /\ CloseTypes
  BY Zenon DEF Init, FlushTypes, CloseTypes
<1> QED
  BY <1>1, <1>2, <1>3, <1>4, Zenon DEF TypeOK

\* The types of variables that a step leaves alone.
LEMMA AppendTypesKept == AppendTypes /\ UNCHANGED appVars => AppendTypes'
BY Zenon DEF AppendTypes

\* A step that leaves the rotator alone.
LEMMA RotatorTypesKept ==
  RotatorTypes /\ UNCHANGED <<rpc, acc, rack, rexit, nextOrdinal>> => RotatorTypes'
BY Zenon DEF RotatorTypes

\* A step that leaves the batches, encoders and uploaders alone.
LEMMA BatchTypesKept ==
  BatchTypes /\ UNCHANGED <<nextOrdinal, batches, workVars>> => BatchTypes'
BY Zenon DEF BatchTypes, Ordinals

\* A step that leaves the committer alone.
LEMMA CommitterTypesKept == CommitterTypes /\ UNCHANGED commitVars => CommitterTypes'
BY Zenon DEF CommitterTypes

\* A step that leaves the resolver alone.
LEMMA ResolverTypesKept ==
  ResolverTypes /\ UNCHANGED <<resolveVars, budgetVars>> => ResolverTypes'
BY Zenon DEF ResolverTypes

\* A step that leaves the object store alone.
LEMMA StoreTypesKept == StoreTypes /\ UNCHANGED storeVars => StoreTypes'
BY Zenon DEF StoreTypes

\* A step that leaves the Flush calls alone.
LEMMA FlushTypesKept == FlushTypes /\ UNCHANGED flushVars => FlushTypes'
BY Zenon DEF FlushTypes

\* A step that leaves Close alone.
LEMMA CloseTypesKept == CloseTypes /\ UNCHANGED closeVars => CloseTypes'
BY Zenon DEF CloseTypes

\* A value for the next ordinal extends a sequence indexed by ordinals.
LEMMA WithNextType ==
  ASSUME NEW S, nextOrdinal \in Nat, NEW f \in [0 .. nextOrdinal - 1 -> S], NEW v \in S
  PROVE  WithNext(f, v) \in [0 .. (nextOrdinal + 1) - 1 -> S]
BY DEF WithNext

\* acquire and release of producerBudget compute natural numbers.
LEMMA BudgetType ==
  ASSUME NEW used \in Nat, NEW n \in Nat
  PROVE  used + n \in Nat /\ Released(used, n) \in Nat
BY DEF Released

\* The steps of AppendContext keep the types.
LEMMA AppendType ==
  ASSUME TypeOK, NEW m \in Msgs, AppendStart(m) \/ AppendStep(m)
  PROVE  TypeOK'
<1>1. AppendFrame
  BY Zenon DEF AppendStart, AppendStep, AppendReserve, AppendBlocks, AppendReserveFails, AppendSend,
         AppendSendOnClosed, AppendSendFails
<1>2. AppendTypes' /\ ResolverTypes'
  <2> USE <1>1 DEF AppendTypes, ResolverTypes, AppendFrame, AppendStates, AppendGoesTo
  <2>0. TypeOK /\ ByteCost[m] \in Nat
    BY MessagesAssumption, Zenon
  <2>1. CASE AppendStart(m)
    BY <2>0, <2>1, Zenon DEF TypeOK, AppendStart
  <2>2. CASE AppendReserve(m)
    BY <2>0, <2>2, BudgetType, Zenon DEF TypeOK, AppendReserve
  <2>7. CASE AppendBlocks(m)
    BY <2>0, <2>7, Zenon DEF TypeOK, AppendBlocks
  <2>3. CASE AppendReserveFails(m)
    BY <2>0, <2>3, Zenon DEF TypeOK, AppendReserveFails
  <2>4. CASE AppendSend(m)
    BY <2>0, <2>4 DEF TypeOK, AppendSend
  <2>5. CASE AppendSendOnClosed(m)
    BY <2>0, <2>5, Zenon DEF TypeOK, AppendSendOnClosed
  <2>6. CASE AppendSendFails(m)
    BY <2>0, <2>6, BudgetType, Zenon DEF TypeOK, AppendSendFails
  <2> QED
    BY <2>1, <2>2, <2>3, <2>4, <2>5, <2>6, <2>7, Zenon DEF AppendStep
<1>3. /\ RotatorTypes' /\ BatchTypes' /\ CommitterTypes' /\ StoreTypes'
      /\ FlushTypes' /\ CloseTypes'
  BY <1>1, RotatorTypesKept, BatchTypesKept, CommitterTypesKept, StoreTypesKept,
     FlushTypesKept, CloseTypesKept, Zenon DEF AppendFrame, TypeOK
<1> QED
  BY <1>2, <1>3, Zenon DEF TypeOK

\* The cases of the rotator's select keep the types.
LEMMA SelectType ==
  ASSUME TypeOK,
         \/ RotatorReceive \/ RotatorClosed \/ RotatorTimer
         \/ \E f \in FlushCalls : RotatorFlush(f)
         \/ RotatorDrain \/ RotatorDrained \/ RotatorBlocks
  PROVE  TypeOK'
<1>1. SelectFrame
  BY Zenon DEF RotatorReceive, RotatorClosed, RotatorTimer, RotatorFlush, RotatorDrain,
               RotatorDrained, RotatorBlocks
<1>2. /\ BatchTypes' /\ CommitterTypes' /\ ResolverTypes' /\ StoreTypes' /\ CloseTypes'
  BY <1>1, BatchTypesKept, CommitterTypesKept, ResolverTypesKept, StoreTypesKept,
     CloseTypesKept, Zenon DEF SelectFrame, TypeOK
<1>3. ReceiveAppend => /\ acc' \in [msgs : Seq(Msgs), bytes : Nat, entries : Nat]
                       /\ appendCh' \in Seq(Msgs)
  <2> SUFFICES ASSUME appendCh # <<>>, acc' = Add(acc, Head(appendCh)),
                      appendCh' = Tail(appendCh)
               PROVE  /\ acc' \in [msgs : Seq(Msgs), bytes : Nat, entries : Nat]
                      /\ appendCh' \in Seq(Msgs)
    BY Zenon DEF ReceiveAppend
  <2>1. appendCh \in Seq(Msgs) /\ acc \in [msgs : Seq(Msgs), bytes : Nat, entries : Nat]
    BY Zenon DEF TypeOK, AppendTypes, RotatorTypes
  <2>2. Head(appendCh) \in Msgs /\ Tail(appendCh) \in Seq(Msgs)
    BY <2>1
  <2>3. ByteCost[Head(appendCh)] \in Nat /\ EntryCount[Head(appendCh)] \in Nat
    BY <2>2, MessagesAssumption, Zenon
  <2> QED
    <3> DEFINE m == Head(appendCh)
    <3>1. Append(acc.msgs, m) \in Seq(Msgs)
      BY <2>1, <2>2
    <3>2. acc.bytes + ByteCost[m] \in Nat /\ acc.entries + EntryCount[m] \in Nat
      BY <2>1, <2>3
    <3> QED
      BY <2>2, <3>1, <3>2, Zenon DEF Add
<1>4. AppendTypes'
  <2>1. appendCh' \in Seq(Msgs)
    BY <1>3, Zenon DEF TypeOK, AppendTypes, RotatorReceive, RotatorClosed, RotatorTimer,
                       RotatorFlush, RotatorDrain, RotatorDrained, RotatorBlocks
  <2> QED
    BY <1>1, <2>1, Zenon DEF SelectFrame, TypeOK, AppendTypes
<1>5. RotatorTypes'
  <2>1. acc' \in [msgs : Seq(Msgs), bytes : Nat, entries : Nat]
    BY <1>3, Zenon DEF TypeOK, RotatorTypes, RotatorReceive, RotatorClosed, RotatorTimer,
                       RotatorFlush, RotatorDrain, RotatorDrained, RotatorBlocks
  <2>2. /\ rpc' \in {rpc, "slot", "blocked", "done", "drain", "select"}
        /\ rack' \in {rack, NoFlush} \cup FlushCalls
    BY Zenon DEF RotatorReceive, RotatorClosed, RotatorTimer, RotatorFlush, RotatorDrain,
           RotatorDrained, RotatorBlocks, Emit
  <2>3. rexit' \in BOOLEAN
    BY Zenon DEF TypeOK, RotatorTypes, RotatorReceive, RotatorClosed, RotatorTimer,
                 RotatorFlush, RotatorDrain, RotatorDrained, RotatorBlocks, Emit
  <2> QED
    BY <1>1, <2>1, <2>2, <2>3, Zenon DEF SelectFrame, TypeOK, RotatorTypes
<1>6. FlushTypes'
  <2>1. ASSUME NEW f \in FlushCalls, RotatorFlush(f) PROVE FlushTypes'
    BY <1>1, <2>1, Zenon DEF SelectFrame, RotatorFlush, FlushWaits, TypeOK, FlushTypes
  <2>2. CASE RotatorDrained
    BY <1>1, <2>2, Zenon DEF SelectFrame, RotatorDrained, Acked, Errors, TypeOK, FlushTypes
  <2>3. CASE RotatorReceive \/ RotatorClosed \/ RotatorTimer \/ RotatorDrain \/ RotatorBlocks
    <3>1. UNCHANGED flushVars
      BY <1>1, <2>3, Zenon DEF SelectFrame, RotatorReceive, RotatorClosed, RotatorTimer,
                               RotatorDrain, RotatorBlocks
    <3> QED
      BY <3>1, FlushTypesKept, Zenon DEF TypeOK
  <2> QED
    BY <2>1, <2>2, <2>3, Zenon
<1> QED
  BY <1>2, <1>4, <1>5, <1>6, Zenon DEF TypeOK

\* emit keeps the types, whether it gets a slot or drops the batch.
LEMMA EmitType == ASSUME TypeOK, RotatorAcquire \/ RotatorDrop PROVE TypeOK'
<1>1. EmitFrame
  BY Zenon DEF RotatorAcquire, RotatorDrop
<1>2. CommitterTypes' /\ StoreTypes' /\ CloseTypes'
  BY <1>1, CommitterTypesKept, StoreTypesKept, CloseTypesKept, Zenon DEF EmitFrame, TypeOK
<1>3. /\ FramingExtra(acc) \in Nat /\ acc.msgs \in Seq(Msgs) /\ acc.bytes \in Nat
      /\ EmptyAcc \in [msgs : Seq(Msgs), bytes : Nat, entries : Nat]
  BY DEF TypeOK, RotatorTypes, FramingExtra, batchEntryLenSize, batchFooterSize, EmptyAcc
<1>4. CASE RotatorAcquire
  <2>1. AppendTypes' /\ FlushTypes'
    BY <1>1, <1>4, Zenon DEF RotatorAcquire, EmitFrame, TypeOK, AppendTypes, FlushTypes
  <2>2. RotatorTypes' /\ ResolverTypes'
    <3>1. RotatorTypes /\ ResolverTypes
      BY Zenon DEF TypeOK
    <3>2. /\ rpc' = "send" /\ acc' = EmptyAcc /\ rack' = NoFlush
          /\ UNCHANGED <<rexit, vpc, cur, observed>>
          /\ nextOrdinal' = nextOrdinal + 1 /\ batchesUsed' = batchesUsed + 1
          /\ bytesUsed' = bytesUsed + FramingExtra(acc)
      BY <1>1, <1>4, Zenon DEF RotatorAcquire, EmitFrame
    <3>3. nextOrdinal' \in Nat /\ batchesUsed' \in Nat /\ bytesUsed' \in Nat
      BY <1>3, <3>1, <3>2 DEF RotatorTypes, ResolverTypes
    <3> QED
      BY <1>3, <3>1, <3>2, <3>3, Zenon DEF RotatorTypes, ResolverTypes
  <2>3. BatchTypes'
    <3>1. /\ nextOrdinal \in Nat /\ rack \in FlushCalls \cup {NoFlush}
          /\ Ordinals' = 0 .. (nextOrdinal + 1) - 1
      BY <1>4, Zenon DEF RotatorAcquire, TypeOK, RotatorTypes, Ordinals
    <3>2. batches' \in [Ordinals' -> [msgs : Seq(Msgs), ack : FlushCalls \cup {NoFlush},
                                     cost : Nat]]
      <4> DEFINE S == [msgs : Seq(Msgs), ack : FlushCalls \cup {NoFlush}, cost : Nat]
                 b == [msgs |-> acc.msgs, ack |-> rack, cost |-> acc.bytes + FramingExtra(acc)]
      <4>1. b \in S
        BY <1>3, <3>1
      <4>2. batches' = WithNext(batches, b)
        BY <1>4, Zenon DEF RotatorAcquire
      <4>3. batches \in [0 .. nextOrdinal - 1 -> S]
        BY Zenon DEF TypeOK, BatchTypes, Ordinals
      <4> HIDE DEF S, b
      <4>4. batches' \in [0 .. (nextOrdinal + 1) - 1 -> S]
        BY <3>1, <4>1, <4>2, <4>3, WithNextType, Zenon
      <4> QED
        BY <3>1, <4>4, Zenon DEF S
    <3>3. stage' \in [Ordinals' -> Stages]
      BY <1>4, <3>1, WithNextType, Zenon DEF RotatorAcquire, TypeOK, BatchTypes, Ordinals, Stages
    <3>4. err' \in [Ordinals' -> Errors]
      BY <1>4, <3>1, WithNextType, Zenon DEF RotatorAcquire, TypeOK, BatchTypes, Ordinals, Errors
    <3>5. tries' \in [Ordinals' -> Nat]
      BY <1>4, <3>1, WithNextType, Zenon DEF RotatorAcquire, TypeOK, BatchTypes, Ordinals
    <3> QED
      BY <1>1, <3>2, <3>3, <3>4, <3>5, Zenon DEF EmitFrame, TypeOK, BatchTypes
  <2> QED
    BY <1>2, <2>1, <2>2, <2>3, Zenon DEF TypeOK
<1>5. CASE RotatorDrop
  <2>1. AppendTypes' /\ FlushTypes'
    BY <1>1, <1>5, Zenon DEF RotatorDrop, EmitFrame, TypeOK, AppendTypes, FlushTypes,
                      WatchersResolved, Acked, Errors
  <2>2. RotatorTypes' /\ ResolverTypes'
    BY <1>1, <1>3, <1>5, BudgetType, Zenon DEF RotatorDrop, EmitFrame, TypeOK, RotatorTypes,
                                               ResolverTypes, AfterEmit
  <2>3. BatchTypes'
    BY <1>1, <1>5, BatchTypesKept, Zenon DEF RotatorDrop, EmitFrame, TypeOK
  <2> QED
    BY <1>2, <2>1, <2>2, <2>3, Zenon DEF TypeOK
<1> QED
  BY <1>4, <1>5, Zenon

\* The encoders and uploaders keep the types.
LEMMA WorkType ==
  ASSUME TypeOK,
         \/ Encoders
         \/ \E o \in Ordinals : UploadStep(o)
         \/ UploaderPoolExit
  PROVE  TypeOK'
<1>1. WorkFrame /\ rpc' \in {rpc, "done", "select"}
  BY Zenon DEF Encoders, UploadStep, EncoderReceive, EncoderSend, EncoderFails, UploadOk,
               UploadFails, UploadAborted, EncoderPoolExit, UploaderPoolExit, AfterEmit
<1>2. AppendTypes' /\ CommitterTypes' /\ ResolverTypes' /\ FlushTypes' /\ CloseTypes'
  BY <1>1, AppendTypesKept, CommitterTypesKept, ResolverTypesKept, FlushTypesKept,
     CloseTypesKept, Zenon DEF WorkFrame, TypeOK
<1>4. RotatorTypes'
  BY <1>1, Zenon DEF WorkFrame, TypeOK, RotatorTypes
<1>5. StoreTypes'
  <2>1. Ordinals \subseteq Nat
    BY DEF Ordinals, TypeOK, RotatorTypes
  <2>2. objects' \subseteq objects \cup Ordinals
    BY Zenon DEF Encoders, UploadStep, EncoderReceive, EncoderSend, EncoderFails, UploadOk,
           UploadFails, UploadAborted, EncoderPoolExit, UploaderPoolExit
  <2> QED
    BY <1>1, <2>1, <2>2, Zenon DEF WorkFrame, TypeOK, StoreTypes
<1>6. BatchTypes'
  <2>0. TypeOK /\ Ordinals' = Ordinals /\ batches' = batches
    BY <1>1, Zenon DEF WorkFrame, Ordinals
  <2>1. \A o \in Ordinals, e \in Errors : Complete(o, e) =>
          /\ stage' \in [Ordinals -> Stages] /\ err' \in [Ordinals -> Errors]
          /\ tries' \in [Ordinals -> Nat]
    BY DEF Complete, TypeOK, BatchTypes, Stages
  <2>2. CASE EncoderReceive
    BY <2>0, <2>2, Zenon DEF EncoderReceive, TypeOK, BatchTypes, Stages
  <2>3. ASSUME NEW o \in Ordinals, EncoderSend(o) PROVE BatchTypes'
    BY <2>0, <2>3, Zenon DEF EncoderSend, TypeOK, BatchTypes, Stages
  <2>4. ASSUME NEW o \in Ordinals, NEW e \in Errors, Complete(o, e),
               UNCHANGED <<encodersDone, uploadersDone>>
        PROVE  BatchTypes'
    BY <2>0, <2>1, <2>4, Zenon DEF TypeOK, BatchTypes
  <2>5. ASSUME NEW o \in Ordinals, EncoderFails(o) \/ UploadOk(o) \/ UploadAborted(o)
        PROVE  BatchTypes'
    BY <2>4, <2>5, Zenon DEF EncoderFails, UploadOk, UploadAborted, Errors
  <2>6. ASSUME NEW o \in Ordinals, UploadFails(o) PROVE BatchTypes'
    <3>1. CASE tries[o] + 1 < UploadMaxAttempts
      <4>1. /\ tries \in [Ordinals -> Nat] /\ tries' = [tries EXCEPT ![o] = @ + 1]
            /\ UNCHANGED <<stage, err, encodersDone, uploadersDone>>
        BY <2>6, <3>1, Zenon DEF UploadFails, TypeOK, BatchTypes
      <4>2. tries' \in [Ordinals -> Nat]
        BY <4>1
      <4> QED
        BY <2>0, <4>1, <4>2, Zenon DEF TypeOK, BatchTypes
    <3>2. CASE ~(tries[o] + 1 < UploadMaxAttempts)
      BY <2>4, <2>6, <3>2, Zenon DEF UploadFails, Errors
    <3> QED
      BY <3>1, <3>2, Zenon
  <2>7. CASE EncoderPoolExit \/ UploaderPoolExit
    BY <2>0, <2>7, Zenon DEF EncoderPoolExit, UploaderPoolExit, TypeOK, BatchTypes
  <2> QED
    BY <2>2, <2>3, <2>5, <2>6, <2>7, Zenon DEF Encoders, UploadStep
<1> QED
  BY <1>2, <1>4, <1>5, <1>6, Zenon DEF TypeOK

\* The committer's drain loop keeps the types.
LEMMA DrainType == ASSUME TypeOK, CommitterLocal PROVE TypeOK'
<1>1. DrainFrame
  BY Zenon DEF CommitterLocal, CommitterGather, CommitterReceiveHalted, CommitterClosed,
               CommitterTake, CommitterTaken, CommitterRetry, CommitterAborted,
               CommitterResolve, CommitterResolved
<1>2. AppendTypes' /\ RotatorTypes' /\ StoreTypes' /\ FlushTypes' /\ CloseTypes'
  BY <1>1, AppendTypesKept, RotatorTypesKept, StoreTypesKept, FlushTypesKept,
     CloseTypesKept, Zenon DEF DrainFrame, TypeOK
<1>3. /\ Ordinals' = Ordinals /\ Ordinals \subseteq Nat
      /\ UNCHANGED <<nextOrdinal, batches, tries, encodersDone, uploadersDone, observed,
                     bytesUsed, batchesUsed, snap, halted>>
  BY <1>1 DEF DrainFrame, Ordinals, TypeOK, RotatorTypes
<1>4. BatchTypes /\ CommitterTypes /\ ResolverTypes
  BY Zenon DEF TypeOK
<1>5. CASE CommitterGather
  BY <1>2, <1>3, <1>4, <1>5, Zenon DEF CommitterGather, TypeOK, BatchTypes, CommitterTypes,
                                ResolverTypes, Stages
<1>6. ASSUME NEW o \in Ordinals, CommitterReceiveHalted(o) PROVE TypeOK'
  BY <1>2, <1>3, <1>4, <1>6, Zenon DEF CommitterReceiveHalted, TypeOK, BatchTypes, CommitterTypes,
                                ResolverTypes, Stages, Errors
<1>7. CASE CommitterClosed \/ CommitterTaken \/ CommitterRetry \/ CommitterResolved
  <2>1. /\ UNCHANGED <<workVars, next, group, failed, casTries, resolveVars>>
        /\ cpc' \in {"recv", "drain", "read", "resolve", "done"}
    BY <1>3, <1>7, Zenon DEF CommitterClosed, CommitterTaken, CommitterRetry, CommitterResolved
  <2>2. sawClosed' \in BOOLEAN
    BY <1>4, <1>7, Zenon DEF CommitterClosed, CommitterTaken, CommitterRetry,
                             CommitterResolved, CommitterTypes
  <2>3. BatchTypes' /\ ResolverTypes'
    BY <1>3, <1>4, <2>1, BatchTypesKept, ResolverTypesKept, Zenon
  <2>4. CommitterTypes'
    BY <1>3, <1>4, <2>1, <2>2, Zenon DEF CommitterTypes
  <2> QED
    BY <1>2, <2>3, <2>4, Zenon DEF TypeOK
<1>8. CASE CommitterAborted
  BY <1>2, <1>3, <1>4, <1>8, Zenon DEF CommitterAborted, TypeOK, BatchTypes, CommitterTypes,
                                ResolverTypes, Errors
<1>9. CASE CommitterTake
  <2>1. BatchTypes'
    BY <1>3, <1>4, <1>9, Zenon DEF CommitterTake, TakeReady, BatchTypes, Stages
  <2>2. CommitterTypes'
    BY <1>3, <1>4, <1>9 DEF CommitterTake, TakeReady, CommitterTypes
  <2>3. ResolverTypes'
    BY <1>3, <1>4, <1>9, Zenon DEF CommitterTake, ResolverTypes
  <2> QED
    BY <1>2, <2>1, <2>2, <2>3, Zenon DEF TypeOK
<1>10. CASE CommitterResolve
  <2>1. group \in Seq(Nat) /\ failed \in Seq(Nat)
    BY <1>4, Zenon DEF CommitterTypes
  <2>2. \A s \in Seq(Nat) : s # <<>> => Tail(s) \in Seq(Nat) /\ Head(s) \in Nat
    OBVIOUS
  <2>3. group' \in Seq(Nat) /\ failed' \in Seq(Nat)
    BY <1>10, <2>1, <2>2, Zenon DEF CommitterResolve
  <2>4. \E o \in Nat : Resolve(o)
    BY <1>3, <1>10, <2>1, <2>2, Zenon DEF CommitterResolve, In
  <2>5. BatchTypes'
    BY <1>3, <1>4, <1>10, <2>4, Zenon DEF CommitterResolve, Resolve, BatchTypes, Stages
  <2>6. CommitterTypes'
    BY <1>3, <1>4, <1>10, <2>3, Zenon DEF CommitterResolve, CommitterTypes
  <2>7. ResolverTypes'
    BY <1>3, <1>4, <2>4, Zenon DEF Resolve, ResolverTypes
  <2> QED
    BY <1>2, <2>5, <2>6, <2>7, Zenon DEF TypeOK
<1> QED
  BY <1>5, <1>6, <1>7, <1>8, <1>9, <1>10, Zenon DEF CommitterLocal

\* The manifest reads and writes of the committer keep the types.
LEMMA CasType == ASSUME TypeOK, CommitterStore PROVE TypeOK'
<1>1. CasFrame
  BY Zenon DEF CommitterStore, CommitterRead, CommitterReadFails, CommitterPut,
               CommitterConflict, CommitterPutFails
<1>2. AppendTypes' /\ RotatorTypes' /\ ResolverTypes' /\ FlushTypes' /\ CloseTypes'
  BY <1>1, AppendTypesKept, RotatorTypesKept, ResolverTypesKept, FlushTypesKept,
     CloseTypesKept, Zenon DEF CasFrame, TypeOK
<1>3. /\ Ordinals' = Ordinals
      /\ UNCHANGED <<nextOrdinal, batches, tries, encodersDone, uploadersDone, next, group,
                     failed, sawClosed, objects, otherWrites>>
  BY <1>1, Zenon DEF CasFrame, Ordinals
<1>4. BatchTypes /\ CommitterTypes /\ StoreTypes
  BY Zenon DEF TypeOK
<1>5. WriteManifest => manifest' \in Seq(Nat \cup {Other}) /\ version' \in Nat
  <2>1. snap.data \o group \in Seq(Nat \cup {Other})
    BY <1>4 DEF CommitterTypes
  <2> QED
    BY <1>4, <2>1 DEF WriteManifest, StoreTypes
<1>6. StoreTypes'
  <2>1. Range(group) \subseteq Nat
    BY <1>4 DEF Range, CommitterTypes
  <2>2. manifest' \in Seq(Nat \cup {Other}) /\ version' \in Nat
    BY <1>4, <1>5, Zenon DEF StoreTypes, CommitterStore, CommitterRead, CommitterReadFails,
                             CommitterPut, CommitterConflict, CommitterPutFails
  <2>3. unacked' \in {unacked, unacked \cup Range(group)}
    BY Zenon DEF CommitterStore, CommitterRead, CommitterReadFails, CommitterPut,
           CommitterConflict, CommitterPutFails
  <2> QED
    BY <1>3, <1>4, <2>1, <2>2, <2>3, Zenon DEF StoreTypes
<1>7. CASE CommitterRead
  BY <1>2, <1>3, <1>4, <1>6, <1>7, BatchTypesKept, Zenon
  DEF CommitterRead, TypeOK, CommitterTypes,
                                                      StoreTypes
<1>8. CASE CommitterPut \/ CommitterConflict
  <2>1. /\ casTries' \in {casTries, 0} /\ cpc' \in {"resolve", "read"}
        /\ UNCHANGED <<stage, err, snap, halted>>
    BY <1>8, Zenon DEF CommitterPut, CommitterConflict
  <2>2. CommitterTypes'
    BY <1>3, <1>4, <2>1 DEF CommitterTypes
  <2> QED
    BY <1>2, <1>3, <1>4, <1>6, <2>1, <2>2, BatchTypesKept, Zenon DEF TypeOK
<1>9. CASE CasAttemptFails /\ snap' = snap
  <2>1. BatchTypes'
    BY <1>3, <1>4, <1>9 DEF CasAttemptFails, Halt, BatchTypes, Stages, Errors
  <2>2. casTries' \in {casTries + 1, 0} /\ cpc' \in {"backoff", "resolve"}
    BY <1>9, Zenon DEF CasAttemptFails, Halt
  <2>3. halted' \in BOOLEAN
    BY <1>4, <1>9, Zenon DEF CasAttemptFails, Halt, CommitterTypes
  <2>4. CommitterTypes'
    BY <1>3, <1>4, <1>9, <2>2, <2>3, SMTT(30) DEF CommitterTypes
  <2> QED
    BY <1>2, <1>6, <2>1, <2>4, Zenon DEF TypeOK
<1> QED
  BY <1>7, <1>8, <1>9, Zenon DEF CommitterStore, CommitterReadFails, CommitterPutFails

\* The watcher resolver keeps the types.
LEMMA ResolverType == ASSUME TypeOK, Durability, Resolver PROVE TypeOK'
<1>1. ResolverFrame
  BY Zenon DEF Resolver, ResolverObserve, ResolverWatchers, ResolverAck, ResolverRelease,
               ResolverExit
<1>2. RotatorTypes' /\ CommitterTypes' /\ StoreTypes' /\ CloseTypes'
  BY <1>1, RotatorTypesKept, CommitterTypesKept, StoreTypesKept, CloseTypesKept, Zenon
  DEF ResolverFrame, TypeOK
<1>3. AppendTypes /\ BatchTypes /\ ResolverTypes /\ FlushTypes
  BY Zenon DEF TypeOK
<1>4. /\ Ordinals' = Ordinals
      /\ UNCHANGED <<apc, accepted, appendCh, appendClosed, nextOrdinal, batches, err, tries,
                     encodersDone, uploadersDone, cur, fpc, covers>>
  BY <1>1, Zenon DEF ResolverFrame, Ordinals
<1>5. vpc \notin {"recv", "done"} => batches[cur].cost \in Nat /\ err[cur] \in Errors
  BY <1>3, Zenon DEF Durability, HandoffSound, BatchTypes
<1>6. CASE ResolverObserve
  BY <1>2, <1>3, <1>4, <1>6, AppendTypesKept, BatchTypesKept, FlushTypesKept, Zenon
  DEF ResolverObserve, TypeOK, ResolverTypes
<1>7. CASE ResolverWatchers
  <2>1. AppendTypes'
    BY <1>3, <1>4, <1>5, <1>7, Zenon DEF ResolverWatchers, WatchersResolved, AppendTypes
  <2> QED
    BY <1>2, <1>3, <1>4, <1>7, <2>1, BatchTypesKept, FlushTypesKept, Zenon
    DEF ResolverWatchers, TypeOK, ResolverTypes
<1>8. CASE ResolverAck
  <2>1. FlushTypes'
    BY <1>3, <1>4, <1>5, <1>8, Zenon DEF ResolverAck, Acked, Errors, FlushTypes
  <2> QED
    BY <1>2, <1>3, <1>4, <1>8, <2>1, BatchTypesKept, AppendTypesKept, Zenon
    DEF ResolverAck, TypeOK, ResolverTypes
<1>9. CASE ResolverRelease
  <2>1. BatchTypes'
    BY <1>3, <1>4, <1>9, Zenon DEF ResolverRelease, BatchTypes, Stages
  <2>2. ResolverTypes'
    BY <1>3, <1>4, <1>5, <1>9 DEF ResolverRelease, Released, ResolverTypes
  <2> QED
    BY <1>2, <1>3, <1>4, <1>9, <2>1, <2>2, AppendTypesKept, FlushTypesKept, Zenon
    DEF ResolverRelease, TypeOK
<1>10. CASE ResolverExit
  BY <1>2, <1>3, <1>4, <1>10, AppendTypesKept, BatchTypesKept, FlushTypesKept, Zenon
  DEF ResolverExit, TypeOK, ResolverTypes
<1> QED
  BY <1>6, <1>7, <1>8, <1>9, <1>10, Zenon DEF Resolver

\* The steps of Flush keep the types.
LEMMA FlushType ==
  ASSUME TypeOK,
         \/ \E f \in FlushCalls : FlushStart(f) \/ FlushStep(f)
         \/ CloseStart
  PROVE  TypeOK'
<1>1. FlushFrame
  BY Zenon DEF FlushStart, FlushStep, FlushAck, FlushDrained, FlushBlocks, FlushShutdown, FlushCtx,
               CloseStart
<1>2. /\ AppendTypes' /\ RotatorTypes' /\ BatchTypes' /\ CommitterTypes' /\ ResolverTypes'
      /\ StoreTypes' /\ ackCh' = ackCh
  BY <1>1, AppendTypesKept, RotatorTypesKept, BatchTypesKept, CommitterTypesKept,
     ResolverTypesKept, StoreTypesKept, Zenon DEF FlushFrame, TypeOK
<1>3. CloseTypes'
  <2>1. UNCHANGED <<closeCtx, cancelled, shutdown>> /\ clpc' \in {clpc, "flush"}
    BY Zenon DEF FlushStart, FlushStep, FlushAck, FlushDrained, FlushBlocks, FlushShutdown, FlushCtx,
                 CloseStart
  <2> QED
    BY <2>1, Zenon DEF TypeOK, CloseTypes
<1>4. FlushTypes /\ Range(accepted) \subseteq Msgs
  BY DEF Range, TypeOK, AppendTypes
<1>5. ASSUME NEW f \in FlushCalls, BeginFlush(f) PROVE FlushTypes'
  <2>1. fpc' \in [FlushCalls -> {"idle", "ctx"} \cup FlushWaits \cup Errors]
    BY <1>4, <1>5, Zenon DEF BeginFlush, FlushGoesTo, FlushWaits, FlushTypes
  <2>2. covers' \in [FlushCalls -> SUBSET Msgs]
    BY <1>4, <1>5, Zenon DEF BeginFlush, FlushTypes
  <2>3. \A g \in FlushCalls : fpc'[g] \in {"waitDrained", "draining"} => fpc'[g] = fpc[g]
    BY <1>4, <1>5, Zenon DEF BeginFlush, FlushGoesTo, FlushTypes
  <2> QED
    BY <1>2, <1>4, <2>1, <2>2, <2>3, Zenon DEF FlushTypes
<1>6. ASSUME NEW f \in FlushCalls, FlushStep(f) PROVE FlushTypes'
  <2>1. covers' = covers
    BY <1>6, Zenon DEF FlushStep, FlushAck, FlushDrained, FlushBlocks, FlushShutdown, FlushCtx
  <2>2. CASE FlushAck(f)
    BY <1>2, <1>4, <2>1, <2>2, Zenon DEF FlushAck, FlushGoesTo, FlushWaits, FlushTypes
  <2>3. CASE FlushDrained(f)
    <3>1. ackCh[f] \in Errors
      BY <1>4, <2>3, Zenon DEF FlushDrained, FlushTypes
    <3> QED
      BY <1>2, <1>4, <2>1, <2>3, <3>1, Zenon DEF FlushDrained, FlushGoesTo, Errors, FlushTypes
  <2>5. CASE FlushBlocks(f)
    BY <1>2, <1>4, <2>1, <2>5, Zenon DEF FlushBlocks, FlushGoesTo, FlushWaits, FlushTypes
  <2>4. CASE FlushShutdown(f) \/ FlushCtx(f)
    <3>1. FlushGoesTo(f, "ErrShutdown") \/ FlushGoesTo(f, "ctx")
      BY <2>4, Zenon DEF FlushShutdown, FlushCtx
    <3> QED
      BY <1>2, <1>4, <2>1, <3>1, Zenon DEF FlushGoesTo, Errors, FlushTypes
  <2> QED
    BY <1>6, <2>2, <2>3, <2>4, <2>5, Zenon DEF FlushStep
<1>7. FlushTypes'
  BY <1>5, <1>6, FlushAssumption, Zenon DEF FlushStart, CloseStart
<1> QED
  BY <1>2, <1>3, <1>7, Zenon DEF TypeOK

\* The steps of Close keep the types.
LEMMA CloseType == ASSUME TypeOK, CloseCtxFires \/ Close PROVE TypeOK'
<1>1. CloseFrame
  BY Zenon DEF CloseCtxFires, Close, CloseAppendCh, CloseDone, CloseCancel, CloseForced
<1>2. /\ RotatorTypes' /\ BatchTypes' /\ CommitterTypes' /\ ResolverTypes' /\ StoreTypes'
      /\ FlushTypes'
  BY <1>1, RotatorTypesKept, BatchTypesKept, CommitterTypesKept, ResolverTypesKept,
     StoreTypesKept, FlushTypesKept, Zenon DEF CloseFrame, TypeOK
<1>3. AppendTypes' /\ CloseTypes'
  BY <1>1, Zenon DEF CloseFrame, TypeOK, AppendTypes, CloseTypes, CloseCtxFires, Close,
                     CloseAppendCh, CloseDone, CloseCancel, CloseForced
<1> QED
  BY <1>2, <1>3, Zenon DEF TypeOK

\* The write of another producer keeps the types.
LEMMA OtherType == ASSUME TypeOK, OtherWrite PROVE TypeOK'
<1>1. /\ AppendTypes' /\ RotatorTypes' /\ BatchTypes' /\ CommitterTypes' /\ ResolverTypes'
      /\ FlushTypes' /\ CloseTypes'
  BY AppendTypesKept, RotatorTypesKept, BatchTypesKept, CommitterTypesKept,
     ResolverTypesKept, FlushTypesKept, CloseTypesKept, Zenon DEF OtherWrite, TypeOK
<1>2. StoreTypes'
  BY DEF OtherWrite, TypeOK, StoreTypes
<1> QED
  BY <1>1, <1>2, Zenon DEF TypeOK

-----------------------------------------------------------------------------
(* Durability *)

\* Nothing is in flight when the producer starts.
LEMMA DurabilityInit == Init => Durability
BY DEF Init, Durability, StagesSound, GroupSound, FailedSound, SnapshotSound,
       HandoffSound, WatchersSound, EntriesHaveObjects, Ordinals, Range

\* A step that leaves the batches, the committer, the store and the watchers alone.
LEMMA DurabilityFrame ==
  ASSUME Durability,
         rpc' # "send" \/ rpc' = rpc,
         UNCHANGED <<stage, err, batches, nextOrdinal, watch, group, failed, cpc, snap,
                     vpc, cur, objects, manifest, version>>
  PROVE  Durability'
<1>1. StagesSound' /\ GroupSound' /\ FailedSound'
  BY Zenon DEF Durability, StagesSound, GroupSound, FailedSound, Ordinals
<1>2. SnapshotSound' /\ HandoffSound' /\ WatchersSound' /\ EntriesHaveObjects'
  BY Zenon DEF Durability, SnapshotSound, HandoffSound, WatchersSound, EntriesHaveObjects, Ordinals
<1> QED
  BY <1>1, <1>2, Zenon DEF Durability

\* The cases of the rotator's select do not touch batches in flight.
LEMMA DurabilitySelect ==
  ASSUME Durability, SelectFrame, rpc' # "send" \/ rpc' = rpc
  PROVE  Durability'
BY DurabilityFrame, Zenon DEF SelectFrame

\* A batch enters the pipeline with no object, or is dropped with its watchers.
LEMMA DurabilityEmit ==
  ASSUME TypeOK, Durability, RotatorAcquire \/ RotatorDrop
  PROVE  Durability'
<1>1. EmitFrame
  BY Zenon DEF RotatorAcquire, RotatorDrop
<1>2. GroupSound /\ FailedSound /\ StagesSound /\ HandoffSound /\ WatchersSound
  BY Zenon DEF Durability
<1>3. SnapshotSound' /\ EntriesHaveObjects'
  BY <1>1, Zenon DEF EmitFrame, Durability, SnapshotSound, EntriesHaveObjects
<1>4. CASE RotatorAcquire
  <2>1. /\ nextOrdinal \in Nat /\ Ordinals' = Ordinals \cup {nextOrdinal}
        /\ nextOrdinal \notin Ordinals
        /\ nextOrdinal' = nextOrdinal + 1
    BY <1>4 DEF RotatorAcquire, Ordinals, TypeOK, RotatorTypes
  <2>2. \A o \in Ordinals : stage'[o] = stage[o] /\ err'[o] = err[o] /\ batches'[o] = batches[o]
    BY <1>4, <2>1 DEF RotatorAcquire, WithNext, Ordinals
  <2>3. stage'[nextOrdinal] = "pending"
    BY <1>4, <2>1 DEF RotatorAcquire, WithNext
  <2>4. StagesSound' /\ GroupSound' /\ FailedSound'
    BY <1>1, <1>2, <2>1, <2>2, <2>3 DEF EmitFrame, StagesSound, GroupSound, FailedSound
  <2>5. HandoffSound'
    <3>1. nextOrdinal' > 0 /\ nextOrdinal' - 1 = nextOrdinal
      BY <2>1
    <3> QED
      BY <1>1, <1>2, <2>1, <2>2, <2>3, <3>1, Zenon DEF EmitFrame, HandoffSound
  <2>6. WatchersSound'
    <3>1. watch' = watch
      BY <1>4, Zenon DEF RotatorAcquire
    <3> QED
      BY <1>2, <2>1, <2>2, <3>1 DEF WatchersSound
  <2> QED
    BY <1>3, <2>4, <2>5, <2>6, Zenon DEF Durability
<1>5. CASE RotatorDrop
  <2>1. Ordinals' = Ordinals /\ UNCHANGED <<stage, err, batches, nextOrdinal>>
    BY <1>5, Zenon DEF RotatorDrop, Ordinals
  <2>2. StagesSound' /\ GroupSound' /\ FailedSound'
    BY <1>1, <1>2, <2>1, Zenon DEF EmitFrame, StagesSound, GroupSound, FailedSound
  <2>3. HandoffSound'
    BY <1>1, <1>2, <1>5, <2>1, Zenon DEF EmitFrame, HandoffSound, RotatorDrop, AfterEmit
  <2>4. \A m \in Msgs : watch'[m] = "nil" => watch[m] = "nil"
    BY <1>5, Zenon DEF RotatorDrop, WatchersResolved, TypeOK, AppendTypes
  <2>5. WatchersSound'
    BY <1>2, <2>1, <2>4, Zenon DEF WatchersSound
  <2> QED
    BY <1>3, <2>2, <2>3, <2>5, Zenon DEF Durability
<1> QED
  BY <1>4, <1>5, Zenon

\* One batch moves through the encoders and uploaders.
LEMMA DurabilityMove ==
  ASSUME TypeOK, Durability, WorkFrame,
         NEW o \in Ordinals,
         stage[o] \in {"pending", "encoding", "uploading"},
         stage'[o] \in {"encoding", "uploading", "completed"},
         \A p \in Ordinals \ {o} : stage'[p] = stage[p] /\ err'[p] = err[p],
         objects \subseteq objects',
         (stage'[o] = "completed" /\ err'[o] = "nil") => o \in objects',
         rpc' # "send" \/ (rpc' = rpc /\ stage[o] # "pending")
  PROVE  Durability'
<1>1. /\ Ordinals' = Ordinals
      /\ UNCHANGED <<batches, watch, nextOrdinal, cpc, group, failed, snap, vpc, cur,
                     manifest, version>>
  BY Zenon DEF WorkFrame, Ordinals
<1>2. GroupSound /\ FailedSound /\ StagesSound /\ HandoffSound /\ WatchersSound
  BY Zenon DEF Durability
<1>3. SnapshotSound' /\ EntriesHaveObjects'
  BY <1>1, Zenon DEF Durability, SnapshotSound, EntriesHaveObjects
<1>4. StagesSound'
  BY <1>1, <1>2, Zenon DEF StagesSound
<1>5. GroupSound'
  BY <1>1, <1>2, Zenon DEF GroupSound
<1>6. FailedSound'
  BY <1>1, <1>2, Zenon DEF FailedSound
<1>7. HandoffSound'
  BY <1>1, <1>2 DEF HandoffSound, Ordinals, TypeOK, RotatorTypes
<1>8. WatchersSound'
  BY <1>1, <1>2 DEF WatchersSound
<1> QED
  BY <1>3, <1>4, <1>5, <1>6, <1>7, <1>8, Zenon DEF Durability

\* Encoding, uploading and failing a batch move it one stage on.
LEMMA DurabilityWork ==
  ASSUME TypeOK, Durability,
         \/ Encoders
         \/ \E o \in Ordinals : UploadStep(o)
         \/ UploaderPoolExit
  PROVE  Durability'
<1>1. stage \in [Ordinals -> Stages] /\ err \in [Ordinals -> Errors]
  BY Zenon DEF TypeOK, BatchTypes
<1>2. CASE EncoderReceive
  <2>1. /\ nextOrdinal - 1 \in Ordinals /\ stage[nextOrdinal - 1] = "pending"
    BY <1>2 DEF EncoderReceive, Durability, HandoffSound, Ordinals, TypeOK, RotatorTypes
  <2> QED
    BY <1>1, <1>2, <2>1, DurabilityMove, Zenon DEF EncoderReceive, AfterEmit
<1>3. ASSUME NEW o \in Ordinals, EncoderSend(o) PROVE Durability'
  BY <1>1, <1>3, DurabilityMove, Zenon DEF EncoderSend
<1>4. ASSUME NEW o \in Ordinals, EncoderFails(o) PROVE Durability'
  BY <1>1, <1>4, DurabilityMove, Zenon DEF EncoderFails, Complete
<1>5. ASSUME NEW o \in Ordinals, UploadOk(o) PROVE Durability'
  BY <1>1, <1>5, DurabilityMove, Zenon DEF UploadOk, Complete
<1>6. ASSUME NEW o \in Ordinals, UploadFails(o) PROVE Durability'
  BY <1>1, <1>6, DurabilityMove, Zenon DEF UploadFails, Complete
<1>7. ASSUME NEW o \in Ordinals, UploadAborted(o) PROVE Durability'
  BY <1>1, <1>7, DurabilityMove, Zenon DEF UploadAborted, Complete
<1>8. CASE EncoderPoolExit \/ UploaderPoolExit
  BY <1>8, DurabilityFrame, Zenon DEF EncoderPoolExit, UploaderPoolExit, WorkFrame
<1> QED
  BY <1>2, <1>3, <1>4, <1>5, <1>6, <1>7, <1>8, Zenon DEF Encoders, UploadStep

\* What a step of the committer leaves alone: the batches that are not yet
\* completed, and those of the resolver.
CommitterKeeps ==
  /\ Ordinals' = Ordinals
  /\ UNCHANGED <<rpc, nextOrdinal, batches, watch>>
  /\ \A o \in Ordinals : stage[o] \in {"pending", "resolving", "done"} =>
       stage'[o] = stage[o] /\ err'[o] = err[o]

\* A committer step keeps what the watchers were told and what the resolver holds.
LEMMA DurabilityKept ==
  ASSUME TypeOK, Durability, CommitterKeeps
  PROVE  /\ WatchersSound'
         /\ UNCHANGED <<vpc, cur>> => HandoffSound'
<1>1. HandoffSound /\ WatchersSound /\ nextOrdinal \in Nat
  BY Zenon DEF Durability, TypeOK, RotatorTypes
<1>2. WatchersSound'
  BY <1>1 DEF CommitterKeeps, WatchersSound
<1>3. UNCHANGED <<vpc, cur>> => HandoffSound'
  BY <1>1 DEF CommitterKeeps, HandoffSound, Ordinals
<1> QED
  BY <1>2, <1>3, Zenon

\* Grouping, halting and handing over: a batch is handed over as
\* committed only after its group is in the manifest.
LEMMA DurabilityDrain == ASSUME TypeOK, Durability, CommitterLocal PROVE Durability'
<1> USE DEF CommitterKeeps
<1>1. DrainFrame
  BY Zenon DEF CommitterLocal, CommitterGather, CommitterReceiveHalted, CommitterClosed,
         CommitterTake, CommitterTaken, CommitterRetry, CommitterAborted,
         CommitterResolve, CommitterResolved
<1>2. /\ Ordinals' = Ordinals
      /\ UNCHANGED <<rpc, nextOrdinal, batches, watch, objects, manifest, version, snap>>
  BY <1>1, Zenon DEF DrainFrame, Ordinals
<1>3. SnapshotSound' /\ EntriesHaveObjects'
  BY <1>2, Zenon DEF Durability, SnapshotSound, EntriesHaveObjects
<1>4. stage \in [Ordinals -> Stages] /\ err \in [Ordinals -> Errors]
  BY Zenon DEF TypeOK, BatchTypes
<1>5. StagesSound /\ GroupSound /\ FailedSound /\ HandoffSound
  BY Zenon DEF Durability
<1>6. CASE CommitterGather
  <2>1. /\ \A o \in Ordinals :
             /\ stage'[o] = IF stage[o] = "completed" THEN "ready" ELSE stage[o]
             /\ err'[o] = err[o]
        /\ UNCHANGED <<group, failed, vpc, cur>> /\ cpc' = "drain"
    BY <1>4, <1>6, Zenon DEF CommitterGather
  <2>2. StagesSound' /\ GroupSound' /\ FailedSound'
    <3>1. StagesSound'
      BY <1>2, <1>5, <2>1 DEF StagesSound
    <3>2. GroupSound' /\ FailedSound'
      BY <1>2, <1>5, <2>1 DEF GroupSound, FailedSound
    <3> QED
      BY <3>1, <3>2
  <2>3. WatchersSound' /\ HandoffSound'
    BY <1>2, <2>1, DurabilityKept, Zenon
  <2> QED
    BY <1>3, <2>2, <2>3, Zenon DEF Durability
<1>7. ASSUME NEW o \in Ordinals, CommitterReceiveHalted(o) PROVE Durability'
  <2>1. /\ stage[o] = "completed" /\ stage'[o] = "abandoned" /\ err'[o] = "ErrProducerHalted"
        /\ \A p \in Ordinals \ {o} : stage'[p] = stage[p] /\ err'[p] = err[p]
        /\ UNCHANGED <<group, failed, vpc, cur>> /\ cpc = "recv" /\ cpc' = "resolve"
    BY <1>4, <1>7, Zenon DEF CommitterReceiveHalted
  <2>2. StagesSound' /\ GroupSound' /\ FailedSound'
    <3>1. StagesSound'
      BY <1>2, <1>5, <2>1 DEF StagesSound
    <3>2. GroupSound' /\ FailedSound'
      BY <1>2, <1>5, <2>1 DEF GroupSound, FailedSound
    <3> QED
      BY <3>1, <3>2
  <2>3. WatchersSound' /\ HandoffSound'
    BY <1>2, <2>1, DurabilityKept, Zenon
  <2> QED
    BY <1>3, <2>2, <2>3, Zenon DEF Durability
<1>8. CASE CommitterClosed \/ CommitterTaken \/ CommitterRetry \/ CommitterResolved
  <2>1. /\ UNCHANGED <<stage, err, group, failed, vpc, cur>>
        /\ cpc' \in {"recv", "resolve"} => group = <<>>
    BY <1>8, Zenon DEF CommitterClosed, CommitterTaken, CommitterRetry, CommitterResolved
  <2>2. StagesSound' /\ GroupSound' /\ FailedSound'
    <3>1. StagesSound'
      BY <1>2, <1>5, <2>1 DEF StagesSound
    <3>2. GroupSound' /\ FailedSound'
      BY <1>2, <1>5, <2>1 DEF GroupSound, FailedSound
    <3> QED
      BY <3>1, <3>2
  <2>3. WatchersSound' /\ HandoffSound'
    BY <1>2, <2>1, DurabilityKept, Zenon
  <2> QED
    BY <1>3, <2>2, <2>3, Zenon DEF Durability
<1>9. CASE CommitterAborted
  <2>1. /\ UNCHANGED <<stage, group, failed, vpc, cur>>
        /\ \A o \in Ordinals : err'[o] = IF o \in Range(group) THEN "ErrShutdown" ELSE err[o]
        /\ cpc' = "resolve"
    BY <1>9, Zenon DEF CommitterAborted
  <2>2. \A i \in DOMAIN group : group[i] \in Range(group)
    BY Zenon DEF Range
  <2>3. \A o \in Range(group) : o \in Ordinals /\ stage[o] = "group"
    BY <1>5 DEF Range, GroupSound
  <2>4. StagesSound'
    BY <1>2, <1>5, <2>1, <2>3, Zenon DEF StagesSound
  <2>5. GroupSound' /\ FailedSound'
    BY <1>2, <1>5, <2>1, <2>2, Zenon DEF GroupSound, FailedSound
  <2>6. WatchersSound' /\ HandoffSound'
    BY <1>2, <2>1, <2>3, DurabilityKept, Zenon
  <2> QED
    BY <1>3, <2>4, <2>5, <2>6, Zenon DEF Durability
<1>10. CASE CommitterTake
  <2>1. /\ next \in Ordinals /\ stage[next] = "ready"
        /\ UNCHANGED <<err, cpc, vpc, cur>> /\ cpc = "drain"
        /\ \A o \in Ordinals \ {next} : stage'[o] = stage[o]
    BY <1>4, <1>10, Zenon DEF CommitterTake, NextIsReady, TakeReady
  <2>2. group \in Seq(Nat) /\ failed \in Seq(Nat)
    BY Zenon DEF TypeOK, CommitterTypes
  <2>3. WatchersSound' /\ HandoffSound'
    BY <1>2, <2>1, DurabilityKept, Zenon
  <2>4. CASE err[next] = "nil"
    <3>1. stage'[next] = "group" /\ group' = Append(group, next) /\ failed' = failed
      BY <1>4, <1>10, <2>1, <2>4, Zenon DEF CommitterTake, TakeReady
    <3>2. /\ DOMAIN group = 1 .. Len(group) /\ DOMAIN group' = 1 .. Len(group) + 1
          /\ \A i \in 1 .. Len(group) : group'[i] = group[i]
          /\ group'[Len(group) + 1] = next /\ Len(group) \in Nat
      BY <2>2, <3>1
    <3>3. next \in objects
      BY <1>5, <2>1, <2>4, Zenon DEF StagesSound
    <3>4. StagesSound'
      BY <1>2, <1>5, <2>1, <3>1, Zenon DEF StagesSound
    <3>8. FailedSound'
      BY <1>2, <1>5, <2>1, <3>1, Zenon DEF FailedSound
    <3>5. \A i \in DOMAIN group' :
            group'[i] \in Ordinals \cap objects /\ stage'[group'[i]] = "group"
      BY <1>2, <1>5, <2>1, <3>1, <3>2, <3>3 DEF GroupSound
    <3>6. \A i, j \in DOMAIN group' : group'[i] = group'[j] => i = j
      BY <1>5, <2>1, <3>2 DEF GroupSound
    <3>7. GroupSound'
      BY <1>2, <2>1, <3>5, <3>6, Zenon DEF GroupSound
    <3> QED
      BY <1>3, <2>3, <3>4, <3>7, <3>8, Zenon DEF Durability
  <2>5. CASE err[next] # "nil"
    <3>1. stage'[next] = "failed" /\ failed' = Append(failed, next) /\ group' = group
      BY <1>4, <1>10, <2>1, <2>5, Zenon DEF CommitterTake, TakeReady
    <3>2. /\ DOMAIN failed = 1 .. Len(failed) /\ DOMAIN failed' = 1 .. Len(failed) + 1
          /\ \A i \in 1 .. Len(failed) : failed'[i] = failed[i]
          /\ failed'[Len(failed) + 1] = next /\ Len(failed) \in Nat
      BY <2>2, <3>1, SMTT(30)
    <3>3. StagesSound' /\ GroupSound'
      BY <1>2, <1>5, <2>1, <2>5, <3>1, Zenon DEF StagesSound, GroupSound
    <3>4. \A i \in DOMAIN failed' : failed'[i] \in Ordinals /\ stage'[failed'[i]] = "failed"
      BY <1>2, <1>5, <2>1, <3>1, <3>2 DEF FailedSound
    <3>5. \A i, j \in DOMAIN failed' : failed'[i] = failed'[j] => i = j
      BY <1>5, <2>1, <3>2 DEF FailedSound
    <3>6. FailedSound'
      BY <1>2, <3>4, <3>5, Zenon DEF FailedSound
    <3> QED
      BY <1>3, <2>3, <3>3, <3>6, Zenon DEF Durability
  <2> QED
    BY <2>4, <2>5, Zenon
<1>11. CASE CommitterResolve
  <2>1. group \in Seq(Nat) /\ failed \in Seq(Nat) /\ cpc = "resolve" /\ UNCHANGED <<err, cpc>>
    BY <1>11, Zenon DEF CommitterResolve, TypeOK, CommitterTypes
  <2>2. \A s \in Seq(Nat) : s # <<>> =>
          /\ DOMAIN s = 1 .. Len(s) /\ Len(s) \in Nat \ {0} /\ Head(s) = s[1]
          /\ DOMAIN Tail(s) = 1 .. Len(s) - 1
          /\ \A i \in 1 .. Len(s) - 1 : Tail(s)[i] = s[i + 1]
    OBVIOUS
  <2>3. ASSUME NEW o \in Ordinals, Resolve(o), stage[o] \in {"group", "failed", "abandoned"},
               err[o] = "nil" => o \in Range(manifest) \cap objects
        PROVE  /\ StagesSound' /\ HandoffSound' /\ WatchersSound'
               /\ \A p \in Ordinals \ {o} : stage'[p] = stage[p]
    <3>1. stage'[o] = "resolving" /\ \A p \in Ordinals \ {o} : stage'[p] = stage[p]
      BY <1>4, <2>3, Zenon DEF Resolve
    <3>2. StagesSound'
      BY <1>2, <1>5, <2>1, <2>3, <3>1, Zenon DEF StagesSound
    <3>3. WatchersSound'
      BY <1>2, <2>1, <2>3, <3>1, DurabilityKept, Zenon
    <3>4. HandoffSound'
      BY <1>2, <1>5, <2>3, <3>1 DEF HandoffSound, Resolve, Ordinals, TypeOK, RotatorTypes
    <3> QED
      BY <3>1, <3>2, <3>3, <3>4, Zenon
  <2>4. CASE group # <<>> /\ Resolve(Head(group)) /\ group' = Tail(group) /\ failed' = failed
    <3> DEFINE o == Head(group)
    <3>1. /\ o \in Ordinals \cap objects /\ stage[o] = "group"
          /\ err[o] = "nil" => o \in Range(manifest)
      BY <1>5, <2>1, <2>2, <2>4, SMTT(30) DEF GroupSound
    <3>2. /\ StagesSound' /\ HandoffSound' /\ WatchersSound'
          /\ \A p \in Ordinals \ {o} : stage'[p] = stage[p]
      BY <2>3, <2>4, <3>1, Zenon
    <3>3. \A i \in DOMAIN group' :
            i + 1 \in DOMAIN group /\ group'[i] = group[i + 1] /\ group'[i] # o
      BY <1>5, <2>1, <2>2, <2>4, TailOfDistinct, Zenon DEF GroupSound
    <3>4. \A i, j \in DOMAIN group' : group'[i] = group'[j] => i = j
      BY <1>5, <2>1, <2>2, <2>4, TailOfDistinct, Zenon DEF GroupSound
    <3>5. GroupSound'
      BY <1>2, <1>5, <2>1, <3>2, <3>3, <3>4, SMTT(30) DEF GroupSound
    <3>6. FailedSound'
      BY <1>2, <1>5, <2>4, <3>1, <3>2, Zenon DEF FailedSound
    <3> QED
      BY <1>3, <3>2, <3>5, <3>6, Zenon DEF Durability
  <2>5. CASE /\ failed # <<>> /\ group = <<>>
             /\ Resolve(Head(failed)) /\ failed' = Tail(failed) /\ group' = group
    <3> DEFINE o == Head(failed)
    <3>1. o \in Ordinals /\ stage[o] = "failed" /\ err[o] # "nil"
      BY <1>5, <2>1, <2>2, <2>5 DEF FailedSound, StagesSound
    <3>2. /\ StagesSound' /\ HandoffSound' /\ WatchersSound'
          /\ \A p \in Ordinals \ {o} : stage'[p] = stage[p]
      BY <2>3, <2>5, <3>1, Zenon
    <3>3. \A i \in DOMAIN failed' :
            i + 1 \in DOMAIN failed /\ failed'[i] = failed[i + 1] /\ failed'[i] # o
      BY <1>5, <2>1, <2>2, <2>5, TailOfDistinct, Zenon DEF FailedSound
    <3>4. \A i, j \in DOMAIN failed' : failed'[i] = failed'[j] => i = j
      BY <1>5, <2>1, <2>2, <2>5, TailOfDistinct, Zenon DEF FailedSound
    <3>5. FailedSound'
      BY <1>2, <1>5, <3>2, <3>3, <3>4 DEF FailedSound
    <3>6. GroupSound'
      BY <2>1, <2>5 DEF GroupSound
    <3> QED
      BY <1>3, <3>2, <3>5, <3>6, Zenon DEF Durability
  <2>6. ASSUME NEW o \in Ordinals, stage[o] = "abandoned", Resolve(o), UNCHANGED <<group, failed>>
        PROVE  Durability'
    <3>1. /\ StagesSound' /\ HandoffSound' /\ WatchersSound'
          /\ \A p \in Ordinals \ {o} : stage'[p] = stage[p]
      BY <1>5, <2>3, <2>6, Zenon DEF StagesSound
    <3>2. GroupSound'
      BY <1>2, <1>5, <2>1, <2>6, <3>1, Zenon DEF GroupSound
    <3>3. FailedSound'
      BY <1>2, <1>5, <2>6, <3>1, Zenon DEF FailedSound
    <3> QED
      BY <1>3, <3>1, <3>2, <3>3, Zenon DEF Durability
  <2> QED
    BY <1>11, <2>4, <2>5, <2>6, Zenon DEF CommitterResolve, In
<1> QED
  BY <1>6, <1>7, <1>8, <1>9, <1>10, <1>11, Zenon DEF CommitterLocal

\* PutIfMatch of the committer adds its group and keeps what was there.
LEMMA WriteManifestGrows ==
  ASSUME TypeOK, Durability, WriteManifest, CasFrame, snap' = snap
  PROVE  /\ Range(manifest') = Range(manifest) \cup Range(group)
         /\ SnapshotSound' /\ EntriesHaveObjects'
<1>1. /\ group \in Seq(Nat) /\ manifest \in Seq(Nat \cup {Other})
      /\ version \in Nat /\ snap.version \in Nat
  BY Zenon DEF TypeOK, CommitterTypes, StoreTypes
<1>2. manifest' = manifest \o group /\ version' = version + 1 /\ objects' = objects
  <2>1. snap.data = manifest
    BY Zenon DEF Durability, SnapshotSound, WriteManifest
  <2> QED
    BY <2>1, Zenon DEF WriteManifest, CasFrame
<1>3. group \in Seq(Nat \cup {Other})
  BY <1>1
<1>4. Range(manifest') = Range(manifest) \cup Range(group)
  BY <1>1, <1>2, <1>3, RangeOfConcatenation
<1>5. Range(group) \subseteq objects
  BY Zenon DEF Durability, GroupSound, Range
<1>6. EntriesHaveObjects'
  BY <1>2, <1>4, <1>5, Zenon DEF Durability, EntriesHaveObjects
<1>7. SnapshotSound'
  BY <1>1, <1>2 DEF Durability, SnapshotSound
<1> QED
  BY <1>4, <1>6, <1>7, Zenon

\* The CAS steps: the group becomes durable before it is handed over.
LEMMA DurabilityCas == ASSUME TypeOK, Durability, CommitterStore PROVE Durability'
<1>1. CasFrame
  BY Zenon DEF CommitterStore, CommitterRead, CommitterReadFails, CommitterPut,
         CommitterConflict, CommitterPutFails
<1>2. /\ Ordinals' = Ordinals
      /\ UNCHANGED <<rpc, nextOrdinal, batches, watch, objects, group, failed, vpc, cur>>
  BY <1>1, Zenon DEF CasFrame, Ordinals
<1>3. StagesSound /\ GroupSound /\ FailedSound
  BY Zenon DEF Durability
<1>4. Range(manifest) \subseteq Range(manifest') /\ SnapshotSound' /\ EntriesHaveObjects'
  <2>1. CASE CommitterRead
    BY <1>2, <2>1 DEF CommitterRead, Durability, SnapshotSound, EntriesHaveObjects,
                      TypeOK, StoreTypes
  <2>2. CASE UNCHANGED <<snap, manifest, version>>
    BY <1>2, <2>2, Zenon DEF Durability, SnapshotSound, EntriesHaveObjects
  <2>3. CASE WriteManifest /\ snap' = snap
    BY <1>1, <2>3, WriteManifestGrows, Zenon
  <2> QED
    BY <2>1, <2>2, <2>3, Zenon DEF CommitterStore, CommitterReadFails, CommitterPut,
                            CommitterConflict, CommitterPutFails
<1>5. \A i \in DOMAIN group : group[i] \in Range(group)
  BY Zenon DEF Range
<1>6. \A o \in Range(group) : o \in Ordinals /\ stage[o] = "group"
  BY <1>3 DEF Range, GroupSound
<1>7. ASSUME UNCHANGED <<stage, err>>,
             cpc' = "resolve" => Range(group) \subseteq Range(manifest'), cpc' # "recv"
      PROVE  Durability'
  <2>1. StagesSound' /\ FailedSound'
    BY <1>2, <1>3, <1>4, <1>7, Zenon DEF StagesSound, FailedSound
  <2>2. GroupSound'
    BY <1>2, <1>3, <1>5, <1>7, Zenon DEF GroupSound
  <2>3. WatchersSound' /\ HandoffSound'
    BY <1>2, <1>7, DurabilityKept, Zenon DEF CommitterKeeps
  <2> QED
    BY <1>4, <2>1, <2>2, <2>3, Zenon DEF Durability
<1>8. CASE CommitterRead \/ CommitterConflict
  BY <1>7, <1>8, Zenon DEF CommitterRead, CommitterConflict
<1>9. CASE CommitterPut
  <2>1. WriteManifest /\ snap' = snap /\ UNCHANGED <<stage, err>>
    BY <1>9, Zenon DEF CommitterPut
  <2>2. Range(group) \subseteq Range(manifest')
    BY <1>1, <2>1, WriteManifestGrows, Zenon
  <2> QED
    BY <1>7, <1>9, <2>1, <2>2, Zenon DEF CommitterPut
<1>10. CASE CasAttemptFails
  <2>1. CASE casTries + 1 < ManifestMaxAttempts
    BY <1>7, <1>10, <2>1, Zenon DEF CasAttemptFails
  <2>2. CASE ~(casTries + 1 < ManifestMaxAttempts)
    <3>1. /\ \A o \in Ordinals :
               /\ stage'[o] = IF stage[o] = "ready" THEN "abandoned" ELSE stage[o]
               /\ err'[o] = IF o \in Range(group) \/ stage[o] = "ready"
                              THEN "ErrProducerHalted" ELSE err[o]
          /\ cpc' = "resolve"
      BY <1>10, <2>2, Zenon DEF CasAttemptFails, Halt, FailedByHalt
    <3>2. StagesSound'
      BY <1>2, <1>3, <1>4, <1>6, <3>1, Zenon DEF StagesSound
    <3>3. GroupSound' /\ FailedSound'
      BY <1>2, <1>3, <1>5, <3>1, Zenon DEF GroupSound, FailedSound
    <3>4. WatchersSound' /\ HandoffSound'
      BY <1>2, <1>6, <3>1, DurabilityKept, Zenon DEF CommitterKeeps
    <3> QED
      BY <1>4, <3>2, <3>3, <3>4, Zenon DEF Durability
  <2> QED
    BY <2>1, <2>2, Zenon
<1> QED
  BY <1>8, <1>9, <1>10, Zenon DEF CommitterStore, CommitterReadFails, CommitterPutFails

\* The resolver tells the watchers of a batch what was handed over.
LEMMA DurabilityResolver == ASSUME TypeOK, Durability, Resolver PROVE Durability'
<1>1. ResolverFrame
  BY Zenon DEF Resolver, ResolverObserve, ResolverWatchers, ResolverAck, ResolverRelease,
         ResolverExit
<1>2. /\ Ordinals' = Ordinals
      /\ UNCHANGED <<rpc, nextOrdinal, batches, err, cpc, group, failed, snap, cur,
                     objects, manifest, version>>
  BY <1>1, Zenon DEF ResolverFrame, Ordinals
<1>3. StagesSound /\ GroupSound /\ FailedSound /\ HandoffSound /\ WatchersSound
  BY Zenon DEF Durability
<1>4. SnapshotSound' /\ EntriesHaveObjects'
  BY <1>2, Zenon DEF Durability, SnapshotSound, EntriesHaveObjects
<1>5. CASE ResolverWatchers
  <2>1. /\ cur \in Ordinals /\ stage[cur] = "resolving" /\ stage' = stage
        /\ vpc' = "ack"
        /\ \A m \in Msgs : watch'[m] = "nil" =>
             watch[m] = "nil" \/ (m \in Range(batches[cur].msgs) /\ err[cur] = "nil")
    BY <1>3, <1>5, Zenon DEF ResolverWatchers, HandoffSound, WatchersResolved
  <2>2. StagesSound' /\ GroupSound' /\ FailedSound'
    BY <1>2, <1>3, <2>1, ZenonT(40) DEF StagesSound, GroupSound, FailedSound
  <2>3. HandoffSound' /\ WatchersSound'
    BY <1>2, <1>3, <2>1, Zenon DEF HandoffSound, WatchersSound
  <2> QED
    BY <1>4, <2>2, <2>3, Zenon DEF Durability
<1>6. CASE ResolverRelease
  <2>1. /\ cur \in Ordinals /\ stage[cur] = "resolving" /\ stage'[cur] = "done"
        /\ \A o \in Ordinals \ {cur} : stage'[o] = stage[o]
        /\ vpc' = "recv" /\ watch' = watch
    BY <1>3, <1>6, Zenon DEF ResolverRelease, HandoffSound, TypeOK, BatchTypes
  <2>2. StagesSound' /\ FailedSound'
    BY <1>2, <1>3, <2>1, ZenonT(40) DEF StagesSound, FailedSound
  <2>5. GroupSound'
    BY <1>2, <1>3, <2>1, Zenon DEF GroupSound
  <2>3. HandoffSound'
    BY <1>2, <1>3, <2>1, SMTT(30) DEF HandoffSound, Ordinals, TypeOK, RotatorTypes
  <2>4. WatchersSound'
    BY <1>2, <1>3, <2>1, SMTT(30) DEF WatchersSound
  <2> QED
    BY <1>4, <2>2, <2>3, <2>4, <2>5, Zenon DEF Durability
<1>7. CASE ResolverObserve \/ ResolverAck \/ ResolverExit
  <2>1. /\ UNCHANGED <<stage, watch>>
        /\ vpc' \notin {"recv", "done"} => vpc \notin {"recv", "done"}
    BY <1>7, Zenon DEF ResolverObserve, ResolverAck, ResolverExit
  <2>2. StagesSound' /\ GroupSound' /\ FailedSound'
    BY <1>2, <1>3, <2>1, Zenon DEF StagesSound, GroupSound, FailedSound
  <2>3. HandoffSound' /\ WatchersSound'
    BY <1>2, <1>3, <2>1, Zenon DEF HandoffSound, WatchersSound
  <2> QED
    BY <1>4, <2>2, <2>3, Zenon DEF Durability
<1> QED
  BY <1>5, <1>6, <1>7, Zenon DEF Resolver

\* A write of another producer adds an entry and keeps the others.
LEMMA DurabilityOther == ASSUME TypeOK, Durability, OtherWrite PROVE Durability'
<1>1. /\ manifest \in Seq(Nat \cup {Other}) /\ version \in Nat /\ snap.version \in Nat
      /\ manifest' = Append(manifest, Other) /\ version' = version + 1
  BY Zenon DEF OtherWrite, TypeOK, StoreTypes, CommitterTypes
<1>2. Range(manifest') = Range(manifest) \cup {Other}
  BY <1>1 DEF Range
<1>3. /\ Ordinals' = Ordinals
      /\ UNCHANGED <<rpc, nextOrdinal, batches, stage, err, watch, cpc, group, failed,
                     snap, vpc, cur, objects>>
  BY Zenon DEF OtherWrite, Ordinals
<1>4. SnapshotSound' /\ EntriesHaveObjects'
  BY <1>1, <1>2, <1>3, SMTT(30) DEF Durability, SnapshotSound, EntriesHaveObjects
<1>5. StagesSound' /\ GroupSound' /\ FailedSound'
  BY <1>2, <1>3, Zenon DEF Durability, StagesSound, GroupSound, FailedSound
<1>6. WatchersSound' /\ HandoffSound'
  BY <1>3, Zenon DEF Durability, WatchersSound, HandoffSound
<1> QED
  BY <1>4, <1>5, <1>6, Zenon DEF Durability

-----------------------------------------------------------------------------
\* Types and durability together are preserved by every step.
LEMMA Inductive == ASSUME TypeOK, Durability, [Next]_vars PROVE TypeOK' /\ Durability'
<1>1. ASSUME NEW m \in Msgs, AppendStart(m) \/ AppendStep(m) PROVE TypeOK' /\ Durability'
  <2>1. AppendFrame
    BY <1>1, Zenon DEF AppendStart, AppendStep, AppendReserve, AppendBlocks, AppendReserveFails, AppendSend,
                AppendSendOnClosed, AppendSendFails
  <2>2. Durability'
    BY <2>1, DurabilityFrame, Zenon DEF AppendFrame
  <2> QED
    BY <1>1, <2>2, AppendType, Zenon
<1>2. CASE Rotator
  <2>1. CASE RotatorAcquire \/ RotatorDrop
    BY <2>1, EmitType, DurabilityEmit, Zenon
  <2>2. CASE ~(RotatorAcquire \/ RotatorDrop)
    <3>1. SelectFrame /\ (rpc' # "send" \/ rpc' = rpc)
      BY <1>2, <2>2, Zenon DEF Rotator, RotatorReceive, RotatorClosed, RotatorTimer, RotatorFlush,
                        RotatorDrain, RotatorDrained, RotatorBlocks, Emit
    <3> QED
      BY <1>2, <2>2, <3>1, SelectType, DurabilitySelect, Zenon DEF Rotator
  <2> QED
    BY <2>1, <2>2, Zenon
<1>3. CASE Encoders \/ (\E o \in Ordinals : UploadStep(o)) \/ UploaderPoolExit
  BY <1>3, WorkType, DurabilityWork, Zenon
<1>4. CASE CommitterStore
  BY <1>4, CasType, DurabilityCas, Zenon
<1>5. CASE CommitterLocal
  BY <1>5, DrainType, DurabilityDrain, Zenon
<1>6. CASE Resolver
  BY <1>6, ResolverType, DurabilityResolver, Zenon
<1>7. CASE (\E f \in FlushCalls : FlushStart(f) \/ FlushStep(f)) \/ CloseStart
  <2>1. FlushFrame
    BY <1>7, Zenon DEF FlushStart, FlushStep, FlushAck, FlushDrained, FlushBlocks, FlushShutdown, FlushCtx,
                CloseStart
  <2> QED
    BY <1>7, <2>1, FlushType, DurabilityFrame, Zenon DEF FlushFrame
<1>8. CASE CloseCtxFires \/ Close
  <2>1. CloseFrame
    BY <1>8, Zenon DEF CloseCtxFires, Close, CloseAppendCh, CloseDone, CloseCancel, CloseForced
  <2> QED
    BY <1>8, <2>1, CloseType, DurabilityFrame, Zenon DEF CloseFrame
<1>9. CASE OtherWrite
  BY <1>9, OtherType, DurabilityOther, Zenon
<1>10. CASE UNCHANGED vars
  BY <1>10, AppendTypesKept, RotatorTypesKept, BatchTypesKept, CommitterTypesKept,
     ResolverTypesKept, StoreTypesKept, FlushTypesKept, CloseTypesKept, DurabilityFrame, Zenon
  DEF vars, TypeOK
<1> QED
  BY <1>1, <1>2, <1>3, <1>4, <1>5, <1>6, <1>7, <1>8, <1>9, <1>10, Zenon DEF Next, Terminated

\* Every reachable state is well typed.
THEOREM TypeCorrect == Spec => []TypeOK
<1>1. Init => TypeOK /\ Durability
  BY TypeInit, DurabilityInit, Zenon
<1>2. TypeOK /\ Durability /\ [Next]_vars => TypeOK' /\ Durability'
  BY Inductive, Zenon
<1> QED
  BY <1>1, <1>2, PTL DEF Spec

\* The inductive invariant of the durability argument.
THEOREM DurabilityInvariant == Spec => []Durability
<1>1. Init => TypeOK /\ Durability
  BY TypeInit, DurabilityInit, Zenon
<1>2. TypeOK /\ Durability /\ [Next]_vars => TypeOK' /\ Durability'
  BY Inductive, Zenon
<1> QED
  BY <1>1, <1>2, PTL DEF Spec

\* A watcher that resolves without an error belongs to a durable batch, for
\* any number of messages, batches, retries and other producers.
THEOREM AckedAreDurable == Spec => []AckedIsDurable
<1>1. Durability => AckedIsDurable
  <2> SUFFICES ASSUME Durability, NEW m \in Msgs, watch[m] = "nil"
               PROVE  \E o \in Ordinals : /\ m \in Range(batches[o].msgs)
                                          /\ o \in Range(manifest) \cap objects
    BY Zenon DEF AckedIsDurable
  <2> QED
    BY Zenon DEF Durability, WatchersSound, StagesSound
<1> QED
  BY <1>1, DurabilityInvariant, PTL

\* No manifest entry of this producer refers to a missing object.
THEOREM ManifestIsSound == Spec => []EntriesHaveObjects
<1>1. Durability => EntriesHaveObjects
  BY Zenon DEF Durability
<1> QED
  BY <1>1, DurabilityInvariant, PTL

-----------------------------------------------------------------------------
(* Where batches are, who moves them on, in which order goroutines exit *)

\* Nothing is in flight when the producer starts.
LEMMA PipelineInit == Init => PipelineFlow
<1> SUFFICES ASSUME Init PROVE PipelineFlow
  OBVIOUS
<1>1. Ordinals = {}
  BY DEF Init, Ordinals
<1> QED
  BY <1>1 DEF Init, PipelineFlow, RotatorFlow, StageFlow, CommitterFlow, ExitFlow, EmptyAcc

\* A step that leaves the rotator and Close alone.
LEMMA RotatorFlowKept ==
  RotatorFlow /\ UNCHANGED <<appendCh, appendClosed, rpc, acc, rexit, clpc, shutdown>>
    => RotatorFlow'
BY DEF RotatorFlow

\* A step that leaves the batches, the committer and the pools alone; the
\* rotator neither takes up a batch, nor goes on when it has ended.
LEMMA BatchesKept ==
  ASSUME TypeOK, PipelineFlow,
         UNCHANGED <<stage, nextOrdinal, encodersDone, uploadersDone, commitVars, vpc,
                     cur>>,
         rpc' = rpc \/ rpc \notin {"send", "done"}
  PROVE  StageFlow' /\ CommitterFlow' /\ ExitFlow'
<1>1. Ordinals' = Ordinals
  BY Zenon DEF Ordinals
<1>2. StageFlow' /\ CommitterFlow'
  BY <1>1, Zenon DEF PipelineFlow, StageFlow, CommitterFlow
<1>3. ExitFlow'
  BY <1>1, Zenon DEF PipelineFlow, ExitFlow, In
<1> QED
  BY <1>2, <1>3, Zenon

\* AppendContext sends only while appendCh is open.
LEMMA PipelineAppend ==
  ASSUME TypeOK, PipelineFlow, NEW m \in Msgs, AppendStart(m) \/ AppendStep(m)
  PROVE  PipelineFlow'
<1>1. AppendFrame
  BY Zenon DEF AppendStart, AppendStep, AppendReserve, AppendBlocks, AppendReserveFails, AppendSend,
         AppendSendOnClosed, AppendSendFails
<1>2. StageFlow' /\ CommitterFlow' /\ ExitFlow'
  BY <1>1, BatchesKept, Zenon DEF AppendFrame
<1>3. appendCh' = appendCh \/ ~appendClosed
  BY Zenon DEF AppendStart, AppendStep, AppendReserve, AppendBlocks, AppendReserveFails, AppendSend,
         AppendSendOnClosed, AppendSendFails
<1>4. RotatorFlow'
  BY <1>1, <1>3, Zenon DEF AppendFrame, PipelineFlow, RotatorFlow
<1> QED
  BY <1>2, <1>4, Zenon DEF PipelineFlow

\* The rotator ends only when appendCh is closed and empty.
LEMMA PipelineSelect ==
  ASSUME TypeOK, PipelineFlow,
         \/ RotatorReceive \/ RotatorClosed \/ RotatorTimer
         \/ \E f \in FlushCalls : RotatorFlush(f)
         \/ RotatorDrain \/ RotatorDrained \/ RotatorBlocks
  PROVE  PipelineFlow'
<1>1. SelectFrame /\ (rpc = "select" \/ rpc = "drain" \/ rpc = "slot")
  BY Zenon DEF RotatorReceive, RotatorClosed, RotatorTimer, RotatorFlush, RotatorDrain,
               RotatorDrained, RotatorBlocks
<1>2. StageFlow' /\ CommitterFlow' /\ ExitFlow'
  BY <1>1, BatchesKept, Zenon DEF SelectFrame
<1>3. RotatorFlow /\ UNCHANGED <<appendClosed, clpc, shutdown>>
  BY <1>1, Zenon DEF SelectFrame, PipelineFlow
<1>4. ASSUME RotatorReceive \/ RotatorDrain PROVE RotatorFlow'
  BY <1>1, <1>3, <1>4 DEF RotatorReceive, RotatorDrain, ReceiveAppend, Emit, RotatorFlow
<1>5. ASSUME RotatorClosed PROVE RotatorFlow'
  BY <1>1, <1>3, <1>5, Zenon DEF RotatorClosed, Emit, RotatorFlow
<1>6. ASSUME RotatorTimer \/ (\E f \in FlushCalls : RotatorFlush(f)) PROVE RotatorFlow'
  BY <1>1, <1>3, <1>6, Zenon DEF RotatorTimer, RotatorFlush, Emit, RotatorFlow
<1>7. ASSUME RotatorDrained \/ RotatorBlocks PROVE RotatorFlow'
  BY <1>1, <1>3, <1>7 DEF RotatorDrained, RotatorBlocks, RotatorFlow
<1> QED
  BY <1>2, <1>4, <1>5, <1>6, <1>7, Zenon DEF PipelineFlow

\* emit puts a batch into a free slot, or drops it.
LEMMA PipelineEmit ==
  ASSUME TypeOK, PipelineFlow, RotatorAcquire \/ RotatorDrop
  PROVE  PipelineFlow'
<1>1. EmitFrame /\ rpc \in {"slot", "blocked"}
  BY Zenon DEF RotatorAcquire, RotatorDrop
<1>2. RotatorFlow'
  BY <1>1, Zenon DEF EmitFrame, EmptyAcc, RotatorAcquire, RotatorDrop, AfterEmit, PipelineFlow,
              RotatorFlow
<1>3. CASE RotatorDrop
  BY <1>1, <1>2, <1>3, BatchesKept, Zenon DEF EmitFrame, RotatorDrop, PipelineFlow
<1>4. CASE RotatorAcquire
  <2>1. /\ nextOrdinal \in Nat /\ Ordinals' = Ordinals \cup {nextOrdinal}
        /\ nextOrdinal \notin Ordinals
        /\ nextOrdinal' = nextOrdinal + 1
    BY <1>4 DEF RotatorAcquire, Ordinals, TypeOK, RotatorTypes
  <2>2. \A o \in Ordinals : stage'[o] = stage[o]
    BY <1>4, <2>1 DEF RotatorAcquire, WithNext, Ordinals
  <2>3. stage'[nextOrdinal] = "pending" /\ rpc' = "send"
    BY <1>4, <2>1 DEF RotatorAcquire, WithNext
  <2>4. \A o \in Ordinals : stage[o] # "pending"
    BY <1>1, Zenon DEF PipelineFlow, StageFlow
  <2>5. StageFlow'
    <3>1. nextOrdinal' - 1 = nextOrdinal /\ UNCHANGED <<halted, group, failed, cpc, cur, vpc>>
      BY <1>1, <2>1 DEF EmitFrame
    <3> QED
      BY <2>1, <2>2, <2>3, <2>4, <3>1, Zenon DEF PipelineFlow, StageFlow
  <2>6. CommitterFlow'
    <3>1. /\ UNCHANGED <<halted, group, failed, cpc, next>>
          /\ next \in Nat /\ next <= nextOrdinal /\ next <= nextOrdinal'
          /\ ~(nextOrdinal < next)
      BY <1>1, <2>1 DEF EmitFrame, PipelineFlow, CommitterFlow, TypeOK, CommitterTypes
    <3> QED
      BY <2>1, <2>2, <2>3, <3>1, Zenon DEF PipelineFlow, CommitterFlow
  <2>7. ~encodersDone /\ ~uploadersDone /\ ~sawClosed /\ cpc # "done" /\ vpc # "done"
    BY <1>1, Zenon DEF PipelineFlow, ExitFlow
  <2>8. ExitFlow'
    BY <1>1, <2>7, Zenon DEF EmitFrame, ExitFlow
  <2> QED
    BY <1>2, <2>5, <2>6, <2>8, Zenon DEF PipelineFlow
<1> QED
  BY <1>3, <1>4, Zenon

\* One batch moves on to the next pool, or to the committer.
LEMMA PipelineMove ==
  ASSUME TypeOK, PipelineFlow, WorkFrame,
         NEW o \in Ordinals,
         stage[o] \in {"pending", "encoding", "uploading"},
         stage'[o] \in {"encoding", "uploading", "completed"},
         \A p \in Ordinals \ {o} : stage'[p] = stage[p],
         stage[o] = "pending" => ~encodersDone /\ o = nextOrdinal - 1,
         stage[o] # "pending" => rpc' = rpc /\ stage'[o] # "encoding",
         UNCHANGED <<encodersDone, uploadersDone>>
  PROVE  StageFlow' /\ CommitterFlow' /\ ExitFlow'
<1>1. /\ Ordinals' = Ordinals
      /\ UNCHANGED <<nextOrdinal, commitVars, vpc, cur>>
  BY Zenon DEF WorkFrame, Ordinals
<1>2. StageFlow'
  BY <1>1, Zenon DEF PipelineFlow, StageFlow
<1>3. CommitterFlow'
  BY <1>1, Zenon DEF PipelineFlow, CommitterFlow
<1>4. /\ encodersDone => stage[o] = "uploading"
      /\ ~uploadersDone /\ ~sawClosed /\ cpc # "done" /\ vpc # "done"
  BY Zenon DEF PipelineFlow, ExitFlow, In
<1>5. ExitFlow'
  BY <1>1, <1>4, Zenon DEF PipelineFlow, ExitFlow, In
<1> QED
  BY <1>2, <1>3, <1>5, Zenon

\* The pools leave in order, and a worker that holds a batch has not left.
LEMMA PipelineWork ==
  ASSUME TypeOK, Durability, PipelineFlow,
         \/ Encoders
         \/ \E o \in Ordinals : UploadStep(o)
         \/ UploaderPoolExit
  PROVE  PipelineFlow'
<1>1. stage \in [Ordinals -> Stages]
  BY Zenon DEF TypeOK, BatchTypes
<1>2. ASSUME NEW o \in Ordinals, EncoderSend(o) \/ EncoderFails(o) \/ UploadStep(o)
      PROVE  PipelineFlow'
  <2>1. /\ WorkFrame /\ stage[o] \in {"encoding", "uploading"}
        /\ UNCHANGED <<rpc, encodersDone, uploadersDone>>
    BY <1>2, Zenon DEF EncoderSend, EncoderFails, UploadStep, UploadOk, UploadFails, UploadAborted, Complete
  <2>2. \/ stage' = stage
        \/ \E s \in {"uploading", "completed"} : stage' = [stage EXCEPT ![o] = s]
    BY <1>2, Zenon DEF EncoderSend, EncoderFails, UploadStep, UploadOk, UploadFails, UploadAborted, Complete
  <2>3. RotatorFlow'
    BY <2>1, RotatorFlowKept, Zenon DEF WorkFrame, PipelineFlow
  <2>4. CASE stage' = stage
    BY <2>1, <2>3, <2>4, BatchesKept, Zenon DEF WorkFrame, PipelineFlow
  <2>5. ASSUME NEW s \in {"uploading", "completed"}, stage' = [stage EXCEPT ![o] = s]
        PROVE  PipelineFlow'
    <3>1. stage'[o] \in {"uploading", "completed"} /\ \A p \in Ordinals \ {o} : stage'[p] = stage[p]
      BY <1>1, <2>5, Zenon
    <3> QED
      BY <2>1, <2>3, <3>1, PipelineMove, Zenon DEF PipelineFlow
  <2> QED
    BY <2>2, <2>4, <2>5, Zenon
<1>3. CASE EncoderReceive
  <2> DEFINE o == nextOrdinal - 1
  <2>1. WorkFrame /\ rpc = "send" /\ UNCHANGED <<encodersDone, uploadersDone>>
    BY <1>3, Zenon DEF EncoderReceive
  <2>2. o \in Ordinals /\ stage[o] = "pending"
    BY <2>1 DEF Durability, HandoffSound, Ordinals, TypeOK, RotatorTypes
  <2>3. stage'[o] = "encoding" /\ \A p \in Ordinals \ {o} : stage'[p] = stage[p]
    BY <1>1, <1>3, <2>2, Zenon DEF EncoderReceive
  <2>4. ~encodersDone
    BY <2>1, Zenon DEF PipelineFlow, ExitFlow
  <2>5. StageFlow' /\ CommitterFlow' /\ ExitFlow'
    <3> HIDE DEF o
    <3> QED
      BY <2>1, <2>2, <2>3, <2>4, PipelineMove, Zenon DEF o
  <2>6. RotatorFlow'
    <3>1. RotatorFlow /\ rpc' = (IF rexit THEN "done" ELSE "select")
      BY <1>3, Zenon DEF EncoderReceive, AfterEmit, PipelineFlow
    <3>2. UNCHANGED <<appendCh, appendClosed, acc, rexit, clpc, shutdown>>
      BY <2>1, Zenon DEF WorkFrame
    <3> QED
      BY <2>1, <3>1, <3>2, Zenon DEF RotatorFlow
  <2> QED
    BY <2>5, <2>6, Zenon DEF PipelineFlow
<1>4. CASE EncoderPoolExit \/ UploaderPoolExit
  <2>1. WorkFrame /\ UNCHANGED <<rpc, stage>>
    BY <1>4, Zenon DEF EncoderPoolExit, UploaderPoolExit
  <2>2. Ordinals' = Ordinals
    BY <2>1, Zenon DEF WorkFrame, Ordinals
  <2>3. RotatorFlow'
    BY <2>1, RotatorFlowKept, Zenon DEF WorkFrame, PipelineFlow
  <2>4. /\ StageFlow /\ CommitterFlow /\ ExitFlow
        /\ UNCHANGED <<nextOrdinal, commitVars, vpc, cur>>
    BY <2>1, Zenon DEF WorkFrame, PipelineFlow
  <2>5. StageFlow' /\ CommitterFlow'
    BY <2>1, <2>2, <2>4, Zenon DEF StageFlow, CommitterFlow
  <2>6. \A s : In({s})' = In({s})
    BY <2>1, <2>2, Zenon DEF In
  <2>7. ASSUME EncoderPoolExit PROVE ExitFlow'
    <3>1. rpc = "done" /\ In({"encoding"}) = {} /\ UNCHANGED uploadersDone /\ ~encodersDone
      BY <2>7, Zenon DEF EncoderPoolExit
    <3>2. ~uploadersDone /\ ~sawClosed /\ cpc # "done" /\ vpc # "done"
      BY <2>4, <3>1, Zenon DEF ExitFlow
    <3> QED
      BY <2>1, <2>4, <2>6, <3>1, <3>2, Zenon DEF ExitFlow
  <2>8. ASSUME UploaderPoolExit PROVE ExitFlow'
    <3>1. encodersDone /\ In({"uploading"}) = {} /\ UNCHANGED encodersDone /\ ~uploadersDone
      BY <2>8, Zenon DEF UploaderPoolExit
    <3>2. ~sawClosed /\ cpc # "done" /\ vpc # "done"
      BY <2>4, <3>1, Zenon DEF ExitFlow
    <3> QED
      BY <2>1, <2>4, <2>6, <3>1, <3>2, Zenon DEF ExitFlow
  <2> QED
    BY <1>4, <2>3, <2>5, <2>7, <2>8, Zenon DEF PipelineFlow
<1> QED
  BY <1>2, <1>3, <1>4, Zenon DEF Encoders

\* The committer takes the ordinals in order, and leaves with nothing ready.
LEMMA PipelineDrain ==
  ASSUME TypeOK, Durability, PipelineFlow, CommitterLocal
  PROVE  PipelineFlow'
<1>1. DrainFrame
  BY Zenon DEF CommitterLocal, CommitterGather, CommitterReceiveHalted, CommitterClosed,
               CommitterTake, CommitterTaken, CommitterRetry, CommitterAborted,
               CommitterResolve, CommitterResolved
<1>2. /\ Ordinals' = Ordinals
      /\ UNCHANGED <<rpc, nextOrdinal, halted, encodersDone, uploadersDone>>
      /\ stage \in [Ordinals -> Stages]
      /\ next \in Nat /\ nextOrdinal \in Nat /\ group \in Seq(Nat) /\ failed \in Seq(Nat)
  BY <1>1, Zenon DEF DrainFrame, Ordinals, TypeOK, RotatorTypes, BatchTypes, CommitterTypes
<1>3. RotatorFlow'
  BY <1>1, RotatorFlowKept, Zenon DEF DrainFrame, PipelineFlow
<1>4. StageFlow /\ CommitterFlow /\ ExitFlow
  BY Zenon DEF PipelineFlow
<1>5. SUFFICES StageFlow' /\ CommitterFlow' /\ ExitFlow'
  BY <1>3, Zenon DEF PipelineFlow
<1>6. CASE CommitterGather
  <2>1. /\ UNCHANGED <<next, group, failed, vpc, cur>> /\ ~halted /\ cpc' = "drain"
        /\ sawClosed' = uploadersDone /\ vpc # "done"
        /\ \A o \in Ordinals :
             stage'[o] = IF stage[o] = "completed" THEN "ready" ELSE stage[o]
    BY <1>4, <1>6, Zenon DEF CommitterGather, ExitFlow
  <2>2. StageFlow' /\ CommitterFlow'
    BY <1>2, <1>4, <2>1, Zenon DEF StageFlow, CommitterFlow
  <2>3. ExitFlow'
    BY <1>2, <1>4, <2>1, Zenon DEF ExitFlow, In
  <2> QED
    BY <2>2, <2>3, Zenon
<1>7. ASSUME NEW o \in Ordinals, CommitterReceiveHalted(o)
      PROVE  StageFlow' /\ CommitterFlow' /\ ExitFlow'
  <2>1. /\ UNCHANGED <<next, group, failed, sawClosed, vpc, cur>> /\ halted /\ cpc' = "resolve"
        /\ cpc = "recv" /\ stage[o] = "completed" /\ stage'[o] = "abandoned"
        /\ \A p \in Ordinals \ {o} : stage'[p] = stage[p]
    BY <1>2, <1>7, Zenon DEF CommitterReceiveHalted
  <2>2. StageFlow' /\ CommitterFlow'
    BY <1>2, <1>4, <2>1 DEF StageFlow, CommitterFlow
  <2>3. ExitFlow'
    BY <1>2, <1>4, <2>1, Zenon DEF ExitFlow, In
  <2> QED
    BY <2>2, <2>3, Zenon
<1>8. CASE CommitterClosed
  <2>1. /\ UNCHANGED <<stage, next, group, failed, vpc, cur>> /\ sawClosed'
        /\ cpc = "recv" /\ uploadersDone /\ In({"completed"}) = {}
        /\ cpc' = IF halted THEN "done" ELSE "drain"
    BY <1>8, Zenon DEF CommitterClosed
  <2>2. StageFlow' /\ CommitterFlow'
    BY <1>2, <1>4, <2>1, Zenon DEF StageFlow, CommitterFlow
  <2>3. halted => In({"ready"}) = {}
    BY <1>4, Zenon DEF StageFlow, In
  <2>4. ExitFlow'
    BY <1>2, <1>4, <2>1, <2>3, Zenon DEF ExitFlow, In
  <2> QED
    BY <2>2, <2>4, Zenon
<1>9. CASE CommitterTake
  <2>1. /\ UNCHANGED <<cpc, sawClosed, vpc, cur>> /\ cpc = "drain" /\ next' = next + 1
        /\ next \in Ordinals /\ stage[next] = "ready" /\ stage'[next] \in {"group", "failed"}
        /\ \A p \in Ordinals \ {next} : stage'[p] = stage[p]
    BY <1>2, <1>9, Zenon DEF CommitterTake, NextIsReady, TakeReady
  <2>2. /\ Range(group) \subseteq Range(group') /\ Range(failed) \subseteq Range(failed')
        /\ stage'[next] = "group" => next \in Range(group')
        /\ stage'[next] = "failed" => next \in Range(failed')
    <3>1. /\ Range(Append(group, next)) = Range(group) \cup {next}
          /\ Range(Append(failed, next)) = Range(failed) \cup {next}
      BY <1>2, RangeOfAppend
    <3>2. CASE err[next] = "nil"
      <4>1. group' = Append(group, next) /\ failed' = failed /\ stage'[next] = "group"
        BY <1>2, <1>9, <2>1, <3>2, Zenon DEF CommitterTake, TakeReady
      <4> QED
        BY <3>1, <4>1, Zenon
    <3>3. CASE err[next] # "nil"
      <4>1. failed' = Append(failed, next) /\ group' = group /\ stage'[next] = "failed"
        BY <1>2, <1>9, <2>1, <3>3, Zenon DEF CommitterTake, TakeReady
      <4> QED
        BY <3>1, <4>1, Zenon
    <3> QED
      BY <3>2, <3>3, Zenon
  <2>3. ~halted
    BY <1>4, <2>1, Zenon DEF CommitterFlow
  <2>4. StageFlow'
    BY <1>2, <1>4, <2>1, <2>2, <2>3, Zenon DEF StageFlow
  <2>5. next' <= nextOrdinal /\ \A o \in Ordinals : o < next' <=> (o < next \/ o = next)
    BY <1>2, <2>1 DEF Ordinals
  <2>6. CommitterFlow'
    BY <1>2, <1>4, <2>1, <2>3, <2>5, Zenon DEF CommitterFlow
  <2>7. ExitFlow'
    <3>1. /\ In({"encoding"})' = In({"encoding"}) /\ In({"uploading"})' = In({"uploading"})
          /\ In({"completed"})' = In({"completed"})
      <4>1. \A p \in Ordinals, t \in {"encoding", "uploading", "completed"} :
              stage'[p] = t <=> stage[p] = t
        BY <2>1, Zenon
      <4> QED
        BY <1>2, <4>1, Zenon DEF In
    <3> QED
      BY <1>2, <1>4, <2>1, <3>1, Zenon DEF ExitFlow
  <2> QED
    BY <2>4, <2>6, <2>7, Zenon
<1>10. CASE CommitterTaken
  <2>1. /\ UNCHANGED <<stage, next, group, failed, sawClosed, vpc, cur>> /\ cpc = "drain"
        /\ cpc' \in {"recv", "done"} => group = <<>> /\ failed = <<>>
        /\ cpc' = "done" => sawClosed
        /\ ~(GroupHasRoom /\ NextIsReady)
    BY <1>10, Zenon DEF CommitterTaken
  <2>2. ~halted
    BY <1>4, <2>1, Zenon DEF CommitterFlow
  <2>3. StageFlow' /\ CommitterFlow'
    BY <1>2, <1>4, <2>1, <2>2, Zenon DEF StageFlow, CommitterFlow
  <2>4. ASSUME cpc' = "done" PROVE In({"ready"}) = {}
    <3>1. SUFFICES ASSUME NEW o \in Ordinals, stage[o] = "ready" PROVE FALSE
      BY Zenon DEF In
    <3>2. GroupHasRoom
      BY <2>1, <2>4, ConfigAssumption DEF GroupHasRoom
    <3>3. ~(o < next)
      BY <1>4, <3>1, Zenon DEF CommitterFlow
    <3>4. next \in Ordinals /\ ~(next < next)
      BY <1>2, <3>3 DEF Ordinals
    <3>5. stage[next] \notin {"encoding", "uploading", "completed", "pending"}
      BY <1>4, <2>1, <2>4, <3>4, Zenon DEF ExitFlow, StageFlow, In
    <3>6. stage[next] \notin {"group", "failed", "resolving", "done", "abandoned"}
      BY <1>4, <2>2, <3>4, Zenon DEF StageFlow, CommitterFlow
    <3> QED
      BY <1>2, <2>1, <3>2, <3>4, <3>5, <3>6, Zenon DEF NextIsReady, Stages
  <2>5. ExitFlow'
    BY <1>2, <1>4, <2>1, <2>4, Zenon DEF ExitFlow, In
  <2> QED
    BY <2>3, <2>5, Zenon
<1>11. CASE CommitterRetry \/ CommitterAborted
  <2>1. /\ UNCHANGED <<stage, next, group, failed, sawClosed, vpc, cur>> /\ cpc = "backoff"
        /\ cpc' \in {"read", "resolve"}
    BY <1>11, Zenon DEF CommitterRetry, CommitterAborted
  <2>2. StageFlow' /\ CommitterFlow'
    BY <1>2, <1>4, <2>1, Zenon DEF StageFlow, CommitterFlow
  <2>3. ExitFlow'
    BY <1>2, <1>4, <2>1, Zenon DEF ExitFlow, In
  <2> QED
    BY <2>2, <2>3, Zenon
<1>12. CASE CommitterResolve
  <2>1. /\ UNCHANGED <<cpc, next, sawClosed>> /\ cpc = "resolve" /\ vpc = "recv"
        /\ vpc' = "observe"
    BY <1>12, Zenon DEF CommitterResolve, Resolve
  <2>2. \E o \in Ordinals :
          /\ stage[o] \in {"group", "failed", "abandoned"} /\ cur' = o
          /\ stage' = [stage EXCEPT ![o] = "resolving"]
          /\ Range(group) \subseteq Range(group') \cup {o}
          /\ Range(failed) \subseteq Range(failed') \cup {o}
          /\ stage[o] = "abandoned" => halted
          /\ group' = group \/ stage[o] = "group"
          /\ failed' = failed \/ stage[o] = "failed"
    <3>1. CASE group # <<>>
      <4>1. Head(group) = group[1] /\ 1 \in DOMAIN group
        BY <1>2, <3>1
      <4>2. Head(group) \in Ordinals /\ stage[Head(group)] = "group"
        BY <4>1, Zenon DEF Durability, GroupSound
      <4>3. Range(group) = {Head(group)} \cup Range(Tail(group))
        BY <1>2, <3>1, RangeOfTail, Zenon
      <4>4. /\ stage[Head(group)] # "abandoned" /\ cur' = Head(group)
            /\ stage' = [stage EXCEPT ![Head(group)] = "resolving"]
            /\ group' = Tail(group) /\ failed' = failed
        BY <1>12, <3>1, <4>2, Zenon DEF CommitterResolve, Resolve
      <4> QED
        BY <4>2, <4>3, <4>4, Zenon
    <3>2. CASE group = <<>> /\ failed # <<>>
      <4>1. Head(failed) = failed[1] /\ 1 \in DOMAIN failed
        BY <1>2, <3>2
      <4>2. Head(failed) \in Ordinals /\ stage[Head(failed)] = "failed"
        BY <4>1, Zenon DEF Durability, FailedSound
      <4>3. Range(failed) = {Head(failed)} \cup Range(Tail(failed))
        BY <1>2, <3>2, RangeOfTail, Zenon
      <4>4. /\ stage[Head(failed)] # "abandoned" /\ cur' = Head(failed)
            /\ stage' = [stage EXCEPT ![Head(failed)] = "resolving"]
            /\ failed' = Tail(failed) /\ group' = group
        BY <1>12, <3>2, <4>2, Zenon DEF CommitterResolve, Resolve
      <4> QED
        BY <4>2, <4>3, <4>4, Zenon
    <3>3. CASE group = <<>> /\ failed = <<>>
      BY <1>4, <1>12, <3>3, Zenon DEF CommitterResolve, Resolve, In, StageFlow
    <3> QED
      BY <3>1, <3>2, <3>3, Zenon
  <2>3. PICK o \in Ordinals :
          /\ stage[o] \in {"group", "failed", "abandoned"} /\ cur' = o
          /\ stage' = [stage EXCEPT ![o] = "resolving"]
          /\ Range(group) \subseteq Range(group') \cup {o}
          /\ Range(failed) \subseteq Range(failed') \cup {o}
          /\ stage[o] = "abandoned" => halted
          /\ group' = group \/ stage[o] = "group"
          /\ failed' = failed \/ stage[o] = "failed"
    BY <2>2, Zenon
  <2>4. stage'[o] = "resolving" /\ \A p \in Ordinals \ {o} : stage'[p] = stage[p]
    BY <1>2, <2>3, Zenon
  <2>5. StageFlow'
    BY <1>2, <1>4, <2>1, <2>3, <2>4, Zenon DEF StageFlow
  <2>6. CommitterFlow'
    BY <1>2, <1>4, <2>1, <2>3, <2>4, Zenon DEF CommitterFlow
  <2>7. ExitFlow'
    BY <1>2, <1>4, <2>1, <2>4, Zenon DEF ExitFlow, In
  <2> QED
    BY <2>5, <2>6, <2>7, Zenon
<1>13. CASE CommitterResolved
  <2>1. /\ UNCHANGED <<stage, next, group, failed, sawClosed, vpc, cur>> /\ cpc = "resolve"
        /\ group = <<>> /\ failed = <<>> /\ In({"abandoned"}) = {}
        /\ cpc' = IF ~halted THEN "drain" ELSE IF sawClosed THEN "done" ELSE "recv"
    BY <1>13, Zenon DEF CommitterResolved
  <2>2. StageFlow' /\ CommitterFlow'
    BY <1>2, <1>4, <2>1, Zenon DEF StageFlow, CommitterFlow, In
  <2>3. halted => In({"ready"}) = {}
    BY <1>4, Zenon DEF StageFlow, In
  <2>4. ExitFlow'
    BY <1>2, <1>4, <2>1, <2>3, Zenon DEF ExitFlow, In
  <2> QED
    BY <2>2, <2>4, Zenon
<1> QED
  BY <1>6, <1>7, <1>8, <1>9, <1>10, <1>11, <1>12, <1>13, Zenon DEF CommitterLocal

\* The store calls leave every batch where it is, until a halt abandons the
\* ready ones.
LEMMA PipelineCas == ASSUME TypeOK, PipelineFlow, CommitterStore PROVE PipelineFlow'
<1>1. CasFrame
  BY Zenon DEF CommitterStore, CommitterRead, CommitterReadFails, CommitterPut,
               CommitterConflict, CommitterPutFails
<1>2. /\ Ordinals' = Ordinals
      /\ UNCHANGED <<rpc, nextOrdinal, encodersDone, uploadersDone, next, group, failed,
                     sawClosed, vpc, cur>>
  BY <1>1, Zenon DEF CasFrame, Ordinals
<1>3. /\ cpc \in {"read", "put"}
      /\ \/ UNCHANGED <<stage, halted>> /\ cpc' \in {"put", "backoff", "resolve", "read"}
         \/ Halt
  BY Zenon DEF CommitterStore, CommitterRead, CommitterReadFails, CommitterPut, CommitterConflict,
               CommitterPutFails, CasAttemptFails
<1>4. RotatorFlow'
  BY <1>1, RotatorFlowKept, Zenon DEF CasFrame, PipelineFlow
<1>5. StageFlow /\ CommitterFlow /\ ExitFlow
  BY Zenon DEF PipelineFlow
<1>6. CASE UNCHANGED <<stage, halted>> /\ cpc' \in {"put", "backoff", "resolve", "read"}
  <2>1. StageFlow' /\ CommitterFlow'
    BY <1>2, <1>3, <1>5, <1>6, Zenon DEF StageFlow, CommitterFlow
  <2>2. ExitFlow'
    BY <1>2, <1>3, <1>5, <1>6, Zenon DEF ExitFlow, In
  <2> QED
    BY <1>4, <2>1, <2>2, Zenon DEF PipelineFlow
<1>7. CASE Halt
  <2>1. /\ halted' /\ cpc' = "resolve"
        /\ \A o \in Ordinals :
             stage'[o] = IF stage[o] = "ready" THEN "abandoned" ELSE stage[o]
    BY <1>7, Zenon DEF Halt
  <2>2. StageFlow' /\ CommitterFlow'
    BY <1>2, <1>5, <2>1, Zenon DEF StageFlow, CommitterFlow
  <2>3. ExitFlow'
    BY <1>2, <1>3, <1>5, <2>1, Zenon DEF ExitFlow, In
  <2> QED
    BY <1>4, <2>2, <2>3, Zenon DEF PipelineFlow
<1> QED
  BY <1>3, <1>6, <1>7, Zenon

\* The resolver works on one batch at a time.
LEMMA PipelineResolver ==
  ASSUME TypeOK, Durability, PipelineFlow, Resolver
  PROVE  PipelineFlow'
<1>1. ResolverFrame
  BY Zenon DEF Resolver, ResolverObserve, ResolverWatchers, ResolverAck, ResolverRelease,
               ResolverExit
<1>2. /\ Ordinals' = Ordinals
      /\ UNCHANGED <<rpc, nextOrdinal, encodersDone, uploadersDone, commitVars, cur>>
      /\ stage \in [Ordinals -> Stages] /\ nextOrdinal \in Nat
  BY <1>1, Zenon DEF ResolverFrame, Ordinals, TypeOK, BatchTypes, RotatorTypes, ResolverTypes
<1>3. RotatorFlow'
  BY <1>1, RotatorFlowKept, Zenon DEF ResolverFrame, PipelineFlow
<1>4. StageFlow /\ CommitterFlow /\ ExitFlow
  BY Zenon DEF PipelineFlow
<1>5. CASE ResolverRelease
  <2>1. vpc = "release" /\ vpc' = "recv" /\ cur \in Ordinals /\ stage[cur] = "resolving"
    BY <1>5, Zenon DEF ResolverRelease, Durability, HandoffSound
  <2>2. stage'[cur] = "done" /\ \A p \in Ordinals \ {cur} : stage'[p] = stage[p]
    <3>1. stage' = [stage EXCEPT ![cur] = "done"]
      BY <1>5, Zenon DEF ResolverRelease
    <3> QED
      BY <1>2, <2>1, <3>1, Zenon
  <2>3. StageFlow'
    BY <1>2, <1>4, <2>1, <2>2, Zenon DEF StageFlow
  <2>4. CommitterFlow'
    BY <1>2, <1>4, <2>1, <2>2, Zenon DEF CommitterFlow
  <2>5. ExitFlow'
    BY <1>2, <1>4, <2>1, <2>2, Zenon DEF ExitFlow, In
  <2> QED
    BY <1>3, <2>3, <2>4, <2>5, Zenon DEF PipelineFlow
<1>6. CASE ResolverObserve \/ ResolverWatchers \/ ResolverAck \/ ResolverExit
  <2>1. /\ UNCHANGED stage
        /\ \/ vpc \notin {"recv", "done"} /\ vpc' \notin {"recv", "done"}
           \/ vpc = "recv" /\ vpc' = "done" /\ cpc = "done"
    BY <1>6, Zenon DEF ResolverObserve, ResolverWatchers, ResolverAck, ResolverExit
  <2>2. StageFlow'
    BY <1>2, <1>4, <2>1, Zenon DEF StageFlow
  <2>3. CommitterFlow'
    BY <1>2, <1>4, <2>1, Zenon DEF CommitterFlow
  <2>4. ExitFlow'
    BY <1>2, <1>4, <2>1, Zenon DEF ExitFlow, In
  <2> QED
    BY <1>3, <2>2, <2>3, <2>4, Zenon DEF PipelineFlow
<1> QED
  BY <1>5, <1>6, Zenon DEF Resolver

\* Close closes appendCh after its Flush, and shutdownCh last.
LEMMA PipelineClose ==
  ASSUME TypeOK, PipelineFlow, CloseStart \/ CloseCtxFires \/ Close
  PROVE  PipelineFlow'
<1>1. CASE CloseStart
  BY <1>1, BatchesKept, Zenon DEF CloseStart, FlushFrame, PipelineFlow, RotatorFlow
<1>2. CASE CloseCtxFires \/ Close
  <2>1. CloseFrame
    BY <1>2, Zenon DEF CloseCtxFires, Close, CloseAppendCh, CloseDone, CloseCancel, CloseForced
  <2>2. StageFlow' /\ CommitterFlow' /\ ExitFlow'
    BY <2>1, BatchesKept, Zenon DEF CloseFrame
  <2>3. RotatorFlow /\ UNCHANGED <<appendCh, rpc, acc, rexit>>
    BY <2>1, Zenon DEF CloseFrame, PipelineFlow
  <2>4. \/ UNCHANGED <<appendClosed, clpc, shutdown>>
        \/ clpc = "flush" /\ appendClosed' /\ clpc' = "wait" /\ UNCHANGED shutdown
        \/ clpc = "wait" /\ clpc' \in {"closed", "cancel"} /\ UNCHANGED <<appendClosed, shutdown>>
        \/ clpc = "cancel" /\ clpc' = "forced" /\ UNCHANGED appendClosed
    BY <1>2, Zenon DEF CloseCtxFires, Close, CloseAppendCh, CloseDone, CloseCancel, CloseForced
  <2>5. /\ appendClosed' <=> clpc' \notin {"idle", "flush"}
        /\ shutdown' => clpc' = "forced"
        /\ appendClosed => appendClosed'
    BY <2>3, <2>4 DEF RotatorFlow
  <2>6. RotatorFlow'
    BY <2>3, <2>5, Zenon DEF RotatorFlow
  <2> QED
    BY <2>2, <2>6, Zenon DEF PipelineFlow
<1> QED
  BY <1>1, <1>2, Zenon

-----------------------------------------------------------------------------
\* The flow of batches is preserved by every step.
LEMMA PipelineStep ==
  ASSUME TypeOK, Durability, PipelineFlow, [Next]_vars
  PROVE  PipelineFlow'
<1>1. CASE Rotator
  BY <1>1, PipelineSelect, PipelineEmit, Zenon DEF Rotator
<1>2. ASSUME NEW f \in FlushCalls, FlushStart(f) \/ FlushStep(f) PROVE PipelineFlow'
  <2>1. FlushFrame /\ UNCHANGED closeVars
    BY <1>2, Zenon DEF FlushStart, FlushStep, FlushAck, FlushDrained, FlushBlocks, FlushShutdown, FlushCtx
  <2> QED
    BY <2>1, BatchesKept, RotatorFlowKept, Zenon DEF FlushFrame, PipelineFlow
<1>3. CASE OtherWrite \/ UNCHANGED vars
  BY <1>3, BatchesKept, RotatorFlowKept, Zenon DEF OtherWrite, PipelineFlow, vars
<1> QED
  BY <1>1, <1>2, <1>3, PipelineAppend, PipelineWork, PipelineDrain, PipelineCas,
     PipelineResolver, PipelineClose, Zenon
  DEF Next, Terminated

\* For every configuration: each batch has its place in the pipeline, and the
\* goroutines exit in order, each with nothing left.
THEOREM PipelineInvariant == Spec => []PipelineFlow
<1>1. Init => PipelineFlow
  BY PipelineInit, Zenon
<1>2. TypeOK /\ Durability /\ PipelineFlow /\ [Next]_vars => PipelineFlow'
  BY PipelineStep, Zenon
<1> QED
  BY <1>1, <1>2, TypeCorrect, DurabilityInvariant, PTL DEF Spec

\* A committer that has halted makes no further store call.
LEMMA HaltedStep ==
  ASSUME PipelineFlow, halted, [Next]_vars
  PROVE  halted' /\ manifest' \in {manifest, Append(manifest, Other)}
<1>1. CASE CommitterStore
  <2>1. cpc \in {"read", "put"}
    BY <1>1, Zenon DEF CommitterStore, CommitterRead, CommitterReadFails, CommitterPut,
                       CommitterConflict, CommitterPutFails
  <2> QED
    BY <2>1, Zenon DEF PipelineFlow, CommitterFlow
<1>2. CASE OtherWrite
  BY <1>2, Zenon DEF OtherWrite
<1>3. CASE CommitterLocal
  <2>1. DrainFrame
    BY <1>3, Zenon DEF CommitterLocal, CommitterGather, CommitterReceiveHalted, CommitterClosed,
                       CommitterTake, CommitterTaken, CommitterRetry, CommitterAborted,
                       CommitterResolve, CommitterResolved
  <2> QED
    BY <2>1, Zenon DEF DrainFrame
<1>4. ASSUME UNCHANGED <<commitVars, manifest>>
      PROVE  halted' /\ manifest' \in {manifest, Append(manifest, Other)}
  BY <1>4, Zenon
<1>5. ASSUME NEW m \in Msgs, AppendStart(m) \/ AppendStep(m) PROVE UNCHANGED <<commitVars, manifest>>
  BY <1>5, Zenon DEF AppendStart, AppendStep, AppendReserve, AppendBlocks, AppendReserveFails,
                     AppendSend, AppendSendOnClosed, AppendSendFails, AppendFrame
<1>6. CASE Rotator
  BY <1>4, <1>6, Zenon
  DEF Rotator, RotatorReceive, RotatorClosed, RotatorTimer, RotatorFlush, RotatorDrain,
      RotatorDrained, RotatorBlocks, RotatorAcquire, RotatorDrop, SelectFrame, EmitFrame
<1>7. ASSUME Encoders \/ (\E o \in Ordinals : UploadStep(o)) \/ UploaderPoolExit
      PROVE  UNCHANGED <<commitVars, manifest>>
  BY <1>7, Zenon
  DEF Encoders, EncoderReceive, EncoderPoolExit, EncoderSend, EncoderFails, UploadStep, UploadOk,
      UploadFails, UploadAborted, UploaderPoolExit, WorkFrame
<1>8. ASSUME Resolver PROVE UNCHANGED <<commitVars, manifest>>
  BY <1>8, Zenon DEF Resolver, ResolverObserve, ResolverWatchers, ResolverAck, ResolverRelease,
                     ResolverExit, ResolverFrame
<1>9. ASSUME NEW f \in FlushCalls, FlushStart(f) \/ FlushStep(f) PROVE UNCHANGED <<commitVars, manifest>>
  BY <1>9, Zenon DEF FlushStart, FlushStep, FlushAck, FlushDrained, FlushBlocks, FlushShutdown,
                     FlushCtx, FlushFrame
<1>10. ASSUME CloseStart \/ CloseCtxFires \/ Close PROVE UNCHANGED <<commitVars, manifest>>
  BY <1>10, Zenon DEF CloseStart, FlushFrame, CloseCtxFires, Close, CloseAppendCh, CloseDone,
                      CloseCancel, CloseForced, CloseFrame
<1>11. ASSUME UNCHANGED vars PROVE UNCHANGED <<commitVars, manifest>>
  BY <1>11, Zenon DEF vars
<1> QED
  BY <1>1, <1>2, <1>3, <1>4, <1>5, <1>6, <1>7, <1>8, <1>9, <1>10, <1>11, ZenonT(40)
  DEF Next, Terminated

\* For every configuration: after enterHalted the committer neither leaves the
\* halted mode nor writes the manifest.
THEOREM HaltsAreFinal == Spec => HaltIsFinal
<1>1. PipelineFlow /\ [Next]_vars
        => [halted => halted' /\ manifest' \in {manifest, Append(manifest, Other)}]_vars
  BY HaltedStep, Zenon
<1> QED
  BY <1>1, PipelineInvariant, PTL DEF Spec, HaltIsFinal

-----------------------------------------------------------------------------
(* Steps that leave alone what the budget counts *)

\* The batches in flight are the same when no batch is added or ends.
LEMMA InFlightKept ==
  ASSUME nextOrdinal' = nextOrdinal,
         \A o \in Ordinals : stage'[o] = "done" <=> stage[o] = "done"
  PROVE  InFlight' = InFlight
<1>1. Ordinals' = Ordinals
  BY Zenon DEF Ordinals
<1> QED
  BY <1>1, Zenon DEF InFlight, In

\* A step that leaves alone what the budget counts.
LEMMA BudgetKept ==
  ASSUME BudgetFlow, Reserved' = Reserved, InFlight' = InFlight,
         UNCHANGED <<acc, nextOrdinal, batches, bytesUsed, batchesUsed>>
  PROVE  BudgetFlow'
<1>1. Ordinals' = Ordinals
  BY Zenon DEF Ordinals
<1>2. MsgsOf(InFlight)' = MsgsOf(InFlight) /\ Costs' = Costs /\ Framings' = Framings
  BY <1>1, Zenon DEF MsgsOf, Costs, Framings
<1>3. Holders' = Holders
  BY <1>2, Zenon DEF Holders
<1> QED
  BY <1>1, <1>2, <1>3, Zenon DEF BudgetFlow, BudgetExact, InFlightBound

\* The same, for a step that does not touch a call, appendCh or a batch.
LEMMA BudgetFrame ==
  ASSUME BudgetFlow,
         UNCHANGED <<apc, appendCh, acc, nextOrdinal, batches, stage, bytesUsed, batchesUsed>>
  PROVE  BudgetFlow'
<1>1. Reserved' = Reserved
  BY Zenon DEF Reserved
<1>2. InFlight' = InFlight
  BY InFlightKept, Zenon
<1> QED
  BY <1>1, <1>2, BudgetKept, Zenon

\* A step that moves batches, none of them to the end.
LEMMA BudgetMoves ==
  ASSUME BudgetFlow,
         UNCHANGED <<apc, appendCh, acc, nextOrdinal, batches, bytesUsed, batchesUsed>>,
         \A o \in Ordinals : stage'[o] = "done" <=> stage[o] = "done"
  PROVE  BudgetFlow'
<1>1. Reserved' = Reserved
  BY Zenon DEF Reserved
<1>2. InFlight' = InFlight
  BY InFlightKept, Zenon
<1> QED
  BY <1>1, <1>2, BudgetKept, Zenon

\* Encoding and uploading.
LEMMA BudgetWork ==
  ASSUME TypeOK, Durability, BudgetFlow,
         \/ Encoders
         \/ \E o \in Ordinals : UploadStep(o)
         \/ UploaderPoolExit
  PROVE  BudgetFlow'
<1>1. stage \in [Ordinals -> Stages]
  BY Zenon DEF TypeOK, BatchTypes
<1>2. WorkFrame
  BY Zenon DEF Encoders, EncoderReceive, EncoderPoolExit, EncoderSend, EncoderFails, UploadStep,
               UploadOk, UploadFails, UploadAborted, UploaderPoolExit
<1>3. SUFFICES \A o \in Ordinals : stage'[o] = "done" <=> stage[o] = "done"
  BY <1>2, BudgetMoves, Zenon DEF WorkFrame
<1>4. CASE EncoderReceive
  <2>1. nextOrdinal - 1 \in Ordinals /\ stage[nextOrdinal - 1] = "pending"
    <3>1. rpc = "send"
      BY <1>4, Zenon DEF EncoderReceive
    <3> QED
      BY <3>1 DEF Durability, HandoffSound, Ordinals, TypeOK, RotatorTypes
  <2> QED
    BY <1>1, <1>4, <2>1, Zenon DEF EncoderReceive
<1>5. ASSUME NEW o \in Ordinals, EncoderSend(o) \/ EncoderFails(o) \/ UploadStep(o)
      PROVE  \A p \in Ordinals : stage'[p] = "done" <=> stage[p] = "done"
  BY <1>1, <1>5, Zenon
  DEF EncoderSend, EncoderFails, UploadStep, UploadOk, UploadFails, UploadAborted, Complete
<1>6. CASE EncoderPoolExit \/ UploaderPoolExit
  BY <1>6, Zenon DEF EncoderPoolExit, UploaderPoolExit
<1> QED
  BY <1>4, <1>5, <1>6, Zenon DEF Encoders

\* The store calls of the committer, and a halt.
LEMMA BudgetCas ==
  ASSUME BudgetFlow, CommitterStore
  PROVE  BudgetFlow'
<1>1. CasFrame /\ (UNCHANGED stage \/ Halt)
  BY Zenon DEF CommitterStore, CommitterRead, CommitterReadFails, CommitterPut, CommitterConflict,
               CommitterPutFails, CasAttemptFails
<1>2. \A o \in Ordinals : stage'[o] = "done" <=> stage[o] = "done"
  BY <1>1, Zenon DEF Halt
<1> QED
  BY <1>1, <1>2, BudgetMoves, Zenon DEF CasFrame

\* The committer moves batches on, up to the resolver.
LEMMA BudgetDrain ==
  ASSUME TypeOK, Durability, BudgetFlow, CommitterLocal
  PROVE  BudgetFlow'
<1>1. DrainFrame
  BY Zenon DEF CommitterLocal, CommitterGather, CommitterReceiveHalted, CommitterClosed,
               CommitterTake, CommitterTaken, CommitterRetry, CommitterAborted,
               CommitterResolve, CommitterResolved
<1>2. /\ stage \in [Ordinals -> Stages] /\ group \in Seq(Nat) /\ failed \in Seq(Nat)
  BY Zenon DEF TypeOK, BatchTypes, CommitterTypes
<1>3. SUFFICES \A o \in Ordinals : stage'[o] = "done" <=> stage[o] = "done"
  BY <1>1, BudgetMoves, Zenon DEF DrainFrame
<1>4. ASSUME NEW o \in Ordinals, stage[o] # "done", NEW s, s # "done",
             stage' = [stage EXCEPT ![o] = s]
      PROVE  \A p \in Ordinals : stage'[p] = "done" <=> stage[p] = "done"
  BY <1>2, <1>4, Zenon
<1>5. CASE CommitterResolve
  <2>1. CASE group # <<>>
    <3>1. Head(group) = group[1] /\ 1 \in DOMAIN group
      BY <1>2, <2>1
    <3>2. Head(group) \in Ordinals /\ stage[Head(group)] = "group"
      BY <3>1, Zenon DEF Durability, GroupSound
    <3>3. stage' = [stage EXCEPT ![Head(group)] = "resolving"]
      BY <1>5, <2>1, Zenon DEF CommitterResolve, Resolve
    <3> QED
      BY <1>4, <3>2, <3>3, Zenon
  <2>2. CASE group = <<>> /\ failed # <<>>
    <3>1. Head(failed) = failed[1] /\ 1 \in DOMAIN failed
      BY <1>2, <2>2
    <3>2. Head(failed) \in Ordinals /\ stage[Head(failed)] = "failed"
      BY <3>1, Zenon DEF Durability, FailedSound
    <3>3. stage' = [stage EXCEPT ![Head(failed)] = "resolving"]
      BY <1>5, <2>2, Zenon DEF CommitterResolve, Resolve
    <3> QED
      BY <1>4, <3>2, <3>3, Zenon
  <2>3. CASE group = <<>> /\ failed = <<>>
    <3>1. PICK o \in Ordinals : stage[o] = "abandoned" /\ stage' = [stage EXCEPT ![o] = "resolving"]
      BY <1>5, <2>3, Zenon DEF CommitterResolve, Resolve, In
    <3> QED
      BY <1>4, <3>1, Zenon
  <2> QED
    BY <2>1, <2>2, <2>3, Zenon
<1>6. CASE CommitterGather
  BY <1>6, Zenon DEF CommitterGather
<1>7. ASSUME NEW o \in Ordinals, CommitterReceiveHalted(o)
      PROVE  \A p \in Ordinals : stage'[p] = "done" <=> stage[p] = "done"
  BY <1>4, <1>7, Zenon DEF CommitterReceiveHalted
<1>8. CASE CommitterTake
  <2>1. /\ next \in Ordinals /\ stage[next] = "ready"
        /\ \E s \in {"group", "failed"} : stage' = [stage EXCEPT ![next] = s]
    BY <1>8, Zenon DEF CommitterTake, NextIsReady, TakeReady
  <2> QED
    BY <1>4, <2>1, Zenon
<1>9. CASE CommitterClosed \/ CommitterTaken \/ CommitterRetry \/ CommitterAborted
           \/ CommitterResolved
  BY <1>9, Zenon DEF CommitterClosed, CommitterTaken, CommitterRetry, CommitterAborted,
                     CommitterResolved
<1> QED
  BY <1>5, <1>6, <1>7, <1>8, <1>9, Zenon DEF CommitterLocal

\* A step of AppendContext changes only what the call has reserved.
LEMMA AppendHolders ==
  ASSUME AppendFrame
  PROVE  /\ Ordinals' = Ordinals /\ InFlight' = InFlight
         /\ UNCHANGED <<acc, batches, nextOrdinal, batchesUsed>>
         /\ Costs' = Costs /\ Framings' = Framings
         /\ Holders' = Reserved' \cup Range(acc.msgs) \cup MsgsOf(InFlight)
<1>1. UNCHANGED <<acc, batches, nextOrdinal, stage, batchesUsed>>
  BY Zenon DEF AppendFrame
<1>2. Ordinals' = Ordinals /\ InFlight' = InFlight
  BY <1>1, InFlightKept, Zenon DEF Ordinals
<1>3. MsgsOf(InFlight)' = MsgsOf(InFlight) /\ Costs' = Costs /\ Framings' = Framings
  BY <1>1, <1>2, Zenon DEF MsgsOf, Costs, Framings
<1> QED
  BY <1>1, <1>2, <1>3, Zenon DEF Holders

\* The messages of a call that goes to pc.
LEMMA CallsReserved ==
  ASSUME TypeOK, NEW m \in Msgs, NEW pc, AppendGoesTo(m, pc)
  PROVE  {n \in Msgs : apc'[n] \in {"send", "panicked"}}
           = {n \in Msgs : IF n = m THEN pc \in {"send", "panicked"}
                                    ELSE apc[n] \in {"send", "panicked"}}
<1>1. \A n \in Msgs : apc'[n] = IF n = m THEN pc ELSE apc[n]
  BY Zenon DEF AppendGoesTo, TypeOK, AppendTypes
<1> QED
  BY <1>1, Zenon

\* Only the committer's store calls and other producers write the manifest.
LEMMA ManifestUntouched ==
  ASSUME [Next]_vars, ~CommitterStore, ~OtherWrite
  PROVE  UNCHANGED <<manifest, otherWrites>>
<1>1. ASSUME NEW m \in Msgs, AppendStart(m) \/ AppendStep(m) PROVE UNCHANGED storeVars
  BY <1>1, Zenon DEF AppendStart, AppendStep, AppendReserve, AppendBlocks, AppendReserveFails,
                     AppendSend, AppendSendOnClosed, AppendSendFails, AppendFrame
<1>2. ASSUME Rotator PROVE UNCHANGED storeVars
  BY <1>2, Zenon
  DEF Rotator, RotatorReceive, RotatorClosed, RotatorTimer, RotatorFlush, RotatorDrain,
      RotatorDrained, RotatorBlocks, RotatorAcquire, RotatorDrop, SelectFrame, EmitFrame
<1>3. ASSUME Encoders \/ (\E o \in Ordinals : UploadStep(o)) \/ UploaderPoolExit
      PROVE  UNCHANGED <<manifest, otherWrites>>
  BY <1>3, Zenon
  DEF Encoders, EncoderReceive, EncoderPoolExit, EncoderSend, EncoderFails, UploadStep, UploadOk,
      UploadFails, UploadAborted, UploaderPoolExit, WorkFrame
<1>4. ASSUME CommitterLocal PROVE UNCHANGED storeVars
  BY <1>4, Zenon
  DEF CommitterLocal, CommitterGather, CommitterReceiveHalted, CommitterClosed, CommitterTake,
      CommitterTaken, CommitterRetry, CommitterAborted, CommitterResolve, CommitterResolved,
      DrainFrame
<1>5. ASSUME Resolver PROVE UNCHANGED storeVars
  BY <1>5, Zenon DEF Resolver, ResolverObserve, ResolverWatchers, ResolverAck, ResolverRelease,
                     ResolverExit, ResolverFrame
<1>6. ASSUME NEW f \in FlushCalls, FlushStart(f) \/ FlushStep(f) PROVE UNCHANGED storeVars
  BY <1>6, Zenon DEF FlushStart, FlushStep, FlushAck, FlushDrained, FlushBlocks, FlushShutdown,
                     FlushCtx, FlushFrame
<1>7. ASSUME CloseStart \/ CloseCtxFires \/ Close PROVE UNCHANGED storeVars
  BY <1>7, Zenon DEF CloseStart, FlushFrame, CloseCtxFires, Close, CloseAppendCh, CloseDone,
                     CloseCancel, CloseForced, CloseFrame
<1>8. UNCHANGED storeVars => UNCHANGED <<manifest, otherWrites>>
  BY Zenon DEF storeVars
<1>9. CASE UNCHANGED vars
  BY <1>9, Zenon DEF vars, storeVars
<1> QED
  BY <1>1, <1>2, <1>3, <1>4, <1>5, <1>6, <1>7, <1>8, <1>9, ZenonT(40) DEF Next, Terminated
=============================================================================
