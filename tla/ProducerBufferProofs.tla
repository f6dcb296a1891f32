------------------------ MODULE ProducerBufferProofs ------------------------
(***************************************************************************)
(* Every action of Producer keeps MessageFlow (an accepted message is in   *)
(* one place until the watchers of its batch are resolved together) and    *)
(* ManifestFlow, and the pipeline implements DurableBuffer.                *)
(***************************************************************************)
EXTENDS ProducerProofs

USE DEF appVars, rotVars, workVars, commitVars, resolveVars, storeVars, budgetVars,
        flushVars, closeVars

-----------------------------------------------------------------------------
(* Where messages are, and their order *)

\* No message is anywhere when the producer starts.
LEMMA MessageInit == Init => MessageFlow
<1> SUFFICES ASSUME Init PROVE MessageFlow
  OBVIOUS
<1>1. Ordinals = {} /\ MsgsOf(Ordinals) = {}
  BY DEF Init, Ordinals, MsgsOf
<1>2. Range(appendCh) = {} /\ Range(acc.msgs) = {} /\ Range(accepted) = {} /\ Waiting = {}
  BY DEF Init, EmptyAcc, Range, Waiting
<1>3. OnePlace
  BY <1>1, <1>2 DEF Init, OnePlace
<1>4. WatchersFlow
  BY <1>1, <1>2, Zenon DEF Init, WatchersFlow
<1>5. ObserverFlow
  BY <1>1, Zenon DEF Init, ObserverFlow, In
<1> QED
  BY <1>3, <1>4, <1>5, Zenon DEF MessageFlow

\* The messages of a set of batches, one by one.
LEMMA MsgsOfBatches ==
  \A O, m : m \in MsgsOf(O) <=> \E o \in O : m \in Range(batches[o].msgs)
BY Zenon DEF MsgsOf

\* The sequences of messages hold messages.
LEMMA MessagesTyped ==
  ASSUME TypeOK
  PROVE  /\ appendCh \in Seq(Msgs) /\ acc.msgs \in Seq(Msgs) /\ accepted \in Seq(Msgs)
         /\ Waiting \subseteq Msgs
         /\ \A o \in Ordinals : Range(batches[o].msgs) \subseteq Msgs
         /\ MsgsOf(Ordinals) \subseteq Msgs
<1>1. \A s \in Seq(Msgs) : Range(s) \subseteq Msgs
  BY DEF Range
<1>2. appendCh \in Seq(Msgs) /\ acc.msgs \in Seq(Msgs) /\ accepted \in Seq(Msgs)
  BY Zenon DEF TypeOK, AppendTypes, RotatorTypes
<1>3. \A o \in Ordinals : batches[o].msgs \in Seq(Msgs)
  BY Zenon DEF TypeOK, BatchTypes
<1>4. \A o \in Ordinals : Range(batches[o].msgs) \subseteq Msgs
  BY <1>1, <1>3, Zenon
<1>5. MsgsOf(Ordinals) \subseteq Msgs
  BY <1>4, MsgsOfBatches, Zenon
<1> QED
  BY <1>1, <1>2, <1>4, <1>5, Zenon DEF Waiting

\* A step that moves no message, and no batch past the watchers.
LEMMA MessagesKept ==
  ASSUME MessageFlow,
         UNCHANGED <<apc, watch, accepted, appendCh, acc, nextOrdinal, batches>>,
         \A o \in Ordinals : /\ Unresolved(o)' <=> Unresolved(o)
                             /\ ~Unresolved(o) => err'[o] = err[o],
         ObserverFlow'
  PROVE  MessageFlow'
<1>1. Ordinals' = Ordinals /\ Waiting' = Waiting /\ MsgsOf(Ordinals)' = MsgsOf(Ordinals)
  BY Zenon DEF Ordinals, Waiting, MsgsOf
<1>2. OnePlace'
  BY <1>1, Zenon DEF MessageFlow, OnePlace
<1>3. \A o \in Ordinals : \A m \in Range(batches[o].msgs) :
        watch[m] = IF Unresolved(o)' THEN "pending" ELSE err'[o]
  BY Zenon DEF MessageFlow, WatchersFlow
<1>4. WatchersFlow'
  BY <1>1, <1>3 DEF MessageFlow, WatchersFlow
<1> QED
  BY <1>2, <1>4, Zenon DEF MessageFlow

\* A step that leaves messages and batches alone.
LEMMA MessagesFrame ==
  ASSUME MessageFlow,
         UNCHANGED <<apc, watch, accepted, appendCh, acc, nextOrdinal, batches, stage, err,
                     vpc, observed>>
  PROVE  MessageFlow'
<1>1. ObserverFlow'
  BY Zenon DEF MessageFlow, ObserverFlow, In, Ordinals
<1>2. \A o \in Ordinals : Unresolved(o)' <=> Unresolved(o)
  BY Zenon DEF Unresolved
<1> QED
  BY <1>1, <1>2, MessagesKept, Zenon

\* A message enters appendCh when AppendContext returns its watcher, once.
LEMMA MessageAppend ==
  ASSUME TypeOK, MessageFlow, NEW m \in Msgs, AppendStart(m) \/ AppendStep(m)
  PROVE  MessageFlow'
<1>1. AppendFrame
  BY Zenon DEF AppendStart, AppendStep, AppendReserve, AppendBlocks, AppendReserveFails,
               AppendSend, AppendSendOnClosed, AppendSendFails
<1>2. /\ Ordinals' = Ordinals /\ MsgsOf(Ordinals)' = MsgsOf(Ordinals)
      /\ UNCHANGED <<watch, acc, batches, stage, err, vpc, observed, nextOrdinal>>
  BY <1>1, Zenon DEF AppendFrame, Ordinals, MsgsOf
<1>3. /\ apc[m] \in {"idle", "reserve", "blocked", "send"} /\ apc \in [Msgs -> AppendStates]
      /\ \E pc \in AppendStates : apc' = [apc EXCEPT ![m] = pc]
  BY Zenon DEF AppendStart, AppendStep, AppendReserve, AppendBlocks, AppendReserveFails, AppendSend,
         AppendSendOnClosed, AppendSendFails, AppendGoesTo, TypeOK, AppendTypes, AppendStates
<1>4. \A n \in Msgs \ {m} : apc'[n] = apc[n]
  BY <1>3, Zenon
<1>5. m \notin Waiting \cup MsgsOf(Ordinals) /\ watch[m] = "pending"
  BY <1>3, Zenon DEF MessageFlow, WatchersFlow
<1>6. ObserverFlow'
  BY <1>2, Zenon DEF MessageFlow, ObserverFlow, In
<1>7. \A o \in Ordinals : \A n \in Range(batches[o].msgs) :
        watch[n] = IF Unresolved(o)' THEN "pending" ELSE err'[o]
  BY <1>2, Zenon DEF MessageFlow, WatchersFlow, Unresolved
<1>8. CASE AppendSend(m)
  <2>1. /\ appendCh' = Append(appendCh, m) /\ accepted' = Append(accepted, m)
        /\ apc'[m] = "accepted"
    BY <1>3, <1>8, Zenon DEF AppendSend, AppendGoesTo
  <2>2. /\ Range(appendCh') = Range(appendCh) \cup {m}
        /\ Range(accepted') = Range(accepted) \cup {m}
    BY <2>1, MessagesTyped, RangeOfAppend
  <2>3. Waiting' = Waiting \cup {m}
    BY <1>2, <2>2, Zenon DEF Waiting
  <2>4. \A i, j \in DOMAIN appendCh' : appendCh'[i] = appendCh'[j] => i = j
    <3>1. \A i \in DOMAIN appendCh : appendCh[i] # m
      BY <1>5, Zenon DEF Waiting, Range
    <3>2. appendCh \in Seq(Msgs)
      BY MessagesTyped, Zenon
    <3> QED
      BY <2>1, <3>1, <3>2 DEF MessageFlow, OnePlace
  <2>5. OnePlace'
    <3>1. \A o \in Ordinals : m \notin Range(batches[o].msgs)
      BY <1>5, MsgsOfBatches, Zenon
    <3>2. m \notin Range(acc.msgs)
      BY <1>5, Zenon DEF Waiting
    <3> QED
      BY <1>2, <2>2, <2>3, <2>4, <3>1, <3>2 DEF MessageFlow, OnePlace
  <2>6. WatchersFlow'
    <3>1. WatchersFlow /\ Waiting \cup MsgsOf(Ordinals) \subseteq Msgs
      BY MessagesTyped, Zenon DEF MessageFlow
    <3>2. /\ \A n \in Waiting' \cup MsgsOf(Ordinals)' : apc'[n] = "accepted"
          /\ \A n \in Msgs : apc'[n] # "accepted" => watch[n] = "pending"
      BY <1>2, <1>4, <2>1, <2>3, <3>1, Zenon DEF WatchersFlow
    <3>3. /\ \A n \in Msgs : apc'[n] = "accepted" /\ watch[n] = "pending"
                             => n \in Waiting' \cup MsgsOf(Ordinals)'
          /\ \A n \in Waiting' : watch[n] = "pending"
      BY <1>2, <1>4, <1>5, <2>3, <3>1, Zenon DEF WatchersFlow
    <3>4. Range(accepted') = {n \in Msgs : apc'[n] = "accepted"}
      BY <1>4, <2>1, <2>2, <3>1, Zenon DEF WatchersFlow
    <3> QED
      BY <1>2, <1>7, <3>2, <3>3, <3>4, Zenon DEF WatchersFlow
  <2> QED
    BY <1>6, <2>5, <2>6, Zenon DEF MessageFlow
<1>9. CASE ~AppendSend(m)
  <2>1. UNCHANGED <<appendCh, accepted>> /\ apc'[m] # "accepted"
    BY <1>3, <1>9, Zenon DEF AppendStart, AppendStep, AppendReserve, AppendBlocks, AppendReserveFails,
                      AppendSendOnClosed, AppendSendFails, AppendGoesTo
  <2>2. Waiting' = Waiting
    BY <1>2, <2>1, Zenon DEF Waiting
  <2>3. OnePlace'
    BY <1>2, <2>1, <2>2, Zenon DEF MessageFlow, OnePlace
  <2>4. WatchersFlow'
    BY SMTT(20), <1>2, <1>3, <1>4, <1>5, <1>7, <2>1, <2>2 DEF MessageFlow, WatchersFlow
  <2> QED
    BY <1>6, <2>3, <2>4, Zenon DEF MessageFlow
<1> QED
  BY <1>8, <1>9, Zenon

\* batch.add moves the head of appendCh into the accumulator.
LEMMA MessageReceive ==
  ASSUME TypeOK, MessageFlow, SelectFrame, ReceiveAppend
  PROVE  MessageFlow'
<1>1. /\ Ordinals' = Ordinals /\ MsgsOf(Ordinals)' = MsgsOf(Ordinals)
      /\ UNCHANGED <<apc, watch, accepted, batches, stage, err, vpc, observed, nextOrdinal>>
  BY Zenon DEF SelectFrame, Ordinals, MsgsOf
<1>2. /\ appendCh \in Seq(Msgs) /\ acc.msgs \in Seq(Msgs) /\ appendCh # <<>>
      /\ appendCh' = Tail(appendCh) /\ acc'.msgs = Append(acc.msgs, Head(appendCh))
  BY MessagesTyped, Zenon DEF ReceiveAppend, Add
<1>3. \A i, j \in DOMAIN appendCh : appendCh[i] = appendCh[j] => i = j
  BY Zenon DEF MessageFlow, OnePlace
<1>4. /\ \A i \in DOMAIN appendCh' : appendCh'[i] # Head(appendCh)
      /\ \A i, j \in DOMAIN appendCh' : appendCh'[i] = appendCh'[j] => i = j
  BY <1>2, <1>3, TailOfDistinct, Zenon
<1>5. Range(appendCh) = {Head(appendCh)} \cup Range(appendCh')
  BY <1>2, RangeOfTail, Zenon
<1>6. Range(acc'.msgs) = Range(acc.msgs) \cup {Head(appendCh)}
  <2>1. Head(appendCh) \in Msgs
    BY <1>2
  <2> QED
    BY <1>2, <2>1, RangeOfAppend
<1>7. Waiting' = Waiting
  BY <1>5, <1>6, Zenon DEF Waiting
<1>8. Head(appendCh) \notin Range(appendCh')
  BY <1>4, Zenon DEF Range
<1>9. OnePlace'
  BY <1>1, <1>4, <1>5, <1>6, <1>7, <1>8, Zenon DEF MessageFlow, OnePlace
<1>10. WatchersFlow'
  <2>1. \A o \in Ordinals : Unresolved(o)' <=> Unresolved(o)
    BY <1>1, Zenon DEF Unresolved
  <2> QED
    BY <1>1, <1>7, <2>1, Zenon DEF MessageFlow, WatchersFlow
<1>11. ObserverFlow'
  BY <1>1, Zenon DEF MessageFlow, ObserverFlow, In
<1> QED
  BY <1>9, <1>10, <1>11, Zenon DEF MessageFlow

\* The cases of the rotator's select.
LEMMA MessageSelect ==
  ASSUME TypeOK, MessageFlow,
         \/ RotatorReceive \/ RotatorClosed \/ RotatorTimer
         \/ \E f \in FlushCalls : RotatorFlush(f)
         \/ RotatorDrain \/ RotatorDrained \/ RotatorBlocks
  PROVE  MessageFlow'
<1>1. SelectFrame /\ (ReceiveAppend \/ UNCHANGED <<acc, appendCh>>)
  BY Zenon DEF RotatorReceive, RotatorClosed, RotatorTimer, RotatorFlush, RotatorDrain,
               RotatorDrained, RotatorBlocks
<1>2. CASE UNCHANGED <<acc, appendCh>>
  BY <1>1, <1>2, MessagesFrame, Zenon DEF SelectFrame
<1> QED
  BY <1>1, <1>2, MessageReceive, Zenon

\* The accumulator becomes the next batch.
LEMMA MessageAcquire ==
  ASSUME TypeOK, MessageFlow, RotatorAcquire
  PROVE  MessageFlow'
<1>1. /\ nextOrdinal \in Nat /\ Ordinals' = Ordinals \cup {nextOrdinal}
      /\ nextOrdinal \notin Ordinals
  BY DEF RotatorAcquire, Ordinals, TypeOK, RotatorTypes
<1>2. \A o \in Ordinals : stage'[o] = stage[o] /\ err'[o] = err[o] /\ batches'[o] = batches[o]
  BY <1>1 DEF RotatorAcquire, WithNext, Ordinals
<1>3. stage'[nextOrdinal] = "pending" /\ batches'[nextOrdinal].msgs = acc.msgs
  BY <1>1 DEF RotatorAcquire, WithNext
<1>4. /\ UNCHANGED <<apc, watch, accepted, appendCh, vpc, observed>> /\ acc'.msgs = <<>>
  BY Zenon DEF RotatorAcquire, EmitFrame, EmptyAcc
<1>5. Range(acc'.msgs) = {} /\ Waiting' = Range(appendCh)
  BY <1>4 DEF Range, Waiting
<1>6. MsgsOf(Ordinals)' = MsgsOf(Ordinals) \cup Range(acc.msgs)
  <2>1. \A o \in Ordinals : Range(batches'[o].msgs) = Range(batches[o].msgs)
    BY <1>2, Zenon
  <2>2. Range(batches'[nextOrdinal].msgs) = Range(acc.msgs)
    BY <1>3, Zenon
  <2> QED
    BY <1>1, <2>1, <2>2, Zenon DEF MsgsOf
<1>7. OnePlace'
  <2>1. OnePlace
    BY Zenon DEF MessageFlow
  <2>2. \A o \in Ordinals : /\ Range(batches'[o].msgs) \cap Range(appendCh) = {}
                            /\ Range(batches'[o].msgs) \cap Range(acc.msgs) = {}
    BY <1>2, <2>1, Zenon DEF OnePlace, Waiting
  <2>3. \A o \in Ordinals' : Range(batches'[o].msgs) \cap Waiting' = {}
    BY <1>1, <1>3, <1>5, <2>1, <2>2, Zenon DEF OnePlace
  <2>4. \A o, p \in Ordinals' :
          o # p => Range(batches'[o].msgs) \cap Range(batches'[p].msgs) = {}
    BY <1>1, <1>2, <1>3, <2>1, <2>2 DEF OnePlace
  <2>5. /\ \A i, j \in DOMAIN appendCh' : appendCh'[i] = appendCh'[j] => i = j
        /\ Range(appendCh') \cap Range(acc'.msgs) = {}
    BY <1>4, <1>5, <2>1, Zenon DEF OnePlace
  <2> QED
    BY <2>3, <2>4, <2>5, Zenon DEF OnePlace
<1>8. WatchersFlow'
  <2>1. WatchersFlow /\ Waiting' \cup MsgsOf(Ordinals)' = Waiting \cup MsgsOf(Ordinals)
    BY <1>5, <1>6, Zenon DEF MessageFlow, Waiting
  <2>2. \A o \in Ordinals : \A m \in Range(batches'[o].msgs) :
          watch[m] = IF Unresolved(o)' THEN "pending" ELSE err'[o]
    BY <1>2, <1>4, <2>1 DEF WatchersFlow, Unresolved
  <2>3. \A o \in {nextOrdinal} : \A m \in Range(batches'[o].msgs) :
          Unresolved(o)' /\ watch[m] = "pending"
    BY <1>3, <2>1, Zenon DEF WatchersFlow, Unresolved, Waiting
  <2>4. \A m \in Waiting' : watch[m] = "pending"
    BY <1>5, <2>1, Zenon DEF WatchersFlow, Waiting
  <2>5. \A o \in Ordinals' : \A m \in Range(batches'[o].msgs) :
          watch[m] = IF Unresolved(o)' THEN "pending" ELSE err'[o]
    BY <1>1, <2>2, <2>3, Zenon
  <2> QED
    BY <1>4, <2>1, <2>4, <2>5, Zenon DEF WatchersFlow
<1>9. ObserverFlow'
  <2>1. In({"done"})' = In({"done"}) /\ In({"resolving"})' = In({"resolving"})
    BY <1>1, <1>2, <1>3, Zenon DEF In
  <2> QED
    BY <1>4, <2>1, Zenon DEF MessageFlow, ObserverFlow
<1> QED
  BY <1>7, <1>8, <1>9, Zenon DEF MessageFlow

\* emit drops the accumulator: its watchers get ErrShutdown.
LEMMA MessageDrop ==
  ASSUME TypeOK, MessageFlow, RotatorDrop
  PROVE  MessageFlow'
<1>1. /\ Ordinals' = Ordinals /\ MsgsOf(Ordinals)' = MsgsOf(Ordinals)
      /\ UNCHANGED <<apc, accepted, appendCh, batches, stage, err, vpc, observed>>
      /\ acc'.msgs = <<>>
  BY Zenon DEF RotatorDrop, EmitFrame, EmptyAcc, Ordinals, MsgsOf
<1>2. /\ \A m \in Msgs \ Range(acc.msgs) : watch'[m] = watch[m]
      /\ \A m \in Msgs : m \in Range(acc.msgs) /\ watch[m] = "pending" => watch'[m] = "ErrShutdown"
  BY Zenon DEF RotatorDrop, WatchersResolved
<1>3. Range(acc'.msgs) = {} /\ Waiting' = Range(appendCh)
  BY <1>1 DEF Range, Waiting
<1>4. OnePlace'
  <2>1. OnePlace
    BY Zenon DEF MessageFlow
  <2>2. /\ \A i, j \in DOMAIN appendCh' : appendCh'[i] = appendCh'[j] => i = j
        /\ Range(appendCh') \cap Range(acc'.msgs) = {}
        /\ \A o \in Ordinals' : Range(batches'[o].msgs) \cap Waiting' = {}
    BY <1>1, <1>3, <2>1, Zenon DEF OnePlace, Waiting
  <2> QED
    BY <1>1, <2>1, <2>2, Zenon DEF OnePlace
<1>5. WatchersFlow'
  <2>1. WatchersFlow /\ OnePlace
    BY Zenon DEF MessageFlow
  <2>2. \A m \in Range(acc.msgs) : m \in Msgs /\ apc[m] = "accepted" /\ watch'[m] = "ErrShutdown"
    BY <1>2, <2>1, MessagesTyped, Zenon DEF WatchersFlow, Waiting
  <2>3. \A o \in Ordinals : \A m \in Range(batches[o].msgs) : m \in Msgs \ Range(acc.msgs)
    BY <2>1, MessagesTyped, Zenon DEF OnePlace, Waiting
  <2>4. \A o \in Ordinals : \A m \in Range(batches[o].msgs) :
          watch'[m] = IF Unresolved(o)' THEN "pending" ELSE err'[o]
    BY <1>1, <1>2, <2>1, <2>3 DEF WatchersFlow, Unresolved
  <2>5. \A m \in Range(appendCh) : m \in Msgs \ Range(acc.msgs)
    BY <2>1, MessagesTyped, Zenon DEF OnePlace, Waiting
  <2>6. \A m \in Waiting' : watch'[m] = "pending"
    BY <1>2, <1>3, <2>1, <2>5, Zenon DEF WatchersFlow, Waiting
  <2>7. \A m \in Msgs : apc'[m] # "accepted" => watch'[m] = "pending"
    BY <1>1, <1>2, <2>1, <2>2, Zenon DEF WatchersFlow
  <2>8. \A m \in Msgs : apc'[m] = "accepted" /\ watch'[m] = "pending"
                        => m \in Waiting' \cup MsgsOf(Ordinals)'
    BY <1>1, <1>2, <1>3, <2>1, <2>2, Zenon DEF WatchersFlow, Waiting
  <2>9. \A m \in Waiting' \cup MsgsOf(Ordinals)' : apc'[m] = "accepted"
    BY <1>1, <1>3, <2>1, Zenon DEF WatchersFlow, Waiting
  <2> QED
    BY <1>1, <2>1, <2>4, <2>6, <2>7, <2>8, <2>9, Zenon DEF WatchersFlow
<1>6. ObserverFlow'
  BY <1>1, Zenon DEF MessageFlow, ObserverFlow, In
<1> QED
  BY <1>4, <1>5, <1>6, Zenon DEF MessageFlow

\* A step on batches that the resolver does not have yet.
LEMMA MessagesUpstream ==
  ASSUME MessageFlow,
         UNCHANGED <<apc, watch, accepted, appendCh, acc, nextOrdinal, batches, vpc, observed>>,
         \A o \in Ordinals :
           IF stage[o] \in {"resolving", "done"}
             THEN stage'[o] = stage[o] /\ err'[o] = err[o]
             ELSE stage'[o] \notin {"resolving", "done"}
  PROVE  MessageFlow'
<1>1. \A o \in Ordinals : /\ Unresolved(o)' <=> Unresolved(o)
                          /\ ~Unresolved(o) => err'[o] = err[o]
  BY Zenon DEF Unresolved
<1>2. In({"done"})' = In({"done"}) /\ In({"resolving"})' = In({"resolving"})
  BY Zenon DEF In, Ordinals
<1>3. ObserverFlow'
  BY <1>2, Zenon DEF MessageFlow, ObserverFlow
<1> QED
  BY <1>1, <1>3, MessagesKept, Zenon

\* Encoding and uploading.
LEMMA MessageWork ==
  ASSUME TypeOK, Durability, MessageFlow,
         \/ Encoders
         \/ \E o \in Ordinals : UploadStep(o)
         \/ UploaderPoolExit
  PROVE  MessageFlow'
<1>1. stage \in [Ordinals -> Stages] /\ err \in [Ordinals -> Errors]
  BY Zenon DEF TypeOK, BatchTypes
<1>2. WorkFrame
  BY Zenon DEF Encoders, EncoderReceive, EncoderPoolExit, EncoderSend, EncoderFails, UploadStep,
               UploadOk, UploadFails, UploadAborted, UploaderPoolExit
<1>3. SUFFICES \A o \in Ordinals :
                 IF stage[o] \in {"resolving", "done"}
                   THEN stage'[o] = stage[o] /\ err'[o] = err[o]
                   ELSE stage'[o] \notin {"resolving", "done"}
  BY <1>2, MessagesUpstream, Zenon DEF WorkFrame
<1>4. CASE EncoderReceive
  <2>1. nextOrdinal - 1 \in Ordinals /\ stage[nextOrdinal - 1] = "pending"
    BY <1>4 DEF EncoderReceive, Durability, HandoffSound, Ordinals, TypeOK, RotatorTypes
  <2> QED
    BY <1>1, <1>4, <2>1, Zenon DEF EncoderReceive
<1>5. ASSUME NEW o \in Ordinals, EncoderSend(o) \/ EncoderFails(o) \/ UploadStep(o)
      PROVE  \A p \in Ordinals :
               IF stage[p] \in {"resolving", "done"}
                 THEN stage'[p] = stage[p] /\ err'[p] = err[p]
                 ELSE stage'[p] \notin {"resolving", "done"}
  BY <1>1, <1>5, Zenon
  DEF EncoderSend, EncoderFails, UploadStep, UploadOk, UploadFails, UploadAborted, Complete
<1>6. CASE EncoderPoolExit \/ UploaderPoolExit
  BY <1>6, Zenon DEF EncoderPoolExit, UploaderPoolExit
<1> QED
  BY <1>4, <1>5, <1>6, Zenon DEF Encoders

\* The store calls of the committer, and a halt.
LEMMA MessageCas ==
  ASSUME TypeOK, Durability, MessageFlow, CommitterStore
  PROVE  MessageFlow'
<1>1. CasFrame
  BY Zenon DEF CommitterStore, CommitterRead, CommitterReadFails, CommitterPut,
               CommitterConflict, CommitterPutFails
<1>2. UNCHANGED <<stage, err>> \/ Halt
  BY Zenon DEF CommitterStore, CommitterRead, CommitterReadFails, CommitterPut, CommitterConflict,
               CommitterPutFails, CasAttemptFails
<1>3. \A o \in Range(group) : stage[o] = "group"
  BY Zenon DEF Durability, GroupSound, Range
<1>4. \A o \in Ordinals :
        IF stage[o] \in {"resolving", "done"}
          THEN stage'[o] = stage[o] /\ err'[o] = err[o]
          ELSE stage'[o] \notin {"resolving", "done"}
  BY <1>2, <1>3, Zenon DEF Halt, FailedByHalt
<1> QED
  BY <1>1, <1>4, MessagesUpstream, Zenon DEF CasFrame

\* The committer hands over batches whose watchers are still to be resolved.
LEMMA MessageDrain ==
  ASSUME TypeOK, Durability, PipelineFlow, MessageFlow, CommitterLocal
  PROVE  MessageFlow'
<1>1. DrainFrame
  BY Zenon DEF CommitterLocal, CommitterGather, CommitterReceiveHalted, CommitterClosed,
               CommitterTake, CommitterTaken, CommitterRetry, CommitterAborted,
               CommitterResolve, CommitterResolved
<1>2. /\ Ordinals' = Ordinals
      /\ UNCHANGED <<apc, watch, accepted, appendCh, acc, nextOrdinal, batches, observed>>
      /\ stage \in [Ordinals -> Stages] /\ err \in [Ordinals -> Errors]
      /\ group \in Seq(Nat) /\ failed \in Seq(Nat)
  BY <1>1, Zenon DEF DrainFrame, Ordinals, TypeOK, BatchTypes, CommitterTypes
<1>3. CASE CommitterResolve
  <2>1. vpc = "recv" /\ vpc' = "observe" /\ err' = err
    BY <1>3, Zenon DEF CommitterResolve, Resolve
  <2>2. PICK o \in Ordinals : /\ stage[o] \in {"group", "failed", "abandoned"}
                              /\ stage' = [stage EXCEPT ![o] = "resolving"]
    <3>1. CASE group # <<>>
      <4>1. Head(group) = group[1] /\ 1 \in DOMAIN group
        BY <1>2, <3>1
      <4>2. Head(group) \in Ordinals /\ stage[Head(group)] = "group"
        BY <4>1, Zenon DEF Durability, GroupSound
      <4> QED
        BY <1>3, <3>1, <4>2, Zenon DEF CommitterResolve, Resolve
    <3>2. CASE group = <<>> /\ failed # <<>>
      <4>1. Head(failed) = failed[1] /\ 1 \in DOMAIN failed
        BY <1>2, <3>2
      <4>2. Head(failed) \in Ordinals /\ stage[Head(failed)] = "failed"
        BY <4>1, Zenon DEF Durability, FailedSound
      <4> QED
        BY <1>3, <3>2, <4>2, Zenon DEF CommitterResolve, Resolve
    <3>3. CASE group = <<>> /\ failed = <<>>
      BY <1>3, <3>3, Zenon DEF CommitterResolve, Resolve, In
    <3> QED
      BY <3>1, <3>2, <3>3, Zenon
  <2>3. stage'[o] = "resolving" /\ \A p \in Ordinals \ {o} : stage'[p] = stage[p]
    BY <1>2, <2>2, Zenon
  <2>4. \A p \in Ordinals : stage[p] # "resolving"
    BY <2>1, Zenon DEF PipelineFlow, StageFlow
  <2>5. \A p \in Ordinals : Unresolved(p)' <=> Unresolved(p)
    BY <2>1, <2>2, <2>3, <2>4, Zenon DEF Unresolved
  <2>6. In({"done"})' = In({"done"}) /\ In({"resolving"}) = {}
    BY <1>2, <2>2, <2>3, <2>4, Zenon DEF In
  <2>7. ObserverFlow'
    BY <1>2, <2>1, <2>6, Zenon DEF MessageFlow, ObserverFlow
  <2> QED
    BY <1>2, <2>1, <2>5, <2>7, MessagesKept, Zenon
<1>4. ASSUME vpc' = vpc,
             \A o \in Ordinals :
               IF stage[o] \in {"resolving", "done"}
                 THEN stage'[o] = stage[o] /\ err'[o] = err[o]
                 ELSE stage'[o] \notin {"resolving", "done"}
      PROVE  MessageFlow'
  BY <1>2, <1>4, MessagesUpstream, Zenon
<1>5. CASE CommitterGather \/ CommitterClosed
  BY <1>2, <1>4, <1>5, Zenon DEF CommitterGather, CommitterClosed
<1>6. ASSUME NEW o \in Ordinals, CommitterReceiveHalted(o) PROVE MessageFlow'
  BY <1>2, <1>4, <1>6, Zenon DEF CommitterReceiveHalted
<1>7. CASE CommitterTake
  BY <1>2, <1>4, <1>7, Zenon DEF CommitterTake, NextIsReady, TakeReady
<1>8. CASE CommitterTaken \/ CommitterRetry \/ CommitterResolved
  BY <1>4, <1>8, Zenon DEF CommitterTaken, CommitterRetry, CommitterResolved
<1>9. CASE CommitterAborted
  <2>1. \A o \in Range(group) : stage[o] = "group"
    BY Zenon DEF Durability, GroupSound, Range
  <2> QED
    BY <1>2, <1>4, <1>9, <2>1, Zenon DEF CommitterAborted
<1> QED
  BY <1>3, <1>5, <1>6, <1>7, <1>8, <1>9, Zenon DEF CommitterLocal

\* The resolver reports a batch, then resolves its watchers, then lets it go.
LEMMA MessageResolver ==
  ASSUME TypeOK, Durability, PipelineFlow, MessageFlow, Resolver
  PROVE  MessageFlow'
<1>1. ResolverFrame
  BY Zenon DEF Resolver, ResolverObserve, ResolverWatchers, ResolverAck, ResolverRelease,
               ResolverExit
<1>2. /\ Ordinals' = Ordinals /\ MsgsOf(Ordinals)' = MsgsOf(Ordinals) /\ Waiting' = Waiting
      /\ UNCHANGED <<apc, accepted, appendCh, acc, nextOrdinal, batches, err, cur>>
      /\ stage \in [Ordinals -> Stages] /\ err \in [Ordinals -> Errors]
  BY <1>1, Zenon DEF ResolverFrame, Ordinals, MsgsOf, Waiting, TypeOK, BatchTypes
<1>3. /\ \A o \in Ordinals : stage[o] = "resolving" => o = cur /\ vpc \notin {"recv", "done"}
      /\ vpc \notin {"recv", "done"} => cur \in Ordinals /\ stage[cur] = "resolving"
  BY Zenon DEF PipelineFlow, StageFlow, Durability, HandoffSound
<1>4. observed = In({"done"}) \cup {o \in In({"resolving"}) : vpc # "observe"}
  BY Zenon DEF MessageFlow, ObserverFlow
<1>5. CASE ResolverObserve
  <2>1. /\ vpc = "observe" /\ vpc' = "watchers" /\ UNCHANGED <<watch, stage>>
        /\ observed' = observed \cup {cur}
    BY <1>5, Zenon DEF ResolverObserve
  <2>2. \A o \in Ordinals : Unresolved(o)' <=> Unresolved(o)
    BY <2>1, Zenon DEF Unresolved
  <2>3. In({"resolving"}) = {cur} /\ In({"resolving"})' = {cur} /\ In({"done"})' = In({"done"})
    BY <1>2, <1>3, <2>1, Zenon DEF In
  <2>4. ObserverFlow'
    BY <1>4, <2>1, <2>3, Zenon DEF ObserverFlow
  <2> QED
    BY <1>2, <2>1, <2>2, <2>4, MessagesKept, Zenon
<1>6. CASE ResolverAck \/ ResolverExit
  <2>1. /\ vpc \notin {"observe", "watchers"} /\ vpc' \notin {"observe", "watchers"}
        /\ UNCHANGED <<watch, stage, observed>>
    BY <1>6, Zenon DEF ResolverAck, ResolverExit
  <2>2. \A o \in Ordinals : Unresolved(o)' <=> Unresolved(o)
    BY <2>1, Zenon DEF Unresolved
  <2>3. ObserverFlow'
    BY <1>2, <1>4, <2>1, Zenon DEF ObserverFlow, In
  <2> QED
    BY <1>2, <2>1, <2>2, <2>3, MessagesKept, Zenon
<1>7. CASE ResolverRelease
  <2>1. /\ vpc = "release" /\ vpc' = "recv" /\ UNCHANGED <<watch, observed>>
        /\ cur \in Ordinals /\ stage[cur] = "resolving"
    BY <1>3, <1>7, Zenon DEF ResolverRelease
  <2>2. stage'[cur] = "done" /\ \A p \in Ordinals \ {cur} : stage'[p] = stage[p]
    BY <1>2, <1>7, <2>1, Zenon DEF ResolverRelease
  <2>3. \A o \in Ordinals : Unresolved(o)' <=> Unresolved(o)
    BY <1>3, <2>1, <2>2, Zenon DEF Unresolved
  <2>4. /\ In({"resolving"}) = {cur} /\ In({"resolving"})' = {}
        /\ In({"done"})' = In({"done"}) \cup {cur}
    BY <1>2, <1>3, <2>1, <2>2, Zenon DEF In
  <2>5. ObserverFlow'
    BY <1>4, <2>1, <2>4, Zenon DEF ObserverFlow
  <2> QED
    BY <1>2, <2>1, <2>3, <2>5, MessagesKept, Zenon
<1>8. CASE ResolverWatchers
  <2>1. /\ vpc = "watchers" /\ vpc' = "ack" /\ UNCHANGED <<stage, observed>>
        /\ cur \in Ordinals /\ stage[cur] = "resolving"
        /\ watch' = WatchersResolved(Range(batches[cur].msgs), err[cur])
    BY <1>3, <1>8, Zenon DEF ResolverWatchers
  <2>2. WatchersFlow /\ OnePlace
    BY Zenon DEF MessageFlow
  <2>3. \A m \in Range(batches[cur].msgs) : m \in Msgs /\ watch[m] = "pending"
    BY <2>1, <2>2, MessagesTyped, Zenon DEF WatchersFlow, Unresolved
  <2>4. /\ \A m \in Range(batches[cur].msgs) : watch'[m] = err[cur] /\ apc[m] = "accepted"
        /\ \A m \in Msgs \ Range(batches[cur].msgs) : watch'[m] = watch[m]
    <3>1. \A m \in Range(batches[cur].msgs) : m \in MsgsOf(Ordinals)
      BY <2>1, MsgsOfBatches, Zenon
    <3> QED
      BY <2>1, <2>2, <2>3, <3>1, Zenon DEF WatchersResolved, WatchersFlow
  <2>5. err[cur] # "pending"
    BY <1>2, <2>1, Zenon DEF Errors
  <2>6. OnePlace'
    BY <1>2, <2>2, Zenon DEF OnePlace
  <2>7. ASSUME NEW o \in Ordinals, NEW m \in Range(batches[o].msgs)
        PROVE  watch'[m] = IF Unresolved(o)' THEN "pending" ELSE err[o]
    <3>1. CASE o = cur
      BY <2>1, <2>4, <2>7, <3>1, Zenon DEF Unresolved
    <3>2. CASE o # cur
      <4>1. m \in Msgs \ Range(batches[cur].msgs)
        <5>1. m \in Msgs
          BY <2>7, MessagesTyped, Zenon
        <5>2. Range(batches[o].msgs) \cap Range(batches[cur].msgs) = {}
          BY <2>1, <2>2, <3>2, Zenon DEF OnePlace
        <5> QED
          BY <2>7, <5>1, <5>2, Zenon
      <4>2. Unresolved(o)' <=> Unresolved(o)
        BY <1>3, <2>1, <3>2, Zenon DEF Unresolved
      <4> QED
        BY <2>2, <2>4, <2>7, <4>1, <4>2 DEF WatchersFlow
    <3> QED
      BY <3>1, <3>2, Zenon
  <2>8. \A m \in Waiting : watch'[m] = "pending"
    <3>1. \A m \in Waiting : m \in Msgs \ Range(batches[cur].msgs)
      BY <2>1, <2>2, MessagesTyped, Zenon DEF OnePlace
    <3> QED
      BY <2>2, <2>4, <3>1, Zenon DEF WatchersFlow
  <2>9. /\ \A m \in Msgs : apc[m] # "accepted" => watch'[m] = "pending"
        /\ \A m \in Msgs : apc[m] = "accepted" /\ watch'[m] = "pending"
                           => m \in Waiting \cup MsgsOf(Ordinals)
    BY <2>2, <2>4, <2>5, Zenon DEF WatchersFlow
  <2>10. WatchersFlow'
    BY <1>2, <2>2, <2>7, <2>8, <2>9, Zenon DEF WatchersFlow
  <2>11. ObserverFlow'
    BY <1>2, <1>4, <2>1, Zenon DEF ObserverFlow, In
  <2> QED
    BY <2>6, <2>10, <2>11, Zenon DEF MessageFlow
<1> QED
  BY <1>5, <1>6, <1>7, <1>8, Zenon DEF Resolver

-----------------------------------------------------------------------------
\* The flow of messages is preserved by every step.
LEMMA MessageStep ==
  ASSUME TypeOK, Durability, PipelineFlow, MessageFlow, [Next]_vars
  PROVE  MessageFlow'
<1>1. CASE Rotator
  BY <1>1, MessageSelect, MessageAcquire, MessageDrop, Zenon DEF Rotator
<1>2. ASSUME NEW f \in FlushCalls, FlushStart(f) \/ FlushStep(f) PROVE MessageFlow'
  <2>1. FlushFrame
    BY <1>2, Zenon DEF FlushStart, FlushStep, FlushAck, FlushDrained, FlushBlocks, FlushShutdown,
                       FlushCtx
  <2> QED
    BY <2>1, MessagesFrame, Zenon DEF FlushFrame
<1>3. CASE CloseStart
  BY <1>3, MessagesFrame, Zenon DEF CloseStart, FlushFrame
<1>4. CASE CloseCtxFires \/ Close
  <2>1. CloseFrame
    BY <1>4, Zenon DEF CloseCtxFires, Close, CloseAppendCh, CloseDone, CloseCancel, CloseForced
  <2> QED
    BY <2>1, MessagesFrame, Zenon DEF CloseFrame
<1>5. CASE OtherWrite \/ UNCHANGED vars
  BY <1>5, MessagesFrame, Zenon DEF OtherWrite, vars
<1> QED
  BY <1>1, <1>2, <1>3, <1>4, <1>5, MessageAppend, MessageWork, MessageDrain, MessageCas,
     MessageResolver, Zenon
  DEF Next, Terminated

\* For every configuration: a message that AppendContext accepted is in
\* exactly one place until its watcher is resolved, with the error of its batch.
THEOREM MessageInvariant == Spec => []MessageFlow
<1>1. Init => MessageFlow
  BY MessageInit, Zenon
<1>2. TypeOK /\ Durability /\ PipelineFlow /\ MessageFlow /\ [Next]_vars => MessageFlow'
  BY MessageStep, Zenon
<1> QED
  BY <1>1, <1>2, TypeCorrect, DurabilityInvariant, PipelineInvariant, PTL DEF Spec

\* When the resolver has exited nothing is left to be moved on.
LEMMA NothingLeft ==
  ASSUME TypeOK, PipelineFlow, MessageFlow
  PROVE  vpc = "done" => InFlight = {} /\ \A m \in Range(accepted) : Resolved(m)
<1> SUFFICES ASSUME vpc = "done" PROVE InFlight = {} /\ \A m \in Range(accepted) : Resolved(m)
  OBVIOUS
<1>1. /\ cpc = "done" /\ sawClosed /\ In({"ready"}) = {} /\ In({"completed"}) = {}
      /\ In({"uploading"}) = {} /\ In({"encoding"}) = {} /\ rpc = "done"
  BY Zenon DEF PipelineFlow, ExitFlow
<1>2. group = <<>> /\ failed = <<>>
  BY <1>1, Zenon DEF PipelineFlow, CommitterFlow
<1>3. Range(group) = {} /\ Range(failed) = {}
  BY <1>2 DEF Range
<1>4. stage \in [Ordinals -> Stages] /\ err \in [Ordinals -> Errors]
  BY Zenon DEF TypeOK, BatchTypes
<1>5. ASSUME NEW o \in Ordinals PROVE stage[o] = "done"
  <2>1. stage[o] \notin {"pending", "group", "failed", "abandoned", "resolving"}
    BY <1>1, <1>3, Zenon DEF PipelineFlow, StageFlow
  <2>2. stage[o] \notin {"encoding", "uploading", "completed", "ready"}
    BY <1>1, Zenon DEF In
  <2> QED
    BY <1>4, <2>1, <2>2, Zenon DEF Stages
<1>6. InFlight = {}
  BY <1>5, Zenon DEF InFlight, In
<1>7. Waiting = {}
  BY <1>1 DEF PipelineFlow, RotatorFlow, Waiting, Range
<1>8. ASSUME NEW m \in Range(accepted) PROVE watch[m] # "pending"
  <2>1. m \in Msgs /\ apc[m] = "accepted"
    BY Zenon DEF MessageFlow, WatchersFlow
  <2>2. ASSUME NEW o \in Ordinals, m \in Range(batches[o].msgs) PROVE watch[m] # "pending"
    <3>1. watch[m] = err[o]
      BY <1>5, <2>2, Zenon DEF MessageFlow, WatchersFlow, Unresolved
    <3> QED
      BY <1>4, <3>1, Zenon DEF Errors
  <2> QED
    BY <1>7, <2>1, <2>2, MsgsOfBatches, Zenon DEF MessageFlow, WatchersFlow
<1> QED
  BY <1>6, <1>8, Zenon DEF Resolved

-----------------------------------------------------------------------------
(* Flush *)

\* No Flush has been called.
LEMMA FlushInit == Init => FlushFlow
<1> SUFFICES ASSUME Init PROVE FlushFlow
  OBVIOUS
<1>1. Ordinals = {}
  BY DEF Init, Ordinals
<1>2. /\ clpc = "idle" /\ rack = NoFlush
      /\ \A f \in FlushCalls : fpc[f] = "idle" /\ ackCh[f] = "none" /\ covers[f] = {}
  BY Zenon DEF Init
<1>3. \A f \in FlushCalls : ~PassedOn(f)
  BY <1>1, <1>2, Zenon DEF PassedOn
<1>4. FlushCovers
  BY <1>2, Zenon DEF FlushCovers, Errors
<1> QED
  BY <1>2, <1>3, <1>4, FlushAssumption, Zenon DEF FlushFlow

\* A step that answers no Flush, and puts nothing accepted back into appendCh.
LEMMA FlushKept ==
  ASSUME FlushFlow, UNCHANGED <<fpc, covers, ackCh, batches, nextOrdinal>>,
         clpc' = "idle" => clpc = "idle",
         \/ rack' = NoFlush
         \/ rack' = rack /\ (rpc' # "drain" => rpc # "drain"),
         Range(accepted) \subseteq Range(accepted'),
         Range(appendCh') \cap Range(accepted) \subseteq Range(appendCh),
         Waiting' \cap Range(accepted) \subseteq Waiting,
         \A m \in Range(accepted) : Resolved(m) => Resolved(m)'
  PROVE  FlushFlow'
<1>1. \A f \in FlushCalls : PassedOn(f)' <=> PassedOn(f)
  BY Zenon DEF PassedOn, Ordinals
<1>2. \A f \in FlushCalls : covers[f] \subseteq Range(accepted)
  BY Zenon DEF FlushFlow
<1>3. FlushCovers'
  BY <1>2, Zenon DEF FlushFlow, FlushCovers
<1>4. rack' \in {rack, NoFlush} /\ NoFlush \notin FlushCalls
  BY FlushAssumption, Zenon
<1>5. clpc' = "idle" => fpc'[CloseFlush] = "idle"
  BY Zenon DEF FlushFlow
<1>6. ASSUME NEW f \in FlushCalls
      PROVE  /\ covers'[f] \subseteq Range(accepted')
             /\ fpc'[f] \in {"idle", "send"} => rack' # f /\ ~PassedOn(f)'
             /\ rack' = f => ~PassedOn(f)'
             /\ rack' = f /\ rpc' # "drain" => covers'[f] \cap Range(appendCh') = {}
             /\ PassedOn(f)' => covers'[f] \cap Waiting' = {}
  <2>1. /\ covers[f] \subseteq Range(accepted)
        /\ fpc[f] \in {"idle", "send"} => rack # f /\ ~PassedOn(f)
        /\ rack = f => ~PassedOn(f)
        /\ rack = f /\ rpc # "drain" => covers[f] \cap Range(appendCh) = {}
        /\ PassedOn(f) => covers[f] \cap Waiting = {}
    BY Zenon DEF FlushFlow
  <2>2. rack' = f => rack = f /\ (rpc' # "drain" => rpc # "drain")
    BY <1>4, Zenon
  <2> QED
    BY <1>1, <2>1, <2>2, Zenon
<1> QED
  BY <1>3, <1>5, <1>6, Zenon DEF FlushFlow

\* A step outside of the rotator and of Flush.
LEMMA FlushFramed ==
  ASSUME FlushFlow, UNCHANGED <<fpc, covers, ackCh, batches, nextOrdinal, rack, accepted,
                                appendCh, acc, watch>>,
         clpc' = "idle" => clpc = "idle",
         rpc' # "drain" => rpc # "drain"
  PROVE  FlushFlow'
<1>1. Waiting' = Waiting /\ \A m \in Range(accepted) : Resolved(m)' <=> Resolved(m)
  BY Zenon DEF Waiting, Resolved
<1> QED
  BY <1>1, FlushKept, Zenon

\* Resolving watchers resolves none again.
LEMMA ResolvedStays ==
  ASSUME NEW S, NEW e \in Errors, watch' = WatchersResolved(S, e)
  PROVE  \A m \in Msgs : Resolved(m) => Resolved(m)'
BY Zenon DEF WatchersResolved, Resolved, Errors

\* A message that is accepted after the call of Flush is not for it to wait for.
LEMMA FlushAppend ==
  ASSUME TypeOK, MessageFlow, FlushFlow, NEW m \in Msgs, AppendStart(m) \/ AppendStep(m)
  PROVE  FlushFlow'
<1>1. AppendFrame
  BY Zenon DEF AppendStart, AppendStep, AppendReserve, AppendBlocks, AppendReserveFails,
               AppendSend, AppendSendOnClosed, AppendSendFails
<1>2. UNCHANGED <<fpc, covers, ackCh, batches, nextOrdinal, rack, rpc, acc, watch, clpc>>
  BY <1>1, Zenon DEF AppendFrame
<1>3. CASE UNCHANGED <<accepted, appendCh>>
  BY <1>2, <1>3, FlushFramed, Zenon
<1>4. CASE AppendSend(m)
  <2>1. appendCh' = Append(appendCh, m) /\ accepted' = Append(accepted, m) /\ apc[m] = "send"
    BY <1>4, Zenon DEF AppendSend
  <2>2. Range(appendCh') = Range(appendCh) \cup {m} /\ Range(accepted') = Range(accepted) \cup {m}
    BY <2>1, MessagesTyped, RangeOfAppend
  <2>3. m \notin Range(accepted)
    BY <2>1, Zenon DEF MessageFlow, WatchersFlow
  <2>4. Waiting' \cap Range(accepted) \subseteq Waiting
    BY <1>2, <2>2, <2>3, Zenon DEF Waiting
  <2>5. \A n \in Range(accepted) : Resolved(n) => Resolved(n)'
    BY <1>2, Zenon DEF Resolved
  <2> QED
    BY <1>2, <2>2, <2>3, <2>4, <2>5, FlushKept, Zenon
<1> QED
  BY <1>3, <1>4, Zenon DEF AppendStart, AppendStep, AppendReserve, AppendBlocks,
                           AppendReserveFails, AppendSendOnClosed, AppendSendFails

\* The rotator answers a Flush, or passes its flushAck on, with nothing left in
\* appendCh or the accumulator that the Flush waits for.
LEMMA FlushAnswered ==
  ASSUME TypeOK, FlushFlow,
         UNCHANGED <<fpc, covers, accepted, appendCh, clpc>>, rack' = NoFlush,
         \A f \in FlushCalls : PassedOn(f)' => PassedOn(f) \/ rack = f,
         Waiting' \subseteq Waiting, rpc \in {"slot", "blocked"} => Waiting' = Range(appendCh),
         rpc \in {"slot", "blocked"} \/ Waiting' = {},
         \A m \in Msgs : Resolved(m) => Resolved(m)'
  PROVE  FlushFlow'
<1>1. Range(accepted) \subseteq Msgs
  BY MessagesTyped DEF Range
<1>2. FlushCovers'
  BY <1>1, Zenon DEF FlushFlow, FlushCovers
<1>3. \A f \in FlushCalls : covers[f] \subseteq Range(accepted) /\ rack' # f
  BY FlushAssumption, Zenon DEF FlushFlow
<1>4. ASSUME NEW f \in FlushCalls, fpc[f] \in {"idle", "send"} PROVE ~PassedOn(f)'
  BY <1>4, Zenon DEF FlushFlow
<1>5. ASSUME NEW f \in FlushCalls, PassedOn(f)' PROVE covers[f] \cap Waiting' = {}
  <2>1. CASE PassedOn(f)
    BY <2>1, Zenon DEF FlushFlow
  <2>2. CASE rack = f
    BY <2>2, Zenon DEF FlushFlow
  <2> QED
    BY <1>5, <2>1, <2>2, Zenon
<1> QED
  BY <1>2, <1>3, <1>4, <1>5, Zenon DEF FlushFlow

\* The rotator drains appendCh before it gives a Flush its batch.
LEMMA FlushRotator ==
  ASSUME TypeOK, MessageFlow, FlushFlow, Rotator
  PROVE  FlushFlow'
<1>1. ASSUME ReceiveAppend, SelectFrame, UNCHANGED <<fpc, ackCh>>,
             rack' = NoFlush \/ UNCHANGED <<rack, rpc>>
      PROVE  FlushFlow'
  <2>1. /\ UNCHANGED <<covers, batches, nextOrdinal, accepted, watch, clpc>>
        /\ appendCh # <<>> /\ appendCh' = Tail(appendCh)
        /\ acc'.msgs = Append(acc.msgs, Head(appendCh))
    BY <1>1, Zenon DEF SelectFrame, ReceiveAppend, Add
  <2>2. /\ Range(appendCh) = {Head(appendCh)} \cup Range(appendCh')
        /\ Head(appendCh) \in Msgs
    BY <2>1, MessagesTyped, RangeOfTail
  <2>3. Range(acc'.msgs) = Range(acc.msgs) \cup {Head(appendCh)}
    BY <2>1, <2>2, MessagesTyped, RangeOfAppend
  <2>4. Waiting' = Waiting
    BY <2>2, <2>3, Zenon DEF Waiting
  <2>5. \A m \in Range(accepted) : Resolved(m) => Resolved(m)'
    BY <2>1, Zenon DEF Resolved
  <2> QED
    BY <1>1, <2>1, <2>2, <2>4, <2>5, FlushKept, Zenon
<1>2. CASE RotatorReceive \/ RotatorDrain
  BY <1>1, <1>2, Zenon DEF RotatorReceive, RotatorDrain, Emit
<1>3. CASE RotatorClosed \/ RotatorTimer \/ RotatorBlocks
  <2>1. /\ UNCHANGED <<fpc, covers, ackCh, batches, nextOrdinal, accepted, appendCh, acc, watch,
                       clpc>>
        /\ rack' = NoFlush \/ (rack' = rack /\ rpc # "drain")
    BY <1>3, Zenon DEF RotatorClosed, RotatorTimer, RotatorBlocks, Emit, SelectFrame
  <2>2. Waiting' = Waiting /\ \A m \in Range(accepted) : Resolved(m) => Resolved(m)'
    BY <2>1, Zenon DEF Waiting, Resolved
  <2> QED
    BY <2>1, <2>2, FlushKept, Zenon
<1>4. ASSUME NEW g \in FlushCalls, RotatorFlush(g) PROVE FlushFlow'
  <2>1. /\ fpc[g] = "send" /\ rack' = g /\ rpc' = "drain"
        /\ UNCHANGED <<covers, ackCh, batches, nextOrdinal, accepted, appendCh, acc, watch, clpc>>
    BY <1>4, Zenon DEF RotatorFlush, SelectFrame
  <2>2. \A f \in FlushCalls : fpc'[f] = IF f = g THEN "ack" ELSE fpc[f]
    BY <1>4, Zenon DEF RotatorFlush, TypeOK, FlushTypes
  <2>3. Waiting' = Waiting /\ \A f \in FlushCalls : PassedOn(f)' <=> PassedOn(f)
    BY <2>1, Zenon DEF Waiting, PassedOn, Ordinals
  <2>4. ~PassedOn(g)
    BY <2>1, Zenon DEF FlushFlow
  <2>5. FlushCovers'
    BY <2>1, <2>2, Zenon DEF FlushFlow, FlushCovers, Resolved, Errors
  <2>6. clpc' = "idle" => fpc'[CloseFlush] = "idle"
    BY <2>1, <2>2, FlushAssumption, Zenon DEF FlushFlow
  <2>7. \A f \in FlushCalls :
          /\ covers'[f] \subseteq Range(accepted')
          /\ fpc'[f] \in {"idle", "send"} => rack' # f /\ ~PassedOn(f)'
          /\ rack' = f => ~PassedOn(f)'
          /\ PassedOn(f)' => covers'[f] \cap Waiting' = {}
    BY <2>1, <2>2, <2>3, <2>4, Zenon DEF FlushFlow
  <2> QED
    BY <2>1, <2>5, <2>6, <2>7, Zenon DEF FlushFlow
<1>5. CASE RotatorDrained
  <2>1. /\ UNCHANGED <<fpc, covers, batches, nextOrdinal, accepted, appendCh, acc, watch, clpc>>
        /\ appendCh = <<>> /\ rpc = "drain"
    BY <1>5, Zenon DEF RotatorDrained, SelectFrame
  <2>2. Waiting' = Waiting /\ Range(appendCh) = {}
        /\ \A m \in Msgs : Resolved(m) => Resolved(m)'
    BY <2>1 DEF Waiting, Resolved, Range
  <2>3. CASE acc.msgs = <<>>
    <3>1. rack' = NoFlush /\ ackCh' = Acked(rack, "nil")
      BY <1>5, <2>3, Zenon DEF RotatorDrained
    <3>2. Waiting' = {}
      <4>1. Range(acc.msgs) = {}
        BY <2>3 DEF Range
      <4> QED
        BY <2>2, <4>1, Zenon DEF Waiting
    <3>3. \A f \in FlushCalls : PassedOn(f)' => PassedOn(f) \/ rack = f
      <4>1. \A f \in FlushCalls : f # rack => ackCh'[f] = ackCh[f]
        BY <3>1, Zenon DEF Acked
      <4> QED
        BY <2>1, <4>1, Zenon DEF PassedOn, Ordinals
    <3> QED
      BY <2>1, <2>2, <3>1, <3>2, <3>3, FlushAnswered, Zenon
  <2>4. CASE acc.msgs # <<>>
    <3>1. UNCHANGED <<rack, ackCh>>
      BY <1>5, <2>4, Zenon DEF RotatorDrained
    <3>2. \A f \in FlushCalls : PassedOn(f)' <=> PassedOn(f)
      BY <2>1, <3>1, Zenon DEF PassedOn, Ordinals
    <3>3. FlushCovers'
      BY <2>1, Zenon DEF FlushFlow, FlushCovers, Resolved
    <3> QED
      BY <2>1, <2>2, <3>1, <3>2, <3>3, Zenon DEF FlushFlow
  <2> QED
    BY <2>3, <2>4, Zenon
<1>6. ASSUME RotatorAcquire \/ RotatorDrop
      PROVE  /\ UNCHANGED <<fpc, covers, accepted, appendCh, clpc>> /\ rack' = NoFlush
             /\ Waiting' = Range(appendCh) /\ rpc \in {"slot", "blocked"}
  <2>1. EmitFrame /\ rpc \in {"slot", "blocked"}
    BY <1>6, Zenon DEF RotatorAcquire, RotatorDrop
  <2>2. Range(acc'.msgs) = {}
    BY <2>1 DEF EmitFrame, EmptyAcc, Range
  <2> QED
    BY <2>1, <2>2, Zenon DEF EmitFrame, Waiting
<1>7. Range(appendCh) \subseteq Waiting
  BY Zenon DEF Waiting
<1>8. CASE RotatorAcquire
  <2>1. /\ nextOrdinal \in Nat /\ Ordinals' = Ordinals \cup {nextOrdinal}
        /\ nextOrdinal \notin Ordinals /\ UNCHANGED <<ackCh, watch>>
    BY <1>8 DEF RotatorAcquire, Ordinals, TypeOK, RotatorTypes
  <2>2. /\ \A o \in Ordinals : batches'[o] = batches[o]
        /\ batches'[nextOrdinal].ack = rack
    BY <1>8, <2>1 DEF RotatorAcquire, WithNext, Ordinals
  <2>3. \A f \in FlushCalls : PassedOn(f)' => PassedOn(f) \/ rack = f
    BY <2>1, <2>2, Zenon DEF PassedOn
  <2>4. \A m \in Msgs : Resolved(m) => Resolved(m)'
    BY <2>1, Zenon DEF Resolved
  <2> QED
    BY <1>6, <1>7, <1>8, <2>3, <2>4, FlushAnswered, Zenon
<1>9. CASE RotatorDrop
  <2>1. /\ ackCh' = Acked(rack, "ErrShutdown") /\ UNCHANGED <<batches, nextOrdinal>>
        /\ watch' = WatchersResolved(Range(acc.msgs), "ErrShutdown")
    BY <1>9, Zenon DEF RotatorDrop
  <2>2. \A f \in FlushCalls : PassedOn(f)' => PassedOn(f) \/ rack = f
    <3>1. \A f \in FlushCalls : f # rack => ackCh'[f] = ackCh[f]
      BY <2>1, Zenon DEF Acked
    <3> QED
      BY <2>1, <3>1, Zenon DEF PassedOn, Ordinals
  <2>3. \A m \in Msgs : Resolved(m) => Resolved(m)'
    <3>1. "ErrShutdown" \in Errors
      BY Zenon DEF Errors
    <3> QED
      BY <2>1, <3>1, ResolvedStays, Zenon
  <2> QED
    BY <1>6, <1>7, <1>9, <2>2, <2>3, FlushAnswered, Zenon
<1> QED
  BY <1>2, <1>3, <1>4, <1>5, <1>8, <1>9, Zenon DEF Rotator

\* The resolver answers a Flush whose batch it has.
LEMMA FlushResolver ==
  ASSUME TypeOK, Durability, FlushFlow, Resolver
  PROVE  FlushFlow'
<1>1. ResolverFrame
  BY Zenon DEF Resolver, ResolverObserve, ResolverWatchers, ResolverAck, ResolverRelease,
               ResolverExit
<1>2. UNCHANGED <<fpc, covers, batches, nextOrdinal, rack, rpc, accepted, appendCh, acc, clpc>>
  BY <1>1, Zenon DEF ResolverFrame
<1>3. CASE UNCHANGED <<ackCh, watch>>
  BY <1>2, <1>3, FlushFramed, Zenon
<1>4. CASE ResolverWatchers
  <2>1. cur \in Ordinals
    BY <1>4, Zenon DEF ResolverWatchers, Durability, HandoffSound
  <2>2. err[cur] \in Errors
    BY <2>1, Zenon DEF TypeOK, BatchTypes
  <2>3. \A m \in Msgs : Resolved(m) => Resolved(m)'
    BY <1>4, <2>2, ResolvedStays, Zenon DEF ResolverWatchers
  <2>4. Waiting' = Waiting /\ Range(accepted) \subseteq Msgs
    BY <1>2, MessagesTyped DEF Waiting, Range
  <2>5. UNCHANGED ackCh
    BY <1>4, Zenon DEF ResolverWatchers
  <2> QED
    BY <1>2, <2>3, <2>4, <2>5, FlushKept, Zenon
<1>5. CASE ResolverAck
  <2>1. cur \in Ordinals /\ ackCh' = Acked(batches[cur].ack, err[cur]) /\ UNCHANGED watch
    BY <1>5, Zenon DEF ResolverAck, Durability, HandoffSound
  <2>2. \A f \in FlushCalls : PassedOn(f)' <=> PassedOn(f)
    <3>1. \A f \in FlushCalls : f # batches[cur].ack => ackCh'[f] = ackCh[f]
      BY <2>1, Zenon DEF Acked
    <3>2. \A f \in FlushCalls : f = batches[cur].ack => PassedOn(f)' /\ PassedOn(f)
      BY <1>2, <2>1, Zenon DEF PassedOn, Ordinals
    <3> QED
      BY <1>2, <3>1, <3>2, Zenon DEF PassedOn, Ordinals
  <2>3. Waiting' = Waiting
    BY <1>2, Zenon DEF Waiting
  <2>4. FlushCovers'
    BY <1>2, <2>1, Zenon DEF FlushFlow, FlushCovers, Resolved
  <2> QED
    BY <1>2, <2>2, <2>3, <2>4, Zenon DEF FlushFlow
<1> QED
  BY <1>3, <1>4, <1>5, Zenon DEF Resolver, ResolverObserve, ResolverRelease, ResolverExit

\* A Flush begins with what is accepted then.
LEMMA FlushBegins ==
  ASSUME TypeOK, FlushFlow, NEW g \in FlushCalls, fpc[g] = "idle", BeginFlush(g), FlushFrame,
         clpc' = "idle" => clpc = "idle" /\ g # CloseFlush
  PROVE  FlushFlow'
<1>1. UNCHANGED <<ackCh, batches, nextOrdinal, rack, rpc, accepted, appendCh, acc, watch>>
  BY Zenon DEF FlushFrame
<1>2. \A f \in FlushCalls : /\ fpc'[f] = IF f = g THEN "send" ELSE fpc[f]
                            /\ covers'[f] = IF f = g THEN Range(accepted) ELSE covers[f]
  BY Zenon DEF BeginFlush, FlushGoesTo, TypeOK, FlushTypes
<1>3. Waiting' = Waiting /\ \A f \in FlushCalls : PassedOn(f)' <=> PassedOn(f)
  BY <1>1, Zenon DEF Waiting, PassedOn, Ordinals
<1>4. rack # g /\ ~PassedOn(g)
  BY Zenon DEF FlushFlow
<1>5. FlushCovers'
  BY <1>1, <1>2, Zenon DEF FlushFlow, FlushCovers, Resolved, Errors
<1>6. clpc' = "idle" => fpc'[CloseFlush] = "idle"
  BY <1>2, FlushAssumption, Zenon DEF FlushFlow
<1>7. \A f \in FlushCalls :
        /\ covers'[f] \subseteq Range(accepted')
        /\ fpc'[f] \in {"idle", "send"} => rack' # f /\ ~PassedOn(f)'
        /\ rack' = f => ~PassedOn(f)'
        /\ rack' = f /\ rpc' # "drain" => covers'[f] \cap Range(appendCh') = {}
        /\ PassedOn(f)' => covers'[f] \cap Waiting' = {}
  BY <1>1, <1>2, <1>3, <1>4, Zenon DEF FlushFlow
<1> QED
  BY <1>5, <1>6, <1>7, Zenon DEF FlushFlow

\* When no batch is in flight, what is not waiting is resolved.
LEMMA DrainedIsResolved ==
  ASSUME TypeOK, PipelineFlow, MessageFlow, InFlight = {},
         NEW m \in Range(accepted), m \notin Waiting
  PROVE  Resolved(m)
<1>1. \A o \in Ordinals : stage[o] = "done" /\ err[o] \in Errors
  BY Zenon DEF InFlight, In, TypeOK, BatchTypes
<1>2. m \in Msgs /\ apc[m] = "accepted"
  BY Zenon DEF MessageFlow, WatchersFlow
<1>3. ASSUME NEW o \in Ordinals, m \in Range(batches[o].msgs) PROVE watch[m] # "pending"
  <2>1. watch[m] = err[o]
    BY <1>1, <1>3, Zenon DEF MessageFlow, WatchersFlow, Unresolved
  <2> QED
    BY <1>1, <2>1, Zenon DEF Errors
<1> QED
  BY <1>2, <1>3, MsgsOfBatches, Zenon DEF MessageFlow, WatchersFlow, Resolved

\* A Flush returns an outcome only when all it covers is resolved, if every
\* batch in flight holds a slot.
LEMMA FlushReturns ==
  ASSUME TypeOK, PipelineFlow, MessageFlow, FlushFlow, batchesUsed = 0 => InFlight = {},
         NEW g \in FlushCalls, FlushStep(g)
  PROVE  FlushFlow'
<1>1. FlushFrame /\ UNCHANGED <<covers, clpc>>
  BY Zenon DEF FlushStep, FlushAck, FlushDrained, FlushBlocks, FlushShutdown, FlushCtx, closeVars
<1>2. UNCHANGED <<ackCh, batches, nextOrdinal, rack, rpc, accepted, appendCh, acc, watch>>
  BY <1>1, Zenon DEF FlushFrame
<1>3. Waiting' = Waiting /\ \A f \in FlushCalls : PassedOn(f)' <=> PassedOn(f)
  BY <1>2, Zenon DEF Waiting, PassedOn, Ordinals
<1>4. ASSUME NEW pc, FlushGoesTo(g, pc), fpc[g] # "idle", pc \notin {"idle", "send"},
             pc \in Errors \ {"ErrShutdown"} => \A m \in covers[g] : Resolved(m)
      PROVE  FlushFlow'
  <2>1. \A f \in FlushCalls : fpc'[f] = IF f = g THEN pc ELSE fpc[f]
    BY <1>4, Zenon DEF FlushGoesTo, TypeOK, FlushTypes
  <2>2. FlushCovers'
    BY <1>1, <1>2, <1>4, <2>1, Zenon DEF FlushFlow, FlushCovers, Resolved
  <2>3. clpc' = "idle" => fpc'[CloseFlush] = "idle"
    BY <1>1, <1>4, <2>1, FlushAssumption, Zenon DEF FlushFlow
  <2>4. \A f \in FlushCalls :
          /\ covers'[f] \subseteq Range(accepted')
          /\ fpc'[f] \in {"idle", "send"} => rack' # f /\ ~PassedOn(f)'
          /\ rack' = f => ~PassedOn(f)'
          /\ rack' = f /\ rpc' # "drain" => covers'[f] \cap Range(appendCh') = {}
          /\ PassedOn(f)' => covers'[f] \cap Waiting' = {}
    BY <1>1, <1>2, <1>3, <1>4, <2>1, Zenon DEF FlushFlow
  <2> QED
    BY <2>2, <2>3, <2>4, Zenon DEF FlushFlow
<1>5. CASE FlushAck(g) \/ FlushBlocks(g) \/ FlushShutdown(g) \/ FlushCtx(g)
  <2>1. PICK pc \in {"waitDrained", "draining", "ErrShutdown", "ctx"} :
          FlushGoesTo(g, pc) /\ fpc[g] # "idle"
    BY <1>5, Zenon DEF FlushAck, FlushBlocks, FlushShutdown, FlushCtx
  <2> QED
    BY <1>4, <2>1, Zenon DEF Errors
<1>6. CASE FlushDrained(g)
  <2>1. /\ fpc[g] \in {"waitDrained", "draining"} /\ batchesUsed = 0
        /\ FlushGoesTo(g, ackCh[g])
    BY <1>6, Zenon DEF FlushDrained
  <2>2. ackCh[g] \in Errors
    BY <2>1, Zenon DEF TypeOK, FlushTypes
  <2>3. covers[g] \subseteq Range(accepted) /\ covers[g] \cap Waiting = {}
    <3>1. PassedOn(g)
      BY <2>2, Zenon DEF PassedOn, Errors
    <3> QED
      BY <3>1, Zenon DEF FlushFlow
  <2>4. \A m \in covers[g] : Resolved(m)
    BY <2>1, <2>3, DrainedIsResolved, Zenon
  <2> QED
    BY <1>4, <2>1, <2>2, <2>4, Zenon DEF Errors
<1> QED
  BY <1>5, <1>6, Zenon DEF FlushStep

\* What a Flush waits for is kept by every step, if every batch in flight holds
\* a slot.
LEMMA FlushFlowStep ==
  ASSUME TypeOK, Durability, PipelineFlow, MessageFlow, FlushFlow,
         batchesUsed = 0 => InFlight = {}, [Next]_vars
  PROVE  FlushFlow'
<1>1. CASE Encoders \/ (\E o \in Ordinals : UploadStep(o)) \/ UploaderPoolExit
  <2>1. WorkFrame
    BY <1>1, Zenon DEF Encoders, EncoderReceive, EncoderPoolExit, EncoderSend, EncoderFails,
                       UploadStep, UploadOk, UploadFails, UploadAborted, UploaderPoolExit
  <2>2. UNCHANGED rpc \/ rpc = "send"
    BY <1>1, Zenon DEF Encoders, EncoderReceive, EncoderPoolExit, EncoderSend, EncoderFails,
                       UploadStep, UploadOk, UploadFails, UploadAborted, UploaderPoolExit
  <2> QED
    BY <2>1, <2>2, FlushFramed, Zenon DEF WorkFrame
<1>2. CASE CommitterStore
  <2>1. CasFrame
    BY <1>2, Zenon DEF CommitterStore, CommitterRead, CommitterReadFails, CommitterPut,
                       CommitterConflict, CommitterPutFails
  <2> QED
    BY <2>1, FlushFramed, Zenon DEF CasFrame
<1>3. CASE CommitterLocal
  <2>1. DrainFrame
    BY <1>3, Zenon DEF CommitterLocal, CommitterGather, CommitterClosed, CommitterReceiveHalted,
                       CommitterTake, CommitterTaken, CommitterRetry, CommitterAborted,
                       CommitterResolve, CommitterResolved
  <2> QED
    BY <2>1, FlushFramed, Zenon DEF DrainFrame
<1>4. ASSUME NEW f \in FlushCalls, FlushStart(f) PROVE FlushFlow'
  BY <1>4, FlushBegins, Zenon DEF FlushStart
<1>5. CASE CloseStart
  <2>1. /\ clpc = "idle" /\ clpc' = "flush" /\ BeginFlush(CloseFlush) /\ FlushFrame
    BY <1>5, Zenon DEF CloseStart
  <2>2. fpc[CloseFlush] = "idle"
    BY <2>1, Zenon DEF FlushFlow
  <2> QED
    BY <2>1, <2>2, FlushBegins, FlushAssumption, Zenon
<1>6. CASE CloseCtxFires \/ Close
  <2>1. CloseFrame /\ clpc' # "idle"
    BY <1>6, Zenon DEF CloseCtxFires, Close, CloseAppendCh, CloseDone, CloseCancel, CloseForced
  <2> QED
    BY <2>1, FlushFramed, Zenon DEF CloseFrame
<1>7. CASE OtherWrite \/ UNCHANGED vars
  BY <1>7, FlushFramed, Zenon DEF OtherWrite, vars
<1> QED
  BY <1>1, <1>2, <1>3, <1>4, <1>5, <1>6, <1>7, FlushAppend, FlushRotator, FlushResolver,
     FlushReturns, Zenon
  DEF Next, Terminated

-----------------------------------------------------------------------------
(* The order of messages *)

\* A step that leaves the messages where they are.
LEMMA OrderKept ==
  ASSUME OrderFlow, UNCHANGED <<accepted, appendCh, acc, batches, nextOrdinal>>
  PROVE  OrderFlow'
BY DEF OrderFlow, BatchOrder, InOrder, Before, Earlier, Waiting, Ordinals

\* AppendContext adds a message behind all that were sent.
LEMMA OrderAppend ==
  ASSUME TypeOK, MessageFlow, OrderFlow, NEW m \in Msgs, AppendSend(m)
  PROVE  OrderFlow'
<1>1. /\ appendCh' = Append(appendCh, m) /\ accepted' = Append(accepted, m) /\ apc[m] = "send"
      /\ UNCHANGED <<acc, batches, nextOrdinal>> /\ Ordinals' = Ordinals
  BY Zenon DEF AppendSend, AppendFrame, Ordinals
<1>2. accepted \in Seq(Msgs) /\ appendCh \in Seq(Msgs)
  BY MessagesTyped, Zenon
<1> DEFINE n == Len(accepted) + 1
           Later(x, y) == \E i, j \in DOMAIN accepted' : i < j /\ accepted'[i] = x /\ accepted'[j] = y
<1>3. /\ n \in Nat /\ DOMAIN accepted = 1 .. n - 1 /\ DOMAIN accepted' = 1 .. n
      /\ accepted'[n] = m /\ \A i \in DOMAIN accepted : accepted'[i] = accepted[i]
  BY <1>1, <1>2
<1> HIDE DEF n
<1>4. m \notin Range(accepted)
  BY <1>1, Zenon DEF MessageFlow, WatchersFlow
<1>5. \A i, j \in DOMAIN accepted' : accepted'[i] = accepted'[j] => i = j
  <2>1. \A i \in DOMAIN accepted' : i = n \/ i \in DOMAIN accepted
    BY <1>3
  <2>2. \A i \in DOMAIN accepted : accepted'[i] # m
    BY <1>3, <1>4, Zenon DEF Range
  <2> QED
    BY <1>3, <2>1, <2>2, Zenon DEF OrderFlow
<1>6. \A x, y : Earlier(x, y) => Later(x, y)
  BY <1>3 DEF Earlier
<1>7. \A x \in Range(accepted) : Later(x, m)
  BY <1>3 DEF Range
<1>8. /\ Waiting \subseteq Range(accepted)
      /\ \A o \in Ordinals : Range(batches[o].msgs) \subseteq Range(accepted)
  <2>1. Waiting \cup MsgsOf(Ordinals) \subseteq Range(accepted)
    BY MessagesTyped, Zenon DEF MessageFlow, WatchersFlow
  <2> QED
    BY <2>1, MsgsOfBatches, Zenon
<1>9. /\ Range(appendCh') = Range(appendCh) \cup {m} /\ Range(acc'.msgs) = Range(acc.msgs)
      /\ Waiting' = Waiting \cup {m}
  <2>1. Range(appendCh') = Range(appendCh) \cup {m}
    BY <1>1, <1>2, RangeOfAppend
  <2> QED
    BY <1>1, <2>1, Zenon DEF Waiting
<1>10. \A x, y : Earlier(x, y)' <=> Later(x, y)
  BY Zenon DEF Earlier
<1> HIDE DEF Later
<1>11. InOrder(appendCh)'
  <2> DEFINE k == Len(appendCh) + 1
  <2>1. /\ k \in Nat /\ DOMAIN appendCh = 1 .. k - 1 /\ DOMAIN appendCh' = 1 .. k
        /\ appendCh'[k] = m /\ \A i \in DOMAIN appendCh : appendCh'[i] = appendCh[i]
    BY <1>1, <1>2
  <2> HIDE DEF k
  <2>2. \A i \in DOMAIN appendCh : appendCh[i] \in Range(accepted)
    BY <1>8, Zenon DEF Waiting, Range
  <2>3. ASSUME NEW i \in DOMAIN appendCh', NEW j \in DOMAIN appendCh', i < j
        PROVE  Later(appendCh'[i], appendCh'[j])
    <3>1. i \in DOMAIN appendCh
      BY <2>1, <2>3
    <3>2. CASE j \in DOMAIN appendCh
      BY <1>6, <2>1, <2>3, <3>1, <3>2, Zenon DEF OrderFlow, InOrder
    <3>3. CASE j = k
      BY <1>7, <2>1, <2>2, <3>1, <3>3, Zenon
    <3> QED
      BY <2>1, <3>2, <3>3
  <2> QED
    BY <1>10, <2>3, Zenon DEF InOrder
<1>12. InOrder(acc.msgs)' /\ Before(Range(acc.msgs), Range(appendCh))'
  BY SMTT(20), <1>1, <1>6, <1>7, <1>8, <1>9, <1>10 DEF OrderFlow, InOrder, Before, Waiting
<1>13. \A o \in Ordinals : InOrder(batches[o].msgs)' /\ Before(Range(batches[o].msgs), Waiting)'
  BY SMTT(20), <1>1, <1>6, <1>7, <1>8, <1>9, <1>10 DEF OrderFlow, BatchOrder, InOrder, Before
<1>14. \A o, p \in Ordinals : o < p => Before(Range(batches[o].msgs), Range(batches[p].msgs))'
  BY <1>1, <1>6, <1>10, Zenon DEF OrderFlow, BatchOrder, Before
<1> QED
  BY <1>1, <1>5, <1>11, <1>12, <1>13, <1>14, Zenon DEF OrderFlow, BatchOrder

\* The order of the messages that were sent does not change otherwise.
LEMMA EarlierKept ==
  ASSUME UNCHANGED accepted
  PROVE  \A x, y : Earlier(x, y)' <=> Earlier(x, y)
BY Zenon DEF Earlier

\* The rotator moves the oldest message of appendCh to the end of the
\* accumulator.
LEMMA OrderReceive ==
  ASSUME TypeOK, OrderFlow, ReceiveAppend, UNCHANGED <<accepted, batches, nextOrdinal>>
  PROVE  OrderFlow'
<1> DEFINE h == Head(appendCh)
           k == Len(acc.msgs) + 1
           n == Len(appendCh)
<1>1. /\ appendCh # <<>> /\ appendCh' = Tail(appendCh) /\ acc'.msgs = Append(acc.msgs, h)
      /\ Ordinals' = Ordinals
  BY Zenon DEF ReceiveAppend, Add, Ordinals
<1>2. appendCh \in Seq(Msgs) /\ acc.msgs \in Seq(Msgs)
  BY MessagesTyped, Zenon
<1>3. /\ n \in Nat \ {0} /\ DOMAIN appendCh = 1 .. n /\ h = appendCh[1] /\ h \in Msgs
      /\ DOMAIN appendCh' = 1 .. n - 1 /\ \A i \in 1 .. n - 1 : appendCh'[i] = appendCh[i + 1]
  BY <1>1, <1>2
<1>4. /\ k \in Nat \ {0} /\ DOMAIN acc.msgs = 1 .. k - 1 /\ DOMAIN acc'.msgs = 1 .. k
      /\ acc'.msgs[k] = h /\ \A i \in 1 .. k - 1 : acc'.msgs[i] = acc.msgs[i]
  BY <1>1, <1>2, <1>3
<1>5. /\ Range(appendCh) = {h} \cup Range(appendCh')
      /\ Range(acc'.msgs) = Range(acc.msgs) \cup {h}
  BY <1>1, <1>2, <1>3, RangeOfTail, RangeOfAppend
<1>6. Waiting' = Waiting
  BY <1>5, Zenon DEF Waiting
<1> HIDE DEF h, k, n
<1>7. ASSUME NEW i \in DOMAIN appendCh', NEW j \in DOMAIN appendCh', i < j
      PROVE  Earlier(appendCh'[i], appendCh'[j])
  <2>1. i + 1 \in DOMAIN appendCh /\ j + 1 \in DOMAIN appendCh /\ i + 1 < j + 1
    BY <1>3, <1>7
  <2> QED
    BY <1>3, <2>1, Zenon DEF OrderFlow, InOrder
<1>8. \A y \in Range(appendCh') : Earlier(h, y)
  <2> SUFFICES ASSUME NEW i \in DOMAIN appendCh' PROVE Earlier(h, appendCh'[i])
    BY Zenon DEF Range
  <2>1. 1 \in DOMAIN appendCh /\ i + 1 \in DOMAIN appendCh /\ 1 < i + 1
    BY <1>3
  <2> QED
    BY <1>3, <2>1, Zenon DEF OrderFlow, InOrder
<1>9. \A x \in Range(acc.msgs), y \in Range(appendCh) : Earlier(x, y)
  BY Zenon DEF OrderFlow, Before
<1>10. ASSUME NEW i \in DOMAIN acc'.msgs, NEW j \in DOMAIN acc'.msgs, i < j
       PROVE  Earlier(acc'.msgs[i], acc'.msgs[j])
  <2>1. i \in DOMAIN acc.msgs
    BY <1>4, <1>10
  <2>2. CASE j \in DOMAIN acc.msgs
    BY <1>4, <1>10, <2>1, <2>2, Zenon DEF OrderFlow, InOrder
  <2>3. CASE j = k
    <3>1. acc'.msgs[i] = acc.msgs[i] /\ acc'.msgs[j] = h
      BY <1>4, <2>1, <2>3, Zenon
    <3>2. acc.msgs[i] \in Range(acc.msgs)
      BY <2>1, Zenon DEF Range
    <3> QED
      BY <1>5, <1>9, <3>1, <3>2, Zenon
  <2> QED
    BY <1>4, <2>2, <2>3
<1>11. InOrder(appendCh)' /\ InOrder(acc.msgs)'
  BY <1>7, <1>10, EarlierKept, Zenon DEF InOrder
<1>12. Before(Range(acc.msgs), Range(appendCh))'
  BY <1>5, <1>8, <1>9, EarlierKept, Zenon DEF Before
<1>13. \A o \in Ordinals' : Before(Range(batches[o].msgs), Waiting)'
  BY <1>1, <1>6, EarlierKept, Zenon DEF OrderFlow, Before
<1>14. BatchOrder'
  BY <1>1, EarlierKept DEF OrderFlow, BatchOrder, InOrder, Before
<1> QED
  BY <1>11, <1>12, <1>13, <1>14, Zenon DEF OrderFlow

\* The accumulator becomes the batch with the next ordinal, or is dropped.
LEMMA OrderEmit ==
  ASSUME TypeOK, OrderFlow, RotatorAcquire \/ RotatorDrop
  PROVE  OrderFlow'
<1>1. UNCHANGED <<accepted, appendCh>> /\ acc'.msgs = <<>>
  <2>1. EmitFrame
    BY Zenon DEF RotatorAcquire, RotatorDrop
  <2> QED
    BY <2>1 DEF EmitFrame, EmptyAcc
<1>2. Range(acc'.msgs) = {} /\ DOMAIN acc'.msgs = {} /\ Waiting' = Range(appendCh)
  BY <1>1 DEF Range, Waiting
<1>3. /\ InOrder(appendCh)' /\ InOrder(acc.msgs)' /\ Before(Range(acc.msgs), Range(appendCh))'
  BY <1>1, <1>2, EarlierKept, Zenon DEF OrderFlow, InOrder, Before
<1>4. CASE RotatorAcquire
  <2>1. /\ nextOrdinal \in Nat /\ Ordinals' = Ordinals \cup {nextOrdinal}
        /\ \A o \in Ordinals : o < nextOrdinal /\ ~(nextOrdinal < o)
    BY <1>4 DEF RotatorAcquire, Ordinals, TypeOK, RotatorTypes
  <2>2. /\ \A o \in Ordinals : batches'[o] = batches[o]
        /\ batches'[nextOrdinal].msgs = acc.msgs
    BY <1>4, <2>1 DEF RotatorAcquire, WithNext, Ordinals
  <2>3. \A o \in Ordinals : \A x \in Range(batches[o].msgs), y \in Range(appendCh) \cup Range(acc.msgs) :
          Earlier(x, y)
    BY Zenon DEF OrderFlow, Before, Waiting
  <2>4. \A o \in Ordinals' : Before(Range(batches[o].msgs), Waiting)'
    BY <1>2, <2>1, <2>2, <2>3, EarlierKept, <1>1, Zenon DEF OrderFlow, Before
  <2>5. \A o \in Ordinals' : InOrder(batches[o].msgs)'
    BY <1>1, <2>1, <2>2, EarlierKept DEF OrderFlow, BatchOrder, InOrder
  <2>6. \A o, p \in Ordinals' : o < p => Before(Range(batches[o].msgs), Range(batches[p].msgs))'
    BY <1>1, <2>1, <2>2, <2>3, EarlierKept DEF OrderFlow, BatchOrder, Before
  <2> QED
    BY <1>1, <1>3, <2>4, <2>5, <2>6, Zenon DEF OrderFlow, BatchOrder
<1>5. CASE RotatorDrop
  <2>1. UNCHANGED <<batches, nextOrdinal>> /\ Ordinals' = Ordinals
    BY <1>5, Zenon DEF RotatorDrop, Ordinals
  <2>2. \A o \in Ordinals' : Before(Range(batches[o].msgs), Waiting)'
    BY <1>1, <1>2, <2>1, EarlierKept, Zenon DEF OrderFlow, Before, Waiting
  <2>3. BatchOrder'
    BY <1>1, <2>1, EarlierKept DEF OrderFlow, BatchOrder, InOrder, Before
  <2> QED
    BY <1>1, <1>3, <2>2, <2>3, Zenon DEF OrderFlow
<1> QED
  BY <1>4, <1>5, Zenon

\* Nothing was sent yet.
LEMMA OrderInit == Init => OrderFlow
<1> SUFFICES ASSUME Init PROVE OrderFlow
  OBVIOUS
<1>1. Ordinals = {} /\ accepted = <<>> /\ appendCh = <<>> /\ acc.msgs = <<>>
  BY DEF Init, Ordinals, EmptyAcc
<1> QED
  BY <1>1 DEF OrderFlow, BatchOrder, InOrder, Before, Waiting, Range

\* Every step keeps the order in which messages were sent.
LEMMA OrderStep ==
  ASSUME TypeOK, MessageFlow, OrderFlow, [Next]_vars
  PROVE  OrderFlow'
<1>1. ASSUME NEW m \in Msgs, AppendStart(m) \/ AppendStep(m) PROVE OrderFlow'
  <2>1. AppendFrame
    BY <1>1, Zenon DEF AppendStart, AppendStep, AppendReserve, AppendBlocks, AppendReserveFails,
                       AppendSend, AppendSendOnClosed, AppendSendFails
  <2>2. CASE UNCHANGED <<accepted, appendCh>>
    BY <2>1, <2>2, OrderKept, Zenon DEF AppendFrame, rotVars
  <2> QED
    BY <1>1, <2>2, OrderAppend, Zenon DEF AppendStart, AppendStep, AppendReserve, AppendBlocks,
                                          AppendReserveFails, AppendSendOnClosed, AppendSendFails
<1>2. CASE Rotator
  <2>1. CASE RotatorReceive \/ RotatorDrain
    BY <2>1, OrderReceive, Zenon DEF RotatorReceive, RotatorDrain, SelectFrame
  <2>2. CASE RotatorClosed \/ RotatorTimer \/ (\E f \in FlushCalls : RotatorFlush(f))
             \/ RotatorDrained \/ RotatorBlocks
    <3>1. SelectFrame /\ UNCHANGED <<acc, appendCh>>
      BY <2>2, Zenon DEF RotatorClosed, RotatorTimer, RotatorFlush, RotatorDrained, RotatorBlocks
    <3> QED
      BY <3>1, OrderKept, Zenon DEF SelectFrame
  <2> QED
    BY <1>2, <2>1, <2>2, OrderEmit, Zenon DEF Rotator
<1>3. CASE Encoders \/ (\E o \in Ordinals : UploadStep(o)) \/ UploaderPoolExit
  <2>1. WorkFrame
    BY <1>3, Zenon DEF Encoders, EncoderReceive, EncoderPoolExit, EncoderSend, EncoderFails,
                       UploadStep, UploadOk, UploadFails, UploadAborted, UploaderPoolExit
  <2> QED
    BY <2>1, OrderKept, Zenon DEF WorkFrame, appVars
<1>4. CASE CommitterStore
  <2>1. CasFrame
    BY <1>4, Zenon DEF CommitterStore, CommitterRead, CommitterReadFails, CommitterPut,
                       CommitterConflict, CommitterPutFails
  <2> QED
    BY <2>1, OrderKept, Zenon DEF CasFrame, appVars, rotVars
<1>5. CASE CommitterLocal
  <2>1. DrainFrame
    BY <1>5, Zenon DEF CommitterLocal, CommitterGather, CommitterClosed, CommitterReceiveHalted,
                       CommitterTake, CommitterTaken, CommitterRetry, CommitterAborted,
                       CommitterResolve, CommitterResolved
  <2> QED
    BY <2>1, OrderKept, Zenon DEF DrainFrame, appVars, rotVars
<1>6. CASE Resolver
  <2>1. ResolverFrame
    BY <1>6, Zenon DEF Resolver, ResolverObserve, ResolverWatchers, ResolverAck, ResolverRelease,
                       ResolverExit
  <2> QED
    BY <2>1, OrderKept, Zenon DEF ResolverFrame, rotVars
<1>7. CASE (\E f \in FlushCalls : FlushStart(f) \/ FlushStep(f)) \/ CloseStart
  <2>1. FlushFrame
    BY <1>7, Zenon DEF FlushStart, FlushStep, FlushAck, FlushDrained, FlushBlocks, FlushShutdown,
                       FlushCtx, CloseStart
  <2> QED
    BY <2>1, OrderKept, Zenon DEF FlushFrame, appVars, rotVars
<1>8. CASE CloseCtxFires \/ Close
  <2>1. CloseFrame
    BY <1>8, Zenon DEF CloseCtxFires, Close, CloseAppendCh, CloseDone, CloseCancel, CloseForced
  <2> QED
    BY <2>1, OrderKept, Zenon DEF CloseFrame, rotVars
<1>9. CASE OtherWrite \/ UNCHANGED vars
  BY <1>9, OrderKept, Zenon DEF OtherWrite, vars, appVars, rotVars
<1> QED
  BY <1>1, <1>2, <1>3, <1>4, <1>5, <1>6, <1>7, <1>8, <1>9, Zenon DEF Next, Terminated

\* For every configuration: the messages of the batches, of the accumulator and
\* of appendCh are, in this order, in the order in which they were sent.
THEOREM OrderInvariant == Spec => []OrderFlow
<1>1. Init => OrderFlow
  BY OrderInit, Zenon
<1>2. TypeOK /\ MessageFlow /\ OrderFlow /\ [Next]_vars => OrderFlow'
  BY OrderStep, Zenon
<1> QED
  BY <1>1, <1>2, TypeCorrect, MessageInvariant, PTL DEF Spec

\* For every configuration: batches hold the messages in the order in which
\* AppendContext sent them, whatever triggers cut the batches.
THEOREM BatchesInOrder == Spec => []BatchOrder
<1>1. OrderFlow => BatchOrder
  BY Zenon DEF OrderFlow
<1> QED
  BY <1>1, OrderInvariant, PTL

-----------------------------------------------------------------------------
(* The manifest, and DurableBuffer *)

\* The manifest is empty when the producer starts.
LEMMA ManifestInit == Init => ManifestFlow
BY DEF Init, ManifestFlow, GroupFlow, CommittedFlow, CommitOrder, Ordinals, Range

\* A batch that the committer has not taken is not in the manifest.
LEMMA UntakenIsAbsent ==
  ASSUME PipelineFlow, ManifestFlow, NEW o \in Ordinals,
         stage[o] \notin {"group", "failed", "resolving", "done"}
  PROVE  o \notin Range(manifest)
<1>1. ~(o < next)
  BY Zenon DEF PipelineFlow, CommitterFlow
<1>2. o # Other
  BY EnvironmentAssumption DEF Ordinals
<1> QED
  BY <1>1, <1>2, Zenon DEF ManifestFlow, CommittedFlow

\* A step that leaves the manifest and the group alone.
LEMMA ManifestKept ==
  ASSUME ManifestFlow,
         UNCHANGED <<group, next, manifest, unacked>>,
         objects' \subseteq Ordinals',
         \A o \in Ordinals' : o \in Range(manifest) \ unacked => err'[o] = "nil",
         cpc' # "resolve" =>
           \/ group = <<>>
           \/ cpc # "resolve" /\ \A i \in DOMAIN group : err'[group[i]] = err[group[i]]
  PROVE  ManifestFlow'
<1>1. GroupFlow'
  BY DEF ManifestFlow, GroupFlow
<1>2. CommittedFlow'
  BY Zenon DEF ManifestFlow, CommittedFlow
<1>3. CommitOrder'
  BY Zenon DEF ManifestFlow, CommitOrder
<1> QED
  BY <1>1, <1>2, <1>3, Zenon DEF ManifestFlow

\* A step that leaves the batches and the store alone, too.
LEMMA ManifestFrame ==
  ASSUME ManifestFlow,
         UNCHANGED <<group, next, manifest, unacked, objects, nextOrdinal, err>>,
         cpc' # "resolve" => group = <<>> \/ cpc # "resolve"
  PROVE  ManifestFlow'
<1>1. Ordinals' = Ordinals
  BY Zenon DEF Ordinals
<1> QED
  BY <1>1, ManifestKept, Zenon DEF ManifestFlow, CommittedFlow

\* A new batch has no error and no object.
LEMMA ManifestAcquire ==
  ASSUME TypeOK, Durability, ManifestFlow, RotatorAcquire
  PROVE  ManifestFlow'
<1>1. /\ nextOrdinal \in Nat /\ Ordinals' = Ordinals \cup {nextOrdinal}
      /\ nextOrdinal \notin Ordinals
      /\ UNCHANGED <<group, next, manifest, unacked, objects, cpc>>
  BY DEF RotatorAcquire, EmitFrame, Ordinals, TypeOK, RotatorTypes
<1>2. err'[nextOrdinal] = "nil" /\ \A o \in Ordinals : err'[o] = err[o]
  BY <1>1 DEF RotatorAcquire, WithNext, Ordinals
<1>3. \A i \in DOMAIN group : group[i] \in Ordinals
  BY Zenon DEF Durability, GroupSound
<1> QED
  BY <1>1, <1>2, <1>3, ManifestKept, Zenon DEF ManifestFlow, CommittedFlow

\* A batch that is encoded or uploaded is not in the manifest yet.
LEMMA ManifestWork ==
  ASSUME TypeOK, Durability, PipelineFlow, ManifestFlow,
         \/ Encoders
         \/ \E o \in Ordinals : UploadStep(o)
         \/ UploaderPoolExit
  PROVE  ManifestFlow'
<1>1. WorkFrame
  BY Zenon DEF Encoders, EncoderReceive, EncoderPoolExit, EncoderSend, EncoderFails, UploadStep,
               UploadOk, UploadFails, UploadAborted, UploaderPoolExit
<1>2. /\ UNCHANGED <<group, next, manifest, unacked, nextOrdinal, cpc>> /\ Ordinals' = Ordinals
      /\ err \in [Ordinals -> Errors]
  BY <1>1, Zenon DEF WorkFrame, Ordinals, TypeOK, BatchTypes
<1>3. ASSUME NEW o \in Ordinals, EncoderFails(o) \/ UploadStep(o) PROVE ManifestFlow'
  <2>1. stage[o] \in {"encoding", "uploading"}
    BY <1>3, Zenon DEF EncoderFails, UploadStep, UploadOk, UploadFails, UploadAborted
  <2>2. objects' \subseteq objects \cup {o} /\ \A p \in Ordinals \ {o} : err'[p] = err[p]
    BY <1>2, <1>3, Zenon DEF EncoderFails, UploadStep, UploadOk, UploadFails, UploadAborted, Complete
  <2>3. o \notin Range(manifest)
    BY <2>1, UntakenIsAbsent, Zenon
  <2>4. \A i \in DOMAIN group : group[i] \in Ordinals \ {o}
    BY <2>1, Zenon DEF Durability, GroupSound
  <2> QED
    BY <1>2, <2>2, <2>3, <2>4, ManifestKept, Zenon DEF ManifestFlow, CommittedFlow
<1>4. CASE EncoderReceive \/ EncoderPoolExit \/ UploaderPoolExit \/ \E o \in Ordinals : EncoderSend(o)
  <2>1. UNCHANGED <<err, objects>>
    BY <1>4, Zenon DEF EncoderReceive, EncoderPoolExit, UploaderPoolExit, EncoderSend
  <2> QED
    BY <1>2, <2>1, ManifestFrame, Zenon
<1> QED
  BY <1>3, <1>4, Zenon DEF Encoders

\* The committer adds the next ordinal to its group: it is newer than all that
\* was taken before.
LEMMA ManifestTake ==
  ASSUME TypeOK, Durability, ManifestFlow, CommitterTake
  PROVE  ManifestFlow'
<1>1. /\ UNCHANGED <<manifest, unacked, objects, nextOrdinal, err, cpc>> /\ Ordinals' = Ordinals
      /\ cpc = "drain" /\ next' = next + 1 /\ next \in Nat /\ next \in Ordinals
      /\ group \in Seq(Nat)
      /\ group' = IF err[next] = "nil" THEN Append(group, next) ELSE group
  BY Zenon DEF CommitterTake, NextIsReady, TakeReady, DrainFrame, Ordinals, TypeOK, CommitterTypes
<1>2. GroupFlow /\ CommittedFlow /\ CommitOrder
  BY Zenon DEF ManifestFlow
<1>3. \A o \in Range(manifest) \ {Other} : o \in Nat /\ o < next
  BY <1>2 DEF CommittedFlow, TypeOK, StoreTypes, Range
<1>4. CommittedFlow' /\ CommitOrder'
  BY <1>1, <1>2, <1>3 DEF CommittedFlow, CommitOrder
<1>5. \A i \in DOMAIN group : group[i] \in Nat /\ group[i] < next
  BY <1>1, <1>2 DEF GroupFlow
<1>6. CASE err[next] # "nil"
  <2>1. \A i \in DOMAIN group : group[i] < next'
    BY <1>1, <1>5
  <2>2. GroupFlow'
    BY <1>1, <1>2, <1>6, <2>1, Zenon DEF GroupFlow
  <2> QED
    BY <1>4, <2>2, Zenon DEF ManifestFlow
<1>7. CASE err[next] = "nil"
  <2>1. group' = Append(group, next)
    BY <1>1, <1>7, Zenon
  <2>0. /\ DOMAIN group = 1 .. Len(group) /\ Len(group) \in Nat
        /\ DOMAIN group' = 1 .. Len(group) + 1
        /\ \A i \in 1 .. Len(group) : group'[i] = group[i]
        /\ group'[Len(group) + 1] = next
    BY <1>1, <2>1
  <2>2. \A i \in DOMAIN group' : \/ i \in DOMAIN group /\ group'[i] = group[i]
                                 \/ i = Len(group) + 1 /\ group'[i] = next
    BY <2>0
  <2>3. \A i, j \in DOMAIN group' : i < j => i \in DOMAIN group
    BY <2>0
  <2>4. \A i \in DOMAIN group' : group'[i] < next'
    BY <1>1, <1>5, <2>2
  <2>5. \A i, j \in DOMAIN group' : i < j => group'[i] < group'[j]
    <3> SUFFICES ASSUME NEW i \in DOMAIN group', NEW j \in DOMAIN group', i < j
                 PROVE  group'[i] < group'[j]
      OBVIOUS
    <3>1. i \in DOMAIN group /\ group'[i] = group[i]
      BY <2>0, <2>3, Zenon
    <3>2. CASE j \in DOMAIN group /\ group'[j] = group[j]
      BY <1>2, <3>1, <3>2, Zenon DEF GroupFlow
    <3>3. CASE group'[j] = next
      BY <1>5, <3>1, <3>3, Zenon
    <3> QED
      BY <2>2, <3>2, <3>3, Zenon
  <2>6. \A i \in DOMAIN group' :
          /\ err[group'[i]] = "nil"
          /\ \/ group'[i] \in unacked
             \/ \A o \in Range(manifest) \ {Other} : o < group'[i]
    BY <1>1, <1>2, <1>3, <1>7, <2>2, Zenon DEF GroupFlow
  <2>7. GroupFlow'
    BY <1>1, <2>4, <2>5, <2>6, Zenon DEF GroupFlow
  <2> QED
    BY <1>4, <2>7, Zenon DEF ManifestFlow
<1> QED
  BY <1>6, <1>7, Zenon

\* The committer hands over the first batch of its group.
LEMMA ManifestResolve ==
  ASSUME TypeOK, ManifestFlow, CommitterResolve
  PROVE  ManifestFlow'
<1>1. /\ UNCHANGED <<manifest, unacked, objects, nextOrdinal, err, cpc, next>>
      /\ Ordinals' = Ordinals /\ cpc = "resolve" /\ group \in Seq(Nat)
      /\ group' = group \/ (group # <<>> /\ group' = Tail(group))
  BY Zenon DEF CommitterResolve, DrainFrame, Ordinals, TypeOK, CommitterTypes
<1>2. GroupFlow /\ CommittedFlow /\ CommitOrder
  BY Zenon DEF ManifestFlow
<1>3. CommittedFlow' /\ CommitOrder'
  BY <1>1, <1>2, Zenon DEF CommittedFlow, CommitOrder
<1>4. GroupFlow'
  <2>1. CASE group' = group
    BY <1>1, <1>2, <2>1, Zenon DEF GroupFlow
  <2>2. CASE group # <<>> /\ group' = Tail(group)
    <3>0. /\ DOMAIN group = 1 .. Len(group) /\ Len(group) \in Nat
          /\ DOMAIN group' = 1 .. Len(group) - 1
          /\ \A i \in 1 .. Len(group) - 1 : group'[i] = group[i + 1]
      BY <1>1, <2>2
    <3>1. \A i \in DOMAIN group' : i \in Int /\ i + 1 \in DOMAIN group /\ group'[i] = group[i + 1]
      BY <3>0
    <3>2. \A i, j \in DOMAIN group' : i < j => i + 1 < j + 1
      BY <3>1
    <3>3. \A i, j \in DOMAIN group' : i < j => group'[i] < group'[j]
      BY <1>2, <3>1, <3>2, Zenon DEF GroupFlow
    <3>4. \A i \in DOMAIN group' : group'[i] < next'
      BY <1>1, <1>2, <3>1, Zenon DEF GroupFlow
    <3> QED
      BY <1>1, <3>3, <3>4, Zenon DEF GroupFlow
  <2> QED
    BY <1>1, <2>1, <2>2, Zenon
<1> QED
  BY <1>3, <1>4, Zenon DEF ManifestFlow

\* The other steps of the committer between its store calls.
LEMMA ManifestDrain ==
  ASSUME TypeOK, Durability, PipelineFlow, ManifestFlow, CommitterLocal
  PROVE  ManifestFlow'
<1>1. DrainFrame
  BY Zenon DEF CommitterLocal, CommitterGather, CommitterReceiveHalted, CommitterClosed,
               CommitterTake, CommitterTaken, CommitterRetry, CommitterAborted,
               CommitterResolve, CommitterResolved
<1>2. /\ UNCHANGED <<manifest, unacked, objects, nextOrdinal>> /\ Ordinals' = Ordinals
      /\ err \in [Ordinals -> Errors]
  BY <1>1, Zenon DEF DrainFrame, Ordinals, TypeOK, BatchTypes
<1>3. CASE CommitterGather \/ CommitterClosed \/ CommitterTaken \/ CommitterRetry
  <2>1. UNCHANGED <<group, next, err>> /\ cpc # "resolve"
    BY <1>3, Zenon DEF CommitterGather, CommitterClosed, CommitterTaken, CommitterRetry
  <2> QED
    BY <1>2, <2>1, ManifestFrame, Zenon
<1>4. CASE CommitterResolved
  <2>1. UNCHANGED <<group, next, err>> /\ group = <<>>
    BY <1>4, Zenon DEF CommitterResolved
  <2> QED
    BY <1>2, <2>1, ManifestFrame, Zenon
<1>5. ASSUME NEW o \in Ordinals, CommitterReceiveHalted(o) PROVE ManifestFlow'
  <2>1. /\ UNCHANGED <<group, next>> /\ cpc' = "resolve" /\ stage[o] = "completed"
        /\ \A p \in Ordinals \ {o} : err'[p] = err[p]
    BY <1>2, <1>5, Zenon DEF CommitterReceiveHalted
  <2>2. o \notin Range(manifest)
    BY <2>1, UntakenIsAbsent, Zenon
  <2> QED
    BY <1>2, <2>1, <2>2, ManifestKept, Zenon DEF ManifestFlow, CommittedFlow
<1>6. CASE CommitterAborted
  <2>1. /\ UNCHANGED <<group, next>> /\ cpc' = "resolve" /\ cpc # "resolve"
        /\ \A p \in Ordinals : p \notin Range(group) => err'[p] = err[p]
    BY <1>2, <1>6, Zenon DEF CommitterAborted
  <2>2. \A p \in Range(group) : p \notin Range(manifest) \ unacked
    BY <2>1, EnvironmentAssumption
    DEF ManifestFlow, GroupFlow, Range, Durability, GroupSound, Ordinals
  <2> QED
    BY <1>2, <2>1, <2>2, ManifestKept, Zenon DEF ManifestFlow, CommittedFlow
<1> QED
  BY <1>3, <1>4, <1>5, <1>6, ManifestTake, ManifestResolve, Zenon DEF CommitterLocal

\* PutIfMatch adds an ascending group behind older entries.
LEMMA WriteManifestOrders ==
  ASSUME TypeOK, Durability, ManifestFlow, WriteManifest, CasFrame, cpc = "put",
         unacked \subseteq unacked'
  PROVE  /\ CommitOrder'
         /\ Range(manifest') = Range(manifest) \cup Range(group)
         /\ \A o \in Range(manifest') \ {Other} : o < next'
<1>1. /\ group \in Seq(Nat) /\ manifest \in Seq(Nat \cup {Other})
      /\ UNCHANGED <<group, next>>
  BY Zenon DEF CasFrame, TypeOK, CommitterTypes, StoreTypes
<1>2. manifest' = manifest \o group
  <2>1. snap.data = manifest
    BY Zenon DEF Durability, SnapshotSound, WriteManifest
  <2> QED
    BY <2>1, Zenon DEF WriteManifest
<1>3. GroupFlow /\ CommittedFlow /\ CommitOrder
  BY Zenon DEF ManifestFlow
<1>4. Range(manifest') = Range(manifest) \cup Range(group)
  <2>1. group \in Seq(Nat \cup {Other})
    BY <1>1
  <2> QED
    BY <1>1, <1>2, <2>1, RangeOfConcatenation
<1>5. \A o \in Range(manifest') \ {Other} : o < next'
  <2>1. \A o \in Range(group) : o < next
    BY <1>3, Zenon DEF GroupFlow, Range
  <2>2. \A o \in Range(manifest) \ {Other} : o < next
    BY <1>3, Zenon DEF CommittedFlow
  <2> QED
    BY <1>1, <1>4, <2>1, <2>2, Zenon
<1>6. ASSUME NEW i \in DOMAIN manifest', NEW j \in DOMAIN manifest', i < j,
             manifest'[i] # Other, manifest'[j] # Other, manifest'[j] \notin unacked'
      PROVE  manifest'[i] < manifest'[j]
  <2> DEFINE n == Len(manifest)
  <2>1. /\ n \in Nat /\ DOMAIN manifest = 1 .. n /\ i \in Nat /\ j \in Nat
        /\ \A k \in DOMAIN manifest' :
             \/ k \in DOMAIN manifest /\ manifest'[k] = manifest[k]
             \/ k > n /\ k - n \in DOMAIN group /\ manifest'[k] = group[k - n]
    BY <1>1, <1>2
  <2>2. CASE j \in DOMAIN manifest
    <3>1. i \in DOMAIN manifest /\ manifest'[i] = manifest[i] /\ manifest'[j] = manifest[j]
      BY SMTT(20), <1>1, <1>2, <1>6, <2>1, <2>2
    <3> QED
      BY <1>3, <1>6, <2>2, <3>1, Zenon DEF CommitOrder
  <2>3. CASE j > n /\ j - n \in DOMAIN group /\ manifest'[j] = group[j - n]
    <3>1. \A o \in Range(manifest) \ {Other} : o < group[j - n]
      BY <1>3, <1>6, <2>3, Zenon DEF GroupFlow
    <3>2. CASE i \in DOMAIN manifest /\ manifest'[i] = manifest[i]
      BY <1>6, <2>3, <3>1, <3>2, Zenon DEF Range
    <3>3. CASE i > n /\ i - n \in DOMAIN group /\ manifest'[i] = group[i - n]
      <4>1. i - n < j - n
        BY <1>6, <2>1
      <4> QED
        BY <1>3, <2>3, <3>3, <4>1, Zenon DEF GroupFlow
    <3> QED
      BY <1>6, <2>1, <3>2, <3>3, Zenon
  <2> QED
    BY <1>6, <2>1, <2>2, <2>3, Zenon
<1>7. CommitOrder'
  BY <1>6, Zenon DEF CommitOrder
<1> QED
  BY <1>4, <1>5, <1>7, Zenon

\* The store calls of the committer: what is written is acknowledged without
\* an error, or recorded as unacknowledged; what is not written may fail.
LEMMA ManifestCas ==
  ASSUME TypeOK, Durability, PipelineFlow, ManifestFlow, CommitterStore
  PROVE  ManifestFlow'
<1>1. CasFrame
  BY Zenon DEF CommitterStore, CommitterRead, CommitterReadFails, CommitterPut,
               CommitterConflict, CommitterPutFails
<1>2. /\ UNCHANGED <<group, next, objects, nextOrdinal>> /\ Ordinals' = Ordinals
      /\ err \in [Ordinals -> Errors]
  BY <1>1, Zenon DEF CasFrame, Ordinals, TypeOK, BatchTypes
<1>3. GroupFlow /\ CommittedFlow /\ cpc # "resolve"
  BY Zenon DEF ManifestFlow, CommitterStore, CommitterRead, CommitterReadFails, CommitterPut,
         CommitterConflict, CommitterPutFails
<1>4. /\ \A i \in DOMAIN group : group[i] \in Ordinals /\ group[i] \in Range(group)
      /\ \A o \in Range(group) : err[o] = "nil" /\ o \notin Range(manifest) \ unacked
  <2>1. \A i \in DOMAIN group : group[i] \in Ordinals /\ group[i] \in Range(group)
    BY Zenon DEF Durability, GroupSound, Range
  <2>2. \A i \in DOMAIN group : group[i] # Other /\ ~(group[i] < group[i])
    BY <2>1, EnvironmentAssumption DEF Ordinals
  <2>3. \A i \in DOMAIN group : err[group[i]] = "nil" /\ group[i] \notin Range(manifest) \ unacked
    BY <1>3, <2>2, Zenon DEF GroupFlow
  <2> QED
    BY <2>1, <2>3, Zenon DEF Range
<1>5. \A o \in Ordinals : o \in Range(manifest) \ unacked => err[o] = "nil"
  BY <1>3, Zenon DEF CommittedFlow
<1>6. CASE UNCHANGED <<err, manifest, unacked>>
  BY <1>2, <1>3, <1>6, ManifestFrame, Zenon
<1>7. CASE UNCHANGED <<manifest, unacked>> /\ Halt
  <2>1. /\ cpc' = "resolve"
        /\ \A o \in Ordinals : o \notin Range(group) /\ stage[o] # "ready" => err'[o] = err[o]
    BY <1>7, Zenon DEF Halt, FailedByHalt
  <2>2. \A o \in Ordinals : stage[o] = "ready" => o \notin Range(manifest)
    BY UntakenIsAbsent, Zenon
  <2>3. \A o \in Ordinals : o \in Range(manifest) \ unacked => err'[o] = "nil"
    BY <1>4, <1>5, <2>1, <2>2, Zenon
  <2>4. objects' \subseteq Ordinals'
    BY <1>2, <1>3, Zenon DEF CommittedFlow
  <2> QED
    BY <1>2, <1>7, <2>1, <2>3, <2>4, ManifestKept, Zenon
<1>8. ASSUME WriteManifest, cpc = "put", unacked \subseteq unacked',
             \A o \in Ordinals : o \in Range(manifest') \ unacked' => err'[o] = "nil",
             cpc' = "resolve" \/ (Range(group) \subseteq unacked' /\ err' = err)
      PROVE  ManifestFlow'
  <2>1. /\ CommitOrder'
        /\ Range(manifest') = Range(manifest) \cup Range(group)
        /\ \A o \in Range(manifest') \ {Other} : o < next'
    BY <1>1, <1>8, WriteManifestOrders, Zenon
  <2>2. CommittedFlow'
    BY <1>2, <1>3, <1>8, <2>1, Zenon DEF CommittedFlow
  <2>3. GroupFlow'
    BY <1>2, <1>3, <1>4, <1>8, Zenon DEF GroupFlow
  <2> QED
    BY <2>1, <2>2, <2>3, Zenon DEF ManifestFlow
<1>9. CASE CommitterPut
  <2>1. /\ WriteManifest /\ cpc = "put" /\ cpc' = "resolve" /\ UNCHANGED <<err, unacked>>
    BY <1>9, Zenon DEF CommitterPut
  <2>2. Range(manifest') = Range(manifest) \cup Range(group)
    BY <1>1, <2>1, WriteManifestOrders, Zenon
  <2>3. \A o \in Ordinals : o \in Range(manifest') \ unacked' => err'[o] = "nil"
    BY <1>4, <1>5, <2>1, <2>2, Zenon
  <2> QED
    BY <1>8, <2>1, <2>3, Zenon
<1>10. CASE CommitterPutFails /\ WriteManifest /\ unacked' = unacked \cup Range(group)
  <2>1. cpc = "put" /\ (UNCHANGED err \/ Halt)
    BY <1>10, Zenon DEF CommitterPutFails, CasAttemptFails
  <2>2. Range(manifest') = Range(manifest) \cup Range(group)
    BY <1>1, <1>10, <2>1, WriteManifestOrders, Zenon
  <2>3. \A o \in Ordinals : stage[o] = "ready" => o \notin Range(manifest)
    BY UntakenIsAbsent, Zenon
  <2>4. \A o \in Ordinals : o \in Range(manifest') \ unacked' => err'[o] = "nil"
    BY <1>5, <1>10, <2>1, <2>2, <2>3, Zenon DEF Halt, FailedByHalt
  <2>5. cpc' = "resolve" \/ (Range(group) \subseteq unacked' /\ err' = err)
    BY <1>10, <2>1, Zenon DEF Halt
  <2> QED
    BY <1>8, <1>10, <2>1, <2>4, <2>5, Zenon
<1> QED
  <2>1. CASE CommitterRead \/ CommitterConflict
    BY <1>6, <2>1, Zenon DEF CommitterRead, CommitterConflict
  <2>2. CASE CasAttemptFails /\ UNCHANGED <<manifest, unacked>>
    BY <1>6, <1>7, <2>2, Zenon DEF CasAttemptFails
  <2> QED
    BY <1>9, <1>10, <2>1, <2>2, Zenon
    DEF CommitterStore, CommitterReadFails, CommitterPutFails

\* Another producer's entry leaves the order of this one's.
LEMMA ManifestOther ==
  ASSUME TypeOK, ManifestFlow, OtherWrite
  PROVE  ManifestFlow'
<1>1. /\ manifest \in Seq(Nat \cup {Other}) /\ manifest' = Append(manifest, Other)
      /\ UNCHANGED <<group, next, objects, unacked, err, cpc>> /\ Ordinals' = Ordinals
  BY Zenon DEF OtherWrite, Ordinals, TypeOK, StoreTypes
<1>2. Range(manifest') = Range(manifest) \cup {Other}
  BY <1>1, RangeOfAppend
<1>3. \A o \in Ordinals : o # Other
  BY EnvironmentAssumption DEF Ordinals
<1>4. GroupFlow'
  BY <1>1, <1>2, Zenon DEF ManifestFlow, GroupFlow
<1>5. CommittedFlow'
  BY <1>1, <1>2, <1>3, Zenon DEF ManifestFlow, CommittedFlow
<1>6. CommitOrder'
  <2>1. \A i \in DOMAIN manifest' : manifest'[i] # Other =>
          i \in DOMAIN manifest /\ manifest'[i] = manifest[i]
    BY <1>1
  <2> QED
    BY <1>1, <2>1, Zenon DEF ManifestFlow, CommitOrder
<1> QED
  BY <1>4, <1>5, <1>6, Zenon DEF ManifestFlow

\* The order of the manifest is preserved by every step.
LEMMA ManifestStep ==
  ASSUME TypeOK, Durability, PipelineFlow, ManifestFlow, [Next]_vars
  PROVE  ManifestFlow'
<1>1. ASSUME UNCHANGED <<group, next, manifest, unacked, objects, nextOrdinal, err, cpc>>
      PROVE  ManifestFlow'
  BY <1>1, ManifestFrame, Zenon
<1>2. ASSUME NEW m \in Msgs, AppendStart(m) \/ AppendStep(m) PROVE ManifestFlow'
  <2>1. AppendFrame
    BY <1>2, Zenon DEF AppendStart, AppendStep, AppendReserve, AppendBlocks, AppendReserveFails,
                       AppendSend, AppendSendOnClosed, AppendSendFails
  <2> QED
    BY <1>1, <2>1, Zenon DEF AppendFrame
<1>3. CASE Rotator
  <2>1. CASE RotatorAcquire
    BY <2>1, ManifestAcquire, Zenon
  <2>2. CASE RotatorDrop
    BY <1>1, <2>2, Zenon DEF RotatorDrop, EmitFrame
  <2>3. CASE ~RotatorAcquire /\ ~RotatorDrop
    <3>1. SelectFrame
      BY <1>3, <2>3, Zenon DEF Rotator, RotatorReceive, RotatorClosed, RotatorTimer, RotatorFlush,
                               RotatorDrain, RotatorDrained, RotatorBlocks
    <3> QED
      BY <1>1, <3>1, Zenon DEF SelectFrame
  <2> QED
    BY <2>1, <2>2, <2>3, Zenon
<1>4. CASE Resolver
  <2>1. ResolverFrame
    BY <1>4, Zenon DEF Resolver, ResolverObserve, ResolverWatchers, ResolverAck, ResolverRelease,
                       ResolverExit
  <2> QED
    BY <1>1, <2>1, Zenon DEF ResolverFrame
<1>5. ASSUME NEW f \in FlushCalls, FlushStart(f) \/ FlushStep(f) PROVE ManifestFlow'
  <2>1. FlushFrame
    BY <1>5, Zenon DEF FlushStart, FlushStep, FlushAck, FlushDrained, FlushBlocks, FlushShutdown,
                       FlushCtx
  <2> QED
    BY <1>1, <2>1, Zenon DEF FlushFrame
<1>6. CASE CloseStart
  BY <1>1, <1>6, Zenon DEF CloseStart, FlushFrame
<1>7. CASE CloseCtxFires \/ Close
  <2>1. CloseFrame
    BY <1>7, Zenon DEF CloseCtxFires, Close, CloseAppendCh, CloseDone, CloseCancel, CloseForced
  <2> QED
    BY <1>1, <2>1, Zenon DEF CloseFrame
<1>8. CASE UNCHANGED vars
  BY <1>1, <1>8, Zenon DEF vars
<1> QED
  BY <1>2, <1>3, <1>4, <1>5, <1>6, <1>7, <1>8, ManifestWork, ManifestDrain, ManifestCas,
     ManifestOther, Zenon
  DEF Next, Terminated

\* For every configuration: the committer's groups are newer than the manifest
\* they are added to, and what is in the manifest is resolved without an error
\* unless an acknowledgement was lost.
THEOREM ManifestInvariant == Spec => []ManifestFlow
<1>1. Init => ManifestFlow
  BY ManifestInit, Zenon
<1>2. TypeOK /\ Durability /\ PipelineFlow /\ ManifestFlow /\ [Next]_vars => ManifestFlow'
  BY ManifestStep, Zenon
<1> QED
  BY <1>1, <1>2, TypeCorrect, DurabilityInvariant, PipelineInvariant, PTL DEF Spec

\* For every configuration: uploads finish in any order, the manifest has the
\* batches in the order of their ordinals.
THEOREM CommitsInOrder == Spec => []CommitOrder
<1>1. ManifestFlow => CommitOrder
  BY Zenon DEF ManifestFlow
<1> QED
  BY <1>1, ManifestInvariant, PTL

\* For every configuration: an error on a watcher means that the manifest does
\* not have the message, unless an acknowledgement was lost.
THEOREM FailedAreAbsent == Spec => []FailedIsAbsent
<1>1. MessageFlow /\ ManifestFlow => FailedIsAbsent
  <2> SUFFICES ASSUME MessageFlow, ManifestFlow, NEW m \in Msgs, NEW o \in Ordinals,
                      watch[m] \notin {"pending", "nil"}, m \in Range(batches[o].msgs),
                      o \notin unacked
               PROVE  o \notin Range(manifest)
    BY Zenon DEF FailedIsAbsent
  <2>1. watch[m] = err[o]
    BY Zenon DEF MessageFlow, WatchersFlow
  <2> QED
    BY <2>1, Zenon DEF ManifestFlow, CommittedFlow
<1> QED
  BY <1>1, MessageInvariant, ManifestInvariant, PTL

-----------------------------------------------------------------------------
(* The pipeline implements DurableBuffer *)

\* A new producer is an empty buffer.
LEMMA BufferInit == Init => Buffer!Init
<1> SUFFICES ASSUME Init PROVE Buffer!Init
  OBVIOUS
<1>1. Call = [m \in Msgs |-> "idle"] /\ Outcome = [m \in Msgs |-> "pending"]
  BY Zenon DEF Init, Call, CallOf, Outcome
<1>2. Durable = {} /\ Flushed = {}
  BY DEF Init, Durable, Flushed, MsgsOf, Ordinals
<1>3. Closing = "open"
  BY Zenon DEF Init, Closing
<1> QED
  BY <1>1, <1>2, <1>3, Zenon DEF Buffer!Init

\* A step that callers do not see.
LEMMA BufferStutters ==
  ASSUME UNCHANGED <<apc, watch, manifest, batches, nextOrdinal, observed, clpc>>
  PROVE  UNCHANGED Buffer!vars
BY Zenon DEF Buffer!vars, Call, Outcome, Durable, Flushed, Closing, MsgsOf, Ordinals

\* The messages that DurableBuffer has as accepted and as pending.
LEMMA BufferSets ==
  /\ Buffer!Accepted = {m \in Msgs : apc[m] = "accepted"}
  /\ Buffer!Pending = {m \in Msgs : apc[m] = "accepted" /\ watch[m] = "pending"}
<1>1. \A m \in Msgs : Call[m] = "accepted" <=> apc[m] = "accepted"
  BY Zenon DEF Call, CallOf
<1>2. \A m \in Msgs : Outcome[m] = "pending" <=> watch[m] = "pending"
  BY Zenon DEF Outcome
<1> QED
  BY <1>1, <1>2, Zenon DEF Buffer!Accepted, Buffer!Pending

\* AppendContext begins, accepts, refuses or panics, or the caller sees nothing.
LEMMA BufferAppend ==
  ASSUME TypeOK, PipelineFlow, NEW m \in Msgs, AppendStart(m) \/ AppendStep(m)
  PROVE  [Buffer!Next]_(Buffer!vars)
<1>1. AppendFrame
  BY Zenon DEF AppendStart, AppendStep, AppendReserve, AppendBlocks, AppendReserveFails,
               AppendSend, AppendSendOnClosed, AppendSendFails
<1>2. UNCHANGED <<Outcome, Durable, Flushed, Closing>>
  BY <1>1, Zenon DEF AppendFrame, Outcome, Durable, Flushed, Closing, MsgsOf, Ordinals
<1>3. apc \in [Msgs -> AppendStates]
  BY Zenon DEF TypeOK, AppendTypes
<1>4. ASSUME NEW pc, AppendGoesTo(m, pc) PROVE Call' = [Call EXCEPT ![m] = CallOf(pc)]
  <2>1. \A n \in Msgs : apc'[n] = IF n = m THEN pc ELSE apc[n]
    BY <1>3, <1>4, Zenon DEF AppendGoesTo
  <2>2. \A n \in Msgs : CallOf(apc'[n]) = IF n = m THEN CallOf(pc) ELSE CallOf(apc[n])
    BY <2>1, Zenon
  <2>3. Call' = [n \in Msgs |-> IF n = m THEN CallOf(pc) ELSE CallOf(apc[n])]
    BY <2>2, Zenon DEF Call
  <2>4. [Call EXCEPT ![m] = CallOf(pc)]
          = [n \in Msgs |-> IF n = m THEN CallOf(pc) ELSE CallOf(apc[n])]
    BY Zenon DEF Call
  <2> QED
    BY <2>3, <2>4, Zenon
<1>5. Call[m] = CallOf(apc[m])
  BY Zenon DEF Call
<1>6. CASE AppendStart(m)
  <2>1. PICK pc \in {"ErrProducerHalted", "reserve"} : apc[m] = "idle" /\ AppendGoesTo(m, pc)
    BY <1>6, Zenon DEF AppendStart
  <2>2. Call[m] = "idle" /\ (CallOf(pc) = "refused" \/ CallOf(pc) = "open")
    BY <1>5, <2>1, Zenon DEF CallOf
  <2>3. Call' = [Call EXCEPT ![m] = CallOf(pc)]
    BY <1>4, <2>1, Zenon
  <2>4. Buffer!Begin(m) \/ Buffer!Refuse(m)
    BY <1>2, <2>2, <2>3, Zenon DEF Buffer!Begin, Buffer!Refuse, Buffer!CallGoesTo
  <2> QED
    BY <2>4, Zenon DEF Buffer!Next
<1>7. CASE AppendReserve(m) \/ AppendBlocks(m)
  <2>1. PICK pc \in {"send", "blocked"} : apc[m] \in {"reserve", "blocked"} /\ AppendGoesTo(m, pc)
    BY <1>7, Zenon DEF AppendReserve, AppendBlocks
  <2>2. Call[m] = "open" /\ CallOf(pc) = "open"
    BY <1>5, <2>1, Zenon DEF CallOf
  <2>3. Call' = [Call EXCEPT ![m] = CallOf(pc)]
    BY <1>4, <2>1, Zenon
  <2>4. Call' = Call
    <3>1. Call \in [Msgs -> {CallOf(apc[n]) : n \in Msgs}]
      BY Zenon DEF Call
    <3> QED
      BY <2>2, <2>3, <3>1, Zenon
  <2> QED
    BY <1>2, <2>4, Zenon DEF Buffer!vars
<1>8. CASE AppendReserveFails(m) \/ AppendSendFails(m)
  <2>1. PICK pc \in {"ctx", "ErrShutdown"} : apc[m] \in {"send", "blocked"} /\ AppendGoesTo(m, pc)
    BY <1>8, Zenon DEF AppendReserveFails, AppendSendFails
  <2>2. Call[m] = "open" /\ CallOf(pc) = "refused"
    BY <1>5, <2>1, Zenon DEF CallOf
  <2>3. Call' = [Call EXCEPT ![m] = CallOf(pc)]
    BY <1>4, <2>1, Zenon
  <2>4. Buffer!Refuse(m)
    BY <1>2, <2>2, <2>3, Zenon DEF Buffer!Refuse, Buffer!CallGoesTo
  <2> QED
    BY <2>4, Zenon DEF Buffer!Next
<1>9. CASE AppendSend(m)
  <2>1. apc[m] = "send" /\ AppendGoesTo(m, "accepted") /\ clpc \in {"idle", "flush"}
    BY <1>9, Zenon DEF AppendSend, PipelineFlow, RotatorFlow
  <2>2. Call[m] = "open" /\ CallOf("accepted") = "accepted" /\ Closing \in {"open", "closing"}
    BY <1>5, <2>1, Zenon DEF CallOf, Closing
  <2>3. Call' = [Call EXCEPT ![m] = "accepted"]
    BY <1>4, <2>1, <2>2, Zenon
  <2>4. Buffer!Accept(m)
    BY <1>2, <2>2, <2>3, Zenon DEF Buffer!Accept, Buffer!CallGoesTo
  <2> QED
    BY <2>4, Zenon DEF Buffer!Next
<1>10. CASE AppendSendOnClosed(m)
  <2>1. apc[m] = "send" /\ AppendGoesTo(m, "panicked") /\ clpc \notin {"idle", "flush"}
    BY <1>10, Zenon DEF AppendSendOnClosed, PipelineFlow, RotatorFlow
  <2>2. Call[m] = "open" /\ CallOf("panicked") = "panicked" /\ Closing # "open"
    BY <1>5, <2>1, Zenon DEF CallOf, Closing
  <2>3. Call' = [Call EXCEPT ![m] = "panicked"]
    BY <1>4, <2>1, <2>2, Zenon
  <2>4. Buffer!Panic(m)
    BY <1>2, <2>2, <2>3, Zenon DEF Buffer!Panic, Buffer!CallGoesTo
  <2> QED
    BY <2>4, Zenon DEF Buffer!Next
<1> QED
  BY <1>6, <1>7, <1>8, <1>9, <1>10, Zenon DEF AppendStep

\* Resolving the watchers of a set of pending messages.
LEMMA BufferSettles ==
  ASSUME NEW S \in SUBSET Buffer!Pending, NEW e \in Errors, watch' = WatchersResolved(S, e),
         UNCHANGED <<Call, Durable, Flushed, Closing>>
  PROVE  Buffer!Settle(S, IF e = "nil" THEN "nil" ELSE "error")
<1>1. \A m \in S : watch[m] = "pending"
  BY BufferSets, Zenon
<1>2. \A m \in Msgs : watch'[m] = IF m \in S THEN e ELSE watch[m]
  BY <1>1, Zenon DEF WatchersResolved
<1>3. e # "pending"
  BY Zenon DEF Errors
<1>4. \A m \in Msgs : Outcome'[m] = IF m \in S THEN (IF e = "nil" THEN "nil" ELSE "error")
                                    ELSE Outcome[m]
  BY <1>2, <1>3 DEF Outcome
<1>5. Outcome' = [m \in Msgs |-> Outcome'[m]]
  BY Zenon DEF Outcome
<1>6. Outcome' = [m \in Msgs |-> IF m \in S THEN (IF e = "nil" THEN "nil" ELSE "error")
                                 ELSE Outcome[m]]
  BY <1>4, <1>5, Zenon
<1> QED
  BY <1>6, Zenon DEF Buffer!Settle

\* What the observer was told of is in batches.
LEMMA ObservedBatches ==
  ASSUME MessageFlow
  PROVE  /\ observed \subseteq Ordinals
         /\ \A o \in observed : stage[o] \in {"resolving", "done"}
BY Zenon DEF MessageFlow, ObserverFlow, In

\* The rotator is invisible until it drops a batch, after a forced Close.
LEMMA BufferRotator ==
  ASSUME TypeOK, Durability, PipelineFlow, MessageFlow, ManifestFlow, Rotator
  PROVE  [Buffer!Next]_(Buffer!vars)
<1>1. CASE RotatorAcquire
  <2>1. /\ nextOrdinal \in Nat /\ Ordinals' = Ordinals \cup {nextOrdinal}
        /\ nextOrdinal \notin Ordinals
        /\ UNCHANGED <<apc, watch, manifest, observed, clpc>>
    <3>1. nextOrdinal' = nextOrdinal + 1 /\ UNCHANGED <<apc, watch, manifest, observed, clpc>>
      BY <1>1, Zenon DEF RotatorAcquire, EmitFrame
    <3> QED
      BY <3>1 DEF Ordinals, TypeOK, RotatorTypes
  <2>2. \A o \in Ordinals : batches'[o] = batches[o]
    BY <1>1, <2>1 DEF RotatorAcquire, WithNext, Ordinals
  <2>3. nextOrdinal \notin Range(manifest)
    <3>1. nextOrdinal # Other
      BY <2>1, EnvironmentAssumption, Zenon
    <3> QED
      BY <2>1, <3>1, Zenon DEF ManifestFlow, CommittedFlow, Durability, EntriesHaveObjects
  <2>4. Range(manifest') \cap Ordinals' = Range(manifest) \cap Ordinals
    BY <2>1, <2>3, Zenon
  <2>5. \A O \in SUBSET Ordinals : UNION {Range(batches'[o].msgs) : o \in O} = MsgsOf(O)
    BY <2>2, Zenon DEF MsgsOf
  <2>6. Durable' = Durable
    BY <2>4, <2>5, Zenon DEF Durable, MsgsOf
  <2>7. Flushed' = Flushed
    BY <2>1, <2>5, ObservedBatches, Zenon DEF Flushed, MsgsOf
  <2>8. UNCHANGED <<Call, Outcome, Closing>>
    BY <2>1, Zenon DEF Call, Outcome, Closing
  <2> QED
    BY <2>6, <2>7, <2>8, Zenon DEF Buffer!vars
<1>2. CASE RotatorDrop
  <2> DEFINE S == Range(acc.msgs)
  <2>1. /\ UNCHANGED <<apc, manifest, batches, nextOrdinal, observed, clpc>> /\ shutdown
        /\ watch' = WatchersResolved(S, "ErrShutdown")
    BY <1>2, Zenon DEF RotatorDrop, EmitFrame
  <2>2. UNCHANGED <<Call, Durable, Flushed, Closing>>
    BY <2>1, Zenon DEF Call, Durable, Flushed, Closing, MsgsOf, Ordinals
  <2>3. S \subseteq Waiting /\ Waiting \subseteq Msgs
    BY MessagesTyped, Zenon DEF Waiting
  <2>4. S \in SUBSET Buffer!Pending
    BY <2>3, BufferSets, Zenon DEF MessageFlow, WatchersFlow
  <2>5. S \cap Flushed = {}
    <3>1. \A o \in observed : Range(batches[o].msgs) \cap Waiting = {}
      BY ObservedBatches, Zenon DEF MessageFlow, OnePlace
    <3> QED
      BY <2>3, <3>1, MsgsOfBatches DEF Flushed
  <2>6. Closing = "forced"
    BY <2>1, Zenon DEF PipelineFlow, RotatorFlow, Closing
  <2>7. Buffer!Settle(S, "error")
    <3> HIDE DEF S
    <3>1. "ErrShutdown" \in Errors
      BY Zenon DEF Errors
    <3> QED
      BY <2>1, <2>2, <2>4, <3>1, BufferSettles, Zenon
  <2>8. Buffer!Drop(S)
    BY <2>4, <2>5, <2>6, <2>7, Zenon DEF Buffer!Drop
  <2> QED
    BY <2>4, <2>8, Zenon DEF Buffer!Next
<1>3. CASE ~RotatorAcquire /\ ~RotatorDrop
  <2>1. SelectFrame
    BY <1>3, Zenon DEF Rotator, RotatorReceive, RotatorClosed, RotatorTimer, RotatorFlush,
                       RotatorDrain, RotatorDrained, RotatorBlocks
  <2> QED
    BY <2>1, BufferStutters, Zenon DEF SelectFrame
<1> QED
  BY <1>1, <1>2, <1>3, Zenon

\* A write of the manifest stores the messages of the committer's group.
LEMMA BufferCas ==
  ASSUME TypeOK, Durability, MessageFlow, ManifestFlow, CommitterStore
  PROVE  [Buffer!Next]_(Buffer!vars)
<1>1. CasFrame
  BY Zenon DEF CommitterStore, CommitterRead, CommitterReadFails, CommitterPut,
               CommitterConflict, CommitterPutFails
<1>2. UNCHANGED <<apc, watch, batches, nextOrdinal, observed, clpc>>
  BY <1>1, Zenon DEF CasFrame
<1>3. CASE UNCHANGED manifest
  BY <1>2, <1>3, BufferStutters, Zenon
<1>4. CASE WriteManifest /\ cpc = "put" /\ unacked \subseteq unacked'
  <2> DEFINE S == MsgsOf(Range(group)) \ Durable
  <2>1. Range(group) \subseteq Ordinals
    BY Zenon DEF Durability, GroupSound, Range
  <2>2. Range(manifest') = Range(manifest) \cup Range(group)
    BY <1>1, <1>4, WriteManifestOrders, Zenon
  <2>3. Ordinals' = Ordinals
    BY <1>2, Zenon DEF Ordinals
  <2>4. Range(manifest') \cap Ordinals' = (Range(manifest) \cap Ordinals) \cup Range(group)
    BY <2>1, <2>2, <2>3, Zenon
  <2>5. Durable' = UNION {Range(batches[o].msgs) :
                            o \in (Range(manifest) \cap Ordinals) \cup Range(group)}
    BY <1>2, <2>4, Zenon DEF Durable, MsgsOf
  <2>6. Durable' = Durable \cup S
    BY <2>5, Zenon DEF Durable, MsgsOf
  <2>7. S \subseteq Buffer!Accepted
    <3>1. \A m \in MsgsOf(Range(group)) : m \in MsgsOf(Ordinals)
      BY <2>1, MsgsOfBatches, Zenon
    <3>2. \A m \in MsgsOf(Ordinals) : m \in Msgs /\ apc[m] = "accepted"
      BY MessagesTyped, MsgsOfBatches, Zenon DEF MessageFlow, WatchersFlow
    <3> QED
      BY <3>1, <3>2, BufferSets, Zenon
  <2>8. UNCHANGED <<Call, Outcome, Flushed, Closing>>
    BY <1>2, Zenon DEF Call, Outcome, Flushed, Closing, MsgsOf
  <2>9. Buffer!Store(S)
    BY <2>6, <2>7, <2>8, Zenon DEF Buffer!Store
  <2>10. S \in SUBSET (Buffer!Accepted \ Durable)
    BY <2>7, Zenon
  <2> QED
    BY <2>9, <2>10, Zenon DEF Buffer!Next
<1>5. UNCHANGED manifest \/ (WriteManifest /\ cpc = "put" /\ unacked \subseteq unacked')
  <2>1. CASE CommitterRead \/ CommitterReadFails \/ CommitterConflict
    BY <2>1, Zenon DEF CommitterRead, CommitterReadFails, CommitterConflict
  <2>2. CASE CommitterPut \/ CommitterPutFails
    BY <2>2, Zenon DEF CommitterPut, CommitterPutFails
  <2> QED
    BY <2>1, <2>2, Zenon DEF CommitterStore
<1> QED
  BY <1>3, <1>4, <1>5, Zenon

\* The resolver tells the observer of a batch, then resolves its watchers.
LEMMA BufferResolver ==
  ASSUME TypeOK, Durability, MessageFlow, Resolver
  PROVE  [Buffer!Next]_(Buffer!vars)
<1>1. ResolverFrame
  BY Zenon DEF Resolver, ResolverObserve, ResolverWatchers, ResolverAck, ResolverRelease,
               ResolverExit
<1>2. UNCHANGED <<apc, manifest, batches, nextOrdinal, clpc>>
  BY <1>1, Zenon DEF ResolverFrame
<1> DEFINE S == Range(batches[cur].msgs)
<1>3. ASSUME vpc \in {"observe", "watchers"}
      PROVE  /\ cur \in Ordinals /\ stage[cur] = "resolving"
             /\ S \in SUBSET Buffer!Pending
             /\ observed \subseteq Ordinals
  <2>1. cur \in Ordinals /\ stage[cur] = "resolving"
    BY <1>3, Zenon DEF Durability, HandoffSound
  <2>2. \A m \in S : watch[m] = "pending"
    BY <1>3, <2>1, Zenon DEF MessageFlow, WatchersFlow, Unresolved
  <2>3. \A m \in S : m \in MsgsOf(Ordinals)
    BY <2>1, MsgsOfBatches, Zenon
  <2>4. \A m \in S : m \in Msgs /\ apc[m] = "accepted"
    BY <2>1, <2>3, MessagesTyped, Zenon DEF MessageFlow, WatchersFlow
  <2> QED
    BY <2>1, <2>2, <2>4, BufferSets, ObservedBatches, Zenon
<1>4. CASE ResolverObserve
  <2>1. vpc = "observe" /\ observed' = observed \cup {cur} /\ UNCHANGED watch
    BY <1>4, Zenon DEF ResolverObserve
  <2>2. Flushed' = Flushed \cup S
    BY <1>2, <2>1, Zenon DEF Flushed, MsgsOf
  <2>3. S \cap Flushed = {}
    <3>1. cur \notin observed
      BY <1>3, <2>1, Zenon DEF MessageFlow, ObserverFlow, In
    <3>2. \A o \in observed : Range(batches[o].msgs) \cap S = {}
      BY <1>3, <2>1, <3>1, Zenon DEF MessageFlow, OnePlace
    <3> QED
      BY <3>2, MsgsOfBatches DEF Flushed
  <2>4. UNCHANGED <<Call, Outcome, Durable, Closing>>
    BY <1>2, <2>1, Zenon DEF Call, Outcome, Durable, Closing, MsgsOf, Ordinals
  <2>5. Buffer!OnFlush(S)
    BY <1>3, <2>1, <2>2, <2>3, <2>4, Zenon DEF Buffer!OnFlush
  <2> QED
    BY <1>3, <2>1, <2>5, Zenon DEF Buffer!Next
<1>5. CASE ResolverWatchers
  <2>1. /\ vpc = "watchers" /\ UNCHANGED observed
        /\ watch' = WatchersResolved(S, err[cur])
    BY <1>5, Zenon DEF ResolverWatchers
  <2> DEFINE e == IF err[cur] = "nil" THEN "nil" ELSE "error"
  <2>2. UNCHANGED <<Call, Durable, Flushed, Closing>>
    BY <1>2, <2>1, Zenon DEF Call, Durable, Flushed, Closing, MsgsOf, Ordinals
  <2>3. S \subseteq Flushed
    <3>1. cur \in observed
      BY <1>3, <2>1, Zenon DEF MessageFlow, ObserverFlow, In
    <3> QED
      BY <3>1, MsgsOfBatches, Zenon DEF Flushed
  <2>4. ASSUME e = "nil" PROVE S \subseteq Durable
    <3>1. cur \in Range(manifest) \cap Ordinals
      BY <1>3, <2>1, <2>4, Zenon DEF Durability, StagesSound
    <3> QED
      BY <3>1, MsgsOfBatches, Zenon DEF Durable
  <2>5. Buffer!Settle(S, e)
    <3>1. err[cur] \in Errors
      BY <1>3, <2>1, Zenon DEF TypeOK, BatchTypes
    <3> HIDE DEF S
    <3> QED
      BY <1>3, <2>1, <2>2, <3>1, BufferSettles, Zenon
  <2>6. Buffer!Resolve(S, e)
    BY <1>3, <2>1, <2>3, <2>4, <2>5, Zenon DEF Buffer!Resolve
  <2>7. e \in {"nil", "error"}
    OBVIOUS
  <2> QED
    BY <1>3, <2>1, <2>6, <2>7, Zenon DEF Buffer!Next
<1>6. CASE ResolverAck \/ ResolverRelease \/ ResolverExit
  <2>1. UNCHANGED <<watch, observed>>
    BY <1>6, Zenon DEF ResolverAck, ResolverRelease, ResolverExit
  <2> QED
    BY <1>2, <2>1, BufferStutters, Zenon
<1> QED
  BY <1>4, <1>5, <1>6, Zenon DEF Resolver

\* Close returns without ctx.Err() only when nothing is left to resolve.
LEMMA BufferClose ==
  ASSUME TypeOK, PipelineFlow, MessageFlow, CloseStart \/ CloseCtxFires \/ Close
  PROVE  [Buffer!Next]_(Buffer!vars)
<1>1. UNCHANGED <<apc, watch, manifest, batches, nextOrdinal, observed>>
  <2>1. FlushFrame \/ CloseFrame
    BY Zenon DEF CloseStart, CloseCtxFires, Close, CloseAppendCh, CloseDone, CloseCancel,
                 CloseForced
  <2> QED
    BY <2>1, Zenon DEF FlushFrame, CloseFrame
<1>2. UNCHANGED <<Call, Outcome, Durable, Flushed>>
  BY <1>1, Zenon DEF Call, Outcome, Durable, Flushed, MsgsOf, Ordinals
<1>3. CASE CloseStart
  <2>1. Closing = "open" /\ Closing' = "closing"
    BY <1>3, Zenon DEF CloseStart, Closing
  <2> QED
    BY <1>2, <2>1, Zenon DEF Buffer!CloseBegin, Buffer!CloseGoesTo, Buffer!Next
<1>4. CASE CloseCtxFires
  BY <1>1, <1>4, BufferStutters, Zenon DEF CloseCtxFires
<1>5. CASE CloseAppendCh \/ CloseCancel
  <2>1. UNCHANGED Closing
    BY <1>5, Zenon DEF CloseAppendCh, CloseCancel, Closing
  <2> QED
    BY <1>2, <2>1, Zenon DEF Buffer!vars
<1>6. CASE CloseDone
  <2>1. Closing = "closing" /\ Closing' = "closed" /\ vpc = "done"
    BY <1>6, Zenon DEF CloseDone, AllDone, Closing
  <2>2. \A m \in Range(accepted) : watch[m] # "pending"
    BY <2>1, NothingLeft, Zenon DEF Resolved
  <2>3. Buffer!Pending = {}
    BY <2>2, BufferSets, Zenon DEF MessageFlow, WatchersFlow
  <2> QED
    BY <1>2, <2>1, <2>3, Zenon DEF Buffer!CloseEnd, Buffer!CloseGoesTo, Buffer!Next
<1>7. CASE CloseForced
  <2>1. Closing = "closing" /\ Closing' = "forced"
    BY <1>7, Zenon DEF CloseForced, Closing
  <2> QED
    BY <1>2, <2>1, Zenon DEF Buffer!CloseForce, Buffer!CloseGoesTo, Buffer!Next
<1> QED
  BY <1>3, <1>4, <1>5, <1>6, <1>7, Zenon DEF Close

\* Every step of the producer is a step of the buffer or invisible in it.
LEMMA BufferStep ==
  ASSUME TypeOK, Durability, PipelineFlow, MessageFlow, ManifestFlow, [Next]_vars
  PROVE  [Buffer!Next]_(Buffer!vars)
<1>1. CASE \/ Encoders
           \/ \E o \in Ordinals : UploadStep(o)
           \/ UploaderPoolExit
  <2>1. WorkFrame
    BY <1>1, Zenon DEF Encoders, EncoderReceive, EncoderPoolExit, EncoderSend, EncoderFails,
                       UploadStep, UploadOk, UploadFails, UploadAborted, UploaderPoolExit
  <2> QED
    BY <2>1, BufferStutters, Zenon DEF WorkFrame
<1>2. CASE CommitterLocal
  <2>1. DrainFrame
    BY <1>2, Zenon DEF CommitterLocal, CommitterGather, CommitterClosed, CommitterReceiveHalted,
                       CommitterTake, CommitterTaken, CommitterRetry, CommitterAborted,
                       CommitterResolve, CommitterResolved
  <2> QED
    BY <2>1, BufferStutters, Zenon DEF DrainFrame
<1>3. ASSUME NEW f \in FlushCalls, FlushStart(f) \/ FlushStep(f)
      PROVE  [Buffer!Next]_(Buffer!vars)
  <2>1. FlushFrame /\ UNCHANGED closeVars
    BY <1>3, Zenon DEF FlushStart, FlushStep, FlushAck, FlushDrained, FlushBlocks, FlushShutdown,
                       FlushCtx
  <2> QED
    BY <2>1, BufferStutters, Zenon DEF FlushFrame, closeVars
<1>4. CASE OtherWrite
  <2>1. /\ manifest \in Seq(Nat \cup {Other}) /\ manifest' = Append(manifest, Other)
        /\ UNCHANGED <<apc, watch, batches, nextOrdinal, observed, clpc>>
    BY <1>4, Zenon DEF OtherWrite, TypeOK, StoreTypes
  <2>2. Range(manifest') = Range(manifest) \cup {Other}
    BY <2>1, RangeOfAppend
  <2>3. Ordinals' = Ordinals /\ Other \notin Ordinals
    BY <2>1, EnvironmentAssumption DEF Ordinals
  <2>4. Range(manifest') \cap Ordinals' = Range(manifest) \cap Ordinals
    BY <2>2, <2>3, Zenon
  <2>5. UNCHANGED <<Call, Outcome, Durable, Flushed, Closing>>
    BY <2>1, <2>4, Zenon DEF Call, Outcome, Durable, Flushed, Closing, MsgsOf
  <2> QED
    BY <2>5, Zenon DEF Buffer!vars
<1>5. CASE UNCHANGED vars
  BY <1>5, BufferStutters, Zenon DEF vars
<1> QED
  BY <1>1, <1>2, <1>3, <1>4, <1>5, BufferAppend, BufferRotator, BufferCas, BufferResolver,
     BufferClose, Zenon
  DEF Next, Terminated

\* For every configuration, every number of callers and every fault the model
\* has: the pipelined producer implements DurableBuffer, so whatever holds of
\* the abstract buffer holds of what callers, observer and consumers see.
THEOREM ProducerImplementsBuffer == Spec => ImplementsBuffer
<1>1. Init => Buffer!Init
  BY BufferInit, Zenon
<1>2. TypeOK /\ Durability /\ PipelineFlow /\ MessageFlow /\ ManifestFlow /\ [Next]_vars
      => [Buffer!Next]_(Buffer!vars)
  BY BufferStep, Zenon
<1> QED
  BY <1>1, <1>2, TypeCorrect, DurabilityInvariant, PipelineInvariant, MessageInvariant,
     ManifestInvariant, PTL
  DEF Spec, ImplementsBuffer, Buffer!Spec
=============================================================================
