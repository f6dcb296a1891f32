------------------------ MODULE ManifestQueueProofs ------------------------
(* Proofs about ManifestQueue: its invariants, and that it implements DurableLog. *)
EXTENDS ManifestQueue, SequenceTheorems, TLAPS

-----------------------------------------------------------------------------
(* Sequences *)

\* A function on 1 .. n is a sequence of length n.
LEMMA FunctionIsSeq ==
  ASSUME NEW S, NEW n \in Nat, NEW f \in [1 .. n -> S]
  PROVE  f \in Seq(S) /\ Len(f) = n
OBVIOUS

\* Concatenation is associative.
LEMMA RegroupConcat ==
  ASSUME NEW S, NEW a \in Seq(S), NEW b \in Seq(S), NEW c \in Seq(S)
  PROVE  a \o (b \o c) = (a \o b) \o c
OBVIOUS

\* What a counter has passed it has passed for good.
LEMMA StaysBelow ==
  ASSUME NEW a \in Nat, NEW t \in Nat, a <= t, NEW u, u = t \/ u = t + 1
  PROVE  a <= u
OBVIOUS

\* Updating one place of a function of functions.
LEMMA NestedUpdate ==
  ASSUME NEW P, NEW G, NEW V, NEW f \in [P -> [G -> V]], NEW p \in P, NEW g \in G, NEW v
  PROVE  \A q \in P, h \in G :
           [f EXCEPT ![p] = [f[p] EXCEPT ![g] = v]][q][h] = IF q = p /\ h = g THEN v ELSE f[q][h]
OBVIOUS

\* Cutting a sequence in two loses nothing.
LEMMA SplitSeq ==
  ASSUME NEW S, NEW s \in Seq(S), NEW n \in 0 .. Len(s)
  PROVE  /\ SubSeq(s, 1, n) \in Seq(S) /\ SubSeq(s, n + 1, Len(s)) \in Seq(S)
         /\ Len(SubSeq(s, n + 1, Len(s))) = Len(s) - n
         /\ SubSeq(s, 1, n) \o SubSeq(s, n + 1, Len(s)) = s
<1>1. SubSeq(s, 1, n) \in Seq(S) /\ SubSeq(s, n + 1, Len(s)) \in Seq(S)
  OBVIOUS
<1>2. Len(SubSeq(s, n + 1, Len(s))) = Len(s) - n
  OBVIOUS
<1>3. 1 \in 1 .. Len(s) + 1 /\ n \in 1 - 1 .. Len(s) /\ Len(s) \in n .. Len(s)
  OBVIOUS
<1>4. SubSeq(s, 1, n) \o SubSeq(s, n + 1, Len(s)) = SubSeq(s, 1, Len(s))
  BY <1>3, ConcatAdjacentSubSeq, Zenon
<1>5. SubSeq(s, 1, Len(s)) = s
  BY SubSeqFull, Zenon
<1> QED
  BY <1>1, <1>2, <1>4, <1>5, Zenon

-----------------------------------------------------------------------------
(* Types *)

USE QueueAssumption DEF storeVars, consVars, rateVars, NoAnswer

\* append and toBytes make a manifest of a manifest.
LEMMA AppendedType ==
  ASSUME NEW m \in Manifests, NEW p \in Producers, NEW g \in 1 .. Groups
  PROVE  /\ Appended(m, p, g) \in Manifests
         /\ L!Numbered(p, g, m.nextSequence) \in Seq(QueueEntry)
         /\ Len(L!Numbered(p, g, m.nextSequence)) = Size[p][g]
         /\ Size[p][g] \in Nat \ {0}
         /\ Appended(m, p, g).entries = m.entries \o L!Numbered(p, g, m.nextSequence)
         /\ Appended(m, p, g).count = m.count + Size[p][g]
         /\ Appended(m, p, g).nextSequence = m.nextSequence + Size[p][g]
<1>1. Size[p][g] \in Nat \ {0}
  OBVIOUS
<1> DEFINE new == L!Numbered(p, g, m.nextSequence)
<1>2. new \in Seq(QueueEntry) /\ Len(new) = Size[p][g]
  <2>1. \A i \in 1 .. Size[p][g] :
          [sequence |-> m.nextSequence + i - 1, location |-> <<p, g, i>>]
            \in QueueEntry
    BY <1>1 DEF Manifests, QueueEntry
  <2>2. new \in [1 .. Size[p][g] -> QueueEntry]
    BY <2>1, Zenon DEF L!Numbered
  <2> HIDE DEF new
  <2> QED
    BY <1>1, <2>2, FunctionIsSeq, Zenon
<1>3. Appended(m, p, g).entries = m.entries \o new
  BY Zenon DEF Appended, L!Numbered
<1> HIDE DEF new
<1>4. m.entries \o new \in Seq(QueueEntry)
  BY <1>2 DEF Manifests
<1>5. Appended(m, p, g) \in Manifests
  <2>1. Appended(m, p, g) = [entries |-> m.entries \o new, count |-> m.count + Size[p][g],
                             nextSequence |-> m.nextSequence + Size[p][g], epoch |-> m.epoch]
    BY Zenon DEF Appended, L!Numbered, new
  <2> QED
    BY <1>1, <1>4, <2>1, SMTT(30) DEF Manifests
<1> QED
  BY <1>1, <1>2, <1>3, <1>5, Zenon DEF Appended, new

\* Initially every variable has its type.
LEMMA TypeInit == Init => TypeOK
BY DEF Init, TypeOK, emptyManifest, Manifests

\* An attempt that fails only moves its committer.
LEMMA AttemptFailsType ==
  ASSUME TypeOK, NEW p \in Producers, AttemptFails(p) PROVE TypeOK'
BY Zenon DEF AttemptFails, QueueFrame, TypeOK

\* What the store does to the manifest keeps the types.
LEMMA ApplyType ==
  ASSUME TypeOK, RequestsSound, NEW r \in requests, Apply(r)
  PROVE  /\ manifest' \in Manifests /\ manifest'.count <= MaxEntries /\ version' \in Nat
         /\ landed' \subseteq Attempts
BY DEF Apply, TypeOK, RequestsSound

\* A quotient of counts is a count.
LEMMA QuotientType == ASSUME NEW a \in Nat, NEW b \in Nat \ {0} PROVE a \div b \in Nat
OBVIOUS

\* Every step keeps the types.
LEMMA TypeStep ==
  ASSUME TypeOK, CommitterSound, RequestsSound, Numbering, [Next]_vars PROVE TypeOK'
<1>1. ASSUME NEW p \in Producers, Attempt(p) PROVE TypeOK'
  <2>1. group[p] \in 1 .. Groups /\ tries[p][group[p]] < ManifestMaxAttempts
    <3>1. CASE pc[p] = "idle" /\ group[p] <= Groups
      <4>1. group[p] \in 1 .. Groups
        BY <3>1 DEF TypeOK
      <4>2. tries[p][group[p]] = 0
        BY <3>1, <4>1, Zenon DEF CommitterSound
      <4> QED
        BY <4>1, <4>2
    <3>2. CASE pc[p] = "backoff"
      BY <3>2 DEF TypeOK, CommitterSound
    <3> QED
      BY <1>1, <3>1, <3>2, Zenon DEF Attempt
  <2>2. tries' \in [Producers -> [1 .. Groups -> 0 .. ManifestMaxAttempts]]
    <3>1. tries[p] \in [1 .. Groups -> 0 .. ManifestMaxAttempts]
      BY Zenon DEF TypeOK
    <3>2. [tries[p] EXCEPT ![group[p]] = @ + 1] \in [1 .. Groups -> 0 .. ManifestMaxAttempts]
      BY <2>1, <3>1, SMTT(30)
    <3> QED
      BY <1>1, <3>2, Zenon DEF Attempt, TypeOK
  <2> QED
    BY <1>1, <2>2, Zenon DEF Attempt, QueueFrame, TypeOK
<1>2. ASSUME NEW p \in Producers, ReadFails(p) \/ TooManyEntries(p) \/ PutFails(p) PROVE TypeOK'
  BY <1>2, AttemptFailsType, Zenon DEF ReadFails, TooManyEntries, PutFails
<1>3. ASSUME NEW p \in Producers, ReadAndSend(p) PROVE TypeOK'
  <2>1. group[p] \in 1 .. Groups /\ tries[p][group[p]] \in 1 .. ManifestMaxAttempts
    BY <1>3, SMTT(30) DEF ReadAndSend, TypeOK, CommitterSound
  <2>2. Appended(manifest, p, group[p]) \in Manifests /\ Current(p) \in Attempts
    BY <2>1, AppendedType, Zenon DEF TypeOK, Current, Attempts
  <2>3. requests' \subseteq [by : Attempts, version : Nat, data : Manifests, again : BOOLEAN]
    BY <1>3, <2>2 DEF ReadAndSend, TypeOK
  <2>4. writeCount' \in [Producers -> Nat]
    BY <1>3 DEF ReadAndSend, TypeOK
  <2>5. pc' \in [Producers -> {"idle", "read", "put", "backoff", "halted"}]
    BY <1>3, Zenon DEF ReadAndSend, TypeOK
  <2> QED
    BY <1>3, <2>3, <2>4, <2>5, Zenon DEF ReadAndSend, QueueFrame, TypeOK
<1>4. ASSUME NEW p \in Producers, Committed(p) PROVE TypeOK'
  <2>1. pc[p] = "put" /\ group[p] \in 1 .. Groups
    BY <1>4 DEF Committed, TypeOK, CommitterSound
  <2>2. group' \in [Producers -> 1 .. Groups + 1]
    <3>1. group[p] + 1 \in 1 .. Groups + 1
      BY <2>1
    <3> QED
      BY <1>4, <3>1, Zenon DEF Committed, TypeOK
  <2>3. acked' \subseteq Producers \X (1 .. Groups)
    <3>1. acked \subseteq Producers \X (1 .. Groups) /\ acked' = acked \cup {<<p, group[p]>>}
      BY <1>4, Zenon DEF Committed, TypeOK
    <3>2. <<p, group[p]>> \in Producers \X (1 .. Groups)
      BY <2>1, Zenon
    <3> QED
      BY <3>1, <3>2, Zenon
  <2> QED
    BY <1>4, <2>2, <2>3, Zenon DEF Committed, QueueFrame, TypeOK
<1>5. ASSUME NEW p \in Producers, Conflict(p) PROVE TypeOK'
  <2>1. conflictCount' \in [Producers -> Nat]
    BY <1>5 DEF Conflict, TypeOK
  <2>2. pc' \in [Producers -> {"idle", "read", "put", "backoff", "halted"}]
    BY <1>5, Zenon DEF Conflict, TypeOK
  <2>3. answer' \in [Producers -> {NoAnswer, "ok", "precondition"}]
    BY <1>5, Zenon DEF Conflict, TypeOK
  <2> QED
    BY <1>5, <2>1, <2>2, <2>3, Zenon DEF Conflict, QueueFrame, TypeOK
<1>6. ASSUME NEW p \in Producers, Stop(p) PROVE TypeOK'
  BY <1>6, Zenon DEF Stop, QueueFrame, TypeOK
<1>7. ASSUME NEW r \in requests, HandlePut(r) PROVE TypeOK'
  <2>1. requests' \subseteq requests
    BY <1>7, Zenon DEF HandlePut
  <2>2. answer' \in [Producers -> {NoAnswer, "ok", "precondition"}]
    BY <1>7, Zenon DEF HandlePut, TypeOK
  <2>3. Apply(r)
    BY <1>7, Zenon DEF HandlePut
  <2> QED
    BY <1>7, <2>1, <2>2, <2>3, ApplyType, Zenon DEF HandlePut, StoreFrame, TypeOK
<1>8. ASSUME NEW r \in requests, HandlePutTwice(r) PROVE TypeOK'
  <2>1. requests' \subseteq [by : Attempts, version : Nat, data : Manifests, again : BOOLEAN]
    BY <1>8, Zenon DEF HandlePutTwice, TypeOK
  <2>2. Apply(r)
    BY <1>8, Zenon DEF HandlePutTwice
  <2> QED
    BY <1>8, <2>1, <2>2, ApplyType, Zenon DEF HandlePutTwice, StoreFrame, TypeOK
<1>9. ASSUME NEW n \in 0 .. Len(manifest.entries), NEW e \in 0 .. 1, Trim(n, e) PROVE TypeOK'
  <2>1. manifest.entries \in Seq(QueueEntry) /\ consumed \in Seq(QueueEntry)
    BY Zenon DEF TypeOK, Manifests
  <2>2. SubSeq(manifest.entries, 1, n) \in Seq(QueueEntry)
        /\ SubSeq(manifest.entries, n + 1, Len(manifest.entries)) \in Seq(QueueEntry)
    BY <2>1, SplitSeq, Zenon
  <2>3. manifest.count - n \in Nat /\ manifest.count - n <= MaxEntries
    BY DEF TypeOK, Numbering, Manifests
  <2>4. manifest' \in Manifests /\ manifest'.count <= MaxEntries
    <3>1. manifest' = [entries |-> SubSeq(manifest.entries, n + 1, Len(manifest.entries)),
                       count |-> manifest.count - n, nextSequence |-> manifest.nextSequence,
                       epoch |-> manifest.epoch + e]
      BY <1>9, Zenon DEF Trim
    <3>2. manifest.nextSequence \in Nat /\ manifest.epoch + e \in Nat
      BY DEF TypeOK, Manifests
    <3> QED
      BY <2>2, <2>3, <3>1, <3>2, Zenon DEF Manifests
  <2>5. consumed' \in Seq(QueueEntry)
    BY <1>9, <2>1, <2>2 DEF Trim
  <2>6. trims' \in 0 .. MaxTrims /\ version' \in Nat
    BY <1>9 DEF Trim, TypeOK
  <2> QED
    BY <1>9, <2>4, <2>5, <2>6, Zenon DEF Trim, TypeOK
<1>10. ASSUME NEW p \in Readers, LoadWrites(p) \/ ReturnRate(p) PROVE TypeOK'
  <2>1. loaded[p] > 0 => Percentage(conflictCount[p], loaded[p]) \in Nat
    BY QuotientType DEF Percentage, TypeOK
  <2>2. CASE LoadWrites(p)
    BY <2>2, Zenon DEF LoadWrites, RateFrame, TypeOK
  <2>3. CASE ReturnRate(p)
    BY <2>1, <2>3, Zenon DEF ReturnRate, RateFrame, TypeOK
  <2> QED
    BY <1>10, <2>2, <2>3, Zenon
<1>11. CASE UNCHANGED vars
  BY <1>11, Zenon DEF vars, TypeOK
<1> QED
  BY <1>1, <1>2, <1>3, <1>4, <1>5, <1>6, <1>7, <1>8, <1>9, <1>10, <1>11, Zenon DEF Next, Enqueue

-----------------------------------------------------------------------------
(* The inductive invariant *)

\* The parts of the attempt a request is made by.
LEMMA RequestBy ==
  ASSUME TypeOK, NEW r \in requests
  PROVE  /\ r.by[1] \in Producers /\ r.by[2] \in 1 .. Groups
         /\ r.by[3] \in 1 .. ManifestMaxAttempts /\ r.by = <<r.by[1], r.by[2], r.by[3]>>
         /\ r.version \in Nat /\ r.data \in Manifests /\ r.again \in BOOLEAN
<1>1. r \in [by : Attempts, version : Nat, data : Manifests, again : BOOLEAN]
  BY Zenon DEF TypeOK
<1> QED
  BY <1>1 DEF Attempts

\* A new attempt is counted for the current group, and for no other.
LEMMA AttemptCounts ==
  ASSUME TypeOK, CommitterSound, NEW p \in Producers, Attempt(p)
  PROVE  /\ group[p] \in 1 .. Groups /\ tries[p][group[p]] \in Nat
         /\ \A q \in Producers, g \in 1 .. Groups :
              tries'[q][g] = IF q = p /\ g = group[p] THEN tries[q][g] + 1 ELSE tries[q][g]
<1>1. group[p] \in 1 .. Groups
  BY DEF Attempt, TypeOK, CommitterSound
<1>2. tries \in [Producers -> [1 .. Groups -> 0 .. ManifestMaxAttempts]]
  BY Zenon DEF TypeOK
<1>3. tries' = [tries EXCEPT ![p] = [tries[p] EXCEPT ![group[p]] = tries[p][group[p]] + 1]]
  BY Zenon DEF Attempt
<1>4. tries[p][group[p]] \in Nat
  BY <1>1, <1>2
<1>5. \A q \in Producers, g \in 1 .. Groups :
        tries'[q][g] = IF q = p /\ g = group[p] THEN tries[p][group[p]] + 1 ELSE tries[q][g]
  BY <1>1, <1>2, <1>3, NestedUpdate
<1> QED
  BY <1>1, <1>4, <1>5, Zenon

\* A committer makes its attempts, and commits its groups, in order.
LEMMA CommitterStep ==
  ASSUME TypeOK, CommitterSound, [Next]_vars PROVE CommitterSound'
<1>1. ASSUME NEW p \in Producers, Attempt(p) PROVE CommitterSound'
  <2>1. group[p] \in 1 .. Groups
    BY <1>1, AttemptCounts, Zenon
  <2>2. /\ tries[p][group[p]] \in Nat
        /\ \A q \in Producers, g \in 1 .. Groups :
             tries'[q][g] = IF q = p /\ g = group[p] THEN tries[q][g] + 1 ELSE tries[q][g]
    BY <1>1, AttemptCounts, Zenon
  <2>3. \A q \in Producers : pc'[q] = IF q = p THEN "read" ELSE pc[q]
    BY <1>1, Zenon DEF Attempt, TypeOK
  <2>4. group' = group /\ acked' = acked
    BY <1>1, Zenon DEF Attempt
  <2>5. ASSUME NEW q \in Producers
        PROVE  /\ pc'[q] \in {"read", "put", "backoff"} =>
                    group[q] <= Groups /\ tries'[q][group[q]] > 0
               /\ pc'[q] = "backoff" => tries'[q][group[q]] < ManifestMaxAttempts
    <3>1. CASE q = p
      <4>1. group[q] \in 1 .. Groups /\ tries[q][group[q]] \in Nat
            /\ tries'[q][group[q]] = tries[q][group[q]] + 1
        BY <2>1, <2>2, <3>1, Zenon
      <4>2. group[q] <= Groups /\ tries'[q][group[q]] > 0
        BY <4>1
      <4>3. pc'[q] = "read"
        BY <2>3, <3>1, Zenon
      <4> QED
        BY <4>2, <4>3
    <3>2. CASE q # p
      <4>1. pc[q] \in {"read", "put", "backoff"} => group[q] \in 1 .. Groups
        BY DEF CommitterSound, TypeOK
      <4>2. pc'[q] = pc[q]
        BY <2>3, <3>2, Zenon
      <4>3. group[q] \in 1 .. Groups => tries'[q][group[q]] = tries[q][group[q]]
        BY <2>2, <3>2, Zenon
      <4>4. /\ pc[q] \in {"read", "put", "backoff"} => group[q] <= Groups /\ tries[q][group[q]] > 0
            /\ pc[q] = "backoff" => tries[q][group[q]] < ManifestMaxAttempts
        BY Zenon DEF CommitterSound
      <4> QED
        BY <4>1, <4>2, <4>3, <4>4, Zenon
    <3> QED
      BY <3>1, <3>2, Zenon
  <2>6. ASSUME NEW q \in Producers, NEW g \in 1 .. Groups
        PROVE  g > group[q] \/ (g = group[q] /\ pc'[q] = "idle") => tries'[q][g] = 0
    <3>1. g > group[q] \/ (g = group[q] /\ pc[q] = "idle") => tries[q][g] = 0
      BY Zenon DEF CommitterSound
    <3>2. group[q] \in Nat /\ g \in Nat
      BY DEF TypeOK
    <3> SUFFICES ASSUME g > group[q] \/ (g = group[q] /\ pc'[q] = "idle") PROVE tries'[q][g] = 0
      BY Zenon
    <3>3. ~(q = p /\ g = group[q])
      <4>1. ~(g > group[q] /\ g = group[q])
        BY <3>2
      <4>2. q = p => pc'[q] # "idle"
        BY <2>3
      <4> QED
        BY <4>1, <4>2, Zenon
    <3>4. tries'[q][g] = tries[q][g]
      BY <2>2, <3>3, Zenon
    <3>5. q = p => g > group[q]
      BY <2>3
    <3>6. q # p => pc'[q] = pc[q]
      BY <2>3, Zenon
    <3> QED
      BY <3>1, <3>4, <3>5, <3>6, Zenon
  <2>7. ASSUME NEW q \in Producers, NEW g \in 1 .. Groups PROVE <<q, g>> \in acked <=> g < group[q]
    BY Zenon DEF CommitterSound
  <2> QED
    BY <2>4, <2>5, <2>6, <2>7, Zenon DEF CommitterSound
<1>2. ASSUME NEW p \in Producers, pc[p] \in {"read", "put"}, AttemptFails(p) PROVE CommitterSound'
  <2>1. \A q \in Producers : pc'[q] = IF q = p THEN IF tries[p][group[p]] < ManifestMaxAttempts
                                                      THEN "backoff" ELSE "halted"
                                       ELSE pc[q]
    BY <1>2, Zenon DEF AttemptFails, TypeOK
  <2>2. UNCHANGED <<group, tries, acked>>
    BY <1>2, Zenon DEF AttemptFails
  <2>3. \A q \in Producers : pc'[q] # "idle" \/ pc[q] = "idle"
    BY <2>1
  <2>4. ASSUME NEW q \in Producers
        PROVE  /\ pc'[q] \in {"read", "put", "backoff"} => group[q] <= Groups /\ tries[q][group[q]] > 0
               /\ pc'[q] = "backoff" => tries[q][group[q]] < ManifestMaxAttempts
    <3>1. /\ pc[q] \in {"read", "put", "backoff"} => group[q] <= Groups /\ tries[q][group[q]] > 0
          /\ pc[q] = "backoff" => tries[q][group[q]] < ManifestMaxAttempts
      BY Zenon DEF CommitterSound
    <3>2. CASE q = p
      <4>1. pc[p] \in {"read", "put", "backoff"}
        BY <1>2, Zenon
      <4>2. pc'[p] = "backoff" => tries[p][group[p]] < ManifestMaxAttempts
        BY <2>1
      <4> QED
        BY <3>1, <3>2, <4>1, <4>2, Zenon
    <3>3. CASE q # p
      BY <2>1, <3>1, <3>3, Zenon
    <3> QED
      BY <3>2, <3>3, Zenon
  <2> QED
    BY <2>2, <2>3, <2>4, Zenon DEF CommitterSound
<1>3. ASSUME NEW p \in Producers, ReadAndSend(p) \/ Conflict(p) PROVE CommitterSound'
  <2>1. /\ pc[p] \in {"read", "put"}
        /\ \A q \in Producers : pc'[q] = IF q = p THEN pc'[p] ELSE pc[q]
        /\ pc'[p] \in {"read", "put"}
    BY <1>3, Zenon DEF ReadAndSend, Conflict, TypeOK
  <2>2. UNCHANGED <<group, tries, acked>>
    BY <1>3, Zenon DEF ReadAndSend, Conflict
  <2> QED
    BY <2>1, <2>2, ZenonT(40) DEF CommitterSound
<1>4. ASSUME NEW p \in Producers, Committed(p) PROVE CommitterSound'
  <2>1. pc[p] = "put" /\ group[p] \in 1 .. Groups
    BY <1>4 DEF Committed, TypeOK, CommitterSound
  <2>2. \A q \in Producers : /\ pc'[q] = IF q = p THEN "idle" ELSE pc[q]
                             /\ group'[q] = IF q = p THEN group[q] + 1 ELSE group[q]
    BY <1>4, Zenon DEF Committed, TypeOK
  <2>3. \A q \in Producers, g \in 1 .. Groups :
          <<q, g>> \in acked' <=> <<q, g>> \in acked \/ (q = p /\ g = group[p])
    BY <1>4, Zenon DEF Committed
  <2>4. tries' = tries
    BY <1>4, Zenon DEF Committed
  <2>5. ASSUME NEW q \in Producers
        PROVE  /\ pc'[q] \in {"read", "put", "backoff"}
                    => group'[q] <= Groups /\ tries[q][group'[q]] > 0
               /\ pc'[q] = "backoff" => tries[q][group'[q]] < ManifestMaxAttempts
    BY <2>2, Zenon DEF CommitterSound
  <2>6. ASSUME NEW q \in Producers, NEW g \in 1 .. Groups
        PROVE  g > group'[q] \/ (g = group'[q] /\ pc'[q] = "idle") => tries[q][g] = 0
    <3>1. group[q] \in Nat
      BY DEF TypeOK
    <3>2. g > group'[q] \/ (g = group'[q] /\ pc'[q] = "idle")
            => g > group[q] \/ (g = group[q] /\ pc[q] = "idle")
      BY <2>2, <3>1
    <3> QED
      BY <3>2, Zenon DEF CommitterSound
  <2>7. ASSUME NEW q \in Producers, NEW g \in 1 .. Groups
        PROVE  <<q, g>> \in acked' <=> g < group'[q]
    <3>1. <<q, g>> \in acked <=> g < group[q]
      BY Zenon DEF CommitterSound
    <3>2. group[q] \in Nat
      BY DEF TypeOK
    <3> QED
      BY <2>2, <2>3, <3>1, <3>2
  <2> QED
    BY <2>4, <2>5, <2>6, <2>7, Zenon DEF CommitterSound
<1>5. ASSUME NEW p \in Producers, Stop(p) PROVE CommitterSound'
  BY <1>5, Zenon DEF Stop, CommitterSound, TypeOK
<1>6. CASE UNCHANGED <<pc, group, tries, acked>>
  BY <1>6, Zenon DEF CommitterSound
<1> QED
  <2>1. ASSUME NEW r \in requests, HandlePut(r) \/ HandlePutTwice(r)
        PROVE  UNCHANGED <<pc, group, tries, acked>>
    BY <2>1, Zenon DEF HandlePut, HandlePutTwice, StoreFrame
  <2>2. ASSUME NEW n \in 0 .. Len(manifest.entries), NEW e \in 0 .. 1, Trim(n, e)
        PROVE  UNCHANGED <<pc, group, tries, acked>>
    BY <2>2, Zenon DEF Trim
  <2>3. ASSUME NEW p \in Readers, LoadWrites(p) \/ ReturnRate(p)
        PROVE  UNCHANGED <<pc, group, tries, acked>>
    BY <2>3, Zenon DEF LoadWrites, ReturnRate, RateFrame
  <2>4. ASSUME UNCHANGED vars PROVE UNCHANGED <<pc, group, tries, acked>>
    BY <2>4, Zenon DEF vars
  <2>5. ASSUME NEW p \in Producers, ReadFails(p) \/ TooManyEntries(p) \/ PutFails(p)
        PROVE  pc[p] \in {"read", "put"} /\ AttemptFails(p)
    BY <2>5, Zenon DEF ReadFails, TooManyEntries, PutFails
  <2> QED
    BY <1>1, <1>2, <1>3, <1>4, <1>5, <1>6, <2>1, <2>2, <2>3, <2>4, <2>5, Zenon DEF Next, Enqueue

\* A conditional PUT that would be applied appends to what the manifest holds.
LEMMA RequestsStep ==
  ASSUME TypeOK, CommitterSound, RequestsSound, [Next]_vars PROVE RequestsSound'
<1>1. ASSUME NEW p \in Producers, Attempt(p) PROVE RequestsSound'
  <2> SUFFICES ASSUME NEW r \in requests
               PROVE  r.by[3] <= tries'[r.by[1]][r.by[2]]
    BY <1>1, ZenonT(40) DEF Attempt, RequestsSound, Appended
  <2> DEFINE q == r.by[1]
             g == r.by[2]
             a == r.by[3]
  <2>1. a <= tries[q][g]
    BY Zenon DEF RequestsSound
  <2>2. q \in Producers /\ g \in 1 .. Groups /\ a \in Nat
    BY RequestBy
  <2> HIDE DEF q, g, a
  <2>3. tries[q][g] \in Nat
    <3>1. tries[q] \in [1 .. Groups -> 0 .. ManifestMaxAttempts]
      BY <2>2, Zenon DEF TypeOK
    <3> QED
      BY <2>2, <3>1
  <2>4. tries'[q][g] = tries[q][g] \/ tries'[q][g] = tries[q][g] + 1
    BY <1>1, <2>2, AttemptCounts, Zenon
  <2>5. a <= tries'[q][g]
    BY <2>1, <2>2, <2>3, <2>4, StaysBelow, Zenon
  <2> QED
    BY <2>5, Zenon DEF q, g, a
<1>2. CASE UNCHANGED <<manifest, version, requests, tries>>
  BY <1>2, ZenonT(40) DEF RequestsSound, Appended
<1>3. ASSUME NEW p \in Producers, ReadAndSend(p) PROVE RequestsSound'
  <2>1. group[p] \in 1 .. Groups /\ tries[p][group[p]] \in Nat
    BY <1>3, SMTT(30) DEF ReadAndSend, TypeOK, CommitterSound
  <2> DEFINE new == [by |-> Current(p), version |-> version,
                     data |-> Appended(manifest, p, group[p]), again |-> Redelivers]
  <2>2. requests' = requests \cup {new} /\ UNCHANGED <<manifest, version, tries>>
    BY <1>3, Zenon DEF ReadAndSend
  <2>3. new.by[1] = p /\ new.by[2] = group[p] /\ new.by[3] = tries[p][group[p]]
    BY Zenon DEF Current
  <2>4. new.data.count <= MaxEntries
    BY <1>3, Zenon DEF ReadAndSend, FitsFooter, Appended
  <2>5. new.version = version /\ version \in Nat /\ new.data = Appended(manifest, p, group[p])
    BY Zenon DEF TypeOK
  <2> HIDE DEF new
  <2> SUFFICES ASSUME NEW r \in requests'
               PROVE  /\ r.by[3] <= tries[r.by[1]][r.by[2]]
                      /\ r.version <= version /\ r.data.count <= MaxEntries
                      /\ r.version = version => r.data = Appended(manifest, r.by[1], r.by[2])
    BY <2>2, ZenonT(40) DEF RequestsSound, Appended
  <2>6. CASE r \in requests
    BY <2>6, Zenon DEF RequestsSound
  <2>7. CASE r = new
    <3>1. r.by[3] = tries[r.by[1]][r.by[2]] /\ r.by[3] \in Nat
      BY <2>1, <2>3, <2>7, Zenon
    <3>2. r.by[3] <= tries[r.by[1]][r.by[2]] /\ r.version <= version
      BY <2>5, <2>7, <3>1
    <3> QED
      BY <2>3, <2>4, <2>5, <2>7, <3>2, Zenon
  <2> QED
    BY <2>2, <2>6, <2>7, Zenon
<1>4. ASSUME NEW r \in requests, HandlePut(r) \/ HandlePutTwice(r) PROVE RequestsSound'
  <2>1. \A s \in requests' : \E t \in requests :
          s.by = t.by /\ s.version = t.version /\ s.data = t.data
    <3>1. ASSUME HandlePutTwice(r)
          PROVE  requests' \subseteq requests \cup {[r EXCEPT !.again = FALSE]}
      BY <3>1, Zenon DEF HandlePutTwice
    <3>2. ASSUME HandlePut(r) PROVE requests' \subseteq requests
      BY <3>2, Zenon DEF HandlePut
    <3>3. r \in [by : Attempts, version : Nat, data : Manifests, again : BOOLEAN]
      BY Zenon DEF TypeOK
    <3> QED
      BY <1>4, <3>1, <3>2, <3>3, Zenon
  <2>2. tries' = tries /\ Apply(r)
    BY <1>4, Zenon DEF HandlePut, HandlePutTwice, StoreFrame
  <2>3. CASE Matches(r)
    <3>1. version' = version + 1
      BY <2>2, <2>3, Zenon DEF Apply
    <3> SUFFICES ASSUME NEW s \in requests'
                 PROVE  /\ s.by[3] <= tries[s.by[1]][s.by[2]]
                        /\ s.version <= version' /\ s.version # version'
                        /\ s.data.count <= MaxEntries
      BY <2>2, Zenon DEF RequestsSound
    <3>2. PICK t \in requests : s.by = t.by /\ s.version = t.version /\ s.data = t.data
      BY <2>1, Zenon
    <3>3. t.version \in Nat /\ version \in Nat
      BY RequestBy, Zenon DEF TypeOK
    <3> QED
      BY <3>1, <3>2, <3>3 DEF RequestsSound
  <2>4. CASE ~Matches(r)
    <3>1. UNCHANGED <<manifest, version, tries>>
      BY <2>2, <2>4, Zenon DEF Apply
    <3> SUFFICES ASSUME NEW s \in requests'
                 PROVE  /\ s.by[3] <= tries[s.by[1]][s.by[2]]
                        /\ s.version <= version /\ s.data.count <= MaxEntries
                        /\ s.version = version => s.data = Appended(manifest, s.by[1], s.by[2])
      BY <3>1, ZenonT(40) DEF RequestsSound, Appended
    <3>2. PICK t \in requests : s.by = t.by /\ s.version = t.version /\ s.data = t.data
      BY <2>1, Zenon
    <3> QED
      BY <3>2, Zenon DEF RequestsSound
  <2> QED
    BY <2>3, <2>4, Zenon
<1>5. ASSUME NEW n \in 0 .. Len(manifest.entries), NEW e \in 0 .. 1, Trim(n, e) PROVE RequestsSound'
  <2>1. version' = version + 1 /\ UNCHANGED <<requests, tries>> /\ version \in Nat
    BY <1>5, Zenon DEF Trim, TypeOK
  <2>2. \A r \in requests : r.version < version'
    BY <2>1, RequestBy DEF RequestsSound
  <2> QED
    BY <2>1, <2>2, RequestBy, SMTT(30) DEF RequestsSound
<1> QED
  <2>1. ASSUME NEW p \in Producers, ReadFails(p) \/ TooManyEntries(p) \/ PutFails(p)
        PROVE  UNCHANGED <<manifest, version, requests, tries>>
    BY <2>1, Zenon DEF ReadFails, TooManyEntries, PutFails, AttemptFails
  <2>2. ASSUME NEW p \in Producers, Committed(p) \/ Conflict(p) \/ Stop(p)
        PROVE  UNCHANGED <<manifest, version, requests, tries>>
    BY <2>2, Zenon DEF Committed, Conflict, Stop
  <2>3. ASSUME NEW p \in Readers, LoadWrites(p) \/ ReturnRate(p)
        PROVE  UNCHANGED <<manifest, version, requests, tries>>
    BY <2>3, Zenon DEF LoadWrites, ReturnRate, RateFrame
  <2>4. ASSUME UNCHANGED vars PROVE UNCHANGED <<manifest, version, requests, tries>>
    BY <2>4, Zenon DEF vars
  <2> QED
    BY <1>1, <1>2, <1>3, <1>4, <1>5, <2>1, <2>2, <2>3, <2>4, Zenon DEF Next, Enqueue

\* The step of a committer leaves the other committers alone.
LEMMA OthersUntouched ==
  ASSUME TypeOK, NEW p \in Producers, Enqueue(p) \/ Stop(p), NEW q \in Producers, q # p
  PROVE  /\ pc'[q] = pc[q] /\ group'[q] = group[q] /\ tries'[q] = tries[q]
         /\ answer'[q] = answer[q] /\ Current(q)' = Current(q)
<1>1. pc'[q] = pc[q]
  BY Zenon DEF Enqueue, Stop, Attempt, ReadFails, TooManyEntries, PutFails, AttemptFails, ReadAndSend,
         Committed, Conflict, TypeOK
<1>2. group'[q] = group[q] /\ tries'[q] = tries[q]
  BY Zenon
  DEF Enqueue, Stop, Attempt, ReadFails, TooManyEntries, PutFails, AttemptFails, ReadAndSend,
         Committed, Conflict, TypeOK
<1>3. answer'[q] = answer[q]
  BY Zenon DEF Enqueue, Stop, Attempt, ReadFails, TooManyEntries, PutFails, AttemptFails, ReadAndSend,
         Committed, Conflict, TypeOK
<1> QED
  BY <1>1, <1>2, <1>3, Zenon DEF Current

\* An attempt is told that it succeeded only when it did.
LEMMA AnswersStep ==
  ASSUME TypeOK, CommitterSound, RequestsSound, AnswersSound, [Next]_vars PROVE AnswersSound'
<1>1. ASSUME NEW x \in landed PROVE x[1] \in Producers /\ x[2] \in 1 .. Groups /\ x[3] \in Nat
  <2>1. x \in Attempts
    BY Zenon DEF TypeOK
  <2> QED
    BY <2>1 DEF Attempts
<1>2. ASSUME NEW p \in Producers, Enqueue(p) \/ Stop(p) PROVE AnswersSound'
  <2>1. landed' = landed
    BY <1>2, Zenon DEF Enqueue, Stop, Attempt, ReadFails, TooManyEntries, PutFails, AttemptFails,
                ReadAndSend, Committed, Conflict
  <2>2. ASSUME NEW x \in landed PROVE x[3] <= tries'[x[1]][x[2]]
    <3> DEFINE q == x[1]
               g == x[2]
               a == x[3]
    <3>1. q \in Producers /\ g \in 1 .. Groups /\ a \in Nat /\ a <= tries[q][g]
      BY <1>1, Zenon DEF AnswersSound
    <3> HIDE DEF q, g, a
    <3>2. tries[q][g] \in Nat
      <4>1. tries[q] \in [1 .. Groups -> 0 .. ManifestMaxAttempts]
        BY <3>1, Zenon DEF TypeOK
      <4> QED
        BY <3>1, <4>1
    <3>3. CASE Attempt(p)
      <4>1. tries'[q][g] = tries[q][g] \/ tries'[q][g] = tries[q][g] + 1
        BY <3>1, <3>3, AttemptCounts, Zenon
      <4>2. a <= tries'[q][g]
        BY <3>1, <3>2, <4>1, StaysBelow, Zenon
      <4> QED
        BY <4>2, Zenon DEF q, g, a
    <3>4. CASE tries' = tries
      BY <3>1, <3>4, Zenon DEF q, g, a
    <3> QED
      BY <1>2, <3>3, <3>4, Zenon DEF Enqueue, Stop, ReadFails, TooManyEntries, PutFails, AttemptFails,
                              ReadAndSend, Committed, Conflict
  <2>3. answer'[p] = NoAnswer
    <3>1. pc[p] # "put" => answer[p] = NoAnswer
      BY Zenon DEF AnswersSound
    <3>2. CASE Attempt(p) \/ ReadAndSend(p)
      BY <3>1, <3>2, Zenon DEF Attempt, ReadAndSend
    <3>3. CASE AttemptFails(p) \/ Committed(p) \/ Conflict(p) \/ Stop(p)
      BY <3>3, Zenon DEF AttemptFails, Committed, Conflict, Stop, TypeOK
    <3> QED
      BY <1>2, <3>2, <3>3, Zenon DEF Enqueue, ReadFails, TooManyEntries, PutFails
  <2>4. ASSUME NEW q \in Producers
        PROVE  /\ answer'[q] # NoAnswer => pc'[q] = "put"
               /\ answer'[q] = "ok" => Current(q)' \in landed
    <3>1. CASE q = p
      BY <2>3, <3>1, Zenon
    <3>2. CASE q # p
      BY <1>2, <3>2, OthersUntouched, Zenon DEF AnswersSound
    <3> QED
      BY <3>1, <3>2, Zenon
  <2> QED
    BY <2>1, <2>2, <2>4, Zenon DEF AnswersSound
<1>3. ASSUME NEW r \in requests, HandlePut(r) \/ HandlePutTwice(r) PROVE AnswersSound'
  <2>1. UNCHANGED <<pc, group, tries>> /\ Apply(r)
    BY <1>3, Zenon DEF HandlePut, HandlePutTwice, StoreFrame
  <2>2. landed \subseteq landed' /\ landed' \subseteq landed \cup {r.by}
        /\ (Matches(r) => r.by \in landed')
    BY <2>1, Zenon DEF Apply
  <2>3. ASSUME NEW x \in landed' PROVE x[3] <= tries[x[1]][x[2]]
    BY <2>2, Zenon DEF AnswersSound, RequestsSound
  <2>4. ASSUME NEW q \in Producers
        PROVE  \/ answer'[q] = answer[q]
               \/ pc[q] = "put" /\ r.by = Current(q) /\ (answer'[q] = "ok" => Matches(r))
    BY <1>3, Zenon DEF HandlePut, HandlePutTwice, TypeOK
  <2>5. \A q \in Producers : Current(q)' = Current(q) /\ pc'[q] = pc[q]
    BY <2>1, Zenon DEF Current
  <2> QED
    BY <2>1, <2>2, <2>3, <2>4, <2>5, Zenon DEF AnswersSound
<1>4. CASE UNCHANGED <<pc, group, tries, answer, landed>>
  <2>1. \A q \in Producers : Current(q)' = Current(q)
    BY <1>4, Zenon DEF Current
  <2> QED
    BY <1>4, <2>1, Zenon DEF AnswersSound
<1> QED
  <2>1. ASSUME NEW n \in 0 .. Len(manifest.entries), NEW e \in 0 .. 1, Trim(n, e)
        PROVE  UNCHANGED <<pc, group, tries, answer, landed>>
    BY <2>1, Zenon DEF Trim
  <2>2. ASSUME NEW p \in Readers, LoadWrites(p) \/ ReturnRate(p)
        PROVE  UNCHANGED <<pc, group, tries, answer, landed>>
    BY <2>2, Zenon DEF LoadWrites, ReturnRate, RateFrame
  <2>3. ASSUME UNCHANGED vars PROVE UNCHANGED <<pc, group, tries, answer, landed>>
    BY <2>3, Zenon DEF vars
  <2> QED
    BY <1>2, <1>3, <1>4, <2>1, <2>2, <2>3, Zenon DEF Next

\* Where the store's client does not repeat requests, an attempt has one
\* request on its way at most: it sends another only after a conflict.
LEMMA OneRequestStep ==
  ASSUME TypeOK, CommitterSound, RequestsSound, AnswersSound, OneRequest, ~Redelivers, [Next]_vars
  PROVE  OneRequest'
<1>1. ASSUME NEW p \in Producers, Enqueue(p) \/ Stop(p), NEW q \in Producers, q # p,
             pc'[q] = "read" \/ answer'[q] = "precondition"
      PROVE  Current(q)' \notin landed /\ \A r \in requests : r.by # Current(q)'
  <2>1. pc'[q] = pc[q] /\ answer'[q] = answer[q] /\ Current(q)' = Current(q)
    BY <1>1, OthersUntouched, Zenon
  <2>2. Current(q) \notin landed /\ \A r \in requests : r.by # Current(q)
    BY <1>1, <2>1, Zenon DEF OneRequest
  <2> QED
    BY <2>1, <2>2, Zenon
<1>2. ASSUME NEW p \in Producers, Attempt(p) PROVE OneRequest'
  <2>1. UNCHANGED <<requests, landed>>
    BY <1>2, Zenon DEF Attempt
  <2>2. Current(p)' = <<p, group[p], tries[p][group[p]] + 1>>
    <3>1. group' = group /\ tries'[p][group[p]] = tries[p][group[p]] + 1
      <4>1. group[p] \in 1 .. Groups
        BY <1>2, AttemptCounts, Zenon
      <4>2. tries'[p][group[p]] = tries[p][group[p]] + 1
        BY <1>2, <4>1, AttemptCounts, Zenon
      <4> QED
        BY <1>2, <4>2, Zenon DEF Attempt
    <3> QED
      BY <3>1, Zenon DEF Current
  <2>3. tries[p][group[p]] \in Nat
    BY <1>2, AttemptCounts, Zenon
  <2>4. Current(p)' \notin landed
    BY <2>2, <2>3 DEF AnswersSound
  <2>5. \A r \in requests : r.by # Current(p)'
    BY <2>2, <2>3 DEF RequestsSound
  <2>6. Enqueue(p)
    BY <1>2, Zenon DEF Enqueue
  <2> QED
    BY <1>1, <2>1, <2>4, <2>5, <2>6, Zenon DEF OneRequest
<1>3. ASSUME NEW p \in Producers, Enqueue(p) \/ Stop(p),
             AttemptFails(p) \/ Committed(p) \/ Stop(p)
      PROVE  OneRequest'
  <2>1. UNCHANGED <<requests, landed>> /\ pc'[p] # "read" /\ answer'[p] = NoAnswer
    BY <1>3, Zenon DEF AttemptFails, Committed, Stop, TypeOK
  <2> QED
    BY <1>1, <1>3, <2>1, Zenon DEF OneRequest
<1>4. ASSUME NEW p \in Producers, ReadAndSend(p) PROVE OneRequest'
  <2> DEFINE new == [by |-> Current(p), version |-> version,
                     data |-> Appended(manifest, p, group[p]), again |-> Redelivers]
  <2>1. requests' = requests \cup {new} /\ landed' = landed /\ pc[p] = "read"
    BY <1>4, Zenon DEF ReadAndSend
  <2>2. new.by = Current(p) /\ ~new.again
    OBVIOUS
  <2> HIDE DEF new
  <2>3. Current(p) \notin landed /\ \A r \in requests : r.by # Current(p)
    BY <2>1, Zenon DEF OneRequest
  <2>4. pc'[p] = "put" /\ answer'[p] = NoAnswer
    BY <1>4, Zenon DEF ReadAndSend, AnswersSound, TypeOK
  <2>5. \A q \in Producers : q # p => Current(q)' # Current(p)
    BY Zenon DEF Current
  <2>6. Enqueue(p)
    BY <1>4, Zenon DEF Enqueue
  <2>7. \A r \in requests' : r.by \notin landed /\ ~r.again
    BY <2>1, <2>2, <2>3, Zenon DEF OneRequest
  <2>8. \A r, s \in requests' : r.by = s.by => r = s
    BY <2>1, <2>2, <2>3, Zenon DEF OneRequest
  <2>9. ASSUME NEW q \in Producers, pc'[q] = "read" \/ answer'[q] = "precondition"
        PROVE  Current(q)' \notin landed /\ \A r \in requests' : r.by # Current(q)'
    BY <1>1, <2>1, <2>2, <2>4, <2>5, <2>6, <2>9, Zenon
  <2> QED
    BY <2>1, <2>7, <2>8, <2>9, Zenon DEF OneRequest
<1>5. ASSUME NEW p \in Producers, Conflict(p) PROVE OneRequest'
  <2>1. UNCHANGED <<requests, landed>> /\ Current(p)' = Current(p) /\ answer[p] = "precondition"
    BY <1>5, Zenon DEF Conflict, Current
  <2>2. Enqueue(p)
    BY <1>5, Zenon DEF Enqueue
  <2> QED
    BY <1>1, <2>1, <2>2, Zenon DEF OneRequest
<1>6. ASSUME NEW r \in requests, HandlePut(r) PROVE OneRequest'
  <2>1. requests' = requests \ {r} /\ Apply(r) /\ UNCHANGED <<pc, group, tries>>
    BY <1>6, Zenon DEF HandlePut, StoreFrame
  <2>2. landed' \subseteq landed \cup {r.by} /\ (~Matches(r) => landed' = landed)
    BY <2>1, Zenon DEF Apply
  <2>3. \A q \in Producers : Current(q)' = Current(q) /\ pc'[q] = pc[q]
    BY <2>1, Zenon DEF Current
  <2>4. ASSUME NEW q \in Producers
        PROVE  \/ answer'[q] = answer[q]
               \/ r.by = Current(q) /\ (answer'[q] = "precondition" => ~Matches(r))
    BY <1>6, Zenon DEF HandlePut, TypeOK
  <2>5. \A s \in requests' : s.by \notin landed' /\ ~s.again
    BY <2>1, <2>2, Zenon DEF OneRequest
  <2>6. ASSUME NEW q \in Producers, pc'[q] = "read" \/ answer'[q] = "precondition"
        PROVE  Current(q)' \notin landed' /\ \A s \in requests' : s.by # Current(q)'
    <3>1. CASE pc[q] = "read" \/ answer[q] = "precondition"
      BY <2>1, <2>2, <2>3, <3>1, Zenon DEF OneRequest
    <3>2. CASE r.by = Current(q) /\ ~Matches(r)
      BY <2>1, <2>2, <2>3, <3>2, Zenon DEF OneRequest
    <3> QED
      BY <2>3, <2>4, <2>6, <3>1, <3>2, Zenon
  <2> QED
    BY <2>1, <2>5, <2>6, Zenon DEF OneRequest
<1>7. ASSUME NEW r \in requests, HandlePutTwice(r) PROVE FALSE
  BY <1>7, Zenon DEF HandlePutTwice, OneRequest
<1>8. CASE UNCHANGED <<pc, group, tries, answer, requests, landed>>
  <2>1. \A q \in Producers : Current(q)' = Current(q)
    BY <1>8, Zenon DEF Current
  <2> QED
    BY <1>8, <2>1, Zenon DEF OneRequest
<1> QED
  <2>1. ASSUME NEW n \in 0 .. Len(manifest.entries), NEW e \in 0 .. 1, Trim(n, e)
        PROVE  UNCHANGED <<pc, group, tries, answer, requests, landed>>
    BY <2>1, Zenon DEF Trim
  <2>2. ASSUME NEW p \in Readers, LoadWrites(p) \/ ReturnRate(p)
        PROVE  UNCHANGED <<pc, group, tries, answer, requests, landed>>
    BY <2>2, Zenon DEF LoadWrites, ReturnRate, RateFrame
  <2>3. ASSUME UNCHANGED vars PROVE UNCHANGED <<pc, group, tries, answer, requests, landed>>
    BY <2>3, Zenon DEF vars
  <2>4. ASSUME NEW p \in Producers, Enqueue(p) \/ Stop(p) PROVE OneRequest'
    BY <2>4, <1>2, <1>3, <1>4, <1>5, Zenon DEF Enqueue, ReadFails, TooManyEntries, PutFails
  <2> QED
    BY <1>6, <1>7, <1>8, <2>1, <2>2, <2>3, <2>4, Zenon DEF Next

\* Entries that continue the numbering of a log.
LEMMA ContinuedNumbering ==
  ASSUME NEW S, NEW s \in Seq(S), NEW t \in Seq(S),
         \A i \in 1 .. Len(s) : s[i].sequence = i - 1,
         \A i \in 1 .. Len(t) : t[i].sequence = Len(s) + i - 1
  PROVE  \A i \in 1 .. Len(s \o t) : (s \o t)[i].sequence = i - 1
<1> TAKE i \in 1 .. Len(s \o t)
<1>1. CASE i <= Len(s)
  BY <1>1
<1>2. CASE i > Len(s)
  <2>1. (s \o t)[i] = t[i - Len(s)] /\ i - Len(s) \in 1 .. Len(t)
    BY <1>2, SMTT(30)
  <2> QED
    BY <2>1
<1> QED
  BY <1>1, <1>2

\* A PUT that is applied appends the group of its attempt to the log.
LEMMA ApplyAppends ==
  ASSUME TypeOK, RequestsSound, Numbering, NEW r \in requests, Apply(r), Matches(r),
         consumed' = consumed
  PROVE  LET log == consumed \o manifest.entries
             new == L!Numbered(r.by[1], r.by[2], Len(log))
         IN  /\ consumed' \o manifest'.entries = log \o new
             /\ log \in Seq(QueueEntry) /\ new \in Seq(QueueEntry)
             /\ \A i \in 1 .. Len(new) : new[i].sequence = Len(log) + i - 1
             /\ manifest'.count = Len(manifest'.entries)
             /\ manifest'.nextSequence = Len(log \o new)
<1> DEFINE old == manifest.entries
           log == consumed \o old
           p == r.by[1]
           g == r.by[2]
           new == L!Numbered(p, g, Len(log))
<1>1. old \in Seq(QueueEntry) /\ consumed \in Seq(QueueEntry) /\ manifest \in Manifests
      /\ manifest.count \in Nat /\ manifest.nextSequence \in Nat
  BY Zenon DEF TypeOK, Manifests
<1>2. p \in Producers /\ g \in 1 .. Groups
  BY RequestBy, Zenon
<1>3. manifest' = Appended(manifest, p, g)
  BY Zenon DEF Apply, Matches, RequestsSound
<1>4. manifest.count = Len(old) /\ manifest.nextSequence = Len(log)
  BY Zenon DEF Numbering
<1>5. log \in Seq(QueueEntry) /\ Len(log) \in Nat
  BY <1>1
<1> HIDE DEF p, g, log, old
<1>6. /\ manifest'.entries = manifest.entries \o L!Numbered(p, g, manifest.nextSequence)
      /\ manifest'.count = manifest.count + Size[p][g]
      /\ manifest'.nextSequence = manifest.nextSequence + Size[p][g]
      /\ L!Numbered(p, g, manifest.nextSequence) \in Seq(QueueEntry)
      /\ Len(L!Numbered(p, g, manifest.nextSequence)) = Size[p][g]
      /\ Size[p][g] \in Nat
  <2>1. /\ Appended(manifest, p, g).entries
             = manifest.entries \o L!Numbered(p, g, manifest.nextSequence)
        /\ Appended(manifest, p, g).count = manifest.count + Size[p][g]
        /\ Appended(manifest, p, g).nextSequence = manifest.nextSequence + Size[p][g]
        /\ L!Numbered(p, g, manifest.nextSequence) \in Seq(QueueEntry)
        /\ Len(L!Numbered(p, g, manifest.nextSequence)) = Size[p][g]
        /\ Size[p][g] \in Nat \ {0}
    <3>1. manifest \in Manifests
      BY <1>1, Zenon
    <3> HIDE QueueAssumption
    <3> QED
      BY <3>1, <1>2, AppendedType, ZenonT(40)
  <2> HIDE QueueAssumption
  <2> QED
    BY <1>3, <2>1, Zenon
<1>7. /\ manifest'.entries = old \o new /\ manifest'.count = manifest.count + Size[p][g]
      /\ manifest'.nextSequence = manifest.nextSequence + Size[p][g]
      /\ new \in Seq(QueueEntry) /\ Len(new) = Size[p][g] /\ Size[p][g] \in Nat
  BY <1>4, <1>6, Zenon DEF old
<1>8. \A i \in 1 .. Len(new) : new[i].sequence = Len(log) + i - 1
  BY <1>7, Zenon DEF L!Numbered
<1> HIDE DEF new
<1>9. manifest'.count = Len(manifest'.entries) /\ manifest'.nextSequence = Len(log \o new)
  <2>1. old \in Seq(QueueEntry) /\ log \in Seq(QueueEntry) /\ new \in Seq(QueueEntry)
    BY <1>1, <1>5, <1>7, Zenon
  <2>2. Len(old \o new) = Len(old) + Len(new) /\ Len(log \o new) = Len(log) + Len(new)
    BY <2>1
  <2> QED
    BY <1>4, <1>7, <2>2, Zenon
<1>10. consumed \o (old \o new) = (consumed \o old) \o new
  <2>1. old \in Seq(QueueEntry) /\ consumed \in Seq(QueueEntry) /\ new \in Seq(QueueEntry)
    BY <1>1, <1>7, Zenon
  <2> HIDE QueueAssumption
  <2> QED
    BY <2>1, RegroupConcat, SMTT(30)
<1> QED
  BY <1>5, <1>7, <1>8, <1>9, <1>10, Zenon DEF p, g, log, old, new

\* Trimming moves entries from the manifest to the consumer.
LEMMA TrimKeepsLog ==
  ASSUME TypeOK, NEW n \in 0 .. Len(manifest.entries), NEW e \in 0 .. 1, Trim(n, e)
  PROVE  /\ consumed' \o manifest'.entries = consumed \o manifest.entries
         /\ Len(manifest'.entries) = Len(manifest.entries) - n
<1>1. manifest.entries \in Seq(QueueEntry) /\ consumed \in Seq(QueueEntry)
  BY Zenon DEF TypeOK, Manifests
<1>2. /\ manifest'.entries = SubSeq(manifest.entries, n + 1, Len(manifest.entries))
      /\ consumed' = consumed \o SubSeq(manifest.entries, 1, n)
  BY Zenon DEF Trim
<1> DEFINE a == SubSeq(manifest.entries, 1, n)
           b == SubSeq(manifest.entries, n + 1, Len(manifest.entries))
<1>3. /\ a \in Seq(QueueEntry) /\ b \in Seq(QueueEntry) /\ a \o b = manifest.entries
      /\ Len(b) = Len(manifest.entries) - n
  BY <1>1, SplitSeq, Zenon
<1>4. manifest'.entries = b /\ consumed' = consumed \o a
  BY <1>2, Zenon
<1> HIDE DEF a, b
<1>5. consumed \o (a \o b) = (consumed \o a) \o b
  <2>1. consumed \in Seq(QueueEntry) /\ a \in Seq(QueueEntry) /\ b \in Seq(QueueEntry)
    BY <1>1, <1>3, Zenon
  <2> HIDE QueueAssumption
  <2> QED
    BY <2>1, RegroupConcat, SMTT(30)
<1> QED
  BY <1>3, <1>4, <1>5, Zenon

\* Appending and trimming keep the log numbered by position.
LEMMA NumberingStep ==
  ASSUME TypeOK, RequestsSound, Numbering, [Next]_vars PROVE Numbering'
<1>2. ASSUME NEW r \in requests, HandlePut(r) \/ HandlePutTwice(r) PROVE Numbering'
  <2>1. Apply(r) /\ consumed' = consumed
    BY <1>2, Zenon DEF HandlePut, HandlePutTwice, StoreFrame
  <2>2. CASE ~Matches(r)
    BY <2>1, <2>2, Zenon DEF Apply, Numbering
  <2>3. CASE Matches(r)
    <3> DEFINE log == consumed \o manifest.entries
               new == L!Numbered(r.by[1], r.by[2], Len(log))
    <3>1. /\ consumed' \o manifest'.entries = log \o new
          /\ log \in Seq(QueueEntry) /\ new \in Seq(QueueEntry)
          /\ \A i \in 1 .. Len(new) : new[i].sequence = Len(log) + i - 1
          /\ manifest'.count = Len(manifest'.entries)
          /\ manifest'.nextSequence = Len(log \o new)
      BY <2>1, <2>3, ApplyAppends, Zenon
    <3>2. \A i \in 1 .. Len(log) : log[i].sequence = i - 1
      BY Zenon DEF Numbering
    <3> HIDE DEF log, new
    <3>3. \A i \in 1 .. Len(log \o new) : (log \o new)[i].sequence = i - 1
      BY <3>1, <3>2, ContinuedNumbering
    <3> QED
      BY <3>1, <3>3, Zenon DEF Numbering
  <2> QED
    BY <2>2, <2>3, Zenon
<1>3. ASSUME NEW n \in 0 .. Len(manifest.entries), NEW e \in 0 .. 1, Trim(n, e) PROVE Numbering'
  <2>1. manifest'.count = manifest.count - n /\ manifest'.nextSequence = manifest.nextSequence
    BY <1>3, Zenon DEF Trim
  <2> QED
    BY <1>3, <2>1, TrimKeepsLog, Zenon DEF Numbering
<1>4. CASE UNCHANGED <<manifest, consumed>>
  BY <1>4, Zenon DEF Numbering
<1> QED
  <2>1. ASSUME NEW p \in Producers, Enqueue(p) \/ Stop(p) PROVE UNCHANGED <<manifest, consumed>>
    BY <2>1, Zenon DEF Enqueue, Stop, Attempt, ReadFails, TooManyEntries, PutFails, AttemptFails,
                ReadAndSend, Committed, Conflict, QueueFrame
  <2>2. ASSUME NEW p \in Readers, LoadWrites(p) \/ ReturnRate(p)
        PROVE  UNCHANGED <<manifest, consumed>>
    BY <2>2, Zenon DEF LoadWrites, ReturnRate, RateFrame
  <2>3. ASSUME UNCHANGED vars PROVE UNCHANGED <<manifest, consumed>>
    BY <2>3, Zenon DEF vars
  <2> QED
    BY <1>2, <1>3, <1>4, <2>1, <2>2, <2>3, Zenon DEF Next

\* The inductive invariant.
Inv == TypeOK /\ QueueSound

\* It holds initially.
LEMMA InvInit == Init => Inv
<1> SUFFICES ASSUME Init PROVE Inv
  OBVIOUS
<1>1. CommitterSound
  <2>1. ASSUME NEW p \in Producers, NEW g \in 1 .. Groups
        PROVE  pc[p] = "idle" /\ group[p] = 1 /\ tries[p][g] = 0 /\ <<p, g>> \notin acked /\ g >= 1
    BY DEF Init
  <2>2. \A p \in Producers : pc[p] = "idle" /\ group[p] = 1
    BY Zenon DEF Init
  <2> QED
    <3>1. ASSUME NEW p \in Producers
          PROVE  /\ pc[p] \notin {"read", "put", "backoff"}
                 /\ \A g \in 1 .. Groups : (<<p, g>> \in acked <=> g < group[p]) /\ tries[p][g] = 0
      BY <2>1, <2>2
    <3> QED
      BY <3>1, Zenon DEF CommitterSound
<1>2. RequestsSound /\ AnswersSound /\ OneRequest
  BY Zenon DEF Init, RequestsSound, AnswersSound, OneRequest
<1>3. Numbering
  BY DEF Init, Numbering, emptyManifest
<1> QED
  BY <1>1, <1>2, <1>3, TypeInit, Zenon DEF Inv, QueueSound

\* Every step keeps it.
LEMMA InvStep == Inv /\ [Next]_vars => Inv'
<1> SUFFICES ASSUME Inv, [Next]_vars PROVE Inv'
  OBVIOUS
<1>1. TypeOK /\ CommitterSound /\ RequestsSound /\ AnswersSound /\ Numbering
      /\ (Redelivers \/ OneRequest)
  BY Zenon DEF Inv, QueueSound
<1>2. TypeOK' /\ CommitterSound' /\ RequestsSound' /\ AnswersSound' /\ Numbering'
  BY <1>1, TypeStep, CommitterStep, RequestsStep, AnswersStep, NumberingStep, Zenon
<1>3. Redelivers \/ OneRequest'
  BY <1>1, OneRequestStep, Zenon
<1> QED
  BY <1>2, <1>3, Zenon DEF Inv, QueueSound

-----------------------------------------------------------------------------
(* The results *)

\* The manifest keeps its invariant, for any number of producers, groups,
\* attempts and consumer writes.
THEOREM InvHolds == Spec => []Inv
BY InvInit, InvStep, PTL DEF Spec

\* Every variable has its type and the entries count fits the footer's field,
\* also when groups of several producers race for the last room in it.
THEOREM QueueTyped == Spec => []TypeOK
<1>1. Inv => TypeOK
  BY Zenon DEF Inv
<1> QED
  BY <1>1, InvHolds, PTL

\* The footer of the manifest always counts its entries, and their sequence
\* numbers have no gaps, whatever writes race, fail or are repeated.
THEOREM FooterIsRight == Spec => []FooterAgrees
<1>1. Inv => FooterAgrees
  <2> SUFFICES ASSUME Inv PROVE FooterAgrees
    OBVIOUS
  <2> DEFINE s == manifest.entries
  <2>1. s \in Seq(QueueEntry) /\ consumed \in Seq(QueueEntry)
    BY Zenon DEF Inv, TypeOK, Manifests
  <2>2. /\ manifest.count = Len(s) /\ manifest.nextSequence = Len(consumed \o s)
        /\ \A i \in 1 .. Len(consumed \o s) : (consumed \o s)[i].sequence = i - 1
    BY Zenon DEF Inv, QueueSound, Numbering
  <2> HIDE DEF s
  <2>3. Len(consumed \o s) = Len(consumed) + Len(s) /\ Len(consumed) \in Nat /\ Len(s) \in Nat
    BY <2>1
  <2>4. ASSUME NEW i \in 1 .. Len(s)
        PROVE  s[i].sequence = manifest.nextSequence - Len(s) + i - 1
    <3>1. s[i] = (consumed \o s)[Len(consumed) + i]
      BY <2>1
    <3>2. Len(consumed) + i \in 1 .. Len(consumed \o s)
      BY <2>3
    <3>3. s[i].sequence = Len(consumed) + i - 1
      BY <2>2, <3>1, <3>2
    <3> QED
      BY <2>2, <2>3, <3>3
  <2> QED
    BY <2>2, <2>4, Zenon DEF FooterAgrees, s
<1> QED
  BY <1>1, InvHolds, PTL

\* Every step is a step of DurableLog, or leaves its state alone.
LEMMA StepMaps == ASSUME Inv, [Next]_vars PROVE [L!Next]_(L!vars)
<1>1. TypeOK /\ CommitterSound /\ RequestsSound /\ AnswersSound /\ Numbering
      /\ (Redelivers \/ OneRequest)
  BY Zenon DEF Inv, QueueSound
<1>2. ASSUME NEW p \in Producers, Attempt(p) PROVE L!Next
  <2>1. group[p] \in 1 .. Groups
    BY <1>1, <1>2, AttemptCounts, Zenon
  <2>2. <<p, group[p]>> \notin acked /\ (group[p] > 1 => <<p, group[p] - 1>> \in acked)
    <3>1. \A g \in 1 .. Groups : <<p, g>> \in acked <=> g < group[p]
      BY <1>1, Zenon DEF CommitterSound
    <3>2. group[p] > 1 => group[p] - 1 \in 1 .. Groups /\ group[p] - 1 < group[p]
      BY <2>1
    <3>3. ~(group[p] < group[p])
      BY <2>1
    <3> QED
      BY <2>1, <3>1, <3>2, <3>3, Zenon
  <2>3. L!Try(p, group[p])
    BY <1>2, <2>2, Zenon DEF Attempt, QueueFrame, L!Try
  <2> QED
    BY <2>1, <2>3, Zenon DEF L!Next
<1>3. ASSUME NEW p \in Producers, Committed(p) PROVE L!Next
  <2>1. group[p] \in 1 .. Groups
    BY <1>1, <1>3, SMTT(30) DEF Committed, CommitterSound, TypeOK
  <2>2. <<p, group[p], tries[p][group[p]]>> \in landed
    BY <1>1, <1>3, Zenon DEF Committed, AnswersSound, Current
  <2>3. L!Ack(p, group[p])
    BY <1>3, <2>2, Zenon DEF Committed, QueueFrame, L!Ack
  <2> QED
    BY <2>1, <2>3, Zenon DEF L!Next
<1>4. ASSUME NEW r \in requests, HandlePut(r) \/ HandlePutTwice(r)
      PROVE  L!Next \/ UNCHANGED L!vars
  <2>1. Apply(r) /\ consumed' = consumed /\ tries' = tries /\ acked' = acked
    BY <1>4, Zenon DEF HandlePut, HandlePutTwice, StoreFrame
  <2>2. CASE ~Matches(r)
    BY <2>1, <2>2, Zenon DEF Apply, L!vars
  <2>3. CASE Matches(r)
    <3> DEFINE p == r.by[1]
               g == r.by[2]
               a == r.by[3]
    <3>1. /\ p \in Producers /\ g \in 1 .. Groups /\ a \in 1 .. ManifestMaxAttempts
          /\ r.by = <<p, g, a>>
      BY <1>1, RequestBy, Zenon
    <3>2. a <= tries[p][g]
      BY <1>1, Zenon DEF RequestsSound
    <3>3. Redelivers \/ r.by \notin landed
      BY <1>1, Zenon DEF OneRequest
    <3>4. landed' = landed \cup {r.by}
      BY <2>1, <2>3, Zenon DEF Apply
    <3>5. consumed' \o manifest'.entries
            = (consumed \o manifest.entries) \o L!Numbered(p, g, Len(consumed \o manifest.entries))
      BY <1>1, <2>1, <2>3, ApplyAppends, Zenon
    <3> HIDE DEF p, g, a
    <3>6. a \in 1 .. tries[p][g]
      BY <1>1, <3>1, <3>2 DEF TypeOK
    <3>7. L!Add(p, g, a)
      BY <2>1, <3>1, <3>3, <3>4, <3>5, Zenon DEF L!Add
    <3> QED
      BY <3>1, <3>6, <3>7, Zenon DEF L!Next
  <2> QED
    BY <2>2, <2>3, Zenon
<1>5. ASSUME NEW n \in 0 .. Len(manifest.entries), NEW e \in 0 .. 1, Trim(n, e)
      PROVE  UNCHANGED L!vars
  <2>1. consumed' \o manifest'.entries = consumed \o manifest.entries
    BY <1>1, <1>5, TrimKeepsLog, Zenon
  <2> QED
    BY <1>5, <2>1, Zenon DEF Trim, L!vars
<1>6. CASE UNCHANGED <<manifest, consumed, tries, landed, acked>>
  BY <1>6, Zenon DEF L!vars
<1>7. ASSUME NEW p \in Producers, Enqueue(p) \/ Stop(p) PROVE L!Next \/ UNCHANGED L!vars
  <2>1. CASE \/ ReadFails(p) \/ TooManyEntries(p) \/ PutFails(p)
             \/ ReadAndSend(p) \/ Conflict(p) \/ Stop(p)
    <3>1. UNCHANGED <<manifest, consumed, tries, landed, acked>>
      BY <2>1, Zenon DEF ReadFails, TooManyEntries, PutFails, AttemptFails, ReadAndSend, Conflict, Stop,
                  QueueFrame
    <3> QED
      BY <1>6, <3>1, Zenon
  <2> QED
    BY <1>2, <1>3, <1>7, <2>1, Zenon DEF Enqueue
<1>8. ASSUME NEW p \in Readers, LoadWrites(p) \/ ReturnRate(p) PROVE UNCHANGED L!vars
  BY <1>8, Zenon DEF LoadWrites, ReturnRate, RateFrame, L!vars
<1>9. ASSUME UNCHANGED vars PROVE UNCHANGED L!vars
  BY <1>9, Zenon DEF vars, L!vars
<1> QED
  BY <1>4, <1>5, <1>7, <1>8, <1>9, Zenon DEF Next

\* enqueueBatch and the retries around it implement DurableLog: groups are
\* appended whole and in place, at most once an attempt, and a group reported
\* committed is in the log for good.
THEOREM QueueImplementsLog == Spec => ImplementsLog
<1>1. Init => L!Init
  BY DEF Init, L!Init, emptyManifest
<1>2. Inv /\ [Next]_vars => [L!Next]_(L!vars)
  BY StepMaps, Zenon
<1> QED
  BY <1>1, <1>2, InvHolds, PTL DEF Spec, ImplementsLog, L!Spec

-----------------------------------------------------------------------------
(* ConflictRate *)

\* The quotient that conflictRate computes is at most 100.
LEMMA PercentageBounded ==
  ASSUME NEW c \in Nat, NEW w \in Nat, w > 0
  PROVE  Percentage(c, w) \in Nat /\ Percentage(c, w) <= 100
<1>1. CASE c > w
  BY <1>1 DEF Percentage
<1>2. CASE ~(c > w)
  <2> DEFINE q == (100 * c) \div w
  <2>1. q \in Int /\ w * q <= 100 * c /\ 100 * c < w * (q + 1)
    OBVIOUS
  <2>2. 100 * c <= 100 * w
    BY <1>2
  <2>3. q <= 100
    <3> HIDE DEF q
    <3>1. w * q <= 100 * w
      BY <2>1, <2>2
    <3> QED
      BY <2>1, <3>1
  <2>4. q >= 0
    OBVIOUS
  <2> QED
    BY <1>2, <2>1, <2>3, <2>4 DEF Percentage
<1> QED
  BY <1>1, <1>2, Zenon

\* For any number of producers and readers: conflictRate returns a percentage,
\* however writes and conflicts are recorded between its two loads.
THEOREM RatesArePercentages == Spec => []RateIsPercentage
<1>1. Init => RateIsPercentage
  <2> SUFFICES ASSUME Init, NEW p \in Producers PROVE rate[p] <= 100
    BY Zenon DEF RateIsPercentage
  <2>1. rate[p] = 0
    BY Zenon DEF Init
  <2> QED
    BY <2>1
<1>2. ASSUME TypeOK, RateIsPercentage, [Next]_vars PROVE RateIsPercentage'
  <2>1. CASE UNCHANGED rate
    BY <1>2, <2>1, Zenon DEF RateIsPercentage
  <2>2. ASSUME NEW p \in Readers, LoadWrites(p) PROVE RateIsPercentage'
    <3>1. \A q \in Producers : rate'[q] = rate[q] \/ rate'[q] = 0
      BY <1>2, <2>2, Zenon DEF LoadWrites, TypeOK
    <3>2. 0 <= 100
      OBVIOUS
    <3> QED
      BY <1>2, <3>1, <3>2, Zenon DEF RateIsPercentage
  <2>3. ASSUME NEW p \in Readers, ReturnRate(p) PROVE RateIsPercentage'
    <3>1. \A q \in Producers : rate'[q] \in {rate[q], Percentage(conflictCount[p], loaded[p])}
      BY <1>2, <2>3, Zenon DEF ReturnRate, TypeOK
    <3> QED
      BY <1>2, <2>3, <3>1, PercentageBounded, ZenonT(30) DEF ReturnRate, RateIsPercentage, TypeOK
  <2>4. CASE \E p \in Producers : Enqueue(p) \/ Stop(p)
    <3>1. UNCHANGED rateVars
      BY <2>4, Zenon DEF Enqueue, Attempt, ReadFails, TooManyEntries, PutFails, AttemptFails,
                         ReadAndSend, Committed, Conflict, Stop, QueueFrame
    <3> QED
      BY <2>1, <3>1, Zenon DEF rateVars
  <2>5. CASE \E r \in requests : HandlePut(r) \/ HandlePutTwice(r)
    BY <2>1, <2>5, Zenon DEF HandlePut, HandlePutTwice, StoreFrame, rateVars
  <2>6. CASE \E n \in 0 .. Len(manifest.entries), e \in 0 .. 1 : Trim(n, e)
    BY <2>1, <2>6, Zenon DEF Trim, rateVars
  <2>7. CASE UNCHANGED vars
    BY <2>1, <2>7, Zenon DEF vars, rateVars
  <2> QED
    BY <1>2, <2>2, <2>3, <2>4, <2>5, <2>6, <2>7, Zenon DEF Next
<1>3. TypeOK /\ RateIsPercentage /\ [Next]_vars => RateIsPercentage'
  BY <1>2, Zenon
<1> QED
  BY <1>1, <1>3, QueueTyped, PTL DEF Spec
=============================================================================
