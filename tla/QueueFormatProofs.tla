------------------------- MODULE QueueFormatProofs --------------------------
(***************************************************************************)
(* The invariants of QueueFormat for all groups of messages, all prefixes  *)
(* and compressions.  The producer extends the manifest as bytes and the   *)
(* consumer rewrites it; the inductive invariant FormatInv says that it is *)
(* always the encoding of the log, which CodecProofs shows to read back.   *)
(***************************************************************************)
EXTENDS CodecProofs, QueueFormat, FiniteSetTheorems

-----------------------------------------------------------------------------
(* The inductive invariant *)

\* A batch that the producer cuts.
IsBatch(msgs) == \E g \in Groups : \E i \in DOMAIN g : msgs = g[i]

\* What the log records of a batch.
Logged == [sequence : Nat, ordinal : Nat, msgs : Seq(Message)]

\* The entry of a batch, for a given prefix of its location.
EntryOf(p, b) == [sequence |-> b.sequence, location |-> p \o LE16(b.ordinal),
                  metadata |-> BatchMetadata(b.msgs)]

\* The entries of the batches in L.
EntriesOf(p, L) == [i \in DOMAIN L |-> EntryOf(p, L[i])]

\* A manifest with the entries of the batches in L.
Manifest(p, L, next, ep) == encodeAll(EntriesOf(p, L)) \o Footer(Len(L), next, ep)

\* A batch of the log: its entry could be encoded, and its object is there.
InLog(p, comp, objs, next, b) ==
  /\ b \in Logged /\ b.sequence < next /\ IsBatch(b.msgs) /\ Encodable(EntryOf(p, b))
  /\ b.ordinal \in DOMAIN objs
  /\ EncodeBatch(BatchEntries(b.msgs), comp).is = "ok"
  /\ objs[b.ordinal] = EncodeBatch(BatchEntries(b.msgs), comp).value

\* The manifest is the encoding of the log, whatever was appended to it as bytes.
FormatInv ==
  /\ prefix \in PathPrefixes /\ compression \in Compressions
  /\ ordinal \in 0 .. MaxBatches /\ nextSequence \in 0 .. ordinal
  /\ trims \in 0 .. MaxTrims /\ epoch = trims
  /\ DOMAIN objects \subseteq 0 .. ordinal - 1
  /\ \A o \in DOMAIN objects : objects[o] \in Seq(Byte)
  /\ log \in Seq(Logged) /\ Len(log) <= MaxUint32
  /\ \A i \in 1 .. Len(log) : InLog(prefix, compression, objects, nextSequence, log[i])
  /\ ReadManifest = Manifest(prefix, log, nextSequence, epoch)

-----------------------------------------------------------------------------
\* The entries of the messages of a batch.
EntriesOfMessages(msgs) == [i \in DOMAIN msgs |-> msgs[i].entries]

\* The entries of the first messages are the first entries of the batch.
LEMMA BatchEntriesType ==
  ASSUME NEW ms, ms \in Seq(Message)
  PROVE  /\ EntriesOfMessages(ms) \in Seq(Seq(Seq(Byte))) /\ Len(EntriesOfMessages(ms)) = Len(ms)
         /\ \A i \in 1 .. Len(ms) : EntriesOfMessages(ms)[i] = ms[i].entries
         /\ BatchEntries(ms) = Joined(EntriesOfMessages(ms)) /\ BatchEntries(ms) \in Seq(Seq(Byte))
         /\ \A k \in 0 .. Len(ms) :
              BatchEntries(SubSeq(ms, 1, k)) = Joined(SubSeq(EntriesOfMessages(ms), 1, k))
<1> DEFINE E(x) == EntriesOfMessages(x)
<1>1. ASSUME NEW x, x \in Seq(Message)
      PROVE  E(x) \in Seq(Seq(Seq(Byte))) /\ Len(E(x)) = Len(x) /\ \A i \in 1 .. Len(x) : E(x)[i] = x[i].entries
  <2>1. Len(x) \in Nat /\ DOMAIN x = 1 .. Len(x) /\ \A i \in 1 .. Len(x) : x[i] \in Message
    BY <1>1
  <2>2. \A m \in Message : m.entries \in Seq(Seq(Byte))
    BY DEF Message
  <2>3. E(x) \in [1 .. Len(x) -> Seq(Seq(Byte))] /\ \A i \in 1 .. Len(x) : E(x)[i] = x[i].entries
    BY <2>1, <2>2, Zenon DEF EntriesOfMessages
  <2> DEFINE f == E(x)
  <2> HIDE DEF f
  <2>4. f \in [1 .. Len(x) -> Seq(Seq(Byte))]
    BY <2>3, Zenon DEF f
  <2>5. f \in Seq(Seq(Seq(Byte))) /\ Len(f) = Len(x)
    BY <2>1, <2>4
  <2> QED BY <2>3, <2>5, Zenon DEF f
<1>2. BatchEntries(ms) = Joined(E(ms)) /\ BatchEntries(ms) \in Seq(Seq(Byte))
  BY <1>1, JoinedConcat, Zenon DEF BatchEntries, EntriesOfMessages
<1>3. ASSUME NEW k \in 0 .. Len(ms)
      PROVE  BatchEntries(SubSeq(ms, 1, k)) = Joined(SubSeq(E(ms), 1, k))
  <2> DEFINE x == SubSeq(ms, 1, k)
             e == E(ms)
             y == SubSeq(e, 1, k)
  <2>1. x \in Seq(Message) /\ Len(x) = k /\ \A i \in 1 .. k : x[i] = ms[i]
    BY <1>3
  <2>2. e \in Seq(Seq(Seq(Byte))) /\ Len(e) = Len(ms) /\ \A i \in 1 .. Len(ms) : e[i] = ms[i].entries
    BY <1>1, Zenon
  <2> HIDE DEF e
  <2>3. y \in Seq(Seq(Seq(Byte))) /\ Len(y) = k /\ \A i \in 1 .. k : y[i] = e[i]
    BY <2>2
  <2> HIDE DEF x, y
  <2>4. E(x) \in Seq(Seq(Seq(Byte))) /\ Len(E(x)) = Len(x) /\ \A i \in 1 .. Len(x) : E(x)[i] = x[i].entries
    BY <1>1, <2>1, Zenon
  <2>5. \A i \in 1 .. k : i \in 1 .. Len(ms)
    OBVIOUS
  <2> DEFINE z == E(x)
  <2>6. z \in Seq(Seq(Seq(Byte))) /\ Len(z) = k /\ \A i \in 1 .. k : z[i] = y[i]
    BY <2>1, <2>2, <2>3, <2>4, <2>5, Zenon
  <2> HIDE DEF z
  <2>7. z = y
    BY <2>3, <2>6, SeqEqual
  <2> QED BY <2>7, Zenon DEF z, x, y, e, BatchEntries, EntriesOfMessages
<1> QED BY <1>1, <1>2, <1>3, Zenon

\* What add records of the messages of a batch: each start index is a number that
\* its field can hold.
LEMMA BatchMetadataType ==
  ASSUME NEW ms, ms \in Seq(Message)
  PROVE  /\ BatchMetadata(ms) \in Seq(Metadata) /\ Len(BatchMetadata(ms)) = Len(ms)
         /\ DOMAIN BatchMetadata(ms) = 1 .. Len(ms)
         /\ \A i \in 1 .. Len(ms) :
              /\ BatchMetadata(ms)[i].startIndex = Len(BatchEntries(SubSeq(ms, 1, i - 1))) % Values32
              /\ BatchMetadata(ms)[i].startIndex <= MaxUint32
              /\ BatchMetadata(ms)[i].ingestionTimeMs = ms[i].ingestionTimeMs
              /\ BatchMetadata(ms)[i].ingestionTimeMs \in Int64
              /\ BatchMetadata(ms)[i].payload = ms[i].metadata
<1> DEFINE Start(i) == Len(BatchEntries(SubSeq(ms, 1, i - 1))) % Values32
           Item(i) == [startIndex |-> Start(i), ingestionTimeMs |-> ms[i].ingestionTimeMs,
                       payload |-> ms[i].metadata]
           f == [i \in 1 .. Len(ms) |-> Item(i)]
<1>1. Len(ms) \in Nat /\ DOMAIN ms = 1 .. Len(ms) /\ \A i \in 1 .. Len(ms) : ms[i] \in Message
  OBVIOUS
<1>2. BatchMetadata(ms) = f
  BY <1>1, Zenon DEF BatchMetadata
<1>3. ASSUME NEW i \in 1 .. Len(ms) PROVE Start(i) \in Nat /\ Start(i) <= MaxUint32
  <2> DEFINE x == SubSeq(ms, 1, i - 1)
             n == Len(BatchEntries(x))
  <2>1. x \in Seq(Message)
    BY <1>3
  <2> HIDE DEF x
  <2>2. BatchEntries(x) \in Seq(Seq(Byte))
    BY <2>1, BatchEntriesType, Zenon
  <2>3. n \in Nat
    BY <2>2
  <2> HIDE DEF n
  <2>4. n % Values32 \in Nat /\ n % Values32 <= MaxUint32
    BY <2>3, ValuesType DEF MaxUint32
  <2> QED BY <2>4, Zenon DEF n, x
<1> HIDE DEF Start
<1>4. ASSUME NEW i \in 1 .. Len(ms)
      PROVE  /\ Item(i) \in Metadata /\ Item(i).startIndex = Start(i)
             /\ Item(i).ingestionTimeMs = ms[i].ingestionTimeMs /\ Item(i).ingestionTimeMs \in Int64
             /\ Item(i).payload = ms[i].metadata
  <2> DEFINE s == Start(i)
             m == ms[i]
  <2>1. s \in Nat /\ m \in Message
    BY <1>1, <1>3, Zenon
  <2>2. m.ingestionTimeMs \in Int64 /\ m.metadata \in Seq(Byte)
    BY <2>1 DEF Message
  <2>3. m.ingestionTimeMs \in Int
    BY <2>2, ValuesType DEF Int64
  <2> HIDE DEF s, m
  <2> DEFINE t == m.ingestionTimeMs
             w == m.metadata
  <2> HIDE DEF t, w
  <2>4. t \in Int64 /\ t \in Int /\ w \in Seq(Byte)
    BY <2>2, <2>3, Zenon DEF t, w
  <2>5. LET it == [startIndex |-> s, ingestionTimeMs |-> t, payload |-> w]
        IN it \in Metadata /\ it.startIndex = s /\ it.ingestionTimeMs = t /\ it.payload = w
    BY <2>1, <2>4 DEF Metadata
  <2> QED BY <2>4, <2>5, Zenon DEF s, t, w, m
<1>5. f \in [1 .. Len(ms) -> Metadata] /\ \A i \in 1 .. Len(ms) : f[i] = Item(i)
  BY <1>4, Zenon
<1>6. f \in Seq(Metadata) /\ Len(f) = Len(ms) /\ DOMAIN f = 1 .. Len(ms)
  <2> HIDE DEF f
  <2> QED BY <1>1, <1>5
<1> HIDE DEF f, Item
<1> QED BY <1>2, <1>3, <1>4, <1>5, <1>6, Zenon DEF Start

\* The fields of the entry of a batch; its location has two bytes more than the prefix.
LEMMA EntryOfType ==
  ASSUME NEW p, p \in Seq(Byte), NEW b, b \in Logged
  PROVE  /\ EntryOf(p, b) \in QueueEntry
         /\ EntryOf(p, b).sequence = b.sequence /\ EntryOf(p, b).location = p \o LE16(b.ordinal)
         /\ EntryOf(p, b).metadata = BatchMetadata(b.msgs)
         /\ Len(EntryOf(p, b).location) = Len(p) + 2
<1> DEFINE l == p \o LE16(b.ordinal)
           m == BatchMetadata(b.msgs)
           q == b.sequence
<1>1. b.sequence \in Nat /\ b.ordinal \in Nat /\ b.ordinal \in Int /\ b.msgs \in Seq(Message)
  BY DEF Logged
<1>2. LE16(b.ordinal) \in Seq(Byte) /\ Len(LE16(b.ordinal)) = 2
  BY <1>1, LEType, Zenon
<1>3. l \in Seq(Byte) /\ Len(l) = Len(p) + 2
  <2>1. LE16(b.ordinal) \in Seq(Byte)
    BY <1>2, Zenon
  <2>2. l \in Seq(Byte) /\ Len(l) = Len(p) + Len(LE16(b.ordinal))
    BY <2>1, ConcatLen, Zenon
  <2> QED BY <1>2, <2>2, Zenon
<1>4. m \in Seq(Metadata)
  BY <1>1, BatchMetadataType, Zenon
<1>5. EntryOf(p, b) = [sequence |-> q, location |-> l, metadata |-> m]
  BY Zenon DEF EntryOf
<1>6. q \in Nat
  BY <1>1, Zenon
<1> HIDE DEF l, m, q
<1>7. LET e == [sequence |-> q, location |-> l, metadata |-> m]
      IN e \in QueueEntry /\ e.sequence = q /\ e.location = l /\ e.metadata = m
  BY <1>3, <1>4, <1>6 DEF QueueEntry
<1> QED BY <1>3, <1>5, <1>7, Zenon DEF l, m, q

\* The entry of a batch that encodeQueueEntry accepts fits the fields of the manifest.
LEMMA EntryOfFits ==
  ASSUME NEW p, p \in PathPrefixes, NEW b, b \in Logged, b.sequence < Values64, IsBatch(b.msgs),
         Encodable(EntryOf(p, b))
  PROVE  EntryOf(p, b) \in EntryThatFits
<1> DEFINE e == EntryOf(p, b)
           m == BatchMetadata(b.msgs)
           none == [location |-> p \o LE16(0), metadata |-> m]
<1>1. p \in Seq(Byte)
  BY FormatAssumption, Zenon
<1>2. b.msgs \in Seq(Message)
  BY DEF Logged
<1>3. /\ e \in QueueEntry /\ e.sequence = b.sequence /\ e.metadata = m /\ Len(e.location) = Len(p) + 2
  BY <1>1, EntryOfType, Zenon
<1>4. /\ m \in Seq(Metadata) /\ Len(m) = Len(b.msgs) /\ DOMAIN m = 1 .. Len(b.msgs)
      /\ \A i \in 1 .. Len(b.msgs) : m[i].startIndex <= MaxUint32 /\ m[i].ingestionTimeMs \in Int64
  BY <1>2, BatchMetadataType, Zenon
<1>5. Len(e.location) <= MaxUint16 /\ \A i \in DOMAIN m : Len(m[i].payload) <= MaxUint32
  BY <1>3, Zenon DEF Encodable
<1> HIDE DEF e, m
<1>6. \A i \in 1 .. Len(m) : m[i] \in MetadataThatFits
  <2>1. \A i \in 1 .. Len(m) : m[i] \in Metadata
    BY <1>4
  <2> QED BY <1>4, <1>5, <2>1, Zenon DEF MetadataThatFits
<1>7. /\ Len(b.msgs) <= MaxUint32
      /\ Len(p) + 2 <= MaxUint16 => entryBodyLen(none) <= MaxUint32
  <2>1. PICK g \in Groups : \E i \in DOMAIN g : b.msgs = g[i]
    BY Zenon DEF IsBatch
  <2>2. PICK i \in DOMAIN g : b.msgs = g[i]
    BY <2>1, Zenon
  <2> QED BY <2>2, BatchAssumption, Zenon DEF m
<1>8. Len(none.location) = Len(p) + 2 /\ none.metadata = m
  <2> DEFINE z == LE16(0)
             l == p \o z
  <2>1. z \in Seq(Byte) /\ Len(z) = 2
    BY LEType
  <2> HIDE DEF z
  <2>2. l \in Seq(Byte) /\ Len(l) = Len(p) + Len(z)
    BY <1>1, <2>1, ConcatLen, Zenon
  <2> HIDE DEF l
  <2>3. none = [location |-> l, metadata |-> m]
    BY Zenon DEF l, z
  <2> HIDE DEF none
  <2>4. none.location = l /\ none.metadata = m
    BY <2>3
  <2> QED BY <2>1, <2>2, <2>4, Zenon
<1> HIDE DEF none
<1>9. entryBodyLen(e) = entryBodyLen(none)
  BY <1>3, <1>8, Zenon DEF entryBodyLen
<1>10. entryBodyLen(e) <= MaxUint32
  BY <1>3, <1>5, <1>7, <1>9, Zenon
<1>11. e.sequence < Values64
  BY <1>3, Zenon
<1>12. Len(e.metadata) <= MaxUint32 /\ \A i \in 1 .. Len(e.metadata) : e.metadata[i] \in MetadataThatFits
  BY <1>3, <1>4, <1>6, <1>7, Zenon
<1> QED BY <1>3, <1>5, <1>10, <1>11, <1>12, Zenon DEF EntryThatFits, e

\* The entries of a log, one for each batch.
LEMMA EntriesOfType ==
  ASSUME NEW p, p \in Seq(Byte), NEW L, L \in Seq(Logged)
  PROVE  /\ EntriesOf(p, L) \in Seq(QueueEntry) /\ Len(EntriesOf(p, L)) = Len(L)
         /\ \A i \in 1 .. Len(L) : EntriesOf(p, L)[i] = EntryOf(p, L[i])
<1> DEFINE f == EntriesOf(p, L)
<1>1. Len(L) \in Nat /\ DOMAIN L = 1 .. Len(L) /\ \A i \in 1 .. Len(L) : L[i] \in Logged
  OBVIOUS
<1>2. f \in [1 .. Len(L) -> QueueEntry] /\ \A i \in 1 .. Len(L) : f[i] = EntryOf(p, L[i])
  BY <1>1, EntryOfType, Zenon DEF EntriesOf
<1> HIDE DEF f
<1>3. f \in Seq(QueueEntry) /\ Len(f) = Len(L)
  BY <1>1, <1>2
<1> QED BY <1>2, <1>3, Zenon DEF f

\* The entries of a log whose entries fit are a sequence of such entries.
LEMMA EntriesOfFit ==
  ASSUME NEW p, p \in Seq(Byte), NEW L, L \in Seq(Logged),
         \A i \in 1 .. Len(L) : EntryOf(p, L[i]) \in EntryThatFits
  PROVE  EntriesOf(p, L) \in Seq(EntryThatFits)
<1> DEFINE f == EntriesOf(p, L)
<1>1. f \in Seq(QueueEntry) /\ Len(f) = Len(L) /\ \A i \in 1 .. Len(L) : f[i] = EntryOf(p, L[i])
  BY EntriesOfType, Zenon
<1> HIDE DEF f
<1>2. Len(f) \in Nat /\ f = [i \in 1 .. Len(f) |-> f[i]]
  BY <1>1
<1>3. \A i \in 1 .. Len(f) : f[i] \in EntryThatFits
  BY <1>1, Zenon
<1>4. f \in [1 .. Len(f) -> EntryThatFits]
  BY <1>2, <1>3, Zenon
<1>5. f \in Seq(EntryThatFits)
  BY <1>2, <1>4
<1> QED BY <1>5, Zenon DEF f

\* Joining two logs joins their entries.
LEMMA EntriesOfConcat ==
  ASSUME NEW p, p \in Seq(Byte), NEW L, L \in Seq(Logged), NEW A, A \in Seq(Logged)
  PROVE  EntriesOf(p, L \o A) = EntriesOf(p, L) \o EntriesOf(p, A)
<1> DEFINE LA == L \o A
           x == EntriesOf(p, LA)
           y == EntriesOf(p, L)
           z == EntriesOf(p, A)
<1>1. /\ LA \in Seq(Logged) /\ Len(LA) = Len(L) + Len(A) /\ Len(L) \in Nat /\ Len(A) \in Nat
      /\ \A i \in 1 .. Len(LA) : LA[i] = IF i <= Len(L) THEN L[i] ELSE A[i - Len(L)]
  OBVIOUS
<1> HIDE DEF LA
<1>2. x \in Seq(QueueEntry) /\ Len(x) = Len(LA) /\ \A i \in 1 .. Len(LA) : x[i] = EntryOf(p, LA[i])
  BY <1>1, EntriesOfType, Zenon
<1>3. y \in Seq(QueueEntry) /\ Len(y) = Len(L) /\ \A i \in 1 .. Len(L) : y[i] = EntryOf(p, L[i])
  BY <1>1, EntriesOfType, Zenon
<1>4. z \in Seq(QueueEntry) /\ Len(z) = Len(A) /\ \A i \in 1 .. Len(A) : z[i] = EntryOf(p, A[i])
  BY <1>1, EntriesOfType, Zenon
<1> HIDE DEF x, y, z
<1> DEFINE yz == y \o z
<1>5. /\ yz \in Seq(QueueEntry) /\ Len(yz) = Len(LA)
      /\ \A i \in 1 .. Len(LA) : yz[i] = IF i <= Len(L) THEN y[i] ELSE z[i - Len(L)]
  <2>1. y \in Seq(QueueEntry) /\ z \in Seq(QueueEntry)
    BY <1>3, <1>4, Zenon
  <2>2. /\ yz \in Seq(QueueEntry) /\ Len(yz) = Len(y) + Len(z)
        /\ \A i \in 1 .. Len(y) + Len(z) : yz[i] = IF i <= Len(y) THEN y[i] ELSE z[i - Len(y)]
    BY <2>1, ConcatProperties
  <2> HIDE DEF yz
  <2> QED BY <1>1, <1>3, <1>4, <2>2, Zenon
<1> HIDE DEF yz
<1>6. ASSUME NEW i \in 1 .. Len(LA) PROVE x[i] = yz[i]
  <2>1. CASE i <= Len(L)
    <3>1. i \in 1 .. Len(L)
      BY <1>1, <2>1
    <3> QED BY <1>1, <1>2, <1>3, <1>5, <2>1, <3>1, Zenon
  <2>2. CASE ~(i <= Len(L))
    <3>1. i - Len(L) \in 1 .. Len(A)
      BY <1>1, <2>2
    <3>2. x[i] = EntryOf(p, A[i - Len(L)])
      BY <1>1, <1>2, <2>2, Zenon
    <3>3. yz[i] = z[i - Len(L)]
      BY <1>5, <2>2, Zenon
    <3> QED BY <1>4, <3>1, <3>2, <3>3, Zenon
  <2> QED BY <2>1, <2>2, Zenon
<1>7. x = yz
  BY <1>2, <1>5, <1>6, SeqEqual
<1> QED BY <1>7, Zenon DEF x, yz, y, z, LA

\* The bytes of a manifest read back as its entries and its footer.
LEMMA ManifestReads ==
  ASSUME NEW p, p \in Seq(Byte), NEW L, L \in Seq(Logged), Len(L) <= MaxUint32,
         \A i \in 1 .. Len(L) : EntryOf(p, L[i]) \in EntryThatFits,
         NEW next \in 0 .. Values64 - 1, NEW ep \in 0 .. Values64 - 1
  PROVE  /\ Splits(Manifest(p, L, next, ep), encodeAll(EntriesOf(p, L)), Len(L), next, ep)
         /\ DecodeManifestEntries(Manifest(p, L, next, ep)) = Ok(EntriesOf(p, L))
<1> DEFINE es == EntriesOf(p, L)
           d == Manifest(p, L, next, ep)
<1>1. es \in Seq(EntryThatFits)
  BY EntriesOfFit, Zenon
<1>2. Len(es) = Len(L)
  BY EntriesOfType, Zenon
<1>3. d = encodeAll(es) \o Footer(Len(es), next, ep) /\ Len(es) <= MaxUint32
  BY <1>2, Zenon DEF Manifest
<1> HIDE DEF es, d
<1>4. DecodeManifestEntries(d) = Ok(es) /\ Splits(d, encodeAll(es), Len(es), next, ep)
  BY <1>1, <1>3, ManifestRoundTrip, Zenon
<1> QED BY <1>2, <1>4, Zenon DEF es, d

\* toBytes, which copies the old entries as bytes, makes the manifest of the longer log.
LEMMA ManifestGrows ==
  ASSUME NEW p, p \in Seq(Byte), NEW L, L \in Seq(Logged), NEW A, A \in Seq(Logged),
         NEW d, NEW next, NEW ep, Splits(d, encodeAll(EntriesOf(p, L)), Len(L), next, ep),
         NEW n, NEW e
  PROVE  toBytes(d, EntriesOf(p, A), n, e) = Manifest(p, L \o A, n, e)
<1> DEFINE x == EntriesOf(p, L)
           y == EntriesOf(p, A)
<1>1. x \in Seq(QueueEntry) /\ y \in Seq(QueueEntry) /\ Len(y) = Len(A)
  BY EntriesOfType, Zenon
<1>2. Slice(d, 0, Len(d) - mFooterSize) = encodeAll(x) /\ existingEntriesCount(d) = Len(L)
  BY Zenon DEF Splits
<1>3. EntriesOf(p, L \o A) = x \o y
  BY EntriesOfConcat, Zenon
<1>4. Len(L \o A) = Len(L) + Len(A)
  BY ConcatLen, Zenon
<1> HIDE DEF x
<1>5. encodeAll(x \o y) = encodeAll(x) \o encodeAll(y)
  <2> HIDE DEF y
  <2> QED BY <1>1, EncodeAllConcat, Zenon
<1> HIDE DEF y
<1>6. toBytes(d, y, n, e) = (encodeAll(x) \o encodeAll(y)) \o Footer(Len(L) + Len(A), n, e)
  BY <1>1, <1>2, Zenon DEF toBytes
<1>7. Manifest(p, L \o A, n, e) = encodeAll(x \o y) \o Footer(Len(L) + Len(A), n, e)
  BY <1>3, <1>4, Zenon DEF Manifest
<1> QED BY <1>5, <1>6, <1>7, Zenon DEF y

\* The manifest that readManifest makes up is that of the empty log.
LEMMA ManifestStarts ==
  ASSUME NEW p
  PROVE  Manifest(p, <<>>, 0, 0) = emptyManifest
<1>1. EntriesOf(p, <<>>) = <<>>
  BY DEF EntriesOf
<1>2. encodeAll(<<>>) = <<>>
  <2>1. [i \in DOMAIN <<>> |-> encodeQueueEntry(<<>>[i])] = <<>>
    OBVIOUS
  <2>2. Joined(<<>>) = <<>>
    BY JoinedAppend, Zenon
  <2> QED BY <2>1, <2>2, Zenon DEF encodeAll
<1>3. Len(<<>>) = 0
  OBVIOUS
<1>4. Footer(0, 0, 0) \in Seq(Byte)
  BY FooterType
<1> DEFINE F == Footer(0, 0, 0)
<1> HIDE DEF F
<1>5. <<>> \o F = F
  <2>1. F \in Seq(Byte)
    BY <1>4, Zenon DEF F
  <2> QED BY <2>1, ConcatEmptySeq
<1> QED BY <1>1, <1>2, <1>3, <1>5, Zenon DEF Manifest, emptyManifest, F

\* Locations of different batches differ.
LEMMA LocationsDiffer ==
  ASSUME NEW p, p \in Seq(Byte), NEW o \in 0 .. Values16 - 1, NEW q \in 0 .. Values16 - 1,
         p \o LE16(o) = p \o LE16(q)
  PROVE  o = q
<1> DEFINE Loc(x) == p \o LE16(x)
<1>1. ASSUME NEW x \in 0 .. Values16 - 1 PROVE Uint16(Loc(x), Len(p)) = x
  <2> DEFINE l == LE16(x)
             d == p \o l
  <2>1. x \in Int /\ x % Values16 = x
    <3>1. Values16 \in Nat \ {0}
      BY ValuesType
    <3>2. x % Values16 = x
      BY <3>1, FitsField, Zenon
    <3> QED BY <3>1, <3>2
  <2>2. l \in Seq(Byte)
    BY <2>1, LEType, Zenon
  <2> HIDE DEF l
  <2>3. d \in Seq(Byte) /\ At(d, Len(p), l)
    BY <2>2, AtEnds, ConcatLen, Zenon
  <2>4. Len(p) \in Nat
    OBVIOUS
  <2> HIDE DEF d
  <2>5. At(d, Len(p), LE16(x))
    BY <2>3, Zenon DEF l
  <2>6. Uint16(d, Len(p)) = x % Values16
    BY <2>1, <2>3, <2>4, <2>5, UintAt, Zenon
  <2> QED BY <2>1, <2>6, Zenon DEF d, l
<1>2. Loc(o) = Loc(q)
  OBVIOUS
<1> HIDE DEF Loc
<1> QED BY <1>1, <1>2, Zenon

\* The entries between one start index and the next are those of one message.
LEMMA MessageOfBatch ==
  ASSUME NEW ms, ms \in Seq(Message), Len(BatchEntries(ms)) <= MaxUint32, NEW i \in 1 .. Len(ms)
  PROVE  SubSeq(BatchEntries(ms), BatchMetadata(ms)[i].startIndex + 1,
                IF i = Len(ms) THEN Len(BatchEntries(ms)) ELSE BatchMetadata(ms)[i + 1].startIndex)
           = ms[i].entries
<1> DEFINE E == EntriesOfMessages(ms)
           all == BatchEntries(ms)
           N == Len(ms)
           P(k) == Len(Joined(SubSeq(E, 1, k)))
<1>1. /\ E \in Seq(Seq(Seq(Byte))) /\ Len(E) = N /\ \A k \in 1 .. N : E[k] = ms[k].entries
      /\ all = Joined(E) /\ all \in Seq(Seq(Byte))
      /\ \A k \in 0 .. N : BatchEntries(SubSeq(ms, 1, k)) = Joined(SubSeq(E, 1, k))
  BY BatchEntriesType, Zenon
<1>2. \A k \in 1 .. N : BatchMetadata(ms)[k].startIndex = Len(BatchEntries(SubSeq(ms, 1, k - 1))) % Values32
  BY BatchMetadataType, Zenon
<1>3. N \in Nat
  OBVIOUS
<1> HIDE DEF E, all
<1>4. ASSUME NEW k \in 1 .. N
      PROVE  /\ P(k - 1) \in Nat /\ P(k) = P(k - 1) + Len(E[k]) /\ P(k) <= Len(all) /\ Len(E[k]) \in Nat
             /\ At(all, P(k - 1), E[k])
  <2> DEFINE a == Joined(SubSeq(E, 1, k - 1))
             b == Joined(SubSeq(E, k + 1, Len(E)))
             c == Joined(SubSeq(E, 1, k))
             s == E[k]
  <2>1. k \in 1 .. Len(E) /\ s \in Seq(Seq(Byte))
    BY <1>1
  <2>2. a \in Seq(Seq(Byte)) /\ b \in Seq(Seq(Byte)) /\ c = a \o s /\ all = (a \o s) \o b
    BY <1>1, <2>1, JoinedPieces, Zenon
  <2> HIDE DEF a, b, c, s
  <2>3. At((a \o s) \o b, Len(a), s)
    BY <2>1, <2>2, AtInside
  <2>4. /\ a \o s \in Seq(Seq(Byte)) /\ Len(a \o s) = Len(a) + Len(s)
    BY <2>1, <2>2, ConcatLen
  <2>5. Len((a \o s) \o b) = Len(a \o s) + Len(b)
    BY <2>2, <2>4, ConcatLen
  <2>6. Len(a) \in Nat /\ Len(s) \in Nat /\ Len(b) \in Nat
    BY <2>1, <2>2
  <2>7. Len(a) \in Nat /\ Len(c) = Len(a) + Len(s) /\ Len(c) <= Len(all)
    <3> DEFINE la == Len(a)
               ls == Len(s)
               lb == Len(b)
    <3>1. Len(c) = la + ls /\ Len(all) = (la + ls) + lb
      BY <2>2, <2>4, <2>5, Zenon
    <3>2. la \in Nat /\ ls \in Nat /\ lb \in Nat
      BY <2>6, Zenon
    <3> HIDE DEF la, ls, lb
    <3>3. la + ls <= (la + ls) + lb
      BY <3>2
    <3> QED BY <2>6, <3>1, <3>3, Zenon DEF la, ls, lb
  <2> QED BY <2>2, <2>3, <2>6, <2>7, Zenon DEF a, c, s
<1>5. P(N) = Len(all)
  <2>1. SubSeq(E, 1, N) = E
    <3>1. SubSeq(E, 1, Len(E)) = E
      BY <1>1, SubSeqFull
    <3> QED BY <1>1, <3>1, Zenon
  <2> QED BY <1>1, <2>1, Zenon
<1>6. ASSUME NEW k \in 1 .. N PROVE BatchMetadata(ms)[k].startIndex = P(k - 1)
  <2>1. k - 1 \in 0 .. N
    BY <1>3
  <2>2. BatchMetadata(ms)[k].startIndex = P(k - 1) % Values32
    BY <1>1, <1>2, <2>1, Zenon
  <2> DEFINE x == P(k - 1)
             y == Len(all)
             z == Len(E[k])
  <2>3. x \in Nat /\ x + z <= y /\ z \in Nat /\ y <= MaxUint32 /\ y \in Nat
    <3>1. x \in Nat /\ x + z <= y /\ z \in Nat
      BY <1>4, Zenon
    <3>2. y \in Nat
      BY <1>1
    <3> QED BY <3>1, <3>2, Zenon DEF all
  <2> HIDE DEF x, y, z
  <2>4. Values32 \in Nat \ {0} /\ x \in 0 .. Values32 - 1
    BY <2>3, ValuesType DEF MaxUint32
  <2>5. x % Values32 = x
    BY <2>4, FitsField, Zenon
  <2> QED BY <2>2, <2>5, Zenon DEF x
<1>7. BatchMetadata(ms)[i].startIndex = P(i - 1)
  BY <1>6, Zenon
<1>8. (IF i = N THEN Len(all) ELSE BatchMetadata(ms)[i + 1].startIndex) = P(i)
  <2>1. CASE i = N
    BY <1>5, <2>1, Zenon
  <2>2. CASE i # N
    <3>1. i + 1 \in 1 .. N /\ (i + 1) - 1 = i
      BY <1>3, <2>2
    <3> QED BY <1>6, <2>2, <3>1, Zenon
  <2> QED BY <2>1, <2>2, Zenon
<1> HIDE DEF N
<1>9. SubSeq(all, P(i - 1) + 1, P(i)) = E[i]
  <2> DEFINE x == P(i - 1)
             s == E[i]
  <2>1. x \in Nat /\ P(i) = x + Len(s) /\ At(all, x, s)
    BY <1>4, Zenon DEF N
  <2>2. s \in Seq(Seq(Byte))
    BY <1>1 DEF N
  <2> HIDE DEF x, s
  <2>3. Slice(all, x, x + Len(s)) = s
    BY <1>1, <2>1, <2>2, AtSlice
  <2> QED BY <2>1, <2>3, Zenon DEF Slice, x, s
<1> HIDE DEF P
<1> QED BY <1>1, <1>7, <1>8, <1>9, Zenon DEF all, N

\* Cutting the entries of a batch at the start indices gives back its messages.
LEMMA MessagesOfBatch ==
  ASSUME NEW ms, ms \in Seq(Message), Len(BatchEntries(ms)) <= MaxUint32
  PROVE  Messages(BatchEntries(ms), BatchMetadata(ms)) = ms
<1> DEFINE md == BatchMetadata(ms)
           all == BatchEntries(ms)
           To(i) == IF i = Len(md) THEN Len(all) ELSE md[i + 1].startIndex
           Cut(i) == SubSeq(all, md[i].startIndex + 1, To(i))
           Item(i) == [entries |-> Cut(i), metadata |-> md[i].payload, ingestionTimeMs |-> md[i].ingestionTimeMs]
           f == [i \in DOMAIN md |-> Item(i)]
<1>1. Messages(all, md) = f
  BY Zenon DEF Messages
<1>2. /\ DOMAIN md = 1 .. Len(ms) /\ Len(md) = Len(ms)
      /\ \A i \in 1 .. Len(ms) : md[i].ingestionTimeMs = ms[i].ingestionTimeMs /\ md[i].payload = ms[i].metadata
  BY BatchMetadataType, Zenon
<1>3. \A i \in 1 .. Len(ms) : Cut(i) = ms[i].entries
  BY <1>2, MessageOfBatch, Zenon
<1>4. \A i \in 1 .. Len(ms) : Item(i) = ms[i]
  <2> SUFFICES ASSUME NEW i \in 1 .. Len(ms) PROVE Item(i) = ms[i]
    OBVIOUS
  <2> DEFINE m == ms[i]
  <2>1. m \in Message
    OBVIOUS
  <2>2. Item(i) = [entries |-> m.entries, metadata |-> m.metadata, ingestionTimeMs |-> m.ingestionTimeMs]
    BY <1>2, <1>3, Zenon
  <2> HIDE DEF m, Item
  <2>3. [entries |-> m.entries, metadata |-> m.metadata, ingestionTimeMs |-> m.ingestionTimeMs] = m
    BY <2>1 DEF Message
  <2> QED BY <2>2, <2>3, Zenon DEF m
<1> HIDE DEF md, Item
<1>5. f = [i \in 1 .. Len(ms) |-> ms[i]]
  BY <1>2, <1>4, Zenon
<1>6. [i \in 1 .. Len(ms) |-> ms[i]] = ms
  OBVIOUS
<1> QED BY <1>1, <1>5, <1>6, Zenon DEF md

-----------------------------------------------------------------------------
(* The steps *)

\* The batches of a group that EncodeBatch accepts.
EncodableOf(group, comp) == {i \in DOMAIN group : EncodeBatch(BatchEntries(group[i]), comp).is = "ok"}

\* The batches that enqueueBatch adds to the log.
AddedOf(group, up, ord, next) ==
  [k \in DOMAIN up |-> [sequence |-> next + k - 1, ordinal |-> ord + up[k] - 1, msgs |-> group[up[k]]]]

\* The objects after the upload of a group.
ObjectsWith(objs, ord, group, comp) ==
  [o \in DOMAIN objs \cup {ord + i - 1 : i \in EncodableOf(group, comp)} |->
     IF o < ord THEN objs[o] ELSE EncodeBatch(BatchEntries(group[o - ord + 1]), comp).value]

\* A holds the batches up of the group, with consecutive sequence numbers.
AddedBatches(A, group, comp, up, ord, next) ==
  /\ A \in Seq(Logged) /\ DOMAIN up = 1 .. Len(A) /\ Len(A) \in 0 .. Len(group)
  /\ \A k \in 1 .. Len(A) :
       /\ up[k] \in EncodableOf(group, comp)
       /\ A[k].sequence < next + Len(A) /\ A[k].ordinal = ord + (up[k] - 1)
       /\ A[k].msgs = group[up[k]] /\ IsBatch(A[k].msgs)

\* objs2 holds the objects objs and those of the group.
Uploaded(objs2, objs, ord, group, comp) ==
  /\ DOMAIN objs2 \subseteq 0 .. (ord + Len(group)) - 1
  /\ \A o \in DOMAIN objs2 : objs2[o] \in Seq(Byte)
  /\ \A o \in DOMAIN objs : o \in DOMAIN objs2 /\ objs2[o] = objs[o]
  /\ \A i \in EncodableOf(group, comp) :
       /\ ord + (i - 1) \in DOMAIN objs2
       /\ objs2[ord + (i - 1)] = EncodeBatch(BatchEntries(group[i]), comp).value

\* A batch of a group is within the limits of BatchAssumption.
LEMMA BatchOfGroup ==
  ASSUME NEW p, p \in PathPrefixes, NEW group, group \in Groups, NEW i \in DOMAIN group
  PROVE  /\ group \in Seq(Seq(Message)) /\ Len(group) \in Nat /\ i \in 1 .. Len(group)
         /\ group[i] \in Seq(Message) /\ IsBatch(group[i]) /\ BatchEntries(group[i]) \in Seq(Seq(Byte))
         /\ Len(BatchEntries(group[i])) <= MaxUint32
<1>1. group \in Seq(Seq(Message))
  BY FormatAssumption, Zenon
<1>2. Len(group) \in Nat /\ i \in 1 .. Len(group) /\ group[i] \in Seq(Message)
  BY <1>1
<1>3. IsBatch(group[i])
  BY Zenon DEF IsBatch
<1>4. Len(BatchEntries(group[i])) <= MaxUint32
  BY BatchAssumption, Zenon
<1>5. BatchEntries(group[i]) \in Seq(Seq(Byte))
  BY <1>2, BatchEntriesType, Zenon
<1> QED BY <1>1, <1>2, <1>3, <1>4, <1>5, Zenon

\* The batches that a group adds to the log: no more than the group has, with
\* consecutive sequence numbers.
LEMMA AddedType ==
  ASSUME NEW p, p \in PathPrefixes, NEW comp, NEW group, group \in Groups, NEW ord \in Nat, NEW next \in Nat,
         NEW up, up \in [1 .. Cardinality(EncodableOf(group, comp)) -> EncodableOf(group, comp)]
  PROVE  AddedBatches(AddedOf(group, up, ord, next), group, comp, up, ord, next)
<1> DEFINE enc == EncodableOf(group, comp)
           N == Cardinality(enc)
           Item(k) == [sequence |-> next + (k - 1), ordinal |-> ord + (up[k] - 1), msgs |-> group[up[k]]]
           A == AddedOf(group, up, ord, next)
<1>1. group \in Seq(Seq(Message))
  BY FormatAssumption, Zenon
<1>2. Len(group) \in Nat /\ DOMAIN group = 1 .. Len(group)
  BY <1>1
<1>3. enc \in SUBSET (1 .. Len(group))
  BY <1>2, Zenon DEF EncodableOf
<1>4. N \in Nat /\ N <= Len(group)
  <2>1. IsFiniteSet(1 .. Len(group)) /\ Cardinality(1 .. Len(group)) = IF 1 > Len(group) THEN 0 ELSE (Len(group) - 1) + 1
    BY <1>2, FS_Interval
  <2>2. Cardinality(1 .. Len(group)) = Len(group)
    BY <1>2, <2>1
  <2> HIDE DEF enc
  <2>3. IsFiniteSet(enc) /\ Cardinality(enc) <= Cardinality(1 .. Len(group))
    BY <1>3, <2>1, FS_Subset, Zenon
  <2>4. Cardinality(enc) \in Nat
    BY <2>3, FS_CardinalityType, Zenon
  <2> QED BY <2>2, <2>3, <2>4, Zenon
<1>5. up \in [1 .. N -> enc]
  OBVIOUS
<1>6. DOMAIN up = 1 .. N /\ \A k \in 1 .. N : up[k] \in enc
  BY <1>5, Zenon
<1>7. A = [k \in 1 .. N |-> Item(k)]
  BY <1>6, Zenon DEF AddedOf
<1> HIDE DEF N
<1>8. ASSUME NEW k \in 1 .. N
      PROVE  /\ Item(k) \in Logged /\ Item(k).sequence < next + N /\ Item(k).ordinal = ord + (up[k] - 1)
             /\ Item(k).msgs = group[up[k]] /\ IsBatch(Item(k).msgs)
  <2> DEFINE q == next + (k - 1)
             u == up[k]
             o == ord + (u - 1)
             g == group[u]
  <2>1. u \in enc /\ u \in 1 .. Len(group)
    BY <1>3, <1>6, Zenon
  <2>2. q \in Nat /\ q < next + N
    BY <1>4
  <2>3. o \in Nat
    <3> HIDE DEF u
    <3> QED BY <1>2, <2>1
  <2>4. g \in Seq(Message) /\ IsBatch(g)
    BY <1>2, <2>1, BatchOfGroup, Zenon
  <2> HIDE DEF q, o, g
  <2>5. LET it == [sequence |-> q, ordinal |-> o, msgs |-> g]
        IN it \in Logged /\ it.sequence = q /\ it.ordinal = o /\ it.msgs = g
    BY <2>2, <2>3, <2>4 DEF Logged
  <2> QED BY <2>2, <2>4, <2>5, Zenon DEF q, o, g, u
<1> HIDE DEF Item
<1>9. A \in [1 .. N -> Logged] /\ \A k \in 1 .. N : A[k] = Item(k)
  BY <1>7, <1>8, Zenon
<1> HIDE DEF A
<1>10. A \in Seq(Logged) /\ Len(A) = N
  BY <1>4, <1>9
<1>11. N \in 0 .. Len(group)
  BY <1>2, <1>4
<1> QED BY <1>6, <1>8, <1>9, <1>10, <1>11, Zenon DEF A, N, AddedBatches

\* Uploading a group keeps the old objects, and each new one is the encoded batch.
LEMMA ObjectsWithType ==
  ASSUME NEW p, p \in PathPrefixes, NEW comp, comp \in Compressions, NEW group, group \in Groups,
         NEW ord \in Nat, NEW objs, DOMAIN objs \subseteq 0 .. ord - 1,
         \A o \in DOMAIN objs : objs[o] \in Seq(Byte)
  PROVE  Uploaded(ObjectsWith(objs, ord, group, comp), objs, ord, group, comp)
<1> DEFINE objs2 == ObjectsWith(objs, ord, group, comp)
           enc == EncodableOf(group, comp)
           Enc(i) == EncodeBatch(BatchEntries(group[i]), comp)
           new == {ord + (i - 1) : i \in enc}
<1>1. comp \in Nat
  BY FormatAssumption, Zenon
<1>2. Len(group) \in Nat /\ DOMAIN group = 1 .. Len(group)
  <2>1. group \in Seq(Seq(Message))
    BY FormatAssumption, Zenon
  <2> QED BY <2>1
<1>3. \A i \in enc : i \in DOMAIN group /\ Enc(i).is = "ok"
  BY Zenon DEF EncodableOf
<1>4. /\ DOMAIN objs2 = DOMAIN objs \cup new
      /\ \A o \in DOMAIN objs \cup new : objs2[o] = IF o < ord THEN objs[o] ELSE Enc((o - ord) + 1).value
  BY Zenon DEF ObjectsWith
<1> HIDE DEF objs2, enc
<1>5. ASSUME NEW i \in enc
      PROVE  /\ i \in 1 .. Len(group) /\ ord + (i - 1) \in 0 .. (ord + Len(group)) - 1
             /\ ~(ord + (i - 1) < ord) /\ ((ord + (i - 1)) - ord) + 1 = i
  <2>1. i \in 1 .. Len(group)
    BY <1>2, <1>3, Zenon
  <2> QED BY <1>2, <2>1
<1>6. ASSUME NEW i \in enc PROVE Enc(i).value \in Seq(Byte)
  <2>1. i \in DOMAIN group
    BY <1>3, Zenon
  <2>2. BatchEntries(group[i]) \in Seq(Seq(Byte)) /\ Len(BatchEntries(group[i])) <= MaxUint32
    BY <2>1, BatchOfGroup, Zenon
  <2>3. Enc(i).is = "ok"
    BY <1>3, Zenon
  <2> QED BY <1>1, <2>2, <2>3, BatchRoundTrip, Zenon
<1>7. \A o \in DOMAIN objs : o < ord /\ o \in 0 .. (ord + Len(group)) - 1
  <2>1. \A o \in DOMAIN objs : o \in 0 .. ord - 1
    OBVIOUS
  <2> QED BY <1>2, <2>1
<1>8. \A o \in DOMAIN objs : o \in DOMAIN objs2 /\ objs2[o] = objs[o]
  BY <1>4, <1>7, Zenon
<1>9. \A i \in enc : ord + (i - 1) \in DOMAIN objs2 /\ objs2[ord + (i - 1)] = Enc(i).value
  <2> SUFFICES ASSUME NEW i \in enc
               PROVE  ord + (i - 1) \in DOMAIN objs2 /\ objs2[ord + (i - 1)] = Enc(i).value
    OBVIOUS
  <2>1. ord + (i - 1) \in new
    OBVIOUS
  <2> QED BY <1>4, <1>5, <2>1, Zenon
<1>10. \A o \in DOMAIN objs2 : o \in DOMAIN objs \/ \E i \in enc : o = ord + (i - 1)
  BY <1>4, Zenon
<1>11. DOMAIN objs2 \subseteq 0 .. (ord + Len(group)) - 1
  <2> DEFINE X == 0 .. (ord + Len(group)) - 1
  <2>1. (\A o \in DOMAIN objs : o \in X) /\ \A i \in enc : ord + (i - 1) \in X
    BY <1>5, <1>7, Zenon
  <2> HIDE DEF X
  <2>2. \A o \in DOMAIN objs2 : o \in X
    BY <1>10, <2>1, Zenon
  <2> QED BY <2>2, Zenon DEF X
<1>12. \A o \in DOMAIN objs2 : objs2[o] \in Seq(Byte)
  BY <1>6, <1>8, <1>9, <1>10, Zenon
<1> QED BY <1>8, <1>9, <1>11, <1>12, Zenon DEF objs2, enc, Uploaded

\* A sequence number below the bound on the batches fits its 64 bits.
LEMMA SequencesFit ==
  \A n \in 0 .. MaxBatches : n \in 0 .. Values64 - 1 /\ n < Values64
<1>1. ASSUME NEW n \in Nat, n > 1 PROVE n * n > n
  <2>1. \A k \in Nat : k >= 2 => n * k >= n + n
    BY <1>1
  <2> QED BY <1>1, <2>1
<1>2. Values32 > Values16
  BY <1>1, ValuesType DEF Values32
<1>3. MaxBatches \in 0 .. Values16
  BY FormatAssumption, Zenon
<1> QED BY <1>2, <1>3, ValuesType

\* d reads as the manifest of the log L.
ReadsAs(d, p, L, next, ep) ==
  /\ Splits(d, encodeAll(EntriesOf(p, L)), Len(L), next, ep)
  /\ DecodeManifestEntries(d) = Ok(EntriesOf(p, L))

\* The log reads back from the bytes of its manifest.
LEMMA LogReads ==
  ASSUME NEW p, p \in PathPrefixes, NEW comp, NEW objs, NEW next, next \in 0 .. MaxBatches,
         NEW ep, ep \in 0 .. MaxTrims, NEW L, L \in Seq(Logged), Len(L) <= MaxUint32,
         \A i \in 1 .. Len(L) : InLog(p, comp, objs, next, L[i])
  PROVE  ReadsAs(Manifest(p, L, next, ep), p, L, next, ep)
<1>1. p \in Seq(Byte)
  BY FormatAssumption, Zenon
<1>2. next \in 0 .. Values64 - 1 /\ next < Values64 /\ next \in Int
  <2>1. next \in 0 .. Values64 - 1 /\ next < Values64
    BY SequencesFit, Zenon
  <2>2. \A n \in 0 .. Values64 - 1 : n \in Int
    OBVIOUS
  <2> QED BY <2>1, <2>2, Zenon
<1>3. ep \in 0 .. Values64 - 1
  <2>1. MaxTrims \in 0 .. Values64 - 1
    BY FormatAssumption, Zenon
  <2> QED BY <2>1, ValuesType
<1>4. ASSUME NEW i \in 1 .. Len(L) PROVE EntryOf(p, L[i]) \in EntryThatFits
  <2> DEFINE b == L[i]
  <2>1. b \in Logged /\ b.sequence < next /\ IsBatch(b.msgs) /\ Encodable(EntryOf(p, b))
    BY Zenon DEF InLog
  <2> HIDE DEF b
  <2>2. b.sequence < Values64
    <3>1. b.sequence \in Nat
      BY <2>1 DEF Logged
    <3>2. b.sequence < next
      BY <2>1, Zenon
    <3> DEFINE q == b.sequence
    <3> HIDE DEF q
    <3>3. q \in Nat /\ q < next
      BY <3>1, <3>2, Zenon DEF q
    <3>4. q < Values64
      BY <1>2, <3>3, ValuesType
    <3> QED BY <3>4, Zenon DEF q
  <2>3. EntryOf(p, b) \in EntryThatFits
    BY <2>1, <2>2, EntryOfFits, Zenon
  <2> QED BY <2>3, Zenon DEF b
<1> QED BY <1>1, <1>2, <1>3, <1>4, ManifestReads, Zenon DEF ReadsAs

\* What the log says of a batch stays true when objects and batches are added.
LEMMA InLogKeeps ==
  ASSUME NEW p, NEW comp, NEW objs, NEW next \in Nat, NEW objs2, NEW next2 \in Nat, next <= next2,
         \A o \in DOMAIN objs : o \in DOMAIN objs2 /\ objs2[o] = objs[o],
         NEW b, InLog(p, comp, objs, next, b)
  PROVE  InLog(p, comp, objs2, next2, b)
<1>1. b \in Logged /\ b.sequence < next
  BY Zenon DEF InLog
<1>2. b.sequence \in Nat
  BY <1>1 DEF Logged
<1>3. b.sequence < next2
  <2> DEFINE q == b.sequence
  <2> HIDE DEF q
  <2>1. q \in Nat /\ q < next
    BY <1>1, <1>2, Zenon DEF q
  <2>2. q < next2
    BY <2>1
  <2> QED BY <2>2, Zenon DEF q
<1> QED BY <1>3, Zenon DEF InLog

\* The initial states satisfy the invariant.
LEMMA InitFormat ==
  ASSUME Init
  PROVE  FormatInv
<1>1. /\ prefix \in PathPrefixes /\ compression \in Compressions /\ ordinal = 0 /\ objects = <<>>
      /\ data = Absent /\ log = <<>> /\ nextSequence = 0 /\ epoch = 0 /\ trims = 0
  BY Zenon DEF Init
<1>2. ReadManifest = Manifest(prefix, log, nextSequence, epoch)
  BY <1>1, ManifestStarts, Zenon DEF ReadManifest
<1>3. /\ DOMAIN objects \subseteq 0 .. ordinal - 1 /\ \A o \in DOMAIN objects : objects[o] \in Seq(Byte)
  BY <1>1
<1>4. log \in Seq(Logged) /\ Len(log) = 0
  BY <1>1
<1>5. Len(log) <= MaxUint32 /\ \A i \in 1 .. Len(log) : FALSE
  BY <1>4, ValuesType DEF MaxUint32
<1>6. ordinal \in 0 .. MaxBatches /\ nextSequence \in 0 .. ordinal /\ trims \in 0 .. MaxTrims /\ epoch = trims
  <2>1. MaxBatches \in 0 .. Values16 /\ MaxTrims \in 0 .. Values64 - 1
    BY FormatAssumption, Zenon
  <2> QED BY <1>1, <2>1, ValuesType
<1> QED BY <1>1, <1>2, <1>3, <1>4, <1>5, <1>6, Zenon DEF FormatInv

\* The consumer writes the manifest of the log that it leaves.
LEMMA TrimKeeps ==
  ASSUME FormatInv, NEW n \in 0 .. Len(log), Trim(n)
  PROVE  FormatInv'
<1> DEFINE L == SubSeq(log, n + 1, Len(log))
<1>1. /\ prefix \in PathPrefixes /\ compression \in Compressions
      /\ ordinal \in 0 .. MaxBatches /\ nextSequence \in 0 .. ordinal
      /\ trims \in 0 .. MaxTrims /\ epoch = trims
      /\ DOMAIN objects \subseteq 0 .. ordinal - 1
      /\ \A o \in DOMAIN objects : objects[o] \in Seq(Byte)
      /\ log \in Seq(Logged) /\ Len(log) <= MaxUint32
      /\ \A i \in 1 .. Len(log) : InLog(prefix, compression, objects, nextSequence, log[i])
  BY Zenon DEF FormatInv
<1>2. /\ trims < MaxTrims /\ log' = L /\ epoch' = epoch + 1 /\ trims' = trims + 1
      /\ data' = encodeAll([i \in DOMAIN log' |-> Entry(log'[i])]) \o Footer(Len(log'), nextSequence, epoch')
      /\ prefix' = prefix /\ compression' = compression /\ ordinal' = ordinal /\ objects' = objects
      /\ nextSequence' = nextSequence
  BY Zenon DEF Trim
<1>3. L \in Seq(Logged) /\ Len(L) = Len(log) - n /\ \A i \in 1 .. Len(L) : L[i] = log[n + i]
  <2>1. log \in Seq(Logged)
    BY <1>1, Zenon
  <2> QED BY <2>1
<1>4. Len(L) <= MaxUint32 /\ \A i \in 1 .. Len(L) : n + i \in 1 .. Len(log)
  <2>1. Len(log) \in Nat
    BY <1>1
  <2> DEFINE x == Len(log)
             y == Len(L)
  <2>2. x \in Nat /\ x <= MaxUint32 /\ y = x - n /\ n \in 0 .. x /\ MaxUint32 \in Int
    BY <1>1, <1>3, <2>1, ValuesType DEF MaxUint32
  <2> HIDE DEF x, y
  <2>3. y <= MaxUint32 /\ \A i \in 1 .. y : n + i \in 1 .. x
    BY <2>2
  <2> QED BY <2>3, Zenon DEF x, y
<1> HIDE DEF L
<1>5. \A i \in 1 .. Len(L) : InLog(prefix, compression, objects, nextSequence, L[i])
  BY <1>1, <1>3, <1>4, Zenon
<1>6. trims' \in 0 .. MaxTrims /\ epoch' = trims'
  <2>1. MaxTrims \in 0 .. Values64 - 1 /\ trims \in 0 .. MaxTrims /\ trims < MaxTrims /\ trims' = trims + 1
    BY <1>1, <1>2, FormatAssumption, Zenon
  <2>2. trims' \in 0 .. MaxTrims
    BY <2>1, ValuesType
  <2> QED BY <1>1, <1>2, <2>2, Zenon
<1>7. data' = Manifest(prefix, L, nextSequence, epoch')
  <2>1. \A b : Entry(b) = EntryOf(prefix, b)
    BY Zenon DEF Entry, EntryOf, Location
  <2>2. [i \in DOMAIN L |-> Entry(L[i])] = EntriesOf(prefix, L)
    BY <2>1, Zenon DEF EntriesOf
  <2> QED BY <1>2, <2>2, Zenon DEF Manifest
<1>8. data' # <<>>
  <2>1. nextSequence \in 0 .. MaxBatches
    <3>1. ordinal \in 0 .. MaxBatches /\ nextSequence \in 0 .. ordinal
      BY <1>1, Zenon
    <3>2. MaxBatches \in 0 .. Values16
      BY FormatAssumption, Zenon
    <3> QED BY <3>1, <3>2, ValuesType
  <2>2. epoch' \in 0 .. MaxTrims
    BY <1>6, Zenon
  <2>3. prefix \in PathPrefixes /\ L \in Seq(Logged) /\ Len(L) <= MaxUint32
    BY <1>1, <1>3, <1>4, Zenon
  <2>4. ReadsAs(Manifest(prefix, L, nextSequence, epoch'), prefix, L, nextSequence, epoch')
    BY <1>5, <2>1, <2>2, <2>3, LogReads, Zenon
  <2> QED BY <1>7, <2>4, Zenon DEF ReadsAs, Splits
<1>9. ReadManifest' = Manifest(prefix', log', nextSequence', epoch')
  BY <1>2, <1>7, <1>8, Zenon DEF ReadManifest, Absent
<1>10. \A i \in 1 .. Len(log') : InLog(prefix', compression', objects', nextSequence', log'[i])
  BY <1>2, <1>5, Zenon
<1>11. /\ prefix' \in PathPrefixes /\ compression' \in Compressions
       /\ ordinal' \in 0 .. MaxBatches /\ nextSequence' \in 0 .. ordinal'
       /\ DOMAIN objects' \subseteq 0 .. ordinal' - 1
       /\ \A o \in DOMAIN objects' : objects'[o] \in Seq(Byte)
       /\ log' \in Seq(Logged) /\ Len(log') <= MaxUint32
  BY <1>1, <1>2, <1>3, <1>4, Zenon
<1> QED BY <1>6, <1>9, <1>10, <1>11, Zenon DEF FormatInv

\* The entries that enqueueBatch appends.
AppendedEntries(group, up, next) ==
  [k \in DOMAIN up |-> Entry(AddedOf(group, up, ordinal, next)[k])]

\* The round of enqueueBatch: the entries are appended, or the manifest is left alone.
Enqueued(group, up, next, ep) ==
  LET entries == AppendedEntries(group, up, next)
  IN \/ /\ \A k \in DOMAIN entries : Encodable(entries[k])
        /\ existingEntriesCount(ReadManifest) + Len(entries) <= MaxUint32
        /\ data' = toBytes(ReadManifest, entries, next + Len(entries), ep)
        /\ log' = log \o AddedOf(group, up, ordinal, nextSequence)
        /\ nextSequence' = nextSequence + Len(entries)
     \/ data' = data /\ log' = log /\ nextSequence' = nextSequence

\* The effect of Commit, in the operators of the proof.
LEMMA CommitEffect ==
  ASSUME NEW group, Commit(group)
  PROVE  /\ ordinal + Len(group) <= MaxBatches /\ ordinal' = ordinal + Len(group)
         /\ objects' = ObjectsWith(objects, ordinal, group, compression)
         /\ prefix' = prefix /\ compression' = compression /\ epoch' = epoch /\ trims' = trims
         /\ \E up : /\ up \in [1 .. Cardinality(EncodableOf(group, compression))
                                 -> EncodableOf(group, compression)]
                    /\ Enqueued(group, up, manifestFromBytes(ReadManifest).value.nextSequence,
                                manifestFromBytes(ReadManifest).value.epoch)
<1> DEFINE enc == EncodableOf(group, compression)
           m == manifestFromBytes(ReadManifest)
           Es(up) == AppendedEntries(group, up, m.value.nextSequence)
<1>1. PICK up \in [1 .. Cardinality(enc) -> enc] :
        /\ ordinal + Len(group) <= MaxBatches
        /\ ordinal' = ordinal + Len(group)
        /\ objects' = ObjectsWith(objects, ordinal, group, compression)
        /\ IF /\ up # <<>> /\ m.is = "ok"
              /\ \A k \in DOMAIN Es(up) : Encodable(Es(up)[k])
              /\ existingEntriesCount(ReadManifest) + Len(Es(up)) <= MaxUint32
             THEN /\ data' = toBytes(ReadManifest, Es(up), m.value.nextSequence + Len(Es(up)), m.value.epoch)
                  /\ log' = log \o AddedOf(group, up, ordinal, nextSequence)
                  /\ nextSequence' = nextSequence + Len(Es(up))
             ELSE UNCHANGED <<data, log, nextSequence>>
        /\ UNCHANGED <<prefix, compression, epoch, trims>>
  BY Zenon DEF Commit, EncodableOf, ObjectsWith, AddedOf, AppendedEntries
<1>2. Enqueued(group, up, m.value.nextSequence, m.value.epoch)
  BY <1>1, Zenon DEF Enqueued
<1> HIDE DEF Es
<1> QED BY <1>1, <1>2, Zenon

\* A group that is committed leaves the manifest of the longer log.
LEMMA CommitKeeps ==
  ASSUME FormatInv, NEW group, group \in Groups, Commit(group)
  PROVE  FormatInv'
<1> DEFINE enc == EncodableOf(group, compression)
           d == ReadManifest
           old == encodeAll(EntriesOf(prefix, log))
<1>1. /\ prefix \in PathPrefixes /\ compression \in Compressions
      /\ ordinal \in 0 .. MaxBatches /\ nextSequence \in 0 .. ordinal
      /\ trims \in 0 .. MaxTrims /\ epoch = trims
      /\ DOMAIN objects \subseteq 0 .. ordinal - 1
      /\ \A o \in DOMAIN objects : objects[o] \in Seq(Byte)
      /\ log \in Seq(Logged) /\ Len(log) <= MaxUint32
      /\ \A i \in 1 .. Len(log) : InLog(prefix, compression, objects, nextSequence, log[i])
      /\ d = Manifest(prefix, log, nextSequence, epoch)
  BY Zenon DEF FormatInv
<1>2. /\ ordinal + Len(group) <= MaxBatches /\ ordinal' = ordinal + Len(group)
      /\ objects' = ObjectsWith(objects, ordinal, group, compression)
      /\ prefix' = prefix /\ compression' = compression /\ epoch' = epoch /\ trims' = trims
  BY CommitEffect, Zenon
<1>3. PICK up : /\ up \in [1 .. Cardinality(enc) -> enc]
                /\ Enqueued(group, up, manifestFromBytes(d).value.nextSequence, manifestFromBytes(d).value.epoch)
  BY CommitEffect, Zenon
<1> DEFINE A == AddedOf(group, up, ordinal, nextSequence)
<1>4. ordinal \in Nat /\ nextSequence \in Nat /\ nextSequence <= ordinal /\ MaxBatches \in Nat
      /\ nextSequence \in 0 .. MaxBatches
  <2>1. ordinal \in 0 .. MaxBatches /\ nextSequence \in 0 .. ordinal
    BY <1>1, Zenon
  <2>2. MaxBatches \in 0 .. Values16
    BY FormatAssumption, Zenon
  <2> QED BY <2>1, <2>2, ValuesType
<1>5. prefix \in Seq(Byte) /\ epoch \in 0 .. MaxTrims
  BY <1>1, FormatAssumption, Zenon
<1>6. Splits(d, old, Len(log), nextSequence, epoch)
  <2>1. prefix \in PathPrefixes /\ log \in Seq(Logged) /\ Len(log) <= MaxUint32
        /\ nextSequence \in 0 .. MaxBatches /\ epoch \in 0 .. MaxTrims
    BY <1>1, <1>4, <1>5, Zenon
  <2>2. \A i \in 1 .. Len(log) : InLog(prefix, compression, objects, nextSequence, log[i])
    BY <1>1, Zenon
  <2>3. ReadsAs(Manifest(prefix, log, nextSequence, epoch), prefix, log, nextSequence, epoch)
    BY <2>1, <2>2, LogReads, Zenon
  <2> QED BY <1>1, <2>3, Zenon DEF ReadsAs
<1>7. manifestFromBytes(d).value.nextSequence = nextSequence /\ manifestFromBytes(d).value.epoch = epoch
      /\ existingEntriesCount(d) = Len(log)
  <2> DEFINE m == manifestFromBytes(d)
  <2>1. m = Ok([epoch |-> epoch, nextSequence |-> nextSequence]) /\ existingEntriesCount(d) = Len(log)
    BY <1>6, Zenon DEF Splits
  <2> HIDE DEF m
  <2>2. m.value.nextSequence = nextSequence /\ m.value.epoch = epoch
    BY <2>1 DEF Ok
  <2> QED BY <2>1, <2>2, Zenon DEF m
<1>8. /\ A \in Seq(Logged) /\ DOMAIN up = 1 .. Len(A) /\ Len(A) \in 0 .. Len(group)
      /\ \A k \in 1 .. Len(A) :
           /\ up[k] \in enc /\ A[k].sequence < nextSequence + Len(A)
           /\ A[k].ordinal = ordinal + (up[k] - 1)
           /\ A[k].msgs = group[up[k]] /\ IsBatch(A[k].msgs)
  <2>1. prefix \in PathPrefixes /\ ordinal \in Nat /\ nextSequence \in Nat
    BY <1>1, <1>4, Zenon
  <2>2. up \in [1 .. Cardinality(enc) -> enc]
    BY <1>3, Zenon
  <2>3. AddedBatches(A, group, compression, up, ordinal, nextSequence)
    BY <2>1, <2>2, AddedType
  <2> QED BY <2>3, Zenon DEF AddedBatches
<1>9. /\ DOMAIN objects' \subseteq 0 .. ordinal' - 1
      /\ \A o \in DOMAIN objects' : objects'[o] \in Seq(Byte)
      /\ \A o \in DOMAIN objects : o \in DOMAIN objects' /\ objects'[o] = objects[o]
      /\ \A i \in enc : /\ ordinal + (i - 1) \in DOMAIN objects'
                        /\ objects'[ordinal + (i - 1)] = EncodeBatch(BatchEntries(group[i]), compression).value
  <2> DEFINE objs2 == ObjectsWith(objects, ordinal, group, compression)
  <2>1. /\ prefix \in PathPrefixes /\ compression \in Compressions /\ ordinal \in Nat
        /\ DOMAIN objects \subseteq 0 .. ordinal - 1 /\ \A o \in DOMAIN objects : objects[o] \in Seq(Byte)
    BY <1>1, <1>4, Zenon
  <2>2. /\ DOMAIN objs2 \subseteq 0 .. (ordinal + Len(group)) - 1
        /\ \A o \in DOMAIN objs2 : objs2[o] \in Seq(Byte)
        /\ \A o \in DOMAIN objects : o \in DOMAIN objs2 /\ objs2[o] = objects[o]
        /\ \A i \in enc : /\ ordinal + (i - 1) \in DOMAIN objs2
                          /\ objs2[ordinal + (i - 1)] = EncodeBatch(BatchEntries(group[i]), compression).value
    <3>1. Uploaded(objs2, objects, ordinal, group, compression)
      BY <2>1, ObjectsWithType
    <3> QED BY <3>1, Zenon DEF Uploaded
  <2> HIDE DEF objs2
  <2>3. objects' = objs2 /\ ordinal' = ordinal + Len(group)
    BY <1>2, Zenon DEF objs2
  <2> QED BY <2>2, <2>3, Zenon
<1>10. ordinal' \in 0 .. MaxBatches /\ Len(group) \in Nat
  <2>1. Len(group) \in Nat
    <3>1. group \in Seq(Seq(Message))
      BY FormatAssumption, Zenon
    <3> QED BY <3>1
  <2>2. ordinal + Len(group) \in 0 .. MaxBatches
    BY <1>2, <1>4, <2>1
  <2> QED BY <1>2, <2>1, <2>2, Zenon
<1>11. AppendedEntries(group, up, nextSequence) = EntriesOf(prefix, A) /\ DOMAIN A = DOMAIN up
  <2>1. \A b : Entry(b) = EntryOf(prefix, b)
    BY Zenon DEF Entry, EntryOf, Location
  <2>2. DOMAIN A = DOMAIN up
    BY Zenon DEF AddedOf
  <2> HIDE DEF A
  <2>3. [k \in DOMAIN up |-> Entry(A[k])] = [k \in DOMAIN A |-> EntryOf(prefix, A[k])]
    BY <2>1, <2>2, Zenon
  <2> QED BY <2>2, <2>3, Zenon DEF AppendedEntries, EntriesOf, A
<1> HIDE DEF A
<1>12. Enqueued(group, up, nextSequence, epoch)
  BY <1>3, <1>7, Zenon
<1> DEFINE es == EntriesOf(prefix, A)
<1>13. es \in Seq(QueueEntry) /\ Len(es) = Len(A) /\ \A k \in 1 .. Len(A) : es[k] = EntryOf(prefix, A[k])
  <2>1. prefix \in Seq(Byte) /\ A \in Seq(Logged)
    BY <1>5, <1>8, Zenon
  <2> QED BY <2>1, EntriesOfType, Zenon
<1>14. DOMAIN es = 1 .. Len(A)
  BY <1>8, <1>11, Zenon DEF EntriesOf
<1> HIDE DEF es, enc
<1>15. CASE data' = data /\ log' = log /\ nextSequence' = nextSequence
  <2>1. \A i \in 1 .. Len(log') : InLog(prefix', compression', objects', nextSequence', log'[i])
    <3>1. \A i \in 1 .. Len(log) : InLog(prefix, compression, objects', nextSequence, log[i])
      <4> SUFFICES ASSUME NEW i \in 1 .. Len(log)
                   PROVE  InLog(prefix, compression, objects', nextSequence, log[i])
        OBVIOUS
      <4>1. nextSequence <= nextSequence
        BY <1>4
      <4>2. InLog(prefix, compression, objects, nextSequence, log[i])
        BY <1>1, Zenon
      <4>3. \A o \in DOMAIN objects : o \in DOMAIN objects' /\ objects'[o] = objects[o]
        BY <1>9, Zenon
      <4>4. nextSequence \in Nat
        BY <1>4, Zenon
      <4> QED BY <4>1, <4>2, <4>3, <4>4, InLogKeeps
    <3> QED BY <1>2, <1>15, <3>1, Zenon
  <2>2. nextSequence' \in 0 .. ordinal'
    <3>1. nextSequence \in 0 .. ordinal + Len(group)
      BY <1>4, <1>10
    <3> QED BY <1>2, <1>15, <3>1, Zenon
  <2>3. ReadManifest' = Manifest(prefix', log', nextSequence', epoch')
    BY <1>1, <1>2, <1>15, Zenon DEF ReadManifest
  <2>4. /\ prefix' \in PathPrefixes /\ compression' \in Compressions /\ trims' \in 0 .. MaxTrims
        /\ epoch' = trims' /\ log' \in Seq(Logged) /\ Len(log') <= MaxUint32
    BY <1>1, <1>2, <1>15, Zenon
  <2> QED BY <1>9, <1>10, <2>1, <2>2, <2>3, <2>4, Zenon DEF FormatInv
<1>16. CASE /\ \A k \in DOMAIN es : Encodable(es[k])
            /\ existingEntriesCount(d) + Len(es) <= MaxUint32
            /\ data' = toBytes(d, es, nextSequence + Len(es), epoch)
            /\ log' = log \o A
            /\ nextSequence' = nextSequence + Len(es)
  <2> DEFINE L == log \o A
             next == nextSequence + Len(A)
  <2>1. next \in Nat /\ nextSequence <= next /\ next \in 0 .. ordinal' /\ next \in 0 .. MaxBatches
    <3> DEFINE a == Len(A)
               g == Len(group)
    <3>1. a \in 0 .. g /\ g \in Nat /\ ordinal + g <= MaxBatches
      BY <1>2, <1>8, <1>10, Zenon
    <3> HIDE DEF a, g
    <3>2. nextSequence + a \in Nat /\ nextSequence <= nextSequence + a /\ nextSequence + a \in 0 .. ordinal + g
          /\ nextSequence + a \in 0 .. MaxBatches
      BY <1>4, <3>1
    <3> QED BY <1>2, <3>2, Zenon DEF a, g
  <2>2. L \in Seq(Logged) /\ Len(L) = Len(log) + Len(A)
    <3>1. log \in Seq(Logged) /\ A \in Seq(Logged)
      BY <1>1, <1>8, Zenon
    <3> QED BY <3>1, ConcatLen, Zenon
  <2>3. Len(L) <= MaxUint32
    BY <1>7, <1>13, <1>16, <2>2, Zenon
  <2>4. \A i \in 1 .. Len(log) : L[i] = log[i] /\ InLog(prefix, compression, objects', next, log[i])
    <3> SUFFICES ASSUME NEW i \in 1 .. Len(log)
                 PROVE  L[i] = log[i] /\ InLog(prefix, compression, objects', next, log[i])
      OBVIOUS
    <3>1. L[i] = log[i]
      <4>1. log \in Seq(Logged) /\ A \in Seq(Logged)
        BY <1>1, <1>8, Zenon
      <4> QED BY <4>1
    <3>2. InLog(prefix, compression, objects, nextSequence, log[i])
      BY <1>1, Zenon
    <3>3. \A o \in DOMAIN objects : o \in DOMAIN objects' /\ objects'[o] = objects[o]
      BY <1>9, Zenon
    <3>4. nextSequence \in Nat /\ next \in Nat /\ nextSequence <= next
      BY <1>4, <2>1, Zenon
    <3> HIDE DEF next
    <3>5. InLog(prefix, compression, objects', next, log[i])
      BY <3>2, <3>3, <3>4, InLogKeeps
    <3> QED BY <3>1, <3>5, Zenon
  <2>5. \A k \in 1 .. Len(A) : InLog(prefix, compression, objects', next, A[k])
    <3> SUFFICES ASSUME NEW k \in 1 .. Len(A) PROVE InLog(prefix, compression, objects', next, A[k])
      OBVIOUS
    <3>1. /\ up[k] \in enc /\ A[k].sequence < next /\ A[k].ordinal = ordinal + (up[k] - 1)
          /\ A[k].msgs = group[up[k]] /\ IsBatch(A[k].msgs)
      BY <1>8, Zenon
    <3>2. A[k] \in Logged
      BY <1>8, ElementOfSeq, Zenon
    <3>3. Encodable(EntryOf(prefix, A[k]))
      BY <1>13, <1>14, <1>16, Zenon
    <3>4. EncodeBatch(BatchEntries(group[up[k]]), compression).is = "ok"
      BY <3>1, Zenon DEF enc, EncodableOf
    <3>5. /\ A[k].ordinal \in DOMAIN objects'
          /\ objects'[A[k].ordinal] = EncodeBatch(BatchEntries(group[up[k]]), compression).value
      BY <1>9, <3>1, Zenon
    <3> HIDE DEF next
    <3> QED BY <3>1, <3>2, <3>3, <3>4, <3>5, Zenon DEF InLog
  <2>6. \A i \in 1 .. Len(L) : InLog(prefix, compression, objects', next, L[i])
    <3> SUFFICES ASSUME NEW i \in 1 .. Len(L) PROVE InLog(prefix, compression, objects', next, L[i])
      OBVIOUS
    <3>1. CASE i <= Len(log)
      <4>1. i \in 1 .. Len(log)
        <5>1. Len(log) \in Nat
          BY <1>1, ElementOfSeq
        <5> QED BY <3>1, <5>1
      <4> QED BY <2>4, <4>1, Zenon
    <3>2. CASE ~(i <= Len(log))
      <4>1. log \in Seq(Logged) /\ A \in Seq(Logged)
        BY <1>1, <1>8, Zenon
      <4>2. i - Len(log) \in 1 .. Len(A) /\ L[i] = A[i - Len(log)]
        BY <3>2, <4>1
      <4> HIDE DEF L, next
      <4> QED BY <2>5, <4>2, Zenon
    <3> QED BY <3>1, <3>2, Zenon
  <2>7. data' = Manifest(prefix, L, next, epoch)
    <3>1. log \in Seq(Logged) /\ A \in Seq(Logged)
      BY <1>1, <1>8, Zenon
    <3>2. toBytes(d, es, next, epoch) = Manifest(prefix, log \o A, next, epoch)
      <4> HIDE DEF next, d
      <4>1. Splits(d, encodeAll(EntriesOf(prefix, log)), Len(log), nextSequence, epoch)
        BY <1>6, Zenon
      <4>2. prefix \in Seq(Byte)
        BY <1>5, Zenon
      <4> QED BY <3>1, <4>1, <4>2, ManifestGrows DEF es
    <3> QED BY <1>13, <1>16, <3>2, Zenon
  <2> HIDE DEF L, next
  <2>8. data' # <<>>
    <3>1. prefix \in PathPrefixes /\ epoch \in 0 .. MaxTrims /\ next \in 0 .. MaxBatches
      BY <1>1, <1>5, <2>1, Zenon
    <3>2. L \in Seq(Logged) /\ Len(L) <= MaxUint32
      BY <2>2, <2>3, Zenon
    <3>3. ReadsAs(Manifest(prefix, L, next, epoch), prefix, L, next, epoch)
      BY <2>6, <3>1, <3>2, LogReads, Zenon
    <3> QED BY <2>7, <3>3, Zenon DEF ReadsAs, Splits
  <2>9. log' = L /\ nextSequence' = next
    BY <1>13, <1>16, Zenon DEF L, next
  <2>10. ReadManifest' = Manifest(prefix', log', nextSequence', epoch')
    BY <1>2, <2>7, <2>8, <2>9, Zenon DEF ReadManifest, Absent
  <2>11. \A i \in 1 .. Len(log') : InLog(prefix', compression', objects', nextSequence', log'[i])
    BY <1>2, <2>6, <2>9, Zenon
  <2>12. /\ prefix' \in PathPrefixes /\ compression' \in Compressions /\ trims' \in 0 .. MaxTrims
         /\ epoch' = trims' /\ log' \in Seq(Logged) /\ Len(log') <= MaxUint32
         /\ nextSequence' \in 0 .. ordinal'
    BY <1>1, <1>2, <2>1, <2>2, <2>3, <2>9, Zenon
  <2> QED BY <1>9, <1>10, <2>10, <2>11, <2>12, Zenon DEF FormatInv
<1>17. \/ data' = data /\ log' = log /\ nextSequence' = nextSequence
       \/ /\ \A k \in DOMAIN es : Encodable(es[k])
          /\ existingEntriesCount(d) + Len(es) <= MaxUint32
          /\ data' = toBytes(d, es, nextSequence + Len(es), epoch)
          /\ log' = log \o A
          /\ nextSequence' = nextSequence + Len(es)
  BY <1>11, <1>12, Zenon DEF Enqueued, es, A
<1> HIDE DEF d
<1> QED BY <1>15, <1>16, <1>17, Zenon

-----------------------------------------------------------------------------
(* The theorems *)

\* The manifest is always the encoding of the log, whatever groups and trims came before.
THEOREM FormatInvariant == Spec => []FormatInv
<1>1. Init => FormatInv
  BY InitFormat, Zenon
<1>2. FormatInv /\ [Next]_vars => FormatInv'
  <2> SUFFICES ASSUME FormatInv, [Next]_vars PROVE FormatInv'
    OBVIOUS
  <2>1. ASSUME NEW group \in Groups, Commit(group) PROVE FormatInv'
    BY <2>1, CommitKeeps, Zenon
  <2>2. ASSUME NEW n \in 0 .. Len(log), Trim(n) PROVE FormatInv'
    BY <2>2, TrimKeeps, Zenon
  <2>3. CASE UNCHANGED vars
    BY <2>3, Zenon DEF FormatInv, vars, ReadManifest
  <2> QED BY <2>1, <2>2, <2>3, Zenon DEF Next
<1> QED BY <1>1, <1>2, PTL DEF Spec

\* What the invariant says of the bytes of the manifest.
LEMMA InvReads ==
  ASSUME FormatInv
  PROVE  ReadsAs(ReadManifest, prefix, log, nextSequence, epoch)
<1>1. /\ prefix \in PathPrefixes /\ ordinal \in 0 .. MaxBatches /\ nextSequence \in 0 .. ordinal
      /\ trims \in 0 .. MaxTrims /\ epoch = trims /\ log \in Seq(Logged) /\ Len(log) <= MaxUint32
      /\ ReadManifest = Manifest(prefix, log, nextSequence, epoch)
  BY Zenon DEF FormatInv
<1>2. nextSequence \in 0 .. MaxBatches
  <2>1. MaxBatches \in 0 .. Values16
    BY FormatAssumption, Zenon
  <2>2. ordinal \in 0 .. MaxBatches /\ nextSequence \in 0 .. ordinal
    BY <1>1, Zenon
  <2> QED BY <2>1, <2>2, ValuesType
<1>3. prefix \in PathPrefixes /\ epoch \in 0 .. MaxTrims /\ log \in Seq(Logged) /\ Len(log) <= MaxUint32
  BY <1>1, Zenon
<1>4. \A i \in 1 .. Len(log) : InLog(prefix, compression, objects, nextSequence, log[i])
  BY Zenon DEF FormatInv
<1> DEFINE d == Manifest(prefix, log, nextSequence, epoch)
<1>5. ReadsAs(d, prefix, log, nextSequence, epoch)
  BY <1>2, <1>3, <1>4, LogReads, Zenon
<1> QED BY <1>1, <1>5, Zenon

\* DecodeManifestEntries and manifestFromBytes read what was enqueued, for every
\* sequence of groups and trims.
THEOREM ManifestReadsBack == Spec => []ReadsWhatWasWritten
<1>1. ASSUME FormatInv PROVE ReadsWhatWasWritten
  <2> SUFFICES ASSUME data # Absent
               PROVE  /\ DecodeManifestEntries(data) = Ok([i \in DOMAIN log |-> Entry(log[i])])
                      /\ manifestFromBytes(data) = Ok([epoch |-> epoch, nextSequence |-> nextSequence])
    BY Zenon DEF ReadsWhatWasWritten
  <2>1. ReadManifest = data
    BY Zenon DEF ReadManifest
  <2>2. \A b : Entry(b) = EntryOf(prefix, b)
    BY Zenon DEF Entry, EntryOf, Location
  <2>3. [i \in DOMAIN log |-> Entry(log[i])] = EntriesOf(prefix, log)
    BY <2>2, Zenon DEF EntriesOf
  <2>4. manifestFromBytes(ReadManifest) = Ok([epoch |-> epoch, nextSequence |-> nextSequence])
    BY <1>1, InvReads, Zenon DEF ReadsAs, Splits
  <2> QED BY <1>1, <2>1, <2>3, <2>4, InvReads, Zenon DEF ReadsAs
<1> QED BY <1>1, FormatInvariant, PTL

\* A consumer that follows the entries to their objects has the messages of the
\* batches, for every message content, prefix and compression.
THEOREM ConsumerReadsMessages == Spec => []ConsumerReads
<1>1. ASSUME FormatInv PROVE ConsumerReads
  <2> DEFINE entries == DecodeManifestEntries(data).value
             O(i) == CHOOSE o \in DOMAIN objects : Location(o) = entries[i].location
             batch(i) == DecodeBatch(objects[O(i)])
  <2> SUFFICES ASSUME data # Absent, NEW i \in DOMAIN entries
               PROVE  batch(i).is = "ok" /\ Messages(batch(i).value, entries[i].metadata) = log[i].msgs
    BY Zenon DEF ConsumerReads
  <2>1. ReadManifest = data
    BY Zenon DEF ReadManifest
  <2>2. entries = EntriesOf(prefix, log)
    <3> DEFINE r == DecodeManifestEntries(data)
    <3>1. r = Ok(EntriesOf(prefix, log))
      BY <1>1, <2>1, InvReads, Zenon DEF ReadsAs
    <3> HIDE DEF r
    <3>2. r.value = EntriesOf(prefix, log)
      BY <3>1 DEF Ok
    <3> QED BY <3>2, Zenon DEF r
  <2>3. /\ prefix \in PathPrefixes /\ compression \in Compressions /\ ordinal \in 0 .. MaxBatches
        /\ DOMAIN objects \subseteq 0 .. ordinal - 1 /\ log \in Seq(Logged)
        /\ \A k \in 1 .. Len(log) : InLog(prefix, compression, objects, nextSequence, log[k])
    BY <1>1, Zenon DEF FormatInv
  <2>4. prefix \in Seq(Byte) /\ compression \in Nat /\ MaxBatches \in 0 .. Values16
    BY <2>3, FormatAssumption, Zenon
  <2>5. i \in 1 .. Len(log) /\ entries[i] = EntryOf(prefix, log[i])
    <3>1. DOMAIN log = 1 .. Len(log)
      BY <2>3
    <3>2. i \in DOMAIN log
      BY <2>2, Zenon DEF EntriesOf
    <3>3. EntriesOf(prefix, log)[i] = EntryOf(prefix, log[i])
      BY <3>2, Zenon DEF EntriesOf
    <3> QED BY <2>2, <3>1, <3>2, <3>3, Zenon
  <2> DEFINE b == log[i]
             E == BatchEntries(b.msgs)
  <2>6. /\ b \in Logged /\ IsBatch(b.msgs) /\ b.ordinal \in DOMAIN objects
        /\ EncodeBatch(E, compression).is = "ok" /\ objects[b.ordinal] = EncodeBatch(E, compression).value
    BY <2>3, <2>5, Zenon DEF InLog
  <2> HIDE DEF entries
  <2>7. entries[i].location = prefix \o LE16(b.ordinal) /\ entries[i].metadata = BatchMetadata(b.msgs)
    <3>1. prefix \in Seq(Byte) /\ b \in Logged
      BY <2>4, <2>6, Zenon
    <3> HIDE DEF b
    <3>2. EntryOf(prefix, b).location = prefix \o LE16(b.ordinal)
          /\ EntryOf(prefix, b).metadata = BatchMetadata(b.msgs)
      BY <3>1, EntryOfType, Zenon
    <3> QED BY <2>5, <3>2, Zenon DEF b
  <2>8. O(i) = b.ordinal
    <3> DEFINE P(o) == Location(o) = entries[i].location
    <3>1. \A o : Location(o) = prefix \o LE16(o)
      BY Zenon DEF Location
    <3>2. P(b.ordinal)
      BY <2>7, <3>1, Zenon
    <3>3. \A o \in DOMAIN objects : o \in 0 .. Values16 - 1
      <4>1. \A o \in 0 .. ordinal - 1 : o \in 0 .. Values16 - 1
        <5>1. ordinal \in 0 .. MaxBatches /\ MaxBatches \in 0 .. Values16
          BY <2>3, <2>4, Zenon
        <5> QED BY <5>1, ValuesType
      <4> QED BY <2>3, <4>1, Zenon
    <3>4. ASSUME NEW o \in DOMAIN objects, P(o) PROVE o = b.ordinal
      <4>1. o \in 0 .. Values16 - 1 /\ b.ordinal \in 0 .. Values16 - 1
        BY <2>6, <3>3, Zenon
      <4>2. prefix \o LE16(o) = prefix \o LE16(b.ordinal)
        BY <2>7, <3>1, <3>4, Zenon
      <4>3. prefix \in Seq(Byte)
        BY <2>4, Zenon
      <4> QED BY <4>1, <4>2, <4>3, LocationsDiffer, Zenon
    <3> HIDE DEF P
    <3>5. (CHOOSE o \in DOMAIN objects : P(o)) = b.ordinal
      BY <2>6, <3>2, <3>4, Zenon
    <3> QED BY <3>5, Zenon DEF P
  <2>9. /\ b.msgs \in Seq(Message) /\ E \in Seq(Seq(Byte)) /\ Len(E) <= MaxUint32
    <3>1. PICK g \in Groups : \E j \in DOMAIN g : b.msgs = g[j]
      BY <2>6, Zenon DEF IsBatch
    <3>2. PICK j \in DOMAIN g : b.msgs = g[j]
      BY <3>1, Zenon
    <3> QED BY <2>3, <3>2, BatchOfGroup, Zenon
  <2>10. batch(i) = Ok(E)
    <3>1. DecodeBatch(EncodeBatch(E, compression).value) = Ok(E)
      BY <2>4, <2>6, <2>9, BatchRoundTrip, Zenon
    <3> QED BY <2>6, <2>8, <3>1, Zenon
  <2>11. batch(i).is = "ok" /\ batch(i).value = E
    <3> DEFINE r == batch(i)
    <3>1. r = Ok(E)
      BY <2>10, Zenon
    <3> HIDE DEF r, E
    <3>2. r.is = "ok" /\ r.value = E
      BY <3>1 DEF Ok
    <3> QED BY <3>2, Zenon DEF r
  <2>12. Messages(E, BatchMetadata(b.msgs)) = b.msgs
    BY <2>9, MessagesOfBatch, Zenon
  <2> HIDE DEF batch, E
  <2> QED BY <2>7, <2>11, <2>12, Zenon
<1> QED BY <1>1, FormatInvariant, PTL

\* The byte strings that damage can leave are byte strings.
LEMMA DamagedBytes ==
  ASSUME NEW d, d \in Seq(Byte), NEW x \in Damaged(d)
  PROVE  x \in Seq(Byte)
<1>1. ASSUME NEW i \in DOMAIN d, NEW b \in Byte, x = [d EXCEPT ![i] = b] PROVE x \in Seq(Byte)
  <2>1. i \in 1 .. Len(d)
    OBVIOUS
  <2>2. [d EXCEPT ![i] = b] \in Seq(Byte)
    BY <2>1, ExceptSeq, Zenon
  <2> QED BY <1>1, <2>2, Zenon
<1>2. ASSUME NEW n \in 0 .. Len(d), x = SubSeq(d, 1, n) PROVE x \in Seq(Byte)
  BY <1>2
<1>3. \/ \E i \in DOMAIN d, b \in Byte : x = [d EXCEPT ![i] = b]
      \/ \E n \in 0 .. Len(d) : x = SubSeq(d, 1, n)
  BY DEF Damaged
<1> QED BY <1>1, <1>2, <1>3, Zenon

\* Neither decoder reads outside of a damaged manifest or batch, whatever it holds.
THEOREM DecodersInBounds == Spec => []DecodersStayInBounds
<1>1. ASSUME FormatInv PROVE DecodersStayInBounds
  <2>1. data \in Seq(Byte)
    <3>1. CASE data = Absent
      <4>1. <<>> \in Seq(Byte)
        OBVIOUS
      <4> QED BY <3>1, <4>1, Zenon DEF Absent
    <3>2. CASE data # Absent
      <4>1. ReadManifest = data
        BY <3>2, Zenon DEF ReadManifest
      <4>2. Splits(ReadManifest, encodeAll(EntriesOf(prefix, log)), Len(log), nextSequence, epoch)
        BY <1>1, InvReads, Zenon DEF ReadsAs
      <4>3. ReadManifest \in Seq(Byte)
        BY <4>2, Zenon DEF Splits
      <4> QED BY <4>1, <4>3, Zenon
    <3> QED BY <3>1, <3>2, Zenon
  <2>2. \A o \in DOMAIN objects : objects[o] \in Seq(Byte)
    BY <1>1, Zenon DEF FormatInv
  <2>3. \A d \in Damaged(data) : DecodeManifestEntries(d).is \in {"ok", "error"}
    BY <2>1, DamagedBytes, DecodeManifestInBounds, Zenon
  <2>4. \A o \in DOMAIN objects : \A d \in Damaged(objects[o]) : DecodeBatch(d).is \in {"ok", "error"}
    BY <2>2, DamagedBytes, DecodeBatchInBounds, Zenon
  <2> QED BY <2>3, <2>4, Zenon DEF DecodersStayInBounds
<1> QED BY <1>1, FormatInvariant, PTL
=============================================================================
