---------------------------- MODULE QueueFormat ----------------------------
(***************************************************************************)
(* What a consumer of the queue reads: the messages of a batch, as the     *)
(* accumulator lays them out, in a data object of BatchCodec, to which an  *)
(* entry of ManifestCodec points.  The manifest is shared with the         *)
(* consumer, which removes entries at the front.                           *)
(***************************************************************************)
EXTENDS BatchCodec, ManifestCodec, FiniteSets

CONSTANTS
  Groups,           \* groups of batches: a batch is a sequence of messages
  PathPrefixes,     \* data_path_prefix and run of a producer
  Compressions,     \* BatchCompression
  MaxBatches,       \* bound: batches that the producer cuts
  MaxTrims          \* bound: writes of the consumer

VARIABLES
  prefix, compression,
  ordinal,          \* of the next batch
  objects,          \* the data objects, by ordinal
  data,             \* the bytes of the manifest, Absent before the first write
  log,              \* history: the batches the manifest should list
  nextSequence, epoch, trims

vars == <<prefix, compression, ordinal, objects, data, log, nextSequence, epoch, trims>>

Absent == <<>>

(* batchAccumulator.add of each message in turn *)

BatchEntries(msgs) == Joined([i \in DOMAIN msgs |-> msgs[i].entries])

\* Mutant: the start index is taken after the entries were added.
BatchMetadataAfter(msgs) ==
  [i \in DOMAIN msgs |->
    [startIndex      |-> Len(BatchEntries(SubSeq(msgs, 1, i))) % Values32,
     ingestionTimeMs |-> msgs[i].ingestionTimeMs,
     payload         |-> msgs[i].metadata]]

BatchMetadata(msgs) ==
  [i \in DOMAIN msgs |->
    [startIndex      |-> Len(BatchEntries(SubSeq(msgs, 1, i - 1))) % Values32,
     ingestionTimeMs |-> msgs[i].ingestionTimeMs,
     payload         |-> msgs[i].metadata]]

\* The ordinal has a fixed width in the location.
Location(o) == prefix \o LE16(o)

Entry(b) == [sequence |-> b.sequence, location |-> Location(b.ordinal),
             metadata |-> BatchMetadata(b.msgs)]

Message == [entries : Seq(Seq(Byte)), metadata : Seq(Byte), ingestionTimeMs : Int64]

ASSUME FormatAssumption ==
  /\ Groups \subseteq Seq(Seq(Message)) /\ PathPrefixes \subseteq Seq(Byte)
  /\ Compressions \subseteq Nat
  \* Ordinals fit their width in a location, sequences and epochs their 64 bits.
  /\ MaxBatches \in 0 .. Values16 /\ MaxTrims \in 0 .. Values64 - 1

\* Neither EncodeBatch nor encodeQueueEntry checks that the counts of a batch and
\* the body length of its entry fit their fields: the byte budget keeps a batch
\* far below them.
ASSUME BatchAssumption ==
  \A g \in Groups, p \in PathPrefixes : \A i \in DOMAIN g :
    /\ Len(g[i]) <= MaxUint32 /\ Len(BatchEntries(g[i])) <= MaxUint32
    /\ Len(p) + 2 <= MaxUint16 =>
         entryBodyLen([location |-> p \o LE16(0), metadata |-> BatchMetadata(g[i])]) <= MaxUint32

-----------------------------------------------------------------------------
Init ==
  /\ prefix \in PathPrefixes /\ compression \in Compressions
  /\ ordinal = 0 /\ objects = <<>>
  /\ data = Absent /\ log = <<>> /\ nextSequence = 0 /\ epoch = 0 /\ trims = 0

\* readManifest: a manifest that does not exist is an empty one.
ReadManifest == IF data = Absent THEN emptyManifest ELSE data

\* The batches of a group are encoded and uploaded, and one round of
\* enqueueBatch adds those that could be encoded.  A group with an entry that
\* cannot be encoded, or that the count cannot hold, leaves the manifest alone.
Commit(group) ==
  LET Encoded(i) == EncodeBatch(BatchEntries(group[i]), compression)
      encodable == {i \in DOMAIN group : Encoded(i).is = "ok"}
      d == ReadManifest
      m == manifestFromBytes(d)
  IN \E uploaded \in [1 .. Cardinality(encodable) -> encodable] :
       LET Added(n) == [k \in DOMAIN uploaded |->
                         [sequence |-> n + k - 1, ordinal |-> ordinal + uploaded[k] - 1,
                          msgs |-> group[uploaded[k]]]]
           entries == [k \in DOMAIN uploaded |-> Entry(Added(m.value.nextSequence)[k])]
       IN /\ \A j, k \in DOMAIN uploaded : j < k => uploaded[j] < uploaded[k]
          /\ ordinal + Len(group) <= MaxBatches
          /\ ordinal' = ordinal + Len(group)
          /\ objects' = [o \in DOMAIN objects \cup {ordinal + i - 1 : i \in encodable} |->
                           IF o < ordinal THEN objects[o] ELSE Encoded(o - ordinal + 1).value]
          /\ IF /\ uploaded # <<>> /\ m.is = "ok"
                /\ \A k \in DOMAIN entries : Encodable(entries[k])
                /\ existingEntriesCount(d) + Len(entries) <= MaxUint32
               THEN /\ data' = toBytes(d, entries, m.value.nextSequence + Len(entries),
                                       m.value.epoch)
                    /\ log' = log \o Added(nextSequence)
                    /\ nextSequence' = nextSequence + Len(entries)
               ELSE UNCHANGED <<data, log, nextSequence>>
          /\ UNCHANGED <<prefix, compression, epoch, trims>>

\* The consumer takes over and removes the first n entries.
Trim(n) ==
  /\ data # Absent /\ trims < MaxTrims
  /\ log' = SubSeq(log, n + 1, Len(log))
  /\ epoch' = epoch + 1
  /\ data' = encodeAll([i \in DOMAIN log' |-> Entry(log'[i])])
               \o Footer(Len(log'), nextSequence, epoch')
  /\ trims' = trims + 1
  /\ UNCHANGED <<prefix, compression, ordinal, objects, nextSequence>>

Next ==
  \/ \E group \in Groups : Commit(group)
  \/ \E n \in 0 .. Len(log) : Trim(n)

Spec == Init /\ [][Next]_vars

-----------------------------------------------------------------------------
\* DecodeManifestEntries reads exactly the entries that were enqueued and not
\* yet removed, and manifestFromBytes the footer they left, after any sequence
\* of groups and trims: appending to raw bytes keeps the format.
ReadsWhatWasWritten ==
  data # Absent =>
    /\ DecodeManifestEntries(data) = Ok([i \in DOMAIN log |-> Entry(log[i])])
    /\ manifestFromBytes(data) = Ok([epoch |-> epoch, nextSequence |-> nextSequence])

\* The messages of a batch: the entries between one start index and the next.
Messages(entries, metadata) ==
  [i \in DOMAIN metadata |->
    [entries |-> SubSeq(entries, metadata[i].startIndex + 1,
                        IF i = Len(metadata) THEN Len(entries) ELSE metadata[i + 1].startIndex),
     metadata |-> metadata[i].payload, ingestionTimeMs |-> metadata[i].ingestionTimeMs]]

\* A consumer that follows the entries of the manifest to their objects, and
\* cuts what DecodeBatch returns at the start indices, has the messages that
\* were appended, with their own metadata, with and without compression.
ConsumerReads ==
  data # Absent =>
    LET entries == DecodeManifestEntries(data).value
    IN \A i \in DOMAIN entries :
         LET o == CHOOSE o \in DOMAIN objects : Location(o) = entries[i].location
             batch == DecodeBatch(objects[o])
         IN batch.is = "ok" /\ Messages(batch.value, entries[i].metadata) = log[i].msgs

\* The byte strings one damaged byte or one short read away from d.
Damaged(d) ==
  {[d EXCEPT ![i] = b] : i \in DOMAIN d, b \in Byte}
    \cup {SubSeq(d, 1, n) : n \in 0 .. Len(d)}

\* A decoder given a damaged manifest or a damaged batch returns entries or an
\* error; it never reads outside of the bytes it was given.
DecodersStayInBounds ==
  /\ \A d \in Damaged(data) : DecodeManifestEntries(d).is \in {"ok", "error"}
  /\ \A o \in DOMAIN objects : \A d \in Damaged(objects[o]) :
       DecodeBatch(d).is \in {"ok", "error"}
=============================================================================
