--------------------------- MODULE ManifestCodec ---------------------------
(***************************************************************************)
(* The bytes of the queue manifest of buffer/manifest.go: what append and  *)
(* toBytes write, and what the decoders read back.                         *)
(***************************************************************************)
EXTENDS Bytes

manifestVersion == 1
mEntryLenSize == 4
mSequenceSize == 8
mLocationLenSize == 2
mMetadataCountSize == 4
mStartIndexSize == 4
mIngestionTimeMsSize == 8
mMetadataLenSize == 4
mEntriesCountSize == 4
mEpochSize == 8
mVersionSize == 2
mFooterSize == mEntriesCountSize + mSequenceSize + mEpochSize + mVersionSize
mMetadataHeaderSize == mStartIndexSize + mIngestionTimeMsSize + mMetadataLenSize

-----------------------------------------------------------------------------
(* Encoding *)

\* The footer, as emptyManifest and toBytes write it.
Footer(count, next, ep) == LE32(count) \o LE64(next) \o LE64(ep) \o LE16(manifestVersion)

emptyManifest == Footer(0, 0, 0)

encodeMetadata(m) ==
  LE32(m.startIndex) \o LE64(m.ingestionTimeMs) \o LE32(Len(m.payload)) \o m.payload

encodeAllMetadata(ms) == Joined([i \in DOMAIN ms |-> encodeMetadata(ms[i])])

\* Mutant: the length leaves out the location's own length field.
entryBodyWithoutLocationLen(e) ==
  mSequenceSize + Len(e.location) + mMetadataCountSize + Len(encodeAllMetadata(e.metadata))

entryBodyLen(e) ==
  mSequenceSize + mLocationLenSize + Len(e.location) + mMetadataCountSize
    + Len(encodeAllMetadata(e.metadata))

\* encodeQueueEntry refuses what a length field cannot hold.
Encodable(e) ==
  /\ Len(e.location) <= MaxUint16
  /\ \A i \in DOMAIN e.metadata : Len(e.metadata[i].payload) <= MaxUint32

encodeQueueEntry(e) ==
  LE32(entryBodyLen(e)) \o LE64(e.sequence) \o LE16(Len(e.location)) \o e.location
    \o LE32(Len(e.metadata)) \o encodeAllMetadata(e.metadata)

encodeAll(entries) == Joined([i \in DOMAIN entries |-> encodeQueueEntry(entries[i])])

existingEntriesCount(d) == Uint32(d, Len(d) - mFooterSize)

\* toBytes: the old entries, the appended ones and a new footer.
toBytes(d, entries, next, ep) ==
  Slice(d, 0, Len(d) - mFooterSize) \o encodeAll(entries)
    \o Footer(existingEntriesCount(d) + Len(entries), next, ep)

-----------------------------------------------------------------------------
(* Decoding *)

\* manifestFromBytes: what the producer takes from the footer.
manifestFromBytes(d) ==
  LET end == Len(d)
  IN IF end < mFooterSize THEN Failed
     ELSE IF Uint16(d, end - mVersionSize) # manifestVersion THEN Failed
     ELSE Ok([epoch |-> Uint64(d, end - mVersionSize - mEpochSize),
              nextSequence |-> Uint64(d, end - mVersionSize - mEpochSize - mSequenceSize)])

PayloadFits(start, n, entryEnd) == start + n <= entryEnd

\* One round of the loop over the metadata of an entry.
decodeMetadata(d, offset, entryEnd) ==
  LET start == offset + mMetadataHeaderSize
      mLen  == Uint32(d, start - mMetadataLenSize)
  IN IF start > entryEnd THEN Failed
     ELSE IF ~InBounds(d, offset, start) THEN Panics
     ELSE IF ~PayloadFits(start, mLen, entryEnd) THEN Failed
     ELSE IF ~InBounds(d, start, start + mLen) THEN Panics
     ELSE Read([startIndex      |-> Uint32(d, offset),
                ingestionTimeMs |-> Signed(Uint64(d, offset + mStartIndexSize)),
                payload         |-> Slice(d, start, start + mLen)],
               start + mLen)

\* One entry.  Sequence and location length are read before the bounds of the
\* entry are looked at.
decodeQueueEntry(d, offset, end) ==
  LET start    == offset + mEntryLenSize
      entryEnd == start + Uint32(d, offset)
      loc      == start + mSequenceSize + mLocationLenSize
      locEnd   == loc + Uint16(d, start + mSequenceSize)
      first    == locEnd + mMetadataCountSize
      metadata == Items([o \in Nat |-> decodeMetadata(d, o, entryEnd)], Uint32(d, locEnd), first)
  IN IF start > end THEN Failed
     ELSE IF ~InBounds(d, offset, start) THEN Panics
     ELSE IF entryEnd > end THEN Failed
     ELSE IF ~InBounds(d, start, loc) THEN Panics
     ELSE IF first > entryEnd THEN Failed
     ELSE IF ~InBounds(d, loc, first) THEN Panics
     ELSE IF metadata.is # "ok" THEN metadata
     ELSE Read([sequence |-> Uint64(d, start), location |-> Slice(d, loc, locEnd),
                metadata |-> metadata.value],
               entryEnd)

DecodeManifestEntries(d) ==
  LET end == Len(d) - mFooterSize
      all == Items([o \in Nat |-> decodeQueueEntry(d, o, end)], existingEntriesCount(d), 0)
  IN IF end < 0 THEN Failed
     ELSE IF all.is # "ok" THEN all
     ELSE Ok(all.value)
=============================================================================
