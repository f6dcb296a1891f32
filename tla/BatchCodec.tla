----------------------------- MODULE BatchCodec -----------------------------
(***************************************************************************)
(* EncodeBatch and DecodeBatch of buffer/batch.go.  zstd is external: a    *)
(* lossless function whose frames start with a magic byte.                 *)
(***************************************************************************)
EXTENDS Bytes

batchEntryLenSize == 4
batchVersionSize == 2
batchCountSize == 4
batchCompSize == 1
batchFooterSize == batchCompSize + batchCountSize + batchVersionSize
batchVersion == 1
CompressionNone == 0
CompressionZstd == 1

Magic == Base - 1
EncodeAll(block) == IF block = <<>> THEN <<>> ELSE <<Magic>> \o block
DecodeAll(block) ==
  IF block = <<>> THEN Ok(<<>>)
  ELSE IF block[1] # Magic THEN Failed ELSE Ok(Tail(block))

-----------------------------------------------------------------------------
Record(e) == LE32(Len(e)) \o e

Records(es) == Joined([i \in DOMAIN es |-> Record(es[i])])

BatchFooter(es, comp) == <<comp>> \o LE32(Len(es)) \o LE16(batchVersion)

EncodeBatch(es, comp) ==
  IF \E i \in DOMAIN es : Len(es[i]) > MaxUint32 THEN Failed
  ELSE IF comp = CompressionNone THEN Ok(Records(es) \o BatchFooter(es, comp))
  ELSE IF comp = CompressionZstd THEN Ok(EncodeAll(Records(es)) \o BatchFooter(es, comp))
  ELSE Failed

\* Mutant: the length field is not counted.
RecordFitsWithoutLength(start, n, block) == start + n <= Len(block) + batchEntryLenSize

RecordFits(start, n, block) == start + n <= Len(block)

\* One round of the loop over the records of the block.
DecodeRecord(block, offset) ==
  LET start    == offset + batchEntryLenSize
      entryLen == Uint32(block, offset)
  IN IF start > Len(block) THEN Failed
     ELSE IF ~RecordFits(start, entryLen, block) THEN Failed
     ELSE IF ~InBounds(block, start, start + entryLen) THEN Panics
     ELSE Read(Slice(block, start, start + entryLen), start + entryLen)

\* The record block, decompressed.
RecordBlock(d, comp) ==
  LET block == Slice(d, 0, Len(d) - batchFooterSize)
  IN IF comp = CompressionNone THEN Ok(block)
     ELSE IF comp = CompressionZstd THEN DecodeAll(block)
     ELSE Failed

DecodeBatch(d) ==
  LET footerStart == Len(d) - batchFooterSize
      count   == Uint32(d, footerStart + batchCompSize)
      version == Uint16(d, footerStart + batchCompSize + batchCountSize)
      block   == RecordBlock(d, d[footerStart + 1])
      records == Items([o \in Nat |-> DecodeRecord(block.value, o)], count, 0)
  IN IF footerStart < 0 THEN Failed
     ELSE IF version # batchVersion THEN Failed
     ELSE IF block.is # "ok" THEN block
     ELSE IF records.is # "ok" THEN records
     ELSE Ok(records.value)
=============================================================================
