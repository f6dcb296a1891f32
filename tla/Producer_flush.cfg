SPECIFICATION Spec
CONSTANTS
  m1 = m1
  m2 = m2
  m3 = m3
  Msgs = {m1, m2, m3}
  Big = {m3}
  ByteCost <- MCByteCost
  EntryCount <- MCEntryCount
  f1 = f1
  closeFlush = closeFlush
  FlushCalls = {f1, closeFlush}
  CloseFlush = closeFlush
  NoFlush = NoFlush
  Other = Other
  MaxBufferedInputs = 2
  FlushSizeBytes = 2
  EncodeConcurrency = 2
  UploadConcurrency = 2
  MaxInFlightBatches = 2
  MaxInFlightBytes = 2
  ManifestAppendBatchSize = 2
  UploadMaxAttempts = 1
  ManifestMaxAttempts = 2
  Faults = {"encode"}
  MaxOtherWrites = 0
  Disciplined = TRUE
SYMMETRY Symmetry
INVARIANTS
  BatchOrder
  FlushCovers
  InFlightBound
  PipelineFlow
