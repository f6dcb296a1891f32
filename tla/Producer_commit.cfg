SPECIFICATION Spec
CONSTANTS
  m1 = m1
  m2 = m2
  m3 = m3
  Msgs = {m1, m2, m3}
  Big = {}
  ByteCost <- MCByteCost
  EntryCount <- MCEntryCount
  f1 = f1
  closeFlush = closeFlush
  FlushCalls = {closeFlush}
  CloseFlush = closeFlush
  NoFlush = NoFlush
  Other = Other
  MaxBufferedInputs = 2
  FlushSizeBytes = 2
  EncodeConcurrency = 2
  UploadConcurrency = 2
  MaxInFlightBatches = 2
  MaxInFlightBytes = 20
  ManifestAppendBatchSize = 2
  UploadMaxAttempts = 2
  ManifestMaxAttempts = 2
  Faults = {"encode", "put", "get", "cas", "lostAck"}
  MaxOtherWrites = 1
  Disciplined = TRUE
SYMMETRY Symmetry
INVARIANTS
  TypeOK
  AckedIsDurable
  EntriesHaveObjects
  CommitOrder
  OthersKept
  FailedIsAbsent
PROPERTIES
  HaltIsFinal
