SPECIFICATION FairSpec
CONSTANTS
  m1 = m1
  m2 = m2
  m3 = m3
  Msgs = {m1, m2}
  Big = {}
  ByteCost <- MCByteCost
  EntryCount <- MCEntryCount
  f1 = f1
  closeFlush = closeFlush
  FlushCalls = {closeFlush}
  CloseFlush = closeFlush
  NoFlush = NoFlush
  Other = Other
  MaxBufferedInputs = 2
  FlushSizeBytes = 2
  EncodeConcurrency = 1
  UploadConcurrency = 2
  MaxInFlightBatches = 1
  MaxInFlightBytes = 5
  ManifestAppendBatchSize = 2
  UploadMaxAttempts = 1
  ManifestMaxAttempts = 2
  Faults = {"ctx", "cas"}
  MaxOtherWrites = 0
  Disciplined = TRUE
PROPERTIES
  AcceptedResolves
  CallsReturn
  CloseCompletes
  ForcedCloseDrains
