SPECIFICATION Spec
CONSTANTS
  m1 = m1
  m2 = m2
  m3 = m3
  Msgs = {m1, m2}
  Big = {}
  ByteCost <- MCByteCost
  EntryCount <- MCEntryCount
  f1 = f1
  closeFlush = closeFlush
  FlushCalls = {closeFlush}
  CloseFlush = closeFlush
  NoFlush = NoFlush
  Other = Other
  MaxBufferedInputs = 2
  FlushSizeBytes = 2
  EncodeConcurrency = 2
  UploadConcurrency = 2
  MaxInFlightBatches = 1
  MaxInFlightBytes = 20
  ManifestAppendBatchSize = 2
  UploadMaxAttempts = 2
  ManifestMaxAttempts = 2
  Faults = {"ctx", "put"}
  MaxOtherWrites = 0
  Disciplined = FALSE
SYMMETRY Symmetry
INVARIANTS
  BudgetExact
  CompletionNeverBlocks
  
  Durability
  MessageFlow
PROPERTY ImplementsBuffer
