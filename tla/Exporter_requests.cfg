SPECIFICATION FairSpec
CONSTANTS
  Requests = {r1, r2}
  Configs <- MCConfigs
INVARIANTS
  TypeOK
  ConsumedIsDurable
  RefusedIsAbsent
  PendingInputsSettle
  StartedAsConfigured
PROPERTIES
  TimeoutEndsWait
  RequestsReturn
CHECK_DEADLOCK FALSE
