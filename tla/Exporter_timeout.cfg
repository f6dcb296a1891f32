SPECIFICATION FairSpec
CONSTANTS
  Requests = {r1, r2}
  Configs <- MCConfigs
PROPERTY TimeoutEndsRequest
CHECK_DEADLOCK FALSE
