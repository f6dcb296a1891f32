CONSTANTS
  Producers = {p1, p2}
  Groups = 2
  FirstSize = 2
  Size <- MCSize
  ManifestMaxAttempts = 1
  MaxEntries = 6
  MaxTrims = 0
  Readers = {p1}
  Faults = FALSE
  Redelivers = TRUE
SPECIFICATION FairSpec
 
PROPERTIES ImplementsLog EnqueueReturns
CHECK_DEADLOCK FALSE
