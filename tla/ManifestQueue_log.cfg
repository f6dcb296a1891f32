CONSTANTS
  Producers = {p1, p2}
  Groups = 2
  FirstSize = 2
  Size <- MCSize
  ManifestMaxAttempts = 2
  MaxEntries = 3
  MaxTrims = 1
  Readers = {}
  Faults = TRUE
  Redelivers = FALSE
SYMMETRY Symmetry
SPECIFICATION Spec
INVARIANTS TypeOK FooterAgrees
 
CHECK_DEADLOCK FALSE
