CONSTANTS
  p1 = p1
  p2 = p2
  nobody = nobody
  Producers <- MCProducers
  Nobody <- nobody
  Slots = 3
  BatchSize = 2
  Timeout = 2
  MaxEntries = 5
  WithFatal = TRUE
SPECIFICATION Spec
INVARIANT FatalIsWritten
