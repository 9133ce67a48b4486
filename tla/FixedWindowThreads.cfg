CONSTANTS
  t1 = t1
  t2 = t2
  t3 = t3
  k1 = k1
  NoThread = NoThread
  Threads <- MCThreads3
  Keys <- MCKey
  MaxRequests = 2
  WindowSeconds = 2
  SpuriousCas = TRUE
  MaxTime = 3
  MaxArrivals = 4
  MaxResets = 4
SPECIFICATION FairSpec
INVARIANTS
  TypeOK
  NeverEarly
  ExcessExplained
PROPERTY EveryRequestDecided
CHECK_DEADLOCK FALSE
