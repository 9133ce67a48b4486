CONSTANTS
  t1 = t1
  t2 = t2
  t3 = t3
  k1 = k1
  NoThread = NoThread
  Threads <- MCThreads
  Keys <- MCKey
  MaxRequests = 1
  WindowSeconds = 2
  SpuriousCas = FALSE
  MaxTime = 2
  MaxArrivals = 4
  MaxResets = 4
SPECIFICATION Spec
INVARIANT AtMostMax
CHECK_DEADLOCK FALSE
