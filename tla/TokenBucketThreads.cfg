CONSTANTS
  t1 = t1
  t2 = t2
  t3 = t3
  k1 = k1
  NoThread = NoThread
  Threads <- MCThreads
  Keys <- MCKeys
  Capacity = 2
  RefillRate = 1
  Word = 16
  MaxTime = 3
  MaxArrivals = 5
SPECIFICATION FairSpec
INVARIANTS
  TypeOK
  IntervalBudget
  NeverStingy
  RetryAfterHonest
PROPERTIES
  RefillMonotone
  Refines
  EveryRequestDecided
CHECK_DEADLOCK FALSE
