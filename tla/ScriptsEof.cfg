CONSTANTS
  s1 = s1
  s2 = s2
  Sessions <- MCSessions
  Numbers <- MCNumbers
SPECIFICATION FairSpec
CHECK_DEADLOCK FALSE
PROPERTY InputEnds
