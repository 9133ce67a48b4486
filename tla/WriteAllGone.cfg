CONSTANTS
  MaxBytes = 2
  Errors <- MCClassified
  MAX_RETRIES = 3
SPECIFICATION FairSpec
PROPERTY WriteReturns
