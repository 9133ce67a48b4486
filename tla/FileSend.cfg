CONSTANTS
  MaxBytes = 3
  Errors <- MCClassified
  MAX_RETRIES = 3
  MaxFile = 7
  MaxChanges = 2
  BUFFER_SIZE = 3
SPECIFICATION StreamSpec
INVARIANTS
  TypeOK
  WriteSound
  FileClosed
PROPERTIES
  Transfers
  ServesAsSession
  StreamEnds
