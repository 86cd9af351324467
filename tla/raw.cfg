SPECIFICATION FairSpec
CONSTANTS
  FileSizes = {0, 1, 3, 4}
  SizeArgs = {0, 2, 4}
  BufSize = 2
  Appended = {1, 2}
  MaxMade = 3
  Faults = {"read", "write"}
INVARIANTS
  TypeOK
  BytesInOrder
  SuccessIsExact
PROPERTIES
  Terminates
