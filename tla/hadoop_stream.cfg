SPECIFICATION FairSpec
CONSTANTS
  Default = 60
  SizeValues = 1024
  Memory = 62
  BlockSizes = {0, 37, 38, 39, 50, 69, 1019}
  TextSizes = {0, 1, 2, 18, 19, 63}
  PartSizes = {20}
  MaxBlocks = 4
  MaxEdits = 1
  Faults = {"read", "write"}
INVARIANTS
  TypeOK
  BuffersFit
  TextInOrder
  BlockAccounts
  RoundTrip
  SuccessIsWhole
  FindsOwnFiles
PROPERTIES
  Terminates
