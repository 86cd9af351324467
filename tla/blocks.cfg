SPECIFICATION FairSpec
CONSTANTS
  Formats = {"snzip", "snappy-java", "snappy-in-java", "iwa", "comment-43"}
  Memory = 500000000
  BlockSizes = {0, 1, 2, 3, 65535, 65536, 67108864, 134217728}
  TextSizes = {0, 1, 3, 126, 16382, 32769, 65537, 2097150, 67108864}
  MaxBlocks = 3
  MaxEdits = 2
  Faults = {"read", "putc", "write"}
INVARIANTS
  TypeOK
  BuffersFit
  TextInOrder
  OnlySoundData
  RoundTrip
  SuccessIsWhole
  StreamsAreFramed
  ReadsOwnFiles
PROPERTIES
  Terminates
