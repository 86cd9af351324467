SPECIFICATION Spec
CONSTANTS
  Formats = {"iwa"}
  Memory = 500000000
  BlockSizes = {0}
  TextSizes = {1}
  MaxBlocks = 1
  MaxEdits = 0
  Faults = {}
INVARIANTS
  IwaFilesCanBeRead
