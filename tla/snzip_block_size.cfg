SPECIFICATION Spec
CONSTANTS
  Formats = {"snzip"}
  Memory = 500000000
  BlockSizes = {1000}
  TextSizes = {1}
  MaxBlocks = 1
  MaxEdits = 0
  Faults = {}
INVARIANTS
  BlockSizeIsPowerOfTwo
