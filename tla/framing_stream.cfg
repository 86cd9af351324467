SPECIFICATION Spec
CONSTANTS
  Radix = 4
  LenBytes = 2
  MaxBlock = 8
  Streams = 2
  TextSizes = {0, 1, 9}
  MaxEdits = 2
  Faults = {"read", "putc", "fwrite"}
INVARIANTS
  TypeOK
  TextInOrder
  RoundTrip
  OnlySoundData
  DamageReported
