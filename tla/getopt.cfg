SPECIFICATION Spec
CONSTANTS
  Words <- MCWords
  MaxWords = 5
  Flags <- MCFlags
  Valued <- MCValued
INVARIANTS
  TypeOK
  ParsesTheCommandLine
