SPECIFICATION FairSpec
CONSTANTS
  Absent = Absent
  Payloads <- MCPayloads
  Attributes <- MCAttributes
  Commands <- StdoutCommands
  Names <- MCStdoutNames
  InitialFiles <- MCStdoutFiles
  DefaultFormat = "framing2"
  BufCap = 2
  Faults <- AllFaults
  MaxRuns = 1
INVARIANTS
  StdoutIsConcatenation
PROPERTIES
  StdoutModeTouchesNoFile
  Terminates
