SPECIFICATION Spec
CONSTANTS
  Absent = Absent
  Payloads <- MCPayloads
  Attributes <- MCAttributes
  Commands <- FileCommands
  Names <- MCFileNames
  InitialFiles <- MCFiles
  DefaultFormat = "framing2"
  BufCap = 2
  Faults <- AllFaults
  MaxRuns = 1
INVARIANTS
  TypeOK
  InputsNeverAltered
  NothingLost
  NoPartialOutput
  StatusZeroMeansDone
