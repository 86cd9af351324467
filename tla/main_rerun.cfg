SPECIFICATION Spec
CONSTANTS
  Absent = Absent
  Payloads <- MCPayloads
  Attributes <- MCAttributes
  Commands <- RerunCommands
  Names <- MCRerunNames
  InitialFiles <- MCRerunFiles
  DefaultFormat = "framing2"
  BufCap = 2
  Faults <- ReportedFaults
  MaxRuns = 2
INVARIANTS
  AttributesFollow
PROPERTIES
  ImplementsFileReplacement
