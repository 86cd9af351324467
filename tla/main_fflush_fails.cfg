SPECIFICATION Spec
CONSTANTS
  Absent = Absent
  Payloads <- MCPayloads
  Attributes <- MCAttributes
  Commands <- RerunCommands
  Names <- MCRerunNames
  InitialFiles <- MCRerunFiles
  DefaultFormat = "framing2"
  BufCap = 2
  Faults = {"fflush"}
  MaxRuns = 1
INVARIANTS
  DeletedMeansConverted
