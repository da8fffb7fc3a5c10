SPECIFICATION SpecResponses
CONSTANTS
  Inputs <- AllInputs
  Names = {"x", "y"}
  NoName = ""
  Scales = {1, 2}
  Notations = {"auto"}
  MaxRevision = 4
  ConversionRevisions = {}
  HistoryCapacity = 2
  ConversionCapacity = 1
  VariableCapacity = 1
  Seeds = {7}
  ByteLimit = 9
INVARIANTS
  CopyIsResult
CHECK_DEADLOCK FALSE
