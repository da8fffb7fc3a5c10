SPECIFICATION SpecResponses
CONSTANTS
  Inputs <- AllInputs
  Names = {"x", "y"}
  NoName = ""
  Scales = {1, 2}
  Notations = {"auto"}
  MaxRevision = 4
  ConversionRevisions = {1, 2}
  HistoryCapacity = 2
  ConversionCapacity = 1
  VariableCapacity = 1
  Seeds = {7}
  ByteLimit = 6
INVARIANTS
  DrawsOnce
  RetriesRecognised
  ReservedIsOwned
PROPERTIES
  ShowsCurrentValue
  AnswerSurvives
  ConversionMarkKept
CHECK_DEADLOCK FALSE
