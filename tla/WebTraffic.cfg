SPECIFICATION SpecOpen
CONSTANTS
  Inputs <- OneInput
  Names = {"x"}
  NoName = ""
  Scales = {1}
  Notations = {"auto"}
  MaxRevision = 4
  ConversionRevisions = {1, 2}
  HistoryCapacity = 2
  ConversionCapacity = 2
  VariableCapacity = 1
  Seeds = {7}
  ByteLimit = 99
  Connections = {w1, w2}
  Requests <- TrafficRequests
  Pieces = 1
  MaxRequests = 3
  MaxTimed = 2
  ReadTicks = 2
  WaitTicks = 1
  ServeTicks = 1
  SendTicks = 1
  DrainTicks = 1
SYMMETRY Alike
INVARIANTS
  PagesAgree
  EndsByDeadline
  LeasesEnd
CHECK_DEADLOCK FALSE
