\* Two sources, a node between two predecessors and two destinations, and a sink.
SPECIFICATION FairSpec
CONSTANTS
  Clock = 1
  NumberOfFlits = 2
  HeadBytes = 1
  FlitBytes = 2
  Self = "n1"
  Setting <- AllSettings
INVARIANTS TypeOK SendsTheData StartsOnce ExecutionsApart ExecutesInTurn NoIterationLost 
PROPERTIES StopIsFinal AllIsSent
CHECK_DEADLOCK FALSE
