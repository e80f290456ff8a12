\* Random destinations, packets of three flits, an attempt may fail. The byte limit is
\* reached by the fifth flit, the limit of attempts before that when two of them failed;
\* the stop, at a clock edge, may come before both.
SPECIFICATION Spec
CONSTANTS
  n1 = n1
  n2 = n2
  n3 = n3
  Clock = 2
  Node = {n1, n2, n3}
  Self = n1
  Uniform = TRUE
  Destination = n2
  InjectionProbability = "SOME"
  NumberOfFlits = 3
  HeadBytes = 1
  FlitBytes = 2
  MaxBytes = 8
  MaxFlits = 6
  StartTime = 1
  StopTime = 14
  EndTime = 16
  MaxTries = 7
INVARIANTS PacketsAreWhole OneFlitPerClock  StopIsFinal StaysScheduled
CHECK_DEADLOCK FALSE
