\* Does self optimized routing only eliminate the device the flit came from?
SPECIFICATION WalkSpec
CONSTANTS
  Noc <- SoEverywhere
  MaxHops = 8
INVARIANTS KeepsProgressiveDevices
CHECK_DEADLOCK FALSE
