\* Does the Irvine router find a device in every direction a header asks for?
SPECIFICATION WalkSpec
CONSTANTS
  Noc <- IrvineVertical
  MaxHops = 8
INVARIANTS RouteIsFound
CHECK_DEADLOCK FALSE
