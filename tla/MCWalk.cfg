\* One head flit from every node to every other, in one network of every kind.
SPECIFICATION FairWalk
CONSTANTS
  Noc <- AllNoc
  MaxHops = 8
INVARIANTS WalkTypeOK RouteIsFound HeaderTellsDistance TakesShortestRoute
PROPERTIES DimensionsInOrder Arrives
CHECK_DEADLOCK FALSE
