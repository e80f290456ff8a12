\* A line of three nodes with fair events: packets with body flits share links and queues.
SPECIFICATION FairSpec
CONSTANTS
  Network <- LineNetwork
  Node <- MeshNode
  NetDevice <- MeshNetDevice
  InjectionDevice <- MeshInjectionDevice
  NodeOf <- MeshNodeOf
  Peer <- MeshPeer
  MaxPackets = 2
  FullDuplex = FALSE
  Switching = "SAF"
  Header <- MeshHeader
  EmptyHeader <- MeshEmptyHeader
  NoHeader = NoHeader
  NewHeader <- MeshNewHeader
  RequestNewRoute <- MeshRequestNewRoute
  Flow <- LineFlow
  MaxInjected = 3
INVARIANTS NoAssertionFails
PROPERTIES DeliversInOrder DeliversEveryFlit
CHECK_DEADLOCK FALSE
