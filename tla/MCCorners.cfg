\* Four nodes, single place queues, every packet turns once.
SPECIFICATION Spec
CONSTANTS
  Network <- CornerNetwork
  Node <- MeshNode
  NetDevice <- MeshNetDevice
  InjectionDevice <- MeshInjectionDevice
  NodeOf <- MeshNodeOf
  Peer <- MeshPeer
  MaxPackets = 1
  FullDuplex = TRUE
  Switching = "VCT"
  Header <- MeshHeader
  EmptyHeader <- MeshEmptyHeader
  NoHeader = NoHeader
  NewHeader <- MeshNewHeader
  RequestNewRoute <- MeshRequestNewRoute
  Flow <- CornerFlow
  MaxInjected = 4
INVARIANTS NoDrop NoAssertionFails Flight Conservation NoWedge
CHECK_DEADLOCK FALSE
