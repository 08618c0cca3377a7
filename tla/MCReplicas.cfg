SPECIFICATION Spec
CONSTANTS
  Peers <- MCPeers
  PeerOf <- MCPeerOf
  CounterMax = 3
  MaxTime = 3
  Tags = {"Int", "Counter", "Set", "OrSet", "Mv", "Pq", "List", "Text", "Record"}
  Networks <- MCNetworks
  CellOps = FALSE
INVARIANTS
  Converges
  ShowsEvents
  SequencesExact
CHECK_DEADLOCK FALSE
