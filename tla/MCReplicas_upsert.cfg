SPECIFICATION Spec
CONSTANTS
  Peers <- MCPeers
  PeerOf <- MCPeerOf
  CounterMax = 3
  MaxTime = 3
  Tags = {"Record"}
  Networks <- MCRetyping
  CellOps = TRUE
INVARIANTS UpsertReplaces
CHECK_DEADLOCK FALSE
