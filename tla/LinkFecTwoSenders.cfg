CONSTANTS
  tx1 = tx1
  tx2 = tx2
  Tx <- MCTwo
  K = 2
  MaxN = 4
  Window = 1
  Cap = 2
  GenSpace = 8
  Parities <- MCParity
  SizeOf <- MCEqual
  MaxFrames = 2
  MaxTime = 4
SPECIFICATION Spec
INVARIANT
  ArrivedSourcesAreDelivered
