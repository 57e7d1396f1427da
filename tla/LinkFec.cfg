CONSTANTS
  tx1 = tx1
  tx2 = tx2
  Tx <- MCOne
  K = 3
  MaxN = 5
  Window = 1
  Cap = 2
  GenSpace = 8
  Parities <- MCPlans
  SizeOf <- MCUnequal
  MaxFrames = 3
  MaxTime = 4
SPECIFICATION FairSpec
INVARIANTS
  EachDeliveredOnce
  DecoderInv
  ParityIsTheOpeners
  NoneHeldBeyondTheWindow
PROPERTY
  EveryFrameLeaves
