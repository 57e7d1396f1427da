CONSTANTS
  Parts = {"ids", "relay", "dos", "rendezvous", "walk", "map", "clock"}
  na = na
  nb = nb
  nc = nc
  np = np
  IdNode <- MCIdNode
  Id = {0, 1}
  NoId = NoId
  IdHears <- MCHears
  Rssi <- MCRssi
  IdStale = 1
  IdWindow = 1
  Slices = 2
  Debounce = 2
  Maps <- MCMaps
  StartIds <- MCIds
  StartMaps <- MCFolds
  IdMaxClock = 3
  IdMaxMoves = 1
  IdMaxFrames = 3
  Mesh <- MCMesh
  Consumer = nc
  Producer = np
  Topologies <- MCTopologies
  Jitter <- MCJitter
  Ttl = 6
  Rto = 4
  Names = {"x"}
  InScope <- MCScope
  MaxMeshFaults = 2
  Source = {1, 2, 3}
  Group = {1, 2, 3}
  Served = {1, 2}
  SrcSlot <- MCSrcSlot
  GrpSlot <- MCGrpSlot
  SrcCap = 1
  SrcRefill = 1
  GrpCap = 2
  GrpRefill = 1
  DosMaxMs = 2
  DosMaxFrames = 5
  EpochUs = 8
  PhaseSlots = 4
  GuardUs = 1
  ChannelSet <- MCChannels
  CommonChannel = 6
  MaxDraw = 8
  PhaseShift = 2
  Epochs = 1
  Skew = 1
  SlotSizes  <- MCSlotSizes
  SlotCounts <- MCSlotCounts
  Strides    <- MCStrides
  Hashes     <- MCHashes
  LeaseMaxes <- MCLeaseMaxes
  SmNode = {1, 2}
  SmComponent = {1, 2}
  SmDepth = 2
  SmRegistrable <- MCRegistrable
  SmGranted <- MCGranted
  SmClocks = {"wall", "hw"}
  SmWidths = {0, 2}
  SmMaxReg = 2
  SmMaxStarts = 2
  ClkNode = {1, 2, 3}
  ClkMaster = 1
  ClkPeer = {5, 7}
  ClkReads <- MCReads
  ClkWatcher = {3}
  ClkRestarting = {1, 3}
  ClkStart <- MCStart
  ClkCounter <- MCCounter
  ClkDelay = 1
  ClkWindow = 1
  ClkMaxTime = 2
  ClkMaxFaults = 1
  ClkMaxSends = 3
SPECIFICATION FairSpec
INVARIANTS
  DosInv
  RendezvousInv
  WalkInv
  SchedInv
PROPERTIES
  AliasesAreSettled
  RelayServes
CHECK_DEADLOCK FALSE
