CONSTANTS
  Parts = {"knobs", "tx", "rx", "build"}
  fa = fa
  fb = fb
  Nodes <- MCNodes
  Reach <- MCReach
  Phy <- MCPhy
  Packets <- MCPackets
  From <- MCFrom
  PolicyOf <- MCPolicy
  Rules <- MCRules
  DefaultClass = "redundant"
  Depth = 1
  Stale = 1
  Cap = 1
  RfNone = RfNone
  Calls <- MCCalls
  MaxFaults = 1
  MaxTime = 2
  None = None
  KnChannel = {1, 6}
  KnDbm = {9, 31}
  KnIndex = {5, 70}
  DbmLo = 0
  DbmHi = 30
  IdxLo = 20
  IdxHi = 63
  HasDbm = TRUE
  FwDbm = 27
  KnMaxPlans = 3
  KnFaults = 1
  KnHops = 1
  NoRate = NoRate
  TxFrame = {1, 2, 3}
  Window = 1
  MaxMsdus = 2
  MaxBatch = 2
  PlanSizes <- MCPlanSizes
  Mcs = {1, 2}
  InjectTime = 1
  TxMaxChanges = 1
  NoOne = NoOne
  s1 = s1
  s2 = s2
  q1 = q1
  q2 = q2
  r1 = r1
  Sender = {s1, s2}
  SenderId = {1, 2, 3}
  Nonce <- MCNonce
  RxRadio = {r1}
  Fresh = 0
  RxMaxFrames = 3
  RxMaxClock = 1
  MaxObservations = 2
  MaxRotations = 1
  LfSender = {s1, s2}
  LfMode = {"lora", "flrc", "gfsk", "ook"}
  LfAdvertised = {"lora", "flrc", "gfsk"}
  LfLands <- MCLfLands
  LfPayload <- MCLfPayload
  LfSpan <- MCLfSpan
  LfPower <- MCLfPower
  LfDriver <- MCLfDriver
  LfRefuses <- MCLfRefuses
  LfFirst = "lora"
  LoraMtu = 2
  LfPlan <- MCLfPlan
  LfNone = LfNone
  LfFails = {"phy", "sf", "dbm"}
  RpKey = {1, 2}
  RpName = {1, 2, 3}
  RpKeyOf <- MCRpKeyOf
  RpCells <- MCRpCells
  RpMode = {"probabilistic", "defer", "bandit", "bloom"}
  Reinforce = 2
  WMax = 5
  FloorShare = 1
  DrawMax = 5
  RpNexthops <- MCRpNexthops
  NoEntry = NoEntry
  In = In
  RpMaxClock = 3
  RpMaxSteps = 6
  n1 = n1
  n2 = n2
  n3 = n3
  BaNode = {n1, n2, n3}
  BaAddr <- MCBaAddr
  b1 = b1
  b4 = b4
  BaTask = {b1, b2, b3, b4}
  BaAt <- MCBaAt
  BaSink = {n3}
  BaPacket <- MCBaPacket
  BaReader = {n3}
  BaFragments = 2
  BaNoAddr = BaNoAddr
  BaMaxFaults = 1
  Sync0 = 78
  Sync1 = 68
  RxType = 136
  HeadLen = 1
  AccLimit = 9
  BsItem <- MCBsItem
  BsItems = 12
  BsChunk = 3
  BdCaller = {b1, b2}
  BdNone = BdNone
  AdvType = 48
  CoexType = 49
  CoexItvl = 256
  BdPayload <- MCBdPayload
  BdShare = {0, 100}
  BdFrames = 2
  LtFrame = {t1}
  LtTiming <- MCLtTiming
  LtRadio <- MCLtRadio
  LtUs = 2
  LtTick = 3
  LtHorizon = 12
  MbDriver <- MCMbDriver
  MbBuilt = {"loopback", "rtl8822e", "af-packet", "halow", "esp32c5"}
  MbPreset <- MCMbPreset
  MbChannel = {36, 149}
  MbNone = MbNone
  MbRadios = 2
  MbPlan = {"fixed", "planned"}
  MbMtu = {1400, 250}
  MONITOR = 1400
  MbDwell = 20
  MbTask = {u1, u2, u3}
  MbBuilders = 3
SPECIFICATION Spec
INVARIANTS
  KnobsInv
  BuildInv
PROPERTIES
  BatcherIsAQueue
  PathHolds
CHECK_DEADLOCK FALSE
