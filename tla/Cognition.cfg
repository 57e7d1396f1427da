CONSTANTS
  Parts = {"nodes", "loop", "plan", "dial", "rates", "hops", "occupancy", "pair", "arms"}
  p1 = p1
  p2 = p2
  k1 = k1
  k2 = k2
  w1 = w1
  l1 = l1
  CgNode = {c1, c2}
  CgRadio = {k1}
  CgNone = CgNone
  StaleAge = 1
  MaxGap = 2
  Back = 2
  MaxEntries = 1
  CgFaults = 3
  ClPrefix = {p1, p2}
  ClFace = {f1}
  ClRadio = {k1, k2}
  ClNone = ClNone
  Learners = {"bandit", "probe"}
  Lifetime = 1
  StaleIdle = 1
  MaxRate = 1
  Rates = {0}
  Spreads <- MCSpreads
  Probing = 2
  DutyMax = 1
  DutyWindow = 2
  Fallbacks <- MCFallbacks
  RpRadio <- MCRadios
  RpNone = RpNone
  RpCap <- MCCap
  Levels <- MCLevels
  Snrs = {10, 40}
  Losses = {0, 30}
  BusyPct = {0, 60}
  Counts = {0, 1, 3}
  Deficits = {0, 2}
  Ceilings = {0, 4}
  GenerationK = 8
  BroadReceivers = 3
  BusyHigh = 50
  RpChanges = 3
  PdNode = {d1, d2}
  PdElsewhere = {d1}
  PdNone = PdNone
  UpMargin = 2
  DownMargin = 0
  Confirm = 2
  Dwell = 3
  Silence = 2
  PenaltyStep = 1
  MaxPenalty = 1
  Margins <- MCMargins
  ActiveNames <- MCActiveNames
  LrLevels <- MCLrLevels
  LrMcs = {0, 1, 2, 3}
  LrSf = {8, 9}
  Rise = 9
  Fall = 1
  Window = 10
  LrMargin = 4
  LrSamples = 3
  HpNode = {h1, h2}
  HpLists <- MCHpLists
  HpLen = 3
  MaxCouples = 3
  HpDraws = {0, 1, 3}
  HpEpochs = 3
  OcWidth = 8
  OcBurst = {0, 3, 7, 9}
  OcNone = OcNone
  OcTicks = 5
  LpNone = LpNone
  LpLevels <- MCLpLevels
  LpBulk = {3}
  LpWidens = TRUE
  RendezvousSf = 10
  RendezvousAge = 6
  StaleAfter = 5
  RetryAge = 3
  GiveUpAge = 10
  Margin4 = 4
  LpFaults = 1
  AcPart <- MCAcPart
  AcSituation <- MCAcSituation
  AcAsked <- MCAcAsked
  AcBase <- MCAcBase
  MissPenalty = 5000
  Footprint = 300
  AcNone = AcNone
  AcMaxPulls = 5
SPECIFICATION Spec
INVARIANTS
  LoopInv
  CarriersInv
PROPERTIES
  NodesKeepInTouch
  PlanIsSound
  DialIsSound
  LearningIsSound
CHECK_DEADLOCK FALSE
