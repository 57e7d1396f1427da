CONSTANTS
  Parts = {"cope", "three", "recode", "field", "erasure", "object", "table"}
  r0 = r0
  a0 = a0
  b0 = b0
  d0 = d0
  CpNode = {r0, a0, b0, d0}
  CpSenders = {r0}
  CpOverhear = {a0, b0, d0}
  CpNone = CpNone
  CpMembers <- MCCpMembers
  CpIds = 3
  CpFailures = 1
  relay = relay
  sink = sink
  RcNode = {relay, sink}
  RcHear = {relay}
  RcNone = RcNone
  RcVectors <- MCRcVectors
  RcDamage <- MCRcDamage
  RcSeeds <- MCRcSeeds
  RcLimits <- MCRcLimits
  RcPolicies = {"none", "open"}
  RcModes = {"shown", "delayed"}
  RcFaults = 1
  REDUCE = 29
  FcK = 3
  FcN = 6
  FcNone = FcNone
  FcBytes <- MCFcBytes
  FcForeign = 1
  CoK = 2
  CoN = 4
  CoNone = CoNone
  Incomplete = Incomplete
  CoWindow = 2
  CoSegTimeout = 1
  CoTotal = 5
  CoLengths = {0, 3}
  CoLosses = 2
  CoRepublishes = 1
  CoStrays = 2
  SlowAnswers = FALSE
  na = na
  nb = nb
  PtNames <- MCPtNames
  PtRoles = {"produced", "consumed"}
  PtPolicies <- MCPtPolicies
  PtConfigs <- MCPtConfigs
  PtNone = PtNone
  PtSteps = 4
SPECIFICATION Spec
INVARIANTS
  MixesDecode
  CodeIsSound
  PolicyInv
PROPERTY
  FetchIsSound
CHECK_DEADLOCK FALSE
