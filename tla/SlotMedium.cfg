CONSTANTS
  n1 = n1
  n2 = n2
  s1 = s1
  s2 = s2
  s3 = s3
  ga = ga
  gb = gb
  gc = gc
  gl = gl
  Node <- MCNodes
  Sender <- MCCalls
  NodeOf <- MCNodeOf
  Name <- MCName
  Class <- MCClass
  Airtime <- MCAirtime
  RawHash <- MCRawHash
  KeyedHash <- MCKeyed
  Sends <- MCSends
  Audible <- MCName
  Nonces = {0, 1, 2}
  Sched <- MCLanes
  Claimable = TRUE
  ClaimUnknown = FALSE
  LeaseMax = 2
  Channel0 = 0
  HopClasses <- MCNoHop
  Dwell = 4
  RetuneUs = 0
  Oversleep = 0
  Skew <- MCNoSkew
  MaxTime = 24
  NonceOf <- MCNonceOf
  Control = {gl}
  MaxControl = 2
  MaxBacklog = 1
SPECIFICATION MCSpec
INVARIANTS
  TypeOK
  GrantInARightfulSlot
  AccessWithinASuperframe
  OwnersNeverCross
  FramesEndWithTheirSlot
  ControlLeavesInASuperframe
PROPERTY
  GuestsYieldToWhatTheyHear
