CONSTANTS
  n1 = n1
  s1 = s1
  s2 = s2
  ga = ga
  gb = gb
  gc = gc
  gl = gl
  Node <- MCOneNode
  Sender <- MCOneCall
  NodeOf <- MCNodeOf
  Name <- MCName
  Class <- MCClass
  Airtime <- MCAirtime
  RawHash <- MCRawHash
  KeyedHash <- MCKeyed
  Sends <- MCSendsA
  Audible <- MCHearsB
  Nonces = {0}
  Sched <- MCPlain
  Claimable = TRUE
  ClaimUnknown = FALSE
  LeaseMax = 2
  Channel0 = 0
  HopClasses <- MCNoHop
  Dwell = 4
  RetuneUs = 0
  Oversleep = 0
  Skew <- MCNoSkew
  MaxTime = 24
SPECIFICATION Spec
INVARIANT LoserYieldsTheTurn
