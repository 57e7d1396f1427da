CONSTANTS
  n1 = n1
  s1 = s1
  s2 = s2
  ga = ga
  gb = gb
  gc = gc
  gl = gl
  Node <- MCOneNode
  Sender <- MCTwoCalls
  NodeOf <- MCNodeOf
  Name <- MCName
  Class <- MCClass
  Airtime <- MCLonger
  RawHash <- MCLaneHash
  KeyedHash <- MCKeyedLane
  Sends <- MCSends
  Audible <- MCHearsB
  Nonces = {0}
  Sched <- MCWideLanes
  Claimable = TRUE
  ClaimUnknown = FALSE
  LeaseMax = 3
  Channel0 = 0
  HopClasses <- MCHop
  Dwell = 6
  RetuneUs = 1
  Oversleep = 1
  Skew <- MCNoSkew
  MaxTime = 13
SPECIFICATION Spec
INVARIANTS
  GrantEndsWithItsSlot
  GateInv
