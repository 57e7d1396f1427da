CONSTANTS
  CpNode = {r0, a0, b0}
  CpSenders = {r0, a0}
  CpOverhear = {}
  CpNone = CpNone
  CpMembers = {{r0, a0, b0}}
  CpIds = 2
  CpFailures = 0
SPECIFICATION CpSpec
INVARIANT
  NativesAsEnqueued
CHECK_DEADLOCK FALSE
