CONSTANTS
  Replicas = 3
  Quorum = AFR_QUORUM_AUTO
  AFR_QUORUM_AUTO = AFR_QUORUM_AUTO
  Healer = shd
  c1 = c1
  c2 = c2
  Client = {c1}
  Flaky = {}
  Mortal = {c1, shd}
  Full = 1
  Sizes = {0, 2}
  MaxOp = 2
  MaxFault = 0
  MaxCrash = 2
SPECIFICATION Spec
INVARIANTS AckedKept
CHECK_DEADLOCK FALSE
