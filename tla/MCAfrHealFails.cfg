CONSTANTS
  Replicas = 3
  Quorum = AFR_QUORUM_AUTO
  AFR_QUORUM_AUTO = AFR_QUORUM_AUTO
  Healer = shd
  c1 = c1
  c2 = c2
  Client = {c1}
  Flaky = {shd}
  Mortal = {c1}
  Full = 1
  Sizes = {0}
  MaxOp = 1
  MaxFault = 1
  MaxCrash = 1
SPECIFICATION Spec
INVARIANTS ChangelogTells
CHECK_DEADLOCK FALSE
