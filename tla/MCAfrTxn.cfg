CONSTANTS
  Replicas = 3
  Quorum = AFR_QUORUM_AUTO
  AFR_QUORUM_AUTO = AFR_QUORUM_AUTO
  Healer = shd
  c1 = c1
  c2 = c2
  Client = {c1, c2}
  Flaky = {c1, c2}
  Mortal = {c1, c2}
  Full = 1
  Sizes = {0}
  MaxOp = 2
  MaxFault = 1
  MaxCrash = 1
SPECIFICATION Spec
SYMMETRY Sym
INVARIANTS TypeOK ChangelogTells AckedKept SourceFresh NoLockCycle
CHECK_DEADLOCK FALSE
