CONSTANTS
  Path = {"p1", "p2", "p3"}
  Gfid <- MCGfid
  XName = {"x1", "x2"}
  Val = {1, 2, 3}
  Log <- MCLog
  Content <- MCContent
  NotRead = NotRead
  InitDb <- MCInitDb
  Counts = {0, 1, 2}
  MaxRun = 2
SPECIFICATION Spec
INVARIANTS TypeOK RecoveredWhole RecoveredPrefix
PROPERTY NotResumed
