CONSTANTS
  Path = {p1, p2}
  Gfid = {g1, g2}
  XName = {x1}
  Val = {v1, v2}
  Thread = {t1}
  Worker = w
  NoGfid = NoGfid
  NoTask = NoTask
  Sb <- MCSb
  AsyncUpdate = FALSE
  DirHash = FALSE
  Queries = FALSE
  MaxFops = 3
  MaxCrash = 0
SPECIFICATION SpecD
INVARIANTS AttrsAgree
