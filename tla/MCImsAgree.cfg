CONSTANTS
  Path = {p1, p2}
  Gfid = {g1, g2}
  XName = {x1}
  Val = {v1, v2}
  Thread = {t1, t2}
  Worker = w
  NoGfid = NoGfid
  NoTask = NoTask
  Sb <- MCSb
  AsyncUpdate = TRUE
  DirHash = FALSE
  Queries = FALSE
  MaxFops = 4
  MaxCrash = 0
SPECIFICATION SpecD
SYMMETRY Symmetry
INVARIANTS PathsAgree AttrsAgree
