CONSTANTS
  Path = {p1, p2}
  Gfid = {g1, g2}
  XName = {x1}
  Val = {v1}
  Thread = {t1, t2}
  Worker = w
  NoGfid = NoGfid
  NoTask = NoTask
  Sb <- MCSb
  AsyncUpdate = FALSE
  DirHash = TRUE
  Queries = FALSE
  MaxFops = 3
  MaxCrash = 1
SPECIFICATION SpecH
INVARIANTS FileReferencesGfid TxOwned
PROPERTIES GidsStable
