CONSTANTS
  Path = {p1, p2}
  Gfid = {g1, g2}
  XName = {x1}
  Val = {v1}
  Thread = {t1, t2}
  Worker = w
  NoGfid = NoGfid
  NoTask = NoTask
  Sb <- MCSb
  AsyncUpdate = TRUE
  DirHash = TRUE
  Queries = TRUE
  MaxFops = 3
  MaxCrash = 1
SPECIFICATION SpecH
INVARIANTS TypeOK FileReferencesGfid DataReferencesGfid IndexedWhole TxOwned
PROPERTIES GidsStable ImplementsIndex CatchesUp
