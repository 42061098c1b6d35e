CONSTANTS
  Subvol = {b1, b2}
  FirstChild = b1
  Frame = {c1}
  Session <- MCSession
  NoSession = NoSession
  InitRows <- MCInitRows
  Slices = {0, 1, 2}
  MaxChange = 1
  MaxQuery = 1
  MaxFault = 1
SPECIFICATION FairSpec
INVARIANTS TypeOK RowsWhole HandedOnce
PROPERTY QueryEnds
