CONSTANTS
  Brick = {b1, b2, b3}
  Hashed = b1
  Client = {c1, c2}
  Gfid = {g1, g2}
  NoDir = NoDir
  MaxOp = 3
  MaxFault = 1
SYMMETRY Symmetry
SPECIFICATION Spec
INVARIANTS SameGfid OneRecord RecordKept
