CONSTANTS
  Proc = {p1, p2}
  Reader = {r1}
  Data = {d1, d2}
  Inode = {i1, i2, i3}
  Blocks = 2
  Nil = Nil
  Torn = Torn
  Exclusive = TRUE
  Crashes = TRUE
SPECIFICATION Spec
INVARIANTS TypeOK ExclusiveInv
PROPERTY IsRegister
SYMMETRY Symmetry
