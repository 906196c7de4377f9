CONSTANTS
  Proc = {p1, p2}
  Reader = {r1}
  Data = {d1, d2}
  Inode = {i1, i2, i3, i4}
  Blocks = 2
  Nil = Nil
  Torn = Torn
  Exclusive = FALSE
  Crashes = FALSE
SPECIFICATION Spec
INVARIANT TargetWhole
