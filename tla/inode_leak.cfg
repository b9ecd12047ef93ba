SPECIFICATION Spec
CONSTANTS
  Proc = {p1, p2}
  NoProc = NoProc
  Inum = {1, 2, 3, 4}
  ROOTINO = 1
  Name = {"a", "b"}
  Path <- MCPath
SYMMETRY Symmetry
INVARIANTS FreedAtLast
