SPECIFICATION SpecSymlinks
CONSTANTS
  Proc = {p1, p2}
  NoProc = NoProc
  Inum = {1, 2, 3, 4, 5}
  ROOTINO = 1
  Name = {"a", "b", "c"}
  Path <- MCPath
  Target <- MCTarget
  Junk <- MCJunk
  MAXDEPTH = 2
  NFILE = 2
  CALLS = 3
CHECK_DEADLOCK FALSE
SYMMETRY Symmetry
INVARIANTS OnlyTheseAreLeft OnlyRevreadlinkDeadlocks
