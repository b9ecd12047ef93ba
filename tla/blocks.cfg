SPECIFICATION BlocksSpec
CONSTANTS
  Proc = {p1, p2}
  MAXPAGE = 2
  Untracked = {0}
  NGROUP = 2
  PG_BUF_SIZE = 2
  OUTS = 3
  f1 = f1
  f2 = f2
  File = {f1, f2}
  NDIRECT = 2
  NSINGLE = 2
  NINDIRECT = 3
  NBLOCK = 15
  BPB = 8
  LIMIT <- MCLimit
  BSIZE = 2
  MAXOPBLOCKS = 10
  TRUNCS = 1
  MADE = 10
  LENGTHS = {2, 6, 12}
SYMMETRY Symmetry
\* The files of MP4 reach their bounds.
CHECK_DEADLOCK FALSE
INVARIANTS GroupsKept ContentsKept BlocksExact NthBlock OpBounded
 
