SPECIFICATION Spec
CONSTANTS
  f1 = f1
  f2 = f2
  File = {f1, f2}
  NDIRECT = 2
  NSINGLE = 2
  NINDIRECT = 3
  NBLOCK = 15
  BPB = 1
  LIMIT <- MCLimit
  BSIZE = 2
  MAXOPBLOCKS = 10
  TRUNCS = 1
  MADE = 10
  LENGTHS = {2, 6, 12}
CHECK_DEADLOCK FALSE
INVARIANTS OpFits
