SPECIFICATION FairSpec
CONSTANTS
  Proc = {p1, p2}
  Block = {b1, b2}
  Val = {v0, v1}
  MAXOPBLOCKS = 1
  LOGSIZE = 3
  NLOG = 3
  OpBlocks = 1
INVARIANTS TypeOK CommitAlone PanicsOnLastSlot DoneIsDurable SleeperHasWaker
PROPERTIES IsAtomicDisk CommittedLogFrozen SleeperWoken
