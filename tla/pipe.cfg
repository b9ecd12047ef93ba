SPECIFICATION Spec
CONSTANTS
  Proc = {p1, p2, p3}
  NoProc = NoProc
  Val = {a, b}
  PIPESIZE = 2
  UINT = 4
  MaxLen = 2
SYMMETRY Symmetry
INVARIANTS PipeTypeOK EndsCounted WriterSleepsOnFull
PROPERTIES IsChannel ReaderWoken
