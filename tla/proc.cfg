SPECIFICATION Spec
CONSTANTS
  NPROC = 3
  CPU = {c1, c2}
  NoCPU = NoCPU
  MaxPid = 3
SYMMETRY Symmetry
INVARIANTS ProcTypeOK OneStack SchedHoldsOne NoLostChild SleepLockSafe
