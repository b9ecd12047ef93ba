SPECIFICATION NoSleepLocks
CONSTANTS
  NPROC = 3
  CPU = {c1, c2}
  NoCPU = NoCPU
  MaxPid = 3
PROPERTIES InitReaps
