SPECIFICATION FairSpec
CONSTANTS
  NTHREAD = 3
  Policy = {"default", "wrr", "sjf", "lst", "dm"}
  RealTime <- MCRealTime
  Plain <- MCPlain
  TIME_QUANTUM = 1
  MAX_THRD_NUM = 3
INVARIANTS OnceEach NoDrift NoOverrun
PROPERTIES MissesReported Ends
\* The process ends.
CHECK_DEADLOCK FALSE
