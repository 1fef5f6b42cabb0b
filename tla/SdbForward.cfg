SPECIFICATION FairSpec
CONSTANTS
  TextSize = 6
  Insns <- TwoByteInsns
  InsnSize <- TwoByteSize
  Succ <- ForwardSucc
  Orig <- SixBytes
  Entry = 1
  WordSize = 2
  MaxPid = 1
  Environment = {"signal"}
  Commands = {"load", "run", "start", "break", "delete", "cont", "si"}
  BreakAddrs = {1, 3, 5}
  RipAddrs = {}
  Programs = {"hello64"}
  MaxBpid = 3
INVARIANTS RunningMeansAlive StopsReported
PROPERTIES NoMissedBreakpoint SiAdvances CommandReturns
