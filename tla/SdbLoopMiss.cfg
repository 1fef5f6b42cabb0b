SPECIFICATION Spec
CONSTANTS
  TextSize = 6
  Insns <- TwoByteInsns
  InsnSize <- TwoByteSize
  Succ <- LoopSucc
  Orig <- SixBytes
  Entry = 1
  WordSize = 2
  MaxPid = 1
  Environment = {}
  Commands = {"load", "start", "break", "cont"}
  BreakAddrs = {1}
  RipAddrs = {}
  Programs = {"hello64"}
  MaxBpid = 1
PROPERTY NoMissedBreakpoint
