SPECIFICATION Spec
CONSTANTS
  TextSize = 6
  Insns <- TwoByteInsns
  InsnSize <- TwoByteSize
  Succ <- LoopSucc
  Orig <- SixBytes
  Entry = 1
  WordSize = 2
  MaxPid = 2
  Environment = {"signal", "sigkill", "exec_fail"}
  Commands = {"load", "start", "run", "break", "delete", "disasm", "cont", "si"}
  BreakAddrs = {0, 1, 3}
  RipAddrs = {}
  Programs = {"hello64"}
  MaxBpid = 2
INVARIANTS TextAccounted OriTrue RipRewound
