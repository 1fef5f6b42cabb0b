SPECIFICATION Spec
CONSTANTS
  TextSize = 6
  Insns <- TwoByteInsns
  InsnSize <- TwoByteSize
  Succ <- ForwardSucc
  Orig <- SixBytes
  Entry = 1
  WordSize = 2
  MaxPid = 2
  Environment = {}
  Commands = {"load", "start", "break", "cont"}
  BreakAddrs = {1}
  RipAddrs = {}
  Programs = {"hello64"}
  MaxBpid = 2
INVARIANT CommandsMove
