SPECIFICATION Spec
CONSTANTS
  TextSize = 6
  Insns <- TwoByteInsns
  InsnSize <- TwoByteSize
  Succ <- LoopSucc
  Orig <- SixBytes
  Entry = 1
  WordSize = 2
  MaxPid = 2
  Environment = {"sigkill", "exec_fail"}
  Commands = {"load", "start", "run", "interrupt", "badarg", "getregs", "break", "delete", "set", "disasm", "cont", "si"}
  BreakAddrs = {1, 3}
  RipAddrs = {0, 2, 3}
  Programs = {"hello64", "stripped"}
  MaxBpid = 2
INVARIANTS TypeOK Armed QuietAtPrompt
PROPERTY NothingOutlives
