SPECIFICATION ViewSpec
CONSTANTS
  TextSize = 8
  Insns <- BranchInsns
  InsnSize <- BranchSize
  Succ <- BranchSucc
  Orig <- EightBytes
  Entry = 1
  WordSize = 2
  MaxPid = 1
  Environment = {}
  Commands = {"load", "start", "run", "break", "delete", "cont", "si", "dump"}
  BreakAddrs = {1, 3, 5}
  RipAddrs = {}
  Programs = {"hello64", "stripped"}
  MaxBpid = 3
  Sectioned = {"hello64"}
  DumpAddrs = {1, 4}
  LineSize = 2
  Lines = 2
INVARIANTS SameProgram DumpCovers DumpStops
PROPERTY DebugsAsPromised
