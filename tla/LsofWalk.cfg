SPECIFICATION FairSpec
CONSTANTS
  Pids = {1, 2}
  FileNames = {"data", "pipe", "program", "heap", "alien", "old", "a b"}
  Fds = {3}
  Files <- AllFiles
  Maps <- AllMaps
  NoExe = {2}
  Blank = {}
  Hosts <- UserOrRoot
  Requests <- CommandLines
INVARIANTS TypeOK Complete OwnLines CrashCause
PROPERTY Ends
