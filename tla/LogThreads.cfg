SPECIFICATION LaunchSpec
CONSTANTS
  Threads = {t1, t2}
  Calls = {"open", "fopen", "write", "fclose"}
  MaxFd = 6
  MaxOpen = 2
  Versions = {"first", "final"}
  Words = {"ls", "-l", "-o", "--"}
  MaxWords = 2
INVARIANTS NoStray
PROPERTIES CallsLogged LaunchesTold
