SPECIFICATION LaunchSpec
CONSTANTS
  Threads = {t1}
  Calls = {"chmod", "open", "fopen", "read", "close", "stray_close", "chdir"}
  MaxFd = 6
  MaxOpen = 2
  Versions = {"final"}
  Words = {"ls", "-o"}
  MaxWords = 1
INVARIANTS TypeOK LogOpen Apart
