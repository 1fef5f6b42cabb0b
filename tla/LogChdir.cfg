SPECIFICATION LaunchSpec
CONSTANTS
  Threads = {t1}
  Calls = {"open", "chdir"}
  MaxFd = 6
  MaxOpen = 1
  Versions = {"final"}
  Words = {"ls"}
  MaxWords = 1
INVARIANT LogInPlace
