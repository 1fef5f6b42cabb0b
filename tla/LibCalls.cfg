SPECIFICATION Spec
CONSTANTS
  Signals <- OneSignal
  SIGALRM = 14
  MaxDepth = 3
  Errors = {9, 36}
  Calls = {"signal", "alarm", "sleep", "syscall", "badarg", "perror", "sigprocmask", "sigaction", "sigaction_query", "pause", "setjmp", "longjmp"}
INVARIANTS TypeOK MaskOwned
