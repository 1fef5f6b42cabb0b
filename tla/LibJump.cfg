SPECIFICATION SampleSpec
CONSTANTS
  Signals <- TwoSignals
  SIGALRM = 14
  MaxDepth = 3
  Errors = {9}
  Calls = {"signal", "sigprocmask", "alarm", "pause", "sleep", "setjmp", "longjmp"}
  Programs = {"any", "alarm1", "alarm2", "alarm3", "jmp1", "jmp2"}
  Jumps = 4
INVARIANTS NoReentry Sheltered JumpBlocked AlarmKept
PROPERTY SamplesEnd
