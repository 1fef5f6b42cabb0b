---------------------------- MODULE FirstLogger ----------------------------
(***************************************************************************)
(* The logger.so of 0616078_hw2 before its last revision                   *)
(* (0616078_hw2/logger.cpp): it has no state of its own.  Every line goes  *)
(* to descriptor 2, which its launcher has made the log, in one piece more *)
(* than in module Logger: "[logger] " is written first.  A thread is at    *)
(* the same labels, and the call itself is the same.                       *)
(***************************************************************************)
EXTENDS Logger

\* No init_fd, and close looks at no descriptor.
FirstEnter(t, c, fd) ==
  /\ At(t, "user")
  /\ Argument(t, c, fd)
  /\ th' = [th EXCEPT ![t].pc = "act", ![t].call = c, ![t].fd = fd]
  /\ UNCHANGED <<table, cwd, OUTPUT_FILE, fd_flag, stderr_fd, own>>

FirstLine(t) ==
  /\ At(t, "line")
  /\ th' = [th EXCEPT ![t].pc = "load",
                      ![t].parts = IF th[t].call \in StreamCalls THEN 4 ELSE 2]
  /\ UNCHANGED <<table, cwd, OUTPUT_FILE, fd_flag, stderr_fd, own>>

\* Mutant: write has a descriptor of its own, and print writes there.
FirstLoadArgument(t) ==
  /\ At(t, "load")
  /\ th' = [th EXCEPT ![t].pc = "write",
                      ![t].dest = IF th[t].call = "write" THEN th[t].fd ELSE 2]
  /\ UNCHANGED <<table, cwd, OUTPUT_FILE, fd_flag, stderr_fd, own>>

\* print_logger, print, print_ptr: whatever descriptor 2 is
FirstLoad(t) ==
  /\ At(t, "load")
  /\ th' = [th EXCEPT ![t].pc = "write", ![t].dest = 2]
  /\ UNCHANGED <<table, cwd, OUTPUT_FILE, fd_flag, stderr_fd, own>>

FirstStep(t) ==
  \/ \E c \in Calls, fd \in Fd \union {-1} : FirstEnter(t, c, fd)
  \/ ActOpens(t)
  \/ ActCloses(t)
  \/ ActElse(t)
  \/ FirstLine(t)
  \/ FirstLoad(t)
  \/ PrintWrite(t)
=============================================================================
