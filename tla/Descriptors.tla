---------------------------- MODULE Descriptors ----------------------------
(***************************************************************************)
(* The descriptor table of a process, as far as logger.cpp of 0616078_hw2  *)
(* depends on it.  It is the kernel's, not code of the repository.         *)
(***************************************************************************)
EXTENDS Integers

CONSTANT
  MaxFd    \* how many descriptors a process may have, RLIMIT_NOFILE

ASSUME TableAssumption == MaxFd \in Nat /\ MaxFd > 2

VARIABLES
  table,   \* the file every descriptor refers to
  cwd      \* the directory the process is in

Fd == 0..(MaxFd - 1)

\* in, out, err, other: what the process was started with; mine: what the program
\* opens; log: the file named by OUTPUT_FILE where the logger was started;
\* elsewhere: the file of that name in another directory
File == {"in", "out", "err", "other", "mine", "log", "elsewhere"}

TableOK ==
  /\ table \in [Fd -> File \union {"closed"}]
  /\ cwd \in {"start", "away"}

\* Started with 0, 1 and 2 open, and perhaps with more.
TableInit ==
  /\ cwd = "start"
  /\ \E inherited \in SUBSET (Fd \ {0, 1, 2}) :
       table = [fd \in Fd |-> CASE fd = 0 -> "in"
                                [] fd = 1 -> "out"
                                [] fd = 2 -> "err"
                                [] OTHER -> IF fd \in inherited THEN "other" ELSE "closed"]

\* What dup returns: the lowest descriptor that is closed, -1 without one.
Allotted ==
  IF \A fd \in Fd : table[fd] # "closed"
  THEN {-1}
  ELSE {fd \in Fd : table[fd] = "closed" /\ \A g \in Fd : g < fd => table[g] # "closed"}

\* What open returns: there may be no such file, or no permission.
OpenResults == Allotted \union {-1}

\* The table once descriptor n refers to file f.
Opened(n, f) == IF n = -1 THEN table ELSE [table EXCEPT ![n] = f]
=============================================================================
