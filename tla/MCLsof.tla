------------------------------- MODULE MCLsof -------------------------------
(***************************************************************************)
(* An instance of Lsof for TLC: an ordinary user or root, a process with   *)
(* descriptors and mappings, and a kernel thread, which is root's.         *)
(***************************************************************************)
EXTENDS Lsof

AllFiles ==
  {[name |-> "data", mode |-> "r", type |-> "REG", deleted |-> FALSE],
   [name |-> "pipe", mode |-> "u", type |-> "FIFO", deleted |-> TRUE]}

\* A program, the heap, a library with the program's inode number on another device, one
\* that was deleted, and one with a blank in its name
Mapped(inode, name, spaced, deleted) ==
  [inode |-> inode, name |-> name, spaced |-> spaced, deleted |-> deleted]

AllMaps ==
  [p \in Pids |->
     IF p # 1 THEN <<>>
     ELSE <<Mapped(1, "program", FALSE, FALSE), Mapped(0, "heap", FALSE, FALSE),
            Mapped(1, "alien", FALSE, FALSE), Mapped(2, "old", FALSE, TRUE),
            Mapped(3, "a b", TRUE, FALSE)>>]

\* An ordinary user, who may find that the system is short of files, and root
UserOrRoot ==
  {[mine |-> {1}, scarce |-> FALSE], [mine |-> {1}, scarce |-> TRUE],
   [mine |-> Pids, scarce |-> FALSE]}

NoOption == [c |-> Pids, t |-> Types \union {""}, f |-> Kinds, unknown |-> FALSE, regex |-> FALSE]

\* No option; -t REG with an -f that matches paths outside of /proc alone; -t of something
\* that is no type; an option lsof does not have
CommandLines ==
  {NoOption, [NoOption EXCEPT !.t = {"REG"}, !.f = Kinds \ {"proc"}, !.regex = TRUE],
   [NoOption EXCEPT !.t = {}], [NoOption EXCEPT !.unknown = TRUE]}
=============================================================================
