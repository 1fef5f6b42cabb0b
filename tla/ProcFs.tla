------------------------------- MODULE ProcFs -------------------------------
(***************************************************************************)
(* /proc as the lsof of 0616078_hw1 sees it: processes that start, open and*)
(* close files, exit and are waited for.  None of it is code of the        *)
(* repository: it is read off the system calls in hw1.cpp.                 *)
(***************************************************************************)
EXTENDS Integers, Sequences, FiniteSets

CONSTANTS
  Pids,   \* processes, each of which lives once
  FileNames,
  Fds,    \* descriptors of a process
  Files,  \* what a descriptor refers to: [name, mode, type, deleted]
  Maps,   \* the maps file of a process: [inode, name, spaced, deleted], spaced being
          \* whether there is a blank in the name
  NoExe,  \* processes that execute no file: kernel threads
  Blank,  \* processes with a comm of blanks only
  Hosts   \* the systems lsof may run on [mine, scarce]: the processes whose files its user
          \* may look at, and whether there may be no file left to open

Modes == {"r", "w", "u"}
Types == {"REG", "DIR", "CHR", "FIFO", "SOCK", "unknown"}
NoFile == [name |-> "none", mode |-> "none", type |-> "none", deleted |-> FALSE]

File == [name : FileNames, mode : Modes, type : Types, deleted : BOOLEAN]
Mapping == [inode : Nat, name : FileNames, spaced : BOOLEAN, deleted : BOOLEAN]

ASSUME ProcAssumption ==
  /\ Pids \subseteq Nat \ {0}
  /\ Fds \subseteq Nat
  /\ Files \subseteq File
  /\ Maps \in [Pids -> Seq(Mapping)]
  /\ Hosts \subseteq [mine : SUBSET Pids, scarce : BOOLEAN]

VARIABLES
  status,  \* of every process
  open,    \* what every descriptor of every process refers to
  mine,    \* the processes whose files the user of lsof may look at
  scarce,  \* whether opening a file may fail for want of one, again and again
  firm,    \* history: the processes that have been alive since lsof began
  kept     \* history: the descriptors open on the same file since lsof began

procVars == <<status, open, mine, scarce, firm, kept>>

Unused == [f \in Fds |-> NoFile]

ProcOK ==
  /\ status \in [Pids -> {"unborn", "alive", "zombie", "gone"}]
  /\ open \in [Pids -> [Fds -> Files \union {NoFile}]]
  /\ [mine |-> mine, scarce |-> scarce] \in Hosts
  /\ firm \subseteq Pids
  /\ kept \subseteq Pids \X Fds

ProcInit ==
  /\ status \in [Pids -> {"unborn", "alive"}]
  /\ open \in [Pids -> [Fds -> Files \union {NoFile}]]
  /\ \A p \in Pids : status[p] = "unborn" \/ p \in NoExe => open[p] = Unused
  /\ \E h \in Hosts : mine = h.mine /\ scarce = h.scarce
  /\ firm = {p \in Pids : status[p] = "alive"}
  /\ kept = {d \in Pids \X Fds : open[d[1]][d[2]] # NoFile}

-----------------------------------------------------------------------------
(* What system calls find.                                                 *)

Exists(p) == status[p] \in {"alive", "zombie"}

\* A zombie's links lead nowhere, nor does that to the executable of a kernel thread.
LinkErrno(p, l) ==
  IF ~Exists(p) THEN "ENOENT"
  ELSE IF p \notin mine THEN "EACCES"
  ELSE IF status[p] = "zombie" \/ (l = "exe" /\ p \in NoExe) THEN "ENOENT"
  ELSE "none"

LinkType(l) == IF l = "exe" THEN "REG" ELSE "DIR"

IsOpen(p, f) == status[p] = "alive" /\ open[p][f] # NoFile

-----------------------------------------------------------------------------
(* What processes do meanwhile.                                            *)

Start(p) ==
  /\ status[p] = "unborn"
  /\ status' = [status EXCEPT ![p] = "alive"]
  /\ UNCHANGED <<open, mine, scarce, firm, kept>>

Exit(p) ==
  /\ status[p] = "alive"
  /\ status' = [status EXCEPT ![p] = "zombie"]
  /\ open' = [open EXCEPT ![p] = Unused]
  /\ firm' = firm \ {p}
  /\ kept' = {d \in kept : d[1] # p}
  /\ UNCHANGED <<mine, scarce>>

Reap(p) ==
  /\ status[p] = "zombie"
  /\ status' = [status EXCEPT ![p] = "gone"]
  /\ UNCHANGED <<open, mine, scarce, firm, kept>>

Open(p, f, x) ==
  /\ status[p] = "alive" /\ p \notin NoExe /\ open[p][f] = NoFile
  /\ open' = [open EXCEPT ![p][f] = x]
  /\ UNCHANGED <<status, mine, scarce, firm, kept>>

Close(p, f) ==
  /\ IsOpen(p, f)
  /\ open' = [open EXCEPT ![p][f] = NoFile]
  /\ kept' = kept \ {<<p, f>>}
  /\ UNCHANGED <<status, mine, scarce, firm>>

ProcNext ==
  \E p \in Pids :
    \/ Start(p) \/ Exit(p) \/ Reap(p)
    \/ \E f \in Fds : Close(p, f) \/ \E x \in Files : Open(p, f, x)
=============================================================================
