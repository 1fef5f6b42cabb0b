------------------------------- MODULE Logger -------------------------------
(***************************************************************************)
(* logger.so of 0616078_hw2: wrappers of the file calls of a program, each *)
(* of which writes a line to the log.  The log has a descriptor in the very*)
(* table the program changes, and the program's threads share it.          *)
(***************************************************************************)
EXTENDS Descriptors, FiniteSets

CONSTANTS
  Threads,  \* the threads of the program
  Calls,    \* the calls the program makes
  MaxOpen   \* bound: how many descriptors a thread has open at a time

VARIABLES
  OUTPUT_FILE, fd_flag, stderr_fd,
  own,      \* the descriptors every thread opened and has not closed
  th        \* the threads: where they are, the call they make with its descriptor,
            \* the descriptor they write a line to, and how often they still write

vars == <<table, cwd, OUTPUT_FILE, fd_flag, stderr_fd, own, th>>

PathCalls == {"chmod", "chown", "remove", "rename"}
DescriptorCalls == {"open", "open64", "creat", "creat64"}
StreamCalls == {"fopen", "fopen64", "tmpfile", "tmpfile64"}
CloseCalls == {"close", "fclose"}
TransferCalls == {"read", "write", "fread", "fwrite"}

Wrapped == PathCalls \union DescriptorCalls \union StreamCalls \union CloseCalls \union TransferCalls
             \union {"none"}

Label == {"user", "init", "flag", "begin", "act", "line", "load", "write"}

\* A line takes three writes at most, four in FirstLogger.
Thread == [pc : Label, call : Wrapped, fd : Fd \union {-1}, dest : Fd \union {-1}, parts : 0..4]

TypeOK ==
  /\ TableOK
  /\ OUTPUT_FILE \in {"STDERR", "file"}
  /\ fd_flag \in BOOLEAN
  /\ stderr_fd \in Fd \union {-1}
  /\ own \in [Threads -> SUBSET Fd]
  /\ th \in [Threads -> Thread]

\* hw2 has set OUTPUT_FILE, and logger.so is loaded.
Init ==
  /\ TableInit
  /\ OUTPUT_FILE \in {"STDERR", "file"}
  /\ fd_flag = FALSE
  /\ stderr_fd = 2
  /\ own = [t \in Threads |-> {}]
  /\ th = [t \in Threads |->
             [pc |-> "user", call |-> "none", fd |-> -1, dest |-> -1, parts |-> 0]]

-----------------------------------------------------------------------------
(* A call of thread t.                                                     *)

At(t, l) == th[t].pc = l
Goes(t, l) == th' = [th EXCEPT ![t].pc = l]

\* Whether the program has a descriptor to call c with: a thread uses its own and
\* the standard ones, and closes its own.  A program that makes the call stray_close
\* closes whatever it likes, the log's descriptor as well.
Argument(t, c, fd) ==
  \/ c \in TransferCalls /\ fd \in own[t] \union (0..2)
  \/ c \in CloseCalls /\ fd \in (IF "stray_close" \in Calls THEN Fd ELSE own[t])
  \/ c \in PathCalls /\ fd = -1
  \/ c \in DescriptorCalls \union StreamCalls /\ fd = -1 /\ Cardinality(own[t]) < MaxOpen

Enter(t, c, fd) ==
  /\ At(t, "user")
  /\ Argument(t, c, fd)
  /\ th' = [th EXCEPT ![t].pc = IF fd_flag THEN "begin" ELSE "init",
                      ![t].call = c, ![t].fd = fd]
  /\ UNCHANGED <<table, cwd, OUTPUT_FILE, fd_flag, stderr_fd, own>>

\* What OUTPUT_FILE, a relative name, stands for
LogFile == IF cwd = "start" THEN "log" ELSE "elsewhere"

\* Mutant: another thread's log is closed, to leave none behind.
InitReplaces(t) ==
  /\ At(t, "init")
  /\ OUTPUT_FILE = "file"
  /\ \E n \in OpenResults \ {-1} :
       /\ table' = [Opened(n, LogFile) EXCEPT ![stderr_fd] = IF @ = "err" THEN @ ELSE "closed"]
       /\ stderr_fd' = n
  /\ Goes(t, "flag")
  /\ UNCHANGED <<cwd, OUTPUT_FILE, fd_flag, own>>

\* init_fd: the log is opened, or stderr_fd is -1.
InitOpen(t) ==
  /\ At(t, "init")
  /\ OUTPUT_FILE = "file"
  /\ \E n \in OpenResults : table' = Opened(n, LogFile) /\ stderr_fd' = n
  /\ Goes(t, "flag")
  /\ UNCHANGED <<cwd, OUTPUT_FILE, fd_flag, own>>

\* unless it is stderr
InitStderr(t) ==
  /\ At(t, "init")
  /\ OUTPUT_FILE = "STDERR"
  /\ Goes(t, "flag")
  /\ UNCHANGED <<table, cwd, OUTPUT_FILE, fd_flag, stderr_fd, own>>

InitFlag(t) ==
  /\ At(t, "flag")
  /\ fd_flag' = TRUE
  /\ Goes(t, "begin")
  /\ UNCHANGED <<table, cwd, OUTPUT_FILE, stderr_fd, own>>

\* Mutant: close does not care.
NoGuard(t) ==
  /\ At(t, "begin")
  /\ Goes(t, "act")
  /\ UNCHANGED <<table, cwd, OUTPUT_FILE, fd_flag, stderr_fd, own>>

\* Mutant: the duplicate is not remembered.
GuardForgets(t) ==
  /\ At(t, "begin")
  /\ IF th[t].call \in CloseCalls /\ th[t].fd = stderr_fd
     THEN \E n \in Allotted : table' = Opened(n, table[stderr_fd])
     ELSE UNCHANGED table
  /\ Goes(t, "act")
  /\ UNCHANGED <<cwd, OUTPUT_FILE, fd_flag, stderr_fd, own>>

\* close and fclose: if(fd == stderr_fd) stderr_fd = dup(stderr_fd)
Guard(t) ==
  /\ At(t, "begin")
  /\ IF th[t].call \in CloseCalls /\ th[t].fd = stderr_fd
     THEN \E n \in (IF table[stderr_fd] = "closed" THEN {-1} ELSE Allotted) :
            table' = Opened(n, table[stderr_fd]) /\ stderr_fd' = n
     ELSE UNCHANGED <<table, stderr_fd>>
  /\ Goes(t, "act")
  /\ UNCHANGED <<cwd, OUTPUT_FILE, fd_flag, own>>

\* The call itself: what it opens, if it does, is the calling thread's
ActOpens(t) ==
  /\ At(t, "act")
  /\ th[t].call \in DescriptorCalls \union StreamCalls
  /\ \E n \in OpenResults :
       /\ table' = Opened(n, "mine")
       /\ own' = [own EXCEPT ![t] = @ \union ({n} \ {-1})]
  /\ Goes(t, "line")
  /\ UNCHANGED <<cwd, OUTPUT_FILE, fd_flag, stderr_fd>>

\* until a thread closes it.
ActCloses(t) ==
  /\ At(t, "act")
  /\ th[t].call \in CloseCalls
  /\ table' = [table EXCEPT ![th[t].fd] = "closed"]
  /\ own' = [u \in Threads |-> own[u] \ {th[t].fd}]
  /\ Goes(t, "line")
  /\ UNCHANGED <<cwd, OUTPUT_FILE, fd_flag, stderr_fd>>

\* Other calls leave the table as it is.
ActElse(t) ==
  /\ At(t, "act")
  /\ th[t].call \in PathCalls \union TransferCalls
  /\ Goes(t, "line")
  /\ UNCHANGED <<table, cwd, OUTPUT_FILE, fd_flag, stderr_fd, own>>

\* Mutant: one part less
LineShort(t) ==
  /\ At(t, "line")
  /\ th' = [th EXCEPT ![t].pc = "load",
                      ![t].parts = IF th[t].call \in StreamCalls THEN 2 ELSE 0]
  /\ UNCHANGED <<table, cwd, OUTPUT_FILE, fd_flag, stderr_fd, own>>

\* The line is written at once, or in three parts when there is a pointer in it.
Line(t) ==
  /\ At(t, "line")
  /\ th' = [th EXCEPT ![t].pc = "load",
                      ![t].parts = IF th[t].call \in StreamCalls THEN 3 ELSE 1]
  /\ UNCHANGED <<table, cwd, OUTPUT_FILE, fd_flag, stderr_fd, own>>

\* print, print_ptr: stderr_fd is read, and then written to.
PrintLoad(t) ==
  /\ At(t, "load")
  /\ th' = [th EXCEPT ![t].pc = "write", ![t].dest = stderr_fd]
  /\ UNCHANGED <<table, cwd, OUTPUT_FILE, fd_flag, stderr_fd, own>>

PrintWrite(t) ==
  /\ At(t, "write")
  /\ th' = [th EXCEPT ![t].pc = IF th[t].parts = 1 THEN "user" ELSE "load",
                      ![t].parts = @ - 1, ![t].dest = -1]
  /\ UNCHANGED <<table, cwd, OUTPUT_FILE, fd_flag, stderr_fd, own>>

-----------------------------------------------------------------------------

\* chdir is not wrapped.
Chdir(t, dir) ==
  /\ At(t, "user")
  /\ "chdir" \in Calls
  /\ cwd' = dir
  /\ UNCHANGED <<table, OUTPUT_FILE, fd_flag, stderr_fd, own, th>>

Next ==
  \E t \in Threads :
    \/ \E c \in Calls, fd \in Fd \union {-1} : Enter(t, c, fd)
    \/ InitOpen(t)
    \/ InitStderr(t)
    \/ InitFlag(t)
    \/ Guard(t)
    \/ ActOpens(t)
    \/ ActCloses(t)
    \/ ActElse(t)
    \/ Line(t)
    \/ PrintLoad(t)
    \/ PrintWrite(t)
    \/ \E dir \in {"start", "away"} : Chdir(t, dir)

Spec == Init /\ [][Next]_vars

-----------------------------------------------------------------------------
(* Properties.                                                             *)

\* What a line may be written to
Logs == IF OUTPUT_FILE = "STDERR" THEN {"err"} ELSE {"log", "elsewhere"}

\* The log stays open whatever the program closes, unless it could not be opened or
\* there was no descriptor left for it (logger.cpp:42, 138-141, 222-225).
LogOpen == fd_flag /\ stderr_fd # -1 => table[stderr_fd] \in Logs

\* No line gets into a file of the program, also not if a thread opens or closes one
\* while another has read stderr_fd and not written yet (logger.cpp:55, 75).
NoStray == \A t \in Threads : At(t, "write") /\ th[t].dest # -1 => table[th[t].dest] \in Logs

\* The log's descriptor is none that the program opened, however often it moved: the
\* program's own calls never write into the log (logger.cpp:140, 224).
Apart == \A t \in Threads : stderr_fd \notin own[t]

\* The log is the file that was named on the command line (hw2.cpp:19, 77).
LogInPlace ==
  fd_flag /\ stderr_fd # -1 /\ OUTPUT_FILE = "file" => table[stderr_fd] = "log"

-----------------------------------------------------------------------------
(* The logger implements a call log.                                       *)

Phase(t) ==
  CASE th[t].pc \in {"init", "flag", "begin", "act"} -> "called"
    [] th[t].pc = "line"  -> "acted"
    [] th[t].pc = "load"  -> "due"
    [] th[t].pc = "write" -> "writing"
    [] OTHER              -> "idle"

\* Where the piece in hand goes when the log is one of files
Sink(t, files) ==
  IF ~At(t, "write") THEN "none"
  ELSE IF th[t].dest = -1 THEN "nowhere"
  ELSE IF table[th[t].dest] \in files THEN "log"
  ELSE "astray"

Promise == INSTANCE CallLog WITH
  Descriptors <- Fd, MaxPieces <- 4,
  phase <- [t \in Threads |-> Phase(t)],
  left  <- [t \in Threads |-> th[t].parts],
  sink  <- [t \in Threads |-> Sink(t, Logs)],
  held  <- own

\* Whatever the threads do at the same time, closing and opening descriptors while a
\* line is on its way, init_fd racing with itself: a call takes effect once, its line
\* goes to the log and nowhere else, and a thread's descriptors are its own
\* (logger.cpp:37-78, and every wrapper).
CallsLogged == Promise!Spec
=============================================================================
