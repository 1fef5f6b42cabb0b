---------------------------- MODULE LoggerProofs ----------------------------
(***************************************************************************)
(* Theorems about logger.so, for every number of threads and descriptors   *)
(* and every set of calls: types, and where the log's descriptor is.       *)
(***************************************************************************)
EXTENDS Launcher, SequenceTheorems, FiniteSetTheorems, TLAPS

\* A thread writes only while it has parts left to write, and closes a descriptor.
ThreadInv ==
  \A t \in Threads : /\ th[t].pc \in {"load", "write"} => th[t].parts \in 1..4
                     /\ th[t].call \in CloseCalls => th[t].fd \in Fd

LEMMA AllottedResults == Allotted \subseteq OpenResults
  BY DEF OpenResults

LEMMA ResultClosed ==
  ASSUME TableOK, NEW n \in OpenResults
  PROVE  n = -1 \/ (n \in Fd /\ table[n] = "closed")
  BY DEF OpenResults, Allotted

LEMMA OpenedTable ==
  ASSUME TableOK, NEW n \in OpenResults, NEW f \in File \union {"closed"}
  PROVE  /\ Opened(n, f) \in [Fd -> File \union {"closed"}]
         /\ \A fd \in Fd : fd # n => Opened(n, f)[fd] = table[fd]
         /\ n # -1 => n \in Fd /\ Opened(n, f)[n] = f
<1>1. CASE n = -1
  BY <1>1 DEF Opened, TableOK, Fd
<1>2. CASE n # -1
  BY <1>2, ResultClosed DEF Opened, TableOK
<1>3. QED
  BY <1>1, <1>2

LEMMA LogFileType == LogFile \in File
  BY DEF LogFile, File

LEMMA Minus == -1 \notin Fd
  BY DEF Fd

-----------------------------------------------------------------------------
(* Types.                                                                  *)

LEMMA InitType == Init => TypeOK /\ ThreadInv
<1> SUFFICES ASSUME Init PROVE TypeOK /\ ThreadInv
  OBVIOUS
<1>1. table \in [Fd -> File \union {"closed"}]
  BY DEF Init, TableInit, File
<1>2. cwd = "start" /\ OUTPUT_FILE \in {"STDERR", "file"} /\ fd_flag = FALSE
  BY DEF Init, TableInit
<1>3. stderr_fd \in Fd
  BY TableAssumption DEF Init, Fd, TableOK
<1>4. own \in [Threads -> SUBSET Fd]
  BY DEF Init
<1> DEFINE r == [pc |-> "user", call |-> "none", fd |-> -1, dest |-> -1, parts |-> 0]
<1>5. r \in Thread /\ r.pc = "user" /\ r.call \notin CloseCalls
  BY DEF Thread, Label, Wrapped, CloseCalls
<1>6. th = [t \in Threads |-> r]
  BY DEF Init
<1> HIDE DEF r
<1>7. th \in [Threads -> Thread] /\ ThreadInv
  BY <1>5, <1>6 DEF ThreadInv
<1>8. QED
  BY <1>1, <1>2, <1>3, <1>4, <1>7 DEF TypeOK, TableOK

\* The actions of thread t
Step(t) ==
  \/ \E c \in Calls, fd \in Fd \union {-1} : Enter(t, c, fd)
  \/ InitOpen(t) \/ InitStderr(t) \/ InitFlag(t)
  \/ Guard(t)
  \/ ActOpens(t) \/ ActCloses(t) \/ ActElse(t)
  \/ Line(t) \/ PrintLoad(t) \/ PrintWrite(t)
  \/ \E dir \in {"start", "away"} : Chdir(t, dir)

LEMMA NextStep == Next <=> \E t \in Threads : Step(t)
  BY DEF Next, Step

\* Going on to another label
LEMMA GoesType ==
  ASSUME TypeOK, ThreadInv, NEW t \in Threads, NEW l \in Label \ {"load", "write"}, Goes(t, l)
  PROVE  /\ th' \in [Threads -> Thread] /\ ThreadInv'
         /\ \A u \in Threads : u # t => th'[u] = th[u]
         /\ th'[t].pc = l /\ th'[t].call = th[t].call /\ th'[t].fd = th[t].fd
  BY DEF TypeOK, Thread, Goes, ThreadInv

LEMMA ThreadType ==
  ASSUME TypeOK, ThreadInv, NEW t \in Threads, Step(t)
  PROVE  /\ th' \in [Threads -> Thread] /\ ThreadInv'
         /\ \A u \in Threads : u # t => th'[u] = th[u]
<1>1. th \in [Threads -> Thread] /\ th[t] \in Thread
  BY DEF TypeOK
<1>2. ASSUME NEW c \in Calls, NEW fd \in Fd \union {-1}, Enter(t, c, fd)
      PROVE  /\ th' \in [Threads -> Thread] /\ ThreadInv'
             /\ \A u \in Threads : u # t => th'[u] = th[u]
  <2>1. c \in Wrapped /\ (c \in CloseCalls => fd \in Fd)
    <3>1. own[t] \subseteq Fd
      BY DEF TypeOK
    <3>2. Argument(t, c, fd)
      BY <1>2 DEF Enter
    <3>3. c \in CloseCalls => c \notin TransferCalls \union PathCalls \union DescriptorCalls \union StreamCalls
      BY DEF TransferCalls, CloseCalls, PathCalls, DescriptorCalls, StreamCalls
    <3>4. QED
      BY <3>1, <3>2, <3>3 DEF Argument, Wrapped
  <2> DEFINE l == IF fd_flag THEN "begin" ELSE "init"
             r == [th[t] EXCEPT !.pc = l, !.call = c, !.fd = fd]
  <2>2. l \in Label \ {"load", "write"}
    BY DEF Label
  <2>3. th' = [th EXCEPT ![t] = r]
    BY <1>2, <1>1 DEF Enter
  <2>4. r \in Thread /\ r.pc = l /\ r.call = c /\ r.fd = fd
    BY <1>1, <2>1, <2>2 DEF Thread
  <2> HIDE DEF l, r
  <2>5. QED
    BY <1>1, <2>1, <2>2, <2>3, <2>4 DEF ThreadInv
<1>3. CASE \E l \in Label \ {"load", "write"} : Goes(t, l)
  BY <1>3, GoesType
<1>4. CASE Line(t)
  <2> DEFINE n == IF th[t].call \in StreamCalls THEN 3 ELSE 1
             r == [th[t] EXCEPT !.pc = "load", !.parts = n]
  <2>1. n \in 1..4 /\ n \in 0..4
    OBVIOUS
  <2>2. th' = [th EXCEPT ![t] = r]
    BY <1>4, <1>1 DEF Line
  <2> HIDE DEF n
  <2>3. r \in Thread /\ r.parts \in 1..4 /\ r.call = th[t].call /\ r.fd = th[t].fd
    BY <1>1, <2>1 DEF Thread, Label
  <2> HIDE DEF r
  <2>4. QED
    BY <1>1, <2>2, <2>3 DEF ThreadInv
<1>5. CASE PrintLoad(t)
  BY <1>1, <1>5 DEF PrintLoad, Thread, Label, ThreadInv, TypeOK, At
<1>6. CASE PrintWrite(t)
  <2> DEFINE l == IF th[t].parts = 1 THEN "user" ELSE "load"
             r == [th[t] EXCEPT !.pc = l, !.parts = th[t].parts - 1, !.dest = -1]
  <2>1. th[t].parts \in 1..4
    BY <1>6 DEF PrintWrite, ThreadInv, At
  <2>2. /\ r \in Thread /\ (r.pc \in {"load", "write"} => r.parts \in 1..4)
        /\ r.call = th[t].call /\ r.fd = th[t].fd
    <3>1. l \in Label /\ (l = "load" => th[t].parts - 1 \in 1..4) /\ l # "write"
      BY <2>1 DEF Label
    <3>2. th[t].parts - 1 \in 0..4
      BY <2>1
    <3> HIDE DEF l
    <3>3. QED
      BY <1>1, <3>1, <3>2 DEF Thread
  <2>3. th' = [th EXCEPT ![t] = r]
    BY <1>6, <1>1 DEF PrintWrite
  <2> HIDE DEF l, r
  <2>4. QED
    BY <1>1, <2>2, <2>3 DEF ThreadInv
<1>7. CASE UNCHANGED th
  BY <1>1, <1>7 DEF ThreadInv
<1>8. {"flag", "begin", "act", "line"} \subseteq Label \ {"load", "write"}
  BY DEF Label
<1>9. QED
  BY <1>2, <1>3, <1>4, <1>5, <1>6, <1>7, <1>8
  DEF Step, InitOpen, InitStderr, InitFlag, Guard, ActOpens, ActCloses, ActElse, Chdir

LEMMA TypeStep ==
  ASSUME TypeOK, ThreadInv, [Next]_vars
  PROVE  TypeOK' /\ ThreadInv'
<1>1. CASE UNCHANGED vars
  BY <1>1 DEF vars, TypeOK, TableOK, ThreadInv
<1>2. ASSUME NEW t \in Threads, Step(t) PROVE TypeOK' /\ ThreadInv'
  <2>1. th' \in [Threads -> Thread] /\ ThreadInv'
    BY <1>2, ThreadType
  <2>2. TableOK /\ stderr_fd \in Fd \union {-1}
    BY DEF TypeOK
  <2>3. TableOK' /\ stderr_fd' \in Fd \union {-1}
    <3>1. CASE InitOpen(t)
      <4>1. PICK n \in OpenResults : table' = Opened(n, LogFile) /\ stderr_fd' = n
        BY <3>1 DEF InitOpen
      <4>2. n \in Fd \union {-1}
        BY <2>2, ResultClosed
      <4>3. cwd' = cwd
        BY <3>1 DEF InitOpen
      <4>4. QED
        BY <2>2, <4>1, <4>2, <4>3, OpenedTable, LogFileType DEF TableOK
    <3>2. CASE Guard(t)
      <4>1. cwd' = cwd
        BY <3>2 DEF Guard
      <4>2. CASE UNCHANGED <<table, stderr_fd>>
        BY <2>2, <4>1, <4>2 DEF TableOK
      <4>3. CASE /\ th[t].call \in CloseCalls /\ th[t].fd = stderr_fd
                 /\ \E n \in (IF table[stderr_fd] = "closed" THEN {-1} ELSE Allotted) :
                      table' = Opened(n, table[stderr_fd]) /\ stderr_fd' = n
        <5>1. CASE table[stderr_fd] = "closed"
          BY <2>2, <4>1, <4>3, <5>1, Minus DEF TableOK, Opened
        <5>2. CASE table[stderr_fd] # "closed"
          <6>1. PICK n \in Allotted : table' = Opened(n, table[stderr_fd]) /\ stderr_fd' = n
            BY <4>3, <5>2
          <6>2. CASE stderr_fd \in Fd
            <7>1. table[stderr_fd] \in File \union {"closed"}
              BY <2>2, <6>2 DEF TableOK
            <7>2. QED
              BY <2>2, <4>1, <6>1, <7>1, AllottedResults, OpenedTable, ResultClosed DEF TableOK
          <6>3. CASE stderr_fd = -1
            BY <4>3, <6>3, Minus DEF ThreadInv
          <6>4. QED
            BY <2>2, <6>2, <6>3
        <5>3. QED
          BY <5>1, <5>2
      <4>4. QED
        BY <3>2, <4>2, <4>3 DEF Guard
    <3>3. CASE ActOpens(t)
      <4>1. "mine" \in File
        BY DEF File
      <4>2. QED
        BY <2>2, <3>3, <4>1, OpenedTable DEF ActOpens, TableOK
    <3>4. CASE ActCloses(t)
      BY <2>2, <3>4 DEF ActCloses, TableOK
    <3>5. ASSUME NEW dir \in {"start", "away"}, Chdir(t, dir)
          PROVE  TableOK' /\ stderr_fd' \in Fd \union {-1}
      BY <2>2, <3>5 DEF Chdir, TableOK
    <3>6. QED
      BY <1>2, <2>2, <3>1, <3>2, <3>3, <3>4, <3>5
      DEF Step, Enter, InitStderr, InitFlag, ActElse, Line, PrintLoad, PrintWrite, TableOK
  <2>4. own' \in [Threads -> SUBSET Fd]
    <3>1. CASE ActOpens(t)
      <4>1. PICK n \in OpenResults : own' = [own EXCEPT ![t] = @ \union ({n} \ {-1})]
        BY <3>1 DEF ActOpens
      <4>2. {n} \ {-1} \subseteq Fd
        BY <2>2, ResultClosed
      <4>3. QED
        BY <4>1, <4>2 DEF TypeOK
    <3>2. CASE ActCloses(t)
      BY <3>2 DEF ActCloses, TypeOK
    <3>3. QED
      BY <1>2, <3>1, <3>2
      DEF TypeOK, Step, Enter, InitOpen, InitStderr, InitFlag, Guard, ActElse, Line, PrintLoad,
          PrintWrite, Chdir
  <2>5. OUTPUT_FILE' \in {"STDERR", "file"} /\ fd_flag' \in BOOLEAN
    BY <1>2
    DEF TypeOK, Step, Enter, InitOpen, InitStderr, InitFlag, Guard, ActOpens, ActCloses,
        ActElse, Line, PrintLoad, PrintWrite, Chdir
  <2>6. QED
    BY <2>1, <2>3, <2>4, <2>5 DEF TypeOK
<1>3. QED
  BY <1>1, <1>2, NextStep

\* Descriptors are within the table, and a thread never has less than no part to write.
THEOREM LoggerTypeCorrect == Spec => []TypeOK
<1>1. Init => TypeOK /\ ThreadInv
  BY InitType
<1>2. TypeOK /\ ThreadInv /\ [Next]_vars => (TypeOK /\ ThreadInv)'
  BY TypeStep
<1>3. QED
  BY <1>1, <1>2, PTL DEF Spec

-----------------------------------------------------------------------------
(* Where the log is.                                                       *)

\* Only a program with a single thread closes what it did not open.
OneCloser == "stray_close" \in Calls => \A t, u \in Threads : t = u

\* init_fd has chosen the log's descriptor.
Ready ==
  OUTPUT_FILE = "STDERR" \/ fd_flag \/ \E t \in Threads : th[t].pc \notin {"user", "init"}

LogUp == Ready /\ stderr_fd # -1 => table[stderr_fd] \in Logs

OwnOpen ==
  \A t \in Threads : \A fd \in own[t] : table[fd] # "closed" /\ fd # stderr_fd

Disjoint == \A t, u \in Threads : t # u => own[t] \intersect own[u] = {}

\* Until it is closed, what a thread closes is its own; once close has seen to it, it is
\* not the log's descriptor. What a thread is about to write to is a log.
Fine(t) ==
  /\ th[t].pc \in {"init", "flag", "begin", "act"} /\ th[t].call \in CloseCalls =>
       "stray_close" \in Calls \/ th[t].fd \in own[t]
  /\ th[t].pc = "act" /\ th[t].call \in CloseCalls => th[t].fd # stderr_fd
  /\ th[t].pc = "write" /\ th[t].dest # -1 =>
       table[th[t].dest] \in Logs /\ \A u \in Threads : th[t].dest \notin own[u]

LogInv == LogUp /\ OwnOpen /\ Disjoint /\ \A t \in Threads : Fine(t)

LEMMA LogsOpen == "closed" \notin Logs
  BY DEF Logs

\* A step of thread t that leaves the table alone
LEMMA Beside ==
  ASSUME LogInv, NEW t \in Threads, LogUp', Fine(t)',
         UNCHANGED <<table, stderr_fd, own, OUTPUT_FILE>>,
         \A u \in Threads : u # t => th'[u] = th[u]
  PROVE  LogInv'
<1>1. OwnOpen' /\ Disjoint'
  BY DEF LogInv, OwnOpen, Disjoint
<1>2. ASSUME NEW u \in Threads, u # t PROVE Fine(u)'
  BY <1>2 DEF LogInv, Fine, Logs
<1>3. QED
  BY <1>1, <1>2 DEF LogInv

LEMMA Elsewhere ==
  ASSUME LogInv, NEW t \in Threads, Ready' => Ready, Fine(t)',
         UNCHANGED <<table, stderr_fd, own, OUTPUT_FILE>>,
         \A u \in Threads : u # t => th'[u] = th[u]
  PROVE  LogInv'
<1>1. LogUp'
  BY DEF LogInv, LogUp, Logs
<1>2. QED
  BY <1>1, Beside

LEMMA EnterLog ==
  ASSUME TypeOK, ThreadInv, LogInv, NEW t \in Threads, NEW c \in Calls,
         NEW fd \in Fd \union {-1}, Enter(t, c, fd)
  PROVE  LogInv'
<1> DEFINE l == IF fd_flag THEN "begin" ELSE "init"
           r == [th[t] EXCEPT !.pc = l, !.call = c, !.fd = fd]
<1>1. th \in [Threads -> Thread] /\ th[t] \in Thread
  BY DEF TypeOK
<1>2. th' = [th EXCEPT ![t] = r] /\ Argument(t, c, fd)
  BY <1>1 DEF Enter
<1>3. r.pc = l /\ r.call = c /\ r.fd = fd
  BY <1>1 DEF Thread
<1>4. th'[t] = r /\ \A u \in Threads : u # t => th'[u] = th[u]
  BY <1>1, <1>2
<1>5. l \in {"begin", "init"} /\ (l = "begin" => fd_flag)
  OBVIOUS
<1> HIDE DEF l, r
<1>6. UNCHANGED <<table, stderr_fd, own, OUTPUT_FILE, fd_flag>>
  BY DEF Enter
<1>7. Ready' => Ready
  BY <1>3, <1>4, <1>5, <1>6 DEF Ready
<1>8. c \in CloseCalls => "stray_close" \in Calls \/ fd \in own[t]
  BY <1>2 DEF Argument, TransferCalls, CloseCalls, PathCalls, DescriptorCalls, StreamCalls
<1>9. Fine(t)'
  BY <1>3, <1>4, <1>5, <1>6, <1>8 DEF Fine
<1>10. QED
  BY <1>4, <1>6, <1>7, <1>9, Elsewhere

\* Steps that go on, and what they leave alone
LEMMA GoesLog ==
  ASSUME TypeOK, ThreadInv, LogInv, NEW t \in Threads,
         NEW l \in {"flag", "begin", "act", "line"}, Goes(t, l),
         UNCHANGED <<table, stderr_fd, own, OUTPUT_FILE>>,
         Ready, l = "act" /\ th[t].call \in CloseCalls => th[t].fd # stderr_fd,
         l # "line" => th[t].pc \in {"init", "flag", "begin"}
  PROVE  LogInv'
<1>1. l \in Label \ {"load", "write"}
  BY DEF Label
<1>2. /\ \A u \in Threads : u # t => th'[u] = th[u]
      /\ th'[t].pc = l /\ th'[t].call = th[t].call /\ th'[t].fd = th[t].fd
  BY <1>1, GoesType
<1>3. Fine(t)'
  BY <1>2 DEF LogInv, Fine
<1>4. QED
  BY <1>2, <1>3, Elsewhere

LEMMA PrintLog ==
  ASSUME TypeOK, ThreadInv, LogInv, NEW t \in Threads,
         Line(t) \/ PrintLoad(t) \/ PrintWrite(t)
  PROVE  LogInv'
<1>1. /\ th \in [Threads -> Thread] /\ th[t] \in Thread
      /\ stderr_fd \in Fd \union {-1} /\ own \in [Threads -> SUBSET Fd]
  BY DEF TypeOK
<1>2. Ready
  BY DEF Ready, Line, PrintLoad, PrintWrite, At
<1>3. /\ UNCHANGED <<table, stderr_fd, own, OUTPUT_FILE>>
      /\ \A u \in Threads : u # t => th'[u] = th[u]
  BY <1>1, ThreadType DEF Step, Line, PrintLoad, PrintWrite
<1>4. CASE Line(t)
  <2>1. th'[t].pc = "load"
    BY <1>1, <1>4 DEF Line, Thread
  <2>2. QED
    BY <1>2, <1>3, <2>1, Elsewhere DEF Fine
<1>5. CASE PrintLoad(t)
  <2>1. th'[t].pc = "write" /\ th'[t].dest = stderr_fd
    BY <1>1, <1>5 DEF PrintLoad, Thread
  <2>2. stderr_fd # -1 => table[stderr_fd] \in Logs
    BY <1>2 DEF LogInv, LogUp
  <2>3. \A u \in Threads : stderr_fd \notin own[u]
    BY DEF LogInv, OwnOpen
  <2>4. Fine(t)'
    BY <1>3, <2>1, <2>2, <2>3 DEF Fine, Logs
  <2>5. QED
    BY <1>2, <1>3, <2>4, Elsewhere
<1>6. CASE PrintWrite(t)
  <2>1. th'[t].pc \in {"user", "load"}
    <3> DEFINE l == IF th[t].parts = 1 THEN "user" ELSE "load"
    <3>1. l \in {"user", "load"}
      OBVIOUS
    <3> HIDE DEF l
    <3>2. th' = [th EXCEPT ![t] = [th[t] EXCEPT !.pc = l, !.parts = th[t].parts - 1, !.dest = -1]]
      BY <1>1, <1>6 DEF PrintWrite, l
    <3>3. QED
      BY <1>1, <3>1, <3>2 DEF Thread
  <2>2. QED
    BY <1>2, <1>3, <2>1, Elsewhere DEF Fine
<1>7. QED
  BY <1>4, <1>5, <1>6

-----------------------------------------------------------------------------
(* The steps that change the table.                                        *)

LEMMA InitOpenLog ==
  ASSUME OneCloser, TypeOK, ThreadInv, LogInv, NEW t \in Threads, InitOpen(t)
  PROVE  LogInv'
<1>1. TableOK /\ own \in [Threads -> SUBSET Fd]
  BY DEF TypeOK
<1>2. PICK n \in OpenResults : table' = Opened(n, LogFile) /\ stderr_fd' = n
  BY DEF InitOpen
<1>3. /\ n = -1 \/ (n \in Fd /\ table[n] = "closed" /\ table'[n] = LogFile)
      /\ \A fd \in Fd : fd # n => table'[fd] = table[fd]
  BY <1>1, <1>2, ResultClosed, OpenedTable, LogFileType
<1>4. \A u \in Threads : n \notin own[u]
  BY <1>1, <1>3, Minus DEF LogInv, OwnOpen
<1>5. UNCHANGED <<own, OUTPUT_FILE>> /\ OUTPUT_FILE = "file"
  BY DEF InitOpen
<1>6. LogUp'
  BY <1>2, <1>3, <1>5 DEF LogUp, Logs, LogFile
<1>7. OwnOpen' /\ Disjoint'
  BY <1>1, <1>2, <1>3, <1>4, <1>5 DEF LogInv, OwnOpen, Disjoint
<1>8. /\ \A u \in Threads : u # t => th'[u] = th[u]
      /\ th'[t].pc = "flag" /\ th'[t].call = th[t].call /\ th'[t].fd = th[t].fd
  BY GoesType DEF InitOpen, Label
<1>9. ASSUME NEW u \in Threads PROVE Fine(u)'
  <2>1. CASE u = t
    BY <1>5, <1>8, <2>1 DEF LogInv, Fine, InitOpen, At
  <2>2. CASE u # t
    <3>1. th'[u] = th[u] /\ "stray_close" \notin Calls /\ Fine(u)
      BY <1>8, <2>2 DEF OneCloser, LogInv
    <3>2. th[u].pc = "write" /\ th[u].dest # -1 => table'[th[u].dest] \in Logs
      <4>1. th[u] \in Thread
        BY DEF TypeOK
      <4>2. QED
        BY <1>3, <3>1, <4>1, LogsOpen DEF Fine, Thread
    <3>3. QED
      BY <1>2, <1>4, <1>5, <3>1, <3>2 DEF Fine, Logs
  <2>3. QED
    BY <2>1, <2>2
<1>10. QED
  BY <1>6, <1>7, <1>9 DEF LogInv

LEMMA GuardLog ==
  ASSUME OneCloser, TypeOK, ThreadInv, LogInv, NEW t \in Threads, Guard(t)
  PROVE  LogInv'
<1>1. /\ TableOK /\ own \in [Threads -> SUBSET Fd] /\ th[t].pc = "begin"
      /\ UNCHANGED <<own, OUTPUT_FILE>>
  BY DEF TypeOK, Guard, At
<1>2. Ready
  BY <1>1 DEF Ready
<1>3. CASE ~(th[t].call \in CloseCalls /\ th[t].fd = stderr_fd)
  <2>1. UNCHANGED <<table, stderr_fd>> /\ Goes(t, "act")
    BY <1>3 DEF Guard
  <2>2. QED
    BY <1>1, <1>2, <1>3, <2>1, GoesLog
<1>4. CASE th[t].call \in CloseCalls /\ th[t].fd = stderr_fd
  <2>1. stderr_fd \in Fd /\ stderr_fd # -1
    BY <1>4, Minus DEF ThreadInv
  <2>2. table[stderr_fd] \in Logs
    BY <1>2, <2>1 DEF LogInv, LogUp
  <2>3. "stray_close" \in Calls
    BY <1>1, <1>4 DEF LogInv, OwnOpen, Fine
  <2>4. PICK n \in Allotted : table' = Opened(n, table[stderr_fd]) /\ stderr_fd' = n
    BY <1>4, <2>2, LogsOpen DEF Guard
  <2>5. /\ n = -1 \/ (n \in Fd /\ table[n] = "closed" /\ table'[n] = table[stderr_fd])
        /\ \A fd \in Fd : fd # n => table'[fd] = table[fd]
    <3>1. table[stderr_fd] \in File \union {"closed"}
      BY <1>1, <2>1 DEF TableOK
    <3>2. QED
      BY <1>1, <2>4, <3>1, AllottedResults, ResultClosed, OpenedTable
  <2>6. n # stderr_fd
    BY <2>1, <2>2, <2>5, LogsOpen
  <2>7. LogUp'
    BY <1>1, <2>2, <2>4, <2>5 DEF LogUp, Logs
  <2>8. \A u \in Threads : n \notin own[u]
    BY <1>1, <2>5, Minus DEF LogInv, OwnOpen
  <2>9. OwnOpen' /\ Disjoint'
    BY <1>1, <2>4, <2>5, <2>8 DEF LogInv, OwnOpen, Disjoint
  <2>10. th'[t].pc = "act" /\ th'[t].call = th[t].call /\ th'[t].fd = th[t].fd
    BY GoesType DEF Guard, Label
  <2>11. Fine(t)'
    BY <1>4, <2>3, <2>4, <2>6, <2>10 DEF Fine
  <2>12. QED
    BY <2>3, <2>7, <2>9, <2>11 DEF OneCloser, LogInv
<1>5. QED
  BY <1>3, <1>4

LEMMA ActOpensLog ==
  ASSUME TypeOK, ThreadInv, LogInv, NEW t \in Threads, ActOpens(t)
  PROVE  LogInv'
<1>1. /\ TableOK /\ own \in [Threads -> SUBSET Fd] /\ stderr_fd \in Fd \union {-1}
      /\ UNCHANGED <<OUTPUT_FILE, stderr_fd>>
  BY DEF TypeOK, ActOpens
<1>2. stderr_fd # -1 => table[stderr_fd] \in Logs
  BY DEF LogInv, LogUp, Ready, ActOpens, At
<1>3. PICK n \in OpenResults :
        table' = Opened(n, "mine") /\ own' = [own EXCEPT ![t] = @ \union ({n} \ {-1})]
  BY DEF ActOpens
<1>4. /\ n = -1 \/ (n \in Fd /\ table[n] = "closed" /\ table'[n] = "mine")
      /\ \A fd \in Fd : fd # n => table'[fd] = table[fd]
  BY <1>1, <1>3, ResultClosed, OpenedTable DEF File
<1>5. /\ own'[t] = own[t] \union ({n} \ {-1})
      /\ \A u \in Threads : u # t => own'[u] = own[u]
      /\ \A u \in Threads : n \notin own[u]
  BY <1>1, <1>3, <1>4, Minus DEF LogInv, OwnOpen
<1>6. n # -1 => n # stderr_fd
  BY <1>1, <1>2, <1>4, LogsOpen
<1>7. LogUp'
  BY <1>1, <1>2, <1>4, LogsOpen DEF LogUp, Logs
<1>8. OwnOpen'
  BY <1>1, <1>4, <1>5, <1>6 DEF LogInv, OwnOpen
<1>9. Disjoint'
  BY <1>5 DEF LogInv, Disjoint
<1>10. (\A u \in Threads : u # t => th'[u] = th[u]) /\ th'[t].pc = "line"
  BY GoesType DEF ActOpens, Label
<1>11. ASSUME NEW u \in Threads PROVE Fine(u)'
  <2>1. CASE u = t
    BY <1>10, <2>1 DEF Fine
  <2>2. CASE u # t
    <3>1. th'[u] = th[u] /\ th[u] \in Thread /\ own'[u] = own[u] /\ Fine(u)
      BY <1>5, <1>10, <2>2 DEF LogInv, TypeOK
    <3>2. th[u].pc = "write" /\ th[u].dest # -1 =>
            table'[th[u].dest] \in Logs /\ \A v \in Threads : th[u].dest \notin own'[v]
      BY <1>4, <1>5, <3>1, LogsOpen DEF Fine, Thread
    <3>3. QED
      BY <1>1, <3>1, <3>2 DEF Fine, Logs
  <2>3. QED
    BY <2>1, <2>2
<1>12. QED
  BY <1>7, <1>8, <1>9, <1>11 DEF LogInv

LEMMA ActClosesLog ==
  ASSUME OneCloser, TypeOK, ThreadInv, LogInv, NEW t \in Threads, ActCloses(t)
  PROVE  LogInv'
<1> DEFINE c == th[t].fd
<1>1. /\ table \in [Fd -> File \union {"closed"}] /\ own \in [Threads -> SUBSET Fd]
      /\ stderr_fd \in Fd \union {-1} /\ UNCHANGED <<OUTPUT_FILE, stderr_fd>>
  BY DEF TypeOK, TableOK, ActCloses
<1>2. /\ th[t].pc = "act" /\ th[t].call \in CloseCalls /\ c \in Fd /\ c # stderr_fd
      /\ "stray_close" \in Calls \/ c \in own[t]
  BY DEF ActCloses, At, LogInv, Fine, ThreadInv
<1>3. /\ \A fd \in Fd : fd # c => table'[fd] = table[fd]
      /\ \A u \in Threads : own'[u] = own[u] \ {c}
  BY <1>1 DEF ActCloses
<1>4. stderr_fd # -1 => table[stderr_fd] \in Logs
  BY <1>2 DEF LogInv, LogUp, Ready
<1>5. LogUp'
  BY <1>1, <1>2, <1>3, <1>4 DEF LogUp, Logs
<1>6. OwnOpen' /\ Disjoint'
  BY <1>1, <1>3 DEF LogInv, OwnOpen, Disjoint
<1>7. (\A u \in Threads : u # t => th'[u] = th[u]) /\ th'[t].pc = "line"
  BY GoesType DEF ActCloses, Label
<1>8. ASSUME NEW u \in Threads PROVE Fine(u)'
  <2>1. CASE u = t
    BY <1>7, <2>1 DEF Fine
  <2>2. CASE u # t
    <3>1. /\ th'[u] = th[u] /\ th[u] \in Thread /\ Fine(u)
          /\ "stray_close" \notin Calls /\ c \in own[t]
      BY <1>2, <1>7, <2>2 DEF OneCloser, LogInv, TypeOK
    <3>2. c \notin own[u]
      BY <2>2, <3>1 DEF LogInv, Disjoint
    <3> HIDE DEF c
    <3>3. th[u].pc = "write" /\ th[u].dest # -1 =>
            table'[th[u].dest] \in Logs /\ \A v \in Threads : th[u].dest \notin own'[v]
      BY <1>3, <3>1 DEF Fine, Thread
    <3>4. QED
      BY <1>1, <1>3, <3>1, <3>2, <3>3 DEF Fine, Logs
  <2>3. QED
    BY <2>1, <2>2
<1>9. QED
  BY <1>5, <1>6, <1>8 DEF LogInv

-----------------------------------------------------------------------------

LEMMA LogStep ==
  ASSUME OneCloser, TypeOK, ThreadInv, LogInv, [Next]_vars
  PROVE  LogInv'
<1>1. CASE UNCHANGED vars
  BY <1>1 DEF vars, LogInv, LogUp, Ready, OwnOpen, Disjoint, Fine, Logs
<1>2. ASSUME NEW t \in Threads, Step(t) PROVE LogInv'
  <2>1. CASE InitStderr(t)
    <3>1. /\ Ready /\ Goes(t, "flag") /\ th[t].pc = "init"
          /\ UNCHANGED <<table, stderr_fd, own, OUTPUT_FILE>>
      BY <2>1 DEF InitStderr, Ready, At
    <3>2. QED
      BY <3>1, GoesLog
  <2>2. CASE InitFlag(t)
    <3>1. /\ Ready /\ Goes(t, "begin") /\ th[t].pc = "flag"
          /\ UNCHANGED <<table, stderr_fd, own, OUTPUT_FILE>>
      BY <2>2 DEF InitFlag, Ready, At
    <3>2. QED
      BY <3>1, GoesLog
  <2>3. CASE ActElse(t)
    <3>1. Ready /\ Goes(t, "line") /\ UNCHANGED <<table, stderr_fd, own, OUTPUT_FILE>>
      BY <2>3 DEF ActElse, Ready, At
    <3>2. QED
      BY <3>1, GoesLog
  <2>4. ASSUME NEW dir \in {"start", "away"}, Chdir(t, dir) PROVE LogInv'
    BY <2>4 DEF Chdir, LogInv, LogUp, Ready, OwnOpen, Disjoint, Fine, Logs
  <2>5. QED
    BY <1>2, <2>1, <2>2, <2>3, <2>4, EnterLog, InitOpenLog, GuardLog, ActOpensLog,
       ActClosesLog, PrintLog
    DEF Step
<1>3. QED
  BY <1>1, <1>2, NextStep

LEMMA LogInit == Init => LogInv
<1> SUFFICES ASSUME Init PROVE LogInv
  OBVIOUS
<1>1. stderr_fd = 2 /\ table[2] = "err" /\ own = [t \in Threads |-> {}] /\ fd_flag = FALSE
  BY TableAssumption DEF Init, TableInit, Fd
<1>2. \A t \in Threads : th[t].pc = "user"
  BY DEF Init
<1>3. LogUp
  BY <1>1, <1>2 DEF LogUp, Ready, Logs
<1>4. OwnOpen /\ Disjoint /\ \A t \in Threads : Fine(t)
  BY <1>1, <1>2 DEF OwnOpen, Disjoint, Fine
<1>5. QED
  BY <1>3, <1>4 DEF LogInv

LEMMA LogInvHolds ==
  ASSUME OneCloser
  PROVE  Spec => []LogInv
<1>1. Init => TypeOK /\ ThreadInv /\ LogInv
  BY InitType, LogInit
<1>2. TypeOK /\ ThreadInv /\ LogInv /\ [Next]_vars => (TypeOK /\ ThreadInv /\ LogInv)'
  BY TypeStep, LogStep
<1>3. QED
  BY <1>1, <1>2, PTL DEF Spec

\* The log stays open whatever the program closes, as long as a descriptor is left
\* for it (logger.cpp:138-141, 222-225).
THEOREM LogOpenHolds ==
  ASSUME OneCloser
  PROVE  Spec => []LogOpen
<1>1. LogInv => LogOpen
  BY DEF LogInv, LogUp, Ready, LogOpen
<1>2. QED
  BY <1>1, LogInvHolds, PTL

\* No line is written into a file of the program, by any number of threads
\* (logger.cpp:37-58).
THEOREM NoStrayHolds ==
  ASSUME OneCloser
  PROVE  Spec => []NoStray
<1>1. LogInv => NoStray
  BY DEF LogInv, Fine, NoStray, At
<1>2. QED
  BY <1>1, LogInvHolds, PTL

\* The program never holds the log's descriptor as one of its own (logger.cpp:140, 224).
THEOREM ApartHolds ==
  ASSUME OneCloser
  PROVE  Spec => []Apart
<1>1. LogInv => Apart
  BY DEF LogInv, OwnOpen, Apart
<1>2. QED
  BY <1>1, LogInvHolds, PTL

-----------------------------------------------------------------------------
(* The logger implements the call log.                                     *)

PhaseNow == [t \in Threads |-> Phase(t)]
LeftNow == [t \in Threads |-> th[t].parts]
SinkNow == [t \in Threads |-> Sink(t, Logs)]

\* A step of thread t, seen from the call log
LEMMA Others ==
  ASSUME LogInv, LogInv', NEW t \in Threads, \A u \in Threads : u # t => th'[u] = th[u]
  PROVE  /\ PhaseNow' = [PhaseNow EXCEPT ![t] = Phase(t)']
         /\ LeftNow' = [LeftNow EXCEPT ![t] = th'[t].parts]
         /\ SinkNow' = [SinkNow EXCEPT ![t] = Sink(t, Logs)']
<1>1. \A u \in Threads : u # t => Phase(u)' = Phase(u) /\ th'[u].parts = th[u].parts
  BY DEF Phase
<1>2. ASSUME NEW u \in Threads, u # t PROVE Sink(u, Logs)' = Sink(u, Logs)
  <2>1. th'[u] = th[u] /\ Fine(u) /\ Fine(u)'
    BY <1>2 DEF LogInv
  <2>2. CASE th[u].pc # "write"
    BY <2>1, <2>2 DEF Sink, At
  <2>3. CASE th[u].pc = "write" /\ th[u].dest = -1
    BY <2>1, <2>3 DEF Sink, At
  <2>4. CASE th[u].pc = "write" /\ th[u].dest # -1
    <3>1. table[th[u].dest] \in Logs /\ table'[th'[u].dest] \in Logs'
      BY <2>1, <2>4 DEF Fine
    <3>2. QED
      BY <2>1, <2>4, <3>1 DEF Sink, At
  <2>5. QED
    BY <2>2, <2>3, <2>4
<1>3. PhaseNow' = [PhaseNow EXCEPT ![t] = Phase(t)']
  BY <1>1 DEF PhaseNow
<1>4. LeftNow' = [LeftNow EXCEPT ![t] = th'[t].parts]
  BY <1>1 DEF LeftNow
<1>5. SinkNow' = [SinkNow EXCEPT ![t] = Sink(t, Logs)']
  BY <1>2 DEF SinkNow
<1>6. QED
  BY <1>3, <1>4, <1>5

\* A step of thread t that the call log does not see
LEMMA Unseen ==
  ASSUME LogInv, LogInv', NEW t \in Threads, \A u \in Threads : u # t => th'[u] = th[u],
         Phase(t)' = Phase(t), th'[t].parts = th[t].parts,
         th[t].pc # "write", th'[t].pc # "write"
  PROVE  UNCHANGED <<PhaseNow, LeftNow, SinkNow>>
<1>1. Sink(t, Logs) = "none" /\ Sink(t, Logs)' = "none"
  BY DEF Sink, At
<1>2. /\ PhaseNow' = [PhaseNow EXCEPT ![t] = Phase(t)]
      /\ LeftNow' = [LeftNow EXCEPT ![t] = th[t].parts]
      /\ SinkNow' = [SinkNow EXCEPT ![t] = "none"]
  BY <1>1, Others
<1>3. QED
  BY <1>1, <1>2 DEF PhaseNow, LeftNow, SinkNow

\* Going on leaves the line as it is.
LEMMA GoesParts ==
  ASSUME TypeOK, NEW t \in Threads, NEW l \in Label, Goes(t, l)
  PROVE  th'[t].parts = th[t].parts /\ th'[t].pc = l /\ \A u \in Threads : u # t => th'[u] = th[u]
  BY DEF TypeOK, Thread, Goes

\* Steps between the call and its effect that a thread keeps to itself
LEMMA PreludeUnseen ==
  ASSUME TypeOK, ThreadInv, LogInv, LogInv', NEW t \in Threads,
         InitOpen(t) \/ InitStderr(t) \/ InitFlag(t) \/ Guard(t)
  PROVE  UNCHANGED <<PhaseNow, LeftNow, SinkNow, own>>
<1>1. PICK l \in {"flag", "begin", "act"} : Goes(t, l)
  BY DEF InitOpen, InitStderr, InitFlag, Guard
<1>2. /\ l \in Label /\ th[t].pc \in {"init", "flag", "begin"}
      /\ UNCHANGED own
  BY DEF InitOpen, InitStderr, InitFlag, Guard, Label, At
<1>3. /\ th'[t].parts = th[t].parts /\ th'[t].pc = l
      /\ \A u \in Threads : u # t => th'[u] = th[u]
  BY <1>1, <1>2, GoesParts
<1>4. Phase(t) = "called" /\ Phase(t)' = "called"
  BY <1>2, <1>3 DEF Phase
<1>5. QED
  BY <1>2, <1>3, <1>4, Unseen

\* A thread that takes its call to label r.pc
LEMMA CallSeen ==
  ASSUME TypeOK, LogInv, LogInv', NEW t \in Threads, NEW r,
         th[t].pc = "user", UNCHANGED own, th' = [th EXCEPT ![t] = r],
         r.pc \in {"begin", "init", "act"}, r.parts = th[t].parts
  PROVE  Promise!Call(t)
<1>1. /\ th'[t].pc \in {"begin", "init", "act"} /\ th'[t].parts = th[t].parts
      /\ \A u \in Threads : u # t => th'[u] = th[u]
  BY DEF TypeOK
<1>2. Phase(t) = "idle" /\ Phase(t)' = "called"
  BY <1>1 DEF Phase
<1>3. Sink(t, Logs) = "none" /\ Sink(t, Logs)' = "none"
  BY <1>1 DEF Sink, At
<1>4. PhaseNow' = [PhaseNow EXCEPT ![t] = "called"] /\ UNCHANGED <<LeftNow, SinkNow>>
  <2>1. /\ PhaseNow' = [PhaseNow EXCEPT ![t] = "called"]
        /\ LeftNow' = [LeftNow EXCEPT ![t] = th[t].parts]
        /\ SinkNow' = [SinkNow EXCEPT ![t] = "none"]
    BY <1>1, <1>2, <1>3, Others
  <2>2. QED
    BY <1>3, <2>1 DEF LeftNow, SinkNow
<1>5. QED
  BY <1>2, <1>4 DEF Promise!Call, PhaseNow, LeftNow, SinkNow

LEMMA EnterSeen ==
  ASSUME TypeOK, ThreadInv, LogInv, LogInv', NEW t \in Threads, NEW c \in Calls,
         NEW fd \in Fd \union {-1}, Enter(t, c, fd)
  PROVE  Promise!Call(t)
<1>1. th[t] \in Thread /\ th[t].pc = "user" /\ UNCHANGED own
  BY DEF TypeOK, Enter, At
<1> DEFINE l == IF fd_flag THEN "begin" ELSE "init"
           r == [th[t] EXCEPT !.pc = l, !.call = c, !.fd = fd]
<1>2. th' = [th EXCEPT ![t] = r]
  BY DEF Enter, TypeOK
<1>3. r.pc \in {"begin", "init", "act"} /\ r.parts = th[t].parts
  BY <1>1 DEF Thread
<1> HIDE DEF r
<1>4. QED
  BY <1>1, <1>2, <1>3, CallSeen

LEMMA ActSeen ==
  ASSUME OneCloser, TypeOK, ThreadInv, LogInv, LogInv', NEW t \in Threads,
         ActOpens(t) \/ ActCloses(t) \/ ActElse(t)
  PROVE  Promise!Act(t)
<1>1. /\ Goes(t, "line") /\ th[t].pc = "act" /\ "line" \in Label
      /\ own \in [Threads -> SUBSET Fd]
  BY DEF ActOpens, ActCloses, ActElse, At, Label, TypeOK
<1>2. /\ th'[t].parts = th[t].parts /\ th'[t].pc = "line"
      /\ \A u \in Threads : u # t => th'[u] = th[u]
  BY <1>1, GoesParts
<1>3. Phase(t) = "called" /\ Phase(t)' = "acted"
  BY <1>1, <1>2 DEF Phase
<1>4. Sink(t, Logs) = "none" /\ Sink(t, Logs)' = "none"
  BY <1>1, <1>2 DEF Sink, At
<1>5. PhaseNow' = [PhaseNow EXCEPT ![t] = "acted"] /\ UNCHANGED <<LeftNow, SinkNow>>
  <2>1. /\ PhaseNow' = [PhaseNow EXCEPT ![t] = "acted"]
        /\ LeftNow' = [LeftNow EXCEPT ![t] = th[t].parts]
        /\ SinkNow' = [SinkNow EXCEPT ![t] = "none"]
    BY <1>2, <1>3, <1>4, Others
  <2>2. QED
    BY <1>4, <2>1 DEF LeftNow, SinkNow
<1>6. Promise!Takes(t) \/ Promise!GivesUp(t) \/ UNCHANGED own
  <2>1. CASE ActOpens(t)
    <3>1. PICK n \in OpenResults : own' = [own EXCEPT ![t] = @ \union ({n} \ {-1})]
      BY <2>1 DEF ActOpens
    <3>2. CASE n = -1
      BY <1>1, <3>1, <3>2
    <3>3. CASE n # -1
      <4>1. n \in Fd /\ table[n] = "closed" /\ own' = [own EXCEPT ![t] = @ \union {n}]
        BY <3>1, <3>3, ResultClosed DEF TypeOK
      <4>2. \A u \in Threads : n \notin own[u]
        BY <4>1 DEF LogInv, OwnOpen
      <4>3. QED
        BY <4>1, <4>2 DEF Promise!Takes
    <3>4. QED
      BY <3>2, <3>3
  <2>2. CASE ActCloses(t)
    <3> DEFINE c == th[t].fd
    <3>1. own' = [u \in Threads |-> own[u] \ {c}]
      BY <2>2 DEF ActCloses
    <3>2. \A u \in Threads : u # t => c \notin own[u]
      <4>1. "stray_close" \in Calls \/ c \in own[t]
        BY <1>1, <2>2 DEF ActCloses, LogInv, Fine
      <4>2. QED
        BY <4>1 DEF OneCloser, LogInv, Disjoint
    <3> HIDE DEF c
    <3>3. own' = [own EXCEPT ![t] = @ \ {c}]
      BY <1>1, <3>1, <3>2
    <3>4. CASE c \in own[t]
      BY <3>3, <3>4 DEF Promise!GivesUp
    <3>5. CASE c \notin own[t]
      BY <1>1, <3>3, <3>5
    <3>6. QED
      BY <3>4, <3>5
  <2>3. QED
    BY <2>1, <2>2 DEF ActElse
<1>7. QED
  BY <1>3, <1>5, <1>6 DEF Promise!Act, PhaseNow, LeftNow, SinkNow

\* A thread that has n pieces to write
LEMMA TellSeen ==
  ASSUME TypeOK, LogInv, LogInv', NEW t \in Threads, NEW n \in 1..4,
         th[t].pc = "line", UNCHANGED own,
         th' = [th EXCEPT ![t] = [th[t] EXCEPT !.pc = "load", !.parts = n]]
  PROVE  Promise!Tell(t)
<1>1. /\ th'[t].pc = "load" /\ th'[t].parts = n
      /\ \A u \in Threads : u # t => th'[u] = th[u]
  BY DEF TypeOK, Thread
<1>2. Phase(t) = "acted" /\ Phase(t)' = "due"
  BY <1>1 DEF Phase
<1>3. Sink(t, Logs) = "none" /\ Sink(t, Logs)' = "none"
  BY <1>1 DEF Sink, At
<1>4. /\ PhaseNow' = [PhaseNow EXCEPT ![t] = "due"]
      /\ LeftNow' = [LeftNow EXCEPT ![t] = n] /\ UNCHANGED SinkNow
  <2>1. /\ PhaseNow' = [PhaseNow EXCEPT ![t] = "due"]
        /\ LeftNow' = [LeftNow EXCEPT ![t] = n]
        /\ SinkNow' = [SinkNow EXCEPT ![t] = "none"]
    BY <1>1, <1>2, <1>3, Others
  <2>2. QED
    BY <1>3, <2>1 DEF SinkNow
<1>5. QED
  BY <1>2, <1>4 DEF Promise!Tell, PhaseNow, LeftNow, SinkNow

LEMMA LineSeen ==
  ASSUME TypeOK, ThreadInv, LogInv, LogInv', NEW t \in Threads, Line(t)
  PROVE  Promise!Tell(t)
<1>1. th[t].pc = "line" /\ UNCHANGED own
  BY DEF Line, At
<1> DEFINE n == IF th[t].call \in StreamCalls THEN 3 ELSE 1
<1>2. n \in 1..4
  OBVIOUS
<1>3. th' = [th EXCEPT ![t] = [th[t] EXCEPT !.pc = "load", !.parts = n]]
  BY DEF Line, TypeOK
<1> HIDE DEF n
<1>4. QED
  BY <1>1, <1>2, <1>3, TellSeen

LEMMA LoadSeen ==
  ASSUME TypeOK, ThreadInv, LogInv, LogInv', NEW t \in Threads, PrintLoad(t)
  PROVE  Promise!Aim(t)
<1>1. th[t] \in Thread /\ th[t].pc = "load" /\ UNCHANGED own
  BY DEF TypeOK, PrintLoad, At
<1>2. th' = [th EXCEPT ![t] = [th[t] EXCEPT !.pc = "write", !.dest = stderr_fd]]
  BY DEF PrintLoad, TypeOK
<1>3. /\ th'[t].pc = "write" /\ th'[t].parts = th[t].parts
      /\ \A u \in Threads : u # t => th'[u] = th[u]
  BY <1>1, <1>2 DEF TypeOK, Thread
<1>4. Phase(t) = "due" /\ Phase(t)' = "writing"
  BY <1>1, <1>3 DEF Phase
<1>5. Sink(t, Logs)' \in {"log", "nowhere"}
  <2>1. CASE th'[t].dest = -1
    BY <1>3, <2>1 DEF Sink, At
  <2>2. CASE th'[t].dest # -1
    <3>1. table'[th'[t].dest] \in Logs'
      BY <1>3, <2>2 DEF LogInv, Fine
    <3>2. QED
      BY <1>3, <2>2, <3>1 DEF Sink, At
  <2>3. QED
    BY <2>1, <2>2
<1>6. /\ PhaseNow' = [PhaseNow EXCEPT ![t] = "writing"] /\ UNCHANGED LeftNow
      /\ \E s \in {"log", "nowhere"} : SinkNow' = [SinkNow EXCEPT ![t] = s]
  BY <1>3, <1>4, <1>5, Others DEF LeftNow
<1>7. QED
  BY <1>1, <1>4, <1>6 DEF Promise!Aim, PhaseNow, LeftNow, SinkNow

LEMMA WriteSeen ==
  ASSUME TypeOK, ThreadInv, LogInv, LogInv', NEW t \in Threads, PrintWrite(t)
  PROVE  Promise!Write(t)
<1>1. th[t] \in Thread /\ th[t].pc = "write" /\ UNCHANGED own
  BY DEF TypeOK, PrintWrite, At
<1> DEFINE l == IF th[t].parts = 1 THEN "user" ELSE "load"
           r == [th[t] EXCEPT !.pc = l, !.parts = th[t].parts - 1, !.dest = -1]
<1>2. th' = [th EXCEPT ![t] = r]
  BY <1>1 DEF PrintWrite, TypeOK
<1>3. r.pc = l /\ r.parts = th[t].parts - 1
  BY <1>1 DEF Thread
<1> HIDE DEF r
<1>4. /\ th'[t].pc = l /\ th'[t].parts = th[t].parts - 1
      /\ \A u \in Threads : u # t => th'[u] = th[u]
  BY <1>2, <1>3 DEF TypeOK
<1>5. Phase(t) = "writing" /\ Phase(t)' = IF th[t].parts = 1 THEN "idle" ELSE "due"
  BY <1>1, <1>4 DEF Phase
<1>6. Sink(t, Logs)' = "none"
  BY <1>4 DEF Sink, At
<1> HIDE DEF l
<1>7. /\ PhaseNow' = [PhaseNow EXCEPT ![t] = IF LeftNow[t] = 1 THEN "idle" ELSE "due"]
      /\ LeftNow' = [LeftNow EXCEPT ![t] = @ - 1]
      /\ SinkNow' = [SinkNow EXCEPT ![t] = "none"]
  BY <1>4, <1>5, <1>6, Others DEF LeftNow
<1>8. QED
  BY <1>1, <1>5, <1>7 DEF Promise!Write, PhaseNow, LeftNow, SinkNow

LEMMA PromiseStep ==
  ASSUME OneCloser, TypeOK, ThreadInv, LogInv, LogInv', [Next]_vars
  PROVE  [Promise!Next]_(Promise!vars)
<1>1. CASE UNCHANGED vars
  BY <1>1 DEF vars, Promise!vars, Phase, Sink, At, Logs
<1>2. ASSUME NEW t \in Threads, Step(t) PROVE [Promise!Next]_(Promise!vars)
  <2>1. CASE UNCHANGED <<PhaseNow, LeftNow, SinkNow, own>>
    BY <2>1 DEF Promise!vars, PhaseNow, LeftNow, SinkNow
  <2>2. ASSUME NEW dir \in {"start", "away"}, Chdir(t, dir)
        PROVE  UNCHANGED <<PhaseNow, LeftNow, SinkNow, own>>
    BY <2>2 DEF Chdir, PhaseNow, LeftNow, SinkNow, Phase, Sink, At, Logs
  <2>3. CASE Promise!Next
    BY <2>3
  <2>4. QED
    BY <1>2, <2>1, <2>2, <2>3, PreludeUnseen, EnterSeen, ActSeen, LineSeen, LoadSeen, WriteSeen
    DEF Step, Promise!Next
<1>3. QED
  BY <1>1, <1>2, NextStep

LEMMA PromiseInit == Init => Promise!Init
<1> SUFFICES ASSUME Init PROVE Promise!Init
  OBVIOUS
<1>1. \A t \in Threads : th[t].pc = "user" /\ th[t].parts = 0
  BY DEF Init
<1>2. \A t \in Threads : Phase(t) = "idle" /\ Sink(t, Logs) = "none"
  BY <1>1 DEF Phase, Sink, At
<1>3. QED
  BY <1>1, <1>2 DEF Promise!Init, Init

\* The wrappers, racing with each other over stderr_fd, the table and init_fd, implement
\* the call log: every call takes effect once, its line goes to the log and nowhere else
\* before the call returns, and a thread's descriptors are its own (logger.cpp:37-78).
THEOREM CallsLoggedHolds ==
  ASSUME OneCloser
  PROVE  Spec => CallsLogged
<1>1. Init => TypeOK /\ ThreadInv /\ LogInv
  BY InitType, LogInit
<1>2. TypeOK /\ ThreadInv /\ LogInv /\ [Next]_vars => (TypeOK /\ ThreadInv /\ LogInv)'
  BY TypeStep, LogStep
<1>3. Init => Promise!Init
  BY PromiseInit
<1>4. TypeOK /\ ThreadInv /\ LogInv /\ LogInv' /\ [Next]_vars => [Promise!Next]_(Promise!vars)
  BY PromiseStep
<1>5. QED
  BY <1>1, <1>2, <1>3, <1>4, PTL DEF Spec, CallsLogged, Promise!Spec

-----------------------------------------------------------------------------
(* The command under its launcher, and the logger.so of the first revision. *)

\* Only the last revision minds what the program closes, and only in a single thread.
Careful ==
  "stray_close" \in Calls => Versions \subseteq {"final"} /\ \A t, u \in Threads : t = u

\* Nothing has happened in the process but what the launcher did.
Idle ==
  /\ \A t \in Threads : th[t].pc = "user"
  /\ own = [t \in Threads |-> {}] /\ fd_flag = FALSE /\ stderr_fd = 2
  /\ phase = "typed" \/ version = "final" => table[2] = "err"

\* In the first revision descriptor 2 is the log, once its launcher has seen to it.
LaunchInv ==
  /\ version \in Versions
  /\ phase \in {"typed", "parsed", "running", "over"}
  /\ phase # "running" => Idle
  /\ version # "final" =>
       stderr_fd = 2 /\ (phase \in {"parsed", "running"} => table[2] \in Logs)

CommandInv == TypeOK /\ ThreadInv /\ LogInv /\ LaunchInv

LEMMA CarefulClosing == Careful => OneCloser
  BY DEF Careful, OneCloser

\* The steps of the first logger.so are those of the last, but for these two.
LEMMA FirstStepIs ==
  ASSUME CommandInv, version # "final", NEW t \in Threads, FirstStep(t)
  PROVE  \/ \E c \in Calls, fd \in Fd \union {-1} : FirstEnter(t, c, fd)
         \/ FirstLine(t)
         \/ Next
<1>1. FirstLoad(t) => PrintLoad(t)
  BY DEF CommandInv, LaunchInv, FirstLoad, PrintLoad
<1>2. QED
  BY <1>1 DEF FirstStep, Next

LEMMA FirstEnterIs ==
  ASSUME Careful, CommandInv, version # "final", NEW t \in Threads, NEW c \in Calls,
         NEW fd \in Fd \union {-1}, FirstEnter(t, c, fd), phase = "running"
  PROVE  (TypeOK /\ ThreadInv /\ LogInv)' /\ Promise!Call(t)
<1> DEFINE r == [th[t] EXCEPT !.pc = "act", !.call = c, !.fd = fd]
<1>1. /\ TypeOK /\ ThreadInv /\ LogInv /\ th \in [Threads -> Thread] /\ th[t] \in Thread
      /\ th[t].pc = "user" /\ Argument(t, c, fd)
      /\ UNCHANGED <<table, cwd, OUTPUT_FILE, fd_flag, stderr_fd, own>>
  BY DEF CommandInv, TypeOK, FirstEnter, At
<1>2. stderr_fd = 2 /\ table[2] \in Logs /\ "stray_close" \notin Calls
  BY DEF CommandInv, LaunchInv, Careful
<1>3. c \in Wrapped /\ (c \in CloseCalls => fd \in own[t] /\ fd \in Fd)
  <2>1. own[t] \subseteq Fd
    BY <1>1 DEF TypeOK
  <2>2. c \in CloseCalls => c \notin TransferCalls \union PathCalls \union DescriptorCalls \union StreamCalls
    BY DEF TransferCalls, CloseCalls, PathCalls, DescriptorCalls, StreamCalls
  <2>3. QED
    BY <1>1, <1>2, <2>1, <2>2 DEF Argument, Wrapped
<1>4. th' = [th EXCEPT ![t] = r]
  BY <1>1 DEF FirstEnter
<1>5. r \in Thread /\ r.pc = "act" /\ r.call = c /\ r.fd = fd /\ r.parts = th[t].parts
  BY <1>1, <1>3 DEF Thread, Label
<1> HIDE DEF r
<1>6. /\ th' \in [Threads -> Thread] /\ th'[t] = r
      /\ \A u \in Threads : u # t => th'[u] = th[u]
  BY <1>1, <1>4, <1>5
<1>7. TypeOK' /\ ThreadInv'
  BY <1>1, <1>3, <1>5, <1>6 DEF TypeOK, TableOK, ThreadInv
<1>8. Fine(t)'
  <2>1. c \in CloseCalls => fd # stderr_fd
    BY <1>1, <1>3 DEF LogInv, OwnOpen
  <2>2. QED
    BY <1>1, <1>3, <1>5, <1>6, <2>1 DEF Fine
<1>9. LogUp'
  BY <1>1, <1>2 DEF LogUp, Logs
<1>10. LogInv'
  BY <1>1, <1>6, <1>8, <1>9, Beside
<1>11. QED
  BY <1>1, <1>4, <1>5, <1>7, <1>10, CallSeen

LEMMA FirstLineIs ==
  ASSUME CommandInv, NEW t \in Threads, FirstLine(t)
  PROVE  (TypeOK /\ ThreadInv /\ LogInv)' /\ Promise!Tell(t)
<1> DEFINE n == IF th[t].call \in StreamCalls THEN 4 ELSE 2
           r == [th[t] EXCEPT !.pc = "load", !.parts = n]
<1>1. /\ TypeOK /\ ThreadInv /\ LogInv /\ th \in [Threads -> Thread] /\ th[t] \in Thread
      /\ th[t].pc = "line"
      /\ UNCHANGED <<table, cwd, OUTPUT_FILE, fd_flag, stderr_fd, own>>
  BY DEF CommandInv, TypeOK, FirstLine, At
<1>2. n \in 1..4 /\ n \in 0..4
  OBVIOUS
<1>3. th' = [th EXCEPT ![t] = r]
  BY <1>1 DEF FirstLine
<1> HIDE DEF n
<1>4. r \in Thread /\ r.pc = "load" /\ r.parts = n /\ r.call = th[t].call /\ r.fd = th[t].fd
  BY <1>1, <1>2 DEF Thread, Label
<1>5. th' = [th EXCEPT ![t] = [th[t] EXCEPT !.pc = "load", !.parts = n]]
  BY <1>3
<1> HIDE DEF r
<1>6. /\ th' \in [Threads -> Thread] /\ th'[t] = r
      /\ \A u \in Threads : u # t => th'[u] = th[u]
  BY <1>1, <1>3, <1>4
<1>7. TypeOK' /\ ThreadInv'
  BY <1>1, <1>2, <1>4, <1>6 DEF TypeOK, TableOK, ThreadInv
<1>8. Fine(t)' /\ Ready
  BY <1>1, <1>4, <1>6 DEF Fine, Ready
<1>9. LogInv'
  BY <1>1, <1>6, <1>8, Elsewhere
<1>10. QED
  BY <1>1, <1>2, <1>5, <1>7, <1>9, TellSeen

\* A step of the command
LEMMA RunsStep ==
  ASSUME Careful, CommandInv, Runs
  PROVE  CommandInv' /\ [Promise!Next]_(Promise!vars)
<1>1. /\ OneCloser /\ TypeOK /\ ThreadInv /\ LogInv /\ LaunchInv
      /\ phase = "running" /\ UNCHANGED launchVars
  BY CarefulClosing DEF CommandInv, Runs
<1>2. (TypeOK /\ ThreadInv /\ LogInv)' /\ [Promise!Next]_(Promise!vars)
  <2>1. CASE Next
    <3>1. (TypeOK /\ ThreadInv /\ LogInv)'
      BY <1>1, <2>1, TypeStep, LogStep
    <3>2. QED
      BY <1>1, <2>1, <3>1, PromiseStep
  <2>2. ASSUME version # "final", NEW t \in Threads, FirstStep(t)
        PROVE  (TypeOK /\ ThreadInv /\ LogInv)' /\ [Promise!Next]_(Promise!vars)
    BY <1>1, <2>1, <2>2, FirstStepIs, FirstEnterIs, FirstLineIs DEF Promise!Next
  <2>3. QED
    BY <2>1, <2>2 DEF Runs
<1>3. LaunchInv'
  <2>1. CASE version = "final"
    BY <1>1, <2>1 DEF LaunchInv, launchVars
  <2>2. CASE version # "final"
    <3>1. PICK t \in Threads : FirstStep(t)
      BY <2>2 DEF Runs
    <3>2. stderr_fd' = stderr_fd /\ OUTPUT_FILE' = OUTPUT_FILE
      BY <3>1 DEF FirstStep, FirstEnter, ActOpens, ActCloses, ActElse, FirstLine, FirstLoad, PrintWrite
    <3>3. stderr_fd = 2 /\ table[2] \in Logs
      BY <1>1, <2>2 DEF LaunchInv
    <3>4. table' = table \/ th'[t].pc = "line"
      BY <1>1, <3>1, GoesType
      DEF FirstStep, FirstEnter, ActOpens, ActCloses, ActElse, FirstLine, FirstLoad, PrintWrite, Label
    <3>5. th'[t].pc = "line" => Ready'
      BY DEF Ready
    <3>6. table'[2] \in Logs'
      BY <1>2, <3>2, <3>3, <3>4, <3>5 DEF LogInv, LogUp, Logs
    <3>7. QED
      BY <1>1, <3>2, <3>3, <3>6 DEF LaunchInv, launchVars
  <2>3. QED
    BY <2>1, <2>2
<1>4. QED
  BY <1>2, <1>3 DEF CommandInv

LEMMA LaunchInitInv == LaunchInit => CommandInv
<1> SUFFICES ASSUME LaunchInit PROVE CommandInv
  OBVIOUS
<1>1. Init /\ version \in Versions /\ phase = "typed"
  BY DEF LaunchInit
<1>2. TypeOK /\ ThreadInv /\ LogInv
  BY <1>1, InitType, LogInit
<1>3. table[2] = "err"
  BY <1>1, TableAssumption DEF Init, TableInit, Fd
<1>4. LaunchInv
  BY <1>1, <1>3 DEF Init, LaunchInv, Idle
<1>5. QED
  BY <1>2, <1>4 DEF CommandInv

\* Where nothing runs, the log is a matter of descriptor 2.
LEMMA IdleLog ==
  ASSUME stderr_fd = 2, own = [t \in Threads |-> {}],
         \A t \in Threads : th[t].pc = "user", Ready => table[2] \in Logs
  PROVE  LogInv
  BY DEF LogInv, LogUp, OwnOpen, Disjoint, Fine

\* and a launcher's step is none of the call log.
LEMMA IdleUnseen ==
  ASSUME Idle, Idle' \/ UNCHANGED vars, UNCHANGED <<th, own>>
  PROVE  UNCHANGED <<PhaseNow, LeftNow, SinkNow, own>>
<1>1. \A t \in Threads : th[t].pc = "user" /\ th'[t].pc = "user"
  BY DEF Idle, vars
<1>2. \A t \in Threads : Sink(t, Logs) = "none" /\ Sink(t, Logs)' = "none"
  BY <1>1 DEF Sink, At
<1>3. UNCHANGED PhaseNow
  BY DEF PhaseNow, Phase
<1>4. QED
  BY <1>2, <1>3 DEF LeftNow, SinkNow

LEMMA PromiseStutters ==
  ASSUME UNCHANGED <<PhaseNow, LeftNow, SinkNow, own>>
  PROVE  [Promise!Next]_(Promise!vars)
  BY DEF Promise!vars, PhaseNow, LeftNow, SinkNow

\* OUTPUT_FILE is set, and nothing else that the command sees.
LEMMA ParseStep ==
  ASSUME CommandInv, Parse
  PROVE  CommandInv' /\ [Promise!Next]_(Promise!vars)
<1>1. /\ version = "final" /\ version' = version /\ phase = "typed" /\ phase' = "parsed"
      /\ UNCHANGED <<table, threadVars>> /\ OUTPUT_FILE' \in {"STDERR", "file"}
  BY DEF Parse, Parsed
<1>2. TypeOK /\ ThreadInv /\ LaunchInv /\ Idle
  BY <1>1 DEF CommandInv, LaunchInv
<1>3. TypeOK' /\ ThreadInv'
  BY <1>1, <1>2 DEF threadVars, TypeOK, TableOK, ThreadInv
<1>4. Idle'
  BY <1>1, <1>2 DEF threadVars, Idle
<1>5. LaunchInv'
  BY <1>1, <1>2, <1>4 DEF LaunchInv
<1>6. LogInv'
  <2>1. Ready' => OUTPUT_FILE' = "STDERR"
    BY <1>4 DEF Ready, Idle
  <2>2. Ready' => table'[2] \in Logs'
    BY <1>1, <1>4, <2>1 DEF Idle, Logs
  <2>3. QED
    BY <1>4, <2>2, IdleLog DEF Idle, LogInv, LogUp, OwnOpen, Disjoint, Fine
<1>7. QED
  BY <1>1, <1>2, <1>3, <1>4, <1>5, <1>6, IdleUnseen, PromiseStutters DEF CommandInv, threadVars

\* The first revision opens the log itself.
LEMMA FirstParseStep ==
  ASSUME CommandInv, FirstParse
  PROVE  CommandInv' /\ [Promise!Next]_(Promise!vars)
<1>1. /\ version = "first" /\ version' = version /\ phase = "typed" /\ phase' = "parsed"
      /\ UNCHANGED threadVars /\ OUTPUT_FILE' \in {"STDERR", "file"}
  BY DEF FirstParse, Parsed
<1>2. TypeOK /\ ThreadInv /\ LaunchInv /\ Idle /\ table[2] = "err" /\ 2 \in Fd
  BY <1>1, TableAssumption DEF CommandInv, LaunchInv, Idle, Fd
<1>3. table' \in [Fd -> File \union {"closed"}] /\ table'[2] \in Logs'
  <2>1. CASE table' = [table EXCEPT ![2] = "log"] /\ OUTPUT_FILE' = "file"
    BY <1>2, <2>1 DEF TypeOK, TableOK, File, Logs
  <2>2. CASE (\E n \in OpenResults : table' = Opened(n, "err")) /\ OUTPUT_FILE' = "STDERR"
    <3>1. PICK n \in OpenResults : table' = Opened(n, "err")
      BY <2>2
    <3>2. TableOK /\ "err" \in File
      BY <1>2 DEF TypeOK, File
    <3>3. n # 2
      BY <1>2, <3>1, <3>2, ResultClosed
    <3>4. /\ table' \in [Fd -> File \union {"closed"}]
          /\ table'[2] = "err"
      BY <1>2, <3>1, <3>2, <3>3, OpenedTable
    <3>5. QED
      BY <2>2, <3>4 DEF Logs
  <2>3. CASE UNCHANGED table /\ OUTPUT_FILE' = "STDERR"
    BY <1>2, <2>3 DEF TypeOK, TableOK, Logs
  <2>4. QED
    BY <2>1, <2>2, <2>3 DEF FirstParse
<1>4. TypeOK' /\ ThreadInv'
  BY <1>1, <1>2, <1>3 DEF threadVars, TypeOK, TableOK, ThreadInv
<1>5. Idle'
  BY <1>1, <1>2 DEF threadVars, Idle
<1>6. LaunchInv'
  BY <1>1, <1>2, <1>3, <1>5 DEF LaunchInv, Idle
<1>7. LogInv'
  BY <1>3, <1>5 DEF Idle, LogInv, LogUp, OwnOpen, Disjoint, Fine
<1>8. QED
  BY <1>1, <1>2, <1>4, <1>5, <1>6, <1>7, IdleUnseen, PromiseStutters DEF CommandInv, threadVars

\* Steps that leave the process as it is
LEMMA StillStep ==
  ASSUME CommandInv, Refuse \/ Exec \/ Ended \/ UNCHANGED <<vars, launchVars>>
  PROVE  CommandInv' /\ [Promise!Next]_(Promise!vars)
<1>1. /\ UNCHANGED <<vars, version>>
      /\ \/ phase' = phase
         \/ phase \in {"typed", "parsed"} /\ phase' = "over"
         \/ phase = "parsed" /\ phase' = "running"
  BY DEF Refuse, Exec, Ended, launchVars
<1>2. TypeOK /\ ThreadInv /\ LogInv /\ LaunchInv
  BY DEF CommandInv
<1>3. UNCHANGED <<table, cwd, OUTPUT_FILE, fd_flag, stderr_fd, own, th>>
  BY <1>1 DEF vars
<1>4. (TypeOK /\ ThreadInv /\ LogInv)'
  BY <1>2, <1>3 DEF TypeOK, TableOK, ThreadInv, LogInv, LogUp, Ready, OwnOpen, Disjoint, Fine, Logs
<1>5. LaunchInv'
  BY <1>1, <1>2, <1>3 DEF LaunchInv, Idle, Logs
<1>6. UNCHANGED <<PhaseNow, LeftNow, SinkNow, own>>
  BY <1>3 DEF PhaseNow, LeftNow, SinkNow, Phase, Sink, At, Logs
<1>7. QED
  BY <1>4, <1>5, <1>6, PromiseStutters DEF CommandInv

LEMMA LaunchStep ==
  ASSUME Careful, CommandInv, [LaunchNext]_<<vars, launchVars>>
  PROVE  CommandInv' /\ [Promise!Next]_(Promise!vars)
  BY ParseStep, FirstParseStep, RunsStep, StillStep DEF LaunchNext

LEMMA CommandInvHolds ==
  ASSUME Careful
  PROVE  LaunchSpec => []CommandInv
<1>1. LaunchInit => CommandInv
  BY LaunchInitInv
<1>2. CommandInv /\ [LaunchNext]_<<vars, launchVars>> => CommandInv'
  BY LaunchStep
<1>3. QED
  BY <1>1, <1>2, PTL DEF LaunchSpec

\* In either revision, whatever is launched, descriptors are within the table and a thread
\* has one piece of its line at least to write when it writes (hw2.cpp, logger.cpp).
THEOREM LaunchedTypeCorrect ==
  ASSUME Careful
  PROVE  LaunchSpec => []TypeOK
<1>1. CommandInv => TypeOK
  BY DEF CommandInv
<1>2. QED
  BY <1>1, CommandInvHolds, PTL

\* What the launcher starts finds its log open whatever it closes (logger.cpp:138-141).
THEOREM LaunchedLogOpen ==
  ASSUME Careful
  PROVE  LaunchSpec => []LogOpen
<1>1. CommandInv => LogOpen
  BY DEF CommandInv, LogInv, LogUp, Ready, LogOpen
<1>2. QED
  BY <1>1, CommandInvHolds, PTL

\* No line gets into a file of the program, in the first revision neither, where the log is
\* descriptor 2 (logger.cpp:37-58; 0616078_hw2/hw2.cpp and logger.cpp).
THEOREM LaunchedNoStray ==
  ASSUME Careful
  PROVE  LaunchSpec => []NoStray
<1>1. CommandInv => NoStray
  BY DEF CommandInv, LogInv, Fine, NoStray, At
<1>2. QED
  BY <1>1, CommandInvHolds, PTL

\* The log's descriptor is never one of the program's (logger.cpp:140, 224).
THEOREM LaunchedApart ==
  ASSUME Careful
  PROVE  LaunchSpec => []Apart
<1>1. CommandInv => Apart
  BY DEF CommandInv, LogInv, OwnOpen, Apart
<1>2. QED
  BY <1>1, CommandInvHolds, PTL

\* Either logger.so, started by its launcher, implements the call log: a call takes effect
\* once, its line goes to the log and nowhere else before it returns, and a thread's
\* descriptors are its own, however the threads race (logger.cpp:37-78, and every wrapper).
THEOREM LaunchedCallsLogged ==
  ASSUME Careful
  PROVE  LaunchSpec => CallsLogged
<1>1. LaunchInit => CommandInv /\ Promise!Init
  BY LaunchInitInv, PromiseInit DEF LaunchInit
<1>2. CommandInv /\ [LaunchNext]_<<vars, launchVars>> =>
        CommandInv' /\ [Promise!Next]_(Promise!vars)
  BY LaunchStep
<1>3. QED
  BY <1>1, <1>2, PTL DEF LaunchSpec, CallsLogged, Promise!Spec

-----------------------------------------------------------------------------
(* What the launcher makes of its command line.                            *)

\* The words of the launcher's options, and of "--"
Options == (IF told.out THEN 2 ELSE 0) + (IF told.path THEN 2 ELSE 0)
Dash == IF told.dash THEN 1 ELSE 0

AllWords == {"-o", "log.txt", "-p", "my.so", "--"} \union Words

\* Two sequences, one behind the other
LEMMA Joined ==
  ASSUME NEW S, NEW s \in Seq(S), NEW t \in Seq(S)
  PROVE  /\ s \o t \in Seq(S) /\ Len(s \o t) = Len(s) + Len(t)
         /\ \A i \in 1..Len(s) : (s \o t)[i] = s[i]
         /\ \A i \in 1..Len(t) : (s \o t)[Len(s) + i] = t[i]
<1>1. Len(s) \in Nat /\ Len(t) \in Nat
  BY LenProperties
<1>2. QED
  BY <1>1, ConcatProperties

\* An option of the launcher with its argument
LEMMA OptionPair ==
  ASSUME NEW S, NEW a \in S, NEW b \in S, NEW given \in BOOLEAN, NEW s,
         s = IF given THEN <<a, b>> ELSE <<>>
  PROVE  /\ s \in Seq(S) /\ Len(s) = (IF given THEN 2 ELSE 0)
         /\ given => s[1] = a /\ s[2] = b
<1>1. CASE given
  BY <1>1
<1>2. CASE ~given
  BY <1>2, EmptySeq
<1>3. QED
  BY <1>1, <1>2

LEMMA DashWord ==
  ASSUME NEW S, NEW a \in S, NEW given \in BOOLEAN, NEW s,
         s = IF given THEN <<a>> ELSE <<>>
  PROVE  s \in Seq(S) /\ Len(s) = (IF given THEN 1 ELSE 0) /\ (given => s[1] = a)
<1>1. CASE given
  BY <1>1
<1>2. CASE ~given
  BY <1>2, EmptySeq
<1>3. QED
  BY <1>1, <1>2

LEMMA ArgvShape ==
  ASSUME told \in Told
  PROVE  /\ Len(told.cmd) \in Nat /\ Options \in {0, 2, 4} /\ Dash \in {0, 1}
         /\ DOMAIN told.cmd = 1..Len(told.cmd) /\ DOMAIN Argv = 1..Len(Argv)
         /\ told.cmd \in Seq(AllWords) /\ Argv \in Seq(AllWords)
         /\ Len(Argv) = Options + Dash + Len(told.cmd)
         /\ told.out => Options \in {2, 4} /\ Argv[1] = "-o" /\ Argv[2] = "log.txt"
         /\ told.path => Options \in {2, 4} /\ Argv[Options - 1] = "-p" /\ Argv[Options] = "my.so"
         /\ told.dash => Argv[Options + 1] = "--"
         /\ \A i \in 1..Len(told.cmd) : Argv[Options + Dash + i] = told.cmd[i]
<1> DEFINE S == AllWords
           O == IF told.out THEN <<"-o", "log.txt">> ELSE <<>>
           P == IF told.path THEN <<"-p", "my.so">> ELSE <<>>
           D == IF told.dash THEN <<"--">> ELSE <<>>
<1>1. /\ told.out \in BOOLEAN /\ told.path \in BOOLEAN /\ told.dash \in BOOLEAN
      /\ \E n \in 0..MaxWords : told.cmd \in [1..n -> Words]
  BY DEF Told
<1>2. told.cmd \in Seq(S) /\ Len(told.cmd) \in Nat /\ DOMAIN told.cmd = 1..Len(told.cmd)
  <2>1. PICK n \in 0..MaxWords : told.cmd \in [1..n -> Words]
    BY <1>1
  <2>2. n \in Nat
    BY <2>1
  <2>3. told.cmd \in Seq(Words) /\ Words \subseteq S
    BY <2>1, <2>2, SeqDef DEF AllWords
  <2>4. told.cmd \in Seq(S)
    BY <2>3, SeqMonotonic
  <2>5. QED
    BY <2>4, LenProperties
<1>3. {"-o", "log.txt", "-p", "my.so", "--"} \subseteq S
  BY DEF AllWords
<1> HIDE DEF S
<1>4. /\ O \in Seq(S) /\ P \in Seq(S)
      /\ Len(O) = (IF told.out THEN 2 ELSE 0) /\ (told.out => O[1] = "-o" /\ O[2] = "log.txt")
      /\ Len(P) = (IF told.path THEN 2 ELSE 0) /\ (told.path => P[1] = "-p" /\ P[2] = "my.so")
  <2>1. "-o" \in S /\ "log.txt" \in S /\ "-p" \in S /\ "my.so" \in S
    BY <1>3
  <2>2. /\ O \in Seq(S)
        /\ Len(O) = (IF told.out THEN 2 ELSE 0) /\ (told.out => O[1] = "-o" /\ O[2] = "log.txt")
    BY <1>1, <2>1, OptionPair
  <2>3. /\ P \in Seq(S)
        /\ Len(P) = (IF told.path THEN 2 ELSE 0) /\ (told.path => P[1] = "-p" /\ P[2] = "my.so")
    BY <1>1, <2>1, OptionPair
  <2>4. QED
    BY <2>2, <2>3
<1>5. D \in Seq(S) /\ Len(D) = Dash /\ (told.dash => D[1] = "--")
  BY <1>1, <1>3, DashWord DEF Dash
<1> DEFINE A == O \o P
           B == A \o D
<1>6. Argv = B \o told.cmd
  BY <1>1, <1>2, <1>4, <1>5, ConcatAssociative, ConcatProperties DEF Argv
<1> HIDE DEF O, P, D
<1>7. Options \in {0, 2, 4} /\ Dash \in {0, 1} /\ Options = Len(O) + Len(P)
  BY <1>4 DEF Options, Dash
<1>8. /\ A \in Seq(S) /\ Len(A) = Options
      /\ told.out => A[1] = "-o" /\ A[2] = "log.txt"
      /\ told.path => A[Options - 1] = "-p" /\ A[Options] = "my.so"
  <2>1. /\ A \in Seq(S) /\ Len(A) = Len(O) + Len(P)
        /\ \A i \in 1..Len(O) : A[i] = O[i]
        /\ \A i \in 1..Len(P) : A[Len(O) + i] = P[i]
    BY <1>4, Joined
  <2> HIDE DEF A
  <2>2. told.out => A[1] = "-o" /\ A[2] = "log.txt"
    BY <1>4, <2>1
  <2>3. told.path => A[Len(O) + 1] = "-p" /\ A[Len(O) + 2] = "my.so"
    BY <1>4, <2>1
  <2>4. told.path => Options - 1 = Len(O) + 1 /\ Options = Len(O) + 2
    BY <1>4 DEF Options
  <2>5. QED
    BY <1>7, <2>1, <2>2, <2>3, <2>4
<1> HIDE DEF A
<1>9. /\ B \in Seq(S) /\ Len(B) = Options + Dash
      /\ \A i \in 1..Options : B[i] = A[i]
      /\ told.dash => B[Options + 1] = "--"
  <2>1. /\ B \in Seq(S) /\ Len(B) = Len(A) + Len(D)
        /\ \A i \in 1..Len(A) : B[i] = A[i]
        /\ \A i \in 1..Len(D) : B[Len(A) + i] = D[i]
    <3>1. A \in Seq(S) /\ D \in Seq(S)
      BY <1>5, <1>8
    <3>2. QED
      BY <3>1, Joined
  <2> HIDE DEF B
  <2>2. QED
    BY <1>5, <1>8, <2>1 DEF Dash
<1> HIDE DEF B
<1>10. /\ Argv \in Seq(S) /\ Len(Argv) = Options + Dash + Len(told.cmd)
       /\ \A i \in 1..(Options + Dash) : Argv[i] = B[i]
       /\ \A i \in 1..Len(told.cmd) : Argv[Options + Dash + i] = told.cmd[i]
  <2>1. B \in Seq(S) /\ told.cmd \in Seq(S)
    BY <1>2, <1>9
  <2>2. /\ Argv \in Seq(S) /\ Len(Argv) = Len(B) + Len(told.cmd)
        /\ \A i \in 1..Len(B) : Argv[i] = B[i]
        /\ \A i \in 1..Len(told.cmd) : Argv[Len(B) + i] = told.cmd[i]
    BY <1>6, <2>1, Joined
  <2>3. QED
    BY <1>9, <2>2
<1>11. told.out \/ told.path => Options \in {2, 4}
  BY <1>1 DEF Options
<1>12. \A i \in 1..Options : Argv[i] = A[i]
  <2>1. \A i \in 1..Options : i \in 1..(Options + Dash)
    BY <1>7
  <2>2. QED
    BY <1>9, <1>10, <2>1
<1>13. /\ told.out => Options \in {2, 4} /\ Argv[1] = "-o" /\ Argv[2] = "log.txt"
       /\ told.path => Options \in {2, 4} /\ Argv[Options - 1] = "-p" /\ Argv[Options] = "my.so"
  <2>1. Options \in {2, 4} => {1, 2, Options - 1, Options} \subseteq 1..Options
    OBVIOUS
  <2>2. QED
    BY <1>8, <1>11, <1>12, <2>1
<1>14. told.dash => Argv[Options + 1] = "--"
  <2>1. told.dash => Options + 1 \in 1..(Options + Dash)
    BY <1>7 DEF Dash
  <2>2. QED
    BY <1>9, <1>10, <2>1
<1>15. DOMAIN Argv = 1..Len(Argv)
  BY <1>10, LenProperties
<1>16. QED
  BY <1>2, <1>7, <1>10, <1>13, <1>14, <1>15 DEF S

\* Where the parts of a command line are
LEMMA Spans ==
  ASSUME NEW k \in {0, 2, 4}, NEW d \in {0, 1}, NEW n \in Nat, NEW len, len = k + d + n
  PROVE  /\ len \in Nat /\ len >= k /\ (d = 1 => k + 1 \in 1..len)
         /\ \A i \in 1..k : i \in 1..len
  OBVIOUS

\* Every word of the options is one of these.
LEMMA OptionWords ==
  ASSUME told \in Told, NEW i \in 1..Options
  PROVE  /\ Argv[i] \in {"-o", "-p", "log.txt", "my.so"}
         /\ Argv[i] \in {"-o", "-p"} <=> i \in {1, 3}
         /\ Argv[i] = "-o" <=> told.out /\ i = 1
         /\ Argv[i] = "-p" <=> told.path /\ i = Options - 1
<1>1. told.out \in BOOLEAN /\ told.path \in BOOLEAN
  BY DEF Told
<1>2. CASE told.out /\ told.path
  <2>1. Options = 4
    BY <1>2 DEF Options
  <2>2. Argv[1] = "-o" /\ Argv[2] = "log.txt" /\ Argv[3] = "-p" /\ Argv[4] = "my.so"
    BY <1>2, <2>1, ArgvShape
  <2>3. i \in {1, 2, 3, 4}
    BY <2>1
  <2>4. QED
    BY <1>2, <2>1, <2>2, <2>3
<1>3. CASE told.out /\ ~told.path
  <2>1. Options = 2
    BY <1>3 DEF Options
  <2>2. Argv[1] = "-o" /\ Argv[2] = "log.txt" /\ i \in {1, 2}
    BY <1>3, <2>1, ArgvShape
  <2>3. QED
    BY <1>3, <2>1, <2>2
<1>4. CASE ~told.out /\ told.path
  <2>1. Options = 2
    BY <1>4 DEF Options
  <2>2. Argv[1] = "-p" /\ Argv[2] = "my.so" /\ i \in {1, 2}
    BY <1>4, <2>1, ArgvShape
  <2>3. QED
    BY <1>4, <2>1, <2>2
<1>5. CASE ~told.out /\ ~told.path
  BY <1>5 DEF Options
<1>6. QED
  BY <1>1, <1>2, <1>3, <1>4, <1>5

\* Behind them, if nothing can be mistaken, there are "--" and the command, or the command.
LEMMA CommandWords ==
  ASSUME told \in Told, Clear, ~told.dash, NEW i \in DOMAIN Argv, i > Options
  PROVE  Argv[i] \notin {"-o", "-p", "--"}
<1>1. /\ Dash = 0 /\ Options \in {0, 2, 4} /\ Len(told.cmd) \in Nat
      /\ DOMAIN Argv = 1..(Options + Len(told.cmd)) /\ DOMAIN told.cmd = 1..Len(told.cmd)
  BY ArgvShape DEF Dash
<1>2. i - Options \in DOMAIN told.cmd /\ Options + Dash + (i - Options) = i
  BY <1>1
<1>3. Argv[i] = told.cmd[i - Options]
  BY <1>1, <1>2, ArgvShape
<1>4. QED
  BY <1>2, <1>3 DEF Clear, LooksLikeOption

LEMMA DashFound ==
  ASSUME told \in Told, Clear
  PROVE  DashIdx = IF told.dash THEN Options + 1 ELSE -1
<1>1. /\ Options \in {0, 2, 4} /\ DOMAIN Argv = 1..Len(Argv) /\ Len(Argv) \in Nat
      /\ told.dash \in BOOLEAN
  BY ArgvShape DEF Told
<1>2. \A i \in 1..Options : Argv[i] # "--"
  BY OptionWords
<1>3. CASE told.dash
  <2>1. Options + 1 \in DOMAIN Argv /\ Argv[Options + 1] = "--"
    <3>1. Dash = 1 /\ Len(Argv) = Options + Dash + Len(told.cmd) /\ Len(told.cmd) \in Nat
      BY <1>3, ArgvShape DEF Dash
    <3>2. Argv[Options + 1] = "--"
      BY <1>3, ArgvShape
    <3>3. Options + 1 \in 1..Len(Argv)
      BY <1>1, <3>1, Spans
    <3>4. QED
      BY <1>1, <3>2, <3>3
  <2> DEFINE Is(i) == Argv[i] = "--" /\ \A j \in 1..(i - 1) : Argv[j] # "--"
  <2>2. Is(Options + 1)
    BY <1>1, <1>2, <2>1
  <2>3. \A i \in DOMAIN Argv : Is(i) => i = Options + 1
    BY <1>1, <1>2, <2>1
  <2>4. (CHOOSE i \in DOMAIN Argv : Is(i)) = Options + 1
    <3> HIDE DEF Is
    <3>1. QED
      BY <2>1, <2>2, <2>3
  <2>5. QED
    BY <1>3, <2>1, <2>4 DEF DashIdx
<1>4. CASE ~told.dash
  <2>1. \A i \in DOMAIN Argv : Argv[i] # "--"
    BY <1>1, <1>2, <1>4, CommandWords
  <2>2. QED
    BY <1>4, <2>1 DEF DashIdx
<1>5. QED
  BY <1>1, <1>3, <1>4

\* What getopt gets begins with the options, and none is behind them.
LEMMA LogArgvShape ==
  ASSUME told \in Told, Clear
  PROVE  /\ DOMAIN LogArgv = 1..Len(LogArgv) /\ Len(LogArgv) \in Nat
         /\ Len(LogArgv) >= Options
         /\ \A i \in 1..Len(LogArgv) : LogArgv[i] \in {"-o", "-p"} => i \in 1..Options
         /\ \A i \in 1..Options : LogArgv[i] = Argv[i]
<1>1. /\ Argv \in Seq(AllWords) /\ DOMAIN Argv = 1..Len(Argv) /\ Options \in {0, 2, 4}
      /\ told.dash \in BOOLEAN
      /\ Len(Argv) = Options + Dash + Len(told.cmd) /\ Len(told.cmd) \in Nat /\ Dash \in {0, 1}
  BY ArgvShape DEF Told
<1>2. CASE told.dash
  <2>1. LogArgv = SubSeq(Argv, 1, Options)
    <3>1. DashIdx = Options + 1
      BY <1>2, DashFound
    <3>2. DashIdx # -1 /\ DashIdx - 1 = Options
      BY <1>1, <3>1
    <3>3. QED
      BY <3>2 DEF LogArgv
  <2>2. \A i \in 1..Options : Argv[i] \in AllWords
    <3>1. \A i \in 1..Options : i \in 1..Len(Argv)
      BY <1>1, Spans
    <3>2. QED
      BY <1>1, <3>1, ElementOfSeq
  <2>3. /\ SubSeq(Argv, 1, Options) \in Seq(AllWords)
        /\ Len(SubSeq(Argv, 1, Options)) = IF 1 <= Options THEN Options - 1 + 1 ELSE 0
        /\ \A i \in 1..(Options - 1 + 1) : SubSeq(Argv, 1, Options)[i] = Argv[1 + i - 1]
    <3>1. 1 \in Int /\ Options \in Int
      BY <1>1
    <3>2. QED
      BY <2>2, <3>1, SubSeqProperties
  <2>4. LogArgv \in Seq(AllWords) /\ Len(LogArgv) = Options
    <3>1. (IF 1 <= Options THEN Options - 1 + 1 ELSE 0) = Options
      BY <1>1
    <3>2. QED
      BY <2>1, <2>3, <3>1
  <2>5. \A i \in 1..Options : LogArgv[i] = Argv[i]
    <3>1. \A i \in 1..Options : i \in 1..(Options - 1 + 1) /\ 1 + i - 1 = i
      BY <1>1
    <3>2. QED
      BY <2>1, <2>3, <3>1
  <2>6. DOMAIN LogArgv = 1..Options
    BY <2>4, LenProperties
  <2>7. Options \in Nat /\ Options >= Options
    BY <1>1
  <2>8. QED
    BY <2>4, <2>5, <2>6, <2>7
<1>3. CASE ~told.dash
  <2>1. LogArgv = Argv
    BY <1>3, DashFound DEF LogArgv
  <2>2. \A i \in DOMAIN Argv : Argv[i] \in {"-o", "-p"} => i \in 1..Options
    <3>1. \A i \in DOMAIN Argv : i > Options \/ i \in 1..Options
      BY <1>1
    <3>2. QED
      BY <1>3, <3>1, CommandWords
  <2>3. Len(Argv) \in Nat /\ Len(Argv) >= Options
    BY <1>1, Spans
  <2>4. QED
    BY <1>1, <2>1, <2>2, <2>3
<1>4. QED
  BY <1>1, <1>2, <1>3

\* The word behind an option is its argument, and no other is.
LEMMA OptargIs ==
  ASSUME told \in Told, Clear
  PROVE  \A i \in 1..Options : i \in {1, 3} => ~Optarg[i]
<1> DEFINE L == 0..Len(LogArgv)
           Next1(f, i) == i > 1 /\ LogArgv[i - 1] \in {"-o", "-p"} /\ ~f[i - 1]
           g == [i \in L |-> i \in {2, 4} /\ i - 1 \in 1..Options]
<1>1. /\ Len(LogArgv) \in Nat /\ Options \in {0, 2, 4} /\ Len(LogArgv) >= Options
  BY ArgvShape, LogArgvShape
<1>2. \A i \in 1..Len(LogArgv) :
        LogArgv[i] \in {"-o", "-p"} <=> i \in {1, 3} /\ i \in 1..Options
  BY <1>1, LogArgvShape, OptionWords
<1>3. ASSUME NEW i \in L PROVE g[i] = Next1(g, i)
  <2>1. CASE i \in {0, 1}
    BY <1>1, <2>1
  <2>2. CASE i > 1
    <3>1. i \in Nat /\ i - 1 \in 1..Len(LogArgv) /\ i - 1 \in L
      BY <1>1, <2>2
    <3>2. LogArgv[i - 1] \in {"-o", "-p"} <=> i \in {2, 4} /\ i - 1 \in 1..Options
      BY <1>2, <3>1
    <3>3. g[i] = (i \in {2, 4} /\ i - 1 \in 1..Options)
      OBVIOUS
    <3>4. i \in {2, 4} => ~g[i - 1]
      <4>1. g[i - 1] = (i - 1 \in {2, 4} /\ i - 1 - 1 \in 1..Options)
        BY <3>1
      <4>2. i \in {2, 4} => ~(i - 1 \in {2, 4})
        OBVIOUS
      <4>3. QED
        BY <4>1, <4>2
    <3>5. QED
      BY <2>2, <3>2, <3>3, <3>4
  <2>3. QED
    BY <1>1, <2>1, <2>2
<1>4. g = [i \in L |-> Next1(g, i)]
  BY <1>3
<1>5. Optarg = CHOOSE f : f = [i \in L |-> Next1(f, i)]
  BY DEF Optarg
<1>6. Optarg = [i \in L |-> Next1(Optarg, i)]
  <2> HIDE DEF L, g, Next1
  <2>1. QED
    BY <1>4, <1>5
<1>7. ASSUME NEW i \in {1, 3}, i \in 1..Options PROVE ~Optarg[i]
  <2>1. i \in L
    BY <1>1, <1>7
  <2>2. Optarg[i] = Next1(Optarg, i)
    <3> HIDE DEF L, Next1
    <3>1. QED
      BY <1>6, <2>1
  <2>3. i > 1 => ~(LogArgv[i - 1] \in {"-o", "-p"})
    BY <1>1, <1>2, <1>7
  <2>4. QED
    BY <2>2, <2>3
<1>8. QED
  BY <1>7

\* getopt finds the options that were given.
LEMMA OptsAre ==
  ASSUME told \in Told, Clear
  PROVE  /\ Opts("-o") = (IF told.out THEN {1} ELSE {})
         /\ Opts("-p") = (IF told.path THEN {Options - 1} ELSE {})
<1>1. /\ DOMAIN LogArgv = 1..Len(LogArgv) /\ Len(LogArgv) \in Nat /\ Len(LogArgv) >= Options
      /\ Options \in {0, 2, 4}
      /\ told.out => Options \in {2, 4}
      /\ told.path => Options \in {2, 4}
  BY ArgvShape, LogArgvShape
<1>2. \A i \in DOMAIN LogArgv :
        /\ LogArgv[i] = "-o" <=> told.out /\ i = 1 /\ i \in 1..Options
        /\ LogArgv[i] = "-p" <=> told.path /\ i = Options - 1 /\ i \in 1..Options
  BY <1>1, LogArgvShape, OptionWords
<1>3. 1..Options \subseteq DOMAIN LogArgv
  BY <1>1
<1>4. ASSUME told.out PROVE 1 \in 1..Options /\ ~Optarg[1]
  BY <1>1, <1>4, OptargIs
<1>5. ASSUME told.path PROVE Options - 1 \in 1..Options /\ ~Optarg[Options - 1]
  <2>1. Options - 1 \in {1, 3} /\ Options - 1 \in 1..Options
    BY <1>1, <1>5
  <2>2. QED
    BY <2>1, OptargIs
<1>6. QED
  BY <1>2, <1>3, <1>4, <1>5 DEF Opts

LEMMA Singles == ASSUME NEW x PROVE IsFiniteSet({x}) /\ Cardinality({x}) = 1
  BY FS_Singleton, Zenon

LEMMA OneAndThree == Cardinality({1} \union {3}) = 2
<1>1. IsFiniteSet({1}) /\ Cardinality({1}) = 1 /\ 3 \notin {1}
  BY Singles
<1>2. Cardinality({1} \union {3}) = IF 3 \in {1} THEN Cardinality({1}) ELSE Cardinality({1}) + 1
  BY <1>1, FS_AddElement
<1>3. QED
  BY <1>1, <1>2

LEMMA PairsCounted ==
  ASSUME told \in Told, Clear
  PROVE  2 * Cardinality(Opts("-o") \union Opts("-p")) = Options
<1>1. told.out \in BOOLEAN /\ told.path \in BOOLEAN
  BY DEF Told
<1>2. CASE told.out /\ told.path
  <2>1. Options = 4
    BY <1>2 DEF Options
  <2>2. Opts("-o") \union Opts("-p") = {1} \union {3}
    BY <1>2, <2>1, OptsAre
  <2>3. QED
    BY <2>1, <2>2, OneAndThree
<1>3. CASE told.out /\ ~told.path
  <2>1. Options = 2 /\ Opts("-o") \union Opts("-p") = {1}
    BY <1>3, OptsAre DEF Options
  <2>2. Cardinality(Opts("-o") \union Opts("-p")) = 1
    BY <2>1, Singles
  <2>3. QED
    BY <2>1, <2>2
<1>4. CASE ~told.out /\ told.path
  <2>1. Options = 2 /\ Opts("-o") \union Opts("-p") = {Options - 1}
    BY <1>4, OptsAre DEF Options
  <2>2. Cardinality(Opts("-o") \union Opts("-p")) = 1
    BY <2>1, Singles
  <2>3. QED
    BY <2>1, <2>2
<1>5. CASE ~told.out /\ ~told.path
  <2>1. Options = 0 /\ Opts("-o") \union Opts("-p") = {}
    BY <1>5, OptsAre DEF Options
  <2>2. QED
    BY <2>1, FS_EmptySet
<1>6. QED
  BY <1>1, <1>2, <1>3, <1>4, <1>5

LEMMA Beyond ==
  ASSUME NEW k \in {0, 2, 4}, NEW d \in {0, 1}, NEW n \in Nat, NEW len, len = k + d + n
  PROVE  /\ k + d + 1 > len <=> n = 0
         /\ k + d + 1 \in 1..len <=> n # 0
         /\ len - (k + d + 1) + 1 = n
  OBVIOUS

\* The command begins behind the options, and "--".
LEMMA CmdIdxIs ==
  ASSUME told \in Told, Clear
  PROVE  CmdIdx = IF version = "first" /\ Len(told.cmd) = 0 THEN Len(Argv)
                  ELSE Options + Dash + 1
<1>1. /\ Options \in {0, 2, 4} /\ Dash \in {0, 1} /\ Len(told.cmd) \in Nat
      /\ Len(Argv) = Options + Dash + Len(told.cmd) /\ told.dash \in BOOLEAN
  BY ArgvShape DEF Told
<1> DEFINE idx == IF DashIdx # -1 THEN DashIdx + 1
                  ELSE 2 * Cardinality(Opts("-o") \union Opts("-p")) + 1
<1>2. idx = Options + Dash + 1
  <2>1. CASE told.dash
    BY <1>1, <2>1, DashFound DEF Dash
  <2>2. CASE ~told.dash
    BY <1>1, <2>2, DashFound, PairsCounted DEF Dash
  <2>3. QED
    BY <1>1, <2>1, <2>2
<1>3. CmdIdx = IF version = "first" /\ idx > Len(Argv) THEN Len(Argv) ELSE idx
  BY DEF CmdIdx
<1> HIDE DEF idx
<1>4. idx > Len(Argv) <=> Len(told.cmd) = 0
  <2>1. Options + Dash + 1 > Len(Argv) <=> Len(told.cmd) = 0
    BY <1>1, Beyond
  <2>2. QED
    BY <1>2, <2>1
<1>5. QED
  BY <1>2, <1>3, <1>4

\* Until the command runs, the log and the logger.so are what was asked for.
ToldInv ==
  /\ phase \in {"typed", "parsed"} => told \in Told
  /\ phase = "parsed" /\ Clear =>
       /\ \/ OUTPUT_FILE = (IF told.out THEN "file" ELSE "STDERR")
          \/ version = "first" /\ OUTPUT_FILE = "STDERR"
       /\ preload = (IF told.path THEN "given" ELSE "default")

LEMMA ToldInit == LaunchInit => ToldInv
  BY DEF LaunchInit, ToldInv

\* What both revisions do with -p
LEMMA ParsedTold ==
  ASSUME ToldInv, Parsed
  PROVE  /\ phase = "typed" /\ phase' = "parsed" /\ told \in Told /\ told' = told
         /\ version' = version /\ Clear' = Clear
         /\ Clear => preload' = IF told.path THEN "given" ELSE "default"
<1>1. phase = "typed" /\ phase' = "parsed" /\ told \in Told /\ told' = told /\ version' = version
  BY DEF ToldInv, Parsed
<1>2. Clear' = Clear
  BY <1>1 DEF Clear, LooksLikeOption
<1>3. ASSUME Clear PROVE preload' = IF told.path THEN "given" ELSE "default"
  <2>1. Opts("-p") = {} <=> ~told.path
    BY <1>1, <1>3, OptsAre
  <2>2. QED
    BY <2>1 DEF Parsed
<1>4. QED
  BY <1>1, <1>2, <1>3

LEMMA ToldStep ==
  ASSUME ToldInv, [LaunchNext]_<<vars, launchVars>>
  PROVE  ToldInv'
<1>1. CASE Parse
  <2>1. Parsed /\ OUTPUT_FILE' = IF Opts("-o") = {} THEN "STDERR" ELSE "file"
    BY <1>1 DEF Parse
  <2>2. Clear => OUTPUT_FILE' = IF told.out THEN "file" ELSE "STDERR"
    <3>1. ASSUME Clear PROVE Opts("-o") = {} <=> ~told.out
      BY <2>1, <3>1, ParsedTold, OptsAre
    <3>2. QED
      BY <2>1, <3>1
  <2>3. QED
    BY <2>1, <2>2, ParsedTold DEF ToldInv
<1>2. CASE FirstParse
  <2>1. Parsed /\ version = "first"
    BY <1>2 DEF FirstParse
  <2>2. ASSUME Clear PROVE Opts("-o") = {} <=> ~told.out
    BY <2>1, <2>2, ParsedTold, OptsAre
  <2>3. CASE Opts("-o") # {}
    BY <1>2, <2>1, <2>2, <2>3, ParsedTold DEF FirstParse, ToldInv
  <2>4. CASE Opts("-o") = {}
    BY <1>2, <2>1, <2>2, <2>4, ParsedTold DEF FirstParse, ToldInv
  <2>5. QED
    BY <2>3, <2>4
<1>3. CASE Refuse \/ Exec \/ Runs \/ Ended
  <2>1. phase' \in {"running", "over"}
    BY <1>3 DEF Refuse, Exec, Runs, Ended, launchVars
  <2>2. QED
    BY <2>1 DEF ToldInv
<1>4. CASE UNCHANGED <<vars, launchVars>>
  BY <1>4 DEF ToldInv, vars, launchVars, Clear, LooksLikeOption
<1>5. QED
  BY <1>1, <1>2, <1>3, <1>4 DEF LaunchNext

\* The words behind the options are the command.
LEMMA CommandFound ==
  ASSUME told \in Told, Clear, told.cmd # <<>>
  PROVE  SubSeq(Argv, CmdIdx, Len(Argv)) = told.cmd
<1> DEFINE m == Options + Dash + 1
           n == Len(told.cmd)
<1>1. /\ Options \in {0, 2, 4} /\ Dash \in {0, 1} /\ n \in Nat
      /\ Argv \in Seq(AllWords) /\ told.cmd \in Seq(AllWords)
      /\ Len(Argv) = Options + Dash + n
      /\ \A i \in 1..n : Argv[Options + Dash + i] = told.cmd[i]
  BY ArgvShape
<1>2. n # 0
  BY <1>1, EmptySeq
<1>3. CmdIdx = m
  BY <1>2, CmdIdxIs
<1>4. Len(Argv) - m + 1 = n /\ 1 <= m /\ m <= Len(Argv) /\ m \in Int /\ Len(Argv) \in Int
  BY <1>1, <1>2
<1>5. \A i \in 1..n : m + i - 1 = Options + Dash + i
  BY <1>1
<1> HIDE DEF m, n
<1>6. \A i \in m..Len(Argv) : Argv[i] \in AllWords
  <2>1. \A i \in m..Len(Argv) : i \in 1..Len(Argv)
    BY <1>4
  <2>2. QED
    BY <1>1, <2>1, ElementOfSeq
<1>7. /\ SubSeq(Argv, m, Len(Argv)) \in Seq(AllWords)
      /\ Len(SubSeq(Argv, m, Len(Argv))) = n
      /\ \A i \in 1..n : SubSeq(Argv, m, Len(Argv))[i] = Argv[m + i - 1]
  <2>1. /\ SubSeq(Argv, m, Len(Argv)) \in Seq(AllWords)
        /\ Len(SubSeq(Argv, m, Len(Argv))) = IF m <= Len(Argv) THEN Len(Argv) - m + 1 ELSE 0
        /\ \A i \in 1..(Len(Argv) - m + 1) : SubSeq(Argv, m, Len(Argv))[i] = Argv[m + i - 1]
    BY <1>4, <1>6, SubSeqProperties
  <2>2. QED
    BY <1>4, <2>1
<1>8. SubSeq(Argv, m, Len(Argv)) = told.cmd
  <2>1. \A i \in 1..n : SubSeq(Argv, m, Len(Argv))[i] = told.cmd[i]
    BY <1>1, <1>5, <1>7
  <2>2. Len(told.cmd) = n
    BY DEF n
  <2>3. QED
    BY <1>1, <1>7, <2>1, <2>2, SeqEqual
<1>9. QED
  BY <1>3, <1>8

\* With no command there is nothing to run.
LEMMA NothingFound ==
  ASSUME told \in Told, Clear, told.cmd = <<>>, version = "final"
  PROVE  CmdIdx \notin DOMAIN Argv
<1>1. /\ Options \in {0, 2, 4} /\ Dash \in {0, 1} /\ Len(told.cmd) = 0
      /\ DOMAIN Argv = 1..Len(Argv) /\ Len(Argv) = Options + Dash + Len(told.cmd)
  BY ArgvShape, EmptySeq
<1>2. CmdIdx = Options + Dash + 1
  BY CmdIdxIs
<1>3. Options + Dash + 1 \notin 1..Len(Argv)
  BY <1>1
<1>4. QED
  BY <1>1, <1>2, <1>3

\* Whatever words a command has and however many, the one that runs is the one that was
\* typed, with the log and the logger.so that were asked for, if "--" or its own words
\* leave no doubt; the last revision runs nothing when there is none (hw2.cpp:17-20, 82-104).
THEOREM LaunchesToldHolds == LaunchSpec => LaunchesTold
<1> DEFINE A ==
  Exec => /\ Clear /\ told.cmd # <<>> =>
               /\ SubSeq(Argv, CmdIdx, Len(Argv)) = told.cmd
               /\ \/ OUTPUT_FILE = (IF told.out THEN "file" ELSE "STDERR")
                  \/ version = "first" /\ OUTPUT_FILE = "STDERR"
               /\ preload = (IF told.path THEN "given" ELSE "default")
          /\ version = "final" => ~Clear \/ told.cmd # <<>>
<1>1. LaunchInit => ToldInv
  BY ToldInit
<1>2. ToldInv /\ [LaunchNext]_<<vars, launchVars>> => ToldInv'
  BY ToldStep
<1>3. ToldInv => A
  <2> SUFFICES ASSUME ToldInv, Exec PROVE A
    OBVIOUS
  <2>1. told \in Told /\ phase = "parsed" /\ CmdIdx \in DOMAIN Argv
    BY DEF ToldInv, Exec
  <2>2. QED
    BY <2>1, CommandFound, NothingFound DEF ToldInv
<1>4. LaunchesTold <=> [][A]_<<vars, launchVars>>
  BY DEF LaunchesTold
<1> HIDE DEF A
<1>5. QED
  BY <1>1, <1>2, <1>3, <1>4, PTL DEF LaunchSpec
=============================================================================
