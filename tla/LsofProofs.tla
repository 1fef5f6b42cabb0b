----------------------------- MODULE LsofProofs -----------------------------
(***************************************************************************)
(* Theorems about lsof, for every set of processes, descriptors, files and *)
(* mappings, every user and every command line: types, and whose files are *)
(* printed under the name of a process.                                    *)
(***************************************************************************)
EXTENDS Lsof, FiniteSetTheorems, TLAPS

\* Where get_process_info() is at work on the process of the line
AtWork == {"user", "link", "stat", "opendir", "maps", "mem", "fdinfo", "type", "name"}

\* The line belongs to a process, what is left of its mappings are mappings of it, and a
\* descriptor's line to a descriptor.
WalkInv ==
  /\ pc \in AtWork => line.pid \in Pids
  /\ pc = "mem" => MI \subseteq Named(line.pid)
  /\ pc \in {"type", "name"} => line.fd[1] \notin Links /\ line.fd[2] \in Fds

-----------------------------------------------------------------------------
(* Types.                                                                  *)

LEMMA NoFileOut == NoFile \notin Files
  BY ProcAssumption DEF NoFile, File, Modes

LEMMA FileType ==
  ASSUME ProcOK, NEW p \in Pids, NEW f \in Fds, IsOpen(p, f)
  PROVE  /\ open[p][f] \in Files
         /\ open[p][f].mode \in Modes /\ open[p][f].type \in Types
         /\ open[p][f].name \in FileNames /\ open[p][f].deleted \in BOOLEAN
<1>1. open[p][f] \in Files
  BY DEF ProcOK, IsOpen
<1>2. QED
  BY <1>1, ProcAssumption DEF File

LEMMA MappingType ==
  ASSUME NEW p \in Pids, NEW i \in Named(p)
  PROVE  /\ Maps[p][i].inode \in Nat /\ Maps[p][i].name \in FileNames
         /\ Maps[p][i].spaced \in BOOLEAN /\ Maps[p][i].deleted \in BOOLEAN
         /\ i \in Nat
<1>1. Maps[p] \in Seq(Mapping) /\ i \in DOMAIN Maps[p]
  BY ProcAssumption DEF Named
<1>2. Maps[p][i] \in Mapping /\ i \in Nat
  BY <1>1
<1>3. QED
  BY <1>2 DEF Mapping

LEMMA NameType ==
  ASSUME NEW p \in Pids \union {0}, NEW s \in Words
  PROVE  /\ Target(p, s) \in Names /\ Proc(p, s) \in Names /\ FileName(s) \in Names
  BY DEF Target, Proc, FileName, Names, Kinds

LEMMA FreshType ==
  ASSUME NEW p \in Pids \union {0}
  PROVE  Fresh(p) \in Lines /\ Fresh(p).pid = p
<1>1. NoName \in Names
  <2>1. 0 \in Pids \union {0} /\ "" \in Words
    BY DEF Words
  <2>2. QED
    BY <2>1, NameType DEF NoName
<1>2. <<"cwd", 0>> \in (Links \union {"fd", "mem", "NOFD"}) \X Nat
  BY DEF Links
<1>3. QED
  BY <1>1, <1>2 DEF Fresh, Lines

LEMMA ProcType ==
  ASSUME ProcOK, ProcNext PROVE ProcOK'
<1>1. ASSUME NEW p \in Pids, Start(p) \/ Exit(p) \/ Reap(p)
      PROVE  ProcOK'
  <2>1. Unused \in [Fds -> Files \union {NoFile}]
    BY DEF Unused
  <2>2. QED
    BY <1>1, <2>1 DEF Start, Exit, Reap, ProcOK
<1>2. ASSUME NEW p \in Pids, NEW f \in Fds, Close(p, f) \/ \E x \in Files : Open(p, f, x)
      PROVE  ProcOK'
  BY <1>2 DEF Open, Close, ProcOK
<1>3. QED
  BY <1>1, <1>2 DEF ProcNext

LEMMA InitType == Init => TypeOK /\ WalkInv
<1> SUFFICES ASSUME Init PROVE TypeOK /\ WalkInv
  OBVIOUS
<1>1. ProcOK
  <2>1. PICK h \in Hosts : mine = h.mine /\ scarce = h.scarce
    BY DEF Init, ProcInit
  <2>2. h = [mine |-> h.mine, scarce |-> h.scarce]
    BY ProcAssumption
  <2>3. [mine |-> mine, scarce |-> scarce] \in Hosts
    BY <2>1, <2>2
  <2>4. QED
    BY <2>3 DEF Init, ProcInit, ProcOK
<1>2. line \in Lines /\ lines \in Seq(Lines)
  BY FreshType DEF Init
<1>3. /\ process_dir \in Seq(Pids) /\ unread \subseteq Pids /\ output \subseteq DOMAIN lines
      /\ request \in Requests /\ MI \subseteq Nat /\ fd_files \subseteq Fds
  BY DEF Init
<1>4. pc = "args" /\ errno = "none" /\ link = "cwd" /\ nofd_flag = FALSE
  BY DEF Init
<1>5. WalkInv
  BY <1>4 DEF WalkInv, AtWork
<1>6. QED
  BY <1>1, <1>2, <1>3, <1>4, <1>5 DEF TypeOK, Links

LEMMA PrintLinkType ==
  ASSUME TypeOK, NEW x \in Lines, PrintLink(x)
  PROVE  /\ line' \in Lines /\ lines' \in Seq(Lines) /\ link' \in Links
         /\ pc' \in {"opendir", "link"} /\ line' = x
         /\ DOMAIN lines \subseteq DOMAIN lines'
<1>1. [x EXCEPT !.fd = <<link, 0>>] \in Lines
  BY DEF TypeOK, Lines
<1>2. lines' \in Seq(Lines) /\ DOMAIN lines \subseteq DOMAIN lines'
  BY <1>1 DEF PrintLink, TypeOK
<1>3. QED
  BY <1>2 DEF PrintLink, TypeOK, Links

LEMMA DeniedType ==
  ASSUME TypeOK, line.pid \in Pids
  PROVE  Denied \in Lines /\ Denied.pid = line.pid
<1>1. link \in Words /\ line \in Lines
  BY DEF TypeOK, Words
<1>2. Proc(line.pid, link) \in Names
  BY <1>1, NameType
<1>3. QED
  BY <1>1, <1>2 DEF Denied, Lines, Types

\* Steps that touch neither the line nor the lines
LEMMA TypeQuiet ==
  ASSUME TypeOK, WalkInv,
         ParseArgs \/ (\E p \in Pids : ListProcess(p)) \/ ListEnds \/ OpenDir \/ ReadMaps
           \/ ProcessDone \/ PrintAll
  PROVE  TypeOK' /\ WalkInv'
<1>1. line' = line /\ lines' = lines /\ ProcOK'
  BY DEF ParseArgs, ListProcess, ListEnds, OpenDir, ReadMaps, ProcessDone, PrintAll, TypeOK,
         ProcOK, procVars
<1>2. line' \in Lines /\ lines' \in Seq(Lines) /\ DOMAIN lines' = DOMAIN lines
  BY <1>1 DEF TypeOK
<1>3. CASE ParseArgs \/ ListEnds \/ ProcessDone
  BY <1>1, <1>2, <1>3 DEF ParseArgs, ListEnds, ProcessDone, TypeOK, WalkInv, AtWork
<1>4. CASE \E p \in Pids : ListProcess(p)
  BY <1>1, <1>2, <1>4 DEF ListProcess, TypeOK, WalkInv, AtWork
<1>5. CASE OpenDir
  BY <1>1, <1>2, <1>5 DEF OpenDir, OpenDirFails, TypeOK, WalkInv, AtWork
<1>6. CASE ReadMaps
  <2>1. pc = "maps" /\ line.pid \in Pids
    BY <1>6 DEF ReadMaps, WalkInv, AtWork
  <2>2. NoDup(line.pid) \subseteq Named(line.pid) /\ Named(line.pid) \subseteq Nat
    BY <2>1, MappingType DEF NoDup
  <2>3. MI' = {} \/ MI' = NoDup(line.pid)
    BY <1>6 DEF ReadMaps
  <2>4. pc' \in {"mem", "crashed"}
    BY <1>6 DEF ReadMaps
  <2>5. UNCHANGED <<errno, request, unread, process_dir, link, fd_files, nofd_flag, output>>
    BY <1>6 DEF ReadMaps
  <2>6. MI' \subseteq Nat /\ MI' \subseteq Named(line.pid)
    BY <2>2, <2>3
  <2>7. Named(line.pid)' = Named(line.pid)
    BY <1>1 DEF Named
  <2>8. WalkInv'
    BY <1>1, <2>1, <2>4, <2>6, <2>7 DEF WalkInv
  <2>9. QED
    BY <1>1, <1>2, <2>4, <2>5, <2>6, <2>8 DEF TypeOK
<1>7. CASE PrintAll
  BY <1>1, <1>2, <1>7 DEF PrintAll, TypeOK, WalkInv, AtWork
<1>8. QED
  BY <1>3, <1>4, <1>5, <1>6, <1>7

\* Steps that begin a line, or go on with it
LEMMA TypeBegin ==
  ASSUME TypeOK, WalkInv, TakeProcess \/ GetUser \/ StatFd \/ \E f \in Fds : FdInfo(f)
  PROVE  TypeOK' /\ WalkInv'
<1>1. lines' = lines /\ ProcOK' /\ output' = output
  BY DEF TakeProcess, GetUser, FdInfo, StatFd, TypeOK, ProcOK, procVars
<1>2. UNCHANGED <<errno, request, unread, MI, fd_files, nofd_flag>>
  BY DEF TakeProcess, GetUser, FdInfo, StatFd
<1>3. CASE TakeProcess
  <2>1. Head(process_dir) \in Pids /\ process_dir' \in Seq(Pids)
    BY <1>3 DEF TakeProcess, TypeOK
  <2>2. pc = "process" /\ link' = link
    BY <1>3 DEF TakeProcess
  <2>3. \/ line' = Fresh(Head(process_dir)) /\ pc' = "user"
        \/ line' = line /\ pc' = pc
    BY <1>3 DEF TakeProcess
  <2>4. Fresh(Head(process_dir)) \in Lines /\ Fresh(Head(process_dir)).pid \in Pids
    BY <2>1, FreshType
  <2>5. line' \in Lines
    BY <2>3, <2>4 DEF TypeOK
  <2>6. WalkInv'
    BY <2>2, <2>3, <2>4 DEF WalkInv, AtWork
  <2>7. pc' \in {"user", "process"}
    BY <2>2, <2>3
  <2>8. QED
    BY <1>1, <1>2, <2>1, <2>2, <2>5, <2>6, <2>7 DEF TypeOK
<1>4. CASE GetUser
  <2>1. PICK u \in {"owner", "other", ""} : line' = [line EXCEPT !.user = u]
    BY <1>4 DEF GetUser
  <2>2. line' \in Lines /\ line'.pid = line.pid
    BY <2>1 DEF TypeOK, Lines
  <2>3. pc = "user" /\ pc' = "link" /\ link' = "cwd" /\ process_dir' = process_dir
    BY <1>4 DEF GetUser
  <2>4. WalkInv'
    BY <2>2, <2>3 DEF WalkInv, AtWork
  <2>5. QED
    BY <1>1, <1>2, <2>2, <2>3, <2>4 DEF TypeOK, Links
<1>5. CASE StatFd
  <2>1. pc = "type" /\ line.pid \in Pids /\ line.fd[1] \notin Links /\ line.fd[2] \in Fds
    BY <1>5 DEF StatFd, WalkInv, AtWork
  <2>2. PICK t \in Types : line' = [line EXCEPT !.type = t]
    BY <1>5, <2>1, FileType DEF StatFd, TypeOK
  <2>3. line' \in Lines /\ line'.pid = line.pid /\ line'.fd = line.fd
    BY <2>2 DEF TypeOK, Lines
  <2>4. pc' = "name" /\ link' = link /\ process_dir' = process_dir
    BY <1>5 DEF StatFd
  <2>5. WalkInv'
    BY <2>1, <2>3, <2>4 DEF WalkInv, AtWork
  <2>6. QED
    BY <1>1, <1>2, <2>3, <2>4, <2>5 DEF TypeOK
<1>6. CASE \E f \in Fds : FdInfo(f)
  <2>1. PICK f \in Fds : FdInfo(f)
    BY <1>6
  <2>2. pc = "fdinfo" /\ line.pid \in Pids
    BY <2>1 DEF FdInfo, WalkInv, AtWork
  <2>3. PICK m \in Modes : line' = [line EXCEPT !.fd = <<"fd", f>>, !.mode = m]
    BY <2>1, <2>2, FileType DEF FdInfo, TypeOK
  <2>4. <<"fd", f>> \in (Links \union {"fd", "mem", "NOFD"}) \X Nat
    BY ProcAssumption
  <2>5. line' \in Lines /\ line'.pid = line.pid /\ line'.fd = <<"fd", f>>
    BY <2>3, <2>4 DEF TypeOK, Lines
  <2>6. pc' = "type" /\ link' = link /\ process_dir' = process_dir
    BY <2>1 DEF FdInfo
  <2>7. WalkInv'
    BY <2>2, <2>5, <2>6 DEF WalkInv, AtWork, Links
  <2>8. QED
    BY <1>1, <1>2, <2>5, <2>6, <2>7 DEF TypeOK
<1>7. QED
  BY <1>3, <1>4, <1>5, <1>6

\* The line of a link whose readlink() succeeded
LEMMA LinkedType ==
  ASSUME TypeOK, line.pid \in Pids, NEW x \in Lines, x.pid = line.pid,
         NEW y, y = [x EXCEPT !.name = Target(line.pid, link), !.append = ""]
  PROVE  /\ y \in Lines /\ y.pid = line.pid
         /\ y.name = Target(line.pid, link) /\ y.append = ""
<1>1. Target(line.pid, link) \in Names
  BY NameType DEF TypeOK, Words
<1>2. QED
  BY <1>1 DEF Lines

\* What ReadLink does: it prints the line, or goes on to stat()
LEMMA ReadLinkSteps ==
  ASSUME TypeOK, WalkInv, ReadLink
  PROVE  /\ line.pid \in Pids
         /\ \/ /\ LinkErrno(line.pid, link) = "EACCES" /\ PrintLink(Denied)
            \/ /\ LinkErrno(line.pid, link) = "ENOENT" /\ PrintLink(line)
            \/ /\ LinkErrno(line.pid, link) = "none"
               /\ pc' = "stat" /\ link' = link /\ lines' = lines
               /\ line' \in Lines /\ line'.pid = line.pid
               /\ line'.name = Target(line.pid, link) /\ line'.append = ""
         /\ errno' \in {"none", "EACCES", "ENOENT", "ENFILE"}
<1>1. line.pid \in Pids /\ line \in Lines
  BY DEF ReadLink, WalkInv, AtWork, TypeOK
<1>2. LinkErrno(line.pid, link) \in {"none", "EACCES", "ENOENT"}
  BY DEF LinkErrno
<1>3. errno' = IF LinkErrno(line.pid, link) = "none" THEN errno ELSE LinkErrno(line.pid, link)
  BY DEF ReadLink
<1>4. CASE LinkErrno(line.pid, link) = "EACCES"
  BY <1>1, <1>3, <1>4 DEF ReadLink, TypeOK
<1>5. CASE LinkErrno(line.pid, link) = "ENOENT"
  BY <1>1, <1>3, <1>5 DEF ReadLink, TypeOK
<1>6. CASE LinkErrno(line.pid, link) = "none"
  <2>1. PICK x \in {Denied, line} :
          line' = [x EXCEPT !.name = Target(line.pid, link), !.append = ""]
    BY <1>6 DEF ReadLink
  <2>2. x \in Lines /\ x.pid = line.pid
    BY <1>1, <2>1, DeniedType
  <2>3. /\ line' \in Lines /\ line'.pid = line.pid
        /\ line'.name = Target(line.pid, link) /\ line'.append = ""
    BY <1>1, <2>1, <2>2, LinkedType
  <2>4. pc' = "stat" /\ link' = link /\ lines' = lines
    BY <1>6 DEF ReadLink
  <2>5. QED
    BY <1>1, <1>3, <1>6, <2>3, <2>4 DEF TypeOK
<1>7. QED
  BY <1>2, <1>4, <1>5, <1>6

\* What StatLink does: it prints the line with some type
LEMMA StatLinkSteps ==
  ASSUME TypeOK, WalkInv, StatLink
  PROVE  /\ line.pid \in Pids
         /\ \E t \in Types :
              /\ LinkErrno(line.pid, link) = "none" => t = LinkType(link)
              /\ [line EXCEPT !.type = t] \in Lines
              /\ PrintLink([line EXCEPT !.type = t])
<1>1. PICK t \in IF LinkErrno(line.pid, link) = "none" THEN {LinkType(link)} ELSE Types :
        PrintLink([line EXCEPT !.type = t])
  BY DEF StatLink
<1>2. t \in Types
  BY DEF LinkType, Types
<1>3. [line EXCEPT !.type = t] \in Lines
  BY <1>2 DEF TypeOK, Lines
<1>4. line.pid \in Pids
  BY DEF StatLink, WalkInv, AtWork
<1>5. QED
  BY <1>1, <1>2, <1>3, <1>4

\* The lines of mappings, of a directory that could not be opened, and of descriptors: what
\* is appended belongs to no link, and names a file or is denied
OtherLine(x) ==
  /\ x \in Lines /\ x.pid = line.pid /\ x.fd[1] \notin Links
  /\ \/ x.name[2] = 0 /\ x.append # "denied"
     \/ x.name[2] = line.pid /\ pc = "mem" /\ nofd_flag

LEMMA MapLine ==
  ASSUME TypeOK, WalkInv, line.pid \in Pids, NEW i \in Named(line.pid), NEW late \in BOOLEAN
  PROVE  OtherLine(MemLine(Maps[line.pid][i], late))
<1> DEFINE m == Maps[line.pid][i]
           x == MemLine(m, late)
<1>1. m.inode \in Nat /\ m.name \in FileNames
  BY MappingType
<1>2. FileName(m.name) \in Names /\ JunkName \in Names
  BY <1>1, NameType DEF JunkName, Words
<1>3. FileName(m.name)[2] = 0 /\ JunkName[2] = 0
  BY DEF FileName, JunkName
<1>4. <<"mem", m.inode>> \in (Links \union {"fd", "mem", "NOFD"}) \X Nat
  BY <1>1
<1>5. PICK mode \in {"del", "mem"}, type \in {"unknown", "REG"},
           name \in {JunkName, FileName(m.name)}, append \in {"deleted", ""} :
        x = [line EXCEPT !.fd = <<"mem", m.inode>>, !.mode = mode, !.type = type,
                         !.name = name, !.append = append]
  BY DEF MemLine
<1> HIDE DEF x, m
<1>6. line \in Lines /\ name \in Names /\ type \in Types /\ mode \in {"", "mem", "del"}
      /\ append \in {"", "denied", "deleted"}
  BY <1>2, <1>5 DEF TypeOK, Types
<1>7. x \in Lines /\ x.pid = line.pid /\ x.fd = <<"mem", m.inode>>
      /\ x.name = name /\ x.append = append
  BY <1>4, <1>5, <1>6 DEF Lines
<1>8. x.name[2] = 0
  BY <1>3, <1>5, <1>7
<1>9. append # "denied"
  OBVIOUS
<1>10. <<"mem", m.inode>>[1] = "mem" /\ "mem" \notin Links
  BY DEF Links
<1>11. OtherLine(x)
  BY <1>7, <1>8, <1>9, <1>10 DEF OtherLine
<1>12. QED
  BY <1>11 DEF x, m

LEMMA PrintMapSteps ==
  ASSUME TypeOK, WalkInv, NEW i \in MI, PrintMap(i)
  PROVE  /\ line.pid \in Pids
         /\ \E x : OtherLine(x) /\ lines' = Append(lines, x)
<1>1. line.pid \in Pids /\ i \in Named(line.pid)
  BY DEF PrintMap, WalkInv, AtWork
<1>2. PICK late \in BOOLEAN : lines' = Append(lines, MemLine(Maps[line.pid][i], late))
  BY DEF PrintMap
<1>3. OtherLine(MemLine(Maps[line.pid][i], late))
  BY <1>1, MapLine
<1>4. QED
  BY <1>1, <1>2, <1>3

LEMMA NofdSteps ==
  ASSUME TypeOK, WalkInv, MapsDone
  PROVE  /\ line.pid \in Pids
         /\ \/ lines' = lines
            \/ \E x : OtherLine(x) /\ lines' = Append(lines, x)
<1>1. line.pid \in Pids /\ pc = "mem"
  BY DEF MapsDone, WalkInv, AtWork
<1>2. CASE nofd_flag
  <2>1. Proc(line.pid, "fd") \in Names /\ Proc(line.pid, "fd")[2] = line.pid
    BY <1>1, NameType DEF Words, Proc
  <2>2. <<"NOFD", 0>> \in (Links \union {"fd", "mem", "NOFD"}) \X Nat /\ "NOFD" \notin Links
    BY DEF Links
  <2>3. /\ NofdLine \in Lines /\ NofdLine.pid = line.pid /\ NofdLine.fd = <<"NOFD", 0>>
        /\ NofdLine.name = Proc(line.pid, "fd")
    BY <2>1, <2>2 DEF TypeOK, Lines, NofdLine
  <2>4. OtherLine(NofdLine)
    BY <1>1, <1>2, <2>1, <2>2, <2>3 DEF OtherLine
  <2>5. QED
    BY <1>1, <1>2, <2>4 DEF MapsDone
<1>3. CASE ~nofd_flag
  BY <1>1, <1>3 DEF MapsDone
<1>4. QED
  BY <1>2, <1>3

LEMMA ReadFdSteps ==
  ASSUME TypeOK, WalkInv, ReadFd
  PROVE  /\ line.pid \in Pids
         /\ \E x : OtherLine(x) /\ lines' = Append(lines, x)
<1>1. line.pid \in Pids /\ line.fd[1] \notin Links /\ line.fd[2] \in Fds /\ line \in Lines
  BY DEF ReadFd, WalkInv, AtWork, TypeOK
<1>2. CASE IsOpen(line.pid, line.fd[2])
  <2> DEFINE f == open[line.pid][line.fd[2]]
  <2>1. f.name \in FileNames /\ f.deleted \in BOOLEAN
    BY <1>1, <1>2, FileType DEF TypeOK
  <2>2. FileName(f.name) \in Names /\ FileName(f.name)[2] = 0
    BY <2>1, NameType DEF Words, FileName
  <2>3. PICK t \in {"unknown", line.type}, append \in {"deleted", ""} :
          FdLine(f) = [line EXCEPT !.name = FileName(f.name), !.type = t, !.append = append]
    BY DEF FdLine
  <2>4. t \in Types \union {""}
    BY <1>1 DEF Lines, Types
  <2> HIDE DEF f
  <2>5. /\ FdLine(f) \in Lines /\ FdLine(f).pid = line.pid /\ FdLine(f).fd = line.fd
        /\ FdLine(f).name = FileName(f.name) /\ FdLine(f).append = append
    BY <1>1, <2>2, <2>3, <2>4 DEF Lines
  <2>6. OtherLine(FdLine(f))
    BY <1>1, <2>2, <2>3, <2>5 DEF OtherLine
  <2>7. QED
    BY <1>1, <1>2, <2>6 DEF ReadFd, f
<1>3. CASE ~IsOpen(line.pid, line.fd[2])
  <2> DEFINE x == [line EXCEPT !.name = NoName, !.append = ""]
  <2>1. NoName \in Names /\ NoName[2] = 0
    BY <1>1, NameType DEF NoName, FileName, Words
  <2>2. x \in Lines /\ x.pid = line.pid /\ x.fd = line.fd /\ x.name = NoName /\ x.append = ""
    BY <1>1, <2>1 DEF Lines
  <2>3. OtherLine(x)
    BY <1>1, <2>1, <2>2 DEF OtherLine
  <2>4. lines' = Append(lines, x)
    BY <1>3 DEF ReadFd
  <2>5. QED
    BY <1>1, <2>3, <2>4
<1>4. QED
  BY <1>2, <1>3

LEMMA Appended ==
  ASSUME TypeOK, NEW x \in Lines, lines' = Append(lines, x)
  PROVE  lines' \in Seq(Lines) /\ DOMAIN lines \subseteq DOMAIN lines'
  BY DEF TypeOK

\* Steps that print a line
LEMMA TypePrint ==
  ASSUME TypeOK, WalkInv,
         ReadLink \/ StatLink \/ (\E i \in MI : PrintMap(i)) \/ MapsDone \/ ReadFd
  PROVE  TypeOK' /\ WalkInv'
<1>1. ProcOK' /\ UNCHANGED <<request, unread, process_dir, nofd_flag, output>>
  BY DEF ReadLink, StatLink, PrintMap, MapsDone, ReadFd, TypeOK, ProcOK, procVars
<1>2. CASE ReadLink
  <2>1. line.pid \in Pids /\ errno' \in {"none", "EACCES", "ENOENT", "ENFILE"}
    BY <1>2, ReadLinkSteps
  <2>2. UNCHANGED <<MI, fd_files>>
    BY <1>2 DEF ReadLink
  <2>3. /\ line' \in Lines /\ lines' \in Seq(Lines) /\ link' \in Links
        /\ pc' \in {"stat", "opendir", "link"} /\ line'.pid = line.pid
        /\ DOMAIN lines \subseteq DOMAIN lines'
    <3>1. CASE LinkErrno(line.pid, link) = "EACCES" /\ PrintLink(Denied)
      BY <2>1, <3>1, DeniedType, PrintLinkType
    <3>2. CASE LinkErrno(line.pid, link) = "ENOENT" /\ PrintLink(line)
      BY <3>2, PrintLinkType DEF TypeOK
    <3>3. CASE /\ pc' = "stat" /\ link' = link /\ lines' = lines
               /\ line' \in Lines /\ line'.pid = line.pid
      BY <3>3 DEF TypeOK
    <3>4. QED
      BY <1>2, <3>1, <3>2, <3>3, ReadLinkSteps
  <2>4. WalkInv'
    BY <2>1, <2>3 DEF WalkInv
  <2>5. QED
    BY <1>1, <2>1, <2>2, <2>3, <2>4 DEF TypeOK
<1>3. CASE StatLink
  <2>1. PICK t \in Types : [line EXCEPT !.type = t] \in Lines /\ PrintLink([line EXCEPT !.type = t])
    BY <1>3, StatLinkSteps
  <2>2. line.pid \in Pids /\ UNCHANGED <<errno, MI, fd_files>>
    BY <1>3, StatLinkSteps DEF StatLink
  <2>3. /\ line' \in Lines /\ lines' \in Seq(Lines) /\ link' \in Links
        /\ pc' \in {"opendir", "link"} /\ line' = [line EXCEPT !.type = t]
        /\ DOMAIN lines \subseteq DOMAIN lines'
    BY <2>1, PrintLinkType
  <2>4. line'.pid = line.pid
    BY <2>3 DEF TypeOK, Lines
  <2>5. WalkInv'
    BY <2>2, <2>3, <2>4 DEF WalkInv
  <2>6. QED
    BY <1>1, <2>2, <2>3, <2>5 DEF TypeOK
<1>4. CASE \E i \in MI : PrintMap(i)
  <2>1. PICK i \in MI : PrintMap(i)
    BY <1>4
  <2>2. line.pid \in Pids /\ \E x : OtherLine(x) /\ lines' = Append(lines, x)
    BY <2>1, PrintMapSteps
  <2>3. lines' \in Seq(Lines) /\ DOMAIN lines \subseteq DOMAIN lines'
    BY <2>2, Appended DEF OtherLine
  <2>4. MI' = MI \ {i} /\ UNCHANGED <<pc, errno, link, fd_files, line>>
    BY <2>1 DEF PrintMap
  <2>5. Named(line.pid)' = Named(line.pid)
    BY <2>4 DEF Named
  <2>6. WalkInv'
    BY <2>4, <2>5 DEF WalkInv
  <2>7. QED
    BY <1>1, <2>3, <2>4, <2>6 DEF TypeOK
<1>5. CASE MapsDone
  <2>1. /\ line.pid \in Pids
        /\ lines' = lines \/ \E x : OtherLine(x) /\ lines' = Append(lines, x)
    BY <1>5, NofdSteps
  <2>2. lines' \in Seq(Lines) /\ DOMAIN lines \subseteq DOMAIN lines'
    BY <2>1, Appended DEF OtherLine, TypeOK
  <2>3. pc' \in {"process", "fdinfo"} /\ UNCHANGED <<errno, link, MI, fd_files, line>>
    BY <1>5 DEF MapsDone
  <2>4. WalkInv'
    BY <2>1, <2>3 DEF WalkInv
  <2>5. QED
    BY <1>1, <2>2, <2>3, <2>4 DEF TypeOK
<1>6. CASE ReadFd
  <2>1. line.pid \in Pids /\ \E x : OtherLine(x) /\ lines' = Append(lines, x)
    BY <1>6, ReadFdSteps
  <2>2. lines' \in Seq(Lines) /\ DOMAIN lines \subseteq DOMAIN lines'
    BY <2>1, Appended DEF OtherLine
  <2>3. pc' = "fdinfo" /\ fd_files' \subseteq fd_files /\ UNCHANGED <<errno, link, MI, line>>
    BY <1>6 DEF ReadFd
  <2>4. WalkInv'
    BY <2>1, <2>3 DEF WalkInv
  <2>5. QED
    BY <1>1, <2>2, <2>3, <2>4 DEF TypeOK
<1>7. QED
  BY <1>2, <1>3, <1>4, <1>5, <1>6

LEMMA TypeStep ==
  ASSUME TypeOK, WalkInv, [Next]_vars PROVE TypeOK' /\ WalkInv'
<1>1. CASE Walk
  BY <1>1, TypeQuiet, TypeBegin, TypePrint DEF Walk
<1>2. CASE Environment
  <2>1. ProcOK' /\ UNCHANGED lsofVars
    BY <1>2, ProcType DEF Environment, TypeOK
  <2>2. Named(line.pid)' = Named(line.pid)
    BY <2>1 DEF Named, lsofVars
  <2>3. QED
    BY <2>1, <2>2 DEF TypeOK, WalkInv, lsofVars
<1>3. CASE UNCHANGED vars
  <2>1. ProcOK' /\ UNCHANGED lsofVars
    BY <1>3 DEF vars, procVars, lsofVars, TypeOK, ProcOK
  <2>2. Named(line.pid)' = Named(line.pid)
    BY <2>1 DEF Named, lsofVars
  <2>3. QED
    BY <2>1, <2>2 DEF TypeOK, WalkInv, lsofVars
<1>4. QED
  BY <1>1, <1>2, <1>3 DEF Next, Terminated

LEMMA TypeAlways == Spec => [](TypeOK /\ WalkInv)
<1>1. Init => TypeOK /\ WalkInv
  BY InitType
<1>2. TypeOK /\ WalkInv /\ [Next]_vars => (TypeOK /\ WalkInv)'
  BY TypeStep
<1>3. QED
  BY <1>1, <1>2, PTL DEF Spec

\* Types of lsof's variables and of those of /proc.
THEOREM LsofTypeCorrect == Spec => []TypeOK
  BY TypeAlways, PTL

-----------------------------------------------------------------------------
(* Whose files are printed.                                                *)

Lived(p) == p \in Pids /\ status[p] # "unborn"

\* OwnLines is not inductive: a process with a line has been seen, so that it does not come
\* to life later.
LinesInv == \A i \in DOMAIN lines : OwnLine(lines[i]) /\ Lived(lines[i].pid)

\* What get_process_info() has in its locals is the process's: the name is its own or nobody's,
\* permission was denied to it, and stat() follows the readlink() of the same link.
LocalInv ==
  /\ \A i \in DOMAIN process_dir : Lived(process_dir[i])
  /\ pc \in AtWork => /\ Lived(line.pid)
                      /\ line.name[2] \in {0, line.pid}
                      /\ line.append = "denied" => line.pid \notin mine
  /\ pc = "stat" => line.pid \in mine /\ line.name = Target(line.pid, link) /\ line.append = ""
  /\ pc \in {"maps", "mem"} /\ nofd_flag => line.pid \notin mine

OwnInv == LinesInv /\ LocalInv /\ CrashCause

\* Nothing is printed before the walk is over.
OutputInv == pc # "done" => output = {}

LEMMA OutputStep ==
  ASSUME OutputInv, [Next]_vars PROVE OutputInv'
<1>1. CASE PrintAll
  BY <1>1 DEF PrintAll, OutputInv
<1>2. CASE ParseArgs \/ (\E p \in Pids : ListProcess(p)) \/ ListEnds \/ TakeProcess \/ GetUser
  BY <1>2 DEF ParseArgs, ListProcess, ListEnds, TakeProcess, GetUser, OutputInv
<1>3. CASE ReadLink \/ StatLink \/ OpenDir \/ ReadMaps
  BY <1>3 DEF ReadLink, StatLink, OpenDir, ReadMaps, OutputInv
<1>4. CASE (\E i \in MI : PrintMap(i)) \/ MapsDone \/ (\E f \in Fds : FdInfo(f))
  BY <1>4 DEF PrintMap, MapsDone, FdInfo, OutputInv
<1>5. CASE StatFd \/ ReadFd \/ ProcessDone
  BY <1>5 DEF StatFd, ReadFd, ProcessDone, OutputInv
<1>6. CASE Environment \/ UNCHANGED vars
  BY <1>6 DEF Environment, lsofVars, vars, OutputInv
<1>7. QED
  BY <1>1, <1>2, <1>3, <1>4, <1>5, <1>6 DEF Next, Walk, Terminated

LEMMA OutputAlways == Spec => []OutputInv
<1>1. Init => OutputInv
  BY DEF Init, OutputInv
<1>2. QED
  BY <1>1, OutputStep, PTL DEF Spec

LEMMA AppendOwn ==
  ASSUME TypeOK, LinesInv, UNCHANGED procVars, NEW x \in Lines,
         OwnLine(x), Lived(x.pid), lines' = Append(lines, x)
  PROVE  LinesInv'
<1> SUFFICES ASSUME NEW i \in DOMAIN lines' PROVE (OwnLine(lines[i]) /\ Lived(lines[i].pid))'
  BY DEF LinesInv
<1>1. lines'[i] = x \/ (i \in DOMAIN lines /\ lines'[i] = lines[i])
  BY DEF TypeOK
<1>2. CASE lines'[i] = x
  BY <1>2 DEF OwnLine, Lived, procVars
<1>3. CASE i \in DOMAIN lines /\ lines'[i] = lines[i]
  BY <1>3 DEF LinesInv, OwnLine, Lived, procVars
<1>4. QED
  BY <1>1, <1>2, <1>3

LEMMA SameLines ==
  ASSUME LinesInv, UNCHANGED <<procVars, lines>> PROVE LinesInv'
  BY DEF LinesInv, OwnLine, Lived, procVars

\* A line that belongs to no link is the process's if it names a file, or is denied to it.
LEMMA OtherOwn ==
  ASSUME LocalInv, pc \in AtWork, NEW x, OtherLine(x)
  PROVE  x \in Lines /\ OwnLine(x) /\ Lived(x.pid)
<1>1. x \in Lines /\ x.pid = line.pid /\ Lived(x.pid)
  BY DEF OtherLine, LocalInv
<1>2. x.name[2] \in {0, x.pid} /\ (x.append = "denied" => x.pid \notin mine)
  BY <1>1 DEF OtherLine, LocalInv
<1>3. x.fd[1] \notin Links
  BY DEF OtherLine
<1>4. QED
  BY <1>1, <1>2, <1>3 DEF OwnLine

\* Printing a link's line x
LEMMA LinkOwn ==
  ASSUME TypeOK, OwnInv, UNCHANGED <<procVars, process_dir, nofd_flag>>,
         NEW x \in Lines, PrintLink(x), Lived(x.pid),
         x.name[2] \in {0, x.pid}, x.append = "denied" => x.pid \notin mine,
         status[x.pid] = "alive" /\ ~(link = "exe" /\ x.pid \in NoExe)
           => /\ x.name = IF x.pid \in mine THEN Target(x.pid, link) ELSE Proc(x.pid, link)
              /\ x.type = IF x.pid \in mine THEN LinkType(link) ELSE "unknown"
  PROVE  OwnInv'
<1> DEFINE y == [x EXCEPT !.fd = <<link, 0>>]
<1>1. /\ y \in Lines /\ y.fd = <<link, 0>>
      /\ y.pid = x.pid /\ y.name = x.name /\ y.append = x.append /\ y.type = x.type
  BY DEF TypeOK, Lines
<1>2. lines' = Append(lines, y)
  BY DEF PrintLink
<1> HIDE DEF y
<1>3. y.fd[1] = link
  BY <1>1
<1>4. OwnLine(y) /\ Lived(y.pid)
  BY <1>1, <1>3 DEF OwnLine
<1>5. LinesInv'
  BY <1>1, <1>2, <1>4, AppendOwn DEF OwnInv
<1>6. line' = x /\ pc' \in {"opendir", "link"}
  BY PrintLinkType
<1>7. LocalInv'
  BY <1>6 DEF OwnInv, LocalInv, Lived, procVars
<1>8. QED
  BY <1>5, <1>6, <1>7 DEF OwnInv, CrashCause

LEMMA NameOwner ==
  ASSUME NEW p, NEW l PROVE Target(p, l)[2] = p /\ Proc(p, l)[2] = p
  BY DEF Target, Proc

LEMMA OwnReadLink ==
  ASSUME TypeOK, WalkInv, OwnInv, ReadLink PROVE OwnInv'
<1>1. /\ UNCHANGED <<procVars, process_dir, nofd_flag>> /\ pc = "link" /\ line \in Lines
  BY DEF ReadLink, TypeOK
<1>2. /\ Lived(line.pid) /\ line.name[2] \in {0, line.pid}
      /\ line.append = "denied" => line.pid \notin mine
  BY <1>1 DEF OwnInv, LocalInv, AtWork
<1>3. CASE LinkErrno(line.pid, link) = "EACCES" /\ PrintLink(Denied)
  <2>1. line.pid \notin mine
    BY <1>3 DEF LinkErrno
  <2>2. /\ Denied \in Lines /\ Denied.pid = line.pid /\ Denied.name = Proc(line.pid, link)
        /\ Denied.type = "unknown"
    <3>1. Denied \in Lines /\ Denied.pid = line.pid
      BY <1>2, DeniedType DEF Lived
    <3>2. QED
      BY <1>1, <3>1 DEF Denied, Lines
  <2>3. Denied.name[2] = line.pid
    BY <2>2, NameOwner
  <2>4. QED
    BY <1>1, <1>2, <1>3, <2>1, <2>2, <2>3, LinkOwn
<1>4. CASE LinkErrno(line.pid, link) = "ENOENT" /\ PrintLink(line)
  <2>1. ~(status[line.pid] = "alive" /\ ~(link = "exe" /\ line.pid \in NoExe))
    BY <1>4 DEF LinkErrno, Exists
  <2>2. QED
    BY <1>1, <1>2, <1>4, <2>1, LinkOwn
<1>5. CASE /\ LinkErrno(line.pid, link) = "none"
           /\ pc' = "stat" /\ link' = link /\ lines' = lines
           /\ line' \in Lines /\ line'.pid = line.pid
           /\ line'.name = Target(line.pid, link) /\ line'.append = ""
  <2>1. line.pid \in mine
    BY <1>5 DEF LinkErrno
  <2>2. line'.name[2] = line.pid
    <3>1. Target(line.pid, link)[2] = line.pid
      BY DEF Target
    <3>2. line'.name = Target(line.pid, link)
      BY <1>5
    <3>3. QED
      BY <3>1, <3>2
  <2>3. LocalInv'
    BY <1>1, <1>2, <1>5, <2>1, <2>2 DEF OwnInv, LocalInv, Lived, procVars, Target
  <2>4. LinesInv'
    BY <1>1, <1>5, SameLines DEF OwnInv
  <2>5. QED
    BY <1>5, <2>3, <2>4 DEF OwnInv, CrashCause
<1>6. QED
  BY <1>3, <1>4, <1>5, ReadLinkSteps

LEMMA OwnStatLink ==
  ASSUME TypeOK, WalkInv, OwnInv, StatLink PROVE OwnInv'
<1>1. /\ UNCHANGED <<procVars, process_dir, nofd_flag>> /\ pc = "stat" /\ line \in Lines
  BY DEF StatLink, TypeOK
<1>2. /\ Lived(line.pid) /\ line.name[2] \in {0, line.pid}
      /\ line.pid \in mine /\ line.name = Target(line.pid, link) /\ line.append = ""
  BY <1>1 DEF OwnInv, LocalInv, AtWork
<1>3. PICK t \in Types : /\ LinkErrno(line.pid, link) = "none" => t = LinkType(link)
                         /\ [line EXCEPT !.type = t] \in Lines
                         /\ PrintLink([line EXCEPT !.type = t])
  BY StatLinkSteps
<1> DEFINE x == [line EXCEPT !.type = t]
<1>4. x.pid = line.pid /\ x.name = line.name /\ x.append = line.append /\ x.type = t
  BY <1>1 DEF Lines
<1>5. status[line.pid] = "alive" /\ ~(link = "exe" /\ line.pid \in NoExe)
        => LinkErrno(line.pid, link) = "none"
  BY <1>2 DEF LinkErrno, Exists
<1>6. x \in Lines /\ PrintLink(x)
  BY <1>3
<1> HIDE DEF x
<1>7. QED
  BY <1>1, <1>2, <1>3, <1>4, <1>5, <1>6, LinkOwn

\* A line that belongs to no link is printed, and the walk goes on to something else.
LEMMA OwnOther ==
  ASSUME TypeOK, WalkInv, OwnInv, (\E i \in MI : PrintMap(i)) \/ MapsDone \/ ReadFd
  PROVE  OwnInv'
<1>1. pc \in AtWork /\ UNCHANGED <<procVars, process_dir, nofd_flag, line>>
  BY DEF PrintMap, MapsDone, ReadFd, AtWork
<1>2. \/ lines' = lines
      \/ \E x : OtherLine(x) /\ lines' = Append(lines, x)
  BY PrintMapSteps, NofdSteps, ReadFdSteps
<1>3. LinesInv'
  BY <1>1, <1>2, AppendOwn, SameLines, OtherOwn DEF OwnInv
<1>4. pc' \in {"process", "fdinfo"} \/ (pc = "mem" /\ pc' = "mem")
  BY DEF PrintMap, MapsDone, ReadFd
<1>5. LocalInv'
  BY <1>1, <1>4 DEF OwnInv, LocalInv, Lived, procVars, AtWork
<1>6. QED
  BY <1>3, <1>4, <1>5 DEF OwnInv, CrashCause

\* Steps that print nothing
LEMMA OwnQuiet ==
  ASSUME TypeOK, WalkInv, OwnInv, OutputInv,
         ParseArgs \/ (\E p \in Pids : ListProcess(p)) \/ ListEnds \/ TakeProcess \/ GetUser
           \/ OpenDir \/ ReadMaps \/ (\E f \in Fds : FdInfo(f)) \/ StatFd \/ ProcessDone
           \/ PrintAll
  PROVE  OwnInv'
<1>1. UNCHANGED <<procVars, lines>>
  BY DEF ParseArgs, ListProcess, ListEnds, TakeProcess, GetUser, OpenDir, ReadMaps, FdInfo,
         StatFd, ProcessDone, PrintAll
<1>2. LinesInv'
  BY <1>1, SameLines DEF OwnInv
<1>3. CASE ParseArgs \/ ListEnds \/ ProcessDone \/ PrintAll
  <2>1. LocalInv'
    BY <1>1, <1>3 DEF ParseArgs, ListEnds, ProcessDone, PrintAll, OwnInv, LocalInv, Lived,
       procVars, AtWork
  <2>2. CASE ParseArgs \/ ListEnds \/ ProcessDone
    <3>1. pc' \notin {"crashed", "aborted"}
      BY <2>2 DEF ParseArgs, ListEnds, ProcessDone
    <3>2. QED
      BY <1>2, <2>1, <3>1 DEF OwnInv, CrashCause
  <2>3. CASE PrintAll
    <3>1. pc' # "crashed" /\ (pc' = "aborted" => request'.regex /\ lines' # <<>> /\ output' = {})
      BY <2>3 DEF PrintAll, OutputInv
    <3>2. QED
      BY <1>2, <2>1, <3>1 DEF OwnInv, CrashCause
  <2>4. QED
    BY <1>3, <2>2, <2>3
<1>4. CASE \E p \in Pids : ListProcess(p)
  <2>1. PICK p \in Pids : ListProcess(p)
    BY <1>4
  <2>2. process_dir' = process_dir \/ (Lived(p) /\ process_dir' = Append(process_dir, p))
    BY <2>1 DEF ListProcess, Exists, Lived
  <2>3. ASSUME NEW i \in DOMAIN process_dir' PROVE Lived(process_dir'[i])
    <3>1. process_dir \in Seq(Pids) /\ \A j \in DOMAIN process_dir : Lived(process_dir[j])
      BY DEF TypeOK, OwnInv, LocalInv
    <3>2. CASE process_dir' = process_dir
      BY <3>1, <3>2
    <3>3. CASE Lived(p) /\ process_dir' = Append(process_dir, p)
      <4>1. process_dir'[i] = p \/ (i \in DOMAIN process_dir /\ process_dir'[i] = process_dir[i])
        BY <3>1, <3>3
      <4>2. QED
        BY <3>1, <3>3, <4>1
    <3>4. QED
      BY <2>2, <3>2, <3>3
  <2>4. pc' = "list" /\ line' = line
    BY <2>1 DEF ListProcess
  <2>5. LocalInv'
    BY <1>1, <2>3, <2>4 DEF LocalInv, Lived, procVars, AtWork
  <2>6. QED
    BY <1>2, <2>4, <2>5 DEF OwnInv, CrashCause
<1>5. CASE TakeProcess
  <2>1. process_dir # <<>> /\ process_dir' = Tail(process_dir) /\ pc = "process"
    BY <1>5 DEF TakeProcess
  <2>2. ASSUME NEW i \in DOMAIN process_dir' PROVE Lived(process_dir'[i])
    <3>1. process_dir \in Seq(Pids)
      BY DEF TypeOK
    <3>2. i + 1 \in DOMAIN process_dir /\ process_dir'[i] = process_dir[i + 1]
      BY <2>1, <3>1
    <3>3. QED
      BY <3>2 DEF OwnInv, LocalInv
  <2>3. Lived(Head(process_dir))
    BY <2>1 DEF OwnInv, LocalInv, TypeOK
  <2>4. \/ line' = Fresh(Head(process_dir)) /\ pc' = "user"
        \/ line' = line /\ pc' = pc
    BY <1>5 DEF TakeProcess
  <2>5. /\ Fresh(Head(process_dir)).pid = Head(process_dir)
        /\ Fresh(Head(process_dir)).name[2] = 0 /\ Fresh(Head(process_dir)).append = ""
    BY DEF Fresh, NoName, FileName
  <2>6. LocalInv'
    BY <1>1, <2>1, <2>2, <2>3, <2>4, <2>5 DEF LocalInv, Lived, procVars, AtWork
  <2>7. QED
    BY <1>2, <2>1, <2>4, <2>6 DEF OwnInv, CrashCause
<1>6. CASE GetUser \/ StatFd \/ \E f \in Fds : FdInfo(f)
  <2>1. pc \in AtWork /\ pc' \in {"link", "name", "type"} /\ process_dir' = process_dir
    BY <1>6 DEF GetUser, StatFd, FdInfo, AtWork
  <2>2. line'.pid = line.pid /\ line'.name = line.name /\ line'.append = line.append
    <3>1. CASE GetUser
      <4>1. PICK u : line' = [line EXCEPT !.user = u]
        BY <3>1 DEF GetUser
      <4>2. QED
        BY <4>1 DEF TypeOK, Lines
    <3>2. CASE StatFd
      <4>1. PICK t : line' = [line EXCEPT !.type = t]
        BY <3>2 DEF StatFd
      <4>2. QED
        BY <4>1 DEF TypeOK, Lines
    <3>3. CASE \E f \in Fds : FdInfo(f)
      <4>1. PICK f \in Fds : FdInfo(f)
        BY <3>3
      <4>2. PICK m : line' = [line EXCEPT !.fd = <<"fd", f>>, !.mode = m]
        BY <4>1 DEF FdInfo
      <4>3. QED
        BY <4>2 DEF TypeOK, Lines
    <3>4. QED
      BY <1>6, <3>1, <3>2, <3>3
  <2>3. LocalInv'
    BY <1>1, <2>1, <2>2 DEF OwnInv, LocalInv, Lived, procVars
  <2>4. QED
    BY <1>2, <2>1, <2>3 DEF OwnInv, CrashCause
<1>7. CASE OpenDir
  <2>1. pc \in AtWork /\ UNCHANGED <<process_dir, line>>
    BY <1>7 DEF OpenDir, AtWork
  <2>2. \/ (~Exists(line.pid) \/ scarce) /\ pc' = "crashed" /\ output' = {}
        \/ pc' = "maps" /\ (nofd_flag' => line.pid \notin mine)
    BY <1>7 DEF OpenDir, OpenDirFails, OutputInv
  <2>3. LocalInv'
    BY <1>1, <2>1, <2>2 DEF OwnInv, LocalInv, Lived, procVars, AtWork
  <2>4. ~Exists(line.pid) => status[line.pid] = "gone"
    BY <2>1 DEF OwnInv, LocalInv, Lived, Exists, TypeOK, ProcOK
  <2>5. CrashCause'
    BY <1>1, <2>1, <2>2, <2>4 DEF CrashCause, procVars
  <2>6. QED
    BY <1>2, <2>3, <2>5 DEF OwnInv
<1>8. CASE ReadMaps
  <2>1. pc = "maps" /\ UNCHANGED <<process_dir, line, nofd_flag>>
    BY <1>8 DEF ReadMaps
  <2>2. \/ pc' = "mem"
        \/ /\ pc' = "crashed" /\ output' = {}
           /\ \E i \in Named(line.pid) : Overruns(Maps[line.pid][i])
    BY <1>8 DEF ReadMaps, OutputInv
  <2>3. LocalInv'
    BY <1>1, <2>1, <2>2 DEF OwnInv, LocalInv, Lived, procVars, AtWork
  <2>4. CrashCause'
    BY <2>1, <2>2 DEF CrashCause, Named
  <2>5. QED
    BY <1>2, <2>3, <2>4 DEF OwnInv
<1>9. QED
  BY <1>3, <1>4, <1>5, <1>6, <1>7, <1>8

\* What processes do leaves lines right: one with a line does not come to life again.
LEMMA OwnEnvironment ==
  ASSUME TypeOK, OwnInv, Environment PROVE OwnInv'
<1>1. UNCHANGED lsofVars /\ ProcNext /\ ~Ended
  BY DEF Environment
<1>2. mine' = mine
  BY <1>1 DEF ProcNext, Start, Exit, Reap, Open, Close
<1>3. ASSUME NEW p \in Pids, status[p] # "unborn"
      PROVE  status'[p] # "unborn" /\ (status'[p] = "alive" => status[p] = "alive")
  <2>1. status \in [Pids -> {"unborn", "alive", "zombie", "gone"}]
    BY DEF TypeOK, ProcOK
  <2>2. ASSUME NEW q \in Pids, Start(q) \/ Exit(q) \/ Reap(q)
        PROVE  status'[p] # "unborn" /\ (status'[p] = "alive" => status[p] = "alive")
    BY <1>3, <2>1, <2>2 DEF Start, Exit, Reap
  <2>3. CASE status' = status
    BY <1>3, <2>3
  <2>4. QED
    BY <1>1, <2>2, <2>3 DEF ProcNext, Open, Close
<1>4. \A p : Lived(p) => Lived(p)'
  BY <1>3 DEF Lived
<1>5. ASSUME NEW i \in DOMAIN lines PROVE (OwnLine(lines[i]) /\ Lived(lines[i].pid))'
  <2>1. OwnLine(lines[i]) /\ Lived(lines[i].pid)
    BY DEF OwnInv, LinesInv
  <2>2. QED
    BY <1>1, <1>2, <1>3, <2>1 DEF OwnLine, Lived, lsofVars
<1>6. LinesInv'
  BY <1>1, <1>5 DEF LinesInv, lsofVars
<1>7. LocalInv'
  BY <1>1, <1>2, <1>4 DEF OwnInv, LocalInv, lsofVars, Lived
<1>8. CrashCause'
  BY <1>1 DEF CrashCause, Ended, lsofVars
<1>9. QED
  BY <1>6, <1>7, <1>8 DEF OwnInv

LEMMA OwnStep ==
  ASSUME TypeOK, WalkInv, OwnInv, OutputInv, [Next]_vars PROVE OwnInv'
<1>1. CASE Walk
  BY <1>1, OwnReadLink, OwnStatLink, OwnOther, OwnQuiet DEF Walk
<1>2. CASE Environment
  BY <1>2, OwnEnvironment
<1>3. CASE UNCHANGED vars
  <2>1. LinesInv'
    BY <1>3, SameLines DEF OwnInv, vars
  <2>2. LocalInv' /\ CrashCause'
    BY <1>3 DEF OwnInv, LocalInv, Lived, CrashCause, vars, procVars
  <2>3. QED
    BY <2>1, <2>2 DEF OwnInv
<1>4. QED
  BY <1>1, <1>2, <1>3 DEF Next, Terminated

LEMMA OwnInit == Init => OwnInv
  BY DEF Init, OwnInv, LinesInv, LocalInv, CrashCause, AtWork

LEMMA OwnAlways == Spec => []OwnInv
<1>1. TypeOK /\ WalkInv /\ OwnInv /\ OutputInv /\ [Next]_vars => OwnInv'
  BY OwnStep
<1>2. QED
  BY <1>1, OwnInit, TypeAlways, OutputAlways, PTL DEF Spec

\* Whatever comes and goes, the links printed of a process are its own, and permission is said
\* to be denied where it is.
THEOREM OwnLinesHolds == Spec => []OwnLines
<1>1. OwnInv => OwnLines
  BY DEF OwnInv, LinesInv, OwnLines
<1>2. QED
  BY <1>1, OwnAlways, PTL

\* lsof breaks down only over a process that is gone, a mapped name with a blank, a system short
\* of open files, or a pattern that is no regular expression; and then it has printed no line.
THEOREM CrashCauseHolds == Spec => []CrashCause
<1>1. OwnInv => CrashCause
  BY DEF OwnInv
<1>2. QED
  BY <1>1, OwnAlways, PTL

-----------------------------------------------------------------------------
(* What is printed of a process that lives all the while, and once.        *)

Said(x) == \E k \in DOMAIN lines : lines[k] = x

\* The links from the one that is next
Behind == CASE link = "cwd"  -> Links
            [] link = "root" -> {"root", "exe"}
            [] link = "exe"  -> {"exe"}

\* The walk may still come to print a line labelled d of the process it is at.
Due(d) ==
  LET l == d[1] IN
  \/ pc = "user"
  \/ pc \in {"link", "stat"} /\ (l \in Links => l \in Behind)
  \/ pc = "opendir" /\ l \notin Links
  \/ pc \in {"maps", "mem"} /\ l \notin Links
       /\ (l = "mem" /\ pc = "mem" => \E k \in MI : d[2] = Maps[line.pid][k].inode)
       /\ (l = "fd" => d[2] \in fd_files)
  \/ pc \in {"fdinfo", "type", "name"} /\ l = "fd" /\ d[2] \in fd_files

\* The walk has not come to the process yet.
Waiting(p) == p \in unread \/ \E k \in DOMAIN process_dir : process_dir[k] = p

\* What the history variables say
HistoryInv ==
  /\ \A p \in firm : status[p] = "alive"
  /\ \A d \in kept : IsOpen(d[1], d[2])

\* A process is looked at once.
QueueInv ==
  /\ \A j, k \in DOMAIN process_dir : process_dir[j] = process_dir[k] => j = k
  /\ \A k \in DOMAIN process_dir : process_dir[k] \notin unread
  /\ \A k \in DOMAIN lines : ~Waiting(lines[k].pid)
  /\ pc \in AtWork => ~Waiting(line.pid)
  /\ pc \notin {"args", "list", "exited"} => unread = {}
  /\ pc = "done" => process_dir = <<>> /\ output = {k \in DOMAIN lines : Wanted(lines[k])}

\* Lines of a process have different labels; a label that is due has not been printed.
OnceInv ==
  /\ \A j, k \in DOMAIN lines :
       lines[j].pid = lines[k].pid /\ lines[j].fd = lines[k].fd => j = k
  /\ pc \in AtWork => \A k \in DOMAIN lines : lines[k].pid = line.pid => ~Due(lines[k].fd)

\* What is left of the mappings are the first of their inodes, and a descriptor that is
\* looked at is one that is left.
PlanInv ==
  /\ pc = "mem" => MI \subseteq NoDup(line.pid)
  /\ pc \in {"type", "name"} => line.fd[1] = "fd" /\ line.fd[2] \in fd_files

\* What get_process_info() has in its locals is right for a process that lives.
ShownInv ==
  line.pid \in firm =>
    /\ pc \in AtWork \ {"user"} => line.user = "owner"
    /\ pc \in AtWork \ {"fdinfo", "type", "name"} => line.mode = ""
    /\ pc \in {"maps", "mem"} => (nofd_flag <=> line.pid \notin mine)
    /\ pc \in {"type", "name"} /\ <<line.pid, line.fd[2]>> \in kept
         => line.mode = open[line.pid][line.fd[2]].mode
    /\ pc = "name" /\ <<line.pid, line.fd[2]>> \in kept
         => line.type = open[line.pid][line.fd[2]].type

\* Every row of such a process has been printed, or will be.
Covered(p) ==
  \A x \in Rows(p) : Said(x) \/ (pc \in AtWork /\ line.pid = p /\ Due(x.fd))

RowsInv == pc # "crashed" => \A p \in firm \ Blank : ~Waiting(p) => Covered(p)

ListInv == HistoryInv /\ QueueInv /\ OnceInv /\ PlanInv /\ ShownInv /\ RowsInv

-----------------------------------------------------------------------------
(* The rows of a process.                                                  *)

LinkRow(p, x) ==
  \E l \in Links :
    /\ x.fd = <<l, 0>> /\ p \in mine /\ ~(l = "exe" /\ p \in NoExe)
    /\ x = Row(p, <<l, 0>>, "", LinkType(l), Target(p, l), "")

DeniedRow(p, x) ==
  \E l \in Links :
    /\ x.fd = <<l, 0>> /\ p \notin mine
    /\ x = Row(p, <<l, 0>>, "", "unknown", Proc(p, l), "denied")

NofdRow(p, x) ==
  /\ x.fd = <<"NOFD", 0>> /\ p \notin mine
  /\ x = Row(p, <<"NOFD", 0>>, "", "", Proc(p, "fd"), "denied")

FdRow(p, x) ==
  \E f \in Fds :
    /\ x.fd = <<"fd", f>> /\ p \in mine /\ <<p, f>> \in kept
    /\ x = Row(p, <<"fd", f>>, open[p][f].mode,
               IF open[p][f].deleted THEN "unknown" ELSE open[p][f].type,
               FileName(open[p][f].name),
               IF open[p][f].deleted THEN "deleted" ELSE "")

MapRow(p, x) ==
  \E k \in Named(p) :
    /\ x.fd = <<"mem", Maps[p][k].inode>> /\ p \in mine
    /\ ~Overruns(Maps[p][k])
    /\ \A j \in Named(p) : Maps[p][j].inode = Maps[p][k].inode => j >= k
    /\ x = Row(p, <<"mem", Maps[p][k].inode>>,
               IF Maps[p][k].deleted THEN "del" ELSE "mem",
               IF Maps[p][k].deleted THEN "unknown" ELSE "REG",
               FileName(Maps[p][k].name),
               IF Maps[p][k].deleted THEN "deleted" ELSE "")

\* The kinds of rows, each with its label and its values
LEMMA RowCases ==
  ASSUME NEW p \in Pids, NEW x \in Rows(p)
  PROVE  /\ x.pid = p /\ x.user = "owner"
         /\ LinkRow(p, x) \/ DeniedRow(p, x) \/ NofdRow(p, x) \/ FdRow(p, x) \/ MapRow(p, x)
<1>1. ASSUME NEW d, NEW m, NEW t, NEW n, NEW a, x = Row(p, d, m, t, n, a)
      PROVE  x.pid = p /\ x.user = "owner" /\ x.fd = d
  BY <1>1 DEF Row
<1>2. CASE p \in mine /\ x \in LinkRows(p)
  <2>1. PICK l \in IF p \in NoExe THEN Links \ {"exe"} ELSE Links :
          x = Row(p, <<l, 0>>, "", LinkType(l), Target(p, l), "")
    BY <1>2 DEF LinkRows
  <2>2. l \in Links /\ ~(l = "exe" /\ p \in NoExe)
    BY <2>1
  <2>3. x.pid = p /\ x.user = "owner" /\ x.fd = <<l, 0>>
    BY <2>1, <1>1
  <2>4. QED
    BY <1>2, <2>1, <2>2, <2>3 DEF LinkRow
<1>3. CASE p \notin mine /\ x \in LinkRows(p)
  <2>1. CASE x = Row(p, <<"NOFD", 0>>, "", "", Proc(p, "fd"), "denied")
    BY <1>1, <1>3, <2>1 DEF NofdRow
  <2>2. CASE \E l \in Links : x = Row(p, <<l, 0>>, "", "unknown", Proc(p, l), "denied")
    BY <1>1, <1>3, <2>2 DEF DeniedRow
  <2>3. QED
    BY <1>3, <2>1, <2>2 DEF LinkRows
<1>4. CASE p \in mine /\ x \in FdRows(p, {f \in Fds : <<p, f>> \in kept})
  <2>1. PICK f \in Fds :
          /\ <<p, f>> \in kept
          /\ x = Row(p, <<"fd", f>>, open[p][f].mode,
                     IF open[p][f].deleted THEN "unknown" ELSE open[p][f].type,
                     FileName(open[p][f].name),
                     IF open[p][f].deleted THEN "deleted" ELSE "")
    BY <1>4 DEF FdRows
  <2>2. x.pid = p /\ x.user = "owner" /\ x.fd = <<"fd", f>>
    BY <2>1, <1>1
  <2>3. QED
    BY <1>4, <2>1, <2>2 DEF FdRow
<1>5. CASE p \in mine /\ x \in MapRows(p)
  <2>1. PICK k \in Named(p) :
          /\ ~Overruns(Maps[p][k])
          /\ \A j \in Named(p) : Maps[p][j].inode = Maps[p][k].inode => j >= k
          /\ x = Row(p, <<"mem", Maps[p][k].inode>>,
                     IF Maps[p][k].deleted THEN "del" ELSE "mem",
                     IF Maps[p][k].deleted THEN "unknown" ELSE "REG",
                     FileName(Maps[p][k].name),
                     IF Maps[p][k].deleted THEN "deleted" ELSE "")
    BY <1>5 DEF MapRows
  <2>2. x.pid = p /\ x.user = "owner" /\ x.fd = <<"mem", Maps[p][k].inode>>
    BY <2>1, <1>1
  <2>3. QED
    BY <1>5, <2>1, <2>2 DEF MapRow
<1>6. QED
  BY <1>2, <1>3, <1>4, <1>5 DEF Rows

\* A line of the owner's is the row with its values.
LEMMA RowOf ==
  ASSUME NEW y \in Lines, y.user = "owner"
  PROVE  y = Row(y.pid, y.fd, y.mode, y.type, y.name, y.append)
  BY DEF Lines, Row

\* Labels of different kinds are different.
LEMMA Labels ==
  /\ "fd" \notin Links /\ "mem" \notin Links /\ "NOFD" \notin Links
  /\ \A a, b : <<a, b>>[1] = a /\ <<a, b>>[2] = b
  BY DEF Links

\* While a process lives, the rows of it can only become fewer.
LEMMA RowsShrink ==
  ASSUME TypeOK, HistoryInv, NEW p \in Pids, mine' = mine, kept' \subseteq kept,
         \A f \in Fds : <<p, f>> \in kept' => open'[p][f] = open[p][f]
  PROVE  Rows(p)' \subseteq Rows(p)
<1>1. LinkRows(p)' = LinkRows(p)
  BY DEF LinkRows
<1>2. MapRows(p)' = MapRows(p)
  BY DEF MapRows, Named
<1>3. FdRows(p, {f \in Fds : <<p, f>> \in kept})' \subseteq FdRows(p, {f \in Fds : <<p, f>> \in kept})
  <2> DEFINE R(o, f) == Row(p, <<"fd", f>>, o[p][f].mode,
                            IF o[p][f].deleted THEN "unknown" ELSE o[p][f].type,
                            FileName(o[p][f].name),
                            IF o[p][f].deleted THEN "deleted" ELSE "")
  <2>1. FdRows(p, {f \in Fds : <<p, f>> \in kept}) = {R(open, f) : f \in {f \in Fds : <<p, f>> \in kept}}
    BY DEF FdRows
  <2>2. FdRows(p, {f \in Fds : <<p, f>> \in kept})'
          = {R(open', f) : f \in {f \in Fds : <<p, f>> \in kept'}}
    BY DEF FdRows, Row, FileName
  <2>3. \A f \in Fds : <<p, f>> \in kept' => R(open', f) = R(open, f) /\ <<p, f>> \in kept
    OBVIOUS
  <2> HIDE DEF R
  <2>4. QED
    BY <2>1, <2>2, <2>3
<1>4. QED
  BY <1>1, <1>2, <1>3 DEF Rows

LEMMA SameRows ==
  ASSUME UNCHANGED procVars, NEW p
  PROVE  Rows(p)' = Rows(p)
  BY DEF procVars, Rows, LinkRows, FdRows, MapRows, Named

-----------------------------------------------------------------------------
(* What the environment leaves as it is.                                   *)

LEMMA HistoryStep ==
  ASSUME TypeOK, HistoryInv, ProcNext
  PROVE  /\ HistoryInv' /\ mine' = mine /\ firm' \subseteq firm /\ kept' \subseteq kept
         /\ \A d \in kept' : open'[d[1]][d[2]] = open[d[1]][d[2]]
<1>1. /\ status \in [Pids -> {"unborn", "alive", "zombie", "gone"}]
      /\ open \in [Pids -> [Fds -> Files \union {NoFile}]]
      /\ firm \subseteq Pids /\ kept \subseteq Pids \X Fds
  BY DEF TypeOK, ProcOK
<1>2. ASSUME NEW p \in Pids, Start(p) \/ Reap(p)
      PROVE  /\ HistoryInv' /\ mine' = mine /\ firm' \subseteq firm /\ kept' \subseteq kept
             /\ \A d \in kept' : open'[d[1]][d[2]] = open[d[1]][d[2]]
  BY <1>1, <1>2 DEF Start, Reap, HistoryInv, IsOpen
<1>3. ASSUME NEW p \in Pids, Exit(p)
      PROVE  /\ HistoryInv' /\ mine' = mine /\ firm' \subseteq firm /\ kept' \subseteq kept
             /\ \A d \in kept' : open'[d[1]][d[2]] = open[d[1]][d[2]]
  <2>1. /\ status' = [status EXCEPT ![p] = "zombie"] /\ open' = [open EXCEPT ![p] = Unused]
        /\ firm' = firm \ {p} /\ kept' = {d \in kept : d[1] # p} /\ mine' = mine
    BY <1>3 DEF Exit
  <2>2. \A q \in Pids : q # p => status'[q] = status[q] /\ open'[q] = open[q]
    BY <1>1, <2>1
  <2>3. \A d \in kept' : d[1] \in Pids /\ d[1] # p /\ d \in kept
    BY <1>1, <2>1
  <2>4. QED
    BY <1>1, <2>1, <2>2, <2>3 DEF HistoryInv, IsOpen
<1>4. ASSUME NEW p \in Pids, NEW f \in Fds, Close(p, f) \/ \E x \in Files : Open(p, f, x)
      PROVE  /\ HistoryInv' /\ mine' = mine /\ firm' \subseteq firm /\ kept' \subseteq kept
             /\ \A d \in kept' : open'[d[1]][d[2]] = open[d[1]][d[2]]
  <2>1. /\ UNCHANGED <<status, mine, firm>> /\ kept' \subseteq kept \ {<<p, f>>}
        /\ \E x : open' = [open EXCEPT ![p][f] = x]
    <3>1. CASE Close(p, f)
      BY <3>1 DEF Close
    <3>2. CASE \E x \in Files : Open(p, f, x)
      <4>1. <<p, f>> \notin kept
        <5>1. open[p][f] = NoFile
          BY <3>2 DEF Open
        <5>2. ~IsOpen(<<p, f>>[1], <<p, f>>[2])
          BY <5>1 DEF IsOpen
        <5>3. QED
          BY <5>2 DEF HistoryInv
      <4>2. QED
        BY <3>2, <4>1 DEF Open
    <3>3. QED
      BY <1>4, <3>1, <3>2
  <2>2. \A d \in kept' : open'[d[1]][d[2]] = open[d[1]][d[2]]
    <3>1. SUFFICES ASSUME NEW d \in kept' PROVE open'[d[1]][d[2]] = open[d[1]][d[2]]
      OBVIOUS
    <3>2. d[1] \in Pids /\ d[2] \in Fds /\ d = <<d[1], d[2]>> /\ d # <<p, f>>
      BY <1>1, <2>1
    <3>3. QED
      BY <1>1, <2>1, <3>2
  <2>3. HistoryInv'
    BY <2>1, <2>2 DEF HistoryInv, IsOpen
  <2>4. QED
    BY <2>1, <2>2, <2>3
<1>5. QED
  BY <1>2, <1>3, <1>4 DEF ProcNext

LEMMA ListEnvironment ==
  ASSUME TypeOK, ListInv, Environment
  PROVE  ListInv'
<1>1. /\ HistoryInv' /\ mine' = mine /\ firm' \subseteq firm /\ kept' \subseteq kept
      /\ \A d \in kept' : open'[d[1]][d[2]] = open[d[1]][d[2]]
  BY HistoryStep DEF Environment, ListInv
<1>2. UNCHANGED lsofVars
  BY DEF Environment
<1>3. QueueInv' /\ PlanInv'
  BY <1>2 DEF ListInv, QueueInv, Waiting, Wanted, PlanInv, NoDup, Named, lsofVars
<1>4. \A d : Due(d)' <=> Due(d)
  BY <1>2 DEF Due, Behind, lsofVars
<1>5. OnceInv'
  BY <1>2, <1>4 DEF ListInv, OnceInv, lsofVars
<1>6. ShownInv'
  <2>1. SUFFICES ASSUME line.pid \in firm' PROVE ShownInv'
    BY <1>2 DEF ShownInv, lsofVars
  <2>2. line.pid \in firm
    BY <1>1, <2>1
  <2>3. \A f : <<line.pid, f>> \in kept' =>
          open'[line.pid][f] = open[line.pid][f] /\ <<line.pid, f>> \in kept
    BY <1>1, Labels
  <2>4. QED
    BY <1>1, <1>2, <2>2, <2>3 DEF ListInv, ShownInv, lsofVars
<1>7. RowsInv'
  <2>1. SUFFICES ASSUME pc # "crashed", NEW p \in firm' \ Blank, ~Waiting(p),
                        NEW x \in Rows(p)'
                 PROVE  (Said(x) \/ (pc \in AtWork /\ line.pid = p /\ Due(x.fd)))'
    BY <1>2 DEF RowsInv, Covered, Waiting, lsofVars
  <2>2. p \in firm \ Blank /\ p \in Pids
    BY <1>1, <2>1 DEF TypeOK, ProcOK
  <2>3. \A f \in Fds : <<p, f>> \in kept' => open'[p][f] = open[p][f]
    BY <1>1, Labels
  <2>4. x \in Rows(p)
    BY <1>1, <2>1, <2>2, <2>3, RowsShrink DEF ListInv
  <2>5. Said(x) \/ (pc \in AtWork /\ line.pid = p /\ Due(x.fd))
    BY <2>1, <2>2, <2>4 DEF ListInv, RowsInv, Covered
  <2>6. Said(x)' <=> Said(x)
    BY <1>2 DEF Said, lsofVars
  <2>7. QED
    BY <1>2, <1>4, <2>5, <2>6 DEF lsofVars
<1>8. QED
  BY <1>1, <1>3, <1>5, <1>6, <1>7 DEF ListInv

-----------------------------------------------------------------------------
(* What a step of the walk over one process owes to the invariant.         *)

\* Where such a step goes, and what it leaves alone
OnProcess ==
  /\ pc \in AtWork /\ pc' \in AtWork \union {"process"}
  /\ line'.pid = line.pid
  /\ UNCHANGED <<procVars, unread, process_dir>>

LEMMA OnProcessHistory ==
  ASSUME ListInv, OnProcess
  PROVE  HistoryInv'
  BY DEF ListInv, HistoryInv, OnProcess, procVars, IsOpen

\* The walk prints nothing: what is due remains due, if it is a row's.
LEMMA NothingPrinted ==
  ASSUME TypeOK, ListInv, OnProcess, lines' = lines,
         \A d : pc' \in AtWork /\ Due(d)' => Due(d),
         line.pid \in firm \ Blank =>
           \A x \in Rows(line.pid) : Due(x.fd) => pc' \in AtWork /\ Due(x.fd)'
  PROVE  HistoryInv' /\ QueueInv' /\ OnceInv' /\ RowsInv'
<1>1. HistoryInv'
  BY OnProcessHistory
<1>2. \A p : Waiting(p)' <=> Waiting(p)
  BY DEF OnProcess, Waiting
<1>3. QueueInv'
  BY <1>2 DEF ListInv, QueueInv, OnProcess, AtWork
<1>4. OnceInv'
  BY DEF ListInv, OnceInv, OnProcess
<1>5. RowsInv'
  <2>1. SUFFICES ASSUME NEW p \in firm \ Blank, ~Waiting(p), NEW x \in Rows(p)
                 PROVE  Said(x) \/ (pc' \in AtWork /\ line.pid = p /\ Due(x.fd)')
    <3>1. \A p : Rows(p)' = Rows(p)
      BY SameRows DEF OnProcess
    <3>2. \A x : Said(x)' <=> Said(x)
      BY DEF Said
    <3>3. firm' = firm /\ line'.pid = line.pid
      BY DEF OnProcess, procVars
    <3>4. QED
      BY <1>2, <3>1, <3>2, <3>3 DEF RowsInv, Covered
  <2>2. pc # "crashed"
    BY DEF OnProcess, AtWork
  <2>3. Said(x) \/ (pc \in AtWork /\ line.pid = p /\ Due(x.fd))
    BY <2>1, <2>2 DEF ListInv, RowsInv, Covered
  <2>4. QED
    BY <2>1, <2>3
<1>6. QED
  BY <1>1, <1>3, <1>4, <1>5

\* The walk prints line y, which was due and is not any more: it is the row with that label.
LEMMA LinePrinted ==
  ASSUME TypeOK, ListInv, OnProcess,
         NEW y \in Lines, y.pid = line.pid, lines' = Append(lines, y), Due(y.fd),
         \A d : pc' \in AtWork /\ Due(d)' => Due(d) /\ d # y.fd,
         line.pid \in firm \ Blank =>
           \A x \in Rows(line.pid) :
             /\ x.fd = y.fd => x = y
             /\ Due(x.fd) => x.fd = y.fd \/ (pc' \in AtWork /\ Due(x.fd)')
  PROVE  HistoryInv' /\ QueueInv' /\ OnceInv' /\ RowsInv'
<1> DEFINE n == Len(lines) + 1
<1>1. /\ lines \in Seq(Lines) /\ n \in Nat /\ DOMAIN lines' = 1..n /\ DOMAIN lines = 1..(n - 1)
      /\ lines'[n] = y /\ \A k \in 1..(n - 1) : lines'[k] = lines[k]
  BY DEF TypeOK
<1> HIDE DEF n
<1>2. \A k \in DOMAIN lines' : k = n \/ (k \in DOMAIN lines /\ k # n)
  BY <1>1
<1>3. \A k \in DOMAIN lines : k \in DOMAIN lines' /\ lines'[k] = lines[k]
  BY <1>1
<1>4. HistoryInv'
  BY OnProcessHistory
<1>5. \A p : Waiting(p)' <=> Waiting(p)
  BY DEF OnProcess, Waiting
<1>6. QueueInv'
  <2>1. \A k \in DOMAIN lines' : ~Waiting(lines'[k].pid)
    BY <1>1, <1>2, <1>3 DEF ListInv, QueueInv, OnProcess
  <2>2. QED
    BY <1>5, <2>1 DEF ListInv, QueueInv, OnProcess, AtWork
<1>7. OnceInv'
  <2>1. \A k \in DOMAIN lines : ~(lines[k].pid = y.pid /\ lines[k].fd = y.fd)
    BY DEF ListInv, OnceInv, OnProcess
  <2>2. ASSUME NEW j \in DOMAIN lines', NEW k \in DOMAIN lines',
               lines'[j].pid = lines'[k].pid, lines'[j].fd = lines'[k].fd
        PROVE  j = k
    <3>1. CASE j \in DOMAIN lines /\ k \in DOMAIN lines
      BY <1>3, <2>2, <3>1 DEF ListInv, OnceInv
    <3>2. CASE j = n /\ k \in DOMAIN lines
      BY <1>1, <1>3, <2>1, <2>2, <3>2
    <3>3. CASE k = n /\ j \in DOMAIN lines
      BY <1>1, <1>3, <2>1, <2>2, <3>3
    <3>4. QED
      BY <1>2, <3>1, <3>2, <3>3
  <2>3. ASSUME pc' \in AtWork, NEW k \in DOMAIN lines', lines'[k].pid = line.pid
        PROVE  ~Due(lines[k].fd)'
    <3>1. CASE k = n
      BY <1>1, <2>3, <3>1
    <3>2. CASE k \in DOMAIN lines
      BY <1>3, <2>3, <3>2 DEF ListInv, OnceInv, OnProcess
    <3>3. QED
      BY <1>2, <3>1, <3>2
  <2>4. QED
    BY <2>2, <2>3 DEF OnceInv, OnProcess
<1>8. RowsInv'
  <2>1. SUFFICES ASSUME NEW p \in firm \ Blank, ~Waiting(p), NEW x \in Rows(p)
                 PROVE  Said(x)' \/ (pc' \in AtWork /\ line.pid = p /\ Due(x.fd)')
    <3>1. \A p : Rows(p)' = Rows(p)
      BY SameRows DEF OnProcess
    <3>2. firm' = firm /\ line'.pid = line.pid
      BY DEF OnProcess, procVars
    <3>3. QED
      BY <1>5, <3>1, <3>2 DEF RowsInv, Covered
  <2>2. pc # "crashed"
    BY DEF OnProcess, AtWork
  <2>3. Said(x) \/ (pc \in AtWork /\ line.pid = p /\ Due(x.fd))
    BY <2>1, <2>2 DEF ListInv, RowsInv, Covered
  <2>4. CASE Said(x)
    BY <1>3, <2>4 DEF Said
  <2>5. CASE x = y
    <3>1. n \in DOMAIN lines' /\ lines'[n] = y
      BY <1>1
    <3>2. QED
      BY <2>5, <3>1 DEF Said
  <2>6. CASE line.pid = p /\ Due(x.fd)
    BY <2>1, <2>5, <2>6
  <2>7. QED
    BY <2>3, <2>4, <2>6
<1>9. QED
  BY <1>4, <1>6, <1>7, <1>8

-----------------------------------------------------------------------------
(* The links.                                                              *)

\* What readlink() says of a process that lives
LEMMA FirmLink ==
  ASSUME ListInv, line.pid \in firm
  PROVE  LinkErrno(line.pid, link) =
           IF line.pid \notin mine THEN "EACCES"
           ELSE IF link = "exe" /\ line.pid \in NoExe THEN "ENOENT" ELSE "none"
  BY DEF ListInv, HistoryInv, LinkErrno, Exists

\* The next link is due, and the labels that are due behind it are those that were, but its.
LEMMA LinkDue ==
  ASSUME TypeOK, pc \in {"link", "stat"}, NEW x, PrintLink(x)
  PROVE  /\ pc' \in {"link", "opendir"}
         /\ Due(<<link, 0>>)
         /\ \A d : Due(d)' => Due(d) /\ d # <<link, 0>>
         /\ \A d : Due(d) /\ (d[1] \in Links => d[1] # link) => Due(d)'
<1>1. link \in Links /\ <<link, 0>>[1] = link /\ Links = {"cwd", "root", "exe"}
  BY DEF TypeOK, Links
<1>2. CASE link = "cwd"
  <2>1. pc' = "link" /\ link' = "root" /\ Behind = Links /\ Behind' = {"root", "exe"}
    BY <1>2 DEF PrintLink, Behind
  <2>2. QED
    BY <1>1, <1>2, <2>1 DEF Due
<1>3. CASE link = "root"
  <2>1. pc' = "link" /\ link' = "exe" /\ Behind = {"root", "exe"} /\ Behind' = {"exe"}
    BY <1>3 DEF PrintLink, Behind
  <2>2. QED
    BY <1>1, <1>3, <2>1 DEF Due
<1>4. CASE link = "exe"
  <2>1. pc' = "opendir" /\ Behind = {"exe"}
    BY <1>4 DEF PrintLink, Behind
  <2>2. QED
    BY <1>1, <1>4, <2>1 DEF Due
<1>5. QED
  BY <1>1, <1>2, <1>3, <1>4

\* Labels say what kind a row is of.
LEMMA RowKinds ==
  ASSUME NEW p \in Pids, NEW x \in Rows(p)
  PROVE  /\ x.fd[1] \in Links <=> LinkRow(p, x) \/ DeniedRow(p, x)
         /\ x.fd[1] = "NOFD" <=> NofdRow(p, x)
         /\ x.fd[1] = "fd" <=> FdRow(p, x)
         /\ x.fd[1] = "mem" <=> MapRow(p, x)
<1>1. LinkRow(p, x) \/ DeniedRow(p, x) => x.fd[1] \in Links
  BY Labels DEF LinkRow, DeniedRow
<1>2. NofdRow(p, x) => x.fd[1] = "NOFD"
  BY Labels DEF NofdRow
<1>3. FdRow(p, x) => x.fd[1] = "fd"
  BY Labels DEF FdRow
<1>4. MapRow(p, x) => x.fd[1] = "mem"
  BY Labels DEF MapRow
<1>5. QED
  BY <1>1, <1>2, <1>3, <1>4, RowCases, Labels

\* A row that is labelled with a link
LEMMA LinkLabel ==
  ASSUME NEW p \in Pids, NEW x \in Rows(p), NEW l \in Links,
         x.fd = <<l, 0>> \/ x.fd[1] = l
  PROVE  /\ x.fd = <<l, 0>>
         /\ p \in mine => /\ ~(l = "exe" /\ p \in NoExe)
                          /\ x = Row(p, <<l, 0>>, "", LinkType(l), Target(p, l), "")
         /\ p \notin mine => x = Row(p, <<l, 0>>, "", "unknown", Proc(p, l), "denied")
<1>1. x.fd[1] = l
  BY Labels
<1>2. CASE LinkRow(p, x)
  BY <1>1, <1>2, Labels DEF LinkRow
<1>3. CASE DeniedRow(p, x)
  BY <1>1, <1>3, Labels DEF DeniedRow
<1>4. QED
  BY <1>1, <1>2, <1>3, RowKinds

\* A link's line x is printed: it is the link's row, if the process lives.
LEMMA LinkPrinted ==
  ASSUME TypeOK, WalkInv, ListInv, pc \in {"link", "stat"},
         UNCHANGED <<procVars, unread, process_dir>>,
         NEW x \in Lines, PrintLink(x), x.pid = line.pid,
         line.pid \in firm =>
           /\ x.user = "owner" /\ x.mode = ""
           /\ line.pid \in mine /\ ~(link = "exe" /\ line.pid \in NoExe)
                => x.name = Target(line.pid, link) /\ x.type = LinkType(link) /\ x.append = ""
           /\ line.pid \notin mine
                => x.name = Proc(line.pid, link) /\ x.type = "unknown" /\ x.append = "denied"
  PROVE  ListInv'
<1> DEFINE y == [x EXCEPT !.fd = <<link, 0>>]
<1>1. /\ y \in Lines /\ y.fd = <<link, 0>> /\ y.pid = line.pid /\ y.user = x.user
      /\ y.mode = x.mode /\ y.type = x.type /\ y.name = x.name /\ y.append = x.append
  BY DEF TypeOK, Lines
<1>2. lines' = Append(lines, y) /\ line' = x
  BY DEF PrintLink
<1> HIDE DEF y
<1>3. link \in Links /\ line.pid \in Pids
  BY DEF TypeOK, WalkInv, AtWork
<1>4. pc' \in {"link", "opendir"} /\ Due(y.fd) /\ \A d : Due(d)' => Due(d) /\ d # y.fd
  BY <1>1, LinkDue
<1>5. OnProcess
  BY <1>2, <1>4 DEF OnProcess, AtWork
<1>6. ASSUME line.pid \in firm \ Blank, NEW r \in Rows(line.pid)
      PROVE  /\ r.fd = y.fd => r = y
             /\ Due(r.fd) => r.fd = y.fd \/ (pc' \in AtWork /\ Due(r.fd)')
  <2>1. ASSUME r.fd = y.fd PROVE r = y
    <3>1. r.fd = <<link, 0>>
      BY <1>1, <2>1
    <3>2. y = Row(line.pid, <<link, 0>>, "", y.type, y.name, y.append)
      BY <1>1, <1>6, RowOf
    <3>3. CASE line.pid \in mine
      <4>1. /\ ~(link = "exe" /\ line.pid \in NoExe)
            /\ r = Row(line.pid, <<link, 0>>, "", LinkType(link), Target(line.pid, link), "")
        BY <1>3, <3>1, <3>3, LinkLabel
      <4>2. y.name = Target(line.pid, link) /\ y.type = LinkType(link) /\ y.append = ""
        BY <1>1, <1>6, <3>3, <4>1
      <4>3. QED
        BY <3>2, <4>1, <4>2
    <3>4. CASE line.pid \notin mine
      <4>1. r = Row(line.pid, <<link, 0>>, "", "unknown", Proc(line.pid, link), "denied")
        BY <1>3, <3>1, <3>4, LinkLabel
      <4>2. y.name = Proc(line.pid, link) /\ y.type = "unknown" /\ y.append = "denied"
        BY <1>1, <1>6, <3>4
      <4>3. QED
        BY <3>2, <4>1, <4>2
    <3>5. QED
      BY <3>3, <3>4
  <2>2. ASSUME Due(r.fd), r.fd # y.fd PROVE pc' \in AtWork /\ Due(r.fd)'
    <3>1. ~(r.fd[1] = link)
      BY <1>1, <1>3, <2>2, LinkLabel
    <3>2. QED
      BY <1>4, <2>2, <3>1, LinkDue DEF AtWork
  <2>3. QED
    BY <2>1, <2>2
<1>7. HistoryInv' /\ QueueInv' /\ OnceInv' /\ RowsInv'
  BY <1>1, <1>2, <1>4, <1>5, <1>6, LinePrinted
<1>8. PlanInv'
  BY <1>4 DEF PlanInv
<1>9. ShownInv'
  BY <1>2, <1>4 DEF ShownInv, procVars
<1>10. QED
  BY <1>7, <1>8, <1>9 DEF ListInv

LEMMA ListReadLink ==
  ASSUME TypeOK, WalkInv, ListInv, ReadLink
  PROVE  ListInv'
<1>1. /\ UNCHANGED <<procVars, unread, process_dir>> /\ pc = "link"
      /\ line \in Lines /\ line.pid \in Pids
  BY DEF ReadLink, TypeOK, WalkInv, AtWork
<1>2. line.pid \in firm => line.user = "owner" /\ line.mode = ""
  BY <1>1 DEF ListInv, ShownInv, AtWork
<1>3. CASE LinkErrno(line.pid, link) = "EACCES" /\ PrintLink(Denied)
  <2>1. Denied \in Lines /\ Denied.pid = line.pid
    BY <1>1, DeniedType
  <2>2. /\ Denied.user = line.user /\ Denied.mode = line.mode
        /\ Denied.name = Proc(line.pid, link) /\ Denied.type = "unknown"
        /\ Denied.append = "denied"
    BY <1>1 DEF Denied, Lines
  <2>3. line.pid \notin mine
    BY <1>3 DEF LinkErrno
  <2>4. QED
    BY <1>1, <1>2, <1>3, <2>1, <2>2, <2>3, LinkPrinted
<1>4. CASE LinkErrno(line.pid, link) = "ENOENT" /\ PrintLink(line)
  <2>1. line.pid \in firm => line.pid \in mine /\ link = "exe" /\ line.pid \in NoExe
    BY <1>4, FirmLink
  <2>2. QED
    BY <1>1, <1>2, <1>4, <2>1, LinkPrinted
<1>5. CASE LinkErrno(line.pid, link) = "none"
  <2>1. /\ pc' = "stat" /\ link' = link /\ lines' = lines
        /\ line' \in Lines /\ line'.pid = line.pid
    BY <1>5, ReadLinkSteps
  <2>2. line'.user = line.user /\ line'.mode = line.mode
    <3>1. PICK x \in {Denied, line} :
            line' = [x EXCEPT !.name = Target(line.pid, link), !.append = ""]
      BY <1>5 DEF ReadLink
    <3>2. x \in Lines
      BY <1>1, <3>1, DeniedType
    <3>3. x.user = line.user /\ x.mode = line.mode
      BY <1>1, <3>1 DEF Denied, Lines
    <3>4. QED
      BY <3>1, <3>2, <3>3 DEF Lines
  <2>3. OnProcess
    BY <1>1, <2>1 DEF OnProcess, AtWork
  <2>4. \A d : Due(d)' <=> Due(d)
    BY <1>1, <2>1 DEF Due, Behind
  <2>5. HistoryInv' /\ QueueInv' /\ OnceInv' /\ RowsInv'
    BY <2>1, <2>3, <2>4, NothingPrinted DEF AtWork
  <2>6. PlanInv' /\ ShownInv'
    BY <1>1, <1>2, <2>1, <2>2 DEF PlanInv, ShownInv, procVars
  <2>7. QED
    BY <2>5, <2>6 DEF ListInv
<1>6. QED
  BY <1>3, <1>4, <1>5, ReadLinkSteps

LEMMA ListStatLink ==
  ASSUME TypeOK, WalkInv, OwnInv, ListInv, StatLink
  PROVE  ListInv'
<1>1. /\ UNCHANGED <<procVars, unread, process_dir>> /\ pc = "stat" /\ line \in Lines
      /\ line.pid \in mine /\ line.name = Target(line.pid, link) /\ line.append = ""
  BY DEF StatLink, TypeOK, OwnInv, LocalInv
<1>2. PICK t \in Types : /\ LinkErrno(line.pid, link) = "none" => t = LinkType(link)
                         /\ [line EXCEPT !.type = t] \in Lines
                         /\ PrintLink([line EXCEPT !.type = t])
  BY StatLinkSteps
<1> DEFINE x == [line EXCEPT !.type = t]
<1>3. /\ x.pid = line.pid /\ x.user = line.user /\ x.mode = line.mode /\ x.name = line.name
      /\ x.append = line.append /\ x.type = t
  BY <1>1 DEF Lines
<1>4. x \in Lines /\ PrintLink(x)
  BY <1>2
<1> HIDE DEF x
<1>5. line.pid \in firm => line.user = "owner" /\ line.mode = ""
  BY <1>1 DEF ListInv, ShownInv, AtWork
<1>6. line.pid \in firm /\ ~(link = "exe" /\ line.pid \in NoExe) => t = LinkType(link)
  BY <1>1, <1>2, FirmLink
<1>7. QED
  BY <1>1, <1>3, <1>4, <1>5, <1>6, LinkPrinted

-----------------------------------------------------------------------------
(* The directory of descriptors and the mappings.                          *)

LEMMA ListGetUser ==
  ASSUME TypeOK, WalkInv, ListInv, ~scarce, GetUser
  PROVE  ListInv'
<1>1. PICK u : /\ line' = [line EXCEPT !.user = u]
               /\ Exists(line.pid) => u = "owner"
  BY DEF GetUser
<1>2. /\ pc = "user" /\ pc' = "link" /\ link' = "cwd" /\ lines' = lines /\ line \in Lines
      /\ UNCHANGED <<procVars, unread, process_dir>>
  BY DEF GetUser, TypeOK
<1>3. line'.pid = line.pid /\ line'.user = u /\ line'.mode = line.mode
  BY <1>1, <1>2 DEF Lines
<1>4. OnProcess
  BY <1>2, <1>3 DEF OnProcess, AtWork
<1>5. \A d : Due(d) /\ Due(d)'
  BY <1>2 DEF Due, Behind
<1>6. HistoryInv' /\ QueueInv' /\ OnceInv' /\ RowsInv'
  BY <1>2, <1>4, <1>5, NothingPrinted DEF AtWork
<1>7. PlanInv'
  BY <1>2 DEF PlanInv
<1>8. ShownInv'
  <2>1. line.pid \in firm => u = "owner" /\ line.mode = ""
    BY <1>1, <1>2 DEF ListInv, HistoryInv, Exists, ShownInv, AtWork
  <2>2. QED
    BY <1>2, <1>3, <2>1 DEF ShownInv, procVars
<1>9. QED
  BY <1>6, <1>7, <1>8 DEF ListInv

\* lsof is brought down: it prints nothing, and what it owes is not looked at.
LEMMA ListCrash ==
  ASSUME TypeOK, ListInv, pc \in AtWork, pc' = "crashed",
         UNCHANGED <<procVars, unread, process_dir, line, lines>>
  PROVE  ListInv'
<1>1. \A p : Waiting(p)' <=> Waiting(p)
  BY DEF Waiting
<1>2. HistoryInv' /\ RowsInv' /\ PlanInv'
  BY DEF ListInv, HistoryInv, IsOpen, procVars, RowsInv, PlanInv
<1>3. QueueInv'
  BY <1>1 DEF ListInv, QueueInv, AtWork
<1>4. OnceInv' /\ ShownInv'
  BY DEF ListInv, OnceInv, ShownInv, AtWork
<1>5. QED
  BY <1>2, <1>3, <1>4 DEF ListInv

LEMMA ListOpenDir ==
  ASSUME TypeOK, WalkInv, ListInv, OpenDir
  PROVE  ListInv'
<1>1. /\ pc = "opendir" /\ line.pid \in Pids
      /\ UNCHANGED <<procVars, unread, process_dir, link, MI, line, lines>>
  BY DEF OpenDir, WalkInv, AtWork
<1>2. CASE pc' = "crashed"
  BY <1>1, <1>2, ListCrash DEF AtWork
<1>3. CASE pc' # "crashed"
  <2>1. /\ pc' = "maps"
        /\ \/ line.pid \notin mine /\ nofd_flag' = TRUE
           \/ /\ line.pid \in mine /\ nofd_flag' = FALSE
              /\ fd_files' = {f \in Fds : IsOpen(line.pid, f)}
    BY <1>3 DEF OpenDir, OpenDirFails
  <2>2. OnProcess
    BY <1>1, <2>1 DEF OnProcess, AtWork
  <2>3. \A d : Due(d)' => Due(d)
    BY <1>1, <2>1 DEF Due
  <2>4. ASSUME NEW x \in Rows(line.pid), Due(x.fd) PROVE Due(x.fd)'
    <3>1. x.fd[1] \notin Links
      BY <1>1, <2>4 DEF Due
    <3>2. ASSUME x.fd[1] = "fd" PROVE x.fd[2] \in fd_files'
      <4>1. PICK f \in Fds : x.fd = <<"fd", f>> /\ line.pid \in mine /\ <<line.pid, f>> \in kept
        BY <1>1, <3>2, RowKinds DEF FdRow
      <4>2. IsOpen(line.pid, f)
        BY <4>1, Labels DEF ListInv, HistoryInv
      <4>3. QED
        BY <2>1, <4>1, <4>2, Labels
    <3>3. QED
      BY <2>1, <3>1, <3>2 DEF Due
  <2>5. HistoryInv' /\ QueueInv' /\ OnceInv' /\ RowsInv'
    BY <1>1, <2>1, <2>2, <2>3, <2>4, NothingPrinted DEF AtWork
  <2>6. PlanInv' /\ ShownInv'
    BY <1>1, <2>1 DEF ListInv, PlanInv, ShownInv, AtWork, procVars
  <2>7. QED
    BY <2>5, <2>6 DEF ListInv
<1>4. QED
  BY <1>2, <1>3

\* The first mapping of an inode is one that is kept.
LEMMA FirstKept ==
  ASSUME NEW p \in Pids, NEW k \in Named(p),
         \A j \in Named(p) : Maps[p][j].inode = Maps[p][k].inode => j >= k
  PROVE  k \in NoDup(p)
<1>1. \A j \in Named(p) : j \in Nat
  BY MappingType
<1>2. QED
  BY <1>1 DEF NoDup

LEMMA KeptApart ==
  ASSUME NEW p \in Pids, NEW j \in NoDup(p), NEW k \in NoDup(p),
         Maps[p][j].inode = Maps[p][k].inode
  PROVE  j = k
<1>1. j \in Nat /\ k \in Nat /\ j \in Named(p) /\ k \in Named(p)
  BY MappingType DEF NoDup
<1>2. ~(j < k) /\ ~(k < j)
  BY <1>1 DEF NoDup
<1>3. QED
  BY <1>1, <1>2

LEMMA ListReadMaps ==
  ASSUME TypeOK, WalkInv, ListInv, ~scarce, ReadMaps
  PROVE  ListInv'
<1>1. /\ pc = "maps" /\ line.pid \in Pids
      /\ UNCHANGED <<procVars, unread, process_dir, link, fd_files, nofd_flag, line, lines>>
  BY DEF ReadMaps, WalkInv, AtWork
<1>2. CASE pc' = "crashed"
  BY <1>1, <1>2, ListCrash DEF AtWork
<1>3. CASE pc' # "crashed"
  <2>1. /\ pc' = "mem"
        /\ MI' = IF status[line.pid] = "alive" /\ line.pid \in mine
                   THEN NoDup(line.pid) ELSE {}
    BY <1>3 DEF ReadMaps
  <2>2. OnProcess
    BY <1>1, <2>1 DEF OnProcess, AtWork
  <2>3. \A d : Due(d)' => Due(d)
    BY <1>1, <2>1 DEF Due
  <2>4. ASSUME line.pid \in firm, NEW x \in Rows(line.pid), Due(x.fd) PROVE Due(x.fd)'
    <3>1. x.fd[1] \notin Links /\ (x.fd[1] = "fd" => x.fd[2] \in fd_files)
      BY <1>1, <2>4 DEF Due
    <3>2. ASSUME x.fd[1] = "mem" PROVE \E k \in MI' : x.fd[2] = Maps[line.pid][k].inode
      <4>1. PICK k \in Named(line.pid) :
              /\ x.fd = <<"mem", Maps[line.pid][k].inode>> /\ line.pid \in mine
              /\ \A j \in Named(line.pid) :
                   Maps[line.pid][j].inode = Maps[line.pid][k].inode => j >= k
        BY <1>1, <3>2, RowKinds DEF MapRow
      <4>2. k \in NoDup(line.pid)
        BY <1>1, <4>1, FirstKept
      <4>3. status[line.pid] = "alive"
        BY <2>4 DEF ListInv, HistoryInv
      <4>4. QED
        BY <2>1, <4>1, <4>2, <4>3, Labels
    <3>3. QED
      BY <1>1, <2>1, <3>1, <3>2 DEF Due
  <2>5. HistoryInv' /\ QueueInv' /\ OnceInv' /\ RowsInv'
    BY <1>1, <2>1, <2>2, <2>3, <2>4, NothingPrinted DEF AtWork
  <2>6. PlanInv'
    BY <1>1, <2>1 DEF PlanInv, NoDup, Named
  <2>7. ShownInv'
    BY <1>1, <2>1 DEF ListInv, ShownInv, AtWork, procVars
  <2>8. QED
    BY <2>5, <2>6, <2>7 DEF ListInv
<1>4. QED
  BY <1>2, <1>3

LEMMA ListMapsDone ==
  ASSUME TypeOK, WalkInv, OwnInv, ListInv, MapsDone
  PROVE  ListInv'
<1>1. /\ pc = "mem" /\ MI = {} /\ line.pid \in Pids /\ line \in Lines
      /\ UNCHANGED <<procVars, unread, process_dir, link, MI, fd_files, nofd_flag, line>>
  BY DEF MapsDone, WalkInv, AtWork, TypeOK
<1>2. ASSUME line.pid \in firm, NEW x \in Rows(line.pid), Due(x.fd)
      PROVE  \/ NofdRow(line.pid, x) /\ nofd_flag
             \/ x.fd[1] = "fd" /\ x.fd[2] \in fd_files /\ ~nofd_flag
  <2>1. nofd_flag <=> line.pid \notin mine
    BY <1>1, <1>2 DEF ListInv, ShownInv
  <2>2. x.fd[1] \notin Links /\ x.fd[1] # "mem" /\ (x.fd[1] = "fd" => x.fd[2] \in fd_files)
    BY <1>1, <1>2 DEF Due
  <2>3. NofdRow(line.pid, x) \/ FdRow(line.pid, x)
    BY <1>1, <2>2, RowCases, RowKinds
  <2>4. FdRow(line.pid, x) => line.pid \in mine
    BY DEF FdRow
  <2>5. NofdRow(line.pid, x) => line.pid \notin mine
    BY DEF NofdRow
  <2>6. QED
    BY <1>1, <2>1, <2>2, <2>3, <2>4, <2>5, RowKinds
<1>3. CASE ~nofd_flag
  <2>1. lines' = lines /\ pc' = "fdinfo"
    BY <1>3 DEF MapsDone
  <2>2. OnProcess
    BY <1>1, <2>1 DEF OnProcess, AtWork
  <2>3. \A d : Due(d)' => Due(d)
    BY <1>1, <2>1, Labels DEF Due
  <2>4. ASSUME line.pid \in firm, NEW x \in Rows(line.pid), Due(x.fd) PROVE Due(x.fd)'
    BY <1>1, <1>2, <1>3, <2>1, <2>4 DEF Due
  <2>5. HistoryInv' /\ QueueInv' /\ OnceInv' /\ RowsInv'
    BY <2>1, <2>2, <2>3, <2>4, NothingPrinted DEF AtWork
  <2>6. PlanInv' /\ ShownInv'
    BY <1>1, <2>1 DEF ListInv, PlanInv, ShownInv, AtWork, procVars
  <2>7. QED
    BY <2>5, <2>6 DEF ListInv
<1>4. CASE nofd_flag
  <2>1. lines' = Append(lines, NofdLine) /\ pc' = "process"
    BY <1>4 DEF MapsDone
  <2>2. OnProcess
    BY <1>1, <2>1 DEF OnProcess, AtWork
  <2>3. Proc(line.pid, "fd") \in Names
    BY <1>1, NameType DEF Words
  <2>4. <<"NOFD", 0>> \in (Links \union {"fd", "mem", "NOFD"}) \X Nat
    OBVIOUS
  <2>5. /\ NofdLine \in Lines /\ NofdLine.pid = line.pid /\ NofdLine.fd = <<"NOFD", 0>>
        /\ NofdLine.user = line.user /\ NofdLine.mode = line.mode /\ NofdLine.type = ""
        /\ NofdLine.name = Proc(line.pid, "fd") /\ NofdLine.append = "denied"
    BY <1>1, <2>3, <2>4 DEF Lines, NofdLine
  <2>6. Due(NofdLine.fd)
    <3>1. Due(<<"NOFD", 0>>)
      BY <1>1, Labels DEF Due
    <3>2. QED
      BY <2>5, <3>1
  <2>7. ASSUME line.pid \in firm, NEW x \in Rows(line.pid)
        PROVE  /\ x.fd = NofdLine.fd => x = NofdLine
               /\ Due(x.fd) => x.fd = NofdLine.fd
    <3>1. line.user = "owner" /\ line.mode = ""
      BY <1>1, <2>7 DEF ListInv, ShownInv, AtWork
    <3>2. NofdLine = Row(line.pid, <<"NOFD", 0>>, "", "", Proc(line.pid, "fd"), "denied")
      BY <2>5, <3>1, RowOf
    <3>3. ASSUME x.fd = NofdLine.fd PROVE NofdRow(line.pid, x)
      <4>1. x.fd = <<"NOFD", 0>>
        BY <2>5, <3>3
      <4>2. x.fd[1] = "NOFD"
        BY <4>1
      <4>3. QED
        BY <1>1, <2>7, <4>2, RowKinds
    <3>4. Due(x.fd) => NofdRow(line.pid, x)
      BY <1>2, <1>4, <2>7
    <3>5. QED
      BY <2>5, <3>2, <3>3, <3>4 DEF NofdRow
  <2>8. HistoryInv' /\ QueueInv' /\ OnceInv' /\ RowsInv'
    BY <2>1, <2>2, <2>5, <2>6, <2>7, LinePrinted DEF AtWork
  <2>9. PlanInv' /\ ShownInv'
    BY <2>1 DEF PlanInv, ShownInv, AtWork
  <2>10. QED
    BY <2>8, <2>9 DEF ListInv
<1>5. QED
  BY <1>3, <1>4

\* A mapping is printed as its row, which is the row with its inode.
LEMMA ListPrintMap ==
  ASSUME TypeOK, WalkInv, ListInv, NEW i \in MI, PrintMap(i)
  PROVE  ListInv'
<1> DEFINE p == line.pid
           m == Maps[p][i]
<1>1. /\ pc = "mem" /\ pc' = "mem" /\ MI' = MI \ {i} /\ p \in Pids /\ line \in Lines
      /\ UNCHANGED <<procVars, unread, process_dir, link, fd_files, nofd_flag, line>>
  BY DEF PrintMap, WalkInv, AtWork, TypeOK
<1>2. MI \subseteq NoDup(p) /\ i \in Named(p)
  BY <1>1 DEF ListInv, PlanInv, NoDup
<1>3. PICK late \in BOOLEAN : /\ lines' = Append(lines, MemLine(m, late))
                              /\ late => Overruns(m)
  BY DEF PrintMap
<1> DEFINE y == MemLine(m, late)
<1>4. y \in Lines /\ y.pid = p
  BY <1>1, <1>2, MapLine DEF OtherLine
<1>5. y.fd = <<"mem", m.inode>> /\ y.user = line.user
  BY <1>1 DEF MemLine, Lines
<1>6. ~Overruns(m) =>
        /\ y.mode = IF m.deleted THEN "del" ELSE "mem"
        /\ y.type = IF m.deleted THEN "unknown" ELSE "REG"
        /\ y.name = FileName(m.name)
        /\ y.append = IF m.deleted THEN "deleted" ELSE ""
  BY <1>1, <1>3 DEF MemLine, Lines
<1>7. OnProcess
  BY <1>1 DEF OnProcess, AtWork
<1> HIDE DEF y
<1>8. y.fd[1] = "mem" /\ y.fd[2] = m.inode
  BY <1>5, Labels
<1>9. Due(y.fd)
  BY <1>1, <1>8, Labels DEF Due
<1>10. \A d : Due(d)' => Due(d) /\ d # y.fd
  <2>1. SUFFICES ASSUME NEW d, Due(d)' PROVE Due(d) /\ d # y.fd
    OBVIOUS
  <2>2. /\ d[1] \notin Links /\ (d[1] = "fd" => d[2] \in fd_files)
        /\ d[1] = "mem" => \E k \in MI \ {i} : d[2] = Maps[p][k].inode
    BY <1>1, <2>1 DEF Due
  <2>3. \A k \in MI \ {i} : Maps[p][k].inode # m.inode
    BY <1>1, <1>2, KeptApart
  <2>4. d # y.fd
    BY <1>8, <2>2, <2>3
  <2>5. Due(d)
    BY <1>1, <2>2 DEF Due
  <2>6. QED
    BY <2>4, <2>5
<1>11. ASSUME p \in firm, NEW x \in Rows(p), x.fd = y.fd PROVE x = y
  <2>1. x.fd[1] = "mem" /\ x.fd[2] = m.inode
    BY <1>8, <1>11
  <2>2. PICK k \in Named(p) :
          /\ x.fd = <<"mem", Maps[p][k].inode>> /\ ~Overruns(Maps[p][k])
          /\ \A j \in Named(p) : Maps[p][j].inode = Maps[p][k].inode => j >= k
          /\ x = Row(p, <<"mem", Maps[p][k].inode>>,
                     IF Maps[p][k].deleted THEN "del" ELSE "mem",
                     IF Maps[p][k].deleted THEN "unknown" ELSE "REG",
                     FileName(Maps[p][k].name),
                     IF Maps[p][k].deleted THEN "deleted" ELSE "")
    BY <1>1, <1>11, <2>1, RowKinds DEF MapRow
  <2>3. k \in NoDup(p) /\ Maps[p][k].inode = m.inode
    <3>1. k \in NoDup(p)
      BY <1>1, <2>2, FirstKept
    <3>2. x.fd = <<"mem", Maps[p][k].inode>>
      BY <2>2
    <3>3. QED
      BY <2>1, <3>1, <3>2
  <2>4. k = i
    BY <1>1, <1>2, <2>3, KeptApart
  <2>5. line.user = "owner"
    BY <1>1, <1>11 DEF ListInv, ShownInv, AtWork
  <2>6. y = Row(y.pid, y.fd, y.mode, y.type, y.name, y.append)
    BY <1>4, <1>5, <2>5, RowOf
  <2>7. x = Row(p, <<"mem", m.inode>>, y.mode, y.type, y.name, y.append)
    <3>1. ~Overruns(m)
      BY <2>2, <2>4
    <3>2. x = Row(p, <<"mem", m.inode>>, IF m.deleted THEN "del" ELSE "mem",
                  IF m.deleted THEN "unknown" ELSE "REG", FileName(m.name),
                  IF m.deleted THEN "deleted" ELSE "")
      BY <2>2, <2>4
    <3>3. QED
      BY <1>6, <3>1, <3>2
  <2>8. QED
    BY <1>4, <1>5, <2>6, <2>7
<1>12. ASSUME NEW x, Due(x.fd), x.fd # y.fd, x \in Rows(p) PROVE Due(x.fd)'
  <2>1. /\ x.fd[1] \notin Links /\ (x.fd[1] = "fd" => x.fd[2] \in fd_files)
        /\ x.fd[1] = "mem" => \E k \in MI : x.fd[2] = Maps[p][k].inode
    BY <1>1, <1>12 DEF Due
  <2>2. ASSUME x.fd[1] = "mem" PROVE \E k \in MI \ {i} : x.fd[2] = Maps[p][k].inode
    <3>1. PICK k \in MI : x.fd[2] = Maps[p][k].inode
      BY <2>1, <2>2
    <3>2. x.fd = <<"mem", x.fd[2]>>
      <4>1. PICK j \in Named(p) : x.fd = <<"mem", Maps[p][j].inode>>
        BY <1>1, <1>12, <2>2, RowKinds DEF MapRow
      <4>2. QED
        BY <4>1
    <3>3. k # i
      BY <1>5, <1>12, <3>1, <3>2
    <3>4. QED
      BY <3>1, <3>3
  <2>3. QED
    BY <1>1, <2>1, <2>2 DEF Due
<1>13. HistoryInv' /\ QueueInv' /\ OnceInv' /\ RowsInv'
  <2>1. lines' = Append(lines, y)
    BY <1>3 DEF y
  <2>2. QED
    BY <1>1, <1>4, <1>7, <1>9, <1>10, <1>11, <1>12, <2>1, LinePrinted DEF AtWork
<1>14. PlanInv'
  BY <1>1, <1>2 DEF PlanInv, NoDup, Named
<1>15. ShownInv'
  BY <1>1 DEF ListInv, ShownInv, AtWork, procVars
<1>16. QED
  BY <1>13, <1>14, <1>15 DEF ListInv

-----------------------------------------------------------------------------
(* The descriptors.                                                        *)

LEMMA KeptOpen ==
  ASSUME HistoryInv, NEW p, NEW f, <<p, f>> \in kept
  PROVE  IsOpen(p, f)
<1>1. IsOpen(<<p, f>>[1], <<p, f>>[2])
  BY DEF HistoryInv
<1>2. QED
  BY <1>1

\* Whatever does not print between the mappings and the next process
LEMMA FdQuiet ==
  ASSUME TypeOK, ListInv, OnProcess, pc \in {"fdinfo", "type", "name"},
         pc' \in {"fdinfo", "type", "name"} \/ (pc' = "process" /\ fd_files = {}),
         UNCHANGED <<lines, fd_files>>
  PROVE  HistoryInv' /\ QueueInv' /\ OnceInv' /\ RowsInv'
<1>1. \A d : Due(d) <=> d[1] = "fd" /\ d[2] \in fd_files
  BY DEF Due
<1>2. CASE pc' \in {"fdinfo", "type", "name"}
  <2>1. \A d : Due(d)' <=> Due(d)
    BY <1>1, <1>2 DEF Due
  <2>2. QED
    BY <1>2, <2>1, NothingPrinted DEF AtWork
<1>3. CASE pc' = "process" /\ fd_files = {}
  <2>1. \A d : ~Due(d)
    BY <1>1, <1>3
  <2>2. QED
    BY <1>3, <2>1, NothingPrinted DEF AtWork
<1>4. QED
  BY <1>2, <1>3

LEMMA ListFdInfo ==
  ASSUME TypeOK, WalkInv, ListInv, ~scarce, NEW f \in Fds, FdInfo(f)
  PROVE  ListInv'
<1>1. PICK m : /\ line' = [line EXCEPT !.fd = <<"fd", f>>, !.mode = m]
               /\ IsOpen(line.pid, f) => m = open[line.pid][f].mode
  BY DEF FdInfo
<1>2. /\ pc = "fdinfo" /\ pc' = "type" /\ f \in fd_files /\ line \in Lines
      /\ UNCHANGED <<procVars, unread, process_dir, fd_files, lines>>
  BY DEF FdInfo, TypeOK
<1>3. /\ line'.pid = line.pid /\ line'.user = line.user /\ line'.fd = <<"fd", f>>
      /\ line'.mode = m
  BY <1>1, <1>2 DEF Lines
<1>4. HistoryInv' /\ QueueInv' /\ OnceInv' /\ RowsInv'
  BY <1>2, <1>3, FdQuiet DEF OnProcess, AtWork
<1>5. line'.fd[1] = "fd" /\ line'.fd[2] = f
  BY <1>3, Labels
<1>6. PlanInv'
  BY <1>2, <1>5 DEF PlanInv
<1>7. ShownInv'
  <2>1. <<line.pid, f>> \in kept => m = open[line.pid][f].mode
    BY <1>1, KeptOpen DEF ListInv
  <2>2. line.pid \in firm => line.user = "owner"
    BY <1>2 DEF ListInv, ShownInv, AtWork
  <2>3. QED
    BY <1>2, <1>3, <1>5, <2>1, <2>2 DEF ShownInv, procVars
<1>8. QED
  BY <1>4, <1>6, <1>7 DEF ListInv

LEMMA ListStatFd ==
  ASSUME TypeOK, WalkInv, ListInv, StatFd
  PROVE  ListInv'
<1> DEFINE f == line.fd[2]
<1>1. PICK t : /\ line' = [line EXCEPT !.type = t]
               /\ IsOpen(line.pid, f) => t = open[line.pid][f].type
  BY DEF StatFd
<1>2. /\ pc = "type" /\ pc' = "name" /\ line \in Lines
      /\ UNCHANGED <<procVars, unread, process_dir, fd_files, lines>>
  BY DEF StatFd, TypeOK
<1>3. /\ line'.pid = line.pid /\ line'.user = line.user /\ line'.fd = line.fd
      /\ line'.mode = line.mode /\ line'.type = t
  BY <1>1, <1>2 DEF Lines
<1>4. HistoryInv' /\ QueueInv' /\ OnceInv' /\ RowsInv'
  BY <1>2, <1>3, FdQuiet DEF OnProcess, AtWork
<1>5. PlanInv'
  BY <1>2, <1>3 DEF ListInv, PlanInv
<1>6. ShownInv'
  <2>1. <<line.pid, f>> \in kept => t = open[line.pid][f].type
    BY <1>1, KeptOpen DEF ListInv
  <2>2. line.pid \in firm =>
          /\ line.user = "owner"
          /\ <<line.pid, f>> \in kept => line.mode = open[line.pid][f].mode
    BY <1>2 DEF ListInv, ShownInv, AtWork
  <2>3. QED
    BY <1>2, <1>3, <2>1, <2>2 DEF ShownInv, procVars
<1>7. QED
  BY <1>4, <1>5, <1>6 DEF ListInv

LEMMA ListProcessDone ==
  ASSUME TypeOK, WalkInv, ListInv, ProcessDone
  PROVE  ListInv'
<1>1. /\ pc = "fdinfo" /\ fd_files = {} /\ pc' = "process"
      /\ UNCHANGED <<procVars, unread, process_dir, fd_files, lines, line>>
  BY DEF ProcessDone
<1>2. HistoryInv' /\ QueueInv' /\ OnceInv' /\ RowsInv'
  BY <1>1, FdQuiet DEF OnProcess, AtWork
<1>3. PlanInv' /\ ShownInv'
  BY <1>1 DEF PlanInv, ShownInv, AtWork
<1>4. QED
  BY <1>2, <1>3 DEF ListInv

\* The line of a descriptor that is open all the while is the row with its number.
LEMMA ListReadFd ==
  ASSUME TypeOK, WalkInv, ListInv, ReadFd
  PROVE  ListInv'
<1> DEFINE p == line.pid
           f == line.fd[2]
           z == open[p][f]
           y == IF IsOpen(p, f) THEN FdLine(z) ELSE [line EXCEPT !.name = NoName, !.append = ""]
<1>1. /\ pc = "name" /\ pc' = "fdinfo" /\ line \in Lines /\ p \in Pids /\ f \in Fds
      /\ fd_files' = fd_files \ {f}
      /\ UNCHANGED <<procVars, unread, process_dir, line>>
  BY DEF ReadFd, TypeOK, WalkInv, AtWork
<1>2. line.fd = <<"fd", f>> /\ f \in fd_files
  <2>1. line.fd[1] = "fd" /\ f \in fd_files
    BY <1>1 DEF ListInv, PlanInv
  <2>2. line.fd = <<line.fd[1], line.fd[2]>>
    <3>1. line.fd \in (Links \union {"fd", "mem", "NOFD"}) \X Nat
      BY <1>1 DEF Lines
    <3>2. QED
      BY <3>1
  <2>3. QED
    BY <2>1, <2>2
<1>3. lines' = Append(lines, y)
  BY DEF ReadFd
<1>4. y \in Lines /\ y.pid = p
  <2>1. PICK x : OtherLine(x) /\ lines' = Append(lines, x)
    BY ReadFdSteps
  <2>2. lines \in Seq(Lines)
    BY DEF TypeOK
  <2>3. Append(lines, x)[Len(lines) + 1] = x /\ Append(lines, y)[Len(lines) + 1] = y
    BY <2>2
  <2>4. x = y
    BY <1>3, <2>1, <2>3
  <2>5. QED
    BY <2>1, <2>4 DEF OtherLine
<1>5. y.fd = line.fd /\ y.user = line.user /\ y.mode = line.mode
  BY <1>1 DEF FdLine, Lines
<1>6. IsOpen(p, f) =>
        /\ y.type = IF z.deleted THEN "unknown" ELSE line.type
        /\ y.name = FileName(z.name)
        /\ y.append = IF z.deleted THEN "deleted" ELSE ""
  BY <1>1 DEF FdLine, Lines
<1> HIDE DEF y
<1>7. y.fd = <<"fd", f>>
  BY <1>2, <1>5
<1>8. y.fd[1] = "fd" /\ y.fd[2] = f
  BY <1>7, Labels
<1>9. Due(y.fd)
  BY <1>1, <1>2, <1>8 DEF Due
<1>10. \A d : Due(d)' => Due(d) /\ d # y.fd
  <2>1. SUFFICES ASSUME NEW d, Due(d)' PROVE Due(d) /\ d # y.fd
    OBVIOUS
  <2>2. d[1] = "fd" /\ d[2] \in fd_files \ {f}
    BY <1>1, <2>1 DEF Due
  <2>3. d # y.fd
    BY <1>8, <2>2
  <2>4. Due(d)
    BY <1>1, <2>2 DEF Due
  <2>5. QED
    BY <2>3, <2>4
<1>11. ASSUME p \in firm, NEW x \in Rows(p), x.fd = y.fd PROVE x = y
  <2>1. x.fd[1] = "fd" /\ x.fd[2] = f
    BY <1>8, <1>11
  <2>2. PICK g \in Fds :
          /\ x.fd = <<"fd", g>> /\ <<p, g>> \in kept
          /\ x = Row(p, <<"fd", g>>, open[p][g].mode,
                     IF open[p][g].deleted THEN "unknown" ELSE open[p][g].type,
                     FileName(open[p][g].name),
                     IF open[p][g].deleted THEN "deleted" ELSE "")
    BY <1>1, <1>11, <2>1, RowKinds DEF FdRow
  <2>3. g = f
    <3>1. x.fd = <<"fd", g>>
      BY <2>2
    <3>2. QED
      BY <2>1, <3>1
  <2>4. <<p, f>> \in kept
    BY <2>2, <2>3
  <2>5. IsOpen(p, f)
    BY <2>4, KeptOpen DEF ListInv
  <2>6. line.user = "owner" /\ line.mode = z.mode /\ line.type = z.type
    BY <1>1, <1>11, <2>4 DEF ListInv, ShownInv, AtWork
  <2>7. y = Row(p, <<"fd", f>>, y.mode, y.type, y.name, y.append)
    BY <1>4, <1>5, <1>7, <2>6, RowOf
  <2>8. x = Row(p, <<"fd", f>>, z.mode, IF z.deleted THEN "unknown" ELSE z.type,
                FileName(z.name), IF z.deleted THEN "deleted" ELSE "")
    BY <2>2, <2>3
  <2>9. /\ y.mode = z.mode /\ y.type = IF z.deleted THEN "unknown" ELSE z.type
        /\ y.name = FileName(z.name) /\ y.append = IF z.deleted THEN "deleted" ELSE ""
    BY <1>5, <1>6, <2>5, <2>6
  <2>10. QED
    BY <2>7, <2>8, <2>9
<1>12. ASSUME NEW x \in Rows(p), Due(x.fd), x.fd # y.fd PROVE Due(x.fd)'
  <2>1. x.fd[1] = "fd" /\ x.fd[2] \in fd_files
    BY <1>1, <1>12 DEF Due
  <2>2. PICK g \in Fds : x.fd = <<"fd", g>>
    BY <1>1, <1>12, <2>1, RowKinds DEF FdRow
  <2>3. x.fd[2] = g /\ g # f
    BY <1>7, <1>12, <2>2
  <2>4. QED
    BY <1>1, <2>1, <2>3 DEF Due
<1>13. OnProcess
  BY <1>1 DEF OnProcess, AtWork
<1>14. HistoryInv' /\ QueueInv' /\ OnceInv' /\ RowsInv'
  BY <1>1, <1>3, <1>4, <1>9, <1>10, <1>11, <1>12, <1>13, LinePrinted DEF AtWork
<1>15. PlanInv' /\ ShownInv'
  BY <1>1 DEF ListInv, PlanInv, ShownInv, AtWork, procVars
<1>16. QED
  BY <1>14, <1>15 DEF ListInv

-----------------------------------------------------------------------------
(* The walk from process to process.                                       *)

LEMMA ListInit == ASSUME Init PROVE ListInv
<1>1. /\ pc = "args" /\ unread = Pids /\ process_dir = <<>> /\ lines = <<>> /\ firm \subseteq Pids
      /\ line.pid = 0
  BY DEF Init, ProcInit, Fresh
<1>2. HistoryInv
  <2>1. /\ \A p \in firm : status[p] = "alive"
        /\ status \in [Pids -> {"unborn", "alive"}]
        /\ \A p \in Pids : status[p] = "unborn" => open[p] = Unused
    BY DEF Init, ProcInit
  <2>2. ASSUME NEW d \in kept PROVE IsOpen(d[1], d[2])
    <3>1. d[1] \in Pids /\ d[2] \in Fds /\ open[d[1]][d[2]] # NoFile
      BY DEF Init, ProcInit
    <3>2. open[d[1]] # Unused
      BY <3>1 DEF Unused
    <3>3. status[d[1]] = "alive"
      BY <2>1, <3>1, <3>2
    <3>4. QED
      BY <3>1, <3>3 DEF IsOpen
  <2>3. QED
    BY <2>1, <2>2 DEF HistoryInv
<1>3. QueueInv /\ OnceInv
  <2>1. DOMAIN process_dir = {} /\ DOMAIN lines = {}
    BY <1>1
  <2>2. QED
    BY <1>1, <2>1 DEF QueueInv, OnceInv, AtWork
<1>4. line.pid \notin firm
  BY <1>1, ProcAssumption
<1>5. QED
  BY <1>1, <1>2, <1>3, <1>4 DEF ListInv, PlanInv, ShownInv, RowsInv, Waiting

\* Between two processes, and when nothing is taken from the list
LEMMA ListBetween ==
  ASSUME ListInv, pc \notin AtWork \union {"crashed"}, pc' \notin AtWork,
         UNCHANGED <<procVars, unread, process_dir, lines, line>>
  PROVE  HistoryInv' /\ OnceInv' /\ PlanInv' /\ ShownInv' /\ RowsInv'
<1>1. HistoryInv'
  BY DEF ListInv, HistoryInv, procVars, IsOpen
<1>2. OnceInv' /\ PlanInv' /\ ShownInv'
  BY DEF ListInv, OnceInv, PlanInv, ShownInv, AtWork, procVars
<1>3. RowsInv'
  <2>1. \A p : Rows(p)' = Rows(p)
    BY SameRows
  <2>2. \A p : Waiting(p)' <=> Waiting(p)
    BY DEF Waiting
  <2>3. \A x : Said(x)' <=> Said(x)
    BY DEF Said
  <2>4. QED
    BY <2>1, <2>2, <2>3 DEF ListInv, RowsInv, Covered, procVars
<1>4. QED
  BY <1>1, <1>2, <1>3

LEMMA ListBegins ==
  ASSUME ListInv, ~scarce, ParseArgs \/ ListEnds \/ PrintAll
  PROVE  ListInv'
<1>1. /\ pc \notin AtWork \union {"crashed"} /\ pc' \notin AtWork
      /\ UNCHANGED <<procVars, unread, process_dir, lines, line>>
  BY DEF ParseArgs, ListEnds, PrintAll, AtWork
<1>2. HistoryInv' /\ OnceInv' /\ PlanInv' /\ ShownInv' /\ RowsInv'
  BY <1>1, ListBetween
<1>3. \A p : Waiting(p)' <=> Waiting(p)
  BY <1>1 DEF Waiting
<1>4. pc' \notin {"args", "list", "exited"} => unread = {}
  BY DEF ListInv, QueueInv, ParseArgs, ListEnds, PrintAll
<1>5. pc' = "done" => process_dir = <<>> /\ output' = {k \in DOMAIN lines : Wanted(lines[k])}
  BY DEF ParseArgs, ListEnds, PrintAll
<1>6. \A x : Wanted(x)' <=> Wanted(x)
  BY DEF Wanted, ParseArgs, ListEnds, PrintAll
<1>7. QueueInv'
  BY <1>1, <1>3, <1>4, <1>5, <1>6 DEF ListInv, QueueInv
<1>8. QED
  BY <1>2, <1>7 DEF ListInv

\* A process that lives is there when readdir() gets to it.
LEMMA ListListProcess ==
  ASSUME TypeOK, ListInv, NEW p \in Pids, ListProcess(p)
  PROVE  ListInv'
<1>1. /\ pc = "list" /\ pc' = "list" /\ p \in unread /\ unread' = unread \ {p}
      /\ process_dir' = IF Exists(p) THEN Append(process_dir, p) ELSE process_dir
      /\ UNCHANGED <<procVars, request, lines, line, output>>
  BY DEF ListProcess
<1>2. process_dir \in Seq(Pids)
  BY DEF TypeOK
<1>3. \A k \in DOMAIN process_dir : process_dir[k] # p
  BY <1>1 DEF ListInv, QueueInv
<1>4. \A k \in DOMAIN process_dir' :
        \/ k \in DOMAIN process_dir /\ process_dir'[k] = process_dir[k]
        \/ k = Len(process_dir) + 1 /\ process_dir'[k] = p
  BY <1>1, <1>2
<1>5. \A q : Waiting(q)' => Waiting(q)
  BY <1>1, <1>4 DEF Waiting
<1>6. \A q \in firm : Waiting(q) => Waiting(q)'
  <2>1. SUFFICES ASSUME NEW q \in firm, Waiting(q) PROVE Waiting(q)'
    OBVIOUS
  <2>2. CASE q \in unread /\ q # p
    BY <1>1, <2>2 DEF Waiting
  <2>3. CASE q = p
    <3>1. Exists(p)
      BY <2>3 DEF ListInv, HistoryInv, Exists
    <3>2. /\ Len(process_dir) + 1 \in DOMAIN Append(process_dir, p)
          /\ Append(process_dir, p)[Len(process_dir) + 1] = p
      BY <1>2
    <3>3. QED
      BY <1>1, <2>3, <3>1, <3>2 DEF Waiting
  <2>4. CASE \E k \in DOMAIN process_dir : process_dir[k] = q
    <3>1. PICK k \in DOMAIN process_dir : process_dir[k] = q
      BY <2>4
    <3>2. k \in DOMAIN process_dir' /\ process_dir'[k] = q
      BY <1>1, <1>2, <3>1
    <3>3. QED
      BY <3>2 DEF Waiting
  <2>5. QED
    BY <2>1, <2>2, <2>3, <2>4 DEF Waiting
<1>7. HistoryInv'
  BY <1>1 DEF ListInv, HistoryInv, procVars, IsOpen
<1>8. QueueInv'
  <2>1. ASSUME NEW j \in DOMAIN process_dir', NEW k \in DOMAIN process_dir',
               process_dir'[j] = process_dir'[k]
        PROVE  j = k
    BY <1>3, <1>4, <2>1 DEF ListInv, QueueInv
  <2>2. \A k \in DOMAIN process_dir' : process_dir'[k] \notin unread'
    BY <1>1, <1>4 DEF ListInv, QueueInv
  <2>3. QED
    BY <1>1, <1>5, <2>1, <2>2 DEF ListInv, QueueInv, AtWork
<1>9. OnceInv' /\ PlanInv' /\ ShownInv'
  BY <1>1 DEF ListInv, OnceInv, PlanInv, ShownInv, AtWork, procVars
<1>10. RowsInv'
  <2>1. \A q : Rows(q)' = Rows(q)
    BY <1>1, SameRows
  <2>2. \A x : Said(x)' <=> Said(x)
    BY <1>1 DEF Said
  <2>3. QED
    BY <1>1, <1>6, <2>1, <2>2 DEF ListInv, RowsInv, Covered, AtWork, procVars
<1>11. QED
  BY <1>7, <1>8, <1>9, <1>10 DEF ListInv

\* Everything is due of a process that is taken.
LEMMA ListTakeProcess ==
  ASSUME TypeOK, ListInv, ~scarce, TakeProcess
  PROVE  ListInv'
<1> DEFINE p == Head(process_dir)
<1>1. /\ pc = "process" /\ process_dir # <<>> /\ process_dir' = Tail(process_dir)
      /\ UNCHANGED <<procVars, unread, lines>>
  BY DEF TakeProcess
<1>2. \/ Exists(p) /\ p \notin Blank /\ line' = Fresh(p) /\ pc' = "user"
      \/ ~(Exists(p) /\ p \notin Blank) /\ line' = line /\ pc' = "process"
  BY <1>1 DEF TakeProcess
<1>3. process_dir \in Seq(Pids) /\ p \in Pids
  BY <1>1 DEF TypeOK
<1>4. /\ 1 \in DOMAIN process_dir /\ p = process_dir[1]
      /\ \A k \in DOMAIN process_dir' :
           k + 1 \in DOMAIN process_dir /\ k + 1 # 1 /\ process_dir'[k] = process_dir[k + 1]
      /\ \A k \in DOMAIN process_dir \ {1} :
           k - 1 \in DOMAIN process_dir' /\ process_dir'[k - 1] = process_dir[k]
      /\ \A k \in DOMAIN process_dir' : k \in Nat
  BY <1>1, <1>3
<1> HIDE DEF p
<1>5. unread = {}
  BY <1>1 DEF ListInv, QueueInv
<1>6. Waiting(p)
  BY <1>4 DEF Waiting
<1>7. \A k \in DOMAIN process_dir' : process_dir'[k] # p
  BY <1>4 DEF ListInv, QueueInv
<1>8. \A q : Waiting(q)' => Waiting(q) /\ q # p
  <2>1. SUFFICES ASSUME NEW q, Waiting(q)' PROVE Waiting(q) /\ q # p
    OBVIOUS
  <2>2. PICK k \in DOMAIN process_dir' : process_dir'[k] = q
    BY <1>1, <1>5, <2>1 DEF Waiting
  <2>3. QED
    BY <1>4, <1>7, <2>2 DEF Waiting
<1>9. \A q : Waiting(q) /\ q # p => Waiting(q)'
  <2>1. SUFFICES ASSUME NEW q, Waiting(q), q # p PROVE Waiting(q)'
    OBVIOUS
  <2>2. PICK k \in DOMAIN process_dir : process_dir[k] = q
    BY <1>5, <2>1 DEF Waiting
  <2>3. k - 1 \in DOMAIN process_dir' /\ process_dir'[k - 1] = q
    BY <1>4, <2>1, <2>2
  <2>4. QED
    BY <2>3 DEF Waiting
<1>10. HistoryInv'
  BY <1>1 DEF ListInv, HistoryInv, procVars, IsOpen
<1>11. pc' = "user" => line' = Fresh(p) /\ line'.pid = p /\ line'.mode = ""
  <2>1. Fresh(p).pid = p /\ Fresh(p).mode = ""
    BY DEF Fresh
  <2>2. QED
    BY <1>2, <2>1
<1>12. QueueInv'
  <2>1. ASSUME NEW j \in DOMAIN process_dir', NEW k \in DOMAIN process_dir',
               process_dir'[j] = process_dir'[k]
        PROVE  j = k
    <3>1. j + 1 = k + 1
      BY <1>4, <2>1 DEF ListInv, QueueInv
    <3>2. QED
      BY <1>4, <3>1
  <2>2. \A k \in DOMAIN lines' : ~Waiting(lines[k].pid)'
    BY <1>1, <1>8 DEF ListInv, QueueInv
  <2>3. pc' \in AtWork => ~Waiting(line.pid)'
    BY <1>2, <1>8, <1>11 DEF AtWork
  <2>4. \A k \in DOMAIN process_dir' : process_dir'[k] \notin unread'
    BY <1>1, <1>5
  <2>5. QED
    BY <1>1, <1>2, <1>5, <2>1, <2>2, <2>3, <2>4 DEF QueueInv
<1>13. OnceInv'
  <2>1. \A k \in DOMAIN lines : lines[k].pid # p
    BY <1>6 DEF ListInv, QueueInv
  <2>2. QED
    BY <1>1, <1>2, <1>11, <2>1 DEF ListInv, OnceInv, AtWork
<1>14. PlanInv' /\ ShownInv'
  BY <1>1, <1>2, <1>11 DEF ListInv, PlanInv, ShownInv, AtWork, procVars
<1>15. RowsInv'
  <2>1. SUFFICES ASSUME NEW q \in firm \ Blank, ~Waiting(q)', NEW x \in Rows(q)
                 PROVE  Said(x) \/ (pc' \in AtWork /\ line'.pid = q /\ Due(x.fd)')
    <3>1. \A r : Rows(r)' = Rows(r)
      BY <1>1, SameRows
    <3>2. \A r : Said(r)' <=> Said(r)
      BY <1>1 DEF Said
    <3>3. firm' = firm
      BY <1>1 DEF procVars
    <3>4. QED
      BY <3>1, <3>2, <3>3 DEF RowsInv, Covered
  <2>2. CASE ~Waiting(q)
    BY <1>1, <2>1, <2>2 DEF ListInv, RowsInv, Covered, AtWork
  <2>3. CASE q = p
    <3>1. Exists(p) /\ p \notin Blank
      BY <2>1, <2>3 DEF ListInv, HistoryInv, Exists
    <3>2. QED
      BY <1>2, <1>11, <2>3, <3>1 DEF Due, AtWork
  <2>4. QED
    BY <1>9, <2>1, <2>2, <2>3
<1>16. QED
  BY <1>10, <1>12, <1>13, <1>14, <1>15 DEF ListInv

-----------------------------------------------------------------------------
(* Every step, and the theorem.                                            *)

LEMMA ListStep ==
  ASSUME TypeOK, WalkInv, OwnInv, ListInv, ~scarce, [Next]_vars
  PROVE  ListInv'
<1>1. CASE Walk
  <2>1. CASE ParseArgs \/ (\E p \in Pids : ListProcess(p)) \/ ListEnds \/ TakeProcess \/ PrintAll
    BY <2>1, ListBegins, ListListProcess, ListTakeProcess
  <2>2. CASE GetUser \/ ReadLink \/ StatLink
    BY <2>2, ListGetUser, ListReadLink, ListStatLink
  <2>3. CASE OpenDir \/ ReadMaps \/ (\E i \in MI : PrintMap(i)) \/ MapsDone
    BY <2>3, ListOpenDir, ListReadMaps, ListPrintMap, ListMapsDone
  <2>4. CASE (\E f \in Fds : FdInfo(f)) \/ StatFd \/ ReadFd \/ ProcessDone
    BY <2>4, ListFdInfo, ListStatFd, ListReadFd, ListProcessDone
  <2>5. QED
    BY <1>1, <2>1, <2>2, <2>3, <2>4 DEF Walk
<1>2. CASE Environment
  BY <1>2, ListEnvironment
<1>3. CASE UNCHANGED vars
  <2>1. UNCHANGED <<procVars, pc, request, unread, process_dir, link, MI, fd_files, nofd_flag,
                    line, lines, output>>
    BY <1>3 DEF vars
  <2>2. HistoryInv' /\ QueueInv' /\ PlanInv' /\ ShownInv'
    <3>1. HistoryInv'
      BY <2>1 DEF ListInv, HistoryInv, IsOpen, procVars
    <3>2. QueueInv'
      BY <2>1 DEF ListInv, QueueInv, Waiting, Wanted
    <3>3. PlanInv'
      BY <2>1 DEF ListInv, PlanInv, NoDup, Named
    <3>4. ShownInv'
      BY <1>3 DEF ListInv, ShownInv, procVars, vars
    <3>5. QED
      BY <3>1, <3>2, <3>3, <3>4
  <2>3. \A d : Due(d)' <=> Due(d)
    BY <2>1 DEF Due, Behind
  <2>4. OnceInv'
    BY <2>1, <2>3 DEF ListInv, OnceInv
  <2>5. RowsInv'
    <3>1. \A p : Rows(p)' = Rows(p)
      BY <2>1, SameRows
    <3>2. /\ \A p : Waiting(p)' <=> Waiting(p)
          /\ \A x : Said(x)' <=> Said(x)
      BY <2>1 DEF Waiting, Said
    <3>3. QED
      BY <2>1, <2>3, <3>1, <3>2 DEF ListInv, RowsInv, Covered, procVars
  <2>6. QED
    BY <2>2, <2>4, <2>5 DEF ListInv
<1>4. QED
  BY <1>1, <1>2, <1>3 DEF Next, Terminated

\* Whether files are scarce does not change.
LEMMA ScarceStays ==
  ASSUME [Next]_vars PROVE scarce' = scarce
<1>1. CASE Walk
  BY <1>1 DEF Walk, ParseArgs, ListProcess, ListEnds, TakeProcess, GetUser, ReadLink, StatLink,
     OpenDir, ReadMaps, PrintMap, MapsDone, FdInfo, StatFd, ReadFd, ProcessDone, PrintAll, procVars
<1>2. CASE Environment
  BY <1>2 DEF Environment, ProcNext, Start, Exit, Reap, Open, Close
<1>3. CASE UNCHANGED vars
  BY <1>3 DEF vars, procVars
<1>4. QED
  BY <1>1, <1>2, <1>3 DEF Next, Terminated

LEMMA ListAlways == Spec => [](TypeOK /\ (scarce \/ ListInv))
<1>1. Init => ListInv
  BY ListInit
<1>2. TypeOK /\ WalkInv /\ OwnInv /\ (scarce \/ ListInv) /\ [Next]_vars => (scarce \/ ListInv)'
  BY ListStep, ScarceStays
<1>3. QED
  BY <1>1, <1>2, TypeAlways, OwnAlways, PTL DEF Spec

\* Whatever processes start, exit, open and close files meanwhile, a process that lives all the
\* while is listed, and every file it has open all the while is printed with its mode, type
\* and name if the options ask for it, and once, if lsof can open what it reads.
THEOREM CompleteHolds == Spec => []Complete
<1>1. TypeOK /\ (scarce \/ ListInv) => Complete
  <2>1. SUFFICES ASSUME TypeOK, ListInv, pc = "done", NEW p \in firm \ Blank, NEW x \in Rows(p)
                 PROVE  Cardinality({i \in output : lines[i] = x}) = IF Wanted(x) THEN 1 ELSE 0
    BY DEF Complete
  <2>2. unread = {} /\ process_dir = <<>> /\ output = {k \in DOMAIN lines : Wanted(lines[k])}
    BY <2>1 DEF ListInv, QueueInv
  <2>3. ~Waiting(p)
    <3>1. DOMAIN process_dir = {}
      BY <2>2
    <3>2. QED
      BY <2>2, <3>1 DEF Waiting
  <2>4. PICK k \in DOMAIN lines : lines[k] = x
    BY <2>1, <2>3 DEF ListInv, RowsInv, Covered, Said, AtWork
  <2>5. \A j \in DOMAIN lines : lines[j] = x => j = k
    BY <2>1, <2>4 DEF ListInv, OnceInv
  <2>6. CASE Wanted(x)
    <3>1. {i \in output : lines[i] = x} = {k}
      BY <2>2, <2>4, <2>5, <2>6
    <3>2. QED
      BY <2>6, <3>1, FS_Singleton
  <2>7. CASE ~Wanted(x)
    <3>1. {i \in output : lines[i] = x} = {}
      BY <2>2, <2>7
    <3>2. QED
      BY <2>7, <3>1, FS_EmptySet
  <2>8. QED
    BY <2>6, <2>7
<1>2. QED
  BY <1>1, ListAlways, PTL

=============================================================================
