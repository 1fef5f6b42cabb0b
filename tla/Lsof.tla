-------------------------------- MODULE Lsof --------------------------------
(***************************************************************************)
(* The lsof of 0616078_hw1: it lists the processes of /proc, then asks for *)
(* the files of each, one system call after the other, while the processes *)
(* start, open and close files, and exit.                                  *)
(***************************************************************************)
EXTENDS ProcFs

CONSTANT
  Requests  \* command lines [c, t, f, unknown, regex]: the processes, types and kinds
            \* of names that the options -c, -t and -f ask for, all of them without the
            \* option, and no type if the argument of -t is none; whether getopt finds
            \* an option lsof does not have, or one without its argument; whether
            \* -c or -f is given, whose argument has to be a regular expression

VARIABLES
  pc, errno, request,
  unread,       \* entries of /proc that readdir() has not come to
  process_dir,  \* processes still to be looked at
  link,         \* which of the three links is next
  MI,           \* mappings still to be printed
  fd_files,     \* descriptors still to be looked at
  nofd_flag,
  line,         \* the line under construction: locals of get_process_info()
  lines,
  output        \* which of them were printed

vars == <<procVars, pc, errno, request, unread, process_dir, link, MI, fd_files, nofd_flag,
          line, lines, output>>

Links == {"cwd", "root", "exe"}

\* A name is the path of a link's target, of a file that is open or mapped, or that of
\* a link in /proc, which stands in for a target the user may not look at.
Target(p, l) == <<"target", p, l>>
Proc(p, l) == <<"proc", p, l>>
FileName(n) == <<"file", 0, n>>
NoName == FileName("")
JunkName == FileName("junk")

\* fd: a label with the number of the descriptor or inode; user: the owner's name, none
\* or that of a user who has nothing to do with the process
Fresh(p) == [pid |-> p, user |-> "", fd |-> <<"cwd", 0>>, mode |-> "", type |-> "",
             name |-> NoName, append |-> ""]

Init ==
  /\ ProcInit
  /\ pc = "args" /\ errno = "none" /\ request \in Requests
  /\ unread = Pids /\ process_dir = <<>> /\ link = "cwd" /\ MI = {} /\ fd_files = {}
  /\ nofd_flag = FALSE /\ line = Fresh(0) /\ lines = <<>> /\ output = {}

-----------------------------------------------------------------------------
(* main() and get_all_process_files().                                     *)

\* "Invalid TYPE option." or "Error arguments."
Refused == request.t = {} \/ request.unknown

ParseArgs ==
  /\ pc = "args"
  /\ pc' = IF Refused THEN "exited" ELSE "list"
  /\ UNCHANGED <<procVars, errno, request, unread, process_dir, link, MI, fd_files, nofd_flag,
                 line, lines, output>>

\* Mutant: an entry is taken for a process whether or not it is a directory.
ListEverything(p) ==
  /\ pc = "list" /\ p \in unread
  /\ unread' = unread \ {p}
  /\ process_dir' = Append(process_dir, IF Exists(p) THEN p ELSE 0)
  /\ UNCHANGED <<procVars, pc, errno, request, link, MI, fd_files, nofd_flag, line, lines, output>>

\* readdir() shows what exists when it gets there; the order is the directory's.
ListProcess(p) ==
  /\ pc = "list" /\ p \in unread
  /\ unread' = unread \ {p}
  /\ process_dir' = IF Exists(p) THEN Append(process_dir, p) ELSE process_dir
  /\ UNCHANGED <<procVars, pc, errno, request, link, MI, fd_files, nofd_flag, line, lines, output>>

\* /proc has been read, or could not be opened.
ListEnds ==
  /\ pc = "list"
  /\ unread = {} \/ (scarce /\ unread = Pids)
  /\ pc' = "process" /\ unread' = {}
  /\ UNCHANGED <<procVars, errno, request, process_dir, link, MI, fd_files, nofd_flag,
                 line, lines, output>>

\* Mutant: the strings are static, and keep what the last process left.
TakeStale ==
  /\ pc = "process" /\ process_dir # <<>>
  /\ process_dir' = Tail(process_dir)
  /\ LET p == Head(process_dir) IN
       IF Exists(p) /\ p \notin Blank
         THEN line' = [line EXCEPT !.pid = p] /\ pc' = "user"
         ELSE UNCHANGED <<line, pc>>
  /\ UNCHANGED <<procVars, errno, request, unread, link, MI, fd_files, nofd_flag, lines, output>>

\* Mutant: a process whose comm cannot be read is tried again.
TakeRetries ==
  /\ pc = "process" /\ process_dir # <<>>
  /\ LET p == Head(process_dir) IN
       IF Exists(p) /\ p \notin Blank
         THEN line' = Fresh(p) /\ pc' = "user" /\ process_dir' = Tail(process_dir)
         ELSE UNCHANGED <<line, pc, process_dir>>
  /\ UNCHANGED <<procVars, errno, request, unread, link, MI, fd_files, nofd_flag, lines, output>>

\* get_process_info() up to get_command(), which fails if there is no word in comm, or it
\* cannot be opened
TakeProcess ==
  /\ pc = "process" /\ process_dir # <<>>
  /\ process_dir' = Tail(process_dir)
  /\ LET p == Head(process_dir) IN
       \/ Exists(p) /\ p \notin Blank /\ line' = Fresh(p) /\ pc' = "user"
       \/ (~Exists(p) \/ p \in Blank \/ scarce) /\ UNCHANGED <<line, pc>>
  /\ UNCHANGED <<procVars, errno, request, unread, link, MI, fd_files, nofd_flag, lines, output>>

\* get_user(): stat() is not asked whether it succeeded, and fileInfo not initialised;
\* passwd may not be there to be read.
GetUser ==
  /\ pc = "user"
  /\ \E u \in IF Exists(line.pid) THEN {"owner"} ELSE {"owner", "other", ""} :
       line' = [line EXCEPT !.user = u] \/ (scarce /\ line' = [line EXCEPT !.user = ""])
  /\ pc' = "link" /\ link' = "cwd"
  /\ UNCHANGED <<procVars, errno, request, unread, process_dir, MI, fd_files, nofd_flag, lines, output>>

-----------------------------------------------------------------------------
(* get_cwd_info(), get_root_info() and get_exe_info().                     *)

\* print() of the link's line, and on to the next link
PrintLink(x) ==
  /\ line' = x
  /\ lines' = Append(lines, [x EXCEPT !.fd = <<link, 0>>])
  /\ link' = CASE link = "cwd" -> "root" [] link = "root" -> "exe" [] link = "exe" -> "cwd"
  /\ pc' = IF link = "exe" THEN "opendir" ELSE "link"

Denied == [line EXCEPT !.name = Proc(line.pid, link), !.append = "denied", !.type = "unknown"]

\* Mutant: errno is tested whether or not readlink() failed.
ReadLinkErrno ==
  /\ pc = "link"
  /\ LET err == LinkErrno(line.pid, link) IN
     /\ errno' = IF err = "none" THEN errno ELSE err
     /\ IF errno' = "EACCES" THEN PrintLink(Denied)
        ELSE IF err # "none" THEN PrintLink(line)
        ELSE /\ line' = [line EXCEPT !.name = Target(line.pid, link), !.append = ""]
             /\ pc' = "stat"
             /\ UNCHANGED <<link, lines>>
  /\ UNCHANGED <<procVars, request, unread, process_dir, MI, fd_files, nofd_flag, output>>

\* readlink(): a success leaves errno alone, and overwrites what the stale errno made of
\* the line; any failure but EACCES leaves the line as it was for the link before.
ReadLink ==
  /\ pc = "link"
  /\ LET err == LinkErrno(line.pid, link)
         was == IF errno' = "EACCES" THEN Denied ELSE line
     IN /\ errno' = IF err = "none" THEN errno ELSE err
        /\ IF err # "none"
             THEN PrintLink(was)
             ELSE /\ line' = [was EXCEPT !.name = Target(line.pid, link), !.append = ""]
                  /\ pc' = "stat"
                  /\ UNCHANGED <<link, lines>>
  /\ UNCHANGED <<procVars, request, unread, process_dir, MI, fd_files, nofd_flag, output>>

\* get_inode() and get_type(): nobody asks whether stat() succeeded.
StatLink ==
  /\ pc = "stat"
  /\ \E t \in IF LinkErrno(line.pid, link) = "none" THEN {LinkType(link)} ELSE Types :
       PrintLink([line EXCEPT !.type = t])
  /\ UNCHANGED <<procVars, errno, request, unread, process_dir, MI, fd_files, nofd_flag, output>>

-----------------------------------------------------------------------------
(* The directory of descriptors and get_mem_info().                        *)

\* Mutant: readdir() of the directory that could not be opened, whatever the reason.
OpenDirUnchecked ==
  /\ pc = "opendir"
  /\ IF ~Exists(line.pid) \/ line.pid \notin mine
       THEN pc' = "crashed" /\ UNCHANGED <<errno, nofd_flag, fd_files>>
       ELSE /\ fd_files' = {f \in Fds : IsOpen(line.pid, f)}
            /\ nofd_flag' = FALSE /\ pc' = "maps" /\ UNCHANGED errno
  /\ UNCHANGED <<procVars, request, unread, process_dir, link, MI, line, lines, output>>

\* opendir() returns NULL for another reason than EACCES if the process is gone, or files
\* are scarce: readdir(NULL) is called.
OpenDirFails ==
  /\ \/ ~Exists(line.pid) /\ errno' = "ENOENT"
     \/ scarce /\ errno' = "ENFILE"
  /\ pc' = "crashed"
  /\ UNCHANGED <<nofd_flag, fd_files>>

OpenDir ==
  /\ pc = "opendir"
  /\ \/ OpenDirFails
     \/ /\ Exists(line.pid) /\ line.pid \notin mine
        /\ pc' = "maps" /\ errno' = "EACCES" /\ nofd_flag' = TRUE /\ fd_files' = {}
     \/ /\ Exists(line.pid) /\ line.pid \in mine
        /\ fd_files' = {f \in Fds : IsOpen(line.pid, f)}
        /\ nofd_flag' = FALSE /\ pc' = "maps" /\ UNCHANGED errno
  /\ UNCHANGED <<procVars, request, unread, process_dir, link, MI, line, lines, output>>

Named(p) == {i \in DOMAIN Maps[p] : Maps[p][i].inode # 0}

\* Mutant: dup_flag is not reset.
NoDupForgets(p) ==
  LET Dup(i) == \E j \in Named(p) : j < i /\ Maps[p][j].inode = Maps[p][i].inode
  IN {i \in Named(p) : \A k \in Named(p) : k <= i => ~Dup(k)}

\* The mappings that are kept: the first of an inode, whatever its device
NoDup(p) == {i \in Named(p) : \A j \in Named(p) : j < i => Maps[p][j].inode # Maps[p][i].inode}

\* The loop over the words of a name ends at "(deleted)" or reads the word behind the last.
Overruns(m) == m.spaced /\ ~m.deleted

\* get_mem_info() finds nothing in a maps file that it cannot open.
ReadMaps ==
  /\ pc = "maps"
  /\ LET p == line.pid
         readable == status[p] = "alive" /\ p \in mine
     IN \/ readable /\ pc' = "mem" /\ MI' = NoDup(p)
        \/ /\ readable /\ \E i \in Named(p) : Overruns(Maps[p][i])
           /\ pc' = "crashed" /\ MI' = {}
        \/ (~readable \/ scarce) /\ pc' = "mem" /\ MI' = {}
  /\ UNCHANGED <<procVars, errno, request, unread, process_dir, link, fd_files, nofd_flag,
                 line, lines, output>>

\* late: the word read behind the last happens to be "(deleted)"; otherwise it is taken
\* for a part of the name.
MemLine(m, late) ==
  LET deleted == m.deleted \/ (Overruns(m) /\ late)
  IN [line EXCEPT !.fd = <<"mem", m.inode>>,
                  !.mode = IF deleted THEN "del" ELSE "mem",
                  !.type = IF deleted THEN "unknown" ELSE "REG",
                  !.name = IF Overruns(m) /\ ~late THEN JunkName ELSE FileName(m.name),
                  !.append = IF deleted THEN "deleted" ELSE ""]

PrintMap(i) ==
  /\ pc = "mem" /\ i \in MI /\ \A j \in MI : i <= j
  /\ MI' = MI \ {i}
  /\ \E late \in IF Overruns(Maps[line.pid][i]) THEN BOOLEAN ELSE {FALSE} :
       lines' = Append(lines, MemLine(Maps[line.pid][i], late))
  /\ UNCHANGED <<procVars, pc, errno, request, unread, process_dir, link, fd_files, nofd_flag,
                 line, output>>

NofdLine ==
  [line EXCEPT !.fd = <<"NOFD", 0>>, !.type = "", !.name = Proc(line.pid, "fd"), !.append = "denied"]

\* Behind the mappings: the line of a directory that could not be opened, or its entries
MapsDone ==
  /\ pc = "mem" /\ MI = {}
  /\ IF nofd_flag
       THEN lines' = Append(lines, NofdLine) /\ pc' = "process"
       ELSE UNCHANGED lines /\ pc' = "fdinfo"
  /\ UNCHANGED <<procVars, errno, request, unread, process_dir, link, MI, fd_files, nofd_flag,
                 line, output>>

-----------------------------------------------------------------------------
(* get_rwu_info(): three looks at a descriptor, not asked whether it is there.*)

FdInfo(f) ==
  /\ pc = "fdinfo" /\ f \in fd_files
  /\ \E m \in IF IsOpen(line.pid, f) /\ ~scarce THEN {open[line.pid][f].mode} ELSE Modes :
       line' = [line EXCEPT !.fd = <<"fd", f>>, !.mode = m]
  /\ pc' = "type"
  /\ UNCHANGED <<procVars, errno, request, unread, process_dir, link, MI, fd_files, nofd_flag, lines, output>>

StatFd ==
  /\ pc = "type"
  /\ LET f == line.fd[2] IN
     \E t \in IF IsOpen(line.pid, f) THEN {open[line.pid][f].type} ELSE Types :
       line' = [line EXCEPT !.type = t]
  /\ pc' = "name"
  /\ UNCHANGED <<procVars, errno, request, unread, process_dir, link, MI, fd_files, nofd_flag, lines, output>>

FdLine(x) ==
  [line EXCEPT !.name = FileName(x.name),
               !.type = IF x.deleted THEN "unknown" ELSE line.type,
               !.append = IF x.deleted THEN "deleted" ELSE ""]

ReadFd ==
  /\ pc = "name"
  /\ LET f == line.fd[2] IN
     /\ lines' = Append(lines,
          IF IsOpen(line.pid, f) THEN FdLine(open[line.pid][f])
          ELSE [line EXCEPT !.name = NoName, !.append = ""])
     /\ fd_files' = fd_files \ {f}
  /\ pc' = "fdinfo"
  /\ UNCHANGED <<procVars, errno, request, unread, process_dir, link, MI, nofd_flag, line, output>>

ProcessDone ==
  /\ pc = "fdinfo" /\ fd_files = {}
  /\ pc' = "process"
  /\ UNCHANGED <<procVars, errno, request, unread, process_dir, link, MI, fd_files, nofd_flag,
                 line, lines, output>>

-----------------------------------------------------------------------------
(* print_all(), the end, and the specification.                            *)

Wanted(x) == x.pid \in request.c /\ x.type \in request.t /\ x.name[1] \in request.f

\* The regular expressions are made again for every line, and nobody catches what a
\* malformed one throws, which is at the first line, before it is printed.
PrintAll ==
  /\ pc = "process" /\ process_dir = <<>>
  /\ \/ pc' = "done" /\ output' = {i \in DOMAIN lines : Wanted(lines[i])}
     \/ request.regex /\ lines # <<>> /\ pc' = "aborted" /\ UNCHANGED output
  /\ UNCHANGED <<procVars, errno, request, unread, process_dir, link, MI, fd_files, nofd_flag, line, lines>>

Ended == pc \in {"done", "exited", "crashed", "aborted"}

Walk ==
  \/ ParseArgs \/ (\E p \in Pids : ListProcess(p)) \/ ListEnds \/ TakeProcess \/ GetUser
  \/ ReadLink \/ StatLink \/ OpenDir \/ ReadMaps \/ (\E i \in MI : PrintMap(i)) \/ MapsDone
  \/ (\E f \in Fds : FdInfo(f))
  \/ StatFd \/ ReadFd \/ ProcessDone \/ PrintAll

lsofVars == <<pc, errno, request, unread, process_dir, link, MI, fd_files, nofd_flag, line, lines, output>>

Environment == ~Ended /\ ProcNext /\ UNCHANGED lsofVars

Terminated == Ended /\ UNCHANGED vars

Next == Walk \/ Environment \/ Terminated

Spec == Init /\ [][Next]_vars

\* lsof is a process of its own, and none of the calls it makes blocks.
FairSpec == Spec /\ WF_vars(Walk)
-----------------------------------------------------------------------------
(* Properties.                                                             *)

Kinds == {"target", "proc", "file"}
Words == Links \union FileNames \union {"fd", "", "junk"}
Names == Kinds \X (Pids \union {0}) \X Words

Lines == [pid : Pids \union {0}, user : {"", "owner", "other"},
          fd : (Links \union {"fd", "mem", "NOFD"}) \X Nat,
          mode : Modes \union {"", "mem", "del"}, type : Types \union {""},
          name : Names, append : {"", "denied", "deleted"}]

\* Types of the variables.
TypeOK ==
  /\ ProcOK
  /\ pc \in {"args", "list", "process", "user", "link", "stat", "opendir", "maps", "mem", "fdinfo",
            "type", "name", "done", "exited", "crashed", "aborted"}
  /\ errno \in {"none", "EACCES", "ENOENT", "ENFILE"}
  /\ request \in Requests
  /\ unread \subseteq Pids /\ process_dir \in Seq(Pids)
  /\ link \in Links /\ MI \subseteq Nat /\ fd_files \subseteq Fds /\ nofd_flag \in BOOLEAN
  /\ line \in Lines
  /\ lines \in Seq(Lines)
  /\ output \subseteq DOMAIN lines

\* What should be printed of a process p that lives as long as lsof runs, and has the
\* descriptors D open on the same files all the while.  Files of different devices may
\* share an inode number, of which only the first is printed.
Row(p, fd, mode, type, name, append) ==
  [pid |-> p, user |-> "owner", fd |-> fd, mode |-> mode, type |-> type, name |-> name,
   append |-> append]

LinkRows(p) ==
  IF p \in mine
    THEN {Row(p, <<l, 0>>, "", LinkType(l), Target(p, l), "") :
            l \in IF p \in NoExe THEN Links \ {"exe"} ELSE Links}
    ELSE {Row(p, <<l, 0>>, "", "unknown", Proc(p, l), "denied") : l \in Links}
           \union {Row(p, <<"NOFD", 0>>, "", "", Proc(p, "fd"), "denied")}

FdRows(p, D) ==
  {LET x == open[p][f] IN
     Row(p, <<"fd", f>>, x.mode, IF x.deleted THEN "unknown" ELSE x.type, FileName(x.name),
         IF x.deleted THEN "deleted" ELSE "") : f \in D}

MapRows(p) ==
  {LET m == Maps[p][i] IN
     Row(p, <<"mem", m.inode>>, IF m.deleted THEN "del" ELSE "mem",
         IF m.deleted THEN "unknown" ELSE "REG", FileName(m.name),
         IF m.deleted THEN "deleted" ELSE "") :
     i \in {i \in Named(p) :
             /\ ~Overruns(Maps[p][i])
             /\ \A j \in Named(p) : Maps[p][j].inode = Maps[p][i].inode => j >= i}}

Rows(p) ==
  LinkRows(p) \union
    IF p \in mine THEN FdRows(p, {f \in Fds : <<p, f>> \in kept}) \union MapRows(p) ELSE {}

\* Whatever other processes do meanwhile, a process that lives all the while is listed,
\* and every file it has open all the while is printed with its mode, type and name
\* if the options ask for it, and once: unless lsof itself cannot open what it reads.
Complete ==
  pc = "done" /\ ~scarce =>
    \A p \in firm \ Blank : \A x \in Rows(p) :
      Cardinality({i \in output : lines[i] = x}) = IF Wanted(x) THEN 1 ELSE 0

OwnLine(x) ==
  LET l == x.fd[1] IN
  /\ x.name[2] \in {0, x.pid}
  /\ x.append = "denied" => x.pid \notin mine
  /\ l \in Links /\ status[x.pid] = "alive" /\ ~(l = "exe" /\ x.pid \in NoExe)
       => /\ x.name = IF x.pid \in mine THEN Target(x.pid, l) ELSE Proc(x.pid, l)
          /\ x.type = IF x.pid \in mine THEN LinkType(l) ELSE "unknown"

\* The links printed of a process are its own: they are what they are said to be as long
\* as it lives (a kernel thread has no executable, and shows another link instead), and if
\* it has exited they are those of nobody else; permission is said to be denied where it is.
\* The locals are used for one link after the other, and errno is never reset.
OwnLines == \A i \in DOMAIN lines : OwnLine(lines[i])

\* Four things end lsof before it has printed a line, and files it has no permission for are
\* none of them: a process that was listed and is gone when its descriptors are looked at, a
\* mapped name with a blank, no file to be opened in the whole system (hw1.cpp:370, 182), and
\* a pattern that is no regular expression, when there is a line to compare (utils.cpp:29, 48).
CrashCause ==
  /\ pc = "crashed" =>
       \/ status[line.pid] = "gone"
       \/ \E i \in DOMAIN Maps[line.pid] : Overruns(Maps[line.pid][i])
       \/ scarce
  /\ pc = "aborted" => request.regex /\ lines # <<>>
  /\ pc \in {"crashed", "aborted"} => output = {}

\* The walk ends, however many processes and files come and go.
Ends == <>Ended
=============================================================================
