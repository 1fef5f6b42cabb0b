# Verification of the Advanced UNIX Programming homeworks

The repository holds four programs, one per homework, that share no code. Each
lives on a boundary where testing is weak: between a program and another process
(hw4, hw1), between a program and its own library (hw2), between a program and
its signal handlers (hw3). This directory models them in TLA+, checks small
instances with TLC and proves what matters most with TLAPS.

## Inventory

### hw4, `sdb`: a debugger on ptrace (`src/0616078_hw4/hw4.cpp`)

State: `state` (LOADED, RUNNING, OTHERS), `program`, `child`, the list `points` of
break points (id, address, saved byte) with its counter `bpid`, `rip_now` and
`bpaddr_now` (the break point the tracee was last reported at), `restore`, `code`
(the file, read once), `dumpaddr`; and, in another process, the tracee's
`.text`, rip and run state.

Operations: load, start, run, cont, si, break, delete, set, get, getregs, list,
dump, disasm, vmmap, help, exit. They reach the tracee through `ptrace` and hear
of it through `waitpid` in `check_stop()`.

Hard: the tracee runs while the debugger writes its memory (cont lifts the 0xcc,
resumes, and puts it back without waiting); a PEEKTEXT can fail and its POKETEXT
succeed; state that outlives what it names (`rip_now`, `bpaddr_now`, `code`);
tracees that die, are left behind by a second start, or never execute.

Correct when: every listed break point is armed at the prompt; the tracee's
bytes are its own apart from listed break points; a tracee stopped by a break
point is reported and its rip rewound; no break point is passed unseen; si
advances by one instruction; nothing runs behind the user's back; nothing
outlives the debugger; every command returns.

`open_elf.cpp` reads the ELF tables of the file; only the entry point and the
`.text` section header are used. `dump` goes on where the last dump ended. Both
keep what they have when another file is loaded: correct when the user is shown
the program that runs, every byte of it once.

### hw2, `logger` (`src/0616078_hw2/0616078_hw2/`, and the revision before in `src/0616078_hw2/`)

The launcher `hw2` takes its command line apart, sets LD_PRELOAD and OUTPUT_FILE (the
first revision makes descriptor 2 the log) and executes a program; `logger.so` wraps
its file calls (chmod, chown, close, creat, fclose, fopen, fread, fwrite, open,
read, remove, rename, tmpfile, write) and writes a line for each. State: the
descriptor the log goes to, which lives in the very descriptor table the wrapped
program changes, and the flag that says it was set up.

Hard: the program closes or replaces the log's descriptor; the table is full when
the wrapper duplicates it; two threads log at once and a line is written by
several calls; the name of a descriptor is looked up before the call and printed
after it; the command's own options look like the launcher's.

Correct when: the command typed is the one that runs; every call takes effect once
and its line is written to the log and nowhere else.

### hw3, `libmini` (`src/0616078_hw3/libmini.c`, `libmini64.asm`, `start.asm`)

A C library without a C library: system call wrappers with errno, `sleep`,
signal sets, `sigaction`, `sigprocmask`, `sigpending`, `signal`, `alarm`, `pause`,
`setjmp` and `longjmp` that save and restore the signal mask. State: errno; in
the kernel mask, pending signals and dispositions; in the program the jump
buffers.

Hard: a signal between any two instructions; a handler that leaves by longjmp;
a mask that must come back; a timer racing pause. The sample programs (`alarm1.c` to
`jmp2.c`) say what the author expects of it.

### hw1, `lsof` (`src/0616078_hw1/hw1.cpp`, `utils.cpp`)

Walks `/proc` and prints what every process has open. No state of its own but the
line under construction, reused from one file to the next.

Hard: everything it reads can be gone by the time it is read: the process exits
between `readdir` and `opendir`, a descriptor is closed between `readdir` and
`readlink`; fields of the line then keep the values of the file before.

## Plan

1. `Ptrace`, `Sdb`, `SdbProps`: the debugger, its tracee, its properties, and proofs of
   types, processes, armed break points, accounted memory. **Done.**
2. `Debugger`: what a user expects of a debugger, and `Sdb` proved to implement it where
   it does. **Done.**
3. `View`: dump and the .text it is bounded by, and proofs about them. **Done.**
4. `Descriptors`, `Logger`: descriptor table, log descriptor, threads; `CallLog`, what a
   call logger promises, and the refinement, proved. `FirstLogger`, the revision before.
   `Launcher`, which starts either, and proofs about both. **Done.**
5. `SignalKernel`, `LibMini`: errno, masks, pending signals, handlers, jumps, and the
   proofs about them; `Samples`, the programs that come with it, and proofs about them.
   **Done.** Left: a jmp_buf per handler (nested setjmp).
6. `ProcFs`, `Lsof`: the walk against processes that come and go, and the proofs of
   types, ownership, completeness and what ends it. **Done.**

## Modules

| module | what it is |
| --- | --- |
| `Ptrace` | external: the kernel's process states, ptrace stops, and a tracee with `.text`, rip and successor relation, read off the calls in `hw4.cpp` |
| `Sdb` | the debugger: one action per command, split where the tracee can move between two ptrace calls |
| `SdbProps` | its properties and the invariants that make them inductive |
| `Debugger` | abstract: a debugger as its user sees it, without int3, bytes or processes |
| `View` | what is shown of .text: load's search for it, the cursor of dump; its properties |
| `MCSdb`, `MCView` | programs for TLC: with a loop through break points, without one, with branches and a loop behind them |
| `SdbProofs` | TLAPS: types, processes, armed break points, a tracee to talk to |
| `SdbTextProofs` | TLAPS: memory and rip without `set` |
| `SdbForwardProofs` | TLAPS: break points outside of loops: what the user sees, and that `Sdb` implements `Debugger` |
| `ViewProofs` | TLAPS: what dump prints, and of which program |
| `Descriptors` | external: a descriptor table, read off the calls in `logger.cpp` |
| `Logger` | the wrappers of `0616078_hw2/0616078_hw2/logger.cpp`, by any number of threads; its properties |
| `CallLog` | abstract: a call, its effect, its line in pieces to the log |
| `FirstLogger` | the wrappers of `0616078_hw2/logger.cpp`: the same calls, lines to descriptor 2 |
| `Launcher` | `hw2.cpp` in both revisions, then the command under `Logger` or `FirstLogger` |
| `MCLogger` | the module TLC checks |
| `LoggerProofs` | TLAPS: types, where the log's descriptor is, that either logger implements `CallLog`, and what the launcher makes of its words |
| `SignalKernel` | external: signals of one process, its stack of handlers, an alarm, read off the system calls of `libmini.c` |
| `LibMini` | the library: one action per call, split where a signal in between makes a difference; its properties |
| `Samples` | the sample programs, statement by statement, on top of `LibMini` |
| `MCLibMini`, `MCSamples` | one and two signals for TLC |
| `LibMiniProofs` | TLAPS: types, masks, handlers and jumps |
| `SamplesProofs` | TLAPS: what the sample programs report |
| `ProcFs` | external: /proc and the processes in it, read off the system calls of `hw1.cpp` |
| `Lsof` | lsof of `0616078_hw1`: one action per look at /proc; its properties |
| `MCLsof` | an instance for TLC: two processes, one of them a kernel thread |
| `LsofProofs` | TLAPS: types, whose files are printed, that all of them are and once, what ends the walk |

### How Sdb corresponds to the code

Variables have the names of `hw4.cpp`. `addr` is the local of cont() and si().
`points` is a set: the code looks a break point up by id or by address, both are
unique (`ArmedInv`), so the order of the vector cannot be seen. `code` is the name of
the file that getcode() read. Everything the code prints is left out but
"** breakpoint @", kept as `report`. `trap`, `moved`, `derailed`, `report` and
`origin` are history and never read by a guard.

`pc` is where the debugger is between two system calls. A command that meets a
stopped tracee is one action, since a stopped tracee cannot interfere. start() is two:
`Start`, up to its waitpid(), and `Options`, PTRACE_SETOPTIONS and the rest; when run()
calls it, cont() follows (`Run`, `RunCont`). cont() is
`Cont` (PTRACE_CONT), `ContWait` (check_stop), `ContOver` (lift the 0xcc,
PTRACE_CONT), `ContPeek` and `ContPoke` (the replace_byte at line 525, whose two
calls the tracee can come between), `ContWait2` (check_stop and the replace_byte
behind it). si() is `Si`, `SiWait`, `SiOver`, `SiWait2`. check_stop() is `CheckStop`:
`HitBreak` (returns 1 `HitAgain` or 0 `HitFirst`), `OtherStop`, `ChildExited`,
`ChildKilled`.

A failed ptrace call is not an error in the code, nor in the model: PEEKTEXT of a
running tracee returns -1, POKETEXT then writes nothing, PTRACE_CONT of a tracee
that is gone does nothing. Only PTRACE_GETREGS, waitpid and capstone are looked at:
`GetRegsFails` for the command, and in check_stop() `CheckStopFails`, when there is no child to wait for,
the tracee is killed behind the waitpid, or what getcode() read of another file cannot be decoded where
the break point is. All end the debugger, as SIGINT from the terminal does at any time (`Interrupt`): the
tracees with PTRACE_O_EXITKILL are killed, one without it goes on by itself (`orphan`).

The tracee executes instructions, hits an int3 (which leaves rip one byte behind
it), or runs into bytes that are not its program's (`Derail`, any outcome). A stop
by a signal, a SIGKILL from outside and an execvp that fails are choices of
`Environment`.

Commands that print and change nothing (list, help, get, getregs, vmmap) and
commands the code refuses have no action. set gives rip any value of `RipAddrs`, also one
where no instruction starts and one behind `.text`.

`Debugger` sees of all that where the program is (`Place`: rip, or one less until
check_stop() has seen the int3), which break points are listed, whether the user was
told of the one it is at (`rip_now = Place`), and which command is in progress (`Busy`).
An instruction at a break point is executed only after the user was told; cont stops at
the next break point or at the end; si executes one instruction. The bytes lifted and
put back, the stop that is silently stepped over and the two waits of a command are stutters.

`View` adds to every load what load() and `open_elf.cpp` do about `.text` (`LoadText`: a
file without section headers leaves the header of the file before), and dump:
`dumpaddr` is the global, `from` and `shown` are history, `image` is the file execvp()
was given. `DumpAt` is dump with an address, `DumpOn` without one, `DumpBare` the first
one without, for which main() passes "QQ" and dump() takes it for the address 0. A dump
prints up to `Lines` lines of `LineSize` bytes, five of sixteen in the code; the words read
behind the end are not printed.

### How Logger corresponds to the code

`fd_flag` and `stderr_fd` are the globals of `logger.cpp`, shared by the threads; `table` is
the process's descriptor table; `own` is history, the descriptors every thread has
opened. A wrapper runs through the labels of `th[t].pc`: `init` and `flag` are init_fd(), `begin`
the look at `stderr_fd` in close and fclose (`Guard`), `act` the call itself
(open returns the lowest free descriptor or fails, `OpenResults`, for the log as for the program's files):
(`ActOpens`, `ActCloses`, `ActElse`), `line`, `load` and `write` print(), which loads
`stderr_fd` and then writes; a line with a pointer in it (fopen, tmpfile) is three
writes. The calls differ in what they do to the table; the text of a line, the names
looked up for it and the bytes transferred are left out.

The file of a descriptor is one of seven: the three standard ones, `other` (inherited),
`mine` (opened by the program), `log`, and `elsewhere`, the log's name in another
directory. The program uses descriptors it has; whether it also closes those it does
not have is a call of the instance, `stray_close`. It does not call dup2 or fcntl, which
are not wrapped.

`FirstLogger` has the same threads at the same labels, and shares the calls themselves
with `Logger` (the `Act` actions) as the two files do. It has no init_fd and no guard,
print writes to descriptor 2, and "[logger] " is a write of its own, so that a line takes
two pieces, or four.

`Launcher`: the user types options, "--" or not, and a command of words which may look like
options (`told`). `Argv` is what main() gets. getopt is modelled by what it finds: options
in front of "--" anywhere (`Opts`), their arguments (`Optarg`), and '?' (`BadOption`).
`Parse` and `FirstParse` are the two revisions up to where the log is set up, with the
file emptied or opened, if it can be; `Refuse` is every exit with a message; `Exec` the execvp,
which may fail. What runs then is the `Next` of `Logger`, or the steps of `FirstLogger`.
The first revision opens stderr again and leaves the descriptor to the command.

`CallLog` is what either promises: a thread calls, the call takes effect (what it opens
is a descriptor no thread holds, what it closes is its own), the line is due in so many pieces, each
goes to the log, or nowhere if the log could not be opened or duplicated, and then the call returns. init_fd, the duplicate
made by close and fclose, and the descriptor the log is at are not seen.

### How LibMini corresponds to the code

`stack` is the process's stack as signals see it: `stack[1]` is the program, what
lies above are handlers, each on top of what it interrupted, and `stack[rsp]`
executes. `at` is where an activation is: in its own code (`user`), in a system call
that waits (`pause`, `sleep`), behind a system call with errno not set yet
(`wrap`), or inside a library function. `saved` is the mask in the signal frame,
which `sys_rt_sigreturn` gives back. `want` is history, never read by a guard: the
mask the activation was started with or has set since. `jb` is the jmp_buf of the
program, its `want` again history.

A signal is delivered between any two instructions. Most instructions do not care;
the calls that do are two actions or three:

* a wrapper is the system call (`SystemCall`, `Sigprocmask`, `Signal`, ...) and
  `WRAPPER_RETval` (`WrapperReturns`). A handler in between calls the library as well;
* `perror` saves errno and writes its prefix (`PerrorPrefix`), then tests and writes
  (`PerrorMessage`);
* `setjmp` saves the registers (`SetjmpRegisters`), then the mask (`SetjmpMask`);
* `longjmp` loads the registers, which cuts the stack (`LongjmpRegisters`), then
  restores the mask (`LongjmpMask`), then returns (`LongjmpReturns`).

`SigactionQuery` is sigaction with `act == NULL`: `kact` is not initialised, so that
any disposition may be installed, also one whose handler is no function (`wild`).
That is an error of the code (line 303): a query changes what it asks for. `LibCalls`
shows that masks come back in spite of it, but handlers of one signal may then nest.

What the library leaves to its callers is a guard: longjmp is called only when setjmp
has returned (`jb.ready`); setjmp is called by the program, not by a handler; a
handler may block signals but unblocks none; act has no `SA_NODEFER` and no
`SA_RESETHAND`. `SigactionRefused` is a sigaction or signal for SIGKILL or SIGSTOP, which
the kernel refuses; these two are not among `Signals`, which a process handles.

`Samples` runs a program on top of it: `Body` is main() as a sequence of statements,
`line` the next one, `i` and `os` its locals. A statement is executed by the action of
`LibMini` it calls, then the library's inner actions go on (`Inside`), and signals come at any time.
The jump returns behind setjmp, wherever that is (`Jumped`). alarm2 sleeps five seconds
and its alarm takes three, so its sleep does not end while the timer is set; otherwise time
is not modelled. The sample `any` makes every call in any order, with handlers that do too.

### How Lsof corresponds to the code

`process_dir`, `lines`, `fd_files`, `nofd_flag`, `MI` and `errno` are the variables of
`hw1.cpp`, `errno` as readlink() and opendir() leave it; `line` is the locals of
get_process_info(), among them NAME, APPEND and TYPE, which the three functions for cwd,
root and exe share. `process_dir`, `MI` and `fd_files` hold what is still to be looked at.
`pc` is the next look at /proc: `ListProcess` (readdir), `TakeProcess`
(comm), `GetUser` (stat), for each link `ReadLink` and `StatLink`, `OpenDir` (the
directory of descriptors, read at once), `ReadMaps` (read at once) with `PrintMap` and
`MapsDone` behind it, for each descriptor `FdInfo`, `StatFd`, `ReadFd`. Between any two of
them processes start, exit, are waited for, open and close files (`ProcNext`).

Nothing the code does not initialise or check has a value in the model: a stat() that fails
leaves any type and user, a missing fdinfo any mode, the word behind the last word of a
mapped name is "(deleted)" or something else or ends lsof, readdir(NULL) ends it
(`OpenDirFails`). `scarce` is a system with no file left to open (ENFILE, or ENOMEM): any opening may fail
then, in /proc and of files in it, and most failures read as nothing. The command line
is `request`: getopt's '?' and a type the code does not know are refused (`Refused`); whether the
expression of -c or -f is well-formed shows in print_all() only, which compiles it for
each line, and nobody catches what a malformed one throws (`aborted`; utils.cpp lines 29 and 48).
get_rwu_info() gathers all descriptors before their lines are appended, the model appends them one by
one: nothing is printed before the walk is over. NODE is left out: the stat() that fails
for it also fails for TYPE. `output` are the places of the lines that print_all() printed.

`Complete` is about processes and descriptors that are there from before the walk until
its end (`firm`, `kept`, history), in a system that is not short of files: it states the very lines. Of the others only `OwnLines` says something,
and of links only: the names of descriptors are gathered in vectors of the process at hand,
which no other process can reach, so that `FileName` carries no owner. Of what is left out,
some is printed wrong without a document of the repository saying
otherwise: a process that exits between readlink() calls shows one link for
another, as the executable of a kernel thread is shown to root as the
directory / (lines 133-149 do nothing on ENOENT); a descriptor that is closed and opened again may
show the mode of one file and the name of another; a process that exits before its descriptors are
opened ends lsof (line 370), which has printed only the header by then; of two mapped
files with the same inode number on two devices the second is missing.

## Runs

All bounds are constants: a program of six or eight bytes and three or four instructions,
`MaxPid` tracees, `MaxBpid` break points ever created. Three instructions are enough for
a break point that is left, one that is hit and one beyond; two tracees for one
left behind by a second start; two lines of two bytes for a dump that is full, one
that is cut, one that starts in the last line and one behind the end. Deadlock is checked in every
run; `Terminated` is the end of the debugger.

| run | shows |
| --- | --- |
| `SdbAll` | every command, two programs, a loop, SIGKILL, failing execvp, a debugger interrupted anywhere: break points are armed at the prompt, nothing runs at the prompt, nothing outlives the debugger but a tracee whose PTRACE_O_EXITKILL it had no time to set |
| `SdbNoSet` | without `set`, with signals and the unmapped address 0 that a bare `break` uses: bytes, saved bytes and rip are accounted for |
| `SdbForward` | a program without loops: no break point missed or silent, si advances, RUNNING means alive, every command returns |
| `SdbUser` | a program with branches, a loop behind its break points and no signals: the debugger implements `Debugger`; dump after dump covers .text and stops; of two programs, one without section headers, the one shown is the one traced |
| `SdbLoopMiss` | violated: cont past a break point in a loop (line 524 against the comment at 150) |
| `SdbPinned` | violated: after a second start cont stays at the break point for ever, without a word (lines 165, 522, 526 against the help at 200) |
| `LogAlone` | one thread that closes anything, the log and stderr as well: the log stays open, and out of the program's reach |
| `LogThreads` | every command line, both revisions, two threads that initialise at the same time, open, write and close: the command typed is the one that runs, no line in a file of the program, the logger implements `CallLog` |
| `LogChdir` | violated: a relative log name opened in the wrong directory (`logger.cpp` line 42 against the usage, `hw2.cpp` line 19) |
| `LibJump` | two signals, handlers that return or jump, and the sample programs: no handler is interrupted by its own signal, no blocked signal gets through, jmp2 finds SIGALRM blocked behind every jump, a blocked alarm is kept, the samples end |
| `LibCalls` | one signal and every call: each activation runs under the mask it asked for; errno is never negative |
| `LsofWalk` | command lines with and without filters, or refused; an ordinary user, also in a system short of files, and root; processes and descriptors that come and go at every step: what lives all the while is printed completely and once, no link of another process is, the walk ends, and for which reasons before its last line |

`SdbForward` has no SIGKILL and no failing execvp because with them RUNNING does
outlive the tracee (line 194 does not look at WIFSIGNALED): the property is about
what the debugger does by itself. Its properties need break points outside of loops and
two-byte instructions, and changing a constant shows it:

* `Succ <- LoopSucc` refutes `NoMissedBreakpoint` (`SdbLoopMiss`) and `StopsReported`:
  si off a break point leaves `rip_now` behind, and the next hit, a loop iteration
  later, is taken for the old one (line 165 against the comment at 151);
* a one-byte instruction refutes `SiAdvances`: after a step over it rip is one behind
  the break point on it, which line 163 takes for a hit and rewinds.

Other constants show more of what goes wrong where the runs do not go:

* SIGINT in `SdbAll` between fork() and PTRACE_SETOPTIONS leaves a tracee behind (lines 462-484), which
  `NothingOutlives` excepts by name (`Starting`);
* `WordSize = 3` with break points two bytes apart refutes `Armed` in `SdbAll`: the
  PEEKTEXT at line 525 fails while the tracee runs, the POKETEXT behind it succeeds and
  writes the word -1 over the neighbour. `ArmedHolds` assumes `Spaced` for that reason;
* `set` in `SdbNoSet` refutes `TextAccounted`: delete leaves `bpaddr_now` and `rip_now` where
  they are, and with set rip the next cont plants an int3 there which no break point lists (line 528);
* `signal` in `SdbUser` refutes `DebugsAsPromised`: a signal stops the tracee and cont returns, at no
  break point and with no word of why (check_stop() looks at the break points only, lines 160-194).

One more thing the model shows needs no run: getcode() reads the file once, so
after load, start, disasm, load of another file, start the next disasm prints the
first file (line 437).

The LibMini runs have at most three activations (`MaxDepth`): the program, a handler
and a handler on top of it, which is enough for a jump that cuts off two handlers and
for a third signal that finds the program in the middle of longjmp. A handler that
would exceed the bound waits. Two signals make the difference between a handler's own
signal and another: `LibJump` has two and the calls that matter to masks and jumps, `LibCalls`
one and every call. Deadlock is checked; `Dead` is a
process that a signal ended.

The samples jump four times, ten in the code: nothing depends on how often but the end.

`LogThreads` has commands of up to two words, which may be the launcher's own "-o", "--",
or an option it does not know. That shows what the usage leaves open: without "--" an option of the command is taken
for the launcher's (`Clear` is false then, and LaunchesTold says nothing), `logger -o f`
runs f in the first revision, and the final one empties f before it says "no command
given.". What was typed is forgotten when the command runs, and nothing depends on it then.

The Logger runs have six descriptors, of which three are standard and any of the
others may be inherited: the log, its duplicate and one or two of the program's fit,
and a table without room for the log or its duplicate occurs. `MaxOpen` bounds what a
thread has open. A thread is always able to call, so there is no deadlock.

`LsofWalk` has a process with one descriptor, two files to open on it and mappings of every kind
(duplicate, deleted, with a blank, another device's), and a kernel thread. A descriptor
that is kept and one that is closed and opened again are the same descriptor in different
behaviours. A second process matters because locals and errno pass from one to the next.
Nothing happens to processes when the walk has ended.

One more thing the LibMini model shows needs no run: perror() tests errno, which its
write of the prefix has set, and takes the message of the copy, which may be behind the table (`PerrorPrefix`,
`PerrorMessage`; `libmini.c` line 380, with error 36).

### Fairness

The debugger, lsof and the samples of libmini have a liveness property; in the logger nothing
has to happen, and the refinements are of safety: `Debugger` and `CallLog` state no fairness.

The samples are sequential programs: they go on unless they wait, an alarm that is set goes off, and a
signal that can be delivered is (`SampleFairness`). Nobody has to send a signal, so that
`SamplesEnd` leaves out alarm3, which waits for one.

lsof is a process of its own and none of its calls blocks, so that `FairSpec` of `Lsof` is weak
fairness of `Walk`; processes need not do anything, and may come and go for ever.

`FairSpec` assumes that the debugger goes on when it is not at the prompt (it is a
process of its own, and waitpid returns once the tracee's state changed) and that
a resumed tracee executes. It does not assume that the user types, that a signal
comes or that a tracee is killed. Weak fairness is enough: nothing disables a step
of the debugger once it is enabled but that step.
`CommandReturns` excepts a tracee that executes clobbered bytes: it may run for ever.

## Proofs

For every program, every set of break point addresses, every word size and every
bound, from `ProgramAssumption` and `SdbAssumption` (an instruction is inside
`.text`, the file holds no 0xcc of its own, break point addresses are in `.text`
or unmapped):

* `TypeCorrect`: types.
* `ProcHolds`, hence `QuietHolds` and `NothingOutlivesHolds`. `QuietAtPrompt` alone is not inductive:
  `ProcInv` adds that only the current tracee ever runs and only between a resume
  and the check_stop() behind it, and that whatever lives has PTRACE_O_EXITKILL but the tracee
  start() is about to set it for. `NothingOutlives` is of the step that ends the debugger, which is
  `Shutdown` whoever takes it (`OnlyShutdownExits`).
* `RunningMeansAliveHolds`, if nobody kills a tracee and programs can be executed
  (`Undisturbed`). `AliveInv` adds which of the debugger's labels have a stopped tracee, and that
  a command in progress has the state RUNNING.
* `ArmedHolds`, for break points a word apart (`Spaced`, see above). `ArmedInv` says which break point may be lifted while: the one in `addr`,
  between `ContOver` and the end of `ContWait2`, and that no address is
  listed twice, so that delete cannot disarm another break point.
* `TextAccountedHolds`, `OriTrueHolds`, `RipRewoundHolds`, for a user who never types
  `set` (see above). The heart is `LiftInv`: `bpaddr_now` is 0 or
  `rip_now`, so the byte that is lifted is the one whose `restore` is in hand, and
  is listed when it is put back. `TrapInv` says that a stop by an int3 is at a
  listed break point with rip one too far until check_stop() has run.

For every program and every set of break points that no loop leads through (`OffLoops`), if
one tracee is started, the user does not type `set`, and no instruction begins one byte
behind a break point (`Once`, with `Roomy`). Each condition has its counterexample among the runs above:
`SdbLoopMiss`, `SdbPinned`, `set`, and the one-byte instruction that line 163 takes for an int3.
`OffLoops` is a `rank` of the instructions that never decreases along `Succ` and increases behind a break
point, which exists exactly if no loop leads through one; so the closure of `Succ` is not needed.

* `ForwardHolds`. The heart is `WhereInv`: `rip_now` is 0, or where the tracee is, or a break point of
  a lower rank, hence one where it never comes again; what cont and si lift is `rip_now`, and they
  lift it when the tracee is there. `SiInv` says that a si in progress has executed one
  instruction or none, `ReportInv` that an int3 has been reported.
* Hence `StopsReportedHolds` and `SiAdvancesHolds`; with break points a word apart also
  `NoMissedHolds`, for which `ArmedInv` says that nothing but `rip_now` is lifted.
* `CodeHolds`: what getcode() read is of the program that runs, so that capstone does not fail in
  check_stop(). With two starts it may (`Undecodable`).
* `PinHolds`, if no signal comes, nobody kills a tracee or interrupts the debugger, and programs can be executed (`Calm`):
  a tracee that stands at `rip_now` and is to leave it runs on its own byte. A signal
  that stops it there would have the 0xcc put back under it.
* `NeverDerails`. When PEEKTEXT fails and POKETEXT succeeds, replace_byte() writes 0xff over the rest
  of the word at the break point. `ClobberInv` says that every byte is the file's, a listed int3, or
  a 0xff that belongs to instructions of a lower rank than the tracee's place: POKETEXT
  succeeds because another break point has stopped the tracee, and `InOrder` says that what is
  in the word comes before that one. So it does if the program only jumps forward and break points are a word
  apart (`ForwardIsOrderly`). With `1 -> 5 -> 3` in words of four bytes and break points at 1 and 5 TLC finds the
  tracee executing 0xff at 3.
* `DebugsAsPromisedHolds`, from all of these: the debugger implements `Debugger`. Each action is
  a step of it or a stutter: start, break, delete, cont, si and the debugger's end are the user's;
  an instruction is executed where the user was told that the tracee is, or where there is no
  break point; the int3, the lift, the PEEKTEXT, the POKETEXT and the silent check_stop() leave `Place`,
  `Told` and `Busy` as they are; the loud one tells the user.

For View, for every size of .text, of lines and of dumps, and every set of programs:

* `DumpCoversHolds` and `DumpStopsHolds`. `LinesBound` is the arithmetic: the lines of a dump
  are a division rounded towards zero plus one, which is one line where dump starts less than a
  line behind the end, and none further on. `DumpShow` joins a dump to the one before it.
* `ViewKeepsPromise`: what `View` adds are steps of `Sdb` or stutters (`ViewIsSdb`), so that the
  debugger with dump implements `Debugger` under the conditions above.
* `SameProgramHolds`. `ImageInv` adds that `.text` is the header of the program loaded last
  also when it is not running, and that no pid is forked twice.

For Logger, the last revision alone, for every number of threads and descriptors and every set of calls:

* `LoggerTypeCorrect`: types.
* `LogOpenHolds`, `NoStrayHolds`, `ApartHolds`, if only a program with one thread closes
  what it did not open (`OneCloser`; two threads that close each other's descriptors
  can close the log between `Guard` and `ActCloses`). `LogInv` adds that the log is open
  as soon as init_fd() has chosen a descriptor, not only once `fd_flag` says so (`LogUp`,
  which the race of two initialising threads needs), that threads' descriptors are
  open and disjoint, that what is about to be closed is not the log's descriptor and
  what has been loaded is.

* `CallsLoggedHolds`, under the same condition: the logger implements `CallLog`. Every action
  is a step of `CallLog` or a stutter; what makes the steps of close and open steps of `CallLog` is that
  the table, the log's descriptor and the threads' are apart, which is `LogInv` again. That a piece
  in hand stays where it goes while other threads act is `NoStray` of every step.

For Launcher, that is for both revisions and the launchers that start them, for every set
of threads and calls and every number of descriptors:

* `LaunchedTypeCorrect`, `LaunchedLogOpen`, `LaunchedNoStray`, `LaunchedApart` and
  `LaunchedCallsLogged`, if only a program with one thread, under the last revision, closes
  what it did not open (`Careful`: the first has no guard for descriptor 2). `CommandInv` adds to
  `LogInv` that nothing has happened in the process before the command runs (`Idle`), and that under the
  first revision descriptor 2 is a log from then on. With that, the first revision is the
  last one with `stderr_fd` always 2: reading it is `PrintLoad`, and only the entry of a call and the number of
  pieces have steps of their own (`FirstStepIs`). The launcher's steps are stutters of `CallLog`.
  `LogOpen` says nothing of the first revision, which never sets `fd_flag`.
* `LaunchesToldHolds`, without a condition, for commands of any words and length. The words of the launcher's
  options are at the front (`ArgvShape`), and none behind them is one if the command leaves no doubt
  (`CommandWords`), so "--" is found where it was typed (`DashFound`) and getopt finds the
  options that were given (`OptsAre`). `Optarg` is a recursive function; `OptargIs` shows the function that
  solves its equation, so no induction is needed. `ToldInv` carries what was set up to the exec.

For LibMini, for every set of signals and error numbers, every depth of the stack and
every set of calls:

* `LibTypeCorrect`: types.
* `MaskOwnedHolds` and `ShelteredHolds`. Neither is inductive. `JumpInv` adds that only
  the program is inside setjmp or longjmp (`OneProgram`), that the mask in a
  jmp_buf from which longjmp may jump is the one the program had when it called setjmp, also if
  handlers ran in between (`Jumpable`), and that every frame holds the mask of what
  it interrupted (`Restored`), all but the frame of a handler that interrupts longjmp,
  where the mask in force is nobody's.
* `NoReentryHolds`, if nobody calls sigaction without act. `Nested` says that a handler's
  signal is in the mask of everything on top of it; with `Sheltered` no second one
  starts. `MaxDepth` is a constant of the theorem, so it holds for handlers nested as
  deep as the signals allow.

For the samples, for every set of signals, depth of the stack and set of other calls:

* `SampleSheltered` and `SampleNoReentry`: a statement of a sample is a call of `LibMini`, a step inside one, or
  sigpending, which changes its own variable only; so `JumpInv` and `Nested` carry over.
* `JumpBlockedHolds`. `Jmp2Inv` follows the mask: jmp2 blocks SIGALRM before setjmp, so the mask in
  its jmp_buf has it, and longjmp brings it back from where it is unblocked, on every
  iteration. jmp2 installs no handler, so nothing changes the mask in between.
* `AlarmKeptHolds`. `AlarmInv` says that alarm2 and alarm3, and every frame of a handler on top of
  them, go on with SIGALRM blocked once it is, and that the alarm they set is running
  or pending: a pending signal goes away by being acted upon, which a blocked one is not, or when
  it becomes ignored, which alarm3 does before it sets the alarm. `Alarm2Inv` adds that no handler
  cuts the sleep of alarm2 short, so that it looks after the alarm has gone off.

For Lsof, for every set of processes, descriptors, files, mappings, users and command lines:

* `LsofTypeCorrect`: types. `WalkInv` adds that the line at work belongs to a process and
  that what is left of its mappings are its own.
* `OwnLinesHolds` and `CrashCauseHolds`, the latter with its four reasons: a process that is gone, a
  mapped name with a blank, a system short of files, an expression that may be malformed and a line to compare. `LinesInv` adds that a process with a line has
  been seen, hence does not come to life later and make a line wrong; `LocalInv` that the
  name in the locals is the process's or nobody's, and that stat() follows a readlink()
  of the same link.

* `CompleteHolds`, if the system is not short of files. `Complete` is about the end; `ListInv` follows the walk. Every line has a label, the
  link, descriptor or inode it is for. `Due` says which labels the walk may still come to,
  from `pc` and the lists of what is left. `OnceInv`: lines of a process have different
  labels, and what is due is not printed yet. `RowsInv`: of a process that lives and is not waiting to be looked at, every row is
  printed or due. `QueueInv`: a process is looked at once. `ShownInv` and `PlanInv`: the locals
  hold what the row with the label says, although they are left over from the link or descriptor before. So the
  line printed under a row's label is the row, and at the end, when nothing is due or waiting,
  each row is printed in one line. What processes do meanwhile only takes rows away (`RowsShrink`).

Only model-checked: `CommandReturns`, `Ends` and `SamplesEnd`, since liveness is out of
TLAPS's reach. Every safety property of a passing run has a theorem.

## Not modelled

sdb: printing and its layout; the values of registers other than rip; `.data` and the
stack; the layout of ELF headers and string tables; the offset of disasm into the bytes of the file, and so the
addresses outside of `.text` that it accepts; position-independent executables, whose addresses
are not those of the file; reuse of pids by other processes; a multi-threaded or
forking tracee (sdb traces one thread). `src/0616078_hw4/0616078_hw4/` is the submitted archive, the same
files byte for byte.

logger: what a line says; dup2 and fcntl, which are not wrapped; options with their argument
attached ("-ofile"); command lines longer than the ten words of the launcher's arrays.

libmini: what the system calls do to files and processes; strings and memory; the value
longjmp passes on; `SA_NODEFER` and `SA_RESETHAND` in an act; time, but for the order of alarm2's; what the samples write. test.c makes the calls
of jmp2.c, and testsig.c is jmp2.c.

lsof: NODE; a process that executes another program during the walk; more than one life of a pid.

Slides and the syllabus are no code.
