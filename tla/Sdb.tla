-------------------------------- MODULE Sdb --------------------------------
(***************************************************************************)
(* The debugger of 0616078_hw4/hw4.cpp: its command loop, its breakpoints  *)
(* and its waiting for the tracee of module Ptrace.  One action per        *)
(* command, split where the tracee can move between two ptrace calls of    *)
(* one command.  A command that the code refuses ("** program is not       *)
(* running.") or that only prints changes no state and has no action.      *)
(***************************************************************************)
EXTENDS Ptrace

CONSTANTS
  Commands,    \* the commands the user types
  BreakAddrs,  \* the addresses the user gives to break; a bare "break" means 0
  RipAddrs,    \* the values the user gives to set rip, all above .text being one
  Programs,    \* ELF files the user loads (all with the .text of Ptrace)
  MaxBpid      \* bound: how many break points are ever created

NoProgram == "none"

ASSUME SdbAssumption ==
  /\ BreakAddrs \subseteq Text \union {0}
  /\ RipAddrs \subseteq 0..(TextSize + 1)
  /\ NoProgram \notin Programs
  /\ MaxBpid \in Nat

VARIABLES
  pc,          \* where the debugger is between two system calls, see Label
  state,       \* state_t: LOADED, RUNNING or OTHERS
  program,     \* the file load() was given last
  code,        \* the file getcode() read into memory, once
  child,       \* pid of the tracee, 0 before the first start
  points,      \* the break points, records of id, addr and ori
  bpid,        \* next break point id
  rip_now,     \* where the tracee was when a break point was reported or rip set
  bpaddr_now,  \* the break point reported last, 0 once it was stepped over
  restore,     \* the byte to put back there
  addr,        \* local of cont() and si(), 0 outside of them
  peeked,      \* whether the PEEKTEXT of a replace_byte() in progress succeeded
  report,      \* history: break point printed by the last cont or si, or 0
  origin       \* history: rip when the cont or si in progress was typed, else 0

dbgVars == <<state, program, code, child, points, bpid,
             rip_now, bpaddr_now, restore, addr, peeked>>
vars == <<traceeVars, dbgVars, pc, report, origin>>

\* prompt: the main loop; options, runCont: in the start() of start and of run, at
\* its PTRACE_SETOPTIONS; xWait, xWait2: in the first, second check_stop() of x;
\* xOver: the tracee stands on the break point it is to leave; contPeek,
\* contPoke: in the replace_byte() after the second PTRACE_CONT.
Label == {"prompt", "options", "runCont", "contWait", "contOver", "contPeek", "contPoke",
          "contWait2", "siWait", "siOver", "siWait2", "exited"}

AddrOf(ps) == {p.addr : p \in ps}

Point == [id : 0..MaxBpid, addr : BreakAddrs, ori : Byte]

TypeOK ==
  /\ TraceeTypeOK
  /\ pc \in Label
  /\ state \in {"LOADED", "RUNNING", "OTHERS"}
  /\ program \in Programs \union {NoProgram}
  /\ code \in Programs \union {NoProgram}
  /\ child \in Pids \union {0}
  /\ points \subseteq Point
  /\ bpid \in 0..MaxBpid
  /\ rip_now \in 0..(TextSize + 1)
  /\ bpaddr_now \in BreakAddrs \union {0}
  /\ restore \in Byte
  /\ addr \in BreakAddrs \union {0}
  /\ peeked \in BOOLEAN
  /\ report \in BreakAddrs \union {0}
  /\ origin \in 0..(TextSize + 1)

Init ==
  /\ TraceeInit
  /\ pc = "prompt"
  /\ state = "OTHERS"
  /\ program = NoProgram
  /\ code = NoProgram
  /\ child = 0
  /\ points = {}
  /\ bpid = 0
  /\ rip_now = 0
  /\ bpaddr_now = 0
  /\ restore = 0
  /\ addr = 0
  /\ peeked = TRUE
  /\ report = 0
  /\ origin = 0

-----------------------------------------------------------------------------
(* Helpers.                                                                *)

Typed(c) == pc = "prompt" /\ c \in Commands

\* The guard most commands start with.
TypedRunning(c) == Typed(c) /\ state = "RUNNING"

ChildStopped == proc[child] = "stopped"

\* replace_byte(a, b) while the tracee cannot move: PEEKTEXT and POKETEXT agree.
ReplaceByte(a, b) ==
  mem' = IF CanPoke(child, a) THEN PokeWord(a, b, TRUE) ELSE mem

\* Mutant: the word is returned unmasked, so that a failed PEEKTEXT shows.
OldByteUnmasked(a) == IF CanPoke(child, a) THEN mem[a] ELSE -1

\* Mutant: the byte is read after the POKETEXT.
OldByteLate(a) == CC

\* What replace_byte(a, _) returns: the low byte of the word, or of -1.
OldByte(a) == IF CanPoke(child, a) THEN mem[a] ELSE FF

\* error_quit(), exit, an uncaught exception: the debugger is gone.
Shutdown ==
  /\ pc' = "exited"
  /\ proc' = ExitKilled
  /\ UNCHANGED <<exitkill, tp, mem, stepping, trap, moved, derailed,
                 dbgVars, report, origin>>

-----------------------------------------------------------------------------
(* load, start, exit.                                                      *)

\* Mutant: a tracee that runs is not forgotten.
LoadKeeps(f) ==
  /\ Typed("load")
  /\ state # "LOADED"
  /\ state' = IF state = "RUNNING" THEN "RUNNING" ELSE "LOADED"
  /\ program' = f
  /\ UNCHANGED <<traceeVars, pc, code, child, points, bpid,
                 rip_now, bpaddr_now, restore, addr, peeked, report, origin>>

\* load(): refused in LOADED only.  A tracee that runs is kept and forgotten.
Load(f) ==
  /\ Typed("load")
  /\ state # "LOADED"
  /\ state' = "LOADED"
  /\ program' = f
  /\ UNCHANGED <<traceeVars, pc, code, child, points, bpid,
                 rip_now, bpaddr_now, restore, addr, peeked, report, origin>>

\* load() of a file that is no ELF ends in error_quit().
LoadFails ==
  /\ Typed("load")
  /\ state # "LOADED"
  /\ Shutdown

\* Mutant: no PTRACE_SETOPTIONS.
NoOptions(p) == exitkill

\* PTRACE_SETOPTIONS with PTRACE_O_EXITKILL; for a process that is no more it fails, and
\* nothing depends on it.
SetOptions(p) == exitkill \union {p}

\* start() up to its waitpid(): a new tracee, stopped at its entry, with clean memory.
\* If execvp failed in the child, or something killed it, waitpid() reaps it and start()
\* does not look at the status.  A former tracee is sent SIGTERM, which its ptrace-stop
\* holds back, and is left as it is.  rip_now and bpaddr_now keep their values.
Fork(p) ==
  /\ proc[p] = "unborn"
  /\ \A q \in Pids : q < p => proc[q] # "unborn"
  /\ child' = p
  /\ points' = {}
  /\ state' = "RUNNING"
  /\ \/ proc' = Stopped(p)
     \/ {"exec_fail", "sigkill"} \intersect Environment # {} /\ proc' = Reaped(p)
  /\ tp' = Entry
  /\ mem' = Orig
  /\ stepping' = FALSE
  /\ trap' = 0
  /\ moved' = FALSE
  /\ derailed' = FALSE
  /\ UNCHANGED <<exitkill, program, code, bpid, rip_now, bpaddr_now, restore, addr,
                 peeked, report, origin>>

Start ==
  /\ Typed("start")
  /\ state \in {"LOADED", "RUNNING"}
  /\ \E p \in Pids : Fork(p)
  /\ pc' = "options"

\* and the rest of start()
Options ==
  /\ pc = "options"
  /\ exitkill' = SetOptions(child)
  /\ pc' = "prompt"
  /\ UNCHANGED <<proc, tp, mem, stepping, trap, moved, derailed, dbgVars, report, origin>>

\* run() on a loaded program: start(), then cont(), see RunCont.
Run ==
  /\ Typed("run")
  /\ state = "LOADED"
  /\ \E p \in Pids : Fork(p)
  /\ pc' = "runCont"

\* exit, or the end of the input: quit_exit() and the end of main().  Its SIGTERM
\* goes to a stopped tracee, or to a pid that was reaped long ago.
Quit == pc = "prompt" /\ Shutdown

\* The user interrupts the debugger, in a command or not: SIGINT has its default action.
Interrupt == "interrupt" \in Commands /\ pc # "exited" /\ Shutdown

\* set with an unknown register stores through a null pointer, delete with an
\* argument that is no number throws, disasm of bytes capstone cannot decode ends
\* in error_quit(): the debugger dies.
BadArgument == TypedRunning("badarg") /\ Shutdown

\* getregs() of a tracee that is no more: "** ptrace error."
GetRegsFails == TypedRunning("getregs") /\ ~ChildStopped /\ Shutdown

-----------------------------------------------------------------------------
(* break, delete, set rip, disasm.                                         *)

\* breakpoint(): the 0xcc is written before the duplicate is noticed.
Break(a) ==
  /\ TypedRunning("break")
  /\ ReplaceByte(a, CC)
  /\ IF a \in AddrOf(points)
     THEN UNCHANGED <<points, bpid>>
     ELSE /\ bpid < MaxBpid
          /\ points' = points \union {[id |-> bpid, addr |-> a, ori |-> OldByte(a)]}
          /\ bpid' = bpid + 1
  /\ UNCHANGED <<proc, exitkill, tp, stepping, trap, moved, derailed,
                 pc, state, program, code, child, rip_now, bpaddr_now, restore,
                 addr, peeked, report, origin>>

\* Mutant: the 0xcc stays in the tracee.
DeleteForgets(p) ==
  /\ TypedRunning("delete")
  /\ points' = points \ {p}
  /\ UNCHANGED <<traceeVars, pc, state, program, code, child, bpid, rip_now,
                 bpaddr_now, restore, addr, peeked, report, origin>>

\* Mutant: the byte of one break point is put back, and another one erased.
DeleteWrong(p) ==
  /\ TypedRunning("delete")
  /\ ReplaceByte(p.addr, p.ori)
  /\ \E q \in points : points' = points \ {q}
  /\ UNCHANGED <<proc, exitkill, tp, stepping, trap, moved, derailed,
                 pc, state, program, code, child, bpid, rip_now, bpaddr_now,
                 restore, addr, peeked, report, origin>>

\* del(): rip_now and bpaddr_now may go on naming the deleted break point.
Delete(p) ==
  /\ TypedRunning("delete")
  /\ ReplaceByte(p.addr, p.ori)
  /\ points' = points \ {p}
  /\ UNCHANGED <<proc, exitkill, tp, stepping, trap, moved, derailed,
                 pc, state, program, code, child, bpid, rip_now, bpaddr_now,
                 restore, addr, peeked, report, origin>>

\* set rip v, whether or not an instruction starts there
SetRip(v) ==
  /\ TypedRunning("set")
  /\ ChildStopped
  /\ tp' = v
  /\ trap' = 0
  /\ rip_now' = v
  /\ UNCHANGED <<proc, exitkill, mem, stepping, moved, derailed,
                 pc, state, program, code, child, points, bpid, bpaddr_now,
                 restore, addr, peeked, report, origin>>

\* disasm: the file is read once and never again.
Disasm ==
  /\ TypedRunning("disasm")
  /\ code = NoProgram
  /\ code' = program
  /\ UNCHANGED <<traceeVars, pc, state, program, child, points, bpid, rip_now,
                 bpaddr_now, restore, addr, peeked, report, origin>>

-----------------------------------------------------------------------------
(* Resuming the tracee and waiting for it.                                 *)

\* PTRACE_CONT (step = FALSE) or PTRACE_SINGLESTEP of a command just typed.
Resume(step) ==
  /\ proc' = Resumed(child)
  /\ stepping' = step
  /\ trap' = 0
  /\ moved' = FALSE
  /\ report' = 0
  /\ origin' = tp
  /\ UNCHANGED <<tp, mem, derailed, dbgVars>>

\* Mutant: check_stop() leaves rip behind the 0xcc.
NoRewind(p) == tp' = tp

\* rip = rip - 1; PTRACE_SETREGS
Rewind(p) == tp' = p.addr

\* Mutant: any earlier break point counts.
SeenAny(p) == rip_now # 0

SeenBefore(p) == rip_now = p.addr

\* check_stop() returns 1: the tracee was left at this break point before.
HitAgain(p) ==
  /\ SeenBefore(p)
  /\ restore' = p.ori
  /\ UNCHANGED <<rip_now, bpaddr_now, code, report>>

\* check_stop() returns 0: "** breakpoint @" and a line of disasm
HitFirst(p) ==
  /\ ~SeenBefore(p)
  /\ rip_now' = p.addr
  /\ bpaddr_now' = p.addr
  /\ report' = p.addr
  /\ code' = IF code = NoProgram THEN program ELSE code
  /\ UNCHANGED restore

\* Stopped behind a break point, found by its address rip - 1
HitBreak(ret) ==
  /\ ChildStopped
  /\ \E p \in points :
       /\ p.addr = tp - 1
       /\ Rewind(p)
       /\ (ret = 1 /\ HitAgain(p)) \/ (ret = 0 /\ HitFirst(p))
  /\ UNCHANGED <<proc, state>>

hitVars == <<tp, rip_now, bpaddr_now, restore, code, report>>

\* Mutant: waitpid() with WNOHANG.
OtherStopNoHang(ret) ==
  /\ proc[child] \in Alive
  /\ ret = -1
  /\ tp - 1 \notin AddrOf(points)
  /\ UNCHANGED <<proc, state, hitVars>>

OtherStop(ret) ==
  /\ ChildStopped
  /\ ret = -1
  /\ tp - 1 \notin AddrOf(points)
  /\ UNCHANGED <<proc, state, hitVars>>

\* Mutant: state stays RUNNING.
ChildExitedUnnoticed(ret) ==
  /\ proc[child] = "exited"
  /\ ret = -1
  /\ proc' = Reaped(child)
  /\ UNCHANGED <<state, hitVars>>

\* "terminated normally"
ChildExited(ret) ==
  /\ proc[child] = "exited"
  /\ ret = -1
  /\ proc' = Reaped(child)
  /\ state' = "LOADED"
  /\ UNCHANGED hitVars

\* WIFSIGNALED is not looked at: state stays RUNNING.
ChildKilled(ret) ==
  /\ proc[child] = "killed"
  /\ ret = -1
  /\ proc' = Reaped(child)
  /\ UNCHANGED <<state, hitVars>>

\* check_stop(): waitpid() returned, and ret is what check_stop() returns.
CheckStop(ret) == HitBreak(ret) \/ OtherStop(ret) \/ ChildExited(ret) \/ ChildKilled(ret)

\* what a check_stop() of cont() and si() leaves alone besides
CheckStopFrame ==
  /\ origin' = IF pc' = "prompt" THEN 0 ELSE origin
  /\ UNCHANGED <<exitkill, stepping, trap, moved, derailed,
                 program, child, points, bpid, peeked>>

\* What the file of an earlier load has there, or what is no instruction, may be bytes that
\* capstone cannot decode.
Undecodable(a) == a \notin Insns \/ code \notin {NoProgram, program}

\* The debugger dies in check_stop(): there is no child to wait for ("** wait error."), the
\* tracee is killed behind the waitpid() ("** ptrace error."), or the instruction at the
\* break point cannot be shown ("** cs error.").
CheckStopFails ==
  /\ pc \in {"contWait", "contWait2", "siWait", "siWait2"}
  /\ \/ proc[child] = "gone"
     \/ ChildStopped /\ "sigkill" \in Environment
     \/ ChildStopped /\ \E p \in points :
          p.addr = tp - 1 /\ ~SeenBefore(p) /\ Undecodable(p.addr)
  /\ Shutdown

-----------------------------------------------------------------------------
(* cont.                                                                   *)

\* cont, and run on a program that runs already
Cont ==
  /\ TypedRunning("cont") \/ TypedRunning("run")
  /\ Resume(FALSE)
  /\ pc' = "contWait"
  /\ UNCHANGED exitkill

\* run(): the rest of start(), and cont()
RunCont ==
  /\ pc = "runCont"
  /\ exitkill' = SetOptions(child)
  /\ Resume(FALSE)
  /\ pc' = "contWait"

\* Mutant: cont waits on when the stop was no break point.
ContWaitAgain ==
  /\ pc = "contWait"
  /\ \/ CheckStop(1) /\ pc' = "contOver"
     \/ CheckStop(0) /\ pc' = "prompt"
     \/ CheckStop(-1) /\ UNCHANGED pc
  /\ UNCHANGED <<mem, addr>>
  /\ CheckStopFrame

\* check_stop(), and whether the tracee is still at the break point it was left at
ContWait ==
  /\ pc = "contWait"
  /\ \/ CheckStop(1) /\ pc' = "contOver"
     \/ (CheckStop(0) \/ CheckStop(-1)) /\ pc' = "prompt"
  /\ UNCHANGED <<mem, addr>>
  /\ CheckStopFrame

\* addr = bpaddr_now; replace_byte(addr, restore); PTRACE_CONT
ContOver ==
  /\ pc = "contOver"
  /\ addr' = bpaddr_now
  /\ ReplaceByte(bpaddr_now, restore)
  /\ proc' = Resumed(child)
  /\ stepping' = FALSE
  /\ pc' = "contPeek"
  /\ UNCHANGED <<exitkill, tp, trap, moved, derailed,
                 state, program, code, child, points, bpid, rip_now, bpaddr_now,
                 restore, peeked, report, origin>>

\* The PEEKTEXT of replace_byte(addr, 0xcc), while the tracee may be running
ContPeek ==
  /\ pc = "contPeek"
  /\ peeked' = CanPoke(child, addr)
  /\ pc' = "contPoke"
  /\ UNCHANGED <<traceeVars, state, program, code, child, points, bpid, rip_now,
                 bpaddr_now, restore, addr, report, origin>>

\* and its POKETEXT of the word that PEEKTEXT gave, which may be -1 by now
ContPoke ==
  /\ pc = "contPoke"
  /\ mem' = IF CanPoke(child, addr) THEN PokeWord(addr, CC, peeked) ELSE mem
  /\ bpaddr_now' = 0
  /\ peeked' = TRUE
  /\ pc' = "contWait2"
  /\ UNCHANGED <<proc, exitkill, tp, stepping, trap, moved, derailed,
                 state, program, code, child, points, bpid, rip_now, restore,
                 addr, report, origin>>

\* Mutant: without the replace_byte() after check_stop().
ContWait2Forgets ==
  /\ pc = "contWait2"
  /\ \E ret \in {-1, 0, 1} : CheckStop(ret)
  /\ addr' = 0
  /\ pc' = "prompt"
  /\ UNCHANGED mem
  /\ CheckStopFrame

\* check_stop(), whose result is dropped; replace_byte(addr, 0xcc)
ContWait2 ==
  /\ pc = "contWait2"
  /\ \E ret \in {-1, 0, 1} : CheckStop(ret)
  /\ ReplaceByte(addr, CC)
  /\ addr' = 0
  /\ pc' = "prompt"
  /\ CheckStopFrame

-----------------------------------------------------------------------------
(* si.                                                                     *)

Si ==
  /\ TypedRunning("si")
  /\ Resume(TRUE)
  /\ pc' = "siWait"
  /\ UNCHANGED exitkill

SiWait ==
  /\ pc = "siWait"
  /\ \/ CheckStop(1) /\ pc' = "siOver"
     \/ (CheckStop(0) \/ CheckStop(-1)) /\ pc' = "prompt"
  /\ UNCHANGED <<mem, addr>>
  /\ CheckStopFrame

\* Mutant: PTRACE_CONT in place of PTRACE_SINGLESTEP.
SiOverConts ==
  /\ pc = "siOver"
  /\ addr' = bpaddr_now
  /\ ReplaceByte(bpaddr_now, restore)
  /\ proc' = Resumed(child)
  /\ stepping' = FALSE
  /\ bpaddr_now' = 0
  /\ pc' = "siWait2"
  /\ UNCHANGED <<exitkill, tp, trap, moved, derailed,
                 state, program, code, child, points, bpid, rip_now,
                 restore, peeked, report, origin>>

\* addr = bpaddr_now; replace_byte(addr, restore); PTRACE_SINGLESTEP
SiOver ==
  /\ pc = "siOver"
  /\ addr' = bpaddr_now
  /\ ReplaceByte(bpaddr_now, restore)
  /\ proc' = Resumed(child)
  /\ stepping' = TRUE
  /\ bpaddr_now' = 0
  /\ pc' = "siWait2"
  /\ UNCHANGED <<exitkill, tp, trap, moved, derailed,
                 state, program, code, child, points, bpid, rip_now,
                 restore, peeked, report, origin>>

SiWait2 ==
  /\ pc = "siWait2"
  /\ \E ret \in {-1, 0, 1} : CheckStop(ret)
  /\ ReplaceByte(addr, CC)
  /\ addr' = 0
  /\ pc' = "prompt"
  /\ CheckStopFrame

-----------------------------------------------------------------------------

DebuggerWaits == Options \/ RunCont \/ ContWait \/ ContOver \/ ContPeek \/ ContPoke \/ ContWait2
                 \/ SiWait \/ SiOver \/ SiWait2 \/ CheckStopFails

OtherCommand ==
  \/ LoadFails
  \/ Start
  \/ Run
  \/ Quit
  \/ Interrupt
  \/ BadArgument
  \/ GetRegsFails
  \/ \E a \in BreakAddrs : Break(a)
  \/ \E p \in points : Delete(p)
  \/ \E v \in RipAddrs : SetRip(v)
  \/ Disasm
  \/ Cont
  \/ Si

UserTypes == OtherCommand \/ \E f \in Programs : Load(f)

\* The tracee of the moment; an earlier one is stopped for good.
ChildMoves ==
  /\ child # 0
  /\ TraceeStep(child) \/ Signal(child) \/ SigKill(child)
  /\ UNCHANGED <<dbgVars, pc, report, origin>>

\* After the end of the debugger nothing happens: it is no deadlock.
Terminated == pc = "exited" /\ UNCHANGED vars

Next == UserTypes \/ DebuggerWaits \/ ChildMoves \/ Terminated

Spec == Init /\ [][Next]_vars

\* A command goes on once waitpid() can return, and a resumed tracee executes.
\* Nothing makes the user type, the kernel signal or the tracee be killed.
Fairness ==
  /\ WF_vars(DebuggerWaits)
  /\ WF_vars(child # 0 /\ TraceeStep(child) /\ UNCHANGED <<dbgVars, pc, report, origin>>)

FairSpec == Spec /\ Fairness
=============================================================================
