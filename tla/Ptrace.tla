------------------------------- MODULE Ptrace -------------------------------
(***************************************************************************)
(* The kernel's ptrace interface and the traced program ("tracee"), as far *)
(* as the debugger of 0616078_hw4 depends on them.  None of it is code of  *)
(* the repository: every definition is read off the way hw4.cpp calls      *)
(* fork, execvp, ptrace, waitpid and kill.                                 *)
(*                                                                         *)
(* A program is its .text: TextSize bytes at the addresses 1..TextSize, cut*)
(* into instructions.  Address 0 is not mapped.  What an instruction       *)
(* computes is left out: Succ says which instructions may follow it.       *)
(***************************************************************************)
EXTENDS Integers

CONSTANTS
  TextSize,    \* number of bytes of .text
  Insns,       \* addresses at which an instruction starts
  InsnSize,    \* its length in bytes
  Succ,        \* the instructions that may follow it, or Exit
  Entry,       \* e->entry, where execve stops the tracee
  Orig,        \* the bytes of .text in the ELF file
  WordSize,    \* bytes moved by one PEEKTEXT / POKETEXT (8 on x86-64)
  MaxPid,      \* bound: how many processes may be forked
  Environment  \* what may go wrong outside: "signal", "sigkill", "exec_fail"

Text == 1..TextSize
Pids == 1..MaxPid
Byte == 0..255
CC   == 204            \* 0xcc, int3
FF   == 255            \* every byte of the word -1 a failed PEEKTEXT returns
Exit == 0              \* as a successor: the program calls exit

ASSUME ProgramAssumption ==
  /\ TextSize \in Nat \ {0}
  /\ WordSize \in Nat \ {0}
  /\ MaxPid \in Nat \ {0}
  /\ Insns \subseteq Text
  /\ Entry \in Insns
  /\ InsnSize \in [Insns -> Nat \ {0}]
  /\ Succ \in [Insns -> SUBSET (Insns \union {Exit})]
  /\ \A i \in Insns : Succ[i] # {} /\ i + InsnSize[i] - 1 \in Text
  /\ Orig \in [Text -> Byte \ {CC}]

VARIABLES
  proc,      \* state of every process, see ProcState
  exitkill,  \* the processes PTRACE_O_EXITKILL is set for
  tp,        \* rip of the process the debugger calls child
  mem,       \* its .text
  stepping,  \* it was resumed by PTRACE_SINGLESTEP
  trap,      \* history: address of the int3 that stopped it, 0 for another stop
  moved,     \* history: it executed an instruction since the last command
  derailed   \* history: it executed bytes that are no instruction of the program

traceeVars == <<proc, exitkill, tp, mem, stepping, trap, moved, derailed>>

\* unborn: the pid is free; exited, killed: a zombie; gone: reaped by waitpid; orphan: the
\* debugger is gone and it runs on
ProcState == {"unborn", "running", "stopped", "exited", "killed", "gone", "orphan"}
Alive == {"running", "stopped"}

TraceeTypeOK ==
  /\ proc \in [Pids -> ProcState]
  /\ exitkill \subseteq Pids \union {0}
  /\ tp \in 0..(TextSize + 1)
  /\ mem \in [Text -> Byte]
  /\ stepping \in BOOLEAN
  /\ trap \in Text \union {0}
  /\ moved \in BOOLEAN
  /\ derailed \in BOOLEAN

TraceeInit ==
  /\ proc = [p \in Pids |-> "unborn"]
  /\ exitkill = {}
  /\ tp = 0
  /\ mem = Orig
  /\ stepping = FALSE
  /\ trap = 0
  /\ moved = FALSE
  /\ derailed = FALSE

-----------------------------------------------------------------------------
(* What the tracee does on its own once it was resumed.                    *)

InsnBytes(i) == i..(i + InsnSize[i] - 1)

\* The instruction at a is the program's own.
Intact(a) == a \in Insns /\ \A b \in InsnBytes(a) : mem[b] = Orig[b]

IsTrap(a) == a \in Text /\ mem[a] = CC

Stopped(p) == [proc EXCEPT ![p] = "stopped"]

\* int3: a SIGTRAP stop with rip one byte behind the 0xcc.
Trap(p) ==
  /\ proc[p] = "running"
  /\ IsTrap(tp)
  /\ tp' = tp + 1
  /\ trap' = tp
  /\ proc' = Stopped(p)
  /\ UNCHANGED <<exitkill, mem, stepping, moved, derailed>>

\* One instruction of the program; single-stepping stops behind it.
Exec(p) ==
  /\ proc[p] = "running"
  /\ Intact(tp)
  /\ \E n \in Succ[tp] :
       IF n = Exit THEN /\ proc' = [proc EXCEPT ![p] = "exited"]
                        /\ UNCHANGED <<tp, trap>>
                   ELSE /\ tp' = n
                        /\ trap' = 0
                        /\ proc' = IF stepping THEN Stopped(p) ELSE proc
  /\ moved' = TRUE
  /\ UNCHANGED <<exitkill, mem, stepping, derailed>>

\* Bytes that are no instruction of the program: a fault, or a jump to anywhere.
Derail(p) ==
  /\ proc[p] = "running"
  /\ ~Intact(tp) /\ ~IsTrap(tp)
  /\ \/ tp' = tp /\ proc' = Stopped(p)
     \/ tp' \in Text /\ proc' = IF stepping THEN Stopped(p) ELSE proc
  /\ trap' = 0
  /\ moved' = TRUE
  /\ derailed' = TRUE
  /\ UNCHANGED <<exitkill, mem, stepping>>

\* A signal for the running tracee stops it where it is.
Signal(p) ==
  /\ "signal" \in Environment
  /\ proc[p] = "running"
  /\ proc' = Stopped(p)
  /\ trap' = 0
  /\ UNCHANGED <<exitkill, tp, mem, stepping, moved, derailed>>

\* SIGKILL from outside; the only signal a ptrace-stop does not hold back.
SigKill(p) ==
  /\ "sigkill" \in Environment
  /\ proc[p] \in Alive
  /\ proc' = [proc EXCEPT ![p] = "killed"]
  /\ UNCHANGED <<exitkill, tp, mem, stepping, trap, moved, derailed>>

TraceeStep(p) == Trap(p) \/ Exec(p) \/ Derail(p)

-----------------------------------------------------------------------------
(* What the debugger asks of the kernel.                                   *)

\* PTRACE_CONT or PTRACE_SINGLESTEP: only a stopped tracee resumes.
Resumed(p) ==
  [proc EXCEPT ![p] = IF @ = "stopped" THEN "running" ELSE @]

Reaped(p) == [proc EXCEPT ![p] = "gone"]

\* The debugger's end: the kernel kills what PTRACE_O_EXITKILL covers, and lets go the rest.
ExitKilled ==
  [p \in Pids |-> IF proc[p] \notin Alive THEN proc[p]
                  ELSE IF p \in exitkill THEN "killed" ELSE "orphan"]

\* PEEKTEXT and POKETEXT work on a stopped tracee and a mapped address only.
CanPoke(p, a) == proc[p] = "stopped" /\ a \in Text

\* .text after POKETEXT of the word at a with its low byte replaced by b.  If
\* the word came from a PEEKTEXT that failed, its other bytes are those of -1.
PokeWord(a, b, peeked) ==
  [x \in Text |-> IF x = a THEN b
                  ELSE IF ~peeked /\ x \in (a + 1)..(a + WordSize - 1) THEN FF
                  ELSE mem[x]]
=============================================================================
