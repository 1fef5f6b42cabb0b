----------------------------- MODULE SdbProofs -----------------------------
(***************************************************************************)
(* The debugger's types and safety properties, for every program, every set*)
(* of break point addresses and every bound.                               *)
(***************************************************************************)
EXTENDS SdbProps, TLAPS

LEMMA CCIsByte == CC \in Byte /\ FF \in Byte
  BY DEF CC, FF, Byte

\* A POKETEXT stores bytes.
LEMMA PokeType ==
  ASSUME mem \in [Text -> Byte], NEW a, NEW b \in Byte, NEW ok
  PROVE  PokeWord(a, b, ok) \in [Text -> Byte]
  BY CCIsByte DEF PokeWord

\* So does replace_byte().
LEMMA ReplaceType ==
  ASSUME mem \in [Text -> Byte], NEW a, NEW b \in Byte, ReplaceByte(a, b)
  PROVE  mem' \in [Text -> Byte]
  BY PokeType DEF ReplaceByte

LEMMA InitType == Init => TypeOK
<1> SUFFICES ASSUME Init PROVE TypeOK
  OBVIOUS
<1>1. 0 \in 0..(TextSize + 1) /\ 0 \in 0..MaxBpid /\ 0 \in Byte
  BY ProgramAssumption, SdbAssumption DEF Byte
<1>2. Orig \in [Text -> Byte]
  BY ProgramAssumption
<1>3. TraceeTypeOK
  BY <1>1, <1>2 DEF Init, TraceeInit, TraceeTypeOK, ProcState
<1>4. QED
  BY <1>1, <1>3 DEF Init, TypeOK, Label, Point

\* What the tracee and the kernel do preserves the types.
LEMMA TraceeType ==
  ASSUME TypeOK, ChildMoves
  PROVE  TypeOK'
<1> USE ProgramAssumption DEF ProcState, Alive
<1>1. child \in Pids /\ UNCHANGED <<dbgVars, pc, report, origin>>
  BY DEF ChildMoves, TypeOK
<1>2. CASE Trap(child)
  <2>1. tp' \in 0..(TextSize + 1) /\ trap' \in Text \union {0}
    BY <1>2 DEF Trap, IsTrap, Text
  <2>2. QED
    BY <1>1, <1>2, <2>1 DEF Trap, Stopped, TypeOK, TraceeTypeOK, dbgVars
<1>3. CASE Exec(child)
  <2>1. \A n \in Succ[tp] : n # Exit => n \in Text
    BY <1>3 DEF Exec, Intact
  <2>2. /\ tp' \in 0..(TextSize + 1)
        /\ trap' \in Text \union {0}
    <3>1. tp \in 0..(TextSize + 1) /\ trap \in Text \union {0}
      BY DEF TypeOK, TraceeTypeOK
    <3>2. PICK n \in Succ[tp] : \/ n = Exit /\ tp' = tp /\ trap' = trap
                                \/ n # Exit /\ tp' = n /\ trap' = 0
      BY <1>3 DEF Exec
    <3>3. CASE n = Exit
      BY <3>1, <3>2, <3>3
    <3>4. CASE n # Exit
      BY <2>1, <3>2, <3>4 DEF Text
    <3>5. QED
      BY <3>3, <3>4
  <2>3. proc' \in [Pids -> ProcState]
    BY <1>1, <1>3 DEF Exec, Stopped, TypeOK, TraceeTypeOK
  <2>4. QED
    BY <1>1, <1>3, <2>2, <2>3 DEF Exec, TypeOK, TraceeTypeOK, dbgVars
<1>4. CASE Derail(child)
  BY <1>1, <1>4 DEF Derail, Stopped, TypeOK, TraceeTypeOK, dbgVars, Text
<1>5. CASE Signal(child)
  BY <1>1, <1>5 DEF Signal, Stopped, TypeOK, TraceeTypeOK, dbgVars
<1>6. CASE SigKill(child)
  BY <1>1, <1>6 DEF SigKill, TypeOK, TraceeTypeOK, dbgVars
<1>7. QED
  BY <1>2, <1>3, <1>4, <1>5, <1>6 DEF ChildMoves, TraceeStep

LEMMA ShutdownType ==
  ASSUME TypeOK, Shutdown
  PROVE  TypeOK'
  BY DEF Shutdown, ExitKilled, TypeOK, TraceeTypeOK, dbgVars, ProcState, Label

LEMMA ForkType ==
  ASSUME TypeOK, NEW p \in Pids, Fork(p), pc' \in Label
  PROVE  TypeOK'
<1>1. tp' \in 0..(TextSize + 1) /\ mem' \in [Text -> Byte]
  BY ProgramAssumption DEF Fork, Text
<1>2. proc' \in [Pids -> ProcState] /\ exitkill' \subseteq Pids \union {0}
  BY DEF Fork, SetOptions, Stopped, Reaped, ProcState, TypeOK, TraceeTypeOK
<1>3. QED
  BY <1>1, <1>2 DEF Fork, TypeOK, TraceeTypeOK, Point

\* What the user types preserves the types.
LEMMA UserType ==
  ASSUME TypeOK, UserTypes
  PROVE  TypeOK'
<1> USE DEF Typed, TypedRunning, Label
<1>1. CASE \E f \in Programs : Load(f)
  BY <1>1 DEF Load, TypeOK, TraceeTypeOK, traceeVars
<1>2. CASE LoadFails \/ Quit \/ Interrupt \/ BadArgument \/ GetRegsFails
  BY <1>2, ShutdownType DEF LoadFails, Quit, Interrupt, BadArgument, GetRegsFails
<1>3. CASE Start \/ Run
  BY <1>3, ForkType DEF Start, Run, TypeOK
<1>4. ASSUME NEW a \in BreakAddrs, Break(a)
      PROVE  TypeOK'
  <2>1. mem' \in [Text -> Byte]
    BY <1>4, ReplaceType, CCIsByte DEF Break, TypeOK, TraceeTypeOK
  <2>2. OldByte(a) \in Byte
    BY CCIsByte DEF OldByte, CanPoke, TypeOK, TraceeTypeOK
  <2>3. points' \subseteq Point /\ bpid' \in 0..MaxBpid
    BY <1>4, <2>2, SdbAssumption DEF Break, Point, TypeOK
  <2>4. QED
    BY <1>4, <2>1, <2>3 DEF Break, TypeOK, TraceeTypeOK
<1>5. ASSUME NEW p \in points, Delete(p)
      PROVE  TypeOK'
  <2>1. mem' \in [Text -> Byte]
    BY <1>5, ReplaceType DEF Delete, TypeOK, TraceeTypeOK, Point
  <2>2. QED
    BY <1>5, <2>1 DEF Delete, TypeOK, TraceeTypeOK
<1>6. ASSUME NEW v \in RipAddrs, SetRip(v)
      PROVE  TypeOK'
  <2>1. v \in 0..(TextSize + 1)
    BY SdbAssumption
  <2>2. QED
    BY <1>6, <2>1 DEF SetRip, TypeOK, TraceeTypeOK
<1>7. CASE Disasm
  BY <1>7 DEF Disasm, TypeOK, TraceeTypeOK, traceeVars
<1>8. CASE Cont \/ Si
  BY <1>8 DEF Cont, Si, Resume, Resumed, TypeOK, TraceeTypeOK, dbgVars, ProcState
<1>9. QED
  BY <1>1, <1>2, <1>3, <1>4, <1>5, <1>6, <1>7, <1>8 DEF UserTypes, OtherCommand

\* What check_stop() changes keeps its type.
LEMMA CheckStopType ==
  ASSUME TypeOK, NEW ret, CheckStop(ret), CheckStopFrame
  PROVE  /\ proc' \in [Pids -> ProcState]
         /\ tp' \in 0..(TextSize + 1)
         /\ state' \in {"LOADED", "RUNNING", "OTHERS"}
         /\ code' \in Programs \union {NoProgram}
         /\ rip_now' \in 0..(TextSize + 1)
         /\ bpaddr_now' \in BreakAddrs \union {0}
         /\ report' \in BreakAddrs \union {0}
         /\ restore' \in Byte
         /\ exitkill' \subseteq Pids \union {0} /\ stepping' \in BOOLEAN
         /\ trap' \in Text \union {0} /\ moved' \in BOOLEAN /\ derailed' \in BOOLEAN
         /\ program' \in Programs \union {NoProgram}
         /\ child' \in Pids \union {0}
         /\ points' \subseteq Point /\ bpid' \in 0..MaxBpid
         /\ peeked' \in BOOLEAN
         /\ origin' \in 0..(TextSize + 1)
<1>1. \A p \in points : /\ p.addr \in BreakAddrs /\ p.addr \in Text \union {0}
                        /\ p.addr \in 0..(TextSize + 1) /\ p.ori \in Byte
  <2>1. \A p \in points : p.addr \in BreakAddrs /\ p.ori \in Byte
    BY DEF TypeOK, Point
  <2>2. \A a \in BreakAddrs : a \in Text \union {0} /\ a \in 0..(TextSize + 1)
    BY SdbAssumption, ProgramAssumption DEF Text
  <2>3. QED
    BY <2>1, <2>2
<1>2. /\ proc' \in [Pids -> ProcState]
      /\ state' \in {"LOADED", "RUNNING", "OTHERS"}
  BY DEF CheckStop, HitBreak, HitAgain, HitFirst, Rewind,
         SeenBefore, OtherStop, ChildExited, ChildKilled, hitVars, Reaped, ProcState,
         TypeOK, TraceeTypeOK
<1>3. /\ tp' \in 0..(TextSize + 1)
      /\ code' \in Programs \union {NoProgram}
      /\ rip_now' \in 0..(TextSize + 1)
      /\ bpaddr_now' \in BreakAddrs \union {0}
      /\ report' \in BreakAddrs \union {0}
      /\ restore' \in Byte
  BY <1>1 DEF CheckStop, HitBreak, HitAgain, HitFirst, Rewind,
         SeenBefore, OtherStop, ChildExited, ChildKilled, hitVars, TypeOK, TraceeTypeOK
<1>4. QED
  BY <1>2, <1>3, ProgramAssumption DEF CheckStopFrame, TypeOK, TraceeTypeOK

\* What the debugger does on its own preserves the types.
LEMMA WaitType ==
  ASSUME TypeOK, DebuggerWaits
  PROVE  TypeOK'
<1> USE DEF Label
<1>1. CASE Options \/ RunCont
  <2>1. exitkill' \subseteq Pids \union {0}
    BY <1>1 DEF Options, RunCont, SetOptions, TypeOK, TraceeTypeOK
  <2>2. CASE Options
    BY <2>1, <2>2 DEF Options, TypeOK, TraceeTypeOK, dbgVars
  <2>3. CASE RunCont
    BY <2>1, <2>3 DEF RunCont, Resume, Resumed, TypeOK, TraceeTypeOK, dbgVars, ProcState
  <2>4. QED
    BY <1>1, <2>2, <2>3
<1>2. CASE ContWait \/ SiWait
  <2>1. PICK ret \in {-1, 0, 1} : CheckStop(ret) /\ CheckStopFrame
    BY <1>2 DEF ContWait, SiWait
  <2>2. mem' \in [Text -> Byte] /\ addr' \in BreakAddrs \union {0} /\ pc' \in Label
    BY <1>2 DEF ContWait, SiWait, TypeOK, TraceeTypeOK
  <2>3. QED
    BY <2>1, <2>2, CheckStopType DEF TypeOK, TraceeTypeOK
<1>3. CASE ContWait2 \/ SiWait2
  <2>1. PICK ret \in {-1, 0, 1} : CheckStop(ret) /\ CheckStopFrame
    BY <1>3 DEF ContWait2, SiWait2
  <2>2. mem' \in [Text -> Byte]
    BY <1>3, ReplaceType, CCIsByte DEF ContWait2, SiWait2, TypeOK, TraceeTypeOK
  <2>3. addr' \in BreakAddrs \union {0} /\ pc' \in Label
    BY <1>3 DEF ContWait2, SiWait2
  <2>4. QED
    BY <2>1, <2>2, <2>3, CheckStopType DEF TypeOK, TraceeTypeOK
<1>4. CASE ContOver \/ SiOver
  <2>1. mem' \in [Text -> Byte]
    BY <1>4, ReplaceType DEF ContOver, SiOver, TypeOK, TraceeTypeOK
  <2>2. QED
    BY <1>4, <2>1 DEF ContOver, SiOver, Resumed, TypeOK, TraceeTypeOK, ProcState
<1>5. CASE ContPeek
  BY <1>5 DEF ContPeek, CanPoke, TypeOK, TraceeTypeOK, traceeVars
<1>6. CASE ContPoke
  <2>1. mem' \in [Text -> Byte]
    BY <1>6, PokeType, CCIsByte DEF ContPoke, TypeOK, TraceeTypeOK
  <2>2. QED
    BY <1>6, <2>1 DEF ContPoke, TypeOK, TraceeTypeOK
<1>7. CASE CheckStopFails
  BY <1>7, ShutdownType DEF CheckStopFails
<1>8. QED
  BY <1>1, <1>2, <1>3, <1>4, <1>5, <1>6, <1>7 DEF DebuggerWaits

\* Every variable keeps its type: the debugger's bookkeeping never leaves its
\* range, whatever the user types and whatever happens to the tracee.
THEOREM TypeCorrect == Spec => []TypeOK
<1>1. TypeOK /\ [Next]_vars => TypeOK'
  <2> SUFFICES ASSUME TypeOK, [Next]_vars PROVE TypeOK'
    OBVIOUS
  <2>1. CASE UNCHANGED vars
    BY <2>1 DEF vars, traceeVars, dbgVars, TypeOK, TraceeTypeOK
  <2>2. CASE Next
    BY <2>2, <2>1, UserType, WaitType, TraceeType DEF Next, Terminated
  <2>3. QED
    BY <2>1, <2>2
<1>2. QED
  BY <1>1, InitType, PTL DEF Spec

-----------------------------------------------------------------------------
(* Processes.                                                              *)

LEMMA ProcInit == Init => ProcInv
  BY DEF Init, TraceeInit, ProcInv, Alive

\* The debugger's end leaves nothing alive.
LEMMA ProcShutdown ==
  ASSUME TypeOK, ProcInv, Shutdown
  PROVE  ProcInv'
<1>1. \A p \in Pids : proc'[p] \notin Alive
  BY DEF Shutdown, ExitKilled, TypeOK, TraceeTypeOK, Alive
<1>2. QED
  BY <1>1 DEF Shutdown, ProcInv, dbgVars, Alive

LEMMA ProcChild ==
  ASSUME TypeOK, ProcInv, ChildMoves
  PROVE  ProcInv'
<1> USE DEF ProcInv, Alive
<1>1. child \in Pids /\ UNCHANGED <<dbgVars, pc, report, origin>>
  BY DEF ChildMoves, TypeOK
<1>2. UNCHANGED exitkill
  BY DEF ChildMoves, TraceeStep, Trap, Exec, Derail, Signal, SigKill
<1>3. PICK s : proc[child] \in Alive /\ proc' = [proc EXCEPT ![child] = s]
               /\ (s = "running" => proc[child] = "running")
  <2>1. CASE Trap(child) \/ Signal(child) \/ SigKill(child)
    BY <2>1 DEF Trap, Signal, SigKill, Stopped
  <2>2. CASE Exec(child) \/ Derail(child)
    <3>1. /\ proc[child] = "running"
          /\ \/ proc' = Stopped(child)
             \/ proc' = proc
             \/ proc' = [proc EXCEPT ![child] = "exited"]
      BY <2>2 DEF Exec, Derail
    <3>2. proc = [proc EXCEPT ![child] = proc[child]]
      BY <1>1 DEF TypeOK, TraceeTypeOK
    <3>3. QED
      BY <3>1, <3>2 DEF Stopped
  <2>3. QED
    BY <2>1, <2>2 DEF ChildMoves, TraceeStep
<1>4. QED
  BY <1>1, <1>2, <1>3 DEF dbgVars, TypeOK, TraceeTypeOK

\* A command that resumes or reaps changes the current tracee alone.
LEMMA ProcUser ==
  ASSUME TypeOK, ProcInv, UserTypes
  PROVE  ProcInv'
<1> USE DEF ProcInv, Alive, Typed, TypedRunning, Waiting, Starting
<1>1. CASE \E f \in Programs : Load(f)
  BY <1>1 DEF Load, traceeVars
<1>2. CASE LoadFails \/ Quit \/ Interrupt \/ BadArgument \/ GetRegsFails
  BY <1>2, ProcShutdown DEF LoadFails, Quit, Interrupt, BadArgument, GetRegsFails
<1>3. CASE Start \/ Run
  <2>1. PICK p \in Pids : Fork(p) /\ pc = "prompt" /\ pc' \in Starting
    BY <1>3 DEF Start, Run, Starting
  <2>2. /\ p # 0 /\ \A q \in Pids : proc[q] # "running" /\ (proc[q] \in Alive => q \in exitkill)
        /\ pc' # "exited"
    BY <2>1 DEF Pids, Starting
  <2>3. CASE proc' = Stopped(p)
    BY <2>1, <2>2, <2>3 DEF Fork, Stopped, TypeOK, TraceeTypeOK
  <2>4. CASE proc' = Reaped(p)
    BY <2>1, <2>2, <2>4 DEF Fork, Reaped, TypeOK, TraceeTypeOK
  <2>5. QED
    BY <2>1, <2>3, <2>4 DEF Fork
<1>4. ASSUME NEW a \in BreakAddrs, Break(a)
      PROVE  ProcInv'
  BY <1>4 DEF Break
<1>5. ASSUME NEW p \in points, Delete(p)
      PROVE  ProcInv'
  BY <1>5 DEF Delete
<1>6. ASSUME NEW v \in RipAddrs, SetRip(v)
      PROVE  ProcInv'
  BY <1>6 DEF SetRip
<1>7. CASE Disasm
  BY <1>7 DEF Disasm, traceeVars
<1>8. CASE Cont \/ Si
  BY <1>8 DEF Cont, Si, Resume, Resumed, dbgVars, TypeOK, TraceeTypeOK
<1>9. QED
  BY <1>1, <1>2, <1>3, <1>4, <1>5, <1>6, <1>7, <1>8 DEF UserTypes, OtherCommand

LEMMA ProcWait ==
  ASSUME TypeOK, ProcInv, DebuggerWaits
  PROVE  ProcInv'
<1> USE DEF ProcInv, Alive, Waiting, Starting
<1>0. CASE Options
  BY <1>0 DEF Options, SetOptions, dbgVars
<1>1. CASE RunCont
  BY <1>1 DEF RunCont, SetOptions, Resume, Resumed, dbgVars, TypeOK, TraceeTypeOK
<1>2. CASE ContOver \/ SiOver
  BY <1>2 DEF ContOver, SiOver, Resumed, TypeOK, TraceeTypeOK
<1>3. CASE ContWait \/ SiWait \/ ContWait2 \/ SiWait2
  <2>1. PICK ret \in {-1, 0, 1} : CheckStop(ret) /\ CheckStopFrame
    BY <1>3 DEF ContWait, SiWait, ContWait2, SiWait2
  <2>2. /\ proc[child] # "running"
        /\ state' \in {state, "LOADED"}
        /\ proc' = proc \/ proc' = Reaped(child)
    BY <2>1 DEF CheckStop, HitBreak, HitAgain, HitFirst, Rewind,
         SeenBefore, OtherStop, ChildExited, ChildKilled, hitVars, ChildStopped
  <2>3. pc # "exited" /\ pc \notin Starting /\ pc' # "exited" /\ UNCHANGED <<child, exitkill>>
    BY <1>3, <2>1 DEF ContWait, SiWait, ContWait2, SiWait2, CheckStopFrame
  <2>4. \A p \in Pids : proc[p] # "running"
    BY <2>2
  <2>5. CASE proc' = proc
    BY <2>2, <2>3, <2>4, <2>5
  <2>6. CASE proc' = Reaped(child)
    BY <2>2, <2>3, <2>4, <2>6 DEF Reaped, TypeOK, TraceeTypeOK
  <2>7. QED
    BY <2>2, <2>5, <2>6
<1>4. CASE ContPeek \/ ContPoke
  BY <1>4 DEF ContPeek, ContPoke, traceeVars
<1>5. CASE CheckStopFails
  BY <1>5, ProcShutdown DEF CheckStopFails
<1>6. QED
  BY <1>0, <1>1, <1>2, <1>3, <1>4, <1>5 DEF DebuggerWaits

LEMMA ProcStep ==
  ASSUME TypeOK, ProcInv, [Next]_vars
  PROVE  ProcInv'
<1>1. CASE UNCHANGED vars
  BY <1>1 DEF vars, traceeVars, dbgVars, ProcInv
<1>2. CASE Next
  BY <1>1, <1>2, ProcChild, ProcUser, ProcWait DEF Next, Terminated
<1>3. QED
  BY <1>1, <1>2

\* Only the current tracee runs, and only while the debugger waits for it.
THEOREM ProcHolds == Spec => []ProcInv
  BY ProcInit, ProcStep, TypeCorrect, PTL DEF Spec

\* Between commands nothing the debugger started is running, not even what
\* start() or load() left behind (hw4.cpp:457-463).
THEOREM QuietHolds == Spec => []QuietAtPrompt
<1>1. ProcInv => QuietAtPrompt
  BY DEF ProcInv, QuietAtPrompt, Waiting
<1>2. QED
  BY <1>1, ProcHolds, PTL

\* The debugger ends in one way only.
LEMMA OnlyShutdownExits ==
  ASSUME Next, pc # "exited", pc' = "exited"
  PROVE  Shutdown
<1>1. CASE ChildMoves \/ Terminated
  BY <1>1 DEF ChildMoves, Terminated, vars
<1>2. CASE DebuggerWaits
  BY <1>2 DEF DebuggerWaits, Options, RunCont, ContWait, ContOver, ContPeek, ContPoke, ContWait2,
              SiWait, SiOver, SiWait2, CheckStopFails
<1>3. CASE \E f \in Programs : Load(f)
  BY <1>3 DEF Load
<1>4. CASE OtherCommand
  BY <1>4 DEF OtherCommand, LoadFails, Start, Run, Quit, Interrupt, BadArgument, GetRegsFails,
              Break, Delete, SetRip, Disasm, Cont, Si
<1>5. QED
  BY <1>1, <1>2, <1>3, <1>4 DEF Next, UserTypes

\* However the debugger ends, it leaves no process alive but the one that start() has
\* forked and not yet set PTRACE_O_EXITKILL for (hw4.cpp:482-484): every other has it.
THEOREM NothingOutlivesHolds == Spec => NothingOutlives
<1>1. ASSUME TypeOK, ProcInv, [Next]_vars, pc' = "exited", NEW p \in Pids, proc[p] \in Alive
      PROVE  proc'[p] = "killed" \/ (p = child /\ pc \in Starting)
  <2>1. pc # "exited" /\ (p \in exitkill \/ (p = child /\ pc \in Starting))
    BY <1>1 DEF ProcInv
  <2>2. Shutdown
    BY <1>1, <2>1, OnlyShutdownExits DEF vars
  <2>3. p \in exitkill => proc'[p] = "killed"
    BY <1>1, <2>2 DEF Shutdown, ExitKilled
  <2>4. QED
    BY <2>1, <2>3
<1>2. TypeOK /\ ProcInv /\ [Next]_vars =>
        [pc' = "exited" => \A p \in Pids :
          proc[p] \in Alive => proc'[p] = "killed" \/ (p = child /\ pc \in Starting)]_vars
  BY <1>1
<1>3. QED
  BY <1>2, ProcHolds, TypeCorrect, PTL DEF Spec, NothingOutlives

-----------------------------------------------------------------------------
(* Armed break points.                                                     *)

\* replace_byte() changes one byte, if the tracee is stopped.
LEMMA ReplaceEffect ==
  ASSUME NEW a, NEW b, ReplaceByte(a, b), NEW x \in Text
  PROVE  /\ x # a => mem'[x] = mem[x]
         /\ x = a /\ CanPoke(child, a) => mem'[x] = b
         /\ mem'[x] = mem[x] \/ mem'[x] = b
  BY DEF ReplaceByte, PokeWord

LEMMA ArmedInit == Init => ArmedInv
  BY DEF Init, ArmedInv

\* A tracee that lives while the debugger does not wait for it is stopped.
LEMMA AliveIsStopped ==
  ASSUME TypeOK, ProcInv, ChildAlive, pc \notin Waiting
  PROVE  ChildStopped
  BY DEF TypeOK, ProcInv, ChildAlive, ChildStopped, Alive

\* The tracee does not write its .text, and a dead one does not come back.
LEMMA ChildKeeps ==
  ASSUME TypeOK, ChildMoves
  PROVE  /\ mem' = mem
         /\ ChildAlive
         /\ UNCHANGED <<dbgVars, pc, report, origin>>
<1>1. mem' = mem /\ proc[child] \in Alive /\ child # 0
  BY DEF ChildMoves, TraceeStep, Trap, Exec, Derail, Signal, SigKill, Alive
<1>2. QED
  BY <1>1 DEF ChildMoves, ChildAlive

\* A check_stop() that leaves the tracee alive found it stopped.
LEMMA CheckStopAlive ==
  ASSUME TypeOK, NEW ret, CheckStop(ret), CheckStopFrame, ChildAlive'
  PROVE  ChildStopped /\ ChildAlive /\ proc' = proc
  BY DEF CheckStop, HitBreak, HitAgain, HitFirst, Rewind,
         SeenBefore, OtherStop, ChildExited, ChildKilled, hitVars, CheckStopFrame,
         ChildAlive, ChildStopped, Reaped, Alive,
         TypeOK, TraceeTypeOK

LEMMA ArmedUser ==
  ASSUME TypeOK, ProcInv, ArmedInv, UserTypes
  PROVE  ArmedInv'
<1> USE DEF ArmedInv, Typed, TypedRunning, Lifted
<1>1. CASE \E f \in Programs : Load(f)
  BY <1>1 DEF Load, traceeVars, ChildAlive
<1>2. CASE LoadFails \/ Quit \/ Interrupt \/ BadArgument \/ GetRegsFails
  <2>1. Shutdown /\ pc # "exited"
    BY <1>2 DEF LoadFails, Quit, Interrupt, BadArgument, GetRegsFails
  <2>2. ~ChildAlive'
    BY <2>1, ProcShutdown DEF ProcInv, ChildAlive, Shutdown, TypeOK, dbgVars
  <2>3. QED
    BY <2>1, <2>2 DEF Shutdown, dbgVars
<1>3. CASE Start \/ Run
  BY <1>3 DEF Start, Run, Fork
<1>4. ASSUME NEW a \in BreakAddrs, Break(a)
      PROVE  ArmedInv'
  <2>1. UNCHANGED <<proc, child, pc, addr>> /\ pc = "prompt" /\ ReplaceByte(a, CC)
    BY <1>4 DEF Break
  <2>2. \A p, q \in points' : p.addr = q.addr => p = q
    BY <1>4 DEF Break, AddrOf
  <2>3. ASSUME ChildAlive', NEW p \in points', p.addr \in Text
        PROVE  mem'[p.addr] = CC
    <3>1. ChildAlive /\ ChildStopped
      BY <2>1, <2>3, AliveIsStopped DEF ChildAlive, Waiting
    <3>2. p \in points \/ p.addr = a
      BY <1>4 DEF Break
    <3>3. p.addr = a => CanPoke(child, a)
      BY <2>3, <3>1 DEF CanPoke, ChildStopped
    <3>4. QED
      BY <2>1, <2>3, <3>1, <3>2, <3>3, ReplaceEffect
  <2>4. QED
    BY <2>2, <2>3
<1>5. ASSUME NEW p \in points, Delete(p)
      PROVE  ArmedInv'
  <2>1. /\ UNCHANGED <<proc, child, pc, addr>> /\ pc = "prompt"
        /\ ReplaceByte(p.addr, p.ori)
        /\ points' = points \ {p}
    BY <1>5 DEF Delete
  <2>2. ASSUME ChildAlive', NEW q \in points', q.addr \in Text
        PROVE  mem'[q.addr] = CC
    <3>1. ChildAlive
      BY <2>1, <2>2 DEF ChildAlive
    <3>2. q \in points /\ q.addr # p.addr
      BY <2>1
    <3>3. QED
      BY <2>1, <2>2, <3>1, <3>2, ReplaceEffect
  <2>3. QED
    BY <2>1, <2>2
<1>6. ASSUME NEW v \in RipAddrs, SetRip(v)
      PROVE  ArmedInv'
  BY <1>6 DEF SetRip, ChildAlive
<1>7. CASE Disasm
  BY <1>7 DEF Disasm, traceeVars, ChildAlive
<1>8. CASE Cont \/ Si
  BY <1>8 DEF Cont, Si, Resume, Resumed, dbgVars, ChildAlive, Alive, TypeOK, TraceeTypeOK
<1>9. QED
  BY <1>1, <1>2, <1>3, <1>4, <1>5, <1>6, <1>7, <1>8 DEF UserTypes, OtherCommand

\* The second check_stop() of cont and si is followed by the replace_byte() that
\* arms the break point stepped over (hw4.cpp:528, 549).
LEMMA ArmedRestored ==
  ASSUME TypeOK, ArmedInv, ContWait2 \/ SiWait2
  PROVE  ArmedInv'
<1>1. PICK ret \in {-1, 0, 1} : CheckStop(ret) /\ CheckStopFrame
  BY DEF ContWait2, SiWait2
<1>2. ReplaceByte(addr, CC) /\ points' = points
  BY <1>1 DEF ContWait2, SiWait2, CheckStopFrame
<1>3. ASSUME ChildAlive', NEW p \in points, p.addr \in Text
      PROVE  mem'[p.addr] = CC
  <2>1. ChildAlive /\ ChildStopped
    BY <1>1, <1>3, CheckStopAlive
  <2>2. CASE p.addr = addr
    BY <1>2, <1>3, <2>1, <2>2, ReplaceEffect DEF CanPoke, ChildStopped
  <2>3. CASE p.addr # addr
    BY <1>2, <1>3, <2>1, <2>3, ReplaceEffect DEF ArmedInv
  <2>4. QED
    BY <2>2, <2>3
<1>4. QED
  BY <1>2, <1>3 DEF ArmedInv

\* A POKETEXT of a word whose PEEKTEXT failed clobbers no break point, if they
\* are a word apart.
LEMMA ArmedPoked ==
  ASSUME Spaced, TypeOK, ArmedInv, ContPoke
  PROVE  ArmedInv'
<1>1. UNCHANGED <<proc, child, points, addr>> /\ pc' = "contWait2"
  BY DEF ContPoke
<1>2. ASSUME ChildAlive, NEW p \in points, p.addr \in Text, p.addr # addr
      PROVE  mem'[p.addr] = CC
  <2>1. mem[p.addr] = CC
    BY <1>2 DEF ArmedInv
  <2>2. CASE ~CanPoke(child, addr)
    BY <2>1, <2>2 DEF ContPoke
  <2>3. CASE CanPoke(child, addr)
    <3>1. addr \in BreakAddrs \intersect Text /\ p.addr \in BreakAddrs \intersect Text
      BY <1>2, <2>3, SdbAssumption DEF CanPoke, TypeOK, Point, Text
    <3>2. p.addr \notin (addr + 1)..(addr + WordSize - 1)
      <4>1. addr \in Int /\ p.addr \in Int /\ WordSize \in Int
        BY <3>1, ProgramAssumption DEF Text
      <4>2. addr < p.addr => addr + WordSize <= p.addr
        BY <3>1 DEF Spaced
      <4>3. QED
        BY <4>1, <4>2
    <3>3. mem' = PokeWord(addr, CC, peeked)
      BY <2>3 DEF ContPoke
    <3>4. QED
      BY <1>2, <2>1, <3>2, <3>3 DEF PokeWord
  <2>4. QED
    BY <2>2, <2>3
<1>3. QED
  BY <1>1, <1>2 DEF ArmedInv, ChildAlive, Lifted

LEMMA ArmedWait ==
  ASSUME Spaced, TypeOK, ProcInv, ArmedInv, DebuggerWaits
  PROVE  ArmedInv'
<1> USE DEF ArmedInv, Lifted
<1>0. CASE Options
  BY <1>0 DEF Options, dbgVars, ChildAlive
<1>1. CASE RunCont
  BY <1>1 DEF RunCont, Resume, Resumed, dbgVars, ChildAlive, Alive, TypeOK, TraceeTypeOK
<1>2. CASE ContWait \/ SiWait
  <2>1. PICK ret \in {-1, 0, 1} : CheckStop(ret) /\ CheckStopFrame
    BY <1>2 DEF ContWait, SiWait
  <2>2. UNCHANGED <<mem, points>> /\ pc \notin Lifted
    BY <1>2, <2>1 DEF ContWait, SiWait, CheckStopFrame
  <2>3. QED
    BY <2>1, <2>2, CheckStopAlive
<1>3. CASE ContOver \/ SiOver
  <2>1. /\ ReplaceByte(bpaddr_now, restore)
        /\ UNCHANGED <<child, points>>
        /\ proc' = Resumed(child)
        /\ addr' = bpaddr_now /\ pc' \in Lifted /\ pc \notin Lifted
    BY <1>3 DEF ContOver, SiOver
  <2>2. ChildAlive' => ChildAlive
    BY <2>1 DEF ChildAlive, Resumed, Alive, TypeOK, TraceeTypeOK
  <2>3. ASSUME ChildAlive', NEW p \in points, p.addr \in Text, p.addr # bpaddr_now
        PROVE  mem'[p.addr] = CC
    BY <2>1, <2>2, <2>3, ReplaceEffect
  <2>4. QED
    BY <2>1, <2>3
<1>4. CASE ContPeek
  BY <1>4 DEF ContPeek, traceeVars, ChildAlive
<1>5. CASE CheckStopFails
  <2>1. Shutdown /\ pc # "exited"
    BY <1>5 DEF CheckStopFails
  <2>2. ~ChildAlive'
    BY <2>1, ProcShutdown DEF ProcInv, ChildAlive, Shutdown, TypeOK, dbgVars
  <2>3. QED
    BY <2>1, <2>2 DEF Shutdown, dbgVars
<1>6. QED
  BY <1>0, <1>1, <1>2, <1>3, <1>4, <1>5, ArmedPoked, ArmedRestored DEF DebuggerWaits

LEMMA ArmedStep ==
  ASSUME Spaced, TypeOK, ProcInv, ArmedInv, [Next]_vars
  PROVE  ArmedInv'
<1>1. CASE UNCHANGED vars
  BY <1>1 DEF vars, traceeVars, dbgVars, ArmedInv, ChildAlive
<1>2. CASE ChildMoves
  BY <1>2, ChildKeeps DEF ArmedInv, dbgVars
<1>3. CASE UserTypes \/ DebuggerWaits
  BY <1>3, ArmedUser, ArmedWait
<1>4. QED
  BY <1>1, <1>2, <1>3 DEF Next, Terminated

\* Every listed break point is armed but the one that is being stepped over, for break
\* points a word apart: no POKETEXT reaches another one (hw4.cpp:141-149).
THEOREM ArmedInvHolds == ASSUME Spaced PROVE Spec => []ArmedInv
<1>1. TypeOK /\ ProcInv /\ ArmedInv /\ [Next]_vars => ArmedInv'
  BY ArmedStep
<1>2. QED
  BY <1>1, ArmedInit, TypeCorrect, ProcHolds, PTL DEF Spec

\* At the prompt no break point is lifted, although cont and si take its 0xcc away on the
\* way (hw4.cpp:523-528, 545-549) and a PEEKTEXT may fail while the tracee runs.
THEOREM ArmedHolds == ASSUME Spaced PROVE Spec => []Armed
<1>1. ArmedInv => Armed
  BY DEF ArmedInv, Armed, Lifted
<1>2. QED
  BY <1>1, ArmedInvHolds, PTL

-----------------------------------------------------------------------------
(* A tracee to talk to.                                                    *)

\* Nothing kills a tracee but the debugger's end, and programs can be executed.
Undisturbed == "sigkill" \notin Environment /\ "exec_fail" \notin Environment

LEMMA AliveShutdown ==
  ASSUME Shutdown
  PROVE  AliveInv'
  BY DEF Shutdown, AliveInv, Starting

LEMMA AliveUser ==
  ASSUME Undisturbed, TypeOK, ProcInv, AliveInv, UserTypes
  PROVE  AliveInv'
<1> USE DEF AliveInv, ChildStopped, Starting, Typed, TypedRunning
<1>1. CASE \E f \in Programs : Load(f)
  BY <1>1 DEF Load, traceeVars
<1>2. CASE LoadFails \/ Quit \/ Interrupt \/ BadArgument \/ GetRegsFails
  BY <1>2, AliveShutdown DEF LoadFails, Quit, Interrupt, BadArgument, GetRegsFails
<1>3. CASE Start \/ Run
  <2>1. PICK p \in Pids : Fork(p) /\ pc' \in Starting
    BY <1>3 DEF Start, Run, Starting
  <2>2. child' = p /\ proc' = Stopped(p) /\ state' = "RUNNING" /\ p # 0
    BY <2>1 DEF Fork, Undisturbed, Pids
  <2>3. proc'[child'] = "stopped"
    BY <2>2 DEF Stopped, TypeOK, TraceeTypeOK
  <2>4. QED
    BY <2>1, <2>2, <2>3
<1>4. ASSUME NEW a \in BreakAddrs, Break(a) PROVE AliveInv'
  BY <1>4 DEF Break
<1>5. ASSUME NEW p \in points, Delete(p) PROVE AliveInv'
  BY <1>5 DEF Delete
<1>6. ASSUME NEW v \in RipAddrs, SetRip(v) PROVE AliveInv'
  BY <1>6 DEF SetRip
<1>7. CASE Disasm
  BY <1>7 DEF Disasm, traceeVars
<1>8. CASE Cont \/ Si
  <2>1. /\ proc' = Resumed(child) /\ proc[child] = "stopped" /\ child \in Pids
        /\ state' = "RUNNING" /\ child' = child /\ pc' \in {"contWait", "siWait"}
    BY <1>8 DEF Cont, Si, Resume, dbgVars, TypeOK
  <2>2. proc'[child] = "running"
    BY <2>1 DEF Resumed, TypeOK, TraceeTypeOK
  <2>3. QED
    BY <2>1, <2>2 DEF Pids
<1>9. QED
  BY <1>1, <1>2, <1>3, <1>4, <1>5, <1>6, <1>7, <1>8 DEF UserTypes, OtherCommand

LEMMA AliveWait ==
  ASSUME Undisturbed, TypeOK, ProcInv, AliveInv, DebuggerWaits
  PROVE  AliveInv'
<1> USE DEF AliveInv, ChildStopped, Starting
<1>0. CASE Options
  BY <1>0 DEF Options, dbgVars
<1>1. CASE RunCont
  <2>1. /\ proc' = Resumed(child) /\ proc[child] = "stopped" /\ child \in Pids
        /\ state' = "RUNNING" /\ child' = child /\ pc' = "contWait"
    BY <1>1 DEF RunCont, Resume, dbgVars, TypeOK
  <2>2. proc'[child] = "running"
    BY <2>1 DEF Resumed, TypeOK, TraceeTypeOK
  <2>3. QED
    BY <2>1, <2>2 DEF Pids
<1>2. CASE ContOver \/ SiOver
  <2>1. /\ proc' = Resumed(child) /\ proc[child] = "stopped" /\ child \in Pids
        /\ state' = "RUNNING" /\ child' = child /\ pc' \in {"contPeek", "siWait2"}
    BY <1>2 DEF ContOver, SiOver, TypeOK
  <2>2. proc'[child] = "running"
    BY <2>1 DEF Resumed, TypeOK, TraceeTypeOK
  <2>3. QED
    BY <2>1, <2>2 DEF Pids
<1>3. CASE ContWait \/ SiWait \/ ContWait2 \/ SiWait2
  <2>1. PICK ret \in {-1, 0, 1} :
          /\ CheckStop(ret) /\ CheckStopFrame
          /\ pc' = "prompt" \/ (ret = 1 /\ pc' \in {"contOver", "siOver"})
    BY <1>3 DEF ContWait, SiWait, ContWait2, SiWait2
  <2>2. state = "RUNNING" /\ child' = child /\ child # 0 /\ proc[child] # "killed"
    BY <1>3, <2>1 DEF ContWait, SiWait, ContWait2, SiWait2, CheckStopFrame
  <2>3. CASE HitBreak(ret) \/ OtherStop(ret)
    BY <2>1, <2>2, <2>3 DEF HitBreak, OtherStop
  <2>4. CASE ChildExited(ret)
    BY <2>1, <2>2, <2>4 DEF ChildExited
  <2>5. QED
    BY <2>1, <2>2, <2>3, <2>4 DEF CheckStop, ChildKilled
<1>4. CASE ContPeek \/ ContPoke
  BY <1>4 DEF ContPeek, ContPoke, traceeVars
<1>5. CASE CheckStopFails
  BY <1>5, AliveShutdown DEF CheckStopFails
<1>6. QED
  BY <1>0, <1>1, <1>2, <1>3, <1>4, <1>5 DEF DebuggerWaits

LEMMA AliveChild ==
  ASSUME Undisturbed, TypeOK, ProcInv, AliveInv, ChildMoves
  PROVE  AliveInv'
<1>1. child \in Pids /\ UNCHANGED <<child, state, pc>> /\ ~SigKill(child)
  BY DEF ChildMoves, TypeOK, dbgVars, SigKill, Undisturbed
<1>2. proc[child] = "running" /\ proc'[child] \in {"running", "stopped", "exited"}
  <2>1. CASE Trap(child) \/ Signal(child)
    BY <1>1, <2>1 DEF Trap, Signal, Stopped, TypeOK, TraceeTypeOK
  <2>2. CASE Exec(child)
    BY <1>1, <2>2 DEF Exec, Stopped, TypeOK, TraceeTypeOK
  <2>3. CASE Derail(child)
    BY <1>1, <2>3 DEF Derail, Stopped, TypeOK, TraceeTypeOK
  <2>4. QED
    BY <1>1, <2>1, <2>2, <2>3 DEF ChildMoves, TraceeStep
<1>3. pc \in Waiting
  BY <1>1, <1>2 DEF ProcInv
<1>4. QED
  BY <1>1, <1>2, <1>3 DEF AliveInv, Waiting, Starting, Pids

\* Unless a tracee is killed or cannot be executed, RUNNING means that there is one, and
\* it runs only while it is waited for (hw4.cpp:155-195, 482).
THEOREM AliveInvHolds == ASSUME Undisturbed PROVE Spec => []AliveInv
<1>1. Init => AliveInv
  BY DEF Init, AliveInv
<1>2. TypeOK /\ ProcInv /\ AliveInv /\ [Next]_vars => AliveInv'
  <2>1. CASE UNCHANGED vars
    BY <2>1 DEF vars, traceeVars, dbgVars, AliveInv, ChildStopped
  <2>2. QED
    BY <2>1, AliveUser, AliveWait, AliveChild DEF Next, Terminated
<1>3. QED
  BY <1>1, <1>2, TypeCorrect, ProcHolds, PTL DEF Spec

\* While the state is RUNNING there is a stopped tracee to talk to, and whenever the
\* debugger waits there is one to wait for: "** ptrace error." and "** wait error."
\* do not happen unless a tracee is killed or cannot be executed (hw4.cpp:155-195, 482).
THEOREM RunningMeansAliveHolds ==
  ASSUME Undisturbed PROVE Spec => []RunningMeansAlive
<1>1. AliveInv => RunningMeansAlive
  BY DEF AliveInv, RunningMeansAlive
<1>2. QED
  BY <1>1, AliveInvHolds, PTL
=============================================================================
