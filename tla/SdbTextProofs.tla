--------------------------- MODULE SdbTextProofs ---------------------------
(***************************************************************************)
(* What the debugger does to the .text of the tracee and to its rip, when  *)
(* the user never types set: with set rip the debugger loses track of the  *)
(* break point it stands on (see README.md).                               *)
(***************************************************************************)
EXTENDS SdbProofs

\* Nothing was set by hand, and the tracee's memory is accounted for.
TextInv == LiftInv /\ TextAccounted /\ OriTrue

LEMMA TextInit == Init => TextInv
<1> SUFFICES ASSUME Init PROVE TextInv
  OBVIOUS
<1>1. pc = "prompt" /\ child = 0 /\ bpaddr_now = 0
  BY DEF Init
<1>2. QED
  BY <1>1 DEF TextInv, LiftInv, TextAccounted, OriTrue, ChildAlive, Lifted

LEMMA ShutdownKills ==
  ASSUME TypeOK, ProcInv, Shutdown
  PROVE  ~ChildAlive'
<1>1. ProcInv' /\ pc' = "exited" /\ child' = child
  BY ProcShutdown DEF Shutdown, dbgVars
<1>2. child' # 0 => child' \in Pids
  BY <1>1 DEF TypeOK
<1>3. QED
  BY <1>1, <1>2 DEF ProcInv, ChildAlive

\* With the tracee dead, only where the debugger stands matters.
LEMMA TextShutdown ==
  ASSUME TypeOK, ProcInv, TextInv, Shutdown
  PROVE  TextInv'
<1>1. ~ChildAlive'
  BY ShutdownKills
<1>2. UNCHANGED <<bpaddr_now, rip_now>> /\ pc' = "exited"
  BY DEF Shutdown, dbgVars
<1>3. QED
  BY <1>1, <1>2 DEF TextInv, LiftInv, TextAccounted, OriTrue, Lifted

\* break: the byte saved is the file's, for the address was not listed.
LEMMA TextBreak ==
  ASSUME TypeOK, ProcInv, TextInv, NEW a \in BreakAddrs, Break(a)
  PROVE  TextInv'
<1>1. /\ UNCHANGED <<proc, child, pc, bpaddr_now, rip_now>> /\ pc = "prompt"
      /\ ReplaceByte(a, CC)
      /\ points \subseteq points' /\ a \in AddrOf(points')
  BY DEF Break, TypedRunning, Typed, AddrOf
<1>2. ChildAlive' => ChildAlive /\ ChildStopped
  BY <1>1, AliveIsStopped DEF ChildAlive, Waiting
<1>3. ASSUME ChildAlive', NEW x \in Text
      PROVE  \/ mem'[x] = Orig[x]
             \/ mem'[x] = CC /\ x \in AddrOf(points')
             \/ mem'[x] = FF /\ InShadow(x)
  <2>1. CASE x # a
    <3>1. mem'[x] = mem[x]
      BY <1>1, <2>1, ReplaceEffect
    <3>2. AddrOf(points) \subseteq AddrOf(points')
      BY <1>1 DEF AddrOf
    <3>3. QED
      BY <1>2, <1>3, <3>1, <3>2 DEF TextInv, TextAccounted
  <2>2. CASE x = a
    BY <1>1, <1>2, <1>3, <2>2, ReplaceEffect DEF CanPoke, ChildStopped
  <2>3. QED
    BY <2>1, <2>2
<1>4. ASSUME ChildAlive', NEW p \in points', p.addr \in Text
      PROVE  \/ p.ori = Orig[p.addr]
             \/ p.ori = FF /\ InShadow(p.addr)
  <2>1. CASE p \in points
    BY <1>2, <1>4, <2>1 DEF TextInv, OriTrue
  <2>2. CASE p \notin points
    <3>1. a \notin AddrOf(points) /\ p.addr = a /\ p.ori = OldByte(a)
      BY <2>2 DEF Break
    <3>2. p.ori = mem[a]
      BY <1>2, <1>4, <3>1 DEF OldByte, CanPoke, ChildStopped
    <3>3. QED
      BY <1>2, <1>4, <3>1, <3>2 DEF TextInv, TextAccounted
  <2>3. QED
    BY <2>1, <2>2
<1>5. QED
  BY <1>1, <1>3, <1>4 DEF TextInv, LiftInv, TextAccounted, OriTrue, Lifted

\* delete: the byte put back is the file's.
LEMMA TextDelete ==
  ASSUME TypeOK, ProcInv, TextInv, NEW p \in points, Delete(p)
  PROVE  TextInv'
<1>1. /\ UNCHANGED <<proc, child, pc, bpaddr_now, rip_now>> /\ pc = "prompt"
      /\ ReplaceByte(p.addr, p.ori)
      /\ points' = points \ {p}
  BY DEF Delete, TypedRunning, Typed
<1>2. ChildAlive' => ChildAlive /\ ChildStopped
  BY <1>1, AliveIsStopped DEF ChildAlive, Waiting
<1>3. ASSUME ChildAlive', NEW x \in Text
      PROVE  \/ mem'[x] = Orig[x]
             \/ mem'[x] = CC /\ x \in AddrOf(points')
             \/ mem'[x] = FF /\ InShadow(x)
  <2>1. CASE x # p.addr
    <3>1. mem'[x] = mem[x]
      BY <1>1, <2>1, ReplaceEffect
    <3>2. x \in AddrOf(points) => x \in AddrOf(points')
      BY <1>1, <2>1 DEF AddrOf
    <3>3. QED
      BY <1>2, <1>3, <3>1, <3>2 DEF TextInv, TextAccounted
  <2>2. CASE x = p.addr
    <3>1. mem'[x] = p.ori
      BY <1>1, <1>2, <1>3, <2>2, ReplaceEffect DEF CanPoke, ChildStopped
    <3>2. QED
      BY <1>2, <1>3, <2>2, <3>1 DEF TextInv, OriTrue
  <2>3. QED
    BY <2>1, <2>2
<1>4. QED
  BY <1>1, <1>2, <1>3 DEF TextInv, LiftInv, TextAccounted, OriTrue, Lifted

LEMMA TextUser ==
  ASSUME "set" \notin Commands, TypeOK, ProcInv, TextInv, UserTypes
  PROVE  TextInv'
<1> USE DEF TextInv, LiftInv, TextAccounted, OriTrue, Typed, TypedRunning, Lifted
<1>1. CASE \E f \in Programs : Load(f)
  BY <1>1 DEF Load, traceeVars, ChildAlive
<1>2. CASE LoadFails \/ Quit \/ Interrupt \/ BadArgument \/ GetRegsFails
  BY <1>2, TextShutdown DEF LoadFails, Quit, Interrupt, BadArgument, GetRegsFails
<1>3. CASE Start \/ Run
  BY <1>3 DEF Start, Run, Fork
<1>4. CASE \E v \in RipAddrs : SetRip(v)
  BY <1>4 DEF SetRip
<1>5. CASE Disasm
  BY <1>5 DEF Disasm, traceeVars, ChildAlive
<1>6. CASE Cont \/ Si
  BY <1>6 DEF Cont, Si, Resume, Resumed, dbgVars, ChildAlive, Alive, TypeOK, TraceeTypeOK
<1>7. QED
  BY <1>1, <1>2, <1>3, <1>4, <1>5, <1>6, TextBreak, TextDelete DEF UserTypes, OtherCommand

\* A POKETEXT of 0xcc at addr, whole or after a failed PEEKTEXT, while addr is
\* listed.
LEMMA TextPoked ==
  ASSUME TypeOK, TextAccounted, ChildAlive, NEW a \in AddrOf(points) \union {0},
         NEW ok, points' = points,
         mem' = IF CanPoke(child, a) THEN PokeWord(a, CC, ok) ELSE mem,
         NEW x \in Text
  PROVE  \/ mem'[x] = Orig[x]
         \/ mem'[x] = CC /\ x \in AddrOf(points')
         \/ mem'[x] = FF /\ InShadow(x)
<1>1. CASE mem'[x] = mem[x]
  BY <1>1 DEF TextAccounted
<1>2. CASE CanPoke(child, a) /\ x = a
  <2>1. a # 0
    BY <1>2 DEF CanPoke, Text
  <2>2. QED
    BY <1>2, <2>1 DEF PokeWord
<1>3. CASE CanPoke(child, a) /\ x # a /\ mem'[x] # mem[x]
  <2>1. mem'[x] = FF /\ x \in (a + 1)..(a + WordSize - 1)
    BY <1>3 DEF PokeWord
  <2>2. a \in Text /\ a # 0
    BY <1>3 DEF CanPoke, Text
  <2>3. a \in BreakAddrs
    BY <2>2 DEF AddrOf, TypeOK, Point
  <2>4. QED
    BY <2>1, <2>2, <2>3 DEF InShadow
<1>4. QED
  BY <1>1, <1>2, <1>3

LEMMA TextLift ==
  ASSUME TypeOK, ProcInv, TextInv, ContOver \/ SiOver
  PROVE  TextInv'
<1>1. /\ ReplaceByte(bpaddr_now, restore)
      /\ UNCHANGED <<child, points, rip_now>>
      /\ proc' = Resumed(child)
      /\ addr' = bpaddr_now
      /\ bpaddr_now' \in {bpaddr_now, 0}
      /\ pc \in {"contOver", "siOver"} /\ pc' \notin {"contOver", "siOver"}
  BY DEF ContOver, SiOver
<1>2. ChildAlive' => ChildAlive
  BY <1>1 DEF ChildAlive, Resumed, Alive, TypeOK, TraceeTypeOK
<1>3. PICK p \in points : p.addr = rip_now /\ p.ori = restore
  BY <1>1 DEF TextInv, LiftInv
<1>4. bpaddr_now \in AddrOf(points) \union {0}
  BY <1>3 DEF AddrOf, TextInv, LiftInv
<1>5. ASSUME ChildAlive', NEW x \in Text
      PROVE  \/ mem'[x] = Orig[x]
             \/ mem'[x] = CC /\ x \in AddrOf(points)
             \/ mem'[x] = FF /\ InShadow(x)
  <2>1. CASE mem'[x] = mem[x]
    BY <1>2, <1>5, <2>1 DEF TextInv, TextAccounted
  <2>2. CASE mem'[x] # mem[x]
    <3>1. x = bpaddr_now /\ mem'[x] = restore
      BY <1>1, <2>2, ReplaceEffect
    <3>2. x = p.addr /\ mem'[x] = p.ori
      BY <1>3, <3>1 DEF TextInv, LiftInv, Text
    <3>3. QED
      BY <1>2, <1>5, <3>2 DEF TextInv, OriTrue
  <2>3. QED
    BY <2>1, <2>2
<1>6. LiftInv'
  BY <1>1, <1>4 DEF TextInv, LiftInv
<1>7. QED
  BY <1>1, <1>2, <1>5, <1>6 DEF TextInv, TextAccounted, OriTrue

\* What check_stop() does to the debugger's own records.
LEMMA CheckStopLifts ==
  ASSUME LiftInv, NEW ret, CheckStop(ret), CheckStopFrame
  PROVE  /\ bpaddr_now' \in {0, rip_now'}
         /\ ret = 1 => \E p \in points' : p.addr = rip_now' /\ p.ori = restore'
  BY DEF CheckStop, HitBreak, HitAgain, HitFirst, Rewind,
         SeenBefore, OtherStop, ChildExited, ChildKilled, hitVars, CheckStopFrame, LiftInv

LEMMA TextWait ==
  ASSUME TypeOK, ProcInv, TextInv, DebuggerWaits
  PROVE  TextInv'
<1> USE DEF TextInv, LiftInv, TextAccounted, OriTrue, Lifted
<1>0. CASE Options
  BY <1>0 DEF Options, dbgVars, ChildAlive
<1>1. CASE RunCont
  BY <1>1 DEF RunCont, Resume, Resumed, dbgVars, ChildAlive, Alive, TypeOK, TraceeTypeOK
<1>2. CASE ContWait \/ SiWait
  <2>1. PICK ret \in {-1, 0, 1} : /\ CheckStop(ret) /\ CheckStopFrame
                                  /\ pc' \in {"contOver", "siOver"} => ret = 1
    BY <1>2 DEF ContWait, SiWait
  <2>2. UNCHANGED <<mem, points>> /\ pc' \notin Lifted
    BY <1>2, <2>1 DEF ContWait, SiWait, CheckStopFrame
  <2>3. ChildAlive' => ChildAlive
    BY <2>1, CheckStopAlive
  <2>4. QED
    BY <2>1, <2>2, <2>3, CheckStopLifts
<1>3. CASE ContOver \/ SiOver
  BY <1>3, TextLift
<1>4. CASE ContPeek
  BY <1>4 DEF ContPeek, traceeVars, ChildAlive
<1>5. CASE ContPoke
  <2>1. /\ UNCHANGED <<proc, child, points, addr>>
        /\ pc = "contPoke" /\ pc' = "contWait2" /\ bpaddr_now' = 0
        /\ mem' = IF CanPoke(child, addr) THEN PokeWord(addr, CC, peeked) ELSE mem
    BY <1>5 DEF ContPoke
  <2>2. ChildAlive' => ChildAlive
    BY <2>1 DEF ChildAlive
  <2>3. TextAccounted'
    BY <2>1, <2>2, TextPoked
  <2>4. QED
    BY <2>1, <2>2, <2>3
<1>6. CASE ContWait2 \/ SiWait2
  <2>1. PICK ret \in {-1, 0, 1} : CheckStop(ret) /\ CheckStopFrame
    BY <1>6 DEF ContWait2, SiWait2
  <2>2. /\ pc \in Lifted /\ pc' = "prompt" /\ UNCHANGED <<child, points>>
        /\ mem' = IF CanPoke(child, addr) THEN PokeWord(addr, CC, TRUE) ELSE mem
    BY <1>6, <2>1 DEF ContWait2, SiWait2, CheckStopFrame, ReplaceByte
  <2>3. ChildAlive' => ChildAlive
    BY <2>1, CheckStopAlive
  <2>4. TextAccounted'
    BY <2>2, <2>3, TextPoked
  <2>5. QED
    BY <2>1, <2>2, <2>3, <2>4, CheckStopLifts
<1>7. CASE CheckStopFails
  BY <1>7, TextShutdown DEF CheckStopFails
<1>8. QED
  BY <1>0, <1>1, <1>2, <1>3, <1>4, <1>5, <1>6, <1>7 DEF DebuggerWaits

LEMMA TextStep ==
  ASSUME "set" \notin Commands, TypeOK, ProcInv, TextInv, [Next]_vars
  PROVE  TextInv'
<1>1. CASE UNCHANGED vars
  BY <1>1 DEF vars, traceeVars, dbgVars, TextInv, LiftInv, TextAccounted, OriTrue,
              ChildAlive
<1>2. CASE ChildMoves
  BY <1>2, ChildKeeps DEF TextInv, LiftInv, TextAccounted, OriTrue, dbgVars
<1>3. CASE UserTypes \/ DebuggerWaits
  BY <1>3, TextUser, TextWait
<1>4. QED
  BY <1>1, <1>2, <1>3 DEF Next, Terminated

THEOREM TextInvHolds == ASSUME "set" \notin Commands PROVE Spec => []TextInv
<1>1. TypeOK /\ ProcInv /\ TextInv /\ [Next]_vars => TextInv'
  BY TextStep
<1>2. QED
  BY <1>1, TextInit, TypeCorrect, ProcHolds, PTL DEF Spec

\* Every byte of the tracee is the file's, a listed break point, or one that a
\* failed PEEKTEXT clobbered (hw4.cpp:145-146): no int3 is forgotten.
THEOREM TextAccountedHolds ==
  ASSUME "set" \notin Commands PROVE Spec => []TextAccounted
<1>1. TextInv => TextAccounted
  BY DEF TextInv
<1>2. QED
  BY <1>1, TextInvHolds, PTL

\* What delete puts back is what the file has there, never another 0xcc
\* (hw4.cpp:567, 593).
THEOREM OriTrueHolds ==
  ASSUME "set" \notin Commands PROVE Spec => []OriTrue
<1>1. TextInv => OriTrue
  BY DEF TextInv
<1>2. QED
  BY <1>1, TextInvHolds, PTL

-----------------------------------------------------------------------------
(* rip at a break point.                                                   *)

LEMMA TrapInit == Init => TrapInv
  BY DEF Init, TrapInv, ChildAlive

\* An int3 in the way of the tracee is one of a listed break point.
LEMMA TrapChild ==
  ASSUME TypeOK, ProcInv, TextInv, TrapInv, ChildMoves
  PROVE  TrapInv'
<1>1. ChildAlive /\ child \in Pids /\ UNCHANGED <<child, points, pc>>
  BY ChildKeeps DEF dbgVars, TypeOK, ChildAlive
<1>2. proc[child] = "running" => pc \in Waiting
  BY <1>1 DEF ProcInv
<1>3. CASE Trap(child)
  <2>1. mem[tp] = CC /\ tp \in Text /\ trap' = tp /\ tp' = tp + 1
    BY <1>3 DEF Trap, IsTrap
  <2>2. Orig[tp] # CC /\ FF # CC
    BY <2>1, ProgramAssumption DEF CC, FF
  <2>3. tp \in AddrOf(points)
    BY <1>1, <2>1, <2>2 DEF TextInv, TextAccounted
  <2>4. QED
    BY <1>1, <1>2, <1>3, <2>1, <2>3 DEF Trap, TrapInv, AddrOf
<1>4. CASE Exec(child)
  <2>1. trap' = 0 \/ proc' = [proc EXCEPT ![child] = "exited"]
    BY <1>4 DEF Exec
  <2>2. QED
    BY <1>1, <2>1 DEF TrapInv, ChildAlive, Alive, TypeOK, TraceeTypeOK
<1>5. CASE Derail(child) \/ Signal(child)
  BY <1>5 DEF Derail, Signal, TrapInv
<1>6. CASE SigKill(child)
  BY <1>1, <1>6 DEF SigKill, TrapInv, ChildAlive, Alive, TypeOK, TraceeTypeOK
<1>7. QED
  BY <1>3, <1>4, <1>5, <1>6 DEF ChildMoves, TraceeStep

LEMMA TrapUser ==
  ASSUME TypeOK, ProcInv, TrapInv, UserTypes
  PROVE  TrapInv'
<1> USE DEF TrapInv, Typed, TypedRunning, Waiting
<1>1. CASE \E f \in Programs : Load(f)
  BY <1>1 DEF Load, traceeVars, ChildAlive
<1>2. CASE LoadFails \/ Quit \/ Interrupt \/ BadArgument \/ GetRegsFails
  BY <1>2, ShutdownKills DEF LoadFails, Quit, Interrupt, BadArgument, GetRegsFails
<1>3. CASE Start \/ Run
  BY <1>3 DEF Start, Run, Fork
<1>4. ASSUME NEW a \in BreakAddrs, Break(a)
      PROVE  TrapInv'
  BY <1>4 DEF Break, ChildAlive
<1>5. ASSUME NEW p \in points, Delete(p)
      PROVE  TrapInv'
  BY <1>5 DEF Delete, ChildAlive
<1>6. ASSUME NEW v \in RipAddrs, SetRip(v)
      PROVE  TrapInv'
  BY <1>6 DEF SetRip
<1>7. CASE Disasm
  BY <1>7 DEF Disasm, traceeVars, ChildAlive
<1>8. CASE Cont \/ Si
  BY <1>8 DEF Cont, Si, Resume
<1>9. QED
  BY <1>1, <1>2, <1>3, <1>4, <1>5, <1>6, <1>7, <1>8 DEF UserTypes, OtherCommand

\* check_stop() puts rip back onto the break point.
LEMMA TrapCheckStop ==
  ASSUME TypeOK, TrapInv, pc \in Waiting, pc' \notin Waiting,
         NEW ret, CheckStop(ret), CheckStopFrame
  PROVE  TrapInv'
<1>1. SUFFICES ASSUME ChildAlive', trap' # 0 PROVE tp' = trap'
  BY DEF TrapInv
<1>2. /\ ChildStopped /\ ChildAlive /\ trap' = trap
      /\ proc[child] \notin {"exited", "killed"}
  BY <1>1, CheckStopAlive DEF CheckStopFrame, ChildStopped
<1>3. trap \in AddrOf(points) /\ tp = trap + 1 /\ trap \in Text
  BY <1>1, <1>2 DEF TrapInv, TypeOK, TraceeTypeOK
<1>4. tp - 1 = trap
  BY <1>3 DEF Text
<1>5. QED
  BY <1>2, <1>3, <1>4 DEF CheckStop, HitBreak, HitAgain, HitFirst, Rewind,
         SeenBefore, OtherStop, ChildExited, ChildKilled, hitVars

LEMMA TrapWait ==
  ASSUME TypeOK, ProcInv, TrapInv, DebuggerWaits
  PROVE  TrapInv'
<1> USE DEF Waiting
<1>0. CASE Options
  BY <1>0 DEF Options, dbgVars, TrapInv, ChildAlive
<1>1. CASE RunCont
  BY <1>1 DEF RunCont, Resume, TrapInv
<1>2. CASE ContWait \/ SiWait \/ ContWait2 \/ SiWait2
  <2>1. PICK ret \in {-1, 0, 1} : CheckStop(ret) /\ CheckStopFrame
    BY <1>2 DEF ContWait, SiWait, ContWait2, SiWait2
  <2>2. pc \in Waiting /\ pc' \notin Waiting
    BY <1>2 DEF ContWait, SiWait, ContWait2, SiWait2
  <2>3. QED
    BY <2>1, <2>2, TrapCheckStop
<1>3. CASE ContOver \/ SiOver
  <2>1. proc' = Resumed(child) /\ child' = child /\ pc' \in Waiting
    BY <1>3 DEF ContOver, SiOver
  <2>2. ChildAlive' => ~ChildStopped'
    BY <2>1 DEF ChildAlive, ChildStopped, Resumed, TypeOK, TraceeTypeOK
  <2>3. QED
    BY <2>1, <2>2 DEF TrapInv
<1>4. CASE ContPeek \/ ContPoke
  BY <1>4 DEF ContPeek, ContPoke, traceeVars, TrapInv, ChildAlive, ChildStopped
<1>5. CASE CheckStopFails
  BY <1>5, ShutdownKills DEF CheckStopFails, TrapInv
<1>6. QED
  BY <1>0, <1>1, <1>2, <1>3, <1>4, <1>5 DEF DebuggerWaits

LEMMA TrapStep ==
  ASSUME TypeOK, ProcInv, TextInv, TrapInv, [Next]_vars
  PROVE  TrapInv'
<1>1. CASE UNCHANGED vars
  BY <1>1 DEF vars, traceeVars, dbgVars, TrapInv, ChildAlive, ChildStopped
<1>2. CASE Next
  BY <1>1, <1>2, TrapChild, TrapUser, TrapWait DEF Next, Terminated
<1>3. QED
  BY <1>1, <1>2

\* A stop by an int3 is at a listed break point, and check_stop() takes rip back to it
\* before anything else is done (hw4.cpp:163-168, 180-182).
THEOREM TrapHolds == ASSUME "set" \notin Commands PROVE Spec => []TrapInv
<1>1. TypeOK /\ ProcInv /\ TextInv /\ TrapInv /\ [Next]_vars => TrapInv'
  BY TrapStep
<1>2. QED
  BY <1>1, TrapInit, TypeCorrect, ProcHolds, TextInvHolds, PTL DEF Spec

\* A tracee stopped by the int3 of a listed break point is handed to the user
\* with rip on the break point (hw4.cpp:167-168, 180-182).
THEOREM RipRewoundHolds ==
  ASSUME "set" \notin Commands PROVE Spec => []RipRewound
<1>1. TrapInv => RipRewound
  BY DEF TrapInv, RipRewound, Waiting
<1>2. QED
  BY <1>1, TrapHolds, PTL
=============================================================================
