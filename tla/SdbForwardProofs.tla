-------------------------- MODULE SdbForwardProofs --------------------------
(***************************************************************************)
(* What the user sees of a program that is started once and has its break  *)
(* points outside of loops: none is passed or left unreported, si executes *)
(* one instruction, and, if no signal comes, the debugger implements module*)
(* Debugger.  The rank of the instructions says that the tracee never comes*)
(* back to a break point, so that rip_now cannot be taken for a new stop.  *)
(***************************************************************************)
EXTENDS SdbTextProofs

\* One tracee, whose rip the user does not set, and break points that a stop can be
\* told from.
Once == MaxPid = 1 /\ "set" \notin Commands /\ Roomy

LEMMA InsnIsText == Insns \subseteq Text /\ \A i \in Insns : i # 0 /\ i \in Int
  BY ProgramAssumption DEF Text

\* A command or a stop that leaves the tracee where it is
LEMMA WhereStays ==
  ASSUME NEW rank, WhereInv(rank),
         UNCHANGED <<child, rip_now, derailed>>,
         Straight' => Straight /\ Place' = Place,
         child = 0 => pc' \in {"prompt", "exited"},
         child # 0 => proc'[child] # "unborn",
         pc' \in Waiting => (stepping' <=> pc' \in Stepping),
         pc' \in Lifted => addr' \in {0, rip_now},
         moved' => pc' = "prompt" \/ (moved /\ pc # "prompt"),
         Straight' /\ pc' \in {"contOver", "siOver"} => rip_now = Place
  PROVE  WhereInv(rank)'
  BY DEF WhereInv

\* Where it is not waited for, the tracee is at its rip.
LEMMA PlaceAtRest ==
  ASSUME ChildAlive, pc \notin Waiting
  PROVE  Place = tp
  BY DEF Place, Unseen

LEMMA ForwardInit ==
  ASSUME NEW rank, Init
  PROVE  WhereInv(rank) /\ SiInv /\ ReportInv
  BY DEF Init, WhereInv, SiInv, ReportInv, Straight, ChildAlive, Waiting, Lifted, Stepping

\* The debugger's end kills the tracee.
LEMMA ForwardShutdown ==
  ASSUME NEW rank, TypeOK, ProcInv, WhereInv(rank), Shutdown
  PROVE  WhereInv(rank)' /\ SiInv' /\ ReportInv'
<1>1. ~ChildAlive' /\ pc' = "exited" /\ UNCHANGED <<child, rip_now>>
  BY ShutdownKills DEF Shutdown, dbgVars
<1>2. child # 0 => proc'[child] # "unborn"
  BY DEF Shutdown, ExitKilled, WhereInv, TypeOK
<1>3. QED
  BY <1>1, <1>2 DEF WhereInv, SiInv, ReportInv, Straight, Waiting, Lifted, Stepping

\* PTRACE_CONT and PTRACE_SINGLESTEP of a command just typed
LEMMA ForwardResume ==
  ASSUME NEW rank, NEW step \in BOOLEAN, TypeOK, child # 0, WhereInv(rank), Resume(step),
         pc \in Starting \union {"prompt"}, pc' = IF step THEN "siWait" ELSE "contWait"
  PROVE  WhereInv(rank)' /\ SiInv' /\ ReportInv'
<1>1. /\ UNCHANGED <<child, rip_now, derailed, tp>> /\ trap' = 0 /\ moved' = FALSE
      /\ stepping' = step /\ origin' = tp /\ proc' = Resumed(child)
  BY DEF Resume, dbgVars
<1>2. ChildAlive' => ChildAlive
  BY <1>1 DEF ChildAlive, Resumed, Alive, TypeOK, TraceeTypeOK
<1>3. Straight' => Straight /\ Place' = Place /\ Place = tp
  BY <1>1, <1>2 DEF Straight, Place, Unseen, Waiting, Starting
<1>4. child # 0 => proc'[child] # "unborn"
  BY <1>1 DEF Resumed, WhereInv, TypeOK, TraceeTypeOK
<1>5. WhereInv(rank)'
  BY <1>1, <1>3, <1>4, WhereStays DEF Lifted, Stepping
<1>6. QED
  BY <1>1, <1>3, <1>5 DEF WhereInv, SiInv, ReportInv, Stepping

LEMMA ForwardFork ==
  ASSUME NEW rank, Once, TypeOK, WhereInv(rank), NEW p \in Pids, Fork(p),
         pc' \in Starting
  PROVE  WhereInv(rank)' /\ SiInv' /\ ReportInv'
<1>1. child = 0
  <2>1. p = 1 /\ child \in {0, 1} /\ proc[p] = "unborn"
    BY DEF Fork, Once, Pids, TypeOK
  <2>2. QED
    BY <2>1 DEF WhereInv
<1>2. /\ rip_now' = 0 /\ child' = p /\ tp' = Entry /\ trap' = 0 /\ moved' = FALSE
      /\ proc' \in {Stopped(p), Reaped(p)}
  BY <1>1 DEF Fork, WhereInv
<1>3. proc'[p] # "unborn"
  BY <1>2 DEF Stopped, Reaped, TypeOK, TraceeTypeOK
<1>4. Straight' => Place' = Entry /\ Entry \in Insns
  BY <1>2, ProgramAssumption DEF Straight, Place, Unseen
<1>5. QED
  BY <1>2, <1>3, <1>4 DEF WhereInv, SiInv, ReportInv, Starting, Waiting, Lifted, Stepping, Pids

LEMMA ForwardUser ==
  ASSUME NEW rank, Once, TypeOK, ProcInv, WhereInv(rank), SiInv, ReportInv, UserTypes
  PROVE  WhereInv(rank)' /\ SiInv' /\ ReportInv'
<1> USE DEF Typed, TypedRunning
<1>1. CASE LoadFails \/ Quit \/ Interrupt \/ BadArgument \/ GetRegsFails
  BY <1>1, ForwardShutdown DEF LoadFails, Quit, Interrupt, BadArgument, GetRegsFails
<1>2. CASE Start \/ Run
  BY <1>2, ForwardFork DEF Start, Run, Starting
<1>3. CASE Cont \/ Si
  <2>1. child # 0
    BY <1>3 DEF Cont, Si, ProcInv
  <2>2. QED
    BY <1>3, <2>1, ForwardResume DEF Cont, Si
<1>4. CASE (\E f \in Programs : Load(f)) \/ (\E a \in BreakAddrs : Break(a))
           \/ (\E p \in points : Delete(p)) \/ Disasm
  <2>1. /\ UNCHANGED <<child, rip_now, derailed, proc, tp, trap, moved, pc, report>>
        /\ pc = "prompt"
    BY <1>4 DEF Load, Break, Delete, Disasm, traceeVars
  <2>2. (Straight' => Straight) /\ Place' = Place
    BY <2>1 DEF Straight, ChildAlive, Place, Unseen, ChildStopped
  <2>3. WhereInv(rank)'
    BY <2>1, <2>2, WhereStays DEF WhereInv, Waiting, Lifted
  <2>4. QED
    BY <2>1, <2>2, <2>3 DEF SiInv, ReportInv, Stepping
<1>5. ASSUME NEW v \in RipAddrs PROVE ~SetRip(v)
  BY DEF Once, SetRip
<1>6. QED
  BY <1>1, <1>2, <1>3, <1>4, <1>5 DEF UserTypes, OtherCommand

\* A step of a tracee that runs starts where its rip is.
LEMMA PlaceRuns ==
  ASSUME TypeOK, ProcInv, child # 0, proc[child] = "running"
  PROVE  ChildAlive /\ child \in Pids /\ pc \in Waiting /\ Place = tp /\ ~ChildStopped
  BY DEF ProcInv, TypeOK, ChildAlive, Alive, Place, Unseen, ChildStopped

LEMMA ForwardChild ==
  ASSUME NEW rank \in [Insns -> Nat], Ranked(rank),
         TypeOK, ProcInv, WhereInv(rank), SiInv, ReportInv, ChildMoves
  PROVE  WhereInv(rank)' /\ SiInv' /\ ReportInv'
<1>1. /\ child # 0 /\ child \in Pids
      /\ UNCHANGED <<child, rip_now, pc, addr, origin, report, stepping>>
  BY DEF ChildMoves, dbgVars, TypeOK, TraceeStep, Trap, Exec, Derail, Signal, SigKill
<1>2. CASE SigKill(child) \/ Derail(child)
  <2>1. ~Straight' /\ proc'[child] # "unborn"
    <3>1. CASE SigKill(child)
      BY <1>1, <3>1 DEF SigKill, Straight, ChildAlive, Alive, TypeOK, TraceeTypeOK
    <3>2. CASE Derail(child)
      BY <1>1, <3>2 DEF Derail, Stopped, Straight, TypeOK, TraceeTypeOK
    <3>3. QED
      BY <1>2, <3>1, <3>2
  <2>2. QED
    BY <1>1, <2>1 DEF WhereInv, SiInv, ReportInv
<1>3. CASE Trap(child) \/ Signal(child)
  <2>1. /\ proc[child] = "running" /\ proc'[child] = "stopped"
        /\ UNCHANGED <<moved, derailed>>
    BY <1>1, <1>3 DEF Trap, Signal, Stopped, TypeOK, TraceeTypeOK
  <2>2. pc \in Waiting /\ Place = tp /\ ~ChildStopped /\ ChildAlive
    BY <1>1, <2>1, PlaceRuns
  <2>3. Place' = Place
    <3>1. ChildAlive' /\ ChildStopped' /\ pc' \in Waiting
      BY <1>1, <2>1, <2>2 DEF ChildAlive, ChildStopped, Alive
    <3>2. CASE Trap(child)
      <4>1. trap' # 0 /\ tp' = tp + 1 /\ tp \in Int
        BY <3>2 DEF Trap, IsTrap, Text
      <4>2. QED
        BY <2>2, <3>1, <4>1 DEF Place, Unseen
    <3>3. CASE Signal(child)
      BY <2>2, <3>1, <3>3 DEF Signal, Place, Unseen
    <3>4. QED
      BY <1>3, <3>2, <3>3
  <2>4. WhereInv(rank)'
    BY <1>1, <2>1, <2>2, <2>3 DEF WhereInv, Straight
  <2>5. SiInv'
    BY <1>1, <2>1, <2>2, <2>3 DEF SiInv, Straight
  <2>6. QED
    BY <1>1, <2>2, <2>4, <2>5 DEF ReportInv, Waiting
<1>4. CASE Exec(child)
  <2>1. /\ proc[child] = "running" /\ moved' /\ tp \in Insns /\ UNCHANGED derailed
    BY <1>4 DEF Exec, Intact
  <2>2. pc \in Waiting /\ Place = tp /\ ~ChildStopped /\ ChildAlive
    BY <1>1, <2>1, PlaceRuns
  <2>3. PICK n \in Succ[tp] :
          IF n = Exit THEN proc' = [proc EXCEPT ![child] = "exited"]
          ELSE tp' = n /\ trap' = 0 /\ proc' = IF stepping THEN Stopped(child) ELSE proc
    BY <1>4 DEF Exec
  <2>4. proc'[child] # "unborn"
    BY <1>1, <2>1, <2>3 DEF Stopped, TypeOK, TraceeTypeOK
  <2>5. CASE n = Exit
    <3>1. ~Straight'
      BY <1>1, <2>3, <2>5 DEF Straight, ChildAlive, Alive, TypeOK, TraceeTypeOK
    <3>2. QED
      BY <1>1, <2>4, <3>1 DEF WhereInv, SiInv, ReportInv
  <2>6. CASE n # Exit
    <3>1. /\ n \in Insns /\ rank[tp] <= rank[n] /\ (tp \in BreakAddrs => rank[tp] < rank[n])
          /\ rank[tp] \in Nat /\ rank[n] \in Nat
      BY <2>1, <2>6, ProgramAssumption DEF Ranked
    <3>2. Place' = n \/ ~ChildAlive'
      BY <2>3, <2>6 DEF Place, Unseen
    <3>3. Straight' => rip_now = 0 \/ (rip_now \in Insns /\ rank[rip_now] < rank[n])
      <4>1. SUFFICES ASSUME Straight', rip_now # 0
                     PROVE  rip_now \in Insns /\ rank[rip_now] < rank[n]
        OBVIOUS
      <4>2. rip_now = tp \/ (rip_now \in Insns /\ rank[rip_now] < rank[tp])
        BY <2>1, <2>2, <4>1 DEF Straight, WhereInv
      <4>3. rip_now \in BreakAddrs
        BY <4>1 DEF WhereInv
      <4>4. CASE rip_now = tp
        BY <2>1, <3>1, <4>3, <4>4
      <4>5. CASE rip_now \in Insns /\ rank[rip_now] < rank[tp]
        <5>1. rank[rip_now] \in Nat
          BY <4>5
        <5>2. QED
          BY <3>1, <4>5, <5>1
      <4>6. QED
        BY <4>2, <4>4, <4>5
    <3>4. Straight' => rip_now # n
      BY <3>1, <3>3, InsnIsText
    <3>5. WhereInv(rank)'
      BY <1>1, <2>2, <2>4, <3>1, <3>2, <3>3, <3>4 DEF WhereInv, Straight, Waiting
    <3>6. pc \in Stepping \union {"siOver"} => stepping /\ pc \in Stepping
      BY <2>2 DEF WhereInv, Waiting, Stepping
    <3>7. SiInv'
      <4>1. SUFFICES ASSUME Straight', pc \in Stepping \union {"siOver"}
                     PROVE  origin \in Insns /\ ChildStopped' /\ trap' = 0 /\ Place' \in Succ[origin]
        BY <1>1, <2>1 DEF SiInv
      <4>2. proc'[child] = "stopped" /\ trap' = 0
        BY <1>1, <2>3, <2>6, <3>6, <4>1 DEF Stopped, TypeOK, TraceeTypeOK
      <4>3. origin = tp
        BY <2>1, <2>2, <4>1 DEF SiInv, Straight
      <4>4. QED
        BY <1>1, <2>1, <2>6, <3>2, <4>1, <4>2, <4>3 DEF ChildStopped, Straight, Place, Unseen
    <3>8. QED
      BY <1>1, <2>2, <3>5, <3>7 DEF ReportInv, Waiting
  <2>7. QED
    BY <2>5, <2>6
<1>5. QED
  BY <1>2, <1>3, <1>4 DEF ChildMoves, TraceeStep

\* What check_stop() makes of a tracee that is left alive: it is at a break point if and
\* only if an int3 stopped it, and stands there afterwards.
LEMMA CheckStopWhere ==
  ASSUME NEW rank, Once, TypeOK, TrapInv, WhereInv(rank), pc \in Waiting, pc' \notin Waiting,
         NEW ret, CheckStop(ret), CheckStopFrame, Straight'
  PROVE  /\ Straight /\ ChildStopped /\ Place' = Place /\ tp' = Place
         /\ UNCHANGED <<child, proc, state, trap, moved, derailed>>
         /\ trap = Place \/ trap = 0
         /\ ret = -1 => trap = 0 /\ UNCHANGED <<rip_now, bpaddr_now, report>>
         /\ ret = 1 => trap # 0 /\ rip_now = Place /\ UNCHANGED <<rip_now, bpaddr_now, report>>
         /\ ret = 0 => trap # 0 /\ rip_now # Place /\ rip_now' = Place
                         /\ bpaddr_now' = Place /\ report' = Place
         /\ ret \in {-1, 0, 1}
         /\ trap # 0 => Place \in AddrOf(points)
<1>1. /\ Straight /\ ChildStopped /\ ChildAlive /\ UNCHANGED <<child, proc, trap, moved, derailed>>
      /\ proc[child] \notin {"exited", "killed"}
  BY CheckStopAlive DEF Straight, CheckStopFrame, ChildStopped
<1>2. Place' = tp' /\ UNCHANGED state
  <2>1. ChildAlive'
    BY DEF Straight
  <2>2. QED
    BY <1>1, <2>1 DEF Place, Unseen, CheckStop, HitBreak, OtherStop, ChildExited, ChildKilled
<1>3. Place \in Insns
  BY <1>1 DEF WhereInv
<1>4. CASE trap # 0
  <2>1. trap \in AddrOf(points) /\ tp = trap + 1 /\ Place = tp - 1 /\ trap \in Int
    BY <1>1, <1>4 DEF TrapInv, Place, Unseen, TypeOK, TraceeTypeOK, Text
  <2>2. tp - 1 = trap
    BY <2>1
  <2>3. HitBreak(ret)
    BY <1>1, <2>1, <2>2 DEF CheckStop, OtherStop, ChildExited, ChildKilled
  <2>4. PICK p \in points : /\ p.addr = trap /\ Rewind(p) /\ UNCHANGED <<proc, state>>
                            /\ (ret = 1 /\ HitAgain(p)) \/ (ret = 0 /\ HitFirst(p))
    BY <2>2, <2>3 DEF HitBreak
  <2>5. QED
    BY <1>1, <1>2, <1>4, <2>1, <2>2, <2>4 DEF Rewind, HitAgain, HitFirst, SeenBefore
<1>5. CASE trap = 0
  <2>1. Place = tp /\ tp \in Int
    BY <1>1, <1>5 DEF Place, Unseen, TypeOK, TraceeTypeOK
  <2>2. tp - 1 \notin AddrOf(points)
    <3>1. SUFFICES ASSUME NEW p \in points, p.addr = tp - 1 PROVE FALSE
      BY DEF AddrOf
    <3>2. p.addr \in BreakAddrs /\ p.addr + 1 = tp
      BY <2>1, <3>1 DEF TypeOK, Point
    <3>3. QED
      BY <1>3, <2>1, <3>2 DEF Once, Roomy
  <2>3. OtherStop(ret)
    BY <1>1, <2>2 DEF CheckStop, HitBreak, AddrOf, ChildExited, ChildKilled
  <2>4. QED
    BY <1>1, <1>2, <1>5, <2>1, <2>3 DEF OtherStop, hitVars
<1>6. QED
  BY <1>4, <1>5

LEMMA CheckStopBorn ==
  ASSUME NEW rank, TypeOK, WhereInv(rank), NEW ret, CheckStop(ret), CheckStopFrame
  PROVE  /\ child' = child /\ (child # 0 => proc'[child] # "unborn")
         /\ rip_now' \in BreakAddrs \union {0}
<1>1. child' = child /\ (child # 0 => proc'[child] # "unborn")
  BY DEF WhereInv, CheckStop, HitBreak, OtherStop, ChildExited, ChildKilled, CheckStopFrame,
         Reaped, TypeOK, TraceeTypeOK
<1>2. rip_now' = rip_now \/ \E p \in points : rip_now' = p.addr
  BY DEF CheckStop, HitBreak, HitAgain, HitFirst, OtherStop, ChildExited, ChildKilled, hitVars
<1>3. QED
  BY <1>1, <1>2 DEF WhereInv, TypeOK, Point

LEMMA ForwardCheckStop ==
  ASSUME NEW rank, Once, TypeOK, ProcInv, TrapInv, WhereInv(rank), SiInv, ReportInv,
         ContWait \/ SiWait \/ ContWait2 \/ SiWait2
  PROVE  WhereInv(rank)' /\ SiInv' /\ ReportInv'
<1>1. PICK ret \in {-1, 0, 1} :
        /\ CheckStop(ret) /\ CheckStopFrame
        /\ \/ pc' = "prompt"
           \/ pc = "contWait" /\ pc' = "contOver" /\ ret = 1
           \/ pc = "siWait" /\ pc' = "siOver" /\ ret = 1
  BY DEF ContWait, SiWait, ContWait2, SiWait2
<1>2. pc \in Waiting /\ pc' \notin Waiting /\ pc' \notin Lifted /\ pc' \notin Stepping
  BY <1>1 DEF ContWait, SiWait, ContWait2, SiWait2, Waiting, Lifted, Stepping
<1>3. /\ child' = child /\ (child # 0 => proc'[child] # "unborn") /\ UNCHANGED <<trap, moved, derailed>>
      /\ rip_now' \in BreakAddrs \union {0}
  BY <1>1, CheckStopBorn DEF CheckStopFrame
<1>4. child # 0
  BY <1>2 DEF WhereInv, Waiting
<1>5. ASSUME Straight'
      PROVE  /\ Straight /\ Place' = Place /\ tp' = Place /\ ChildStopped
             /\ rip_now' \in {rip_now, Place}
             /\ pc' # "prompt" => rip_now = Place /\ rip_now' = Place
             /\ moved /\ trap # 0 => report' = Place /\ trap = Place
  <2>1. /\ Straight /\ Place' = Place /\ tp' = Place /\ ChildStopped
        /\ rip_now' \in {rip_now, Place}
        /\ pc' # "prompt" => rip_now = Place /\ rip_now' = Place
    BY <1>1, <1>2, <1>5, CheckStopWhere
  <2>2. moved => rip_now # Place
    BY <1>2, <2>1 DEF WhereInv, Waiting
  <2>3. moved /\ trap # 0 => report' = Place /\ trap = Place
    BY <1>1, <1>2, <1>5, <2>2, CheckStopWhere
  <2>4. QED
    BY <2>1, <2>3
<1>6. WhereInv(rank)'
  <2>1. ASSUME Straight' PROVE moved' /\ pc' # "prompt" => rip_now' # Place'
    BY <1>2, <1>3, <1>5, <2>1 DEF WhereInv, Waiting
  <2>2. QED
    BY <1>2, <1>3, <1>4, <1>5, <2>1 DEF WhereInv
<1>7. SiInv'
  <2>1. pc' \in Stepping \union {"siOver"} => pc = "siWait" /\ pc' = "siOver" /\ UNCHANGED origin
    BY <1>1, <1>2 DEF CheckStopFrame, Stepping
  <2>2. Straight' /\ pc' = "siOver" => ~moved
    BY <1>2, <1>5 DEF WhereInv, Waiting
  <2>3. QED
    BY <1>3, <1>5, <2>1, <2>2 DEF SiInv, Stepping
<1>8. ReportInv'
  BY <1>3, <1>5 DEF ReportInv
<1>9. QED
  BY <1>6, <1>7, <1>8

\* The second PTRACE_CONT or PTRACE_SINGLESTEP of a command
LEMMA ForwardOver ==
  ASSUME NEW rank, TypeOK, ProcInv, LiftInv, WhereInv(rank), SiInv, ContOver \/ SiOver
  PROVE  WhereInv(rank)' /\ SiInv' /\ ReportInv'
<1>1. /\ UNCHANGED <<child, rip_now, derailed, tp, trap, moved, origin>>
      /\ proc' = Resumed(child) /\ addr' = bpaddr_now
      /\ \/ pc = "contOver" /\ pc' = "contPeek" /\ stepping' = FALSE
         \/ pc = "siOver" /\ pc' = "siWait2" /\ stepping' = TRUE
  BY DEF ContOver, SiOver
<1>2. (ChildAlive' => ChildAlive) /\ ~(child # 0 /\ ChildStopped')
  BY <1>1 DEF ChildAlive, ChildStopped, Resumed, Alive, TypeOK, TraceeTypeOK
<1>3. Straight' => Straight /\ Place' = Place
  BY <1>1, <1>2 DEF Straight, Place, Unseen, Waiting, ChildAlive
<1>4. child # 0 => proc'[child] # "unborn"
  BY <1>1 DEF Resumed, WhereInv, TypeOK, TraceeTypeOK
<1>5. WhereInv(rank)'
  <2>1. child # 0 /\ (pc' \in Waiting => (stepping' <=> pc' \in Stepping))
    BY <1>1 DEF WhereInv, Stepping
  <2>2. QED
    BY <1>1, <1>3, <1>4, <2>1, WhereStays DEF LiftInv, Lifted
<1>6. Straight' => ~moved
  BY <1>1, <1>3 DEF WhereInv
<1>7. SiInv'
  BY <1>1, <1>3, <1>6 DEF SiInv, Stepping
<1>8. QED
  BY <1>1, <1>5, <1>7 DEF ReportInv

LEMMA ForwardWait ==
  ASSUME NEW rank, Once, TypeOK, ProcInv, LiftInv, TrapInv, WhereInv(rank), SiInv, ReportInv,
         DebuggerWaits
  PROVE  WhereInv(rank)' /\ SiInv' /\ ReportInv'
<1>0. CASE Options
  <2>1. /\ UNCHANGED <<child, rip_now, derailed, proc, tp, trap, moved, report>>
        /\ pc = "options" /\ pc' = "prompt"
    BY <1>0 DEF Options, dbgVars
  <2>2. (Straight' => Straight) /\ Place' = Place
    BY <2>1 DEF Straight, ChildAlive, Place, Unseen, ChildStopped, Waiting
  <2>3. WhereInv(rank)'
    BY <2>1, <2>2, WhereStays DEF WhereInv, Waiting, Lifted
  <2>4. QED
    BY <2>1, <2>2, <2>3 DEF SiInv, ReportInv, Stepping
<1>1. CASE RunCont
  <2>1. child # 0
    BY <1>1 DEF RunCont, WhereInv
  <2>2. QED
    BY <1>1, <2>1, ForwardResume DEF RunCont, Starting
<1>2. CASE ContPeek \/ ContPoke
  <2>1. /\ UNCHANGED <<child, rip_now, derailed, proc, tp, trap, moved, stepping, addr>>
        /\ pc \in {"contPeek", "contPoke"} /\ pc' \in {"contPoke", "contWait2"}
    BY <1>2 DEF ContPeek, ContPoke, traceeVars
  <2>2. (Straight' => Straight) /\ Place' = Place
    BY <2>1 DEF Straight, ChildAlive, Place, Unseen, ChildStopped, Waiting
  <2>3. WhereInv(rank)'
    BY <2>1, <2>2, WhereStays DEF WhereInv, Waiting, Lifted, Stepping
  <2>4. QED
    BY <2>1, <2>3 DEF SiInv, ReportInv, Stepping
<1>3. CASE CheckStopFails
  BY <1>3, ForwardShutdown DEF CheckStopFails
<1>4. QED
  BY <1>0, <1>1, <1>2, <1>3, ForwardCheckStop, ForwardOver DEF DebuggerWaits

LEMMA ForwardStep ==
  ASSUME NEW rank \in [Insns -> Nat], Ranked(rank), Once, TypeOK, ProcInv, TextInv, TrapInv,
         WhereInv(rank), SiInv, ReportInv, [Next]_vars
  PROVE  WhereInv(rank)' /\ SiInv' /\ ReportInv'
<1>1. CASE UNCHANGED vars
  BY <1>1 DEF vars, traceeVars, dbgVars, WhereInv, SiInv, ReportInv, Straight, ChildAlive,
              Place, Unseen, ChildStopped
<1>2. CASE Next
  BY <1>1, <1>2, ForwardUser, ForwardWait, ForwardChild DEF Next, Terminated, TextInv
<1>3. QED
  BY <1>1, <1>2

\* If no loop leads through a break point, the tracee is never again where rip_now is, once it
\* has left there; so rip_now tells the break point just reported from one just come to
\* (hw4.cpp:152, 171-190).
THEOREM ForwardHolds ==
  ASSUME NEW rank \in [Insns -> Nat], Ranked(rank), Once
  PROVE  Spec => [](WhereInv(rank) /\ SiInv /\ ReportInv)
<1>1. Init => WhereInv(rank) /\ SiInv /\ ReportInv
  BY ForwardInit
<1>2. TypeOK /\ ProcInv /\ TextInv /\ TrapInv /\ WhereInv(rank) /\ SiInv /\ ReportInv /\ [Next]_vars
      => WhereInv(rank)' /\ SiInv' /\ ReportInv'
  BY ForwardStep
<1>3. "set" \notin Commands
  BY DEF Once
<1>4. QED
  BY <1>1, <1>2, <1>3, TypeCorrect, ProcHolds, TextInvHolds, TrapHolds, PTL DEF Spec

-----------------------------------------------------------------------------
(* What the user sees.                                                     *)

\* Every int3 that stops a tracee which has moved is reported: check_stop() does not take
\* it for the break point that the tracee was left at (hw4.cpp:171-190).
THEOREM StopsReportedHolds ==
  ASSUME OffLoops, Once PROVE Spec => []StopsReported
<1>1. PICK rank \in [Insns -> Nat] : Ranked(rank)
  BY DEF OffLoops
<1>2. ReportInv => StopsReported
  BY DEF ReportInv, StopsReported, Straight
<1>3. QED
  BY <1>1, <1>2, ForwardHolds, PTL

\* The instruction under a break point does not run unnoticed.
LEMMA NoMissedStep ==
  ASSUME NEW rank \in [Insns -> Nat], Once, TypeOK, ProcInv, ArmedInv, TrapInv, WhereInv(rank),
         ChildMoves, NEW p \in points, tp = p.addr, Intact(tp), moved, ~derailed
  PROVE  FALSE
<1>1. ChildAlive /\ child \in Pids /\ tp \in Insns /\ tp \in Text /\ tp # 0 /\ tp \in Int
  BY ChildKeeps, InsnIsText DEF ChildAlive, TypeOK, Intact
<1>2. mem[tp] # CC
  <2>1. tp \in InsnBytes(tp) /\ Orig[tp] # CC
    BY <1>1, ProgramAssumption DEF InsnBytes
  <2>2. QED
    BY <2>1 DEF Intact
<1>3. pc \in Lifted /\ rip_now = tp
  BY <1>1, <1>2 DEF ArmedInv, WhereInv
<1>4. CASE Unseen
  <2>1. trap \in AddrOf(points) /\ tp = trap + 1
    BY <1>1, <1>4 DEF TrapInv, Unseen
  <2>2. QED
    BY <1>1, <2>1 DEF AddrOf, TypeOK, Point, Once, Roomy
<1>5. CASE ~Unseen
  BY <1>1, <1>3, <1>5 DEF WhereInv, Straight, Place, Lifted
<1>6. QED
  BY <1>4, <1>5

\* The tracee executes the instruction under a listed break point only as the first of a
\* command: cont and si lift no break point but the one where the user was told that the
\* tracee is, and put it back before it can come there again (hw4.cpp:517-525, 539-547).
THEOREM NoMissedHolds ==
  ASSUME OffLoops, Once, Spaced PROVE Spec => NoMissedBreakpoint
<1>1. PICK rank \in [Insns -> Nat] : Ranked(rank)
  BY DEF OffLoops
<1> DEFINE Sees == \A p \in points : ChildMoves /\ tp = p.addr /\ Intact(tp) => ~moved \/ derailed
<1>2. TypeOK /\ ProcInv /\ ArmedInv /\ TrapInv /\ WhereInv(rank) => Sees
  BY NoMissedStep
<1>3. "set" \notin Commands
  BY DEF Once
<1>4. QED
  BY <1>1, <1>2, <1>3, ForwardHolds, TypeCorrect, ProcHolds, ArmedInvHolds, TrapHolds, PTL
     DEF NoMissedBreakpoint

LEMMA SiStep ==
  ASSUME NEW rank, Once, TypeOK, TrapInv, WhereInv(rank), SiInv, [Next]_vars,
         SiEnds, ~derailed, moved
  PROVE  tp' \in Succ[origin]
<1>1. child # 0 /\ pc \in Stepping /\ pc \in Waiting /\ pc' \notin Waiting
  BY DEF SiEnds, WhereInv, Stepping, Waiting
<1>2. SiWait \/ SiWait2
  BY <1>1 DEF SiEnds, Next, UserTypes, OtherCommand, Typed, TypedRunning, Load, LoadFails, Start,
     Run, Quit, Interrupt, BadArgument, GetRegsFails, Break, Delete, SetRip, Disasm, Cont, Si,
     DebuggerWaits, Options, RunCont, ContWait, ContOver, ContPeek, ContPoke, ContWait2, SiOver, CheckStopFails,
     Shutdown, ChildMoves, Terminated, vars, Stepping
<1>3. PICK ret \in {-1, 0, 1} : CheckStop(ret) /\ CheckStopFrame
  BY <1>2 DEF SiWait, SiWait2
<1>4. Straight'
  BY <1>1, <1>3 DEF SiEnds, Straight, ChildAlive, ChildStopped, Alive, CheckStopFrame
<1>5. tp' = Place /\ Straight
  BY <1>1, <1>3, <1>4, CheckStopWhere
<1>6. QED
  BY <1>1, <1>5 DEF SiInv

\* A si that moved the tracee hands it back behind one instruction, whether it had a break
\* point to step over, found one there, or neither (hw4.cpp:533-551).
THEOREM SiAdvancesHolds ==
  ASSUME OffLoops, Once PROVE Spec => SiAdvances
<1>1. PICK rank \in [Insns -> Nat] : Ranked(rank)
  BY DEF OffLoops
<1>2. TypeOK /\ TrapInv /\ WhereInv(rank) /\ SiInv /\ [Next]_vars
      => [SiEnds /\ ~derailed /\ moved => tp' \in Succ[origin]]_vars
  BY SiStep
<1>3. "set" \notin Commands
  BY DEF Once
<1>4. QED
  BY <1>1, <1>2, <1>3, ForwardHolds, TypeCorrect, TrapHolds, PTL DEF SiAdvances, Spec

-----------------------------------------------------------------------------
(* Nothing stops the tracee but an int3 or a single step.                  *)

Calm == Undisturbed /\ "signal" \notin Environment /\ "interrupt" \notin Commands

\* An int3 stops the tracee where it is.
LEMMA TrapStays ==
  ASSUME TypeOK, ProcInv, ChildMoves, Trap(child)
  PROVE  /\ ChildAlive /\ ChildAlive' /\ Place' = Place /\ Place = tp /\ ChildStopped' /\ trap' # 0
         /\ UNCHANGED <<state, child, points, rip_now, bpaddr_now, pc, moved, derailed>>
<1>1. /\ proc[child] = "running" /\ child # 0 /\ child \in Pids /\ trap' # 0 /\ tp' = tp + 1 /\ tp \in Int
      /\ UNCHANGED <<state, child, points, rip_now, bpaddr_now, pc, moved, derailed>>
  BY DEF ChildMoves, TypeOK, Trap, IsTrap, Text, dbgVars
<1>2. ChildStopped' /\ ChildAlive'
  BY <1>1 DEF Trap, Stopped, ChildStopped, ChildAlive, Alive, TypeOK, TraceeTypeOK
<1>3. Place = tp /\ ChildAlive /\ pc \in Waiting
  BY <1>1, PlaceRuns
<1>4. Place' = tp
  BY <1>1, <1>2, <1>3 DEF Place, Unseen
<1>5. QED
  BY <1>1, <1>2, <1>3, <1>4

LEMMA PinChild ==
  ASSUME NEW rank, Calm, TypeOK, ProcInv, WhereInv(rank), WhereInv(rank)', PinInv, ChildMoves
  PROVE  PinInv'
<1>1. child # 0 /\ child \in Pids /\ UNCHANGED <<child, rip_now, bpaddr_now, pc, stepping>>
  BY DEF ChildMoves, dbgVars, TypeOK, TraceeStep, Trap, Exec, Derail, Signal, SigKill
<1>2. CASE Trap(child)
  BY <1>2, TrapStays DEF PinInv, Straight, Trap
<1>3. CASE Exec(child)
  <2>1. SUFFICES ASSUME Straight' PROVE PinInv'
    BY DEF PinInv
  <2>2. moved' /\ pc \in Waiting /\ rip_now' # Place'
    <3>1. moved' /\ proc[child] = "running"
      BY <1>3 DEF Exec
    <3>2. pc \in Waiting
      BY <1>1, <3>1, PlaceRuns
    <3>3. QED
      BY <1>1, <2>1, <3>1, <3>2 DEF WhereInv, Waiting
  <2>3. ChildStopped' => pc \in Stepping
    BY <1>1, <1>3, <2>2 DEF Exec, Stopped, ChildStopped, WhereInv, TypeOK, TraceeTypeOK
  <2>4. QED
    BY <1>1, <2>2, <2>3 DEF PinInv
<1>4. CASE Derail(child)
  BY <1>4 DEF Derail, PinInv, Straight
<1>5. QED
  BY <1>2, <1>3, <1>4 DEF ChildMoves, TraceeStep, Calm, Undisturbed, Signal, SigKill

LEMMA PinUser ==
  ASSUME NEW rank, Once, TypeOK, ProcInv, WhereInv(rank), WhereInv(rank)', PinInv, UserTypes
  PROVE  PinInv'
<1> USE DEF Typed, TypedRunning
<1>1. CASE LoadFails \/ Quit \/ Interrupt \/ BadArgument \/ GetRegsFails
  BY <1>1, ShutdownKills DEF LoadFails, Quit, Interrupt, BadArgument, GetRegsFails, PinInv, Straight
<1>2. CASE Start \/ Run
  <2>1. PICK p \in Pids : Fork(p) /\ pc' \in Starting
    BY <1>2 DEF Start, Run, Starting
  <2>2. child = 0
    BY <2>1 DEF Fork, Once, Pids, TypeOK, WhereInv
  <2>3. rip_now' = 0 /\ (Straight' => Place' # 0)
    BY <2>1, <2>2, InsnIsText DEF Fork, WhereInv
  <2>4. QED
    BY <2>1, <2>3 DEF PinInv, Starting, Waiting, Lifted
<1>3. CASE Cont \/ Si
  <2>1. /\ UNCHANGED <<child, rip_now, bpaddr_now, derailed, tp>> /\ proc' = Resumed(child)
        /\ pc = "prompt" /\ pc' \notin Lifted
    BY <1>3 DEF Cont, Si, Resume, dbgVars, Lifted
  <2>2. (Straight' => Straight /\ Place' = Place) /\ ~(ChildAlive' /\ ChildStopped')
    BY <2>1 DEF Resumed, Straight, ChildAlive, ChildStopped, Alive, Place, Unseen, Waiting,
       TypeOK, TraceeTypeOK
  <2>3. QED
    BY <2>1, <2>2 DEF PinInv, Straight, Lifted
<1>4. CASE (\E f \in Programs : Load(f)) \/ (\E a \in BreakAddrs : Break(a))
           \/ (\E p \in points : Delete(p)) \/ Disasm
  <2>1. /\ UNCHANGED <<child, rip_now, bpaddr_now, derailed, proc, tp, trap, moved, pc>>
        /\ pc = "prompt"
    BY <1>4 DEF Load, Break, Delete, Disasm, traceeVars
  <2>2. Straight' = Straight /\ Place' = Place
    BY <2>1 DEF Straight, ChildAlive, Place, Unseen, ChildStopped
  <2>3. QED
    BY <2>1, <2>2 DEF PinInv, Waiting, Lifted
<1>5. ASSUME NEW v \in RipAddrs PROVE ~SetRip(v)
  BY DEF Once, SetRip
<1>6. QED
  BY <1>1, <1>2, <1>3, <1>4, <1>5 DEF UserTypes, OtherCommand

LEMMA PinCheckStop ==
  ASSUME NEW rank, Once, TypeOK, TrapInv, WhereInv(rank), PinInv,
         ContWait \/ SiWait \/ ContWait2 \/ SiWait2
  PROVE  PinInv'
<1>1. PICK ret \in {-1, 0, 1} : CheckStop(ret) /\ CheckStopFrame
  BY DEF ContWait, SiWait, ContWait2, SiWait2
<1>2. pc \in Waiting /\ pc' \notin Waiting /\ pc' \notin Lifted
  BY DEF ContWait, SiWait, ContWait2, SiWait2, Waiting, Lifted
<1>3. SUFFICES ASSUME Straight' PROVE rip_now' = Place' => bpaddr_now' = rip_now'
  BY <1>2 DEF PinInv
<1>4. /\ Straight /\ ChildStopped /\ Place' = Place /\ ret \in {-1, 0, 1}
      /\ ret = -1 => trap = 0 /\ UNCHANGED <<rip_now, bpaddr_now>>
      /\ ret = 1 => trap # 0 /\ rip_now = Place /\ UNCHANGED <<rip_now, bpaddr_now>>
      /\ ret = 0 => rip_now' = Place /\ bpaddr_now' = Place
  BY <1>1, <1>2, <1>3, CheckStopWhere
<1>5. CASE ret = -1
  <2>1. moved /\ rip_now # Place
    BY <1>2, <1>4, <1>5 DEF PinInv, WhereInv, Waiting
  <2>2. QED
    BY <1>4, <1>5, <2>1
<1>6. CASE ret = 1
  <2>1. pc \notin Lifted
    BY <1>4, <1>6 DEF PinInv, ChildStopped
  <2>2. QED
    BY <1>4, <1>6, <2>1 DEF PinInv
<1>7. QED
  BY <1>4, <1>5, <1>6

\* The byte that is put back is no int3.
LEMMA PinOver ==
  ASSUME NEW rank, TypeOK, ProcInv, TextInv, WhereInv(rank), PinInv, ContOver \/ SiOver
  PROVE  PinInv'
<1>1. /\ UNCHANGED <<child, rip_now, derailed, tp>> /\ proc' = Resumed(child)
      /\ ReplaceByte(bpaddr_now, restore) /\ pc \in {"contOver", "siOver"}
      /\ pc \notin Waiting /\ pc \notin Lifted /\ pc' \in Lifted
  BY DEF ContOver, SiOver, Waiting, Lifted
<1>2. SUFFICES ASSUME Straight'
               PROVE  proc'[child] = "running" /\ ~IsTrap(tp)'
  BY <1>1 DEF PinInv, ChildStopped
<1>3. ChildAlive /\ Straight /\ child \in Pids
  BY <1>1, <1>2 DEF Straight, ChildAlive, Resumed, Alive, TypeOK, TraceeTypeOK
<1>4. ChildStopped /\ Place = tp /\ rip_now = tp /\ bpaddr_now = tp /\ tp \in Insns
  BY <1>1, <1>3, AliveIsStopped, PlaceAtRest DEF WhereInv, PinInv
<1>5. tp \in Text /\ mem'[tp] = restore
  <2>1. tp \in Text
    BY <1>4, InsnIsText
  <2>2. CanPoke(child, tp)
    BY <1>4, <2>1 DEF CanPoke, ChildStopped
  <2>3. QED
    BY <1>1, <1>4, <2>1, <2>2, ReplaceEffect
<1>6. restore # CC
  <2>1. PICK p \in points : p.addr = tp /\ p.ori = restore
    BY <1>1, <1>4 DEF TextInv, LiftInv
  <2>2. restore = Orig[tp] \/ restore = FF
    BY <1>3, <1>5, <2>1 DEF TextInv, OriTrue
  <2>3. QED
    BY <1>5, <2>2, ProgramAssumption DEF CC, FF
<1>7. QED
  BY <1>1, <1>3, <1>4, <1>5, <1>6 DEF IsTrap, Resumed, ChildStopped, TypeOK, TraceeTypeOK

LEMMA PinWait ==
  ASSUME NEW rank, Once, TypeOK, ProcInv, TextInv, TrapInv, WhereInv(rank), PinInv, DebuggerWaits
  PROVE  PinInv'
<1>0. CASE Options
  <2>1. /\ UNCHANGED <<child, rip_now, bpaddr_now, derailed, proc, tp, trap, moved>>
        /\ pc = "options" /\ pc' = "prompt"
    BY <1>0 DEF Options, dbgVars
  <2>2. Straight' = Straight /\ Place' = Place
    BY <2>1 DEF Straight, ChildAlive, Place, Unseen, ChildStopped, Waiting
  <2>3. QED
    BY <2>1, <2>2 DEF PinInv, Waiting, Lifted
<1>1. CASE RunCont
  <2>1. /\ UNCHANGED <<child, rip_now, bpaddr_now, derailed, tp>> /\ proc' = Resumed(child)
        /\ pc = "runCont" /\ pc' \notin Lifted
    BY <1>1 DEF RunCont, Resume, dbgVars, Lifted
  <2>2. (Straight' => Straight /\ Place' = Place) /\ ~(ChildAlive' /\ ChildStopped')
    BY <2>1 DEF Resumed, Straight, ChildAlive, ChildStopped, Alive, Place, Unseen, Waiting,
       TypeOK, TraceeTypeOK
  <2>3. QED
    BY <2>1, <2>2 DEF PinInv, Straight, Lifted
<1>2. CASE ContPeek \/ ContPoke
  <2>1. /\ UNCHANGED <<child, rip_now, derailed, proc, tp, trap, moved>>
        /\ pc \in Lifted /\ pc' \in Lifted /\ pc \in Waiting /\ pc' \in Waiting
        /\ pc \notin Stepping /\ pc' \notin Stepping
        /\ mem' = mem \/ proc[child] = "stopped"
    BY <1>2 DEF ContPeek, ContPoke, traceeVars, Lifted, Waiting, Stepping, CanPoke
  <2>2. Straight' = Straight /\ Place' = Place
    BY <2>1 DEF Straight, ChildAlive, Place, Unseen, ChildStopped
  <2>3. QED
    BY <2>1, <2>2 DEF PinInv, ChildStopped, IsTrap
<1>3. CASE CheckStopFails
  BY <1>3, ShutdownKills DEF CheckStopFails, PinInv, Straight
<1>4. QED
  BY <1>0, <1>1, <1>2, <1>3, PinCheckStop, PinOver DEF DebuggerWaits

LEMMA PinStep ==
  ASSUME NEW rank, Once, Calm, TypeOK, ProcInv, TextInv, TrapInv, WhereInv(rank), WhereInv(rank)',
         PinInv, [Next]_vars
  PROVE  PinInv'
<1>1. CASE UNCHANGED vars
  BY <1>1 DEF vars, traceeVars, dbgVars, PinInv, Straight, ChildAlive, Place, Unseen,
              ChildStopped, IsTrap
<1>2. CASE Next
  BY <1>1, <1>2, PinUser, PinWait, PinChild DEF Next, Terminated
<1>3. QED
  BY <1>1, <1>2

\* Until it is told to go on, and as long as no signal comes, nothing but a break point or
\* the end of a single step stops the tracee, and it leaves the break point where it was
\* reported without meeting the 0xcc there again (hw4.cpp:517-528, 539-549).
THEOREM PinHolds ==
  ASSUME NEW rank \in [Insns -> Nat], Ranked(rank), Once, Calm
  PROVE  Spec => []PinInv
<1>1. Init => PinInv
  BY DEF Init, PinInv, Straight, ChildAlive
<1>2. /\ TypeOK /\ ProcInv /\ TextInv /\ TrapInv /\ WhereInv(rank) /\ WhereInv(rank)' /\ PinInv
      /\ [Next]_vars
      => PinInv'
  BY PinStep
<1>3. "set" \notin Commands
  BY DEF Once
<1>4. QED
  BY <1>1, <1>2, <1>3, ForwardHolds, TypeCorrect, ProcHolds, TextInvHolds, TrapHolds, PTL DEF Spec

-----------------------------------------------------------------------------
(* The bytes that disasm shows are those of the program that runs.         *)

LEMMA CodeUser ==
  ASSUME NEW rank, Once, TypeOK, ProcInv, WhereInv(rank), CodeInv, UserTypes
  PROVE  CodeInv'
<1> USE DEF CodeInv, Typed, TypedRunning
<1>1. CASE \E f \in Programs : Load(f)
  BY <1>1 DEF Load
<1>2. CASE Start \/ Run
  <2>1. PICK p \in Pids : Fork(p)
    BY <1>2 DEF Start, Run
  <2>2. child = 0 /\ UNCHANGED code
    BY <2>1 DEF Fork, Once, Pids, TypeOK, WhereInv
  <2>3. QED
    BY <2>2
<1>3. CASE Disasm
  BY <1>3 DEF Disasm, ProcInv
<1>4. CASE OtherCommand /\ ~Start /\ ~Run /\ ~Disasm
  <2>1. UNCHANGED <<child, code, state, program>>
    BY <1>4 DEF OtherCommand, LoadFails, Quit, Interrupt, BadArgument, GetRegsFails, Shutdown,
       Break, Delete, SetRip, Cont, Si, Resume, dbgVars
  <2>2. QED
    BY <2>1
<1>5. QED
  BY <1>1, <1>2, <1>3, <1>4 DEF UserTypes

LEMMA CodeWait ==
  ASSUME NEW rank, TypeOK, WhereInv(rank), CodeInv, DebuggerWaits
  PROVE  CodeInv'
<1>1. CASE ContWait \/ SiWait \/ ContWait2 \/ SiWait2
  <2>1. PICK ret \in {-1, 0, 1} : CheckStop(ret) /\ CheckStopFrame
    BY <1>1 DEF ContWait, SiWait, ContWait2, SiWait2
  <2>2. child # 0 /\ UNCHANGED <<child, program>>
    BY <1>1, <2>1 DEF ContWait, SiWait, ContWait2, SiWait2, CheckStopFrame, WhereInv
  <2>3. code' \in {code, program} /\ state' \in {state, "LOADED"}
    BY <2>1 DEF CheckStop, HitBreak, HitAgain, HitFirst, OtherStop, ChildExited,
       ChildKilled, hitVars
  <2>4. QED
    BY <2>2, <2>3 DEF CodeInv
<1>2. CASE ~(ContWait \/ SiWait \/ ContWait2 \/ SiWait2)
  <2>1. UNCHANGED <<child, code, state, program>>
    BY <1>2 DEF DebuggerWaits, Options, RunCont, Resume, ContOver, ContPeek, ContPoke, SiOver,
       CheckStopFails, Shutdown, dbgVars
  <2>2. QED
    BY <2>1 DEF CodeInv
<1>3. QED
  BY <1>1, <1>2

\* What getcode() read, once, is the program that runs, if there is one start only
\* (hw4.cpp:98-108, 437).
THEOREM CodeHolds ==
  ASSUME NEW rank \in [Insns -> Nat], Ranked(rank), Once
  PROVE  Spec => []CodeInv
<1>1. Init => CodeInv
  BY DEF Init, CodeInv
<1>2. TypeOK /\ ProcInv /\ WhereInv(rank) /\ CodeInv /\ [Next]_vars => CodeInv'
  <2>1. CASE ChildMoves \/ UNCHANGED vars
    BY <2>1 DEF ChildMoves, vars, dbgVars, CodeInv
  <2>2. QED
    BY <2>1, CodeUser, CodeWait DEF Next, Terminated
<1>3. "set" \notin Commands
  BY DEF Once
<1>4. QED
  BY <1>1, <1>2, <1>3, ForwardHolds, TypeCorrect, ProcHolds, PTL DEF Spec

-----------------------------------------------------------------------------
(* The debugger implements module Debugger, step by step.                  *)

\* What the mapped variables are, before and after a step
LEMMA BusyIs ==
  /\ pc \in {"prompt", "options", "exited"} => Busy = "no"
  /\ pc \in {"runCont", "contWait", "contOver", "contPeek", "contPoke", "contWait2"} => Busy = "cont"
  /\ pc \in {"siWait", "siOver", "siWait2"} => Busy = IF moved THEN "done" ELSE "si"
  BY DEF Busy

LEMMA BusyWillBe ==
  /\ pc' \in {"prompt", "options", "exited"} => Busy' = "no"
  /\ pc' \in {"runCont", "contWait", "contOver", "contPeek", "contPoke", "contWait2"} => Busy' = "cont"
  /\ pc' \in {"siWait", "siOver", "siWait2"} => Busy' = IF moved' THEN "done" ELSE "si"
  BY DEF Busy

LEMMA SessionIs ==
  /\ pc # "exited" => Session = CASE state = "OTHERS" -> "none"
                                  [] state = "LOADED" -> "loaded"
                                  [] OTHER -> "running"
  /\ pc' # "exited" => Session' = CASE state' = "OTHERS" -> "none"
                                    [] state' = "LOADED" -> "loaded"
                                    [] OTHER -> "running"
  /\ pc' = "exited" => Session' = "over"
  BY DEF Session

\* A step that the user does not see
LEMMA Hidden ==
  ASSUME UNCHANGED <<state, points, rip_now>>, pc # "exited", pc' # "exited",
         Place' = Place, Busy' = Busy
  PROVE  UNCHANGED User!vars
<1>1. Session' = Session /\ AddrOf(points)' = AddrOf(points) /\ Told' = Told
  BY SessionIs DEF AddrOf, Told
<1>2. QED
  BY <1>1 DEF User!vars

LEMMA UserLoad ==
  ASSUME NEW f \in Programs, TypeOK, Load(f)
  PROVE  User!Load
<1>1. /\ pc = "prompt" /\ pc' = "prompt" /\ state # "LOADED" /\ state' = "LOADED"
      /\ UNCHANGED <<points, rip_now, child, proc, tp, trap>>
  BY DEF Load, Typed, traceeVars
<1>2. Session \in {"none", "running"} /\ Session' = "loaded" /\ Busy = "no" /\ Busy' = "no"
  BY <1>1, SessionIs, BusyIs, BusyWillBe DEF TypeOK
<1>3. Place' = Place /\ AddrOf(points)' = AddrOf(points)
  BY <1>1 DEF Place, Unseen, ChildAlive, ChildStopped, Waiting, AddrOf
<1>4. Told' = Told
  BY <1>1, <1>3 DEF Told
<1>5. QED
  BY <1>2, <1>3, <1>4 DEF User!Load

LEMMA UserQuit ==
  ASSUME TypeOK, ProcInv, pc = "prompt", Shutdown
  PROVE  User!Quit
<1>1. ~ChildAlive' /\ pc' = "exited" /\ UNCHANGED points
  BY ShutdownKills DEF Shutdown, dbgVars
<1>2. Session # "over" /\ Session' = "over" /\ Busy = "no" /\ Busy' = "no"
  BY <1>1, SessionIs, BusyIs, BusyWillBe DEF TypeOK
<1>3. Place' = 0 /\ AddrOf(points)' = AddrOf(points)
  BY <1>1 DEF Place, AddrOf
<1>4. Told' = FALSE
  BY <1>3 DEF Told
<1>5. QED
  BY <1>2, <1>3, <1>4 DEF User!Quit, User!Nowhere

LEMMA UserStart ==
  ASSUME NEW rank, Once, Calm, TypeOK, WhereInv(rank), Start \/ Run
  PROVE  User!Start
<1>1. PICK p \in Pids : /\ Fork(p) /\ pc' \in Starting
                        /\ pc = "prompt" /\ state \in {"LOADED", "RUNNING"}
  BY DEF Start, Run, Starting, Typed
<1>2. rip_now' = 0 /\ points' = {} /\ state' = "RUNNING"
  BY <1>1 DEF Fork, Once, Pids, TypeOK, WhereInv
<1>3. Place' = Entry
  <2>1. child' = p /\ proc' = Stopped(p) /\ tp' = Entry /\ trap' = 0
    BY <1>1 DEF Fork, Calm, Undisturbed
  <2>2. proc'[p] = "stopped" /\ p # 0
    BY <2>1 DEF Stopped, TypeOK, TraceeTypeOK, Pids
  <2>3. QED
    BY <2>1, <2>2 DEF Place, ChildAlive, Alive, Unseen
<1>4. Entry # 0
  BY ProgramAssumption, InsnIsText
<1>5. Session \in {"loaded", "running"} /\ Session' = "running" /\ Busy = "no" /\ Busy' \in {"no", "cont"}
  BY <1>1, <1>2, SessionIs, BusyIs, BusyWillBe DEF Starting
<1>6. AddrOf(points)' = {} /\ Told' = FALSE
  BY <1>2, <1>3, <1>4 DEF AddrOf, Told
<1>7. QED
  BY <1>3, <1>5, <1>6 DEF User!Start

\* break and delete: the user's break points are those of the list.
LEMMA UserBreaks ==
  ASSUME TypeOK, ArmedInv,
         (\E a \in BreakAddrs : Break(a)) \/ (\E p \in points : Delete(p))
  PROVE  User!Break \/ User!Delete
<1>1. /\ pc = "prompt" /\ pc' = "prompt" /\ state = "RUNNING" /\ state' = "RUNNING"
      /\ UNCHANGED <<rip_now, child, proc, tp, trap>>
  BY DEF Break, Delete, TypedRunning, Typed
<1>2. Session = "running" /\ Session' = "running" /\ Busy = "no" /\ Busy' = "no"
  BY <1>1, SessionIs, BusyIs, BusyWillBe
<1>3. Place' = Place
  BY <1>1 DEF Place, Unseen, ChildAlive, ChildStopped, Waiting
<1>4. Told' = Told
  BY <1>1, <1>3 DEF Told
<1>5. ASSUME NEW a \in BreakAddrs, Break(a)
      PROVE  User!Break
  <2>1. AddrOf(points)' = AddrOf(points) \union {a}
    <3>1. CASE a \in AddrOf(points)
      BY <1>5, <3>1 DEF Break, AddrOf
    <3>2. CASE a \notin AddrOf(points)
      <4> DEFINE new == [id |-> bpid, addr |-> a, ori |-> OldByte(a)]
      <4>1. points' = points \union {new} /\ new.addr = a
        BY <1>5, <3>2 DEF Break
      <4> HIDE DEF new
      <4>2. QED
        BY <4>1 DEF AddrOf
    <3>3. QED
      BY <3>1, <3>2
  <2>2. QED
    BY <1>2, <1>3, <1>4, <2>1 DEF User!Break
<1>6. ASSUME NEW p \in points, Delete(p)
      PROVE  User!Delete
  <2>1. points' = points \ {p} /\ \A q \in points : q.addr = p.addr => q = p
    BY <1>6 DEF Delete, ArmedInv
  <2>2. AddrOf(points)' = AddrOf(points) \ {p.addr} /\ p.addr \in AddrOf(points)
    BY <2>1 DEF AddrOf
  <2>3. QED
    BY <1>2, <1>3, <1>4, <2>2 DEF User!Delete
<1>7. QED
  BY <1>5, <1>6

\* The tracee that a command resumes is where it was.
LEMMA ResumedPlace ==
  ASSUME TypeOK, child # 0, ChildStopped, pc \notin Waiting, proc' = Resumed(child),
         UNCHANGED <<child, tp>>
  PROVE  Place' = Place /\ Place = tp
<1>1. proc'[child] = "running"
  BY DEF ChildStopped, Resumed, TypeOK, TraceeTypeOK
<1>2. QED
  BY <1>1 DEF Place, ChildAlive, ChildStopped, Alive, Unseen

LEMMA UserResume ==
  ASSUME TypeOK, AliveInv, Cont \/ Si
  PROVE  User!Resume
<1>1. /\ pc = "prompt" /\ state = "RUNNING" /\ UNCHANGED <<state, points, rip_now, child, tp>>
      /\ proc' = Resumed(child) /\ moved' = FALSE /\ pc' \in {"contWait", "siWait"}
  BY DEF Cont, Si, Resume, dbgVars, TypedRunning, Typed
<1>2. child # 0 /\ ChildStopped
  BY <1>1 DEF AliveInv
<1>3. Place' = Place /\ AddrOf(points)' = AddrOf(points)
  BY <1>1, <1>2, ResumedPlace DEF Waiting, AddrOf
<1>4. Session = "running" /\ Session' = "running" /\ Busy = "no" /\ Busy' \in {"cont", "si"}
  BY <1>1, SessionIs, BusyIs, BusyWillBe
<1>5. Told' = Told
  BY <1>1, <1>3 DEF Told
<1>6. QED
  BY <1>3, <1>4, <1>5 DEF User!Resume

\* The second PTRACE_CONT or PTRACE_SINGLESTEP of a command, the replace_byte() behind it,
\* and the cont() of run() are not seen.
LEMMA UserOver ==
  ASSUME TypeOK, AliveInv, RunCont \/ ContOver \/ SiOver
  PROVE  UNCHANGED User!vars
<1>1. /\ UNCHANGED <<state, points, rip_now, child, tp>> /\ proc' = Resumed(child)
      /\ \/ pc = "runCont" /\ pc' = "contWait"
         \/ pc = "contOver" /\ pc' = "contPeek"
         \/ pc = "siOver" /\ pc' = "siWait2" /\ UNCHANGED moved
  BY DEF RunCont, Resume, dbgVars, ContOver, SiOver
<1>2. child # 0 /\ ChildStopped /\ pc \notin Waiting
  BY <1>1 DEF AliveInv, Starting, Waiting
<1>3. Place' = Place
  BY <1>1, <1>2, ResumedPlace
<1>4. Busy' = Busy
  BY <1>1, BusyIs, BusyWillBe
<1>5. QED
  BY <1>1, <1>3, <1>4, Hidden

LEMMA UserOptions ==
  ASSUME Options
  PROVE  UNCHANGED User!vars
<1>1. /\ UNCHANGED <<state, points, rip_now, child, tp, proc, trap>>
      /\ pc = "options" /\ pc' = "prompt"
  BY DEF Options, dbgVars
<1>2. Place' = Place
  BY <1>1 DEF Place, Unseen, ChildAlive, ChildStopped, Waiting
<1>3. Busy' = Busy
  BY <1>1, BusyIs, BusyWillBe
<1>4. QED
  BY <1>1, <1>2, <1>3, Hidden

LEMMA UserPeekPoke ==
  ASSUME ContPeek \/ ContPoke
  PROVE  UNCHANGED User!vars
<1>1. /\ UNCHANGED <<state, points, rip_now, child, tp, proc, trap>>
      /\ pc \in {"contPeek", "contPoke"} /\ pc' \in {"contPoke", "contWait2"}
  BY DEF ContPeek, ContPoke, traceeVars
<1>2. Place' = Place
  BY <1>1 DEF Place, Unseen, ChildAlive, ChildStopped, Waiting
<1>3. Busy' = Busy
  BY <1>1, BusyIs, BusyWillBe
<1>4. QED
  BY <1>1, <1>2, <1>3, Hidden

\* waitpid() reports the end of the tracee.
LEMMA UserExited ==
  ASSUME TypeOK, pc \in Waiting, pc' = "prompt", state = "RUNNING",
         child # 0, NEW ret, ChildExited(ret), CheckStopFrame
  PROVE  User!Return
<1>1. /\ ~ChildAlive /\ ~ChildAlive' /\ state' = "LOADED" /\ UNCHANGED <<points, rip_now>>
  BY DEF ChildExited, CheckStopFrame, hitVars, ChildAlive, Alive, Reaped, TypeOK, TraceeTypeOK
<1>2. Place = 0 /\ Place' = 0 /\ AddrOf(points)' = AddrOf(points)
  BY <1>1 DEF Place, AddrOf
<1>3. Session' = "loaded" /\ Busy # "no" /\ Busy' = "no"
  BY <1>1, SessionIs, BusyIs, BusyWillBe DEF Waiting
<1>4. Told' = Told
  BY <1>2 DEF Told
<1>5. QED
  BY <1>2, <1>3, <1>4 DEF User!Return, User!Nowhere

LEMMA UserCheckStop ==
  ASSUME NEW rank, Once, TypeOK, AliveInv, TrapInv, WhereInv(rank), SiInv, PinInv, ~derailed,
         ContWait \/ SiWait \/ ContWait2 \/ SiWait2
  PROVE  User!Stop \/ User!Return \/ UNCHANGED User!vars
<1>1. PICK ret \in {-1, 0, 1} :
        /\ CheckStop(ret) /\ CheckStopFrame
        /\ \/ pc' = "prompt" /\ (ret = 1 => pc \in {"contWait2", "siWait2"})
           \/ pc = "contWait" /\ pc' = "contOver" /\ ret = 1
           \/ pc = "siWait" /\ pc' = "siOver" /\ ret = 1
  BY DEF ContWait, SiWait, ContWait2, SiWait2
<1>2. pc \in Waiting /\ pc' \notin Waiting /\ pc' # "exited" /\ pc # "exited"
  BY <1>1 DEF ContWait, SiWait, ContWait2, SiWait2, Waiting
<1>3. child # 0 /\ state = "RUNNING" /\ proc[child] \in {"running", "stopped", "exited"}
  BY <1>2 DEF AliveInv, Waiting
<1>4. CASE ChildExited(ret)
  BY <1>1, <1>2, <1>3, <1>4, UserExited DEF ChildExited
<1>5. CASE HitBreak(ret) \/ OtherStop(ret)
  <2>1. Straight'
    BY <1>1, <1>3, <1>5 DEF HitBreak, OtherStop, CheckStopFrame, Straight, ChildAlive, ChildStopped, Alive
  <2>2. /\ Straight /\ ChildStopped /\ Place' = Place /\ UNCHANGED <<state, points, moved>>
        /\ ret = -1 => trap = 0 /\ UNCHANGED rip_now
        /\ ret = 1 => trap # 0 /\ rip_now = Place /\ UNCHANGED rip_now
        /\ ret = 0 => trap # 0 /\ rip_now # Place /\ rip_now' = Place
        /\ trap # 0 => Place \in AddrOf(points)
    BY <1>1, <1>2, <2>1, CheckStopWhere DEF CheckStopFrame
  <2>3. Place # 0 /\ AddrOf(points)' = AddrOf(points) /\ Session' = Session
    BY <1>2, <2>2, InsnIsText, SessionIs DEF WhereInv, AddrOf
  <2>4. CASE ret = 0
    <3>1. Busy \in {"cont", "si"} /\ Busy' = "no"
      BY <1>1, <1>2, <2>2, <2>4, BusyIs, BusyWillBe DEF SiInv, Waiting, Stepping
    <3>2. Told = FALSE /\ Told' = TRUE
      BY <2>2, <2>3, <2>4 DEF Told
    <3>3. QED
      BY <2>2, <2>3, <2>4, <3>1, <3>2 DEF User!Stop
  <2>5. CASE ret = 1
    <3>1. pc \notin Lifted
      BY <2>2, <2>5 DEF PinInv, ChildStopped
    <3>2. Busy' = Busy
      BY <1>1, <2>2, <2>5, <3>1, BusyIs, BusyWillBe DEF Lifted
    <3>3. QED
      BY <1>2, <2>2, <2>5, <3>2, Hidden
  <2>6. CASE ret = -1
    <3>1. Busy = "done" /\ Busy' = "no"
      BY <1>1, <1>2, <2>2, <2>6, BusyIs, BusyWillBe DEF PinInv, Stepping
    <3>2. Told' = Told
      BY <2>2, <2>6 DEF Told
    <3>3. QED
      BY <2>2, <2>3, <3>1, <3>2 DEF User!Return, User!Nowhere
  <2>7. QED
    BY <2>4, <2>5, <2>6
<1>6. ~ChildKilled(ret)
  BY <1>3 DEF ChildKilled
<1>7. QED
  BY <1>1, <1>4, <1>5, <1>6 DEF CheckStop

\* The tracee's own steps: an instruction, or an int3 that nobody has seen yet
LEMMA UserChild ==
  ASSUME NEW rank, Calm, TypeOK, ProcInv, AliveInv, ArmedInv, WhereInv(rank), WhereInv(rank)', SiInv,
         ~derailed, ~derailed', ChildMoves
  PROVE  User!Step \/ UNCHANGED User!vars
<1>1. child # 0 /\ child \in Pids /\ UNCHANGED <<child, rip_now, pc, state, points, addr>>
  BY DEF ChildMoves, dbgVars, TypeOK, TraceeStep, Trap, Exec, Derail, Signal, SigKill
<1>2. CASE Trap(child)
  <2>1. /\ Place' = Place /\ UNCHANGED moved /\ proc[child] = "running"
    BY <1>2, TrapStays DEF Trap
  <2>2. pc \in Waiting
    BY <1>1, <2>1, PlaceRuns
  <2>3. Busy' = Busy
    BY <1>1, <2>1 DEF Busy
  <2>4. QED
    BY <1>1, <2>1, <2>2, <2>3, Hidden DEF Waiting
<1>3. CASE Exec(child)
  <2>1. /\ proc[child] = "running" /\ moved' /\ Intact(tp) /\ tp \in Insns
    BY <1>3 DEF Exec, Intact
  <2>2. ChildAlive /\ pc \in Waiting /\ Place = tp /\ ~ChildStopped
    BY <1>1, <2>1, PlaceRuns
  <2>3. tp # 0 /\ tp \in Text /\ mem[tp] # CC
    BY <2>1, InsnIsText, ProgramAssumption DEF Intact, InsnBytes
  <2>4. Session' = Session /\ AddrOf(points)' = AddrOf(points)
    BY <1>1 DEF Session, AddrOf
  <2>5. Busy \in {"cont", "si"} /\ Busy' = IF Busy = "si" THEN "done" ELSE Busy
    <3>1. pc \in Stepping => ~moved
      BY <2>2 DEF SiInv, Straight
    <3>2. QED
      BY <1>1, <2>1, <2>2, <3>1, BusyIs, BusyWillBe DEF Waiting, Stepping
  <2>6. tp \in AddrOf(points) => Told
    <3>1. ASSUME NEW p \in points, p.addr = tp PROVE Told
      <4>1. pc \in Lifted /\ addr = tp
        BY <2>2, <2>3, <3>1 DEF ArmedInv
      <4>2. QED
        BY <2>2, <2>3, <4>1 DEF WhereInv, Told
    <3>2. QED
      BY <3>1 DEF AddrOf
  <2>7. PICK n \in Succ[tp] :
          IF n = Exit THEN proc' = [proc EXCEPT ![child] = "exited"]
          ELSE tp' = n /\ trap' = 0 /\ proc' = IF stepping THEN Stopped(child) ELSE proc
    BY <1>3 DEF Exec
  <2>8. Place' = IF n = Exit THEN 0 ELSE n
    <3>1. CASE n = Exit
      BY <1>1, <2>7, <3>1 DEF Place, ChildAlive, Alive, TypeOK, TraceeTypeOK
    <3>2. CASE n # Exit
      <4>1. ChildAlive'
        BY <1>1, <2>1, <2>7, <3>2 DEF ChildAlive, Alive, Stopped, TypeOK, TraceeTypeOK
      <4>2. QED
        BY <2>7, <3>2, <4>1 DEF Place, Unseen
    <3>3. QED
      BY <3>1, <3>2
  <2>9. Told' = FALSE
    <3>1. CASE ChildAlive'
      BY <1>1, <2>1, <2>2, <3>1 DEF WhereInv, Straight, Told, Waiting
    <3>2. CASE ~ChildAlive'
      BY <3>2 DEF Place, Told
    <3>3. QED
      BY <3>1, <3>2
  <2>10. QED
    BY <2>2, <2>3, <2>4, <2>5, <2>6, <2>7, <2>8, <2>9 DEF User!Step, User!Nowhere, User!Exit, Exit
<1>4. ~Derail(child) /\ ~Signal(child) /\ ~SigKill(child)
  BY DEF Derail, Signal, SigKill, Calm, Undisturbed
<1>5. QED
  BY <1>2, <1>3, <1>4 DEF ChildMoves, TraceeStep

\* Where one program is started once, check_stop() finds a tracee to ask for its registers
\* and an instruction to show.
LEMMA CheckStopSucceeds ==
  ASSUME NEW rank, Once, Calm, TypeOK, AliveInv, TrapInv, CodeInv, WhereInv(rank), ~derailed
  PROVE  ~CheckStopFails
<1>1. SUFFICES ASSUME CheckStopFails PROVE FALSE
  OBVIOUS
<1>2. pc \in Waiting /\ pc \notin {"prompt", "exited"}
  BY <1>1 DEF CheckStopFails, Waiting
<1>3. child # 0 /\ state = "RUNNING" /\ proc[child] \in {"running", "stopped", "exited"}
  BY <1>2 DEF AliveInv
<1>4. PICK p \in points : ChildStopped /\ p.addr = tp - 1 /\ Undecodable(p.addr)
  BY <1>1, <1>3 DEF CheckStopFails, Calm, Undisturbed
<1>5. code \in {NoProgram, program}
  BY <1>3 DEF CodeInv
<1>6. Straight /\ Place \in Insns /\ p.addr \in BreakAddrs /\ tp \in Int /\ p.addr + 1 = tp
  BY <1>3, <1>4 DEF Straight, ChildAlive, ChildStopped, Alive, WhereInv, TypeOK, TraceeTypeOK, Point
<1>7. Place # tp
  BY <1>6 DEF Once, Roomy
<1>8. Place = p.addr
  BY <1>4, <1>6, <1>7 DEF Place, Straight
<1>9. QED
  BY <1>4, <1>5, <1>6, <1>8 DEF Undecodable

LEMMA UserStep ==
  ASSUME NEW rank, Once, Calm, TypeOK, ProcInv, AliveInv, ArmedInv, TrapInv, CodeInv,
         WhereInv(rank), WhereInv(rank)', SiInv, PinInv, ~derailed, ~derailed', [Next]_vars
  PROVE  [User!Next]_(User!vars)
<1> USE DEF User!Next
<1>1. CASE UNCHANGED vars \/ Disasm
  <2>1. UNCHANGED <<state, pc, points, rip_now, child, proc, tp, trap, moved>>
    BY <1>1 DEF vars, traceeVars, dbgVars, Disasm
  <2>2. Session' = Session /\ AddrOf(points)' = AddrOf(points) /\ Place' = Place /\ Busy' = Busy
    BY <2>1 DEF Session, AddrOf, Place, ChildAlive, Unseen, ChildStopped, Busy
  <2>3. Told' = Told
    BY <2>1, <2>2 DEF Told
  <2>4. QED
    BY <2>2, <2>3 DEF User!vars
<1>2. CASE LoadFails \/ Quit \/ Interrupt \/ BadArgument \/ GetRegsFails
  BY <1>2, UserQuit DEF Calm, LoadFails, Quit, Interrupt, BadArgument, GetRegsFails, Typed, TypedRunning
<1>3. ASSUME NEW v \in RipAddrs PROVE ~SetRip(v)
  BY DEF Once, SetRip, TypedRunning, Typed
<1>4. CASE UserTypes
  BY <1>1, <1>2, <1>3, <1>4, UserLoad, UserStart, UserBreaks, UserResume DEF UserTypes, OtherCommand
<1>5. ~CheckStopFails
  BY CheckStopSucceeds
<1>6. CASE DebuggerWaits
  BY <1>5, <1>6, UserCheckStop, UserOptions, UserOver, UserPeekPoke DEF DebuggerWaits
<1>7. CASE ChildMoves
  BY <1>7, UserChild
<1>8. QED
  BY <1>1, <1>4, <1>6, <1>7 DEF Next, Terminated

\* As long as the tracee executes nothing but its own instructions, the debugger keeps what
\* module Debugger promises, int3s, lifted break points and second waits and all
\* (hw4.cpp:152-195, 511-577).
THEOREM DebugsHolds ==
  ASSUME OffLoops, Once, Spaced, Calm
  PROVE  Spec /\ []~derailed => DebugsAsPromised
<1>1. PICK rank \in [Insns -> Nat] : Ranked(rank)
  BY DEF OffLoops
<1>2. Init => User!Init
  <2> SUFFICES ASSUME Init PROVE User!Init
    OBVIOUS
  <2>1. Session = "none" /\ AddrOf(points) = {} /\ Place = 0 /\ Busy = "no"
    BY BusyIs DEF Init, Session, AddrOf, Place, ChildAlive
  <2>2. Told = FALSE
    BY <2>1 DEF Told
  <2>3. QED
    BY <2>1, <2>2 DEF User!Init, User!Nowhere
<1>3. /\ TypeOK /\ ProcInv /\ AliveInv /\ ArmedInv /\ TrapInv /\ CodeInv
      /\ WhereInv(rank) /\ WhereInv(rank)'
      /\ SiInv /\ PinInv /\ ~derailed /\ ~derailed' /\ [Next]_vars
      => [User!Next]_(User!vars)
  BY UserStep
<1>4. "set" \notin Commands /\ Undisturbed
  BY DEF Once, Calm
<1>5. QED
  BY <1>1, <1>2, <1>3, <1>4, ForwardHolds, CodeHolds, PinHolds, TypeCorrect, ProcHolds, AliveInvHolds,
     ArmedInvHolds, TrapHolds, PTL DEF Spec, DebugsAsPromised, User!Spec

-----------------------------------------------------------------------------
(* Nor does it ever execute anything but its own instructions, if those in *)
(* the word at a break point are behind it before it meets another one.    *)

\* A running tracee is at one of its instructions, and that one is in place or under an
\* int3.
LEMMA OnTrack ==
  ASSUME NEW rank \in [Insns -> Nat], InOrder(rank), TypeOK, ProcInv, WhereInv(rank), ClobberInv(rank),
         child # 0, proc[child] = "running"
  PROVE  Intact(tp) \/ IsTrap(tp)
<1>1. ChildAlive /\ Place = tp /\ tp \in Insns /\ tp \in Text
  BY PlaceRuns, InsnIsText DEF WhereInv, ClobberInv, Straight
<1>2. SUFFICES ASSUME ~IsTrap(tp), NEW a \in InsnBytes(tp) PROVE mem[a] = Orig[a]
  BY <1>1 DEF Intact
<1>3. tp \in Int /\ InsnSize[tp] \in Nat /\ InsnSize[tp] > 0 /\ a \in Text /\ a \in Int
  BY <1>1, <1>2, ProgramAssumption DEF InsnBytes, Text
<1>4. CASE mem[a] = CC /\ a \in AddrOf(points)
  <2>1. a \in Insns
    BY <1>3, <1>4 DEF AddrOf, TypeOK, Point, InOrder
  <2>2. a \in InsnBytes(a)
    BY <2>1, <1>3, ProgramAssumption DEF InsnBytes
  <2>3. a = tp
    BY <1>1, <1>2, <2>1, <2>2 DEF InOrder
  <2>4. QED
    BY <1>1, <1>2, <1>4, <2>3 DEF IsTrap
<1>5. ~Behind(rank, a)
  BY <1>1, <1>2 DEF Behind
<1>6. QED
  BY <1>1, <1>3, <1>4, <1>5 DEF ClobberInv

\* A step that writes at most one byte, and puts a byte of the file or an int3 there.
LEMMA ClobberPoke ==
  ASSUME NEW rank, ClobberInv(rank), UNCHANGED derailed,
         ChildAlive' => ChildAlive /\ Place' = Place,
         NEW w,
         \A a \in Text : a # w => mem'[a] = mem[a] /\ (a \in AddrOf(points) => a \in AddrOf(points')),
         ChildAlive' /\ w \in Text
           => mem'[w] = Orig[w] \/ (mem'[w] = CC /\ w \in AddrOf(points'))
  PROVE  ClobberInv(rank)'
<1>1. SUFFICES ASSUME ChildAlive', NEW a \in Text
               PROVE  \/ mem'[a] = Orig[a]
                      \/ mem'[a] = CC /\ a \in AddrOf(points')
                      \/ mem'[a] = FF /\ Behind(rank, a)'
  BY DEF ClobberInv
<1>2. Behind(rank, a) => Behind(rank, a)'
  BY <1>1 DEF Behind
<1>3. CASE a = w
  BY <1>1, <1>3
<1>4. CASE a # w
  BY <1>1, <1>2, <1>4 DEF ClobberInv
<1>5. QED
  BY <1>3, <1>4

\* A step that writes nothing
LEMMA ClobberKept ==
  ASSUME NEW rank, ClobberInv(rank), UNCHANGED <<derailed, mem, points>>,
         ChildAlive' => ChildAlive /\ Place' = Place
  PROVE  ClobberInv(rank)'
<1>1. 0 \notin Text
  BY DEF Text
<1>2. QED
  BY <1>1, ClobberPoke

LEMMA ClobberChild ==
  ASSUME NEW rank \in [Insns -> Nat], Ranked(rank), InOrder(rank), Calm,
         TypeOK, ProcInv, WhereInv(rank), ClobberInv(rank), ChildMoves
  PROVE  ClobberInv(rank)'
<1>1. child # 0 /\ child \in Pids /\ UNCHANGED <<child, points, mem>>
  BY ChildKeeps DEF ChildMoves, dbgVars, TypeOK
<1>2. CASE Trap(child)
  BY <1>1, <1>2, TrapStays, ClobberKept
<1>3. CASE Exec(child)
  <2>1. /\ proc[child] = "running" /\ tp \in Insns /\ UNCHANGED derailed
    BY <1>3 DEF Exec, Intact
  <2>2. ChildAlive /\ Place = tp
    BY <1>1, <2>1, PlaceRuns
  <2>3. PICK n \in Succ[tp] :
          IF n = Exit THEN proc' = [proc EXCEPT ![child] = "exited"]
          ELSE tp' = n /\ trap' = 0
    BY <1>3 DEF Exec
  <2>4. CASE n = Exit
    <3>1. ~ChildAlive'
      BY <1>1, <2>3, <2>4 DEF ChildAlive, Alive, TypeOK, TraceeTypeOK
    <3>2. QED
      BY <2>1, <3>1 DEF ClobberInv
  <2>5. CASE n # Exit
    <3>1. n \in Insns /\ rank[tp] <= rank[n] /\ rank[tp] \in Nat /\ rank[n] \in Nat
      BY <2>1, <2>5, ProgramAssumption DEF Ranked
    <3>2. ChildAlive' => Place' = n
      BY <2>3, <2>5 DEF Place, Unseen
    <3>3. ASSUME NEW a \in Text, ChildAlive', Behind(rank, a) PROVE Behind(rank, a)'
      BY <2>2, <3>1, <3>2, <3>3 DEF Behind
    <3>4. QED
      BY <1>1, <2>1, <2>2, <3>3 DEF ClobberInv
  <2>6. QED
    BY <2>4, <2>5
<1>4. ~Derail(child) /\ ~Signal(child) /\ ~SigKill(child)
  BY <1>1, OnTrack DEF Derail, Signal, SigKill, Calm, Undisturbed
<1>5. QED
  BY <1>2, <1>3, <1>4 DEF ChildMoves, TraceeStep

\* A break point is not among the bytes that a word at another one reaches.
LEMMA NoShadow ==
  ASSUME Spaced, NEW a \in BreakAddrs, a \in Text
  PROVE  ~InShadow(a)
<1>1. SUFFICES ASSUME NEW b \in BreakAddrs \intersect Text, a \in (b + 1)..(b + WordSize - 1)
               PROVE  FALSE
  BY DEF InShadow
<1>2. a \in Int /\ b \in Int /\ WordSize \in Int
  BY ProgramAssumption DEF Text
<1>3. b + WordSize <= a
  BY <1>1, <1>2 DEF Spaced
<1>4. QED
  BY <1>1, <1>2, <1>3

LEMMA ClobberUser ==
  ASSUME NEW rank, Once, Spaced, TypeOK, ProcInv, TextInv, ClobberInv(rank), UserTypes
  PROVE  ClobberInv(rank)'
<1> USE DEF Typed, TypedRunning
<1>1. CASE LoadFails \/ Quit \/ Interrupt \/ BadArgument \/ GetRegsFails
  BY <1>1, ShutdownKills DEF LoadFails, Quit, Interrupt, BadArgument, GetRegsFails, Shutdown, ClobberInv
<1>2. CASE Start \/ Run
  BY <1>2 DEF Start, Run, Fork, ClobberInv
<1>3. CASE Cont \/ Si
  <2>1. /\ UNCHANGED <<child, derailed, mem, points, tp>> /\ proc' = Resumed(child) /\ trap' = 0
        /\ pc = "prompt"
    BY <1>3 DEF Cont, Si, Resume, dbgVars
  <2>2. ChildAlive' => ChildAlive /\ Place' = Place
    BY <2>1 DEF Resumed, ChildAlive, ChildStopped, Alive, Place, Unseen, Waiting,
       TypeOK, TraceeTypeOK
  <2>3. QED
    BY <2>1, <2>2, ClobberKept
<1>4. CASE (\E f \in Programs : Load(f)) \/ (\E a \in BreakAddrs : Break(a))
           \/ (\E p \in points : Delete(p)) \/ Disasm
  <2>1. UNCHANGED <<child, derailed, proc, tp, trap, pc>> /\ pc = "prompt"
    BY <1>4 DEF Load, Break, Delete, Disasm, traceeVars
  <2>2. (ChildAlive' => ChildAlive /\ ChildStopped) /\ Place' = Place
    BY <2>1, AliveIsStopped DEF ChildAlive, Place, Unseen, ChildStopped, Waiting
  <2>3. CASE (\E f \in Programs : Load(f)) \/ Disasm
    <3>1. UNCHANGED <<mem, points>>
      BY <2>3 DEF Load, Disasm, traceeVars
    <3>2. QED
      BY <2>1, <2>2, <3>1, ClobberKept
  <2>4. ASSUME NEW a \in BreakAddrs, Break(a)
        PROVE  ClobberInv(rank)'
    <3>1. ReplaceByte(a, CC) /\ points \subseteq points'
      BY <2>4 DEF Break
    <3>2. a \in AddrOf(points')
      <4>1. CASE a \in AddrOf(points)
        BY <3>1, <4>1 DEF AddrOf
      <4>2. CASE a \notin AddrOf(points)
        <5> DEFINE new == [id |-> bpid, addr |-> a, ori |-> OldByte(a)]
        <5>1. new \in points' /\ new.addr = a
          BY <2>4, <4>2 DEF Break
        <5> HIDE DEF new
        <5>2. QED
          BY <5>1 DEF AddrOf
      <4>3. QED
        BY <4>1, <4>2
    <3>3. ASSUME NEW b \in Text, b # a
          PROVE  mem'[b] = mem[b] /\ (b \in AddrOf(points) => b \in AddrOf(points'))
      BY <3>1, <3>3, ReplaceEffect DEF AddrOf
    <3>4. ChildAlive' /\ a \in Text => mem'[a] = CC
      BY <2>2, <3>1, ReplaceEffect DEF CanPoke, ChildStopped
    <3>5. QED
      BY <2>1, <2>2, <3>2, <3>3, <3>4, ClobberPoke
  <2>5. ASSUME NEW p \in points, Delete(p)
        PROVE  ClobberInv(rank)'
    <3>1. ReplaceByte(p.addr, p.ori) /\ points' = points \ {p} /\ p.addr \in BreakAddrs
      BY <2>5 DEF Delete, TypeOK, Point
    <3>2. ASSUME NEW b \in Text, b # p.addr
          PROVE  mem'[b] = mem[b] /\ (b \in AddrOf(points) => b \in AddrOf(points'))
      BY <3>1, <3>2, ReplaceEffect DEF AddrOf
    <3>3. ChildAlive' /\ p.addr \in Text => mem'[p.addr] = Orig[p.addr]
      BY <2>2, <3>1, ReplaceEffect, NoShadow DEF CanPoke, ChildStopped, TextInv, OriTrue
    <3>4. QED
      BY <2>1, <2>2, <3>2, <3>3, ClobberPoke
  <2>6. QED
    BY <1>4, <2>3, <2>4, <2>5
<1>5. ASSUME NEW v \in RipAddrs PROVE ~SetRip(v)
  BY DEF Once, SetRip
<1>6. QED
  BY <1>1, <1>2, <1>3, <1>4, <1>5 DEF UserTypes, OtherCommand

\* cont and si put back the byte of the file.
LEMMA ClobberOver ==
  ASSUME NEW rank, Spaced, TypeOK, TextInv, AliveInv, ClobberInv(rank), ContOver \/ SiOver
  PROVE  ClobberInv(rank)'
<1>1. /\ UNCHANGED <<child, derailed, points, tp>> /\ proc' = Resumed(child)
      /\ ReplaceByte(bpaddr_now, restore) /\ pc \in {"contOver", "siOver"} /\ pc \notin Waiting
  BY DEF ContOver, SiOver, Waiting
<1>2. child # 0 /\ ChildStopped
  BY <1>1 DEF AliveInv
<1>3. ChildAlive /\ Place' = Place
  BY <1>1, <1>2, ResumedPlace DEF ChildAlive, ChildStopped, Alive
<1>4. bpaddr_now \in Text => mem'[bpaddr_now] = Orig[bpaddr_now]
  <2>1. SUFFICES ASSUME bpaddr_now \in Text PROVE restore = Orig[bpaddr_now]
    BY <1>1, <1>2, ReplaceEffect DEF CanPoke, ChildStopped
  <2>2. PICK p \in points : p.addr = bpaddr_now /\ p.ori = restore
    BY <1>1, <2>1 DEF TextInv, LiftInv, Text
  <2>3. p.addr \in BreakAddrs /\ ~InShadow(p.addr)
    BY <2>1, <2>2, NoShadow DEF TypeOK, Point
  <2>4. QED
    BY <1>3, <2>1, <2>2, <2>3 DEF TextInv, OriTrue
<1>5. ASSUME NEW b \in Text, b # bpaddr_now PROVE mem'[b] = mem[b]
  BY <1>1, <1>5, ReplaceEffect
<1>6. QED
  BY <1>1, <1>3, <1>4, <1>5, ClobberPoke

\* When the tracee was running at the PEEKTEXT and is stopped at the POKETEXT, the word -1
\* is written behind a break point that it has passed.
LEMMA ClobberContPoke ==
  ASSUME NEW rank \in [Insns -> Nat], InOrder(rank), TypeOK, TextInv, TrapInv, WhereInv(rank),
         PinInv, ClobberInv(rank), ContPoke
  PROVE  ClobberInv(rank)'
<1>1. /\ UNCHANGED <<child, derailed, points, tp, proc, trap>> /\ pc = "contPoke" /\ pc' = "contWait2"
      /\ mem' = IF CanPoke(child, addr) THEN PokeWord(addr, CC, peeked) ELSE mem
  BY DEF ContPoke
<1>2. ChildAlive' = ChildAlive /\ Place' = Place
  BY <1>1 DEF ChildAlive, Place, Unseen, ChildStopped, Waiting
<1>3. SUFFICES ASSUME ChildAlive, NEW a \in Text
               PROVE  \/ mem'[a] = Orig[a]
                      \/ mem'[a] = CC /\ a \in AddrOf(points')
                      \/ mem'[a] = FF /\ Behind(rank, a)'
  BY <1>1, <1>2 DEF ClobberInv
<1>4. Behind(rank, a)' = Behind(rank, a)
  BY <1>2 DEF Behind
<1>5. CASE mem'[a] = mem[a]
  BY <1>1, <1>3, <1>4, <1>5 DEF ClobberInv
<1>6. CASE CanPoke(child, addr) /\ a = addr
  <2>1. addr \in AddrOf(points)
    BY <1>1, <1>6 DEF TextInv, LiftInv, Lifted, CanPoke, Text
  <2>2. QED
    BY <1>1, <1>6, <2>1 DEF PokeWord
<1>7. CASE CanPoke(child, addr) /\ a # addr /\ mem'[a] # mem[a]
  <2>1. mem'[a] = FF /\ a \in (addr + 1)..(addr + WordSize - 1)
    BY <1>1, <1>7 DEF PokeWord
  <2>2. addr = rip_now /\ addr # 0 /\ addr \in BreakAddrs
    BY <1>1, <1>7 DEF WhereInv, Lifted, CanPoke, Text, TypeOK
  <2>3. rip_now # Place
    BY <1>1, <1>3, <1>7 DEF PinInv, ClobberInv, Straight, Lifted, CanPoke
  <2>4. rip_now \in Insns /\ rank[rip_now] < rank[Place]
    BY <1>3, <2>2, <2>3 DEF WhereInv, ClobberInv, Straight
  <2>5. Place \in BreakAddrs
    <3>1. ChildStopped /\ pc \in Waiting /\ pc \notin Stepping
      BY <1>1, <1>7 DEF CanPoke, ChildStopped, Waiting, Stepping
    <3>2. trap # 0
      BY <1>3, <3>1 DEF PinInv, ClobberInv, Straight
    <3>3. trap \in AddrOf(points) /\ tp = trap + 1 /\ trap \in Text
      BY <1>3, <3>1, <3>2 DEF TrapInv, TypeOK, TraceeTypeOK
    <3>4. Place = trap
      BY <1>3, <3>1, <3>2, <3>3 DEF Place, Unseen, Text
    <3>5. QED
      BY <3>3, <3>4 DEF AddrOf, TypeOK, Point
  <2>6. Place \in Insns
    BY <1>3 DEF WhereInv, ClobberInv, Straight
  <2>7. ASSUME NEW i \in Insns, a \in InsnBytes(i) PROVE rank[i] < rank[Place]
    BY <2>1, <2>2, <2>4, <2>5, <2>6, <2>7 DEF InOrder
  <2>8. Behind(rank, a)
    BY <2>7 DEF Behind
  <2>9. QED
    BY <1>4, <2>1, <2>8
<1>8. QED
  BY <1>1, <1>5, <1>6, <1>7

LEMMA ClobberCheckStop ==
  ASSUME NEW rank, Once, TypeOK, TextInv, TrapInv, WhereInv(rank), ClobberInv(rank),
         ContWait \/ SiWait \/ ContWait2 \/ SiWait2
  PROVE  ClobberInv(rank)'
<1>1. PICK ret \in {-1, 0, 1} : CheckStop(ret) /\ CheckStopFrame
  BY DEF ContWait, SiWait, ContWait2, SiWait2
<1>2. pc \in Waiting /\ pc' \notin Waiting /\ UNCHANGED <<derailed, points, child>>
  BY <1>1 DEF ContWait, SiWait, ContWait2, SiWait2, Waiting, CheckStopFrame
<1>3. ChildAlive' => ChildAlive /\ ChildStopped /\ Place' = Place
  BY <1>1, <1>2, CheckStopWhere DEF ClobberInv, Straight
<1>4. CASE ContWait \/ SiWait
  BY <1>2, <1>3, <1>4, ClobberKept DEF ContWait, SiWait
<1>5. CASE ContWait2 \/ SiWait2
  <2>1. ReplaceByte(addr, CC) /\ addr \in AddrOf(points) \union {0}
    BY <1>5 DEF ContWait2, SiWait2, TextInv, LiftInv, Lifted
  <2>2. ChildAlive' /\ addr \in Text => mem'[addr] = CC /\ addr \in AddrOf(points')
    BY <1>2, <1>3, <2>1, ReplaceEffect DEF CanPoke, ChildStopped, Text
  <2>3. ASSUME NEW b \in Text, b # addr PROVE mem'[b] = mem[b]
    BY <2>1, <2>3, ReplaceEffect
  <2>4. QED
    BY <1>2, <1>3, <2>2, <2>3, ClobberPoke
<1>6. QED
  BY <1>4, <1>5

LEMMA ClobberWait ==
  ASSUME NEW rank \in [Insns -> Nat], InOrder(rank), Once, Spaced, TypeOK, ProcInv, AliveInv, TextInv,
         TrapInv, WhereInv(rank), PinInv, ClobberInv(rank), DebuggerWaits
  PROVE  ClobberInv(rank)'
<1>0. CASE Options
  <2>1. UNCHANGED <<child, derailed, mem, points, tp, proc, trap>> /\ {pc, pc'} \intersect Waiting = {}
    BY <1>0 DEF Options, dbgVars, Waiting
  <2>2. (ChildAlive' => ChildAlive) /\ Place' = Place
    BY <2>1 DEF ChildAlive, Place, Unseen, ChildStopped
  <2>3. QED
    BY <2>1, <2>2, ClobberKept
<1>1. CASE RunCont
  <2>1. /\ UNCHANGED <<child, derailed, mem, points, tp>> /\ proc' = Resumed(child)
        /\ child # 0 /\ ChildStopped /\ pc \notin Waiting
    BY <1>1 DEF RunCont, Resume, dbgVars, AliveInv, Starting, Waiting
  <2>2. ChildAlive /\ Place' = Place
    BY <2>1, ResumedPlace DEF ChildAlive, ChildStopped, Alive
  <2>3. QED
    BY <2>1, <2>2, ClobberKept
<1>2. CASE ContPeek
  <2>1. UNCHANGED <<child, derailed, mem, points, tp, proc, trap>> /\ {pc, pc'} \subseteq Waiting
    BY <1>2 DEF ContPeek, traceeVars, Waiting
  <2>2. (ChildAlive' => ChildAlive) /\ Place' = Place
    BY <2>1 DEF ChildAlive, Place, Unseen, ChildStopped
  <2>3. QED
    BY <2>1, <2>2, ClobberKept
<1>3. CASE CheckStopFails
  BY <1>3, ShutdownKills DEF CheckStopFails, Shutdown, ClobberInv
<1>4. QED
  BY <1>0, <1>1, <1>2, <1>3, ClobberOver, ClobberContPoke, ClobberCheckStop DEF DebuggerWaits

LEMMA ClobberStep ==
  ASSUME NEW rank \in [Insns -> Nat], Ranked(rank), InOrder(rank), Once, Spaced, Calm,
         TypeOK, ProcInv, AliveInv, TextInv, TrapInv, WhereInv(rank), PinInv,
         ClobberInv(rank), [Next]_vars
  PROVE  ClobberInv(rank)'
<1>1. CASE UNCHANGED vars
  <2>1. UNCHANGED <<child, derailed, mem, points, tp, proc, trap, pc>>
    BY <1>1 DEF vars, traceeVars, dbgVars
  <2>2. (ChildAlive' => ChildAlive) /\ Place' = Place
    BY <2>1 DEF ChildAlive, Place, Unseen, ChildStopped
  <2>3. QED
    BY <2>1, <2>2, ClobberKept
<1>2. CASE Next
  BY <1>1, <1>2, ClobberUser, ClobberWait, ClobberChild DEF Next, Terminated
<1>3. QED
  BY <1>1, <1>2

\* A program that only jumps forward is orderly, if break points are a word apart.
LEMMA ForwardIsOrderly ==
  ASSUME Spaced,
         \A i \in Insns : \A j \in Succ[i] \ {Exit} : i < j,
         \A i, j \in Insns : i # j => InsnBytes(i) \intersect InsnBytes(j) = {},
         BreakAddrs \intersect Text \subseteq Insns
  PROVE  Orderly
<1> DEFINE rank == [i \in Insns |-> i]
<1>1. Insns \subseteq Text /\ Insns \subseteq Nat /\ WordSize \in Nat
  BY ProgramAssumption DEF Text
<1>2. rank \in [Insns -> Nat] /\ \A i \in Insns : rank[i] = i
  BY <1>1
<1> HIDE DEF rank
<1>3. Ranked(rank)
  <2>1. SUFFICES ASSUME NEW i \in Insns, NEW j \in Succ[i] \ {Exit}
                 PROVE  rank[i] <= rank[j] /\ rank[i] # rank[j]
    BY DEF Ranked
  <2>2. j \in Insns /\ i < j
    BY <2>1, ProgramAssumption
  <2>3. QED
    BY <1>1, <1>2, <2>2
<1>4. ASSUME NEW a \in BreakAddrs \intersect Insns, NEW b \in BreakAddrs \intersect Insns,
             a < b, NEW i \in Insns,
             NEW x \in InsnBytes(i), x \in (a + 1)..(a + WordSize - 1)
      PROVE  i < b
  <2>1. a + WordSize <= b
    BY <1>1, <1>4 DEF Spaced
  <2>2. i \in Nat /\ a \in Nat /\ b \in Nat /\ InsnSize[i] \in Nat
    BY <1>1, <1>4, ProgramAssumption
  <2>3. i <= x /\ x \in Int
    BY <1>4, <2>2 DEF InsnBytes
  <2>4. x <= a + WordSize - 1
    BY <1>1, <1>4, <2>2
  <2>5. QED
    BY <1>1, <2>1, <2>2, <2>3, <2>4
<1>5. InOrder(rank)
  BY <1>1, <1>2, <1>4 DEF InOrder
<1>6. QED
  BY <1>2, <1>3, <1>5 DEF Orderly

\* What a failed PEEKTEXT makes replace_byte() clobber (hw4.cpp:141-149) is never executed:
\* the tracee has passed what is in that word by then and does not come back, so it executes
\* nothing but its own instructions.
THEOREM NeverDerails ==
  ASSUME Orderly, Once, Spaced, Calm
  PROVE  Spec => []~derailed
<1>1. PICK rank \in [Insns -> Nat] : Ranked(rank) /\ InOrder(rank)
  BY DEF Orderly
<1>2. Init => ClobberInv(rank)
  BY DEF Init, TraceeInit, ClobberInv, ChildAlive
<1>3. /\ TypeOK /\ ProcInv /\ AliveInv /\ TextInv /\ TrapInv /\ WhereInv(rank) /\ PinInv
      /\ ClobberInv(rank) /\ [Next]_vars
      => ClobberInv(rank)'
  BY <1>1, ClobberStep
<1>4. ClobberInv(rank) => ~derailed
  BY DEF ClobberInv
<1>5. "set" \notin Commands /\ Undisturbed
  BY DEF Once, Calm
<1>6. QED
  BY <1>1, <1>2, <1>3, <1>4, <1>5, ForwardHolds, PinHolds, TypeCorrect, ProcHolds, AliveInvHolds,
     TextInvHolds, TrapHolds, PTL DEF Spec

\* So for a program that is started once, that no signal reaches, and whose break points are
\* in no loop, a word apart and met in their order, the debugger implements module Debugger
\* (hw4.cpp:152-195, 511-577).
THEOREM DebugsAsPromisedHolds ==
  ASSUME Orderly, Once, Spaced, Calm
  PROVE  Spec => DebugsAsPromised
<1>1. OffLoops
  BY DEF Orderly, OffLoops
<1>2. QED
  BY <1>1, DebugsHolds, NeverDerails, PTL
=============================================================================
