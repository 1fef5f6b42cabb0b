----------------------------- MODULE ViewProofs -----------------------------
(***************************************************************************)
(* What the user is shown of .text, for every program, line and dump size. *)
(* The cursor of dump needs an invariant of its own: how much dump prints  *)
(* depends on where the last one ended, and that on a rounded division.    *)
(***************************************************************************)
EXTENDS View, SdbForwardProofs

DumpTypeOK ==
  /\ dumpaddr \in Nat \union {-1}
  /\ from \in Nat \union {-1}
  /\ from <= dumpaddr
  /\ from = -1 => dumpaddr = -1

LEMMA EndIsNat == End \in Nat
  BY ProgramAssumption DEF End

\* Division with a remainder
LEMMA Division ==
  ASSUME NEW n \in Nat, NEW d \in Nat \ {0}
  PROVE  /\ n \div d \in Nat
         /\ (n \div d) * d <= n
         /\ n < (n \div d) * d + d
<1>1. n = (n \div d) * d + (n % d) /\ (n % d) \in 0..(d - 1)
  OBVIOUS
<1>2. n \div d \in Nat
  OBVIOUS
<1>3. (n \div d) * d \in Nat
  BY <1>2
<1>4. QED
  BY <1>1, <1>2, <1>3

\* The lines of a dump from a: it never goes two lines behind End, unless it goes nowhere.
LEMMA LinesBound ==
  ASSUME NEW a \in Nat
  PROVE  /\ DumpLines(a) * LineSize \in Nat
         /\ DumpLines(a) * LineSize = 0 \/ a + DumpLines(a) * LineSize < End + 2 * LineSize
<1> DEFINE n == End - a
<1>1. LineSize \in Nat \ {0} /\ Lines \in Nat \ {0} /\ n \in Int /\ End \in Nat
  BY EndIsNat, ViewAssumption
<1>2. Lines * LineSize \in Nat
  BY <1>1
<1>3. CASE n >= Lines * LineSize
  BY <1>1, <1>2, <1>3 DEF DumpLines
<1>4. CASE n >= 0 /\ n < Lines * LineSize
  <2> DEFINE q == n \div LineSize
  <2>1. q \in Nat /\ q * LineSize <= n /\ q * LineSize \in Nat
    BY <1>1, <1>4, Division
  <2>2. DumpLines(a) = q + 1
    BY <1>1, <1>2, <1>4, <2>1 DEF DumpLines, Quotient
  <2>3. (q + 1) * LineSize = q * LineSize + LineSize
    BY <1>1, <2>1
  <2> HIDE DEF q
  <2>4. QED
    BY <1>1, <1>4, <2>1, <2>2, <2>3
<1>5. CASE n < 0
  <2> DEFINE q == (-n) \div LineSize
  <2>1. q \in Nat /\ -n < q * LineSize + LineSize
    BY <1>1, <1>5, Division
  <2>2. DumpLines(a) = IF q = 0 THEN 1 ELSE 0
    <3>1. Quotient(n, LineSize) = -q
      BY <1>1, <1>5 DEF Quotient
    <3>2. ~(n >= Lines * LineSize)
      BY <1>1, <1>2, <1>5
    <3> HIDE DEF q
    <3>3. QED
      BY <2>1, <3>1, <3>2 DEF DumpLines
  <2> HIDE DEF q
  <2>3. CASE q = 0
    BY <1>1, <1>5, <2>1, <2>2, <2>3
  <2>4. CASE q # 0
    BY <1>1, <2>2, <2>4
  <2>5. QED
    BY <2>3, <2>4
<1>6. QED
  BY <1>1, <1>2, <1>3, <1>4, <1>5

-----------------------------------------------------------------------------
(* Dump after dump.                                                        *)

DumpInv == DumpTypeOK /\ DumpCovers /\ DumpStops

LEMMA DumpInit == ViewInit => DumpInv
  BY EndIsNat, ViewAssumption DEF ViewInit, DumpInv, DumpTypeOK, DumpCovers, DumpStops

\* A dump from a goes on where the one before has ended, or begins anew.
LEMMA DumpShow ==
  ASSUME DumpTypeOK, NEW a \in Nat, NEW before, Show(a, before),
         from' \in Nat, from' <= a,
         before = {b \in from'..(a - 1) : b < End},
         a < End + 2 * LineSize \/ a = from'
  PROVE  DumpInv'
<1> DEFINE n == DumpLines(a) * LineSize
<1>1. n \in Nat /\ (n = 0 \/ a + n < End + 2 * LineSize)
  BY LinesBound
<1>2. dumpaddr' = a + n /\ End' = End /\ shown' = before \union Printed(a, n)
  BY DEF Show, End
<1>3. End \in Nat /\ LineSize \in Nat
  BY EndIsNat, ViewAssumption
<1> HIDE DEF n
<1>4. shown' = {b \in from'..(a + n - 1) : b < End}
  BY <1>1, <1>2, <1>3 DEF Printed
<1>5. DumpTypeOK' /\ DumpCovers'
  BY <1>1, <1>2, <1>4 DEF DumpTypeOK, DumpCovers
<1>6. DumpStops'
  BY <1>1, <1>2, <1>3 DEF DumpStops
<1>7. QED
  BY <1>5, <1>6 DEF DumpInv

LEMMA DumpStep ==
  ASSUME DumpInv, [ViewNext]_<<vars, viewVars>>
  PROVE  DumpInv'
<1>1. CASE UNCHANGED viewVars
  BY <1>1 DEF viewVars, dumpVars, DumpInv, DumpTypeOK, DumpCovers, DumpStops, End
<1>2. ASSUME NEW f \in Programs, LoadAndRead(f) PROVE DumpInv'
  BY <1>2 DEF LoadAndRead, DumpInv, DumpTypeOK, DumpCovers, DumpStops
<1>3. CASE Elsewhere
  BY <1>3 DEF Elsewhere, dumpVars, DumpInv, DumpTypeOK, DumpCovers, DumpStops, End
<1>4. ASSUME NEW a \in DumpAddrs, DumpAt(a) PROVE DumpInv'
  <2>1. a \in Nat /\ from' = a /\ Show(a, {})
    BY <1>4, ViewAssumption DEF DumpAt
  <2>2. {} = {b \in from'..(a - 1) : b < End}
    BY <2>1
  <2>3. QED
    BY <2>1, <2>2, DumpShow DEF DumpInv
<1>5. CASE DumpOn
  <2>1. from' = from /\ dumpaddr # -1 /\ Show(dumpaddr, shown)
    BY <1>5 DEF DumpOn
  <2>2. QED
    BY <2>1, DumpShow DEF DumpInv, DumpTypeOK, DumpCovers, DumpStops
<1>6. CASE DumpBare
  <2>1. from' = 0 /\ Show(0, {})
    BY <1>6 DEF DumpBare
  <2>2. {} = {b \in from'..(0 - 1) : b < End}
    BY <2>1
  <2>3. QED
    BY <2>1, <2>2, DumpShow DEF DumpInv
<1>7. QED
  BY <1>1, <1>2, <1>3, <1>4, <1>5, <1>6 DEF ViewNext, Terminated

\* One dump after the other prints every byte from the address given on, up to the end
\* of .text (hw4.cpp:377-391), for every size of .text, of lines and of dumps.
THEOREM DumpCoversHolds == ViewSpec => []DumpCovers
<1>1. DumpInv => DumpCovers
  BY DEF DumpInv
<1>2. QED
  BY <1>1, DumpInit, DumpStep, PTL DEF ViewSpec

\* dump stops less than two lines behind the end of .text, although the number of its
\* lines is a division rounded towards zero, plus one (hw4.cpp:379-382).
THEOREM DumpStopsHolds == ViewSpec => []DumpStops
<1>1. DumpInv => DumpStops
  BY DEF DumpInv
<1>2. QED
  BY <1>1, DumpInit, DumpStep, PTL DEF ViewSpec

-----------------------------------------------------------------------------
(* The program that is shown is the one that runs.                         *)

\* The .text copied last is that of the program loaded last, if it has one; the tracee
\* of the state RUNNING was made from it; and no pid is forked twice.
ImageInv ==
  /\ program \in Sectioned => text = program
  /\ state = "RUNNING" => image = program
  /\ child # 0 => proc[child] # "unborn"

\* The commands besides load keep the program, and only a fork makes a state RUNNING.
LEMMA OtherCommandKeeps ==
  ASSUME TypeOK, OtherCommand
  PROVE  /\ UNCHANGED program
         /\ state' = "RUNNING" => state = "RUNNING" \/ \E p \in Pids : Fork(p)
         /\ (\E p \in Pids : Fork(p)) \/ (child' = child /\ \A p \in Pids : proc'[p] = "unborn" => proc[p] = "unborn")
<1>1. CASE LoadFails \/ Quit \/ Interrupt \/ BadArgument \/ GetRegsFails
  BY <1>1 DEF LoadFails, Quit, Interrupt, BadArgument, GetRegsFails, Shutdown, ExitKilled, dbgVars
<1>2. CASE Start \/ Run
  BY <1>2 DEF Start, Run, Fork
<1>3. CASE (\E a \in BreakAddrs : Break(a)) \/ (\E p \in points : Delete(p))
  BY <1>3 DEF Break, Delete
<1>4. CASE (\E v \in RipAddrs : SetRip(v)) \/ Disasm
  BY <1>4 DEF SetRip, Disasm, traceeVars
<1>5. CASE Cont \/ Si
  BY <1>5 DEF Cont, Si, Resume, Resumed, dbgVars, TypeOK, TraceeTypeOK
<1>6. QED
  BY <1>1, <1>2, <1>3, <1>4, <1>5 DEF OtherCommand

\* Neither does waiting.
LEMMA WaitKeeps ==
  ASSUME TypeOK, DebuggerWaits
  PROVE  /\ UNCHANGED <<program, child>>
         /\ state' = "RUNNING" => state = "RUNNING"
         /\ \A p \in Pids : proc'[p] = "unborn" => proc[p] = "unborn"
<1>0. CASE Options
  BY <1>0 DEF Options, dbgVars
<1>1. CASE RunCont
  BY <1>1 DEF RunCont, Resume, Resumed, dbgVars, TypeOK, TraceeTypeOK
<1>2. CASE ContWait \/ SiWait \/ ContWait2 \/ SiWait2
  <2>1. PICK ret \in {-1, 0, 1} : CheckStop(ret) /\ CheckStopFrame
    BY <1>2 DEF ContWait, SiWait, ContWait2, SiWait2
  <2>2. UNCHANGED <<program, child>>
    BY <2>1 DEF CheckStopFrame
  <2>3. CASE HitBreak(ret) \/ OtherStop(ret)
    BY <2>2, <2>3 DEF HitBreak, OtherStop
  <2>4. CASE ChildExited(ret) \/ ChildKilled(ret)
    BY <2>2, <2>4 DEF ChildExited, ChildKilled, Reaped, TypeOK, TraceeTypeOK
  <2>5. QED
    BY <2>1, <2>3, <2>4 DEF CheckStop
<1>3. CASE ContOver \/ SiOver
  BY <1>3 DEF ContOver, SiOver, Resumed, TypeOK, TraceeTypeOK
<1>4. CASE ContPeek \/ ContPoke
  BY <1>4 DEF ContPeek, ContPoke, traceeVars
<1>5. CASE CheckStopFails
  BY <1>5 DEF CheckStopFails, Shutdown, ExitKilled, dbgVars
<1>6. QED
  BY <1>0, <1>1, <1>2, <1>3, <1>4, <1>5 DEF DebuggerWaits

LEMMA ChildStepKeeps ==
  ASSUME TypeOK, ChildMoves
  PROVE  /\ UNCHANGED <<program, child, state>>
         /\ \A p \in Pids : proc'[p] = "unborn" => proc[p] = "unborn"
<1>1. child \in Pids /\ UNCHANGED dbgVars
  BY DEF ChildMoves, TypeOK
<1>2. proc' = proc \/ \E s \in {"running", "stopped", "exited", "killed"} :
                         proc' = [proc EXCEPT ![child] = s]
  BY <1>1 DEF ChildMoves, TraceeStep, Trap, Exec, Derail, Signal, SigKill, Stopped
<1>3. QED
  BY <1>1, <1>2 DEF dbgVars, TypeOK, TraceeTypeOK

\* A fork gives the debugger another child, made from the program of the moment.
LEMMA ForkKeeps ==
  ASSUME TypeOK, ImageInv, NEW p \in Pids, Fork(p)
  PROVE  child' # child /\ proc'[child'] # "unborn"
<1>1. child' = p /\ proc[p] = "unborn" /\ (proc' = Stopped(p) \/ proc' = Reaped(p))
  BY DEF Fork
<1>2. p # 0
  BY DEF Pids
<1>3. QED
  BY <1>1, <1>2 DEF ImageInv, Stopped, Reaped, TypeOK, TraceeTypeOK

LEMMA ImageStep ==
  ASSUME TypeOK, ImageInv, [ViewNext]_<<vars, viewVars>>
  PROVE  ImageInv'
<1>1. CASE UNCHANGED <<vars, text, image>>
  BY <1>1 DEF ImageInv, vars, traceeVars, dbgVars
<1>2. ASSUME NEW f \in Programs, LoadAndRead(f) PROVE ImageInv'
  BY <1>2 DEF LoadAndRead, Load, LoadText, ImageInv, traceeVars
<1>3. CASE Elsewhere /\ OtherCommand
  <2>1. CASE \E p \in Pids : Fork(p)
    BY <1>3, <2>1, ForkKeeps, OtherCommandKeeps DEF Elsewhere, ImageInv
  <2>2. CASE ~\E p \in Pids : Fork(p)
    BY <1>3, <2>2, OtherCommandKeeps DEF Elsewhere, ImageInv, TypeOK
  <2>3. QED
    BY <2>1, <2>2
<1>4. CASE Elsewhere /\ (DebuggerWaits \/ ChildMoves)
  BY <1>4, WaitKeeps, ChildStepKeeps DEF Elsewhere, ImageInv, TypeOK
<1>5. CASE DumpOn \/ DumpBare \/ \E a \in DumpAddrs : DumpAt(a)
  BY <1>1, <1>5 DEF DumpOn, DumpBare, DumpAt, Show
<1>6. QED
  BY <1>1, <1>2, <1>3, <1>4, <1>5 DEF ViewNext, Elsewhere, Terminated, viewVars

\* dump only looks: the debugger with it behaves as the debugger without (hw4.cpp:361-394).
THEOREM ViewIsSdb == ViewSpec => Spec
<1>1. ViewInit => Init
  BY DEF ViewInit
<1>2. [ViewNext]_<<vars, viewVars>> => [Next]_vars
  BY DEF ViewNext, LoadAndRead, Elsewhere, DumpAt, DumpOn, DumpBare, Show, Next, UserTypes
<1>3. QED
  BY <1>1, <1>2, PTL DEF ViewSpec, Spec

\* While the state is RUNNING the tracee executes the program that was loaded last, and
\* the .text that bounds dump and disasm is its own (hw4.cpp:219, 241-246, 476),
\* although load() is possible while a program is traced.
THEOREM SameProgramHolds == ViewSpec => []SameProgram
<1>1. ViewInit => ImageInv
  BY ViewAssumption, SdbAssumption DEF ViewInit, Init, ImageInv
<1>2. ImageInv => SameProgram
  BY DEF ImageInv, SameProgram
<1>3. TypeOK /\ ImageInv /\ [ViewNext]_<<vars, viewVars>> => ImageInv'
  BY ImageStep
<1>4. QED
  BY <1>1, <1>2, <1>3, ViewIsSdb, TypeCorrect, PTL DEF ViewSpec

\* What module Debugger promises is kept by the debugger with dump, too.
THEOREM ViewKeepsPromise ==
  ASSUME Orderly, Once, Spaced, Calm
  PROVE  ViewSpec => DebugsAsPromised
  BY ViewIsSdb, DebugsAsPromisedHolds, PTL
=============================================================================
