------------------------------ MODULE SdbProps ------------------------------
(***************************************************************************)
(* What the debugger of module Sdb is meant to guarantee.                  *)
(***************************************************************************)
EXTENDS Sdb

ChildAlive == child # 0 /\ proc[child] \in Alive

\* A process was forked, and PTRACE_SETOPTIONS not called.
Starting == {"options", "runCont"}

\* The tracee moves only while the debugger is in, or on its way to, a waitpid().
Waiting == {"contWait", "contPeek", "contPoke", "contWait2", "siWait", "siWait2"}

\* Two break points are a word apart, so that POKETEXT at one cannot reach the
\* other.
Spaced ==
  \A a, b \in BreakAddrs \intersect Text : a < b => a + WordSize <= b

\* The bytes a POKETEXT at a break point writes besides the break point.
InShadow(a) ==
  \E b \in BreakAddrs \intersect Text : a \in (b + 1)..(b + WordSize - 1)

-----------------------------------------------------------------------------
(* Memory.                                                                 *)

\* Whenever the debugger waits for a command and the tracee lives, every listed
\* break point is armed: cont and si, which take the 0xcc away to get past it
\* (hw4.cpp:523, 545), have put it back.
Armed ==
  pc = "prompt" /\ ChildAlive =>
    \A p \in points : p.addr \in Text => mem[p.addr] = CC

\* Every byte of the tracee is the file's, or an int3 with a listed break point
\* to account for it, or was clobbered by the word -1 (hw4.cpp:145-146).  So
\* delete gives the program its bytes back.
TextAccounted ==
  ChildAlive => \A a \in Text :
    \/ mem[a] = Orig[a]
    \/ mem[a] = CC /\ a \in AddrOf(points)
    \/ mem[a] = FF /\ InShadow(a)

\* The byte saved for a break point is the one the file has there, never the
\* 0xcc of another insertion (hw4.cpp:567): it is what delete puts back.
OriTrue ==
  ChildAlive => \A p \in points :
    \/ p.addr \notin Text
    \/ p.ori = Orig[p.addr]
    \/ p.ori = FF /\ InShadow(p.addr)

-----------------------------------------------------------------------------
(* Processes.                                                              *)

\* While the debugger reads a command no process it started is running, also
\* none that start() or load() left behind.
QuietAtPrompt ==
  pc \in {"prompt", "options", "runCont", "exited"} => \A p \in Pids : proc[p] # "running"

\* No process outlives the debugger, whichever way it ends (hw4.cpp:484, 605), but the one
\* that start() has forked if the option is not set yet (hw4.cpp:482-484).
NothingOutlives ==
  [][pc' = "exited" => \A p \in Pids :
       proc[p] \in Alive => proc'[p] = "killed" \/ (p = child /\ pc \in Starting)]_vars

\* RUNNING means that there is a stopped tracee to talk to, and there is one to wait for,
\* so that no command ends in "** ptrace error." or "** wait error." (hw4.cpp:156, 194,
\* 257): for tracees that nobody kills and programs that can be executed.
RunningMeansAlive ==
  /\ pc = "prompt" /\ state = "RUNNING" => child # 0 /\ ChildStopped
  /\ pc \notin {"prompt", "exited"} => child # 0 /\ proc[child] # "gone"

-----------------------------------------------------------------------------
(* Stops.                                                                  *)

\* A tracee stopped by the int3 of a listed break point is left with rip on the
\* break point, where the displaced instruction still has to run.
RipRewound ==
  pc = "prompt" /\ ChildAlive /\ trap \in AddrOf(points) \ {0} => tp = trap

\* Once the tracee moved, the int3 that stops it is reported to the user.
StopsReported ==
  pc = "prompt" /\ ChildAlive /\ moved /\ ~derailed /\ trap \in AddrOf(points) \ {0}
    => report = trap

\* A cont or si that an int3 stopped has moved the tracee, or told the user of the break
\* point it is at (hw4.cpp:150-151, 200).
CommandsMove ==
  pc = "prompt" /\ ChildAlive /\ trap \in AddrOf(points) \ {0} => moved \/ report = trap

\* The instruction under a listed break point is executed only as the first one
\* of a command, which is when the user was told that the tracee is there.
NoMissedBreakpoint ==
  [][\A p \in points : ChildMoves /\ tp = p.addr /\ Intact(tp)
                           => ~moved \/ derailed]_vars

\* The step by which a si that left the tracee stopped comes back to the prompt.
SiEnds ==
  /\ pc \in {"siWait", "siWait2"}
  /\ pc' = "prompt"
  /\ ChildStopped'
  /\ origin \in Insns

\* si ends at a successor of the instruction it started at, or with a report
\* of the break point found there, unless a signal came first (hw4.cpp:533-551).
SiAdvances ==
  [][SiEnds /\ ~derailed /\ moved => tp' \in Succ[origin]]_vars

\* A command that resumes the tracee comes back to the prompt, or the debugger
\* ends: it never waits for a tracee that is stopped or gone.  (A tracee that
\* executes clobbered bytes may run for ever.)
CommandReturns ==
  pc \notin {"prompt", "exited"} ~> pc \in {"prompt", "exited"} \/ derailed

-----------------------------------------------------------------------------
(* The debugger implements module Debugger.                                *)

\* An int3 has stopped the tracee, and check_stop() has not seen it.
Unseen == ChildStopped /\ trap # 0 /\ pc \in Waiting

\* Where the tracee is: rip is one too far until then.
Place == IF ~ChildAlive THEN 0 ELSE IF Unseen THEN tp - 1 ELSE tp

Busy ==
  CASE pc \in {"prompt", "options", "exited"}          -> "no"
    [] pc \in {"siWait", "siOver", "siWait2"} /\ moved  -> "done"
    [] pc \in {"siWait", "siOver", "siWait2"} /\ ~moved -> "si"
    [] OTHER                                           -> "cont"

Session ==
  IF pc = "exited" THEN "over"
  ELSE CASE state = "OTHERS" -> "none" [] state = "LOADED" -> "loaded" [] OTHER -> "running"

\* rip_now is where the user was told that the tracee is, while it is there.
Told == rip_now = Place /\ Place # 0

User == INSTANCE Debugger WITH
  session <- Session, breaks <- AddrOf(points), at <- Place, told <- Told, busy <- Busy

\* Breakpoints, with the bytes they displace, lift and put back, work as the user of a
\* debugger expects (hw4.cpp:152-195, 511-577): if no loop leads through a break point and
\* no signal stops the program, see SdbLoopMiss and SdbPinned.
DebugsAsPromised == User!Spec

-----------------------------------------------------------------------------
(* What makes the properties above inductive.                              *)

\* The displaced byte is in place of the 0xcc.
Lifted == {"contPeek", "contPoke", "contWait2", "siWait2"}

\* Only the current tracee ever runs, and all that live die with the debugger, but the one
\* that is being started.
ProcInv ==
  /\ state = "RUNNING" => child # 0
  /\ \A p \in Pids : proc[p] = "running" => p = child /\ pc \in Waiting
  /\ \A p \in Pids : proc[p] \in Alive =>
       pc # "exited" /\ (p \in exitkill \/ (p = child /\ pc \in Starting))

\* Every listed break point is armed but the one that is being stepped over, and
\* no address is listed twice.
ArmedInv ==
  /\ \A p, q \in points : p.addr = q.addr => p = q
  /\ ChildAlive => \A p \in points :
       p.addr \in Text => mem[p.addr] = CC \/ (pc \in Lifted /\ p.addr = addr)

\* Without set rip, the break point reported last is where rip_now is or was
\* stepped over, so a break point is lifted and put back where it is listed.
LiftInv ==
  /\ bpaddr_now \in {0, rip_now}
  /\ pc \in {"contOver", "siOver"} =>
       \E p \in points : p.addr = rip_now /\ p.ori = restore
  /\ pc \in Lifted => addr \in AddrOf(points) \union {0}

\* A stop by an int3 is at a listed break point, and its rip is one too far
\* until check_stop() has seen it.
TrapInv ==
  ChildAlive /\ trap # 0 =>
    IF pc \in Waiting
    THEN ChildStopped => trap \in AddrOf(points) /\ tp = trap + 1
    ELSE tp = trap

\* As long as nobody kills tracees and programs can be executed, there is one whenever
\* the state is RUNNING, and it is stopped unless it is waited for.
AliveInv ==
  /\ pc \notin {"prompt", "exited"} => state = "RUNNING"
  /\ state = "RUNNING" /\ pc # "exited" =>
       child # 0 /\ proc[child] \in {"running", "stopped", "exited"}
  /\ state = "RUNNING" /\ pc \in Starting \union {"prompt", "contOver", "siOver"} => ChildStopped

-----------------------------------------------------------------------------
(* Break points outside of loops, in a program that is started once.       *)

\* Instructions have ranks that never decrease, and increase behind a break point: no loop
\* leads through a break point.
Ranked(rank) ==
  \A i \in Insns : \A j \in Succ[i] \ {Exit} :
    rank[i] <= rank[j] /\ (i \in BreakAddrs => rank[i] # rank[j])

OffLoops == \E rank \in [Insns -> Nat] : Ranked(rank)

\* No instruction starts one byte behind a break point, where rip would be taken for
\* the sign of an int3 (hw4.cpp:163).
Roomy == \A a \in BreakAddrs : a + 1 \notin Insns

\* The tracee lives and has executed instructions of its program only.
Straight == ChildAlive /\ ~derailed

Stepping == {"siWait", "siWait2"}

\* The break point reported last is where the tracee is, or is behind it for good; what
\* cont and si lift is that one, and they do so when the tracee is there.
WhereInv(rank) ==
  /\ rip_now \in BreakAddrs \union {0}
  /\ child = 0 => rip_now = 0 /\ pc \in {"prompt", "exited"}
  /\ child # 0 => proc[child] # "unborn"
  /\ pc \in Waiting => (stepping <=> pc \in Stepping)
  /\ pc \in Lifted => addr \in {0, rip_now}
  /\ Straight =>
       /\ Place \in Insns
       /\ rip_now \in {0, Place} \/ (rip_now \in Insns /\ rank[rip_now] < rank[Place])
       /\ moved /\ pc # "prompt" => rip_now # Place
       /\ pc \in {"contOver", "siOver"} => rip_now = Place

\* A si in progress has executed no instruction, or one, behind which the tracee stands.
SiInv ==
  Straight /\ pc \in Stepping \union {"siOver"} =>
    /\ origin \in Insns
    /\ IF moved THEN ChildStopped /\ trap = 0 /\ Place \in Succ[origin] ELSE Place = origin

\* With one start, the bytes that getcode() read are those of the program that runs.
CodeInv ==
  /\ child = 0 => code = NoProgram
  /\ state = "RUNNING" => code \in {NoProgram, program}

\* The int3 that stopped a tracee that moved has been reported.
ReportInv == pc \in {"prompt", "options"} /\ Straight /\ moved /\ trap # 0 => report = trap

\* If no signal comes, a tracee that is at the break point reported last, and was to leave
\* it, runs and does not meet the 0xcc; what stops a tracee is an int3, or a single step.
PinInv ==
  Straight =>
    /\ rip_now = Place => bpaddr_now = rip_now \/ pc \in Lifted
    /\ rip_now = Place /\ pc \in Lifted => proc[child] = "running" /\ ~IsTrap(tp)
    /\ pc \in Waiting /\ ChildStopped => trap # 0 \/ (pc \in Stepping /\ moved)

\* Instructions do not overlap, a break point is at an instruction, and those that begin or
\* go on in the word at a break point come before any break point behind it.
InOrder(rank) ==
  /\ \A i, j \in Insns : i # j => InsnBytes(i) \intersect InsnBytes(j) = {}
  /\ \A a \in BreakAddrs \intersect Text : a \in Insns
  /\ \A a, b \in BreakAddrs \intersect Insns : rank[a] < rank[b] =>
       \A i \in Insns :
         InsnBytes(i) \intersect (a + 1)..(a + WordSize - 1) # {} => rank[i] < rank[b]

\* If no jump goes backwards and break points are a word apart, the rank is the address.
Orderly == \E rank \in [Insns -> Nat] : Ranked(rank) /\ InOrder(rank)

\* The tracee has passed what the byte belongs to for good.
Behind(rank, a) == \A i \in Insns : a \in InsnBytes(i) => rank[i] < rank[Place]

\* What the word -1 clobbers (hw4.cpp:145-146) is no instruction that is still to come.
ClobberInv(rank) ==
  /\ ~derailed
  /\ ChildAlive => \A a \in Text :
       \/ mem[a] = Orig[a]
       \/ mem[a] = CC /\ a \in AddrOf(points)
       \/ mem[a] = FF /\ Behind(rank, a)
=============================================================================
