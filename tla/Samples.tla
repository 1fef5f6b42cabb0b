------------------------------ MODULE Samples ------------------------------
(***************************************************************************)
(* The sample programs of 0616078_hw3 on top of the library of module      *)
(* LibMini: what each of them calls, one statement after the other, with   *)
(* signals from outside at any time.  What they write is left out, and the *)
(* errno of these writes with it.  The sample "any" is a program that calls*)
(* the library as it likes.                                                *)
(***************************************************************************)
EXTENDS LibMini, Sequences

CONSTANTS
  Programs,  \* the samples that are run, see Body
  Jumps      \* bound: how often jmp1 and jmp2 jump, 10

ASSUME SamplesAssumption ==
  Programs \subseteq {"any", "alarm1", "alarm2", "alarm3", "jmp1", "jmp2"} /\ Jumps \in Nat

VARIABLES
  sample,
  line,      \* the statement it is at
  i,         \* its local: how often setjmp returned from a jump
  os         \* its local: the set that sigprocmask or sigpending filled last

sampleVars == <<sample, line, i, os>>

Alarm1 == <<"alarm", "pause">>
Alarm2 == <<"block", "alarm", "sleep", "sigpending", "tell">>
Alarm3 == <<"block", "ignore", "handle", "alarm", "pause", "sigpending", "tell">>
Jmp1   == <<"setjmp", "funs">>
Jmp2   == <<"block", "setjmp", "unblock", "funs">>

Body ==
  CASE sample = "alarm1" -> Alarm1
    [] sample = "alarm2" -> Alarm2
    [] sample = "alarm3" -> Alarm3
    [] sample = "jmp1"   -> Jmp1
    [] sample = "jmp2"   -> Jmp2
    [] sample = "any"    -> <<"any">>

\* main() has returned.
Over == line > Len(Body)

SampleInit ==
  /\ Init
  /\ sample \in Programs
  /\ line = 1
  /\ i = 0
  /\ os = {}

-----------------------------------------------------------------------------

\* The program, no handler of it, is about to execute statement s.
Reaches(s) == ~died /\ rsp = 1 /\ top.at = "user" /\ ~Over /\ Body[line] = s

\* It executes s, and goes on to the next.
Executes(s) == Reaches(s) /\ line' = line + 1 /\ UNCHANGED <<sample, i>>

\* SIGALRM, the one signal the samples block
Alarms == {SIGALRM}

\* sigpending(&s)
Sigpending ==
  /\ os' = pending \intersect mask
  /\ stack' = Wrapped(0)
  /\ UNCHANGED <<mask, pending, disp, timer, died, rsp, errno, jb>>

\* A statement that calls the library
CallStatement ==
  \/ Executes("block") /\ Sigprocmask("SIG_BLOCK", Alarms) /\ os' = mask
  \/ Executes("unblock") /\ Sigprocmask("SIG_UNBLOCK", Alarms) /\ os' = mask
  \/ Executes("ignore") /\ Signal(SIGALRM, "ign") /\ UNCHANGED os
  \/ Executes("handle") /\ (\E s \in Signals \ Alarms : Signal(s, "function")) /\ UNCHANGED os
  \/ Executes("alarm") /\ Alarm(1) /\ UNCHANGED os
  \/ Executes("pause") /\ Wait("pause") /\ UNCHANGED os
  \/ Executes("sleep") /\ Wait("sleep") /\ UNCHANGED os
  \/ Executes("sigpending") /\ Sigpending
  \/ Executes("tell") /\ UNCHANGED <<vars, os>>
  \/ Executes("setjmp") /\ SetjmpRegisters /\ UNCHANGED os

\* if(i < 10) funs[i](): one of ten functions, which jumps
Funs ==
  \/ i < Jumps /\ Reaches("funs") /\ LongjmpRegisters /\ UNCHANGED sampleVars
  \/ i >= Jumps /\ Executes("funs") /\ UNCHANGED <<vars, os>>

\* Mutant: i, kept in a register and not volatile, is taken back by longjmp.
JumpedTakesBack ==
  /\ sample # "any"
  /\ LongjmpReturns
  /\ \E l \in DOMAIN Body : Body[l] = "setjmp" /\ line' = l + 1
  /\ UNCHANGED <<sample, os, i>>

\* setjmp returns, not 0: i++
Jumped ==
  /\ sample # "any"
  /\ LongjmpReturns
  /\ \E l \in DOMAIN Body : Body[l] = "setjmp" /\ line' = l + 1
  /\ i' = i + 1
  /\ UNCHANGED <<sample, os>>

\* Inside the library, called by a sample.  alarm2 sleeps longer than its alarm takes.
Inside ==
  /\ sample # "any"
  /\ WrapperReturns \/ (SleepEnds /\ ~timer) \/ SetjmpMask \/ LongjmpMask
  /\ UNCHANGED sampleVars

SampleKernel == ~Over /\ Kernel /\ UNCHANGED sampleVars

Anything == sample = "any" /\ Library /\ UNCHANGED sampleVars

Ended == (Over \/ died) /\ UNCHANGED <<vars, sampleVars>>

SampleNext == CallStatement \/ Funs \/ Jumped \/ Inside \/ SampleKernel \/ Anything \/ Ended

\* The program executes, a timer runs out, and a signal that can be delivered is.
SampleFairness ==
  /\ WF_<<vars, sampleVars>>(CallStatement \/ Funs \/ Jumped \/ Inside)
  /\ WF_<<vars, sampleVars>>(~Over /\ ~died /\ AlarmFires /\ UNCHANGED <<errno, jb, sampleVars>>)
  /\ WF_<<vars, sampleVars>>(~Over /\ ~died /\ (\E s \in Signals : Deliver(s))
                               /\ UNCHANGED <<errno, jb, sampleVars>>)

SampleSpec == SampleInit /\ [][SampleNext]_<<vars, sampleVars>> /\ SampleFairness

-----------------------------------------------------------------------------

Stands(s) == ~Over /\ Body[line] = s

\* jmp2 reports "sigalrm was blocked." every time it passes, also behind a jump from
\* where SIGALRM is not blocked any more (jmp2.c:30-46).
JumpBlocked == sample = "jmp2" /\ Stands("funs") => SIGALRM \in os

\* Once the alarm has gone off, alarm2 and alarm3 have it pending: blocked, it neither
\* ends them nor interrupts their sleep, and it is kept even if it is ignored. alarm2
\* always reports it, for its sleep is the longer one (alarm2.c:7-13, alarm3.c:9-16).
AlarmKept ==
  /\ sample \in {"alarm2", "alarm3"} /\ (Over \/ Body[line] \in {"sleep", "pause", "sigpending", "tell"})
       /\ ~timer => SIGALRM \in pending
  /\ sample = "alarm2" /\ Stands("tell") => SIGALRM \in os

\* Every sample ends but alarm3, which waits for somebody to interrupt it: alarm1 also
\* if its alarm goes off before it has come to pause, jmp1 and jmp2 after their jumps
\* (alarm1.c:3-5, jmp1.c:23-27).
SamplesEnd == sample \notin {"any", "alarm3"} ~> Over \/ died

-----------------------------------------------------------------------------
(* What makes these inductive.                                             *)

NoHandlers == \A s \in Signals : disp[s].handler # "function"

\* The mask that jmp2 hands to longjmp is the one from before it unblocked SIGALRM.
Jmp2Inv ==
  sample = "jmp2" =>
    /\ rsp = 1 /\ NoHandlers
    /\ line \in 1..5
    /\ line = 1 => ~jb.ready
    /\ line \in {2, 3} => SIGALRM \in mask
    /\ line = 4 => SIGALRM \in os
    /\ jb.ready => SIGALRM \in jb.mask
    /\ top.at = "setjmp" => line = 3
    /\ top.at = "longjmp" => line = 4 /\ SIGALRM \in jb.mask
    /\ top.at = "jumped" => line = 4 /\ SIGALRM \in mask

\* It has called alarm().
Alarmed == IF sample = "alarm2" THEN line > 2 ELSE line > 4

\* The program, and every handler on its stack, goes on with SIGALRM blocked.
AlarmInv ==
  sample \in {"alarm2", "alarm3"} =>
    /\ line \in 1..(Len(Body) + 1)
    /\ line > 1 => SIGALRM \in mask /\ \A k \in 2..rsp : SIGALRM \in stack[k].saved
    /\ \A k \in 1..MaxDepth : stack[k].at \notin {"setjmp", "longjmp"}
    /\ Alarmed => timer \/ SIGALRM \in pending

\* alarm2 has no handler that could cut its sleep short.
Alarm2Inv ==
  sample = "alarm2" =>
    /\ rsp = 1 /\ NoHandlers
    /\ line = 4 => top.at = "sleep" \/ ~timer
    /\ line = 5 => SIGALRM \in os
=============================================================================
