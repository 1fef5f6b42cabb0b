--------------------------- MODULE SamplesProofs ---------------------------
(***************************************************************************)
(* Theorems about the sample programs of 0616078_hw3: what LibMiniProofs   *)
(* proves of a program that calls the library as it likes holds for the    *)
(* samples, and what jmp2, alarm2 and alarm3 report is what they should,   *)
(* for every set of signals, every depth of the stack, however often they  *)
(* jump and whenever signals arrive.                                       *)
(***************************************************************************)
EXTENDS Samples, LibMiniProofs

-----------------------------------------------------------------------------
(* A step of a sample is a step of the library or the kernel, but for      *)
(* sigpending, which module LibMini does not have.                         *)

LEMMA SampleMoves ==
  ASSUME SampleNext
  PROVE  Library \/ Kernel \/ UNCHANGED vars \/ (Reaches("sigpending") /\ Sigpending)
<1>1. CASE CallStatement
  <2>1. 1 \in 0..1
    OBVIOUS
  <2>2. SIGALRM \in Signals /\ Alarms \in SUBSET Signals
    BY SignalAssumption DEF Alarms
  <2>3. QED
    BY <1>1, <2>1, <2>2, Zenon DEF CallStatement, Executes, Library
<1>2. CASE Funs
  BY <1>2 DEF Funs, Library
<1>3. CASE Jumped \/ Inside \/ Anything
  BY <1>3 DEF Jumped, Inside, Anything, Library
<1>4. CASE SampleKernel \/ Ended
  BY <1>4 DEF SampleKernel, Ended
<1>5. QED
  BY <1>1, <1>2, <1>3, <1>4 DEF SampleNext

LEMMA SigpendingMoves ==
  ASSUME TypeOK, Reaches("sigpending"), Sigpending
  PROVE  TopMoves
<1>1. /\ top \in Activation /\ rsp \in 1..MaxDepth
      /\ stack \in [1..MaxDepth -> Activation] /\ top.at = "user"
  BY TopType DEF TypeOK, KernelTypeOK, Reaches
<1> DEFINE a == [top EXCEPT !.at = "wrap", !.ret = 0]
<1>2. stack' = [stack EXCEPT ![rsp] = a]
  BY <1>1 DEF Sigpending, Wrapped, top
<1>3. a \in Activation
  BY <1>1, RecordType, Numbers DEF Label
<1>4. a.sig = top.sig /\ a.saved = top.saved /\ a.want = top.want /\ a.at = "wrap"
  BY <1>1 DEF Activation
<1>5. UNCHANGED <<mask, rsp, died>>
  BY DEF Sigpending
<1>6. QED
  BY <1>1, <1>2, <1>3, <1>4, <1>5 DEF TopMoves

LEMMA SampleTypeStep ==
  ASSUME TypeOK, [SampleNext]_<<vars, sampleVars>>
  PROVE  TypeOK'
<1>1. CASE Library \/ Kernel \/ UNCHANGED vars
  BY <1>1, TypeStep DEF Next
<1>2. CASE Reaches("sigpending") /\ Sigpending
  <2>1. stack' \in [1..MaxDepth -> Activation]
    BY <1>2, SigpendingMoves DEF TopMoves, TypeOK, KernelTypeOK
  <2>2. QED
    BY <1>2, <2>1 DEF Sigpending, TypeOK, KernelTypeOK
<1>3. QED
  BY <1>1, <1>2, SampleMoves

LEMMA SampleJumpStep ==
  ASSUME TypeOK, JumpInv, [SampleNext]_<<vars, sampleVars>>
  PROVE  JumpInv'
<1>1. CASE Library \/ Kernel \/ UNCHANGED vars
  BY <1>1, JumpInvStep DEF Next
<1>2. CASE Reaches("sigpending") /\ Sigpending
  <2>1. rsp \in 1..MaxDepth /\ stack \in [1..MaxDepth -> Activation]
    BY TopType DEF TypeOK, KernelTypeOK
  <2>2. PICK a \in Activation :
          /\ stack' = [stack EXCEPT ![rsp] = a]
          /\ a.sig = top.sig /\ a.saved = top.saved /\ a.want = top.want
          /\ a.at \notin {"setjmp", "longjmp"} /\ top.at # "longjmp"
    BY <1>2, SigpendingMoves DEF TopMoves
  <2>3. stack'[rsp] = a /\ \A k \in 1..MaxDepth : k # rsp => stack'[k] = stack[k]
    BY <2>1, <2>2
  <2>4. rsp' = rsp /\ mask' = top.want /\ jb' = jb
    BY <1>2, <2>2 DEF Sigpending, JumpInv, MaskOwned
  <2>5. TopGoesOn
    BY <2>2, <2>3, <2>4 DEF TopGoesOn
  <2>6. QED
    BY <2>4, <2>5, GoesOn
<1>3. QED
  BY <1>1, <1>2, SampleMoves

LEMMA SampleJumpInvHolds == SampleSpec => [](TypeOK /\ JumpInv)
<1>1. SampleInit => TypeOK /\ JumpInv
  BY InitType, JumpInvInit DEF SampleInit
<1>2. TypeOK /\ JumpInv /\ [SampleNext]_<<vars, sampleVars>> => (TypeOK /\ JumpInv)'
  BY SampleTypeStep, SampleJumpStep
<1>3. QED
  BY <1>1, <1>2, PTL DEF SampleSpec

\* A signal that a sample has blocked does not interrupt it, also not behind a jump
\* (jmp2.c:36-46, alarm2.c:7-10, libmini64.asm:131-145).
THEOREM SampleSheltered == SampleSpec => []Sheltered
<1>1. JumpInv => Sheltered
  BY DEF JumpInv
<1>2. QED
  BY <1>1, SampleJumpInvHolds, PTL

\* No handler of a sample is interrupted by its own signal (libmini.c:322-326).
THEOREM SampleNoReentry ==
  ASSUME "sigaction_query" \notin Calls
  PROVE  SampleSpec => []NoReentry
<1> DEFINE I == TypeOK /\ JumpInv /\ Deferring /\ Nested
<1>1. SampleInit => I
  <2> SUFFICES ASSUME Init PROVE Deferring /\ Nested
    BY InitType, JumpInvInit DEF SampleInit
  <2>1. Deferring
    BY DEF Init, KernelInit, Deferring, Default
  <2>2. Nested
    BY DEF Init, KernelInit, Nested
  <2>3. QED
    BY <2>1, <2>2
<1>2. I /\ [SampleNext]_<<vars, sampleVars>> => I'
  <2> SUFFICES ASSUME I, [SampleNext]_<<vars, sampleVars>> PROVE I'
    OBVIOUS
  <2>1. TypeOK' /\ JumpInv'
    BY SampleTypeStep, SampleJumpStep
  <2>2. CASE UNCHANGED vars
    BY <2>1, <2>2, NestedKept DEF vars, kernelVars, Deferring
  <2>3. CASE Library \/ Kernel
    BY <2>1, <2>3, DeferringStep, NestedLibrary, NestedKernel DEF Next
  <2>4. CASE Reaches("sigpending") /\ Sigpending
    <3>1. rsp' = 1 /\ UNCHANGED disp
      BY <2>4 DEF Reaches, Sigpending
    <3>2. QED
      BY <2>1, <3>1, NestedAlone DEF Deferring
  <2>5. QED
    BY <2>2, <2>3, <2>4, SampleMoves
<1>3. I => NoReentry
  BY NestedApart
<1>4. QED
  BY <1>1, <1>2, <1>3, PTL DEF SampleSpec

-----------------------------------------------------------------------------
(* What the kernel does to a program that is alone on the stack.           *)

\* Nothing but what is pending, the timer and the end of the process
Untouched == UNCHANGED <<mask, disp, stack, rsp, errno, jb>>

LEMMA KernelAlone ==
  ASSUME TypeOK, rsp = 1, NoHandlers, Kernel
  PROVE  Untouched
<1>1. \A s \in Signals : ~Handle(s)
  BY DEF NoHandlers, Handle
<1>2. ~HandlerReturns
  BY DEF HandlerReturns
<1>3. QED
  BY <1>1, <1>2 DEF Kernel, Raise, AlarmFires, Deliver, Untouched

\* What keeps the library from installing a handler
LEMMA NoHandlersKept ==
  ASSUME NoHandlers, UNCHANGED disp
  PROVE  NoHandlers'
  BY DEF NoHandlers

\* Where a program is that is alone and calls: at a label of its own, or inside a call
LEMMA AtLabel ==
  ASSUME TypeOK, NEW l \in Label, stack' = At(l), rsp' = rsp
  PROVE  top'.at = l /\ top'.want = top.want
<1>1. top \in Activation /\ rsp \in 1..MaxDepth /\ stack \in [1..MaxDepth -> Activation]
  BY TopType DEF TypeOK, KernelTypeOK
<1>2. stack' = [stack EXCEPT ![rsp] = [top EXCEPT !.at = l]]
  BY <1>1 DEF At, top
<1>3. stack'[rsp] = [top EXCEPT !.at = l]
  BY <1>1, <1>2
<1>4. QED
  BY <1>1, <1>3 DEF top, Activation

LEMMA WrappedLabel ==
  ASSUME TypeOK, rsp' = rsp,
         stack' = Wrapped(0) \/ stack' = [Wrapped(0) EXCEPT ![rsp].want = mask']
  PROVE  top'.at = "wrap"
<1>1. top \in Activation /\ rsp \in 1..MaxDepth /\ stack \in [1..MaxDepth -> Activation]
  BY TopType DEF TypeOK, KernelTypeOK
<1>2. CASE stack' = Wrapped(0)
  <2>1. stack'[rsp] = [top EXCEPT !.at = "wrap", !.ret = 0]
    BY <1>1, <1>2 DEF Wrapped, top
  <2>2. QED
    BY <1>1, <2>1 DEF top, Activation
<1>3. CASE stack' = [Wrapped(0) EXCEPT ![rsp].want = mask']
  <2>1. stack'[rsp] = [top EXCEPT !.at = "wrap", !.ret = 0, !.want = mask']
    BY <1>1, <1>3 DEF Wrapped, top
  <2>2. QED
    BY <1>1, <2>1 DEF top, Activation
<1>4. QED
  BY <1>2, <1>3

\* Behind WRAPPER_RETval the program is in its own code again.
LEMMA UserLabel ==
  ASSUME TypeOK, WrapperReturns
  PROVE  top'.at = "user"
<1>1. top \in Activation /\ rsp \in 1..MaxDepth /\ stack \in [1..MaxDepth -> Activation]
  BY TopType DEF TypeOK, KernelTypeOK
<1>2. stack'[rsp] = [top EXCEPT !.at = "user", !.ret = 0] /\ rsp' = rsp
  BY <1>1 DEF WrapperReturns, top
<1>3. QED
  BY <1>1, <1>2 DEF top, Activation

-----------------------------------------------------------------------------
(* jmp2: behind however many jumps, SIGALRM is blocked when setjmp returns.*)

LEMMA Jmp2Lines ==
  ASSUME sample = "jmp2", line \in 1..5
  PROVE  /\ Over <=> line = 5
         /\ Body[1] = "block" /\ Body[2] = "setjmp"
         /\ Body[3] = "unblock" /\ Body[4] = "funs"
         /\ \A s : ~Over /\ Body[line] = s =>
              \/ line = 1 /\ s = "block"
              \/ line = 2 /\ s = "setjmp"
              \/ line = 3 /\ s = "unblock"
              \/ line = 4 /\ s = "funs"
<1>1. Body = Jmp2
  BY DEF Body
<1>2. Len(Jmp2) = 4
  BY DEF Jmp2
<1>3. Over <=> line = 5
  BY <1>1, <1>2 DEF Over
<1>4. Jmp2[1] = "block" /\ Jmp2[2] = "setjmp" /\ Jmp2[3] = "unblock" /\ Jmp2[4] = "funs"
  BY DEF Jmp2
<1>5. ~Over => line = 1 \/ line = 2 \/ line = 3 \/ line = 4
  BY <1>3
<1>6. QED
  BY <1>1, <1>3, <1>4, <1>5

\* What jmp2 does next, line by line
LEMMA Jmp2Statement ==
  ASSUME sample = "jmp2", line \in 1..5, CallStatement \/ Funs
  PROVE  /\ ~died /\ rsp = 1 /\ top.at = "user"
         /\ UNCHANGED sample
         /\ \/ line = 1 /\ line' = 2 /\ Sigprocmask("SIG_BLOCK", Alarms) /\ os' = mask
            \/ line = 2 /\ line' = 3 /\ SetjmpRegisters /\ UNCHANGED os
            \/ line = 3 /\ line' = 4 /\ Sigprocmask("SIG_UNBLOCK", Alarms) /\ os' = mask
            \/ line = 4 /\ line' = 4 /\ LongjmpRegisters /\ UNCHANGED os
            \/ line = 4 /\ line' = 5 /\ UNCHANGED <<vars, os>>
<1>1. \A s : Reaches(s) => \/ line = 1 /\ s = "block"
                           \/ line = 2 /\ s = "setjmp"
                           \/ line = 3 /\ s = "unblock"
                           \/ line = 4 /\ s = "funs"
  BY Jmp2Lines DEF Reaches
<1>2. CASE Funs
  <2>1. Reaches("funs") /\ line = 4
    BY <1>1, <1>2 DEF Funs, Executes
  <2>2. QED
    BY <1>2, <2>1 DEF Funs, Executes, Reaches, sampleVars
<1>3. CASE CallStatement
  <2>1. \A s \in {"block", "unblock", "ignore", "handle", "alarm", "pause", "sleep",
                  "sigpending", "tell", "setjmp"} :
          Executes(s) => s \in {"block", "setjmp", "unblock"} /\ line' = line + 1
                          /\ UNCHANGED sample /\ Reaches(s)
                          /\ (s = "block" => line = 1) /\ (s = "setjmp" => line = 2)
                          /\ (s = "unblock" => line = 3)
    BY <1>1 DEF Executes
  <2>2. \/ Executes("block") /\ Sigprocmask("SIG_BLOCK", Alarms) /\ os' = mask
        \/ Executes("unblock") /\ Sigprocmask("SIG_UNBLOCK", Alarms) /\ os' = mask
        \/ Executes("setjmp") /\ SetjmpRegisters /\ UNCHANGED os
    BY <1>3, <2>1 DEF CallStatement
  <2>3. QED
    BY <2>1, <2>2 DEF Reaches
<1>4. QED
  BY <1>2, <1>3

LEMMA Jmp2Step ==
  ASSUME TypeOK, Jmp2Inv, [SampleNext]_<<vars, sampleVars>>
  PROVE  Jmp2Inv'
<1> SUFFICES ASSUME sample' = "jmp2" PROVE Jmp2Inv'
  BY DEF Jmp2Inv
<1>1. sample = "jmp2"
  BY DEF SampleNext, CallStatement, Executes, Funs, sampleVars, Jumped, Inside, SampleKernel,
         Anything, Ended
<1>2. /\ rsp = 1 /\ NoHandlers /\ line \in 1..5
      /\ line = 1 => ~jb.ready
      /\ line \in {2, 3} => SIGALRM \in mask
      /\ line = 4 => SIGALRM \in os
      /\ jb.ready => SIGALRM \in jb.mask
      /\ top.at = "setjmp" => line = 3
      /\ top.at = "longjmp" => line = 4 /\ SIGALRM \in jb.mask
      /\ top.at = "jumped" => line = 4 /\ SIGALRM \in mask
  BY <1>1 DEF Jmp2Inv
<1>3. CASE CallStatement \/ Funs
  <2>1. CASE line = 1 /\ line' = 2 /\ Sigprocmask("SIG_BLOCK", Alarms)
    <3>1. mask' = mask \union Alarms /\ UNCHANGED <<rsp, disp, jb>>
      BY <2>1 DEF Sigprocmask, Procmask
    <3>2. top'.at = "wrap"
      BY <2>1, WrappedLabel DEF Sigprocmask
    <3>3. QED
      BY <1>2, <2>1, <3>1, <3>2, NoHandlersKept DEF Jmp2Inv, Alarms
  <2>2. CASE line = 2 /\ line' = 3 /\ SetjmpRegisters /\ UNCHANGED os
    <3>1. top'.at = "setjmp"
      BY <2>2, AtLabel DEF SetjmpRegisters, Label
    <3>2. UNCHANGED <<rsp, disp, mask>> /\ ~jb'.ready
      BY <2>2 DEF SetjmpRegisters, TypeOK
    <3>3. QED
      BY <1>2, <2>2, <3>1, <3>2, NoHandlersKept DEF Jmp2Inv
  <2>3. CASE line = 3 /\ line' = 4 /\ Sigprocmask("SIG_UNBLOCK", Alarms) /\ os' = mask
    <3>1. top'.at = "wrap"
      BY <2>3, WrappedLabel DEF Sigprocmask
    <3>2. QED
      BY <1>2, <2>3, <3>1, NoHandlersKept DEF Sigprocmask, Jmp2Inv
  <2>4. CASE line = 4 /\ line' = 4 /\ LongjmpRegisters /\ UNCHANGED os
    <3>1. jb.ready /\ rsp' = 1 /\ UNCHANGED <<mask, disp, jb>>
      BY <2>4 DEF LongjmpRegisters
    <3>2. top'.at = "longjmp"
      <4>1. stack'[1] = [stack[1] EXCEPT !.at = "longjmp", !.ret = 0, !.backup = 0]
        BY <2>4, SignalAssumption DEF LongjmpRegisters, Unwound
      <4>2. stack[1] \in Activation
        BY SignalAssumption DEF TypeOK, KernelTypeOK
      <4>3. QED
        BY <3>1, <4>1, <4>2 DEF top, Activation
    <3>3. QED
      BY <1>2, <2>4, <3>1, <3>2, NoHandlersKept DEF Jmp2Inv
  <2>5. CASE line = 4 /\ line' = 5 /\ UNCHANGED <<vars, os>> /\ top.at = "user"
    <3>1. top' = top
      BY <2>5 DEF vars, kernelVars, top
    <3>2. QED
      BY <1>2, <2>5, <3>1, NoHandlersKept DEF Jmp2Inv, vars, kernelVars
  <2>6. QED
    BY <1>1, <1>2, <1>3, <2>1, <2>2, <2>3, <2>4, <2>5, Jmp2Statement
<1>4. CASE Jumped
  <2>1. line' = 3 /\ top.at = "jumped" /\ UNCHANGED <<mask, rsp, disp, jb>>
    BY <1>1, <1>4 DEF Jumped, LongjmpReturns, Body, Jmp2
  <2>2. top'.at = "user"
    BY <1>4, AtLabel DEF Jumped, LongjmpReturns, Label
  <2>3. QED
    BY <1>2, <2>1, <2>2, NoHandlersKept DEF Jmp2Inv
<1>5. CASE Inside
  <2>1. UNCHANGED <<sampleVars, rsp, disp>>
    BY <1>5 DEF Inside, WrapperReturns, SleepEnds, SetjmpMask, LongjmpMask
  <2>2. CASE WrapperReturns \/ SleepEnds
    <3>1. top'.at = "user"
      BY <2>2, UserLabel, AtLabel DEF SleepEnds, Label
    <3>2. UNCHANGED <<mask, jb>>
      BY <2>2 DEF WrapperReturns, SleepEnds
    <3>3. QED
      BY <1>2, <2>1, <3>1, <3>2, NoHandlersKept DEF Jmp2Inv, sampleVars
  <2>3. CASE SetjmpMask
    <3>1. top'.at = "user" /\ top.at = "setjmp"
      BY <2>3, AtLabel DEF SetjmpMask, Label
    <3>2. mask' = mask /\ jb'.mask = mask
      BY <2>3 DEF SetjmpMask, TypeOK
    <3>3. QED
      BY <1>2, <2>1, <3>1, <3>2, NoHandlersKept DEF Jmp2Inv, sampleVars
  <2>4. CASE LongjmpMask
    <3>1. top.at = "longjmp" /\ mask' = jb.mask /\ UNCHANGED jb
      BY <2>4, Zenon DEF LongjmpMask, Procmask
    <3>2. top'.at = "jumped"
      <4>1. top \in Activation /\ rsp \in 1..MaxDepth
            /\ stack \in [1..MaxDepth -> Activation]
        BY TopType DEF TypeOK, KernelTypeOK
      <4>2. stack'[rsp] = [top EXCEPT !.at = "jumped", !.want = jb.want]
        BY <2>4, <4>1 DEF LongjmpMask, top
      <4>3. QED
        BY <2>1, <4>1, <4>2 DEF top, Activation
    <3>3. QED
      BY <1>2, <2>1, <3>1, <3>2, NoHandlersKept DEF Jmp2Inv, sampleVars
  <2>5. QED
    BY <1>5, <2>2, <2>3, <2>4 DEF Inside
<1>6. CASE SampleKernel
  <2>1. Untouched /\ UNCHANGED sampleVars
    BY <1>2, <1>6, KernelAlone DEF SampleKernel
  <2>2. top' = top
    BY <2>1 DEF Untouched, top
  <2>3. QED
    BY <1>2, <2>1, <2>2, NoHandlersKept DEF Jmp2Inv, sampleVars, Untouched
<1>7. CASE UNCHANGED <<vars, sampleVars>>
  <2>1. top' = top
    BY <1>7 DEF vars, kernelVars, top
  <2>2. QED
    BY <1>2, <1>7, <2>1, NoHandlersKept DEF Jmp2Inv, sampleVars, vars, kernelVars
<1>8. QED
  BY <1>1, <1>3, <1>4, <1>5, <1>6, <1>7 DEF SampleNext, Anything, Ended

\* jmp2 reports that SIGALRM was blocked each of the times it passes, also behind a jump
\* from where SIGALRM is not blocked any more (jmp2.c:30-46, libmini64.asm:103-145).
THEOREM JumpBlockedHolds == SampleSpec => []JumpBlocked
<1>1. SampleInit => TypeOK /\ Jmp2Inv
  <2> SUFFICES ASSUME SampleInit PROVE Jmp2Inv
    BY InitType DEF SampleInit
  <2>1. rsp = 1 /\ line = 1 /\ ~jb.ready /\ NoHandlers
    BY DEF SampleInit, Init, KernelInit, NoHandlers, Default
  <2>2. top.at = "user"
    BY <2>1, SignalAssumption DEF SampleInit, Init, KernelInit, top, Idle
  <2>3. QED
    BY <2>1, <2>2 DEF Jmp2Inv
<1>2. TypeOK /\ Jmp2Inv /\ [SampleNext]_<<vars, sampleVars>> => (TypeOK /\ Jmp2Inv)'
  BY SampleTypeStep, Jmp2Step
<1>3. Jmp2Inv => JumpBlocked
  <2> SUFFICES ASSUME Jmp2Inv, sample = "jmp2", Stands("funs") PROVE SIGALRM \in os
    BY DEF JumpBlocked
  <2>1. line = 4
    BY Jmp2Lines DEF Jmp2Inv, Stands
  <2>2. QED
    BY <2>1 DEF Jmp2Inv
<1>4. QED
  BY <1>1, <1>2, <1>3, PTL DEF SampleSpec

-----------------------------------------------------------------------------
(* alarm2 and alarm3: SIGALRM, blocked before the alarm is set, is kept.   *)

Blocker == sample \in {"alarm2", "alarm3"}

LEMMA Alarm2Lines ==
  ASSUME sample = "alarm2", line \in 1..6
  PROVE  /\ Len(Body) = 5
         /\ Over <=> line = 6
         /\ \A s : ~Over /\ Body[line] = s =>
              \/ line = 1 /\ s = "block"
              \/ line = 2 /\ s = "alarm"
              \/ line = 3 /\ s = "sleep"
              \/ line = 4 /\ s = "sigpending"
              \/ line = 5 /\ s = "tell"
<1>1. Body = Alarm2
  BY DEF Body
<1>2. Len(Alarm2) = 5
  BY DEF Alarm2
<1>3. Over <=> line = 6
  BY <1>1, <1>2 DEF Over
<1>4. /\ Alarm2[1] = "block" /\ Alarm2[2] = "alarm" /\ Alarm2[3] = "sleep"
      /\ Alarm2[4] = "sigpending" /\ Alarm2[5] = "tell"
  BY DEF Alarm2
<1>5. ~Over => line = 1 \/ line = 2 \/ line = 3 \/ line = 4 \/ line = 5
  BY <1>3
<1>6. QED
  BY <1>1, <1>2, <1>3, <1>4, <1>5

LEMMA Alarm3Lines ==
  ASSUME sample = "alarm3", line \in 1..8
  PROVE  /\ Len(Body) = 7
         /\ Over <=> line = 8
         /\ \A s : ~Over /\ Body[line] = s =>
              \/ line = 1 /\ s = "block"
              \/ line = 2 /\ s = "ignore"
              \/ line = 3 /\ s = "handle"
              \/ line = 4 /\ s = "alarm"
              \/ line = 5 /\ s = "pause"
              \/ line = 6 /\ s = "sigpending"
              \/ line = 7 /\ s = "tell"
<1>1. Body = Alarm3
  BY DEF Body
<1>2. Len(Alarm3) = 7
  BY DEF Alarm3
<1>3. Over <=> line = 8
  BY <1>1, <1>2 DEF Over
<1>4. /\ Alarm3[1] = "block" /\ Alarm3[2] = "ignore" /\ Alarm3[3] = "handle"
      /\ Alarm3[4] = "alarm" /\ Alarm3[5] = "pause" /\ Alarm3[6] = "sigpending"
      /\ Alarm3[7] = "tell"
  BY DEF Alarm3
<1>5. ~Over => \/ line = 1 \/ line = 2 \/ line = 3 \/ line = 4 \/ line = 5 \/ line = 6
               \/ line = 7
  BY <1>3
<1>6. QED
  BY <1>1, <1>2, <1>3, <1>4, <1>5

\* What both do: they block SIGALRM first; only alarm3 ignores it, before the alarm.
LEMMA BlockerLines ==
  ASSUME Blocker, line \in 1..(Len(Body) + 1), NEW s, Reaches(s)
  PROVE  /\ line \in 1..Len(Body)
         /\ s \in {"block", "ignore", "handle", "alarm", "sleep", "pause", "sigpending", "tell"}
         /\ s = "block" <=> line = 1
         /\ s = "ignore" => ~Alarmed /\ line = 2
         /\ s = "alarm" => line # 1
         /\ Alarmed => line # 1
         /\ s # "alarm" => (line < Len(Body) /\ sample = "alarm2" => line + 1 # 3)
                           /\ (sample = "alarm3" => line + 1 # 5)
<1>1. CASE sample = "alarm2"
  <2>1. Body = Alarm2 /\ Len(Alarm2) = 5
    BY <1>1 DEF Body, Alarm2
  <2>2. line \in 1..6
    BY <2>1
  <2>3. QED
    BY <1>1, <2>1, <2>2, Alarm2Lines DEF Reaches, Alarmed
<1>2. CASE sample = "alarm3"
  <2>1. Body = Alarm3 /\ Len(Alarm3) = 7
    BY <1>2 DEF Body, Alarm3
  <2>2. line \in 1..8
    BY <2>1
  <2>3. QED
    BY <1>2, <2>1, <2>2, Alarm3Lines DEF Reaches, Alarmed
<1>3. QED
  BY <1>1, <1>2 DEF Blocker

\* What a statement of theirs does
LEMMA BlockerStatement ==
  ASSUME Blocker, line \in 1..(Len(Body) + 1), CallStatement \/ Funs
  PROVE  /\ ~died /\ rsp = 1 /\ top.at = "user" /\ rsp' = 1
         /\ line' = line + 1 /\ line' \in 1..(Len(Body) + 1)
         /\ UNCHANGED <<sample, jb>>
         /\ \/ Reaches("block") /\ Sigprocmask("SIG_BLOCK", Alarms) /\ os' = mask
            \/ Reaches("ignore") /\ Signal(SIGALRM, "ign") /\ UNCHANGED os
            \/ Reaches("handle") /\ (\E s \in Signals \ Alarms : Signal(s, "function"))
                 /\ UNCHANGED os
            \/ Reaches("alarm") /\ Alarm(1) /\ UNCHANGED os
            \/ Reaches("pause") /\ Wait("pause") /\ UNCHANGED os
            \/ Reaches("sleep") /\ Wait("sleep") /\ UNCHANGED os
            \/ Reaches("sigpending") /\ Sigpending
            \/ Reaches("tell") /\ UNCHANGED <<vars, os>>
<1>1. ~Reaches("funs") /\ ~Reaches("setjmp") /\ ~Reaches("unblock")
  <2>1. "funs" \notin {"block", "ignore", "handle", "alarm", "sleep", "pause", "sigpending", "tell"}
    OBVIOUS
  <2>2. /\ "setjmp" \notin {"block", "ignore", "handle", "alarm", "sleep", "pause", "sigpending", "tell"}
        /\ "unblock" \notin {"block", "ignore", "handle", "alarm", "sleep", "pause", "sigpending", "tell"}
    OBVIOUS
  <2>3. QED
    BY <2>1, <2>2, BlockerLines
<1>2. CallStatement
  BY <1>1 DEF Funs, Executes
<1>3. /\ \/ Reaches("block") /\ Sigprocmask("SIG_BLOCK", Alarms) /\ os' = mask
         \/ Reaches("ignore") /\ Signal(SIGALRM, "ign") /\ UNCHANGED os
         \/ Reaches("handle") /\ (\E s \in Signals \ Alarms : Signal(s, "function"))
              /\ UNCHANGED os
         \/ Reaches("alarm") /\ Alarm(1) /\ UNCHANGED os
         \/ Reaches("pause") /\ Wait("pause") /\ UNCHANGED os
         \/ Reaches("sleep") /\ Wait("sleep") /\ UNCHANGED os
         \/ Reaches("sigpending") /\ Sigpending
         \/ Reaches("tell") /\ UNCHANGED <<vars, os>>
      /\ line' = line + 1 /\ UNCHANGED sample
  BY <1>1, <1>2 DEF CallStatement, Executes
<1>4. \E s : Reaches(s)
  BY <1>3
<1>5. ~died /\ rsp = 1 /\ top.at = "user"
  BY <1>4 DEF Reaches
<1>6. UNCHANGED <<rsp, jb>>
  BY <1>3 DEF Sigprocmask, Signal, Alarm, Wait, Sigpending, vars, kernelVars
<1>7. line \in 1..Len(Body) /\ Len(Body) \in Nat
  <2>1. Len(Body) \in Nat
    BY DEF Blocker, Body, Alarm2, Alarm3
  <2>2. QED
    BY <2>1, <1>4, BlockerLines
<1>8. QED
  BY <1>3, <1>5, <1>6, <1>7

-----------------------------------------------------------------------------
(* The parts of AlarmInv.                                                  *)

Lined == line \in 1..(Len(Body) + 1)

Blocked == line > 1 => SIGALRM \in mask /\ \A k \in 2..rsp : SIGALRM \in stack[k].saved

NoJump == \A k \in 1..MaxDepth : stack[k].at \notin {"setjmp", "longjmp"}

Expected == Alarmed => timer \/ SIGALRM \in pending

LEMMA AlarmParts == AlarmInv <=> (Blocker => Lined /\ Blocked /\ NoJump /\ Expected)
  BY DEF AlarmInv, Blocker, Lined, Blocked, NoJump, Expected

LEMMA AlarmedPastFirst ==
  ASSUME Blocker, Alarmed, Lined
  PROVE  line > 1
<1>1. line \in Nat
  <2>1. Len(Body) \in Nat
    BY DEF Blocker, Body, Alarm2, Alarm3
  <2>2. QED
    BY <2>1 DEF Lined
<1>2. QED
  BY <1>1 DEF Blocker, Alarmed

\* Calls without a jump do not bring the program to one.
LEMMA NoJumpKept ==
  ASSUME TypeOK, NoJump,
         \/ \E l \in {"user", "pause", "sleep"} : stack' = At(l)
         \/ stack' = Wrapped(0)
         \/ stack' = [Wrapped(0) EXCEPT ![rsp].want = mask']
         \/ WrapperReturns
         \/ UNCHANGED stack
  PROVE  NoJump'
<1>1. /\ top \in Activation /\ rsp \in 1..MaxDepth
      /\ stack \in [1..MaxDepth -> Activation]
  BY TopType DEF TypeOK, KernelTypeOK
<1>2. ASSUME NEW a \in Activation, a.at \notin {"setjmp", "longjmp"},
             stack' = [stack EXCEPT ![rsp] = a]
      PROVE  NoJump'
  BY <1>1, <1>2 DEF NoJump
<1>3. ASSUME NEW l \in {"user", "pause", "sleep"}, stack' = At(l) PROVE NoJump'
  <2> DEFINE a == [top EXCEPT !.at = l]
  <2>1. a \in Activation
    BY <1>1, RecordType, Numbers DEF Label
  <2>2. a.at = l
    BY <1>1 DEF Activation
  <2>3. stack' = [stack EXCEPT ![rsp] = a]
    BY <1>1, <1>3 DEF At, top
  <2>4. QED
    BY <1>2, <2>1, <2>2, <2>3
<1>4. CASE stack' = Wrapped(0)
  <2> DEFINE a == [top EXCEPT !.at = "wrap", !.ret = 0]
  <2>1. a \in Activation
    BY <1>1, RecordType, Numbers DEF Label
  <2>2. a.at = "wrap"
    BY <1>1 DEF Activation
  <2>3. stack' = [stack EXCEPT ![rsp] = a]
    BY <1>1, <1>4 DEF Wrapped, top
  <2>4. QED
    BY <1>2, <2>1, <2>2, <2>3
<1>5. CASE stack' = [Wrapped(0) EXCEPT ![rsp].want = mask']
  <2> DEFINE a == [top EXCEPT !.at = "wrap", !.ret = 0, !.want = mask']
  <2>1. stack' = [stack EXCEPT ![rsp] = a]
    BY <1>1, <1>5 DEF Wrapped, top
  <2>2. a.at = "wrap"
    BY <1>1 DEF Activation
  <2>3. QED
    BY <1>1, <2>1, <2>2 DEF NoJump
<1>6. CASE WrapperReturns
  <2> DEFINE a == [top EXCEPT !.at = "user", !.ret = 0]
  <2>1. a \in Activation
    BY <1>1, RecordType, Numbers DEF Label
  <2>2. a.at = "user"
    BY <1>1 DEF Activation
  <2>3. stack' = [stack EXCEPT ![rsp] = a]
    BY <1>1, <1>6 DEF WrapperReturns, top
  <2>4. QED
    BY <1>2, <2>1, <2>2, <2>3
<1>7. CASE UNCHANGED stack
  BY <1>7 DEF NoJump
<1>8. QED
  BY <1>3, <1>4, <1>5, <1>6, <1>7

LEMMA AlarmStatement ==
  ASSUME TypeOK, Blocker, Lined, Blocked, NoJump, Expected, CallStatement \/ Funs
  PROVE  Lined' /\ Blocked' /\ NoJump' /\ Expected'
<1>1. /\ rsp = 1 /\ rsp' = 1 /\ line' = line + 1 /\ line' \in 1..(Len(Body) + 1)
      /\ UNCHANGED sample
  BY BlockerStatement DEF Lined
<1>2. line \in 1..(Len(Body) + 1) /\ Len(Body) \in Nat /\ line \in Nat
  <2>1. Len(Body) \in Nat
    BY DEF Blocker, Body, Alarm2, Alarm3
  <2>2. QED
    BY <2>1 DEF Lined
<1>3. Lined'
  BY <1>1 DEF Lined, Body
<1>4. SIGALRM \in mask'
  <2>1. CASE Reaches("block") /\ Sigprocmask("SIG_BLOCK", Alarms)
    BY <2>1 DEF Sigprocmask, Procmask, Alarms
  <2>2. CASE ~Reaches("block")
    <3>1. UNCHANGED mask /\ \E s : Reaches(s)
      BY <1>2, <2>2, BlockerStatement
      DEF Signal, Alarm, Wait, Sigpending, vars, kernelVars
    <3>2. PICK s : Reaches(s)
      BY <3>1
    <3>3. line = 1 => s = "block"
      BY <1>2, <3>2, BlockerLines
    <3>4. line > 1
      BY <1>2, <2>2, <3>2, <3>3
    <3>5. QED
      BY <3>1, <3>4 DEF Blocked
  <2>3. QED
    BY <1>2, <2>1, <2>2, BlockerStatement, BlockerLines
<1>5. Blocked'
  BY <1>1, <1>4 DEF Blocked
<1>6. NoJump'
  BY <1>2, BlockerStatement, NoJumpKept
  DEF Sigprocmask, Signal, Alarm, Wait, Sigpending, vars, kernelVars
<1>7. Expected'
  <2>1. CASE Reaches("alarm") /\ Alarm(1)
    <3>1. 1 > 0
      OBVIOUS
    <3>2. timer' = (1 > 0)
      BY <2>1, Zenon DEF Alarm
    <3>3. timer'
      BY <3>1, <3>2, Zenon
    <3>4. QED
      BY <3>3, Zenon DEF Expected
  <2>2. CASE Reaches("ignore")
    <3>1. ~Alarmed'
      <4>1. ~Alarmed /\ line = 2
        BY <1>2, <2>2, BlockerLines
      <4>2. sample = "alarm3"
        BY <1>2, <2>2, <4>1, Alarm2Lines DEF Blocker, Reaches, Body, Alarm2
      <4>3. QED
        BY <1>1, <4>1, <4>2 DEF Alarmed
    <3>2. QED
      BY <3>1 DEF Expected
  <2>3. ASSUME UNCHANGED <<timer, pending>>, NEW s, Reaches(s), s # "alarm"
        PROVE  Expected'
    <3>1. Alarmed' => Alarmed
      <4>1. CASE sample = "alarm2"
        <5>1. line \in 1..6
          BY <1>2, <4>1 DEF Body, Alarm2
        <5>2. line # 2
          BY <2>3, <4>1, <5>1, Alarm2Lines DEF Reaches
        <5>3. QED
          BY <1>1, <4>1, <5>1, <5>2 DEF Alarmed
      <4>2. CASE sample = "alarm3"
        <5>1. line \in 1..8
          BY <1>2, <4>2 DEF Body, Alarm3
        <5>2. line # 4
          BY <2>3, <4>2, <5>1, Alarm3Lines DEF Reaches
        <5>3. QED
          BY <1>1, <4>2, <5>1, <5>2 DEF Alarmed
      <4>3. QED
        BY <4>1, <4>2 DEF Blocker
    <3>2. QED
      BY <2>3, <3>1 DEF Expected
  <2>4. CASE Reaches("handle") /\ \E s \in Signals \ Alarms : Signal(s, "function")
    <3>1. UNCHANGED <<timer, pending>>
      BY <2>4 DEF Signal, Install
    <3>2. QED
      BY <2>3, <2>4, <3>1
  <2>5. CASE \/ Reaches("block") /\ Sigprocmask("SIG_BLOCK", Alarms)
             \/ Reaches("pause") /\ Wait("pause")
             \/ Reaches("sleep") /\ Wait("sleep")
             \/ Reaches("sigpending") /\ Sigpending
             \/ Reaches("tell") /\ UNCHANGED vars
    <3>1. UNCHANGED <<timer, pending>>
      BY <2>5 DEF Sigprocmask, Wait, Sigpending, vars, kernelVars
    <3>2. \E s : Reaches(s) /\ s # "alarm"
      BY <2>5
    <3>3. QED
      BY <2>3, <3>1, <3>2
  <2>6. QED
    BY <1>2, <2>1, <2>2, <2>4, <2>5, BlockerStatement
<1>8. QED
  BY <1>3, <1>5, <1>6, <1>7

\* A signal that is blocked is not lost.
LEMMA AlarmKernel ==
  ASSUME TypeOK, Blocker, Lined, Blocked, NoJump, Expected, Kernel, UNCHANGED sampleVars
  PROVE  Lined' /\ Blocked' /\ NoJump' /\ Expected'
<1>1. /\ rsp \in 1..MaxDepth /\ MaxDepth \in Nat \ {0}
      /\ stack \in [1..MaxDepth -> Activation]
  BY TopType, SignalAssumption DEF TypeOK, KernelTypeOK
<1>2. Lined' /\ (Alarmed' <=> Alarmed)
  BY DEF Lined, Body, Alarmed, sampleVars
<1>3. line' = line /\ (Alarmed => line > 1)
  BY AlarmedPastFirst DEF sampleVars
<1>4. ASSUME UNCHANGED <<mask, stack, rsp>> PROVE Blocked' /\ NoJump'
  BY <1>3, <1>4, NoJumpKept DEF Blocked
<1>5. ASSUME NEW s \in Signals, Deliver(s), Handle(s)
      PROVE  Blocked' /\ NoJump'
  <2>1. NoJump'
    <3>1. stack'[rsp].at \notin {"setjmp", "longjmp"}
      BY <1>1, <1>5, HandleEffect DEF NoJump, top
    <3>2. stack'[rsp + 1].at = "user"
      BY <1>5, HandleEffect
    <3>3. \A k \in 1..MaxDepth : k # rsp /\ k # rsp + 1 => stack'[k] = stack[k]
      BY <1>5, HandleEffect
    <3>4. QED
      BY <3>1, <3>2, <3>3 DEF NoJump
  <2>2. ASSUME line > 1 PROVE SIGALRM \in mask' /\ \A k \in 2..rsp' : SIGALRM \in stack'[k].saved
    <3>1. SIGALRM \in mask /\ \A k \in 2..rsp : SIGALRM \in stack[k].saved
      BY <2>2 DEF Blocked
    <3>2. mask \subseteq mask' /\ rsp' = rsp + 1 /\ rsp + 1 \in 1..MaxDepth
      BY <1>5, HandleEffect DEF HandlerMask
    <3>3. stack'[rsp + 1].saved = mask /\ stack'[rsp].saved = stack[rsp].saved
      BY <1>5, HandleEffect DEF top
    <3>4. \A k \in 1..MaxDepth : k # rsp /\ k # rsp + 1 => stack'[k] = stack[k]
      BY <1>5, HandleEffect
    <3>5. QED
      BY <1>1, <3>1, <3>2, <3>3, <3>4
  <2>3. QED
    BY <1>3, <2>1, <2>2 DEF Blocked
<1>6. CASE HandlerReturns
  <2>1. /\ rsp > 1 /\ rsp' = rsp - 1 /\ mask' = stack[rsp].saved
        /\ stack' = [stack EXCEPT ![rsp] = Idle] /\ UNCHANGED <<pending, timer>>
    BY <1>6 DEF HandlerReturns, top
  <2>2. \A k \in 1..MaxDepth : stack'[k] = IF k = rsp THEN Idle ELSE stack[k]
    BY <1>1, <2>1
  <2>3. NoJump'
    BY <2>2 DEF NoJump, Idle
  <2>4. Blocked'
    BY <1>1, <1>3, <2>1, <2>2 DEF Blocked
  <2>5. Expected'
    BY <1>2, <2>1 DEF Expected
  <2>6. QED
    BY <1>2, <2>3, <2>4, <2>5
<1>7. ASSUME NEW s \in Signals, Raise(s) PROVE Expected'
  <2>1. pending \subseteq pending' /\ UNCHANGED timer
    BY <1>7 DEF Raise, Raised
  <2>2. QED
    BY <1>2, <2>1 DEF Expected
<1>8. ASSUME AlarmFires PROVE Expected'
  <2>1. Alarmed => SIGALRM \in mask
    BY <1>3 DEF Blocked
  <2>2. Alarmed => SIGALRM \in pending'
    BY <1>8, <2>1 DEF AlarmFires, Raised
  <2>3. QED
    BY <1>2, <2>2 DEF Expected
<1>9. ASSUME NEW s \in Signals, Deliver(s) PROVE Expected'
  <2>1. UNCHANGED timer
    BY <1>9 DEF Deliver, Handle
  <2>2. Alarmed => s # SIGALRM
    BY <1>3, <1>9 DEF Blocked, Deliver
  <2>3. pending' = pending \ {s}
    BY <1>9 DEF Deliver
  <2>4. QED
    BY <1>2, <2>1, <2>2, <2>3 DEF Expected
<1>10. QED
  BY <1>2, <1>4, <1>5, <1>6, <1>7, <1>8, <1>9 DEF Kernel, Raise, AlarmFires, Deliver

LEMMA AlarmStep ==
  ASSUME TypeOK, AlarmInv, [SampleNext]_<<vars, sampleVars>>
  PROVE  AlarmInv'
<1> SUFFICES ASSUME Blocker' PROVE (Lined /\ Blocked /\ NoJump /\ Expected)'
  BY DEF AlarmInv, Blocker, Lined, Blocked, NoJump, Expected
<1>1. sample' = sample
  BY DEF SampleNext, CallStatement, Executes, Funs, sampleVars, Jumped, Inside, SampleKernel,
         Anything, Ended
<1>2. Blocker /\ Lined /\ Blocked /\ NoJump /\ Expected
  BY <1>1, AlarmParts DEF Blocker
<1>3. CASE CallStatement \/ Funs
  BY <1>2, <1>3, AlarmStatement
<1>4. ASSUME UNCHANGED <<sampleVars, mask, rsp, pending, timer>>, NoJump',
             \A k \in 1..MaxDepth : stack'[k].saved = stack[k].saved
      PROVE  (Lined /\ Blocked /\ NoJump /\ Expected)'
  <2>1. rsp \in 1..MaxDepth /\ MaxDepth \in Nat
    BY TopType, SignalAssumption
  <2>2. Blocked'
    BY <1>2, <1>4, <2>1 DEF Blocked, sampleVars
  <2>3. Lined' /\ Expected'
    BY <1>2, <1>4 DEF Lined, Body, Expected, Alarmed, sampleVars
  <2>4. QED
    BY <1>4, <2>2, <2>3
<1>5. CASE Inside
  <2>1. top.at \notin {"setjmp", "longjmp"}
    BY <1>2, TopType DEF NoJump, top
  <2>2. WrapperReturns \/ SleepEnds
    BY <1>5, <2>1 DEF Inside, SetjmpMask, LongjmpMask
  <2>3. UNCHANGED <<sampleVars, mask, rsp, pending, timer>>
    BY <1>5, <2>2 DEF Inside, WrapperReturns, SleepEnds
  <2>4. NoJump'
    BY <1>2, <2>2, NoJumpKept DEF SleepEnds
  <2>5. \A k \in 1..MaxDepth : stack'[k].saved = stack[k].saved
    <3>1. Plain
      BY <2>2 DEF Plain
    <3>2. PICK a \in Activation : stack' = [stack EXCEPT ![rsp] = a] /\ a.saved = top.saved
      BY <3>1, PlainMoves DEF TopMoves
    <3>3. QED
      BY <3>2, TopType DEF TypeOK, KernelTypeOK, top
  <2>6. QED
    BY <1>4, <2>3, <2>4, <2>5
<1>6. CASE Jumped
  <2>1. PICK l \in DOMAIN Body : Body[l] = "setjmp"
    BY <1>6 DEF Jumped
  <2>2. CASE sample = "alarm2"
    BY <2>1, <2>2 DEF Body, Alarm2
  <2>3. CASE sample = "alarm3"
    BY <2>1, <2>3 DEF Body, Alarm3
  <2>4. QED
    BY <1>2, <2>2, <2>3 DEF Blocker
<1>7. CASE SampleKernel
  BY <1>2, <1>7, AlarmKernel DEF SampleKernel
<1>8. CASE UNCHANGED <<vars, sampleVars>>
  <2>1. NoJump'
    BY <1>2, <1>8, NoJumpKept DEF vars, kernelVars
  <2>2. QED
    BY <1>4, <1>8, <2>1 DEF vars, kernelVars
<1>9. ~Anything
  BY <1>2 DEF Anything, Blocker
<1>10. QED
  BY <1>3, <1>5, <1>6, <1>7, <1>8, <1>9 DEF SampleNext, Ended

-----------------------------------------------------------------------------
(* alarm2 sleeps until its alarm has gone off.                             *)

LEMMA Alarm2Step ==
  ASSUME TypeOK, AlarmInv, Alarm2Inv, [SampleNext]_<<vars, sampleVars>>
  PROVE  Alarm2Inv'
<1> SUFFICES ASSUME sample' = "alarm2" PROVE Alarm2Inv'
  BY DEF Alarm2Inv
<1>1. sample = "alarm2"
  BY DEF SampleNext, CallStatement, Executes, Funs, sampleVars, Jumped, Inside, SampleKernel,
         Anything, Ended
<1>2. /\ rsp = 1 /\ NoHandlers
      /\ line = 4 => top.at = "sleep" \/ ~timer
      /\ line = 5 => SIGALRM \in os
  BY <1>1 DEF Alarm2Inv
<1>3. Blocker /\ Lined /\ Blocked /\ NoJump /\ Expected
  BY <1>1, AlarmParts DEF Blocker
<1>4. line \in 1..6 /\ line \in 1..(Len(Body) + 1)
  BY <1>1, <1>3 DEF Lined, Body, Alarm2
<1>5. CASE CallStatement \/ Funs
  <2>1. /\ rsp' = 1 /\ line' = line + 1 /\ top.at = "user"
        /\ \A s : Reaches(s) =>
              \/ line = 1 /\ s = "block"
              \/ line = 2 /\ s = "alarm"
              \/ line = 3 /\ s = "sleep"
              \/ line = 4 /\ s = "sigpending"
              \/ line = 5 /\ s = "tell"
    BY <1>1, <1>3, <1>4, <1>5, BlockerStatement, Alarm2Lines DEF Reaches
  <2>2. \/ line = 1 /\ Sigprocmask("SIG_BLOCK", Alarms)
        \/ line = 2 /\ Alarm(1)
        \/ line = 3 /\ Wait("sleep")
        \/ line = 4 /\ Sigpending
        \/ line = 5 /\ UNCHANGED vars
    BY <1>3, <1>4, <1>5, <2>1, BlockerStatement
  <2>3. UNCHANGED disp
    BY <2>2 DEF Sigprocmask, Alarm, Wait, Sigpending, vars, kernelVars
  <2>4. line' = 4 => top'.at = "sleep"
    <3>1. line' = 4 => Wait("sleep")
      BY <1>4, <2>1, <2>2
    <3>2. Wait("sleep") => top'.at = "sleep"
      BY AtLabel DEF Wait, Label
    <3>3. QED
      BY <3>1, <3>2
  <2>5. line' = 5 => SIGALRM \in os'
    <3>1. SUFFICES ASSUME line' = 5 PROVE SIGALRM \in os'
      OBVIOUS
    <3>2. line = 4 /\ Sigpending
      BY <1>4, <2>1, <2>2, <3>1
    <3>3. ~timer
      BY <1>2, <2>1, <3>2
    <3>4. SIGALRM \in pending
      BY <1>1, <1>3, <3>2, <3>3 DEF Expected, Alarmed
    <3>5. SIGALRM \in mask
      BY <1>3, <3>2 DEF Blocked
    <3>6. QED
      BY <3>2, <3>4, <3>5 DEF Sigpending
  <2>6. QED
    BY <1>2, <2>1, <2>3, <2>4, <2>5, NoHandlersKept DEF Alarm2Inv
<1>6. CASE Inside
  <2>1. top.at \notin {"setjmp", "longjmp"}
    BY <1>3, TopType DEF NoJump, top
  <2>2. WrapperReturns \/ (SleepEnds /\ ~timer)
    BY <1>6, <2>1 DEF Inside, SetjmpMask, LongjmpMask
  <2>3. UNCHANGED <<sampleVars, rsp, disp, timer>>
    BY <1>6, <2>2 DEF Inside, WrapperReturns, SleepEnds
  <2>4. WrapperReturns => top.at = "wrap"
    BY DEF WrapperReturns
  <2>5. line = 4 => ~timer
    BY <1>2, <2>2, <2>4
  <2>6. QED
    BY <1>2, <2>3, <2>5, NoHandlersKept DEF Alarm2Inv, sampleVars
<1>7. CASE Jumped
  <2>1. PICK l \in DOMAIN Body : Body[l] = "setjmp"
    BY <1>7 DEF Jumped
  <2>2. QED
    BY <1>1, <2>1 DEF Body, Alarm2
<1>8. CASE SampleKernel
  <2>1. Untouched /\ UNCHANGED sampleVars
    BY <1>2, <1>8, KernelAlone DEF SampleKernel
  <2>2. top' = top
    BY <2>1 DEF Untouched, top
  <2>3. ~timer => ~timer'
    BY <1>8 DEF SampleKernel, Kernel, Raise, AlarmFires, Deliver, Handle, HandlerReturns
  <2>4. QED
    BY <1>2, <2>1, <2>2, <2>3, NoHandlersKept DEF Alarm2Inv, sampleVars, Untouched
<1>9. CASE UNCHANGED <<vars, sampleVars>>
  <2>1. top' = top
    BY <1>9 DEF vars, kernelVars, top
  <2>2. QED
    BY <1>2, <1>9, <2>1, NoHandlersKept DEF Alarm2Inv, sampleVars, vars, kernelVars
<1>10. QED
  BY <1>1, <1>5, <1>6, <1>7, <1>8, <1>9 DEF SampleNext, Anything, Ended

\* Once the alarm has gone off, alarm2 and alarm3 have it pending, whatever other
\* signals arrive and however often alarm3 is interrupted: blocked, it is delivered to
\* neither of them and kept also if it is ignored. alarm2 always reports it
\* (alarm2.c:7-13, alarm3.c:9-16, libmini64.asm:149-166).
THEOREM AlarmKeptHolds == SampleSpec => []AlarmKept
<1> DEFINE I == TypeOK /\ AlarmInv /\ Alarm2Inv
<1>1. SampleInit => I
  <2> SUFFICES ASSUME SampleInit PROVE AlarmInv /\ Alarm2Inv
    BY InitType DEF SampleInit
  <2>1. /\ rsp = 1 /\ line = 1 /\ NoHandlers
        /\ \A k \in 1..MaxDepth : stack[k].at = "user"
    BY DEF SampleInit, Init, KernelInit, NoHandlers, Default, Idle
  <2>2. Blocker => Len(Body) \in {5, 7}
    BY DEF Blocker, Body, Alarm2, Alarm3
  <2>3. AlarmInv
    BY <2>1, <2>2, AlarmParts DEF Lined, Blocked, NoJump, Expected, Alarmed
  <2>4. QED
    BY <2>1, <2>3 DEF Alarm2Inv
<1>2. I /\ [SampleNext]_<<vars, sampleVars>> => I'
  BY SampleTypeStep, AlarmStep, Alarm2Step
<1>3. I => AlarmKept
  <2> SUFFICES ASSUME AlarmInv, Alarm2Inv PROVE AlarmKept
    OBVIOUS
  <2>1. CASE sample = "alarm2"
    <3>1. Lined /\ Expected
      BY <2>1, AlarmParts DEF Blocker
    <3>2. line \in 1..6
      BY <2>1, <3>1 DEF Lined, Body, Alarm2
    <3>3. Over \/ Body[line] \in {"sleep", "pause", "sigpending", "tell"} => line > 2
      BY <2>1, <3>2, Alarm2Lines
    <3>4. Stands("tell") => line = 5
      BY <2>1, <3>2, Alarm2Lines DEF Stands
    <3>5. QED
      BY <2>1, <3>1, <3>3, <3>4 DEF AlarmKept, Expected, Alarmed, Alarm2Inv
  <2>2. CASE sample = "alarm3"
    <3>1. Lined /\ Expected
      BY <2>2, AlarmParts DEF Blocker
    <3>2. line \in 1..8
      BY <2>2, <3>1 DEF Lined, Body, Alarm3
    <3>3. Over \/ Body[line] \in {"sleep", "pause", "sigpending", "tell"} => line > 4
      BY <2>2, <3>2, Alarm3Lines
    <3>4. QED
      BY <2>2, <3>1, <3>3 DEF AlarmKept, Expected, Alarmed
  <2>3. QED
    BY <2>1, <2>2 DEF AlarmKept
<1>4. QED
  BY <1>1, <1>2, <1>3, PTL DEF SampleSpec
=============================================================================
