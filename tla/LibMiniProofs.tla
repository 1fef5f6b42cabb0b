--------------------------- MODULE LibMiniProofs ---------------------------
(***************************************************************************)
(* Theorems about the signal functions of libmini, for every set of signals*)
(* and error numbers, every depth of the stack and every set of calls.     *)
(***************************************************************************)
EXTENDS LibMini, TLAPS

LEMMA Numbers == EINTR \in Errnos /\ EINVAL \in Errnos /\ 0 \in Errnos /\ Errors \subseteq Errnos
  BY DEF Errnos

LEMMA IdleType == Idle \in Activation
  BY Numbers DEF Idle, Activation, Label

LEMMA InitType == Init => TypeOK
<1>1. 1 \in 1..MaxDepth
  BY SignalAssumption
<1>2. Default \in Disposition
  BY DEF Default, Disposition
<1> SUFFICES ASSUME Init PROVE TypeOK
  OBVIOUS
<1>3. disp \in [Signals -> Disposition] /\ stack \in [1..MaxDepth -> Activation]
  BY <1>2, IdleType DEF Init, KernelInit
<1>4. mask = {} /\ pending = {} /\ timer = FALSE /\ died = FALSE /\ rsp = 1
  BY DEF Init, KernelInit
<1>5. KernelTypeOK
  BY <1>1, <1>3, <1>4 DEF KernelTypeOK
<1>6. errno \in Errnos
  BY Numbers DEF Init
<1>7. jb \in [ready : BOOLEAN, mask : SUBSET Signals, want : SUBSET Signals]
  BY DEF Init
<1>8. QED
  BY <1>5, <1>6, <1>7 DEF TypeOK

-----------------------------------------------------------------------------
(* What the actions have in common.                                        *)

\* The executing activation stays what it is and where it is on the stack.
TopMoves ==
  /\ UNCHANGED <<mask, rsp, died>>
  /\ \E a \in Activation :
       /\ stack' = [stack EXCEPT ![rsp] = a]
       /\ a.sig = top.sig /\ a.saved = top.saved /\ a.want = top.want
       /\ a.at \notin {"setjmp", "longjmp"} /\ top.at # "longjmp"

\* Calls, and the ends of calls, that neither change the mask nor jump.
Plain ==
  \/ \E r \in {0} \union Errors : SystemCall(r)
  \/ WrapperReturns
  \/ \E prefix \in BOOLEAN : PerrorPrefix(prefix)
  \/ PerrorMessage
  \/ \E s \in Signals, h \in {"dfl", "ign", "function"}, m \in SUBSET Signals :
       Sigaction(s, h, m)
  \/ \E s \in Signals : SigactionQuery(s)
  \/ SigactionRefused
  \/ \E s \in Signals, h \in {"dfl", "ign", "function"} : Signal(s, h)
  \/ \E seconds \in 0..1 : Alarm(seconds)
  \/ \E c \in {"pause", "sleep"} : Wait(c)
  \/ SleepEnds
  \/ SetjmpMask
  \/ LongjmpReturns

LEMMA TopType ==
  ASSUME TypeOK
  PROVE  top \in Activation /\ rsp \in 1..MaxDepth
  BY DEF TypeOK, KernelTypeOK, top

LEMMA RecordType ==
  ASSUME NEW a \in Activation, NEW l \in Label, NEW r \in Errnos, NEW b \in Errnos
  PROVE  /\ [a EXCEPT !.at = l] \in Activation
         /\ [a EXCEPT !.at = l, !.ret = r] \in Activation
         /\ [a EXCEPT !.at = l, !.backup = b] \in Activation
         /\ [a EXCEPT !.at = l, !.ret = r, !.backup = b] \in Activation
  BY DEF Activation

LEMMA PlainMoves ==
  ASSUME TypeOK, Plain
  PROVE  TopMoves
<1> DEFINE A(l) == [top EXCEPT !.at = l]
           W(r) == [top EXCEPT !.at = "wrap", !.ret = r]
<1>1. /\ top \in Activation /\ rsp \in 1..MaxDepth
      /\ stack \in [1..MaxDepth -> Activation]
  BY TopType DEF TypeOK, KernelTypeOK
<1>2. UNCHANGED <<mask, rsp, died>>
  BY DEF Plain, SystemCall, WrapperReturns, PerrorPrefix, PerrorMessage, Sigaction,
         SigactionQuery, SigactionRefused, Signal, Alarm, Wait, SleepEnds, SetjmpMask,
         LongjmpReturns
<1>3. top.at \in {"user", "wrap", "perror", "sleep", "setjmp", "jumped"}
  BY DEF Plain, SystemCall, WrapperReturns, PerrorPrefix, PerrorMessage, Sigaction,
         SigactionQuery, SigactionRefused, Signal, Alarm, Wait, SleepEnds, SetjmpMask,
         LongjmpReturns,
         Called
<1>4. CASE \E r \in Errnos : stack' = Wrapped(r)
  <2>1. PICK r \in Errnos : stack' = Wrapped(r)
    BY <1>4
  <2>2. stack' = [stack EXCEPT ![rsp] = W(r)]
    BY <2>1, <1>1 DEF Wrapped, top
  <2>3. W(r) \in Activation
    BY <1>1, Numbers, RecordType DEF Label
  <2>4. W(r).sig = top.sig /\ W(r).saved = top.saved /\ W(r).want = top.want /\ W(r).at = "wrap"
    BY <1>1 DEF Activation
  <2>5. QED
    BY <1>2, <1>3, <2>2, <2>3, <2>4 DEF TopMoves
<1>5. CASE \E l \in {"user", "pause", "sleep"} : stack' = At(l)
  <2>1. PICK l \in {"user", "pause", "sleep"} : stack' = At(l)
    BY <1>5
  <2>2. stack' = [stack EXCEPT ![rsp] = A(l)]
    BY <2>1, <1>1 DEF At, top
  <2>3. A(l) \in Activation
    BY <1>1, RecordType, Numbers DEF Label
  <2>4. A(l).sig = top.sig /\ A(l).saved = top.saved /\ A(l).want = top.want /\ A(l).at = l
    BY <1>1 DEF Activation
  <2>5. QED
    BY <1>2, <1>3, <2>2, <2>3, <2>4 DEF TopMoves
<1>6. CASE WrapperReturns
  <2> DEFINE a == [top EXCEPT !.at = "user", !.ret = 0]
  <2>1. stack' = [stack EXCEPT ![rsp] = a]
    BY <1>6, <1>1 DEF WrapperReturns, top
  <2>2. a \in Activation
    BY <1>1, RecordType, Numbers DEF Label
  <2>3. a.sig = top.sig /\ a.saved = top.saved /\ a.want = top.want /\ a.at = "user"
    BY <1>1 DEF Activation
  <2>4. QED
    BY <1>2, <1>3, <2>1, <2>2, <2>3 DEF TopMoves
<1>7. CASE \E b \in Errnos : stack' = [stack EXCEPT ![rsp].at = "perror", ![rsp].backup = b]
  <2>1. PICK b \in Errnos : stack' = [stack EXCEPT ![rsp].at = "perror", ![rsp].backup = b]
    BY <1>7
  <2> DEFINE a == [top EXCEPT !.at = "perror", !.backup = b]
  <2>2. stack' = [stack EXCEPT ![rsp] = a]
    BY <2>1, <1>1 DEF top
  <2>3. a \in Activation
    BY <1>1, RecordType, Numbers DEF Label
  <2>4. a.sig = top.sig /\ a.saved = top.saved /\ a.want = top.want /\ a.at = "perror"
    BY <1>1 DEF Activation
  <2>5. QED
    BY <1>2, <1>3, <2>2, <2>3, <2>4 DEF TopMoves
<1>8. CASE PerrorMessage
  <2> DEFINE a == [top EXCEPT !.at = "user", !.backup = 0]
  <2>1. stack' = [stack EXCEPT ![rsp] = a]
    BY <1>8, <1>1 DEF PerrorMessage, top
  <2>2. a \in Activation
    BY <1>1, RecordType, Numbers DEF Label
  <2>3. a.sig = top.sig /\ a.saved = top.saved /\ a.want = top.want /\ a.at = "user"
    BY <1>1 DEF Activation
  <2>4. QED
    BY <1>2, <1>3, <2>1, <2>2, <2>3 DEF TopMoves
<1>9. QED
  BY <1>4, <1>5, <1>6, <1>7, <1>8, Numbers
  DEF Plain, SystemCall, PerrorPrefix, Sigaction, SigactionQuery, SigactionRefused, Signal,
      Alarm, Wait, SleepEnds, SetjmpMask, LongjmpReturns, TypeOK

-----------------------------------------------------------------------------
(* Types.                                                                  *)

LEMMA InstallType ==
  ASSUME disp \in [Signals -> Disposition], pending \subseteq Signals,
         NEW s \in Signals, NEW d \in Disposition, Install(s, d)
  PROVE  disp' \in [Signals -> Disposition] /\ pending' \subseteq Signals
  BY DEF Install

LEMMA PlainType ==
  ASSUME TypeOK, Plain
  PROVE  TypeOK'
<1>1. stack' \in [1..MaxDepth -> Activation] /\ UNCHANGED <<mask, rsp, died>>
  BY PlainMoves DEF TopMoves, TypeOK, KernelTypeOK
<1>2. disp' \in [Signals -> Disposition] /\ pending' \subseteq Signals
  <2>1. CASE UNCHANGED <<disp, pending>>
    BY <2>1 DEF TypeOK, KernelTypeOK
  <2>2. CASE \E s \in Signals, d \in Disposition : Install(s, d)
    BY <2>2, InstallType DEF TypeOK, KernelTypeOK
  <2>3. ASSUME NEW s \in Signals, NEW h \in {"dfl", "ign", "function"},
               NEW m \in SUBSET Signals
        PROVE  [handler |-> h, sa_mask |-> m, nodefer |-> FALSE] \in Disposition
    BY DEF Disposition
  <2>4. QED
    BY <2>1, <2>2, <2>3
    DEF Plain, SystemCall, WrapperReturns, PerrorPrefix, PerrorMessage, Sigaction,
        SigactionQuery, SigactionRefused, Signal, Alarm, Wait, SleepEnds, SetjmpMask,
        LongjmpReturns
<1>3. timer' \in BOOLEAN
  <2>1. ASSUME NEW seconds \in 0..1, Alarm(seconds) PROVE timer' \in BOOLEAN
    <3>1. CASE seconds > 0
      BY <2>1, <3>1 DEF Alarm
    <3>2. CASE ~(seconds > 0)
      BY <2>1, <3>2 DEF Alarm
    <3>3. QED
      BY <3>1, <3>2
  <2>2. CASE UNCHANGED timer
    BY <2>2 DEF TypeOK, KernelTypeOK
  <2>3. QED
    BY <2>1, <2>2
    DEF Plain, SystemCall, WrapperReturns, PerrorPrefix, PerrorMessage, Sigaction,
        SigactionQuery, SigactionRefused, Signal, Wait, SleepEnds, SetjmpMask, LongjmpReturns
<1>4. errno' \in Errnos
  <2>1. top.ret \in Errnos
    BY TopType DEF Activation
  <2>2. QED
    BY <2>1, Numbers
    DEF TypeOK, Plain, SystemCall, WrapperReturns, PerrorPrefix, PerrorMessage, Sigaction,
        SigactionQuery, SigactionRefused, Signal, Alarm, Wait, SleepEnds, SetjmpMask,
        LongjmpReturns
<1>5. jb' \in [ready : BOOLEAN, mask : SUBSET Signals, want : SUBSET Signals]
  BY DEF TypeOK, KernelTypeOK,
         Plain, SystemCall, WrapperReturns, PerrorPrefix, PerrorMessage, Sigaction,
         SigactionQuery, SigactionRefused, Signal, Alarm, Wait, SleepEnds, SetjmpMask,
         LongjmpReturns
<1>6. QED
  BY <1>1, <1>2, <1>3, <1>4, <1>5 DEF TypeOK, KernelTypeOK

\* sigprocmask and longjmp set the mask.
LEMMA MaskType ==
  ASSUME TypeOK, NEW how \in {"SIG_BLOCK", "SIG_UNBLOCK", "SIG_SETMASK"},
         NEW set \in SUBSET Signals, Procmask(how, set)
  PROVE  mask' \subseteq Signals
  BY DEF Procmask, TypeOK, KernelTypeOK

LEMMA SigprocmaskType ==
  ASSUME TypeOK, NEW how \in {"SIG_BLOCK", "SIG_UNBLOCK", "SIG_SETMASK"},
         NEW set \in SUBSET Signals, Sigprocmask(how, set)
  PROVE  /\ TypeOK'
         /\ stack' = [stack EXCEPT ![rsp] =
                         [top EXCEPT !.at = "wrap", !.ret = 0, !.want = mask']]
<1>1. mask' \in SUBSET Signals
  BY MaskType DEF Sigprocmask
<1>2. top \in Activation /\ stack \in [1..MaxDepth -> Activation] /\ rsp \in 1..MaxDepth
  BY TopType DEF TypeOK, KernelTypeOK
<1> DEFINE a == [top EXCEPT !.at = "wrap", !.ret = 0, !.want = mask']
<1>3. a \in Activation
  BY <1>1, <1>2, Numbers DEF Activation, Label
<1>4. stack' = [stack EXCEPT ![rsp] = a]
  BY <1>2 DEF Sigprocmask, Wrapped, top
<1>5. QED
  BY <1>1, <1>2, <1>3, <1>4 DEF Sigprocmask, TypeOK, KernelTypeOK

LEMMA JumpType ==
  ASSUME TypeOK, SetjmpRegisters \/ LongjmpRegisters \/ LongjmpMask
  PROVE  TypeOK'
<1>1. /\ top \in Activation /\ stack \in [1..MaxDepth -> Activation] /\ rsp \in 1..MaxDepth
      /\ jb.mask \in SUBSET Signals /\ jb.want \in SUBSET Signals /\ 1 \in 1..MaxDepth
  BY TopType, SignalAssumption DEF TypeOK, KernelTypeOK
<1>2. CASE SetjmpRegisters
  <2>1. [top EXCEPT !.at = "setjmp"] \in Activation
    BY <1>1 DEF Label, Activation
  <2>2. stack' \in [1..MaxDepth -> Activation]
    BY <1>1, <1>2, <2>1 DEF SetjmpRegisters, At, top
  <2>3. jb' \in [ready : BOOLEAN, mask : SUBSET Signals, want : SUBSET Signals]
    BY <1>1, <1>2 DEF SetjmpRegisters, TypeOK, Activation
  <2>4. UNCHANGED <<mask, pending, disp, timer, died, rsp, errno>>
    BY <1>2 DEF SetjmpRegisters
  <2>5. QED
    BY <2>2, <2>3, <2>4 DEF TypeOK, KernelTypeOK
<1>3. CASE LongjmpRegisters
  <2>1. [stack[1] EXCEPT !.at = "longjmp", !.ret = 0, !.backup = 0] \in Activation
    BY <1>1, RecordType, Numbers DEF Label
  <2>2. stack' \in [1..MaxDepth -> Activation]
    BY <1>3, <2>1, IdleType DEF LongjmpRegisters, Unwound
  <2>3. QED
    BY <1>1, <1>3, <2>2 DEF LongjmpRegisters, TypeOK, KernelTypeOK
<1>4. CASE LongjmpMask
  <2>1. [top EXCEPT !.at = "jumped", !.want = jb.want] \in Activation
    BY <1>1 DEF Label, Activation
  <2>2. stack' \in [1..MaxDepth -> Activation]
    BY <1>1, <1>4, <2>1 DEF LongjmpMask, top
  <2>3. mask' \subseteq Signals
    BY <1>1, <1>4, MaskType DEF LongjmpMask
  <2>4. QED
    BY <1>4, <2>2, <2>3 DEF LongjmpMask, TypeOK, KernelTypeOK
<1>5. QED
  BY <1>2, <1>3, <1>4

\* The mask a handler for s runs under
HandlerMask(s) == mask \union disp[s].sa_mask
                       \union (IF disp[s].nodefer THEN {} ELSE {s})

\* What a handler for s finds: the interrupted activation keeps its mask.
LEMMA HandleEffect ==
  ASSUME TypeOK, NEW s \in Signals, Handle(s)
  PROVE  /\ mask' = HandlerMask(s) /\ rsp' = rsp + 1 /\ rsp' \in 1..MaxDepth
         /\ UNCHANGED <<disp, timer, died>>
         /\ stack' \in [1..MaxDepth -> Activation]
         /\ \A i \in 1..MaxDepth : i # rsp /\ i # rsp + 1 => stack'[i] = stack[i]
         /\ stack'[rsp].sig = top.sig /\ stack'[rsp].saved = top.saved
         /\ stack'[rsp].want = top.want
         /\ stack'[rsp].at \in {"longjmp", "setjmp"} <=> top.at \in {"longjmp", "setjmp"}
         /\ stack'[rsp].at = "longjmp" <=> top.at = "longjmp"
         /\ stack'[rsp + 1].sig = s /\ stack'[rsp + 1].saved = mask
         /\ stack'[rsp + 1].want = mask' /\ stack'[rsp + 1].at = "user"
<1>1. /\ top \in Activation /\ stack \in [1..MaxDepth -> Activation] /\ rsp \in 1..MaxDepth
      /\ mask \subseteq Signals /\ disp[s] \in Disposition
  BY TopType DEF TypeOK, KernelTypeOK
<1>2. rsp + 1 \in 1..MaxDepth /\ rsp + 1 # rsp
  BY <1>1, SignalAssumption DEF Handle
<1> DEFINE a == Interrupted(top)
           b == [Idle EXCEPT !.sig = s, !.saved = mask, !.want = HandlerMask(s)]
<1>3. a \in Activation /\ a.sig = top.sig /\ a.saved = top.saved /\ a.want = top.want
  BY <1>1, Numbers DEF Interrupted, Activation, Label
<1>4. /\ a.at \in {"longjmp", "setjmp"} <=> top.at \in {"longjmp", "setjmp"}
      /\ a.at = "longjmp" <=> top.at = "longjmp"
  BY <1>1 DEF Interrupted, Activation
<1>5. HandlerMask(s) \subseteq Signals
  BY <1>1 DEF HandlerMask, Disposition
<1>6. b \in Activation /\ b.sig = s /\ b.saved = mask /\ b.want = HandlerMask(s) /\ b.at = "user"
  BY <1>1, <1>5, Numbers DEF Idle, Activation, Label
<1>7. stack' = [stack EXCEPT ![rsp] = a, ![rsp + 1] = b]
  BY <1>1 DEF Handle, HandlerMask, top
<1>8. stack'[rsp] = a /\ stack'[rsp + 1] = b
  BY <1>1, <1>2, <1>7
<1>9. /\ stack' \in [1..MaxDepth -> Activation]
      /\ \A i \in 1..MaxDepth : i # rsp /\ i # rsp + 1 => stack'[i] = stack[i]
  BY <1>1, <1>2, <1>3, <1>6, <1>7
<1>10. mask' = HandlerMask(s) /\ rsp' = rsp + 1 /\ UNCHANGED <<disp, timer, died>>
  BY DEF Handle, HandlerMask
<1>11. QED
  BY <1>2, <1>3, <1>4, <1>6, <1>8, <1>9, <1>10

LEMMA KernelType ==
  ASSUME TypeOK, Kernel
  PROVE  TypeOK'
<1>1. \A s \in Signals : Raised(s) \subseteq Signals
  BY DEF Raised, TypeOK, KernelTypeOK
<1>2. ASSUME NEW s \in Signals, Raise(s) PROVE TypeOK'
  BY <1>1, <1>2 DEF Raise, Kernel, TypeOK, KernelTypeOK
<1>3. CASE AlarmFires
  BY <1>1, <1>3, SignalAssumption DEF AlarmFires, Kernel, TypeOK, KernelTypeOK
<1>4. ASSUME NEW s \in Signals, Deliver(s) PROVE TypeOK'
  <2>1. pending' \subseteq Signals /\ UNCHANGED <<errno, jb>>
    BY <1>4 DEF Deliver, Kernel, TypeOK, KernelTypeOK
  <2>2. CASE Handle(s)
    <3>1. mask' \subseteq Signals
      BY <2>2, HandleEffect DEF HandlerMask, TypeOK, KernelTypeOK, Disposition
    <3>2. QED
      BY <2>1, <2>2, <3>1, HandleEffect DEF TypeOK, KernelTypeOK
  <2>3. CASE UNCHANGED <<mask, disp, timer, stack, rsp>> /\ died' \in BOOLEAN
    BY <2>1, <2>3 DEF TypeOK, KernelTypeOK
  <2>4. QED
    BY <1>4, <2>2, <2>3 DEF Deliver, TypeOK, KernelTypeOK
<1>5. CASE HandlerReturns
  <2>1. top.saved \subseteq Signals /\ rsp - 1 \in 1..MaxDepth
    BY <1>5, TopType, SignalAssumption DEF HandlerReturns, Activation
  <2>2. stack' \in [1..MaxDepth -> Activation]
    BY <1>5, IdleType DEF HandlerReturns, TypeOK, KernelTypeOK
  <2>3. QED
    BY <1>5, <2>1, <2>2 DEF HandlerReturns, Kernel, TypeOK, KernelTypeOK
<1>6. QED
  BY <1>2, <1>3, <1>4, <1>5 DEF Kernel

\* The actions of the library, grouped by what they do to the mask and the stack.
LEMMA LibraryCases ==
  ASSUME Library
  PROVE  \/ Plain
         \/ BadArgument
         \/ \E how \in {"SIG_BLOCK", "SIG_UNBLOCK", "SIG_SETMASK"}, set \in SUBSET Signals :
              Sigprocmask(how, set)
         \/ SetjmpRegisters \/ LongjmpRegisters \/ LongjmpMask
  BY DEF Library, Plain

LEMMA TypeStep ==
  ASSUME TypeOK, [Next]_vars
  PROVE  TypeOK'
<1>1. CASE UNCHANGED vars
  BY <1>1 DEF vars, kernelVars, TypeOK, KernelTypeOK
<1>2. CASE BadArgument
  BY <1>2, Numbers DEF BadArgument, kernelVars, TypeOK, KernelTypeOK
<1>3. CASE Library
  BY <1>2, <1>3, LibraryCases, PlainType, SigprocmaskType, JumpType
<1>4. QED
  BY <1>1, <1>3, KernelType DEF Next, Dead

\* Masks hold signals, errno an error number, and the stack stays in its bounds.
THEOREM LibTypeCorrect == Spec => []TypeOK
  BY InitType, TypeStep, PTL DEF Spec

-----------------------------------------------------------------------------
(* Signal masks across handlers and jumps: whoever executes does so under  *)
(* the mask it asked for, and a blocked signal never gets through.         *)

\* Only the program, at the bottom of the stack, is inside setjmp or longjmp.
OneProgram ==
  /\ stack[1].sig = 0
  /\ \A i \in 2..MaxDepth : stack[i].at \notin {"setjmp", "longjmp"}

\* The mask in the jmp_buf is the one the program had when it called setjmp.
Jumpable ==
  /\ jb.ready => jb.mask = jb.want
  /\ stack[1].at = "setjmp" => jb.want = stack[1].want
  /\ stack[1].at = "longjmp" => jb.ready

\* sigreturn gives back the mask of what the handler interrupted.
Restored ==
  \A i \in 1..(rsp - 1) : stack[i].at # "longjmp" => stack[i + 1].saved = stack[i].want

JumpInv == OneProgram /\ Jumpable /\ Restored /\ MaskOwned /\ Sheltered

-----------------------------------------------------------------------------

\* The executing activation goes on, under the mask that is in force now.
TopGoesOn ==
  /\ rsp' = rsp
  /\ \A i \in 1..MaxDepth : i # rsp => stack'[i] = stack[i]
  /\ stack'[rsp].sig = top.sig
  /\ stack'[rsp].saved = top.saved
  /\ stack'[rsp].want = mask'
  /\ stack'[rsp].at \notin {"setjmp", "longjmp"}

LEMMA GoesOn ==
  ASSUME TypeOK, JumpInv, TopGoesOn, UNCHANGED jb \/ (jb'.ready => jb'.mask = jb'.want),
         UNCHANGED jb \/ rsp = 1
  PROVE  JumpInv'
<1>1. rsp \in 1..MaxDepth /\ MaxDepth \in Nat \ {0}
  BY TopType, SignalAssumption
<1>2. OneProgram'
  BY <1>1 DEF JumpInv, OneProgram, TopGoesOn, top
<1>3. Jumpable'
  <2>1. CASE UNCHANGED jb
    BY <1>1, <2>1 DEF JumpInv, Jumpable, TopGoesOn
  <2>2. CASE rsp = 1 /\ (jb'.ready => jb'.mask = jb'.want)
    BY <1>1, <2>2 DEF Jumpable, TopGoesOn
  <2>3. QED
    BY <2>1, <2>2
<1>4. Restored'
  BY <1>1 DEF JumpInv, Restored, TopGoesOn, top
<1>5. MaskOwned'
  BY DEF MaskOwned, TopGoesOn, top
<1>6. Sheltered'
  BY <1>1 DEF JumpInv, Sheltered, TopGoesOn, top
<1>7. QED
  BY <1>2, <1>3, <1>4, <1>5, <1>6 DEF JumpInv

LEMMA PlainStep ==
  ASSUME TypeOK, JumpInv, Plain
  PROVE  JumpInv'
<1>1. rsp \in 1..MaxDepth /\ stack \in [1..MaxDepth -> Activation] /\ MaxDepth \in Nat \ {0}
  BY TopType, SignalAssumption DEF TypeOK, KernelTypeOK
<1>2. TopMoves
  BY PlainMoves
<1>3. mask = top.want
  BY <1>2 DEF TopMoves, JumpInv, MaskOwned
<1>4. TopGoesOn
  <2>1. PICK a \in Activation :
          /\ stack' = [stack EXCEPT ![rsp] = a]
          /\ a.sig = top.sig /\ a.saved = top.saved /\ a.want = top.want
          /\ a.at \notin {"setjmp", "longjmp"}
    BY <1>2 DEF TopMoves
  <2>2. stack'[rsp] = a /\ \A i \in 1..MaxDepth : i # rsp => stack'[i] = stack[i]
    BY <1>1, <2>1
  <2>3. rsp' = rsp /\ mask' = top.want
    BY <1>2, <1>3 DEF TopMoves
  <2>4. QED
    BY <2>1, <2>2, <2>3 DEF TopGoesOn
<1>5. CASE SetjmpMask
  <2>1. rsp = 1
    BY <1>1, <1>5 DEF SetjmpMask, JumpInv, OneProgram, top
  <2>2. jb'.mask = mask /\ jb'.want = jb.want
    BY <1>5 DEF SetjmpMask, TypeOK
  <2>3. jb.want = top.want
    BY <1>5, <2>1 DEF SetjmpMask, JumpInv, Jumpable, top
  <2>4. QED
    BY <1>3, <1>4, <2>1, <2>2, <2>3, GoesOn
<1>6. CASE UNCHANGED jb
  BY <1>4, <1>6, GoesOn
<1>7. QED
  BY <1>5, <1>6
  DEF Plain, SystemCall, WrapperReturns, PerrorPrefix, PerrorMessage, Sigaction,
      SigactionQuery, SigactionRefused, Signal, Alarm, Wait, SleepEnds, LongjmpReturns

LEMMA SigprocmaskStep ==
  ASSUME TypeOK, JumpInv, NEW how \in {"SIG_BLOCK", "SIG_UNBLOCK", "SIG_SETMASK"},
         NEW set \in SUBSET Signals, Sigprocmask(how, set)
  PROVE  JumpInv'
<1>1. /\ rsp \in 1..MaxDepth /\ stack \in [1..MaxDepth -> Activation]
      /\ top \in Activation
  BY TopType DEF TypeOK, KernelTypeOK
<1>2. stack' = [stack EXCEPT ![rsp] = [top EXCEPT !.at = "wrap", !.ret = 0, !.want = mask']]
  BY SigprocmaskType
<1>3. /\ stack'[rsp] = [top EXCEPT !.at = "wrap", !.ret = 0, !.want = mask']
      /\ \A i \in 1..MaxDepth : i # rsp => stack'[i] = stack[i]
  BY <1>1, <1>2
<1>4. UNCHANGED <<rsp, jb>>
  BY DEF Sigprocmask
<1>5. TopGoesOn
  BY <1>1, <1>3, <1>4 DEF TopGoesOn, Activation
<1>6. QED
  BY <1>4, <1>5, GoesOn

LEMMA JumpStep ==
  ASSUME TypeOK, JumpInv, SetjmpRegisters \/ LongjmpRegisters \/ LongjmpMask
  PROVE  JumpInv'
<1>1. /\ rsp \in 1..MaxDepth /\ stack \in [1..MaxDepth -> Activation]
      /\ top \in Activation /\ stack[1] \in Activation /\ MaxDepth \in Nat \ {0}
  BY TopType, SignalAssumption DEF TypeOK, KernelTypeOK
<1>2. CASE SetjmpRegisters
  <2>1. /\ stack' = [stack EXCEPT ![1] = [top EXCEPT !.at = "setjmp"]]
        /\ rsp = 1 /\ rsp' = 1 /\ mask' = mask /\ top.at = "user"
    BY <1>2 DEF SetjmpRegisters, At, Called, top
  <2>2. /\ stack'[1].at = "setjmp" /\ stack'[1].sig = top.sig /\ stack'[1].want = top.want
        /\ \A i \in 2..MaxDepth : stack'[i] = stack[i]
    BY <1>1, <2>1 DEF Activation
  <2>3. ~jb'.ready /\ jb'.want = top.want
    BY <1>2 DEF SetjmpRegisters, TypeOK
  <2>4. OneProgram' /\ Jumpable'
    BY <2>1, <2>2, <2>3 DEF JumpInv, OneProgram, Jumpable, top
  <2>5. MaskOwned' /\ Restored' /\ Sheltered'
    BY <2>1, <2>2 DEF JumpInv, MaskOwned, Restored, Sheltered, top
  <2>6. QED
    BY <2>4, <2>5 DEF JumpInv
<1>3. CASE LongjmpRegisters
  <2>1. /\ stack'[1] = [stack[1] EXCEPT !.at = "longjmp", !.ret = 0, !.backup = 0]
        /\ \A i \in 2..MaxDepth : stack'[i] = Idle
        /\ rsp' = 1 /\ jb' = jb /\ jb.ready
    <3>1. stack' = Unwound("longjmp") /\ rsp' = 1 /\ jb' = jb /\ jb.ready
      BY <1>3 DEF LongjmpRegisters
    <3> DEFINE p == [stack[1] EXCEPT !.at = "longjmp", !.ret = 0, !.backup = 0]
    <3>2. stack' = [i \in 1..MaxDepth |-> IF i = 1 THEN p ELSE Idle]
      BY <3>1 DEF Unwound
    <3> HIDE DEF p
    <3>3. stack'[1] = p /\ \A i \in 2..MaxDepth : stack'[i] = Idle
      BY <1>1, <3>2
    <3>4. QED
      BY <3>1, <3>3 DEF p
  <2>2. stack'[1].at = "longjmp" /\ stack'[1].sig = stack[1].sig
    BY <1>1, <2>1 DEF Activation
  <2>3. Idle.at = "user"
    BY DEF Idle
  <2>4. OneProgram' /\ Jumpable'
    BY <2>1, <2>2, <2>3 DEF JumpInv, OneProgram, Jumpable
  <2>5. MaskOwned'
    BY <2>1, <2>2 DEF MaskOwned, top
  <2>6. Restored' /\ Sheltered'
    <3>1. 1..(rsp' - 1) = {}
      BY <2>1
    <3>2. QED
      BY <3>1 DEF Restored, Sheltered
  <2>7. QED
    BY <2>4, <2>5, <2>6 DEF JumpInv
<1>4. CASE LongjmpMask
  <2>1. rsp = 1 /\ jb.want = jb.mask
    <3>1. top.at = "longjmp"
      BY <1>4 DEF LongjmpMask
    <3>2. rsp = 1
      BY <1>1, <3>1 DEF JumpInv, OneProgram, top
    <3>3. QED
      BY <3>1, <3>2 DEF JumpInv, Jumpable, top
  <2>2. stack' = [stack EXCEPT ![rsp] = [top EXCEPT !.at = "jumped", !.want = jb.want]]
    BY <1>1, <1>4 DEF LongjmpMask, top
  <2>3. /\ stack'[rsp] = [top EXCEPT !.at = "jumped", !.want = jb.want]
        /\ \A i \in 1..MaxDepth : i # rsp => stack'[i] = stack[i]
    BY <1>1, <2>2
  <2>4. UNCHANGED <<rsp, jb>> /\ mask' = jb.mask
    BY <1>4, Zenon DEF LongjmpMask, Procmask
  <2>5. TopGoesOn
    BY <1>1, <2>1, <2>3, <2>4 DEF TopGoesOn, Activation
  <2>6. QED
    BY <2>4, <2>5, GoesOn
<1>5. QED
  BY <1>2, <1>3, <1>4

-----------------------------------------------------------------------------

\* A handler starts: its signal is not in the mask of what it interrupts.
LEMMA HandleStep ==
  ASSUME TypeOK, JumpInv, NEW s \in Signals \ mask, Handle(s), UNCHANGED jb
  PROVE  JumpInv'
<1>1. /\ rsp \in 1..MaxDepth /\ MaxDepth \in Nat \ {0} /\ rsp + 1 \in 1..MaxDepth
      /\ top = stack[rsp]
  BY TopType, SignalAssumption DEF Handle, top
<1>2. s # 0
  BY SignalAssumption
<1>3. OneProgram'
  BY <1>1, HandleEffect DEF JumpInv, OneProgram
<1>4. Jumpable'
  BY <1>1, HandleEffect DEF JumpInv, Jumpable
<1>5. Restored'
  BY <1>1, HandleEffect DEF JumpInv, Restored, MaskOwned
<1>6. MaskOwned'
  BY <1>1, HandleEffect DEF MaskOwned, top
<1>7. Sheltered'
  BY <1>1, HandleEffect DEF JumpInv, Sheltered, MaskOwned
<1>8. QED
  BY <1>3, <1>4, <1>5, <1>6, <1>7 DEF JumpInv

LEMMA ReturnStep ==
  ASSUME TypeOK, JumpInv, HandlerReturns, UNCHANGED jb
  PROVE  JumpInv'
<1>1. /\ rsp \in 2..MaxDepth /\ MaxDepth \in Nat \ {0} /\ rsp' = rsp - 1
      /\ stack \in [1..MaxDepth -> Activation] /\ mask' = top.saved
      /\ stack' = [stack EXCEPT ![rsp] = Idle]
  BY TopType, SignalAssumption DEF HandlerReturns, TypeOK, KernelTypeOK
<1>2. /\ \A i \in 1..(rsp - 1) : stack'[i] = stack[i]
      /\ \A i \in 2..MaxDepth : stack'[i] = stack[i] \/ stack'[i] = Idle
  BY <1>1
<1>3. OneProgram' /\ Jumpable'
  BY <1>1, <1>2 DEF JumpInv, OneProgram, Jumpable, Idle
<1>4. Restored' /\ Sheltered'
  BY <1>1, <1>2 DEF JumpInv, Restored, Sheltered
<1>5. MaskOwned'
  BY <1>1, <1>2 DEF JumpInv, Restored, MaskOwned, top
<1>6. QED
  BY <1>3, <1>4, <1>5 DEF JumpInv

\* What changes neither the stack nor the mask
LEMMA Unmoved ==
  ASSUME JumpInv, UNCHANGED <<mask, stack, rsp, jb>>
  PROVE  JumpInv'
  BY DEF JumpInv, OneProgram, Jumpable, Restored, MaskOwned, Sheltered, top

LEMMA JumpInvStep ==
  ASSUME TypeOK, JumpInv, [Next]_vars
  PROVE  JumpInv'
<1>1. CASE UNCHANGED vars \/ BadArgument
  BY <1>1, Unmoved DEF BadArgument, vars, kernelVars
<1>2. CASE Library
  BY <1>1, <1>2, LibraryCases, PlainStep, SigprocmaskStep, JumpStep
<1>3. CASE Kernel
  <2>1. UNCHANGED jb
    BY <1>3 DEF Kernel
  <2>2. ASSUME NEW s \in Signals, Raise(s) PROVE JumpInv'
    BY <2>1, <2>2, Unmoved DEF Raise
  <2>3. CASE AlarmFires
    BY <2>1, <2>3, Unmoved DEF AlarmFires
  <2>4. ASSUME NEW s \in Signals, Deliver(s) PROVE JumpInv'
    <3>1. CASE Handle(s)
      BY <2>1, <2>4, <3>1, HandleStep DEF Deliver
    <3>2. CASE UNCHANGED <<mask, stack, rsp>>
      BY <2>1, <3>2, Unmoved
    <3>3. QED
      BY <2>4, <3>1, <3>2 DEF Deliver
  <2>5. CASE HandlerReturns
    BY <2>1, <2>5, ReturnStep
  <2>6. QED
    BY <1>3, <2>2, <2>3, <2>4, <2>5 DEF Kernel
<1>4. QED
  BY <1>1, <1>2, <1>3 DEF Next, Dead

LEMMA JumpInvInit == Init => JumpInv
<1> SUFFICES ASSUME Init PROVE JumpInv
  OBVIOUS
<1>1. MaxDepth \in Nat \ {0} /\ rsp = 1 /\ mask = {} /\ jb.ready = FALSE
  BY SignalAssumption DEF Init, KernelInit
<1>2. \A i \in 1..MaxDepth : stack[i].sig = 0 /\ stack[i].at = "user" /\ stack[i].want = {}
  BY DEF Init, KernelInit, Idle
<1>3. QED
  BY <1>1, <1>2 DEF JumpInv, OneProgram, Jumpable, Restored, MaskOwned, Sheltered, top

LEMMA JumpInvHolds == Spec => [](TypeOK /\ JumpInv)
<1>1. Init => TypeOK /\ JumpInv
  BY InitType, JumpInvInit
<1>2. TypeOK /\ JumpInv /\ [Next]_vars => (TypeOK /\ JumpInv)'
  BY TypeStep, JumpInvStep
<1>3. QED
  BY <1>1, <1>2, PTL DEF Spec

\* The mask in force is the one the executing activation asked for, after however
\* many handlers and jumps (libmini64.asm:103-117, 131-145).
THEOREM MaskOwnedHolds == Spec => []MaskOwned
<1>1. JumpInv => MaskOwned
  BY DEF JumpInv
<1>2. QED
  BY <1>1, JumpInvHolds, PTL

\* A signal the interrupted code has blocked does not interrupt it
\* (libmini.c:208-220, libmini64.asm:131-145).
THEOREM ShelteredHolds == Spec => []Sheltered
<1>1. JumpInv => Sheltered
  BY DEF JumpInv
<1>2. QED
  BY <1>1, JumpInvHolds, PTL

-----------------------------------------------------------------------------
(* Handlers of one signal do not nest, if sigaction always gets an act.    *)

Deferring == \A s \in Signals : ~disp[s].nodefer

\* A handler that runs has its own signal in the mask of all that runs on top of it.
Nested == \A i \in 2..rsp : \A j \in i..rsp : stack[i].sig \in stack[j].want

LEMMA DeferringStep ==
  ASSUME "sigaction_query" \notin Calls, TypeOK, Deferring, [Next]_vars
  PROVE  Deferring'
<1>1. disp \in [Signals -> Disposition]
  BY DEF TypeOK, KernelTypeOK
<1>2. ASSUME NEW s \in Signals, NEW d \in Disposition, ~d.nodefer, Install(s, d)
      PROVE  Deferring'
  BY <1>1, <1>2 DEF Install, Deferring
<1>3. ASSUME NEW s \in Signals, NEW h \in {"dfl", "ign", "function"},
             NEW m \in SUBSET Signals
      PROVE  LET d == [handler |-> h, sa_mask |-> m, nodefer |-> FALSE]
             IN  d \in Disposition /\ ~d.nodefer
  BY DEF Disposition
<1>4. CASE UNCHANGED disp
  BY <1>4 DEF Deferring
<1>5. ASSUME NEW s \in Signals, NEW h \in {"dfl", "ign", "function"},
             NEW m \in SUBSET Signals, Sigaction(s, h, m)
      PROVE  Deferring'
  BY <1>2, <1>3, <1>5 DEF Sigaction
<1>6. ASSUME NEW s \in Signals, NEW h \in {"dfl", "ign", "function"}, Signal(s, h)
      PROVE  Deferring'
  BY <1>2, <1>3, <1>6 DEF Signal
<1>7. CASE Library
  BY <1>4, <1>5, <1>6, <1>7
  DEF Library, SystemCall, WrapperReturns, BadArgument, PerrorPrefix, PerrorMessage,
      Sigprocmask, SigactionQuery, SigactionRefused, Called, Alarm, Wait, SleepEnds, SetjmpRegisters,
      SetjmpMask, LongjmpRegisters, LongjmpMask, LongjmpReturns, kernelVars
<1>8. CASE Kernel
  BY <1>4, <1>8 DEF Kernel, Raise, AlarmFires, Deliver, Handle, HandlerReturns
<1>9. QED
  BY <1>4, <1>7, <1>8 DEF Next, Dead, vars, kernelVars

\* Activations may block more.
LEMMA NestedKept ==
  ASSUME TypeOK, Nested, rsp' = rsp,
         \A i \in 2..rsp : stack'[i].sig = stack[i].sig /\ stack[i].want \subseteq stack'[i].want
  PROVE  Nested'
<1>1. rsp \in Nat
  BY TopType, SignalAssumption
<1>2. QED
  BY <1>1 DEF Nested

\* Whatever happens with the program alone on the stack
LEMMA NestedAlone ==
  ASSUME rsp' = 1
  PROVE  Nested'
  BY DEF Nested

LEMMA NestedLibrary ==
  ASSUME TypeOK, JumpInv, Nested, Library
  PROVE  Nested'
<1>1. /\ rsp \in 1..MaxDepth /\ stack \in [1..MaxDepth -> Activation]
      /\ top \in Activation /\ MaxDepth \in Nat \ {0}
  BY TopType, SignalAssumption DEF TypeOK, KernelTypeOK
<1>2. CASE Plain
  <2>1. PICK a \in Activation :
          stack' = [stack EXCEPT ![rsp] = a] /\ a.sig = top.sig /\ a.want = top.want
    BY <1>2, PlainMoves DEF TopMoves
  <2>2. stack'[rsp] = a /\ \A i \in 1..MaxDepth : i # rsp => stack'[i] = stack[i]
    BY <1>1, <2>1
  <2>3. \A i \in 2..rsp : stack'[i].sig = stack[i].sig /\ stack[i].want \subseteq stack'[i].want
    BY <1>1, <2>1, <2>2 DEF top
  <2>4. QED
    BY <1>2, <2>3, PlainMoves, NestedKept DEF TopMoves
<1>3. CASE BadArgument
  BY <1>3, NestedKept DEF BadArgument, kernelVars
<1>4. ASSUME NEW how \in {"SIG_BLOCK", "SIG_UNBLOCK", "SIG_SETMASK"},
             NEW set \in SUBSET Signals, Sigprocmask(how, set)
      PROVE  Nested'
  <2>1. rsp' = rsp
    BY <1>4 DEF Sigprocmask
  <2>2. CASE rsp = 1
    BY <2>1, <2>2, NestedAlone
  <2>3. CASE how = "SIG_BLOCK"
    <3>1. mask \subseteq mask' /\ mask = top.want
      BY <1>4, <2>3 DEF Sigprocmask, Procmask, Called, JumpInv, MaskOwned
    <3>2. stack' = [stack EXCEPT ![rsp] =
                      [top EXCEPT !.at = "wrap", !.ret = 0, !.want = mask']]
      BY <1>4, SigprocmaskType
    <3>3. stack'[rsp].sig = top.sig /\ stack'[rsp].want = mask'
      BY <1>1, <3>2 DEF Activation
    <3>4. \A i \in 1..MaxDepth : i # rsp => stack'[i] = stack[i]
      BY <1>1, <3>2
    <3>5. \A i \in 2..rsp : stack'[i].sig = stack[i].sig /\ stack[i].want \subseteq stack'[i].want
      BY <1>1, <3>1, <3>3, <3>4 DEF top
    <3>6. QED
      BY <2>1, <3>5, NestedKept
  <2>4. QED
    BY <1>4, <2>2, <2>3 DEF Sigprocmask
<1>5. CASE SetjmpRegisters \/ LongjmpRegisters
  BY <1>5, NestedAlone DEF SetjmpRegisters, LongjmpRegisters
<1>6. CASE LongjmpMask
  <2>1. top.at = "longjmp" /\ rsp' = rsp
    BY <1>6 DEF LongjmpMask
  <2>2. rsp = 1
    BY <1>1, <2>1 DEF JumpInv, OneProgram, top
  <2>3. QED
    BY <2>1, <2>2, NestedAlone
<1>7. QED
  BY <1>2, <1>3, <1>4, <1>5, <1>6, LibraryCases

LEMMA NestedKernel ==
  ASSUME TypeOK, JumpInv, Deferring, Nested, Kernel
  PROVE  Nested'
<1>1. /\ rsp \in 1..MaxDepth /\ MaxDepth \in Nat \ {0}
      /\ stack \in [1..MaxDepth -> Activation]
  BY TopType, SignalAssumption DEF TypeOK, KernelTypeOK
<1>2. CASE UNCHANGED <<stack, rsp>>
  BY <1>2, NestedKept
<1>3. ASSUME NEW s \in Signals, Handle(s) PROVE Nested'
  <2>1. mask \subseteq mask' /\ s \in mask'
    BY <1>3, HandleEffect DEF HandlerMask, Deferring
  <2>2. /\ rsp' = rsp + 1
        /\ \A i \in 1..rsp : stack'[i].sig = stack[i].sig /\ stack'[i].want = stack[i].want
        /\ stack'[rsp + 1].sig = s /\ stack'[rsp + 1].want = mask'
    BY <1>1, <1>3, HandleEffect DEF top
  <2>3. rsp # 1 => mask = stack[rsp].want
    BY <1>1 DEF JumpInv, OneProgram, MaskOwned, top
  <2>4. \A i \in 2..rsp : stack[i].sig \in mask'
    BY <1>1, <2>1, <2>3 DEF Nested
  <2>5. ASSUME NEW i \in 2..(rsp + 1), NEW j \in i..(rsp + 1)
        PROVE  stack'[i].sig \in stack'[j].want
    <3>1. CASE j = rsp + 1
      BY <1>1, <2>1, <2>2, <2>4, <3>1
    <3>2. CASE j # rsp + 1
      <4>1. i \in 2..rsp /\ j \in i..rsp
        BY <1>1, <3>2
      <4>2. stack[i].sig \in stack[j].want
        BY <4>1 DEF Nested
      <4>3. QED
        BY <1>1, <2>2, <4>1, <4>2
    <3>3. QED
      BY <3>1, <3>2
  <2>6. QED
    BY <2>2, <2>5 DEF Nested
<1>4. CASE HandlerReturns
  <2>1. rsp' = rsp - 1 /\ \A i \in 1..(rsp - 1) : stack'[i] = stack[i]
    BY <1>1, <1>4 DEF HandlerReturns
  <2>2. QED
    BY <1>1, <2>1 DEF Nested
<1>5. QED
  BY <1>2, <1>3, <1>4 DEF Kernel, Raise, AlarmFires, Deliver

\* Handlers on the stack have different signals.
LEMMA NestedApart ==
  ASSUME TypeOK, JumpInv, Nested
  PROVE  NoReentry
<1>1. rsp \in 1..MaxDepth /\ MaxDepth \in Nat \ {0} /\ stack[1].sig = 0
  BY TopType, SignalAssumption DEF JumpInv, OneProgram
<1>2. SUFFICES ASSUME NEW i \in 1..rsp, NEW j \in 1..rsp, i < j, stack[i].sig # 0,
                      stack[i].sig = stack[j].sig
               PROVE  FALSE
  BY DEF NoReentry
<1>3. i \in 2..rsp /\ j - 1 \in i..rsp /\ j - 1 \in 1..(rsp - 1) /\ j - 1 \in 2..MaxDepth
  BY <1>1, <1>2
<1>4. stack[i].sig \in stack[j - 1].want
  BY <1>3 DEF Nested
<1>5. stack[j - 1].at # "longjmp"
  BY <1>3 DEF JumpInv, OneProgram
<1>6. stack[(j - 1) + 1].sig \notin stack[j - 1].want
  BY <1>3, <1>5 DEF JumpInv, Sheltered
<1>7. (j - 1) + 1 = j
  BY <1>1
<1>8. QED
  BY <1>2, <1>4, <1>6, <1>7

\* A handler is not interrupted by its own signal, by however many ways handlers are
\* left, when no disposition is installed from an uninitialised kact
\* (libmini.c:293-303, 322-326, libmini64.asm:119-147).
THEOREM NoReentryHolds ==
  ASSUME "sigaction_query" \notin Calls
  PROVE  Spec => []NoReentry
<1> DEFINE I == TypeOK /\ JumpInv /\ Deferring /\ Nested
<1>1. Init => I
  <2> SUFFICES ASSUME Init PROVE Deferring /\ Nested
    BY InitType, JumpInvInit
  <2>1. Deferring
    BY DEF Init, KernelInit, Deferring, Default
  <2>2. Nested
    BY DEF Init, KernelInit, Nested
  <2>3. QED
    BY <2>1, <2>2
<1>2. I /\ [Next]_vars => I'
  <2> SUFFICES ASSUME I, [Next]_vars PROVE I'
    OBVIOUS
  <2>1. TypeOK' /\ JumpInv' /\ Deferring'
    BY TypeStep, JumpInvStep, DeferringStep
  <2>2. Nested'
    <3>1. CASE UNCHANGED vars
      BY <3>1, NestedKept DEF vars, kernelVars
    <3>2. QED
      BY <3>1, NestedLibrary, NestedKernel DEF Next, Dead
  <2>3. QED
    BY <2>1, <2>2
<1>3. I => NoReentry
  BY NestedApart
<1>4. QED
  BY <1>1, <1>2, <1>3, PTL DEF Spec
=============================================================================
