------------------------------- MODULE LibMini -------------------------------
(***************************************************************************)
(* The library of 0616078_hw3 (libmini.c, libmini64.asm): system call      *)
(* wrappers and errno, signal masks and handlers, setjmp and longjmp.  Any *)
(* activation may call it, the program as well as a handler; a call takes  *)
(* more than one action where a signal in between makes a difference.      *)
(***************************************************************************)
EXTENDS SignalKernel

CONSTANTS
  Calls      \* the library functions the instance calls

ASSUME LibAssumption == Calls \subseteq STRING

VARIABLES
  errno,
  jb         \* the jmp_buf: ready: setjmp returned; mask: the mask it saved;
             \* want: history, the mask of the program when it called setjmp

vars == <<kernelVars, errno, jb>>

TypeOK ==
  /\ KernelTypeOK
  /\ errno \in Errnos
  /\ jb \in [ready : BOOLEAN, mask : SUBSET Signals, want : SUBSET Signals]

Init ==
  /\ KernelInit
  /\ errno = 0
  /\ jb = [ready |-> FALSE, mask |-> {}, want |-> {}]

-----------------------------------------------------------------------------
(* Wrappers.                                                               *)

\* The program, or a handler, calls library function c.
Called(c) == ~died /\ top.at = "user" /\ c \in Calls

\* Behind a system call that returned 0 or failed with error r.
Wrapped(r) == [stack EXCEPT ![rsp].at = "wrap", ![rsp].ret = r]

\* read, write, open, ...: the system call
SystemCall(r) ==
  /\ Called("syscall")
  /\ stack' = Wrapped(r)
  /\ UNCHANGED <<mask, pending, disp, timer, died, rsp, errno, jb>>

\* Mutant: an error is left in errno as it came from the kernel, negative.
WrapperNegative ==
  /\ ~died
  /\ top.at = "wrap"
  /\ errno' = -top.ret
  /\ stack' = [stack EXCEPT ![rsp].at = "user", ![rsp].ret = 0]
  /\ UNCHANGED <<mask, pending, disp, timer, died, rsp, jb>>

\* WRAPPER_RETval: errno = 0; if(ret < 0) errno = -ret
WrapperReturns ==
  /\ ~died
  /\ top.at = "wrap"
  /\ errno' = top.ret
  /\ stack' = [stack EXCEPT ![rsp].at = "user", ![rsp].ret = 0]
  /\ UNCHANGED <<mask, pending, disp, timer, died, rsp, jb>>

\* A signal number or a handler that the library itself refuses
BadArgument ==
  /\ Called("badarg")
  /\ errno' = EINVAL
  /\ UNCHANGED <<kernelVars, jb>>

\* perror(prefix): errno is saved, and overwritten by the write of the prefix.
PerrorPrefix(prefix) ==
  /\ Called("perror")
  /\ \E e \in {0} \union Errors : errno' = IF prefix THEN e ELSE errno
  /\ stack' = [stack EXCEPT ![rsp].at = "perror", ![rsp].backup = errno]
  /\ UNCHANGED <<mask, pending, disp, timer, died, rsp, jb>>

\* The message is chosen, and written by a further write.
PerrorMessage ==
  /\ ~died
  /\ top.at = "perror"
  /\ errno' \in {0} \union Errors
  /\ stack' = [stack EXCEPT ![rsp].at = "user", ![rsp].backup = 0]
  /\ UNCHANGED <<mask, pending, disp, timer, died, rsp, jb>>

-----------------------------------------------------------------------------
(* Masks and handlers.                                                     *)

\* Mutant: the copy of set is not passed on, the mask stays.
SigprocmaskLoses(how, set) ==
  /\ Called("sigprocmask")
  /\ how = "SIG_BLOCK" \/ rsp = 1
  /\ UNCHANGED mask
  /\ stack' = [Wrapped(0) EXCEPT ![rsp].want = mask']
  /\ UNCHANGED <<pending, disp, timer, died, rsp, errno, jb>>

\* Only the program unblocks signals; a handler may block more.
Sigprocmask(how, set) ==
  /\ Called("sigprocmask")
  /\ how = "SIG_BLOCK" \/ rsp = 1
  /\ Procmask(how, set)
  /\ stack' = [Wrapped(0) EXCEPT ![rsp].want = mask']
  /\ UNCHANGED <<pending, disp, timer, died, rsp, errno, jb>>

\* sigaction(s, act, oldact), without SA_NODEFER among the flags of act
Sigaction(s, handler, sa_mask) ==
  /\ Called("sigaction")
  /\ Install(s, [handler |-> handler, sa_mask |-> sa_mask, nodefer |-> FALSE])
  /\ stack' = Wrapped(0)
  /\ UNCHANGED <<mask, timer, died, rsp, errno, jb>>

\* sigaction(s, NULL, oldact): kact is passed on uninitialised.
SigactionQuery(s) ==
  /\ Called("sigaction_query")
  /\ \E kact \in Disposition : Install(s, kact)
  /\ stack' = Wrapped(0)
  /\ UNCHANGED <<mask, timer, died, rsp, errno, jb>>

\* sigaction or signal for SIGKILL or SIGSTOP, which the kernel refuses
SigactionRefused ==
  /\ \E c \in {"sigaction", "sigaction_query", "signal"} : Called(c)
  /\ stack' = Wrapped(EINVAL)
  /\ UNCHANGED <<mask, pending, disp, timer, died, rsp, errno, jb>>

\* signal(s, handler)
Signal(s, handler) ==
  /\ Called("signal")
  /\ Install(s, [handler |-> handler, sa_mask |-> {s}, nodefer |-> FALSE])
  /\ stack' = Wrapped(0)
  /\ UNCHANGED <<mask, timer, died, rsp, errno, jb>>

\* alarm(seconds)
Alarm(seconds) ==
  /\ Called("alarm")
  /\ timer' = (seconds > 0)
  /\ stack' = Wrapped(0)
  /\ UNCHANGED <<mask, pending, disp, died, rsp, errno, jb>>

\* pause() and sleep() wait in the system call.
Wait(c) ==
  /\ Called(c)
  /\ stack' = At(c)
  /\ UNCHANGED <<mask, pending, disp, timer, died, rsp, errno, jb>>

SleepEnds ==
  /\ ~died
  /\ top.at = "sleep"
  /\ stack' = At("user")
  /\ UNCHANGED <<mask, pending, disp, timer, died, rsp, errno, jb>>

-----------------------------------------------------------------------------
(* setjmp and longjmp.                                                     *)

\* setjmp: the registers are saved.  The program calls it, not a handler.
SetjmpRegisters ==
  /\ Called("setjmp")
  /\ rsp = 1
  /\ stack' = At("setjmp")
  /\ jb' = [jb EXCEPT !.ready = FALSE, !.want = top.want]
  /\ UNCHANGED <<mask, pending, disp, timer, died, rsp, errno>>

\* Mutant: without the system call, jb keeps the mask of an earlier setjmp.
SetjmpForgets ==
  /\ ~died
  /\ top.at = "setjmp"
  /\ jb' = [jb EXCEPT !.ready = TRUE]
  /\ stack' = At("user")
  /\ UNCHANGED <<mask, pending, disp, timer, died, rsp, errno>>

\* then the mask, by rt_sigprocmask into jb; setjmp returns 0.
SetjmpMask ==
  /\ ~died
  /\ top.at = "setjmp"
  /\ jb' = [jb EXCEPT !.ready = TRUE, !.mask = mask]
  /\ stack' = At("user")
  /\ UNCHANGED <<mask, pending, disp, timer, died, rsp, errno>>

\* The stack is cut down to the program, which is at label l.
Unwound(l) ==
  [i \in 1..MaxDepth |-> IF i = 1 THEN [stack[1] EXCEPT !.at = l, !.ret = 0, !.backup = 0]
                                  ELSE Idle]

\* Mutant: the mask is restored first, with the handler still on the stack.
LongjmpMaskFirst ==
  /\ Called("longjmp")
  /\ jb.ready
  /\ mask' = jb.mask
  /\ stack' = At("longjmp")
  /\ UNCHANGED <<pending, disp, timer, died, rsp, errno, jb>>

\* longjmp: the registers are loaded, with the mask of the caller still in force.
\* The caller has to see to it that setjmp returned.
LongjmpRegisters ==
  /\ Called("longjmp")
  /\ jb.ready
  /\ stack' = Unwound("longjmp")
  /\ rsp' = 1
  /\ UNCHANGED <<mask, pending, disp, timer, died, errno, jb>>

\* Mutant: the mask is left as it is.
LongjmpForgets ==
  /\ ~died
  /\ top.at = "longjmp"
  /\ stack' = [stack EXCEPT ![rsp].at = "jumped", ![rsp].want = jb.want]
  /\ UNCHANGED <<mask, pending, disp, timer, died, rsp, errno, jb>>

\* then rt_sigprocmask(SIG_SETMASK, &jb.mask)
LongjmpMask ==
  /\ ~died
  /\ top.at = "longjmp"
  /\ Procmask("SIG_SETMASK", jb.mask)
  /\ stack' = [stack EXCEPT ![rsp].at = "jumped", ![rsp].want = jb.want]
  /\ UNCHANGED <<pending, disp, timer, died, rsp, errno, jb>>

\* and setjmp returns for another time.
LongjmpReturns ==
  /\ ~died
  /\ top.at = "jumped"
  /\ stack' = At("user")
  /\ UNCHANGED <<mask, pending, disp, timer, died, rsp, errno, jb>>

-----------------------------------------------------------------------------

Library ==
  \/ \E r \in {0} \union Errors : SystemCall(r)
  \/ WrapperReturns
  \/ BadArgument
  \/ \E prefix \in BOOLEAN : PerrorPrefix(prefix)
  \/ PerrorMessage
  \/ \E how \in {"SIG_BLOCK", "SIG_UNBLOCK", "SIG_SETMASK"}, set \in SUBSET Signals :
       Sigprocmask(how, set)
  \/ \E s \in Signals, h \in {"dfl", "ign", "function"}, m \in SUBSET Signals :
       Sigaction(s, h, m)
  \/ \E s \in Signals : SigactionQuery(s)
  \/ SigactionRefused
  \/ \E s \in Signals, h \in {"dfl", "ign", "function"} : Signal(s, h)
  \/ \E seconds \in 0..1 : Alarm(seconds)
  \/ \E c \in {"pause", "sleep"} : Wait(c)
  \/ SleepEnds
  \/ SetjmpRegisters
  \/ SetjmpMask
  \/ LongjmpRegisters
  \/ LongjmpMask
  \/ LongjmpReturns

Kernel ==
  /\ ~died
  /\ \/ \E s \in Signals : Raise(s)
     \/ AlarmFires
     \/ \E s \in Signals : Deliver(s)
     \/ HandlerReturns
  /\ UNCHANGED <<errno, jb>>

\* A process that a signal ended does nothing more.
Dead == died /\ UNCHANGED vars

Next == Library \/ Kernel \/ Dead

Spec == Init /\ [][Next]_vars

-----------------------------------------------------------------------------
(* Properties.                                                             *)

\* The mask in force is the one the executing activation was started with, or has
\* set since: handlers that return or jump leave no trace in the mask of what they
\* interrupted (libmini64.asm:107-111, 136-141).
MaskOwned == top.at # "longjmp" => mask = top.want

\* A handler is not interrupted by its own signal, also not by one that longjmp lets
\* in on the way out of it (libmini.c:322-326, libmini64.asm:122, 141).
NoReentry ==
  \A i, j \in 1..rsp : i < j /\ stack[i].sig # 0 => stack[i].sig # stack[j].sig

\* A signal the program has blocked does not interrupt it: no handler runs on top of
\* a program that holds the handler's signal, after however many jumps.
Sheltered ==
  \A i \in 1..(rsp - 1) : stack[i].at # "longjmp" => stack[i + 1].sig \notin stack[i].want
=============================================================================
