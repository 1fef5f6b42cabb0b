---------------------------- MODULE SignalKernel ----------------------------
(***************************************************************************)
(* Signals of one process as the kernel handles them, as far as the library*)
(* of 0616078_hw3 depends on it.  None of it is code of the repository: it *)
(* is read off the system calls in libmini.c and libmini64.asm.            *)
(*                                                                         *)
(* The process has one stack: the program, and on top of it the handlers   *)
(* that interrupted one another.  An activation is at a label, where the   *)
(* next signal finds it.                                                   *)
(***************************************************************************)
EXTENDS Integers

CONSTANTS
  Signals,   \* the signals of the instance
  SIGALRM,   \* the one alarm() raises
  MaxDepth,  \* bound: how many activations may be on the stack
  Errors     \* the error numbers a system call may fail with

EINTR == 4
EINVAL == 22

ASSUME SignalAssumption ==
  /\ Signals \subseteq Nat \ {0}
  /\ SIGALRM \in Signals
  /\ MaxDepth \in Nat \ {0}
  /\ Errors \subseteq Nat \ {0}

VARIABLES
  mask,     \* the blocked signals of the process
  pending,  \* signals raised and not yet delivered
  disp,     \* what was installed for every signal by rt_sigaction
  timer,    \* whether an alarm is set
  died,     \* a signal ended the process
  stack,    \* the activations, stack[1] being the program
  rsp       \* the activation that executes

kernelVars == <<mask, pending, disp, timer, died, stack, rsp>>

\* user: in the program's own code; wrap: behind a system call, errno not set yet;
\* pause, sleep: in that system call; the others are inside the library function
Label == {"user", "wrap", "pause", "sleep", "setjmp", "longjmp", "jumped", "perror"}

Errnos == {0, EINTR, EINVAL} \union Errors

\* sig: the signal it handles, 0 for the program; saved: the mask sigreturn restores;
\* want: history, the mask the activation was started with or has set since;
\* ret: the error the last system call failed with, or 0; backup: local of perror()
Activation == [sig : Signals \union {0}, at : Label, saved : SUBSET Signals,
               want : SUBSET Signals, ret : Errnos, backup : Errnos]

Idle == [sig |-> 0, at |-> "user", saved |-> {}, want |-> {}, ret |-> 0, backup |-> 0]

\* wild: an address that is no function, whose call ends the process
Disposition == [handler : {"dfl", "ign", "function", "wild"},
                sa_mask : SUBSET Signals, nodefer : BOOLEAN]

Default == [handler |-> "dfl", sa_mask |-> {}, nodefer |-> FALSE]

KernelTypeOK ==
  /\ mask \subseteq Signals
  /\ pending \subseteq Signals
  /\ disp \in [Signals -> Disposition]
  /\ timer \in BOOLEAN
  /\ died \in BOOLEAN
  /\ stack \in [1..MaxDepth -> Activation]
  /\ rsp \in 1..MaxDepth

KernelInit ==
  /\ mask = {}
  /\ pending = {}
  /\ disp = [s \in Signals |-> Default]
  /\ timer = FALSE
  /\ died = FALSE
  /\ stack = [i \in 1..MaxDepth |-> Idle]
  /\ rsp = 1

-----------------------------------------------------------------------------

top == stack[rsp]

\* The executing activation goes on at label l.
At(l) == [stack EXCEPT ![rsp].at = l]

\* A signal that is ignored and not blocked is dropped.
Raised(s) ==
  IF disp[s].handler = "ign" /\ s \notin mask THEN pending ELSE pending \union {s}

\* kill from outside, ^C
Raise(s) ==
  /\ pending' = Raised(s)
  /\ UNCHANGED <<mask, disp, timer, died, stack, rsp>>

AlarmFires ==
  /\ timer
  /\ timer' = FALSE
  /\ pending' = Raised(SIGALRM)
  /\ UNCHANGED <<mask, disp, died, stack, rsp>>

\* What the handled signal does to a system call that waits: pause fails, sleep
\* returns (its own return value is not errno).
Interrupted(a) ==
  CASE a.at = "pause" -> [a EXCEPT !.at = "wrap", !.ret = EINTR]
    [] a.at = "sleep" -> [a EXCEPT !.at = "user"]
    [] OTHER -> a

\* A handler starts on top of whatever executes.
Handle(s) ==
  /\ disp[s].handler = "function"
  /\ rsp < MaxDepth
  /\ LET blocked == mask \union disp[s].sa_mask
                         \union (IF disp[s].nodefer THEN {} ELSE {s})
     IN  /\ mask' = blocked
         /\ stack' = [stack EXCEPT
              ![rsp] = Interrupted(@),
              ![rsp + 1] = [Idle EXCEPT !.sig = s, !.saved = mask, !.want = blocked]]
  /\ rsp' = rsp + 1
  /\ UNCHANGED <<disp, timer, died>>

\* A signal that is not blocked is acted upon, between any two instructions.
Deliver(s) ==
  /\ s \in pending \ mask
  /\ pending' = pending \ {s}
  /\ \/ Handle(s)
     \/ /\ disp[s].handler = "ign"
        /\ UNCHANGED <<mask, disp, timer, died, stack, rsp>>
     \/ /\ disp[s].handler \in {"dfl", "wild"}
        /\ died' = TRUE
        /\ UNCHANGED <<mask, disp, timer, stack, rsp>>

\* The handler returns to sys_rt_sigreturn, its sa_restorer.
HandlerReturns ==
  /\ rsp > 1
  /\ top.at = "user"
  /\ mask' = top.saved
  /\ stack' = [stack EXCEPT ![rsp] = Idle]
  /\ rsp' = rsp - 1
  /\ UNCHANGED <<pending, disp, timer, died>>

\* rt_sigaction: a signal that becomes ignored is pending no more.
Install(s, d) ==
  /\ disp' = [disp EXCEPT ![s] = d]
  /\ pending' = IF d.handler = "ign" THEN pending \ {s} ELSE pending

\* rt_sigprocmask
Procmask(how, set) ==
  mask' = CASE how = "SIG_BLOCK"   -> mask \union set
            [] how = "SIG_UNBLOCK" -> mask \ set
            [] how = "SIG_SETMASK" -> set
=============================================================================
