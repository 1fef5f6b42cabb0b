------------------------------ MODULE CallLog ------------------------------
(***************************************************************************)
(* What a call logger promises the threads of a program: a call takes      *)
(* effect once, then its line is written, piece by piece, to the log and   *)
(* nowhere else, and only then does the call return.  The descriptors a    *)
(* thread holds change by its own calls only.  Modules Logger and          *)
(* FirstLogger implement it.                                               *)
(***************************************************************************)
EXTENDS Integers

CONSTANTS
  Threads,      \* the threads of the program
  Descriptors,  \* what open may return
  MaxPieces     \* the number of writes a line takes at most

VARIABLES
  phase,  \* where a thread is: idle, in its own code; called; acted, behind the
          \* effect; due, a piece is to be written; writing
  left,   \* how many pieces of its line are still to be written
  sink,   \* where the piece in hand goes, nowhere if the log could not be opened
  held    \* the descriptors a thread has opened and not closed

vars == <<phase, left, sink, held>>

Init ==
  /\ phase = [t \in Threads |-> "idle"]
  /\ left = [t \in Threads |-> 0]
  /\ sink = [t \in Threads |-> "none"]
  /\ held = [t \in Threads |-> {}]

Call(t) ==
  /\ phase[t] = "idle"
  /\ phase' = [phase EXCEPT ![t] = "called"]
  /\ UNCHANGED <<left, sink, held>>

\* A descriptor that no thread holds
Takes(t) ==
  \E d \in Descriptors :
    /\ \A u \in Threads : d \notin held[u]
    /\ held' = [held EXCEPT ![t] = @ \union {d}]

GivesUp(t) == \E d \in held[t] : held' = [held EXCEPT ![t] = @ \ {d}]

Act(t) ==
  /\ phase[t] = "called"
  /\ Takes(t) \/ GivesUp(t) \/ UNCHANGED held
  /\ phase' = [phase EXCEPT ![t] = "acted"]
  /\ UNCHANGED <<left, sink>>

Tell(t) ==
  /\ phase[t] = "acted"
  /\ phase' = [phase EXCEPT ![t] = "due"]
  /\ \E n \in 1..MaxPieces : left' = [left EXCEPT ![t] = n]
  /\ UNCHANGED <<sink, held>>

Aim(t) ==
  /\ phase[t] = "due"
  /\ phase' = [phase EXCEPT ![t] = "writing"]
  /\ \E s \in {"log", "nowhere"} : sink' = [sink EXCEPT ![t] = s]
  /\ UNCHANGED <<left, held>>

Write(t) ==
  /\ phase[t] = "writing"
  /\ phase' = [phase EXCEPT ![t] = IF left[t] = 1 THEN "idle" ELSE "due"]
  /\ left' = [left EXCEPT ![t] = @ - 1]
  /\ sink' = [sink EXCEPT ![t] = "none"]
  /\ UNCHANGED held

Next == \E t \in Threads : Call(t) \/ Act(t) \/ Tell(t) \/ Aim(t) \/ Write(t)

Spec == Init /\ [][Next]_vars
=============================================================================
