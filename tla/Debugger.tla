------------------------------ MODULE Debugger ------------------------------
(***************************************************************************)
(* What a debugger promises the user of its command line: the program runs *)
(* one instruction after the other as it would alone, it executes an       *)
(* instruction at a break point only after the user was told that it is    *)
(* there, cont goes on to the next break point or the end, and si executes *)
(* one instruction.  No int3, no byte put back, no process is seen.        *)
(***************************************************************************)
EXTENDS Integers

CONSTANTS
  Insns,       \* the program's instructions
  Succ,        \* what may follow each of them, Exit at the end
  Entry,       \* its first instruction
  BreakAddrs   \* where the user may want a break point

VARIABLES
  session,  \* none, loaded, running, over
  breaks,   \* the break points
  at,       \* the instruction the program is to execute next, Nowhere without one
  told,     \* whether the user was told that the program is at the break point there
  busy      \* the command in progress: no, cont, si, or done: si that has stepped

vars == <<session, breaks, at, told, busy>>

Exit == 0
Nowhere == 0

Init ==
  /\ session = "none"
  /\ breaks = {}
  /\ at = Nowhere
  /\ told = FALSE
  /\ busy = "no"

Load ==
  /\ session \in {"none", "running"} /\ busy = "no"
  /\ session' = "loaded"
  /\ UNCHANGED <<breaks, at, told, busy>>

\* start; run goes on with cont.
Start ==
  /\ session \in {"loaded", "running"} /\ busy = "no"
  /\ session' = "running"
  /\ breaks' = {}
  /\ at' = Entry
  /\ told' = FALSE
  /\ busy' \in {"no", "cont"}

Break ==
  /\ session = "running" /\ busy = "no"
  /\ \E a \in BreakAddrs : breaks' = breaks \union {a}
  /\ UNCHANGED <<session, at, told, busy>>

Delete ==
  /\ session = "running" /\ busy = "no"
  /\ \E a \in breaks : breaks' = breaks \ {a}
  /\ UNCHANGED <<session, at, told, busy>>

Resume ==
  /\ session = "running" /\ busy = "no"
  /\ busy' \in {"cont", "si"}
  /\ UNCHANGED <<session, breaks, at, told>>

\* The program executes an instruction.
Step ==
  /\ busy \in {"cont", "si"}
  /\ at # Nowhere
  /\ at \notin breaks \/ told
  /\ \E n \in Succ[at] : at' = IF n = Exit THEN Nowhere ELSE n
  /\ told' = FALSE
  /\ busy' = IF busy = "si" THEN "done" ELSE busy
  /\ UNCHANGED <<session, breaks>>

\* It has come to a break point, and the user is told.
Stop ==
  /\ busy \in {"cont", "si"}
  /\ at \in breaks /\ ~told
  /\ told' = TRUE
  /\ busy' = "no"
  /\ UNCHANGED <<session, breaks, at>>

\* It has executed one instruction, or has ended.
Return ==
  /\ busy # "no"
  /\ \/ at = Nowhere /\ session' = "loaded"
     \/ at # Nowhere /\ busy = "done" /\ UNCHANGED session
  /\ busy' = "no"
  /\ UNCHANGED <<breaks, at, told>>

Quit ==
  /\ busy = "no" /\ session # "over"
  /\ session' = "over"
  /\ at' = Nowhere
  /\ told' = FALSE
  /\ UNCHANGED <<breaks, busy>>

Next == Load \/ Start \/ Break \/ Delete \/ Resume \/ Step \/ Stop \/ Return \/ Quit

Spec == Init /\ [][Next]_vars
=============================================================================
