-------------------------------- MODULE View --------------------------------
(***************************************************************************)
(* What the debugger of module Sdb shows of the program's .text: where     *)
(* load() of hw4.cpp and the reader of open_elf.cpp find it, and dump with *)
(* its address that goes on from one dump to the next.  The ELF handle is  *)
(* one for all files, and nothing in it is reset.                          *)
(***************************************************************************)
EXTENDS SdbProps

CONSTANTS
  Sectioned,  \* the programs that have section headers
  DumpAddrs,  \* the addresses the user gives to dump
  LineSize,   \* the bytes of a line, 16
  Lines       \* the lines of a dump, 5

ASSUME ViewAssumption ==
  /\ Sectioned \subseteq Programs
  /\ DumpAddrs \subseteq Nat
  /\ LineSize \in Nat \ {0} /\ Lines \in Nat \ {0}

VARIABLES
  text,      \* the file whose .text header load() has copied last
  image,     \* history: the file the tracee executes
  dumpaddr,  \* where dump goes on, -1 before the first
  from,      \* history: where the dump began that goes on
  shown      \* history: the addresses of the bytes it has printed

dumpVars == <<dumpaddr, from, shown>>
viewVars == <<text, image, dumpVars>>

ViewInit ==
  /\ Init
  /\ text = NoProgram
  /\ image = NoProgram
  /\ dumpaddr = -1
  /\ from = -1
  /\ shown = {}

-----------------------------------------------------------------------------
(* load.                                                                   *)

\* load_shdr() returns early without section headers, load_strtab() then leaves
\* no string table, and the search for .text has nothing to look through.
LoadText(f) == text' = IF f \in Sectioned THEN f ELSE text

LoadAndRead(f) ==
  /\ Load(f)
  /\ LoadText(f)
  /\ from' = dumpaddr
  /\ shown' = {}
  /\ UNCHANGED <<image, dumpaddr>>

\* The other commands and the waiting. execvp() in the child of start() takes the program
\* of the moment.
Elsewhere ==
  /\ OtherCommand \/ DebuggerWaits \/ ChildMoves
  /\ image' = IF child' # child THEN program ELSE image
  /\ UNCHANGED <<text, dumpVars>>

-----------------------------------------------------------------------------
(* dump.                                                                   *)

\* text.sh_addr + text.sh_size
End == IF text = NoProgram THEN 0 ELSE TextSize + 1

\* Division of C, towards zero
Quotient(n, d) == IF n >= 0 THEN n \div d ELSE -((-n) \div d)

\* Mutant: the end of .text is not looked at.
DumpLinesAlways(a) == Lines

\* How many lines are printed from address a
DumpLines(a) ==
  LET rest == Quotient(End - a, LineSize) + 1
  IN  IF End - a >= Lines * LineSize THEN Lines ELSE IF rest > 0 THEN rest ELSE 0

\* Mutant: print_cnt does not stop at the end.
PrintedBlind(a, n) == a..(a + n - 1)

\* The bytes printed by n bytes' worth of lines: print_cnt counts up to length.
Printed(a, n) == {b \in a..(a + n - 1) : b - a < End - a}

\* The lines from a, behind what was shown before
Show(a, before) ==
  LET n == DumpLines(a) * LineSize
  IN  /\ dumpaddr' = a + n
      /\ shown' = before \union Printed(a, n)
      /\ UNCHANGED <<vars, text, image>>

\* dump addr
DumpAt(a) ==
  /\ TypedRunning("dump")
  /\ from' = a
  /\ Show(a, {})

\* dump goes on
DumpOn ==
  /\ TypedRunning("dump")
  /\ dumpaddr # -1
  /\ Show(dumpaddr, shown)
  /\ UNCHANGED from

\* or, the first time, takes the word for "no address" for the address 0.
DumpBare ==
  /\ TypedRunning("dump")
  /\ dumpaddr = -1
  /\ from' = 0
  /\ Show(0, {})

-----------------------------------------------------------------------------

ViewNext ==
  \/ \E f \in Programs : LoadAndRead(f)
  \/ Elsewhere
  \/ \E a \in DumpAddrs : DumpAt(a)
  \/ DumpOn
  \/ DumpBare
  \/ Terminated /\ UNCHANGED viewVars

ViewSpec == ViewInit /\ [][ViewNext]_<<vars, viewVars>>

-----------------------------------------------------------------------------

\* While the state is RUNNING the tracee executes the program that was loaded last, and
\* the .text that bounds dump and disasm is its own, if it has section headers
\* (hw4.cpp:219, 231, 241-246, 476): load is possible while a program is traced.
SameProgram ==
  state = "RUNNING" => image = program /\ (image \in Sectioned => text = image)

\* One dump after the other prints every byte from the address given on, up to the end
\* of .text, none left out where one dump ends and the next begins (hw4.cpp:378-391).
DumpCovers == dumpaddr # -1 => shown = {b \in from..(dumpaddr - 1) : b < End}

\* dump stops less than two lines behind the end of .text, or where it began
\* (hw4.cpp:379-382).
DumpStops == dumpaddr < End + 2 * LineSize \/ dumpaddr = from
=============================================================================
