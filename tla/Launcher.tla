------------------------------ MODULE Launcher ------------------------------
(***************************************************************************)
(* hw2.cpp of 0616078_hw2, in its two revisions: it takes its command line *)
(* apart, says where the log goes, and becomes the command, with logger.so *)
(* preloaded.  A word is what the code tells it from: "--", an option, a   *)
(* word that looks like one, or another.                                   *)
(***************************************************************************)
EXTENDS FirstLogger, Sequences

CONSTANTS
  Versions,  \* the revisions launched: "first", "final"
  Words,     \* the words of a command
  MaxWords   \* bound: how many words a command has

VARIABLES
  version,
  phase,     \* typed; parsed: options seen, log set up; running: the command; over
  told,      \* what the user means: with -o, with -p, with "--", and the command
  preload    \* LD_PRELOAD, until the command runs

launchVars == <<version, phase, told, preload>>

Told == [out : BOOLEAN, path : BOOLEAN, dash : BOOLEAN,
         cmd : UNION {[1..n -> Words] : n \in 0..MaxWords}]

\* What the model keeps of it when the command runs: nothing depends on it any more
Forgotten == [out |-> FALSE, path |-> FALSE, dash |-> FALSE, cmd |-> <<>>]

\* argv behind argv[0]
Argv ==
  (IF told.out THEN <<"-o", "log.txt">> ELSE <<>>)
    \o (IF told.path THEN <<"-p", "my.so">> ELSE <<>>)
    \o (IF told.dash THEN <<"--">> ELSE <<>>)
    \o told.cmd

LaunchInit ==
  /\ Init
  /\ version \in Versions
  /\ phase = "typed"
  /\ told \in Told
  /\ preload = "none"

-----------------------------------------------------------------------------
(* Taking the command line apart.                                          *)

LooksLikeOption(w) == w \in {"-o", "-p", "-l"}

\* dash_idx, -1 without "--"
DashIdx ==
  IF \E i \in DOMAIN Argv : Argv[i] = "--"
  THEN CHOOSE i \in DOMAIN Argv : Argv[i] = "--" /\ \A j \in 1..(i - 1) : Argv[j] # "--"
  ELSE -1

\* log_argv: what stands before "--"
LogArgv == IF DashIdx = -1 THEN Argv ELSE SubSeq(Argv, 1, DashIdx - 1)

\* Whether getopt takes the word for the argument of the option before it
Optarg[i \in 0..Len(LogArgv)] ==
  i > 1 /\ LogArgv[i - 1] \in {"-o", "-p"} /\ ~Optarg[i - 1]

\* The options getopt returns: it finds them behind other words, too.
Opts(w) == {i \in DOMAIN LogArgv : LogArgv[i] = w /\ ~Optarg[i]}

\* An unknown option, or no argument: '?'
BadOption ==
  \/ Opts("-l") # {}
  \/ Len(LogArgv) \in Opts("-o") \union Opts("-p")

\* Mutant: an option counts as one word.
CmdIdxShort ==
  IF DashIdx # -1 THEN DashIdx + 1 ELSE Cardinality(Opts("-o") \union Opts("-p")) + 1

\* cmd_idx: behind "--", or behind as many pairs of words as there are options
CmdIdx ==
  LET idx == IF DashIdx # -1 THEN DashIdx + 1
             ELSE 2 * Cardinality(Opts("-o") \union Opts("-p")) + 1
  IN  IF version = "first" /\ idx > Len(Argv) THEN Len(Argv) ELSE idx

-----------------------------------------------------------------------------

threadVars == <<cwd, fd_flag, stderr_fd, own, th>>

\* "no command given.", or the usage
Refuse ==
  /\ \/ phase = "typed" /\ (BadOption \/ (version = "final" /\ Argv = <<>>))
     \/ phase = "parsed" /\ CmdIdx \notin DOMAIN Argv
  /\ phase' = "over"
  /\ told' = Forgotten
  /\ UNCHANGED <<vars, version, preload>>

Parsed ==
  /\ phase = "typed"
  /\ ~BadOption
  /\ phase' = "parsed"
  /\ preload' = IF Opts("-p") = {} THEN "default" ELSE "given"
  /\ UNCHANGED <<threadVars, version, told>>

\* The environment says where the log goes. Its file is emptied.
Parse ==
  /\ version = "final"
  /\ Argv # <<>>
  /\ Parsed
  /\ OUTPUT_FILE' = IF Opts("-o") = {} THEN "STDERR" ELSE "file"
  /\ UNCHANGED table

\* Descriptor 2 is the log, OUTPUT_FILE stands for what is open there: the file, unless
\* it could not be opened, or stderr, opened again with O_APPEND on a descriptor which
\* the command keeps.
FirstParse ==
  /\ version = "first"
  /\ Parsed
  /\ \/ /\ Opts("-o") # {}
        /\ OpenResults # {-1}
        /\ table' = [table EXCEPT ![2] = "log"]
        /\ OUTPUT_FILE' = "file"
     \/ Opts("-o") # {} /\ UNCHANGED table /\ OUTPUT_FILE' = "STDERR"
     \/ /\ Opts("-o") = {}
        /\ \E n \in OpenResults : table' = Opened(n, "err")
        /\ OUTPUT_FILE' = "STDERR"

\* execvp: the command runs, or there is none of that name.
Exec ==
  /\ phase = "parsed"
  /\ CmdIdx \in DOMAIN Argv
  /\ phase' \in {"running", "over"}
  /\ told' = Forgotten
  /\ preload' = "none"
  /\ UNCHANGED <<vars, version>>

Runs ==
  /\ phase = "running"
  /\ IF version = "final" THEN Next ELSE \E t \in Threads : FirstStep(t)
  /\ UNCHANGED launchVars

Ended == phase = "over" /\ UNCHANGED <<vars, launchVars>>

LaunchNext == Refuse \/ Parse \/ FirstParse \/ Exec \/ Runs \/ Ended

LaunchSpec == LaunchInit /\ [][LaunchNext]_<<vars, launchVars>>

-----------------------------------------------------------------------------

\* Nothing in the command can be taken for a word of the launcher.
Clear ==
  told.dash \/ \A i \in DOMAIN told.cmd : told.cmd[i] # "--" /\ ~LooksLikeOption(told.cmd[i])

\* The command that runs is the one the user typed, with all its words, with the log and
\* the logger.so that were asked for, if "--" or the command's own words leave no doubt
\* (hw2.cpp:17-20, 82-104).  The last revision runs nothing when there is no command; the
\* first leaves the log on stderr if the file could not be opened.
LaunchesTold ==
  [][Exec => /\ Clear /\ told.cmd # <<>> =>
                  /\ SubSeq(Argv, CmdIdx, Len(Argv)) = told.cmd
                  /\ \/ OUTPUT_FILE = (IF told.out THEN "file" ELSE "STDERR")
                     \/ version = "first" /\ OUTPUT_FILE = "STDERR"
                  /\ preload = (IF told.path THEN "given" ELSE "default")
             /\ version = "final" => ~Clear \/ told.cmd # <<>>]_<<vars, launchVars>>
=============================================================================
