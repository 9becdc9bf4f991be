------------------------------ MODULE Options ------------------------------
(***************************************************************************)
(* The command line: option_parser_t::parse with the two options main      *)
(* registers, -h/--help and -i/--img.  One step is one turn of its loop.   *)
(*                                                                         *)
(* The parser gives an option the text that starts three characters after  *)
(* the option does, whatever is there.  For an option of two characters    *)
(* that is the next string of the process's argument block: the next       *)
(* element of argv or, behind the last one, the first string of the        *)
(* environment.                                                            *)
(***************************************************************************)
EXTENDS Sequences, Naturals

CONSTANT Lines   \* the command lines: sequences of options and names

\* Names a file can be given by.  The last four are not names the user wrote:
\* the rests of two options, and what the environment can begin with.
Names == {"Image", "./Image", "a.bin", "a.elf", "elp", "mage", "ENV", "E.NV"}
Environment == {"ENV", "E.NV"}

\* The options: the letter of those with one dash, the name of those with two.
Letter   == [o \in {"-h", "-i", "-x", "-iImage"} |->
               CASE o = "-h" -> "h" [] o = "-x" -> "x" [] OTHER -> "i"]
LongName == [o \in {"--help", "--img"} |-> IF o = "--help" THEN "help" ELSE "img"]
Dashed   == DOMAIN Letter \cup DOMAIN LongName

\* What is left of an option of more than two characters after three of them.
Rest == [o \in {"-iImage", "--help"} |-> IF o = "--help" THEN "elp" ELSE "mage"]

ASSUME OptionsAssumption == Lines \subseteq Seq(Names \cup Dashed)

VARIABLES
  where,   \* the part of the program that runs
  line,    \* the command line, after the program's name
  at,      \* the element the parser looks at
  file     \* sim.file, or "absent" for a null pointer

optionVars == <<line, at, file>>

OptionsInit ==
  /\ where = "options"
  /\ line \in Lines
  /\ at = 1
  /\ file = "absent"

-----------------------------------------------------------------------------
(* Mutated forms, for the runs that show the properties can be violated.   *)

OptargItself(k) == {line[k]}

-----------------------------------------------------------------------------

ChrMatch(opt, c) == opt \in DOMAIN Letter /\ Letter[opt] = c

\* strncmp is not 0 where the names differ.
StrMatch(opt, s) == opt \in DOMAIN LongName /\ LongName[opt] # s

\* The options are tried in the order in which main adds them.
IsHelp(opt)  == ChrMatch(opt, "h") \/ StrMatch(opt, "help")
IsImage(opt) == ~IsHelp(opt) /\ (ChrMatch(opt, "i") \/ StrMatch(opt, "img"))

\* opt + 3
Optarg(k) ==
  IF line[k] \in DOMAIN Rest THEN {Rest[line[k]]}
  ELSE IF k < Len(line) THEN {line[k + 1]} ELSE Environment

\* Not the end of argv, nor an element without a dash.
AtOption == at <= Len(line) /\ line[at] \in Dashed

ParseOption ==
  /\ where = "options" /\ AtOption
  /\ IF IsImage(line[at]) THEN file' \in Optarg(at) ELSE UNCHANGED file
  /\ at' = at + 1
  /\ UNCHANGED <<where, line>>

EndOptions ==
  /\ where = "options" /\ ~AtOption
  /\ where' = "load"
  /\ UNCHANGED optionVars

-----------------------------------------------------------------------------
(* Properties *)

\* The elements before the first that is no option.
Leading == {k \in DOMAIN line : \A j \in 1 .. k : line[j] \in Dashed}

\* The name the user gave: the word after -i or --img.
Meant ==
  LET named == {k \in Leading : line[k] \in {"-i", "--img"} /\ k < Len(line)} IN
  IF \E k \in named : k + 1 \notin Leading
  THEN line[(CHOOSE k \in named : k + 1 \notin Leading) + 1] ELSE "absent"

\* Lines that are taken for something else: a long option, a name without a
\* space after -i, and -i without a name.
Misread ==
  \E k \in Leading :
    \/ line[k] \in DOMAIN LongName \cup DOMAIN Rest
    \/ line[k] = "-i" /\ (k = Len(line) \/ k + 1 \in Leading)

\* Of every other line the parser takes the name the user gave, though it looks
\* for it only three characters on in memory (option_parser.cpp:16-19).
FileIsMeant == [][where = "options" /\ where' = "load" => file = Meant \/ Misread]_where
=============================================================================
