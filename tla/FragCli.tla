------------------------------ MODULE FragCli ------------------------------
(***************************************************************************)
(* The command line of the CPU driver: main of lzo_cpu/lzo_frag.c, which   *)
(* reads its arguments one by one into a mode, a thread count, flags, an   *)
(* algorithm label and two file names, makes up the output's name when     *)
(* there is none, and calls compress_file or decompress_file.              *)
(*                                                                         *)
(* An argument is a member of a small set of words; what the code asks of  *)
(* one (is it a count, a label, an option) are the predicates below.  A    *)
(* file name is known by how often "decompressed_" stands before its stem, *)
(* whether the stem is empty, and how many ".lzo" follow.                  *)
(***************************************************************************)
EXTENDS Integers, Sequences

CONSTANTS
  Arguments,    (* The words a command line is made of.                    *)
  MaxArgs       (* Bounds their number.                                    *)

Flags  == {"--verify", "--benchmark", "--bench", "-v"}
(* What parse_int makes of the words it accepts: "0" is not one of them.   *)
Counts == [word \in {"1", "2"} |-> IF word = "1" THEN 1 ELSE 2]
Labels == {"1", "1k", "1l", "1o"}
Dashed == Flags \union {"-d", "-t", "-L", "-h", "-3"}
Names  == [x     |-> [dec |-> 0, stem |-> TRUE,  lzo |-> 0],
           x_lzo |-> [dec |-> 0, stem |-> TRUE,  lzo |-> 1],
           lzo   |-> [dec |-> 0, stem |-> FALSE, lzo |-> 1],
           empty |-> [dec |-> 0, stem |-> FALSE, lzo |-> 0]]

ASSUME ArgumentsAssumption ==
  /\ Arguments \subseteq Dashed \union Labels \union {"0", "2", "-"} \union DOMAIN Names
  /\ MaxArgs \in Nat

VARIABLES
  argv,              (* The arguments still to be read.                    *)
  mode_decompress, threads, flags,
  kernel_spec,       (* The -L label, "none" when none was given.          *)
  input, output,     (* File names, as words; "none" before they are given.*)
  target,            (* The name of the file to be written.                *)
  pc                 (* "options", "run" once a file is to be processed,   *)
                     (* or the exit code "0" or "1" of main itself.        *)

options == <<mode_decompress, threads, flags, kernel_spec>>
names   == <<input, output, target>>
vars    == <<argv, options, names, pc>>

Empty == Names.empty
Plain(word) == IF word \in DOMAIN Names THEN Names[word]
               ELSE [dec |-> 0, stem |-> TRUE, lzo |-> 0]

Init ==
  /\ argv \in UNION {[1 .. n -> Arguments] : n \in 0 .. MaxArgs}
  /\ mode_decompress = FALSE
  /\ threads = 1
  /\ flags = {}
  /\ kernel_spec = "none"
  /\ input = "none" /\ output = "none"
  /\ target = Empty
  /\ pc = "options"

Reading(words) == pc = "options" /\ argv # <<>> /\ Head(argv) \in words

(* The words one option takes are read, and it is on to the next.          *)
Took(n) == argv' = SubSeq(argv, n + 1, Len(argv)) /\ UNCHANGED <<names, pc>>

(* A usage message, or just the end.                                       *)
Stop(code) == pc' = code /\ UNCHANGED <<argv, options, names>>

-----------------------------------------------------------------------------
(* Slip: -d after -L is let through. *)
DecompressUnchecked ==
  /\ Reading({"-d"})
  /\ mode_decompress' = TRUE /\ Took(1) /\ UNCHANGED <<threads, flags, kernel_spec>>

(* The options, in the order main compares them.                           *)
OptDecompress ==
  /\ Reading({"-d"})
  /\ IF kernel_spec # "none"
     THEN Stop("1")
     ELSE mode_decompress' = TRUE /\ Took(1) /\ UNCHANGED <<threads, flags, kernel_spec>>

OptFlag ==
  /\ Reading(Flags)
  /\ flags' = flags \union {Head(argv)}
  /\ Took(1)
  /\ UNCHANGED <<mode_decompress, threads, kernel_spec>>

(* Slip: a count is whatever strtol reads. *)
OptThreadsAny ==
  /\ Reading({"-t"})
  /\ IF Len(argv) >= 2 /\ argv[2] \in {"0", "1", "2"}
     THEN /\ threads' = CASE argv[2] = "0" -> 0 [] argv[2] = "1" -> 1 [] argv[2] = "2" -> 2
          /\ Took(2)
          /\ UNCHANGED <<mode_decompress, flags, kernel_spec>>
     ELSE Stop("1")

OptThreads ==
  /\ Reading({"-t"})
  /\ IF Len(argv) >= 2 /\ argv[2] \in DOMAIN Counts
     THEN threads' = Counts[argv[2]] /\ Took(2) /\ UNCHANGED <<mode_decompress, flags, kernel_spec>>
     ELSE Stop("1")

OptLabel ==
  /\ Reading({"-L"})
  /\ IF Len(argv) >= 2 /\ ~mode_decompress /\ argv[2] \in Labels
     THEN kernel_spec' = argv[2] /\ Took(2) /\ UNCHANGED <<mode_decompress, threads, flags>>
     ELSE Stop("1")

OptHelp == Reading({"-h"}) /\ Stop("0")

(* Anything else with a dash; "-" alone is a file.                         *)
OptUnknown ==
  /\ pc = "options" /\ argv # <<>>
  /\ Head(argv) \in Dashed \ (Flags \union {"-d", "-t", "-L", "-h"})
  /\ Stop("1")

Positional ==
  /\ Reading(Arguments \ Dashed)
  /\ CASE input = "none" ->
            /\ input' = Head(argv) /\ argv' = Tail(argv)
            /\ UNCHANGED <<options, output, target, pc>>
       [] input # "none" /\ output = "none" ->
            /\ output' = Head(argv) /\ argv' = Tail(argv)
            /\ UNCHANGED <<options, input, target, pc>>
       [] input # "none" /\ output # "none" -> Stop("1")

-----------------------------------------------------------------------------
(* ".lzo" is stripped only from a longer name, and only in the length of   *)
(* the text: the name must not be nothing but the suffix.                  *)
Strippable(name) == name.lzo > 0 /\ (name.stem \/ name.dec > 0 \/ name.lzo > 1)

(* Slips: the suffix is stripped off anything; compressing keeps it single. *)
DefaultAnyStripped(decompress, name) ==
  CASE ~decompress -> [name EXCEPT !.lzo = @ + 1]
    [] decompress /\ name.lzo > 0 -> [name EXCEPT !.lzo = @ - 1]
    [] decompress /\ name.lzo = 0 -> [name EXCEPT !.dec = @ + 1]

DefaultKeepsSuffix(decompress, name) ==
  CASE ~decompress -> [name EXCEPT !.lzo = 1]
    [] decompress /\ Strippable(name)  -> [name EXCEPT !.lzo = @ - 1]
    [] decompress /\ ~Strippable(name) -> [name EXCEPT !.dec = @ + 1]

(* The name main makes up for the output of a named file.                  *)
DefaultOutput(decompress, name) ==
  CASE ~decompress                     -> [name EXCEPT !.lzo = @ + 1]
    [] decompress /\ Strippable(name)  -> [name EXCEPT !.lzo = @ - 1]
    [] decompress /\ ~Strippable(name) -> [name EXCEPT !.dec = @ + 1]

(* The command line is read.  Without an input that is an error; the output*)
(* is the one given, or stdout for stdin, or made up; a compression without*)
(* a label gets the default one.  A made-up name may not find memory.      *)
NoInput ==
  /\ pc = "options" /\ argv = <<>> /\ input = "none"
  /\ Stop("1")

Dispatch ==
  /\ pc = "options" /\ argv = <<>> /\ input # "none"
  /\ \/ /\ pc' = "run"
        /\ output' = IF output = "none" /\ input = "-" THEN "-" ELSE output
        /\ target' = IF output' # "none" THEN Plain(output')
                     ELSE DefaultOutput(mode_decompress, Plain(input))
        /\ kernel_spec' = IF kernel_spec = "none" /\ ~mode_decompress THEN "1"
                          ELSE kernel_spec
        /\ UNCHANGED <<argv, mode_decompress, threads, flags, input>>
     \/ output = "none" /\ input # "-" /\ Stop("1")

Done == pc # "options" /\ UNCHANGED vars

Next ==
  \/ OptDecompress \/ OptFlag \/ OptThreads \/ OptLabel \/ OptHelp \/ OptUnknown
  \/ Positional \/ NoInput \/ Dispatch \/ Done

Spec == Init /\ [][Next]_vars

-----------------------------------------------------------------------------
(* Main's variables keep their types; no thread count below 1 gets through.*)
TypeOK ==
  /\ argv \in Seq(Arguments)
  /\ mode_decompress \in BOOLEAN
  /\ threads \in 1 .. 2
  /\ flags \subseteq Flags
  /\ kernel_spec \in Labels \union {"none"}
  /\ {input, output} \subseteq (Arguments \ Dashed) \union {"none"}
  /\ target \in [dec : 0 .. 1, stem : BOOLEAN, lzo : 0 .. 2]
  /\ pc \in {"options", "run", "0", "1"}

(* An algorithm label never reaches a decompression, in whatever order the *)
(* two options come.                                                       *)
LabelOnlyCompresses == pc = "run" /\ kernel_spec # "none" => ~mode_decompress

(* A made-up output is never the input itself and never without a name,    *)
(* and decompressing a made-up archive, by default again, names the file   *)
(* that was compressed.                                                    *)
DefaultOutputSane ==
  pc = "run" /\ output = "none" =>
    /\ target \notin {Plain(input), Empty}
    /\ ~mode_decompress /\ Plain(input) # Empty =>
         DefaultOutput(TRUE, target) = Plain(input)

(* A command line of known options and an input and an output that the     *)
(* command line test uses is accepted: "-3 -t 2 fixture compressed" too.   *)
TestInvocationAccepted == input = "none" /\ argv # <<>> /\ Head(argv) = "-3" => pc # "1"
=============================================================================
