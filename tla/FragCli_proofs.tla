--------------------------- MODULE FragCli_proofs ---------------------------
(***************************************************************************)
(* The command line of lzo_cpu/lzo_frag.c, for any number of arguments     *)
(* and any choice of words.  The options are read one by one, so what      *)
(* holds of a command line holds by induction over its words: a label and  *)
(* a decompression exclude each other however they are ordered             *)
(* (LabelKnown), and a made-up name is the one DefaultOutput makes of the  *)
(* input and the mode that were read (TargetKnown).                        *)
(***************************************************************************)
EXTENDS FragCli, SequenceTheorems, TLAPS

(* The label keeps a decompression out, whichever was read first.          *)
LabelKnown == kernel_spec # "none" => ~mode_decompress

(* Where the name of the output comes from.                                *)
TargetKnown ==
  pc = "run" /\ output = "none" => target = DefaultOutput(mode_decompress, Plain(input))

(* The invariant: it is inductive, the properties alone are not.           *)
CliInv == TypeOK /\ LabelKnown /\ TargetKnown

(* The two parts of TypeOK that actions change or leave alone as a whole.  *)
OptionsTyped ==
  /\ mode_decompress \in BOOLEAN /\ threads \in 1 .. 2 /\ flags \subseteq Flags
  /\ kernel_spec \in Labels \union {"none"}

Files == Arguments \ Dashed

NamesTyped ==
  /\ input \in Files \union {"none"} /\ output \in Files \union {"none"}
  /\ target \in [dec : 0 .. 1, stem : BOOLEAN, lzo : 0 .. 2]

PcTyped == pc \in {"options", "run", "0", "1"}

(* TypeOK is these and the words that are left.                            *)
LEMMA TypesApart == TypeOK <=> argv \in Seq(Arguments) /\ OptionsTyped /\ NamesTyped /\ PcTyped
BY DEF TypeOK, OptionsTyped, NamesTyped, PcTyped, Files

(* A name as it stands on a command line, and one that was made up.        *)
GivenNames == [dec : {0}, stem : BOOLEAN, lzo : 0 .. 1]
MadeNames  == [dec : 0 .. 1, stem : BOOLEAN, lzo : 0 .. 2]

-----------------------------------------------------------------------------
(* File names.                                                             *)

(* No word of a command line stands for a name that was made up already.   *)
LEMMA PlainGiven == \A word : Plain(word) \in GivenNames
<1> SUFFICES ASSUME NEW word
             PROVE  Plain(word) \in GivenNames
  OBVIOUS
<1>1. CASE word \in DOMAIN Names
  <2>1. DOMAIN Names = {"x", "x_lzo", "lzo", "empty"}
    BY DEF Names
  <2>2. word = "x" \/ word = "x_lzo" \/ word = "lzo" \/ word = "empty"
    BY <1>1, <2>1
  <2>3. /\ Names["x"] \in GivenNames /\ Names["x_lzo"] \in GivenNames
        /\ Names["lzo"] \in GivenNames /\ Names["empty"] \in GivenNames
    BY DEF Names, GivenNames
  <2>4. QED
    BY <1>1, <2>2, <2>3 DEF Plain
<1>2. CASE word \notin DOMAIN Names
  BY <1>2 DEF Plain, GivenNames
<1>3. QED
  BY <1>1, <1>2

(* A name by its parts.                                                    *)
Name(dec, stem, lzo) == [dec |-> dec, stem |-> stem, lzo |-> lzo]

(* The two sides of DefaultOutput.                                         *)
Compressed(name) == [name EXCEPT !.lzo = @ + 1]
Restored(name)   == IF Strippable(name) THEN [name EXCEPT !.lzo = @ - 1]
                    ELSE [name EXCEPT !.dec = @ + 1]

(* DefaultOutput has no other.                                             *)
LEMMA DefaultSides ==
  ASSUME NEW decompress \in BOOLEAN, NEW name
  PROVE  /\ decompress => DefaultOutput(decompress, name) = Restored(name)
         /\ ~decompress => DefaultOutput(decompress, name) = Compressed(name)
BY DEF DefaultOutput, Restored, Compressed

(* What they make of a name: a suffix more, one less, or the prefix.       *)
LEMMA DefaultParts ==
  ASSUME NEW dec \in Nat, NEW stem \in BOOLEAN, NEW lzo \in Nat
  PROVE  /\ Compressed(Name(dec, stem, lzo)) = Name(dec, stem, lzo + 1)
         /\ Restored(Name(dec, stem, lzo)) =
              IF lzo > 0 /\ (stem \/ dec > 0 \/ lzo > 1) THEN Name(dec, stem, lzo - 1)
              ELSE Name(dec + 1, stem, lzo)
<1>1. PICK name : name = Name(dec, stem, lzo)
  OBVIOUS
<1>2. Strippable(name) <=> lzo > 0 /\ (stem \/ dec > 0 \/ lzo > 1)
  BY <1>1 DEF Strippable, Name
<1>3. /\ [name EXCEPT !.lzo = @ + 1] = Name(dec, stem, lzo + 1)
      /\ [name EXCEPT !.lzo = @ - 1] = Name(dec, stem, lzo - 1)
      /\ [name EXCEPT !.dec = @ + 1] = Name(dec + 1, stem, lzo)
  BY <1>1 DEF Name
<1>4. QED
  BY <1>1, <1>2, <1>3 DEF Compressed, Restored

(* The name made of a given one: it is another one and has a stem, a       *)
(* suffix or a prefix; and what compression made, decompression undoes,    *)
(* unless there was nothing to name.                                       *)
Sane(decompress, name, made) ==
  /\ made \in MadeNames /\ made \notin {name, Empty}
  /\ ~decompress /\ name # Empty => DefaultOutput(TRUE, made) = name

LEMMA DefaultSane ==
  ASSUME NEW decompress \in BOOLEAN, NEW name \in GivenNames
  PROVE  Sane(decompress, name, DefaultOutput(decompress, name))
<1>1. PICK stem \in BOOLEAN, lzo \in 0 .. 1 : name = Name(0, stem, lzo)
  BY DEF GivenNames, Name
<1>2. Empty = Name(0, FALSE, 0)
  BY DEF Empty, Names, Name
<1>3. Compressed(name) = Name(0, stem, lzo + 1)
  BY <1>1, DefaultParts
<1>4. Restored(name) = IF lzo = 1 /\ stem THEN Name(0, stem, lzo - 1) ELSE Name(1, stem, lzo)
  <2>1. Restored(Name(0, stem, lzo)) =
          IF lzo > 0 /\ (stem \/ 0 > 0 \/ lzo > 1) THEN Name(0, stem, lzo - 1)
          ELSE Name(0 + 1, stem, lzo)
    BY DefaultParts
  <2>2. lzo > 0 /\ (stem \/ 0 > 0 \/ lzo > 1) <=> lzo = 1 /\ stem
    OBVIOUS
  <2>3. QED
    BY <1>1, <2>1, <2>2
<1>5. CASE ~decompress
  <2>1. DefaultOutput(decompress, name) = Name(0, stem, lzo + 1)
    BY <1>3, <1>5, DefaultSides
  <2>2. Name(0, stem, lzo + 1) \in MadeNames /\ Name(0, stem, lzo + 1) \notin {name, Empty}
    BY <1>1, <1>2 DEF MadeNames, Name
  <2>3. ASSUME name # Empty
        PROVE  DefaultOutput(TRUE, Name(0, stem, lzo + 1)) = name
    <3>1. lzo = 1 \/ stem
      <4>1. CASE lzo = 0 /\ ~stem
        <5>1. lzo = 0 /\ stem = FALSE
          BY <4>1
        <5>2. name = Empty
          BY <1>1, <1>2, <5>1
        <5>3. QED
          BY <2>3, <5>2
      <4>2. QED
        BY <4>1
    <3>2. PICK k \in Nat : k = lzo + 1 /\ k > 0 /\ k - 1 = lzo /\ (stem \/ k > 1)
      BY <3>1
    <3>3. Restored(Name(0, stem, k)) = Name(0, stem, k - 1)
      BY <3>2, DefaultParts
    <3>4. DefaultOutput(TRUE, Name(0, stem, k)) = Restored(Name(0, stem, k))
      BY DEF DefaultOutput, Restored
    <3>5. QED
      BY <1>1, <3>2, <3>3, <3>4
  <2>4. QED
    BY <2>1, <2>2, <2>3 DEF Sane
<1>6. CASE decompress
  <2>1. PICK made : made = Restored(name)
    OBVIOUS
  <2>2. DefaultOutput(decompress, name) = made
    BY <1>6, <2>1, DefaultSides
  <2>3. made \in MadeNames /\ made \notin {name, Empty}
    <3>1. CASE lzo = 1 /\ stem
      BY <1>1, <1>2, <1>4, <2>1, <3>1 DEF MadeNames, Name
    <3>2. CASE ~(lzo = 1 /\ stem)
      BY <1>1, <1>2, <1>4, <2>1, <3>2 DEF MadeNames, Name
    <3>3. QED
      BY <3>1, <3>2
  <2>4. QED
    BY <1>6, <2>2, <2>3 DEF Sane
<1>7. QED
  BY <1>5, <1>6

-----------------------------------------------------------------------------
(* The options.                                                            *)

(* Nothing is read yet.                                                    *)
LEMMA CliInit == Init => CliInv
<1> SUFFICES ASSUME Init PROVE CliInv
  OBVIOUS
<1>1. argv \in Seq(Arguments)
  <2>1. PICK n \in 0 .. MaxArgs : argv \in [1 .. n -> Arguments]
    BY DEF Init
  <2>2. n \in Nat
    BY ArgumentsAssumption
  <2>3. QED
    BY <2>1, <2>2
<1>2. target \in MadeNames
  BY DEF Init, Empty, Names, MadeNames
<1>3. OptionsTyped
  <2>1. mode_decompress = FALSE /\ threads = 1 /\ flags = {} /\ kernel_spec = "none"
    BY DEF Init
  <2>2. mode_decompress \in BOOLEAN
    BY <2>1, Zenon
  <2>3. threads \in 1 .. 2
    BY <2>1
  <2>4. flags \subseteq Flags /\ kernel_spec \in Labels \union {"none"}
    BY <2>1
  <2>5. QED
    BY <2>2, <2>3, <2>4 DEF OptionsTyped
<1>4. NamesTyped
  BY <1>2 DEF Init, NamesTyped, MadeNames
<1>5. PcTyped /\ TargetKnown
  BY DEF Init, PcTyped, TargetKnown
<1>6. LabelKnown
  BY DEF Init, LabelKnown
<1>7. QED
  BY <1>1, <1>3, <1>4, <1>5, <1>6, TypesApart DEF CliInv

(* What is left when words are taken off is still a command line.          *)
LEMMA StillArguments ==
  ASSUME argv \in Seq(Arguments), argv # <<>>
  PROVE  /\ Head(argv) \in Arguments /\ Tail(argv) \in Seq(Arguments)
         /\ SubSeq(argv, 2, Len(argv)) \in Seq(Arguments)
         /\ Len(argv) >= 2 => SubSeq(argv, 3, Len(argv)) \in Seq(Arguments)
<1>1. Len(argv) \in Nat /\ Len(argv) >= 1 /\ \A k \in 1 .. Len(argv) : argv[k] \in Arguments
  BY EmptySeq, ElementOfSeq
<1>2. Head(argv) \in Arguments /\ Tail(argv) \in Seq(Arguments)
  BY HeadTailProperties
<1>3. SubSeq(argv, 2, Len(argv)) \in Seq(Arguments)
  BY <1>1, SubSeqProperties
<1>4. Len(argv) >= 2 => SubSeq(argv, 3, Len(argv)) \in Seq(Arguments)
  BY <1>1, SubSeqProperties
<1>5. QED
  BY <1>2, <1>3, <1>4

(* An end with a usage message changes nothing but pc.                     *)
LEMMA StopKeeps ==
  ASSUME CliInv, NEW code \in {"0", "1"}, Stop(code)
  PROVE  CliInv'
<1>1. /\ pc' = code /\ argv' = argv
      /\ UNCHANGED <<mode_decompress, threads, flags, kernel_spec>>
      /\ UNCHANGED <<input, output, target>>
  BY DEF Stop, options, names
<1>2. argv \in Seq(Arguments) /\ OptionsTyped /\ NamesTyped /\ LabelKnown
  BY TypesApart DEF CliInv
<1>3. OptionsTyped' /\ LabelKnown'
  BY <1>1, <1>2 DEF OptionsTyped, LabelKnown
<1>4. NamesTyped'
  BY <1>1, <1>2 DEF NamesTyped
<1>5. PcTyped' /\ TargetKnown'
  BY <1>1 DEF PcTyped, TargetKnown
<1>6. TypeOK'
  <2>1. argv' \in Seq(Arguments)
    BY <1>1, <1>2
  <2>2. QED
    BY <1>3, <1>4, <1>5, <2>1 DEF TypeOK, OptionsTyped, NamesTyped, PcTyped, Files
<1>7. QED
  BY <1>3, <1>5, <1>6 DEF CliInv

(* An option that is read changes no name, and takes one or two words.     *)
LEMMA TookKeeps ==
  ASSUME CliInv, pc = "options", argv # <<>>, NEW n \in 1 .. 2, Len(argv) >= n, Took(n),
         OptionsTyped', LabelKnown'
  PROVE  CliInv'
<1>1. argv' = SubSeq(argv, n + 1, Len(argv)) /\ UNCHANGED <<input, output, target, pc>>
  BY DEF Took, names
<1>2. argv \in Seq(Arguments) /\ NamesTyped
  BY TypesApart DEF CliInv
<1>3. argv' \in Seq(Arguments)
  <2>1. CASE n = 1
    BY <1>1, <1>2, <2>1, StillArguments
  <2>2. CASE n = 2
    BY <1>1, <1>2, <2>2, StillArguments
  <2>3. QED
    BY <2>1, <2>2
<1>4. NamesTyped'
  BY <1>1, <1>2 DEF NamesTyped
<1>5. PcTyped' /\ TargetKnown'
  BY <1>1 DEF PcTyped, TargetKnown
<1>6. TypeOK'
  BY <1>3, <1>4, <1>5 DEF TypeOK, OptionsTyped, NamesTyped, PcTyped, Files
<1>7. QED
  BY <1>5, <1>6 DEF CliInv

(* Every option and every file name keeps the invariant.                   *)
LEMMA CliStep == CliInv /\ [Next]_vars => CliInv'
<1> SUFFICES ASSUME CliInv, [Next]_vars PROVE CliInv'
  OBVIOUS
<1>1. argv \in Seq(Arguments) /\ OptionsTyped /\ NamesTyped /\ PcTyped /\ LabelKnown
  BY TypesApart DEF CliInv
<1>2. argv # <<>> => Len(argv) >= 1
  BY <1>1, EmptySeq
<1>3. CASE OptDecompress
  <2>1. pc = "options" /\ argv # <<>>
    BY <1>3 DEF OptDecompress, Reading
  <2>2. CASE kernel_spec # "none"
    BY <1>3, <2>2, StopKeeps DEF OptDecompress
  <2>3. CASE kernel_spec = "none"
    <3>1. mode_decompress' = TRUE /\ Took(1) /\ UNCHANGED <<threads, flags, kernel_spec>>
      BY <1>3, <2>3 DEF OptDecompress
    <3>2. OptionsTyped' /\ LabelKnown'
      BY <1>1, <2>3, <3>1 DEF OptionsTyped, LabelKnown
    <3>3. QED
      BY <1>2, <2>1, <3>1, <3>2, TookKeeps
  <2>4. QED
    BY <2>2, <2>3
<1>4. CASE OptFlag
  <2>1. pc = "options" /\ argv # <<>> /\ Head(argv) \in Flags
    BY <1>4 DEF OptFlag, Reading
  <2>2. /\ flags' = flags \union {Head(argv)} /\ Took(1)
        /\ UNCHANGED <<mode_decompress, threads, kernel_spec>>
    BY <1>4 DEF OptFlag
  <2>3. OptionsTyped' /\ LabelKnown'
    BY <1>1, <2>1, <2>2 DEF OptionsTyped, LabelKnown
  <2>4. QED
    BY <1>2, <2>1, <2>2, <2>3, TookKeeps
<1>5. CASE OptThreads
  <2>1. pc = "options" /\ argv # <<>>
    BY <1>5 DEF OptThreads, Reading
  <2>2. CASE Len(argv) >= 2 /\ argv[2] \in DOMAIN Counts
    <3>1. threads' = Counts[argv[2]] /\ Took(2) /\ UNCHANGED <<mode_decompress, flags, kernel_spec>>
      BY <1>5, <2>2 DEF OptThreads
    <3>2. threads' \in 1 .. 2
      BY <2>2, <3>1 DEF Counts
    <3>3. OptionsTyped' /\ LabelKnown'
      BY <1>1, <3>1, <3>2 DEF OptionsTyped, LabelKnown
    <3>4. QED
      BY <2>1, <2>2, <3>1, <3>3, TookKeeps
  <2>3. CASE ~(Len(argv) >= 2 /\ argv[2] \in DOMAIN Counts)
    BY <1>5, <2>3, StopKeeps DEF OptThreads
  <2>4. QED
    BY <2>2, <2>3
<1>6. CASE OptLabel
  <2>1. pc = "options" /\ argv # <<>>
    BY <1>6 DEF OptLabel, Reading
  <2>2. CASE Len(argv) >= 2 /\ ~mode_decompress /\ argv[2] \in Labels
    <3>1. kernel_spec' = argv[2] /\ Took(2) /\ UNCHANGED <<mode_decompress, threads, flags>>
      BY <1>6, <2>2 DEF OptLabel
    <3>2. OptionsTyped' /\ LabelKnown'
      BY <1>1, <2>2, <3>1 DEF OptionsTyped, LabelKnown
    <3>3. QED
      BY <2>1, <2>2, <3>1, <3>2, TookKeeps
  <2>3. CASE ~(Len(argv) >= 2 /\ ~mode_decompress /\ argv[2] \in Labels)
    BY <1>6, <2>3, StopKeeps DEF OptLabel
  <2>4. QED
    BY <2>2, <2>3
<1>7. CASE OptHelp \/ OptUnknown \/ NoInput
  BY <1>7, StopKeeps DEF OptHelp, OptUnknown, NoInput
<1>8. CASE Positional
  <2>1. pc = "options" /\ argv # <<>> /\ Head(argv) \in Files
    BY <1>8 DEF Positional, Reading, Files
  <2>2. CASE input # "none" /\ output # "none"
    BY <1>8, <2>2, StopKeeps DEF Positional
  <2>3. CASE input = "none" \/ output = "none"
    <3>1. /\ argv' = Tail(argv) /\ UNCHANGED <<options, target, pc>>
          /\ \/ input' = Head(argv) /\ output' = output
             \/ output' = Head(argv) /\ input' = input
      BY <1>8, <2>3 DEF Positional
    <3>2. argv' \in Seq(Arguments)
      BY <1>1, <2>1, <3>1, StillArguments
    <3>3. OptionsTyped' /\ LabelKnown'
      BY <1>1, <3>1 DEF OptionsTyped, LabelKnown, options
    <3>4. NamesTyped'
      BY <1>1, <2>1, <3>1 DEF NamesTyped
    <3>5. PcTyped' /\ TargetKnown'
      BY <2>1, <3>1 DEF PcTyped, TargetKnown
    <3>6. TypeOK'
      BY <3>2, <3>3, <3>4, <3>5 DEF TypeOK, OptionsTyped, NamesTyped, PcTyped, Files
    <3>7. QED
      BY <3>3, <3>5, <3>6 DEF CliInv
  <2>4. QED
    BY <2>2, <2>3
<1>9. CASE Dispatch
  <2>1. CASE Stop("1")
    BY <2>1, StopKeeps
  <2>2. CASE /\ input # "none" /\ pc' = "run"
             /\ output' = IF output = "none" /\ input = "-" THEN "-" ELSE output
             /\ target' = IF output' # "none" THEN Plain(output')
                          ELSE DefaultOutput(mode_decompress, Plain(input))
             /\ kernel_spec' = IF kernel_spec = "none" /\ ~mode_decompress THEN "1"
                               ELSE kernel_spec
             /\ UNCHANGED <<argv, mode_decompress, threads, flags, input>>
    <3>1. OptionsTyped' /\ LabelKnown'
      BY <1>1, <2>2 DEF OptionsTyped, LabelKnown, Labels
    <3>2. output' \in Files \union {"none"}
      BY <1>1, <2>2 DEF NamesTyped
    <3>3. target' \in MadeNames
      <4>1. CASE output' # "none"
        BY <2>2, <4>1, PlainGiven DEF GivenNames, MadeNames
      <4>2. CASE output' = "none"
        <5>1. mode_decompress \in BOOLEAN
          BY <1>1 DEF OptionsTyped
        <5>2. Sane(mode_decompress, Plain(input), DefaultOutput(mode_decompress, Plain(input)))
          BY <5>1, PlainGiven, DefaultSane
        <5>3. target' = DefaultOutput(mode_decompress, Plain(input))
          BY <2>2, <4>2
        <5>4. QED
          BY <5>2, <5>3 DEF Sane
      <4>3. QED
        BY <4>1, <4>2
    <3>4. NamesTyped'
      BY <1>1, <2>2, <3>2, <3>3 DEF NamesTyped, MadeNames
    <3>5. PcTyped' /\ TargetKnown'
      BY <2>2 DEF PcTyped, TargetKnown
    <3>6. argv' \in Seq(Arguments)
      BY <1>1, <2>2
    <3>7. TypeOK'
      BY <3>1, <3>4, <3>5, <3>6 DEF TypeOK, OptionsTyped, NamesTyped, PcTyped, Files
    <3>8. QED
      BY <3>1, <3>5, <3>7 DEF CliInv
  <2>3. QED
    BY <1>9, <2>1, <2>2 DEF Dispatch
<1>10. CASE Done \/ UNCHANGED vars
  <2>1. UNCHANGED <<argv, mode_decompress, threads, flags, kernel_spec, input, output, target, pc>>
    BY <1>10 DEF Done, vars, options, names
  <2>2. QED
    BY <2>1 DEF CliInv, TypeOK, LabelKnown, TargetKnown
<1>11. QED
  BY <1>3, <1>4, <1>5, <1>6, <1>7, <1>8, <1>9, <1>10 DEF Next

(* It holds for every command line.                                        *)
LEMMA CliInvHolds == Spec => []CliInv
<1>1. CliInv /\ [Next]_vars => CliInv'
  BY CliStep
<1>2. QED
  BY CliInit, <1>1, PTL DEF Spec

-----------------------------------------------------------------------------
(* Main's variables keep their types, and no thread count below 1 gets     *)
(* through parse_int.                                                      *)
THEOREM CliTypeCorrect == Spec => []TypeOK
<1>1. CliInv => TypeOK
  BY DEF CliInv
<1>2. QED
  BY CliInvHolds, <1>1, PTL

(* An algorithm label never reaches decompress_file: -L after -d and -d    *)
(* after -L are both refused.                                              *)
THEOREM CliLabelOnlyCompresses == Spec => []LabelOnlyCompresses
<1>1. CliInv => LabelOnlyCompresses
  BY DEF CliInv, LabelKnown, LabelOnlyCompresses
<1>2. QED
  BY CliInvHolds, <1>1, PTL

(* The name main makes up is never the input's and never empty, and        *)
(* restores the name that was compressed.                                  *)
THEOREM CliDefaultOutputSane == Spec => []DefaultOutputSane
<1>1. CliInv => DefaultOutputSane
  <2> SUFFICES ASSUME CliInv, pc = "run", output = "none"
               PROVE  /\ target \notin {Plain(input), Empty}
                      /\ ~mode_decompress /\ Plain(input) # Empty =>
                           DefaultOutput(TRUE, target) = Plain(input)
    BY DEF DefaultOutputSane
  <2>1. mode_decompress \in BOOLEAN /\ target = DefaultOutput(mode_decompress, Plain(input))
    BY DEF CliInv, TypeOK, TargetKnown
  <2>2. Plain(input) \in GivenNames
    BY PlainGiven
  <2>3. QED
    BY <2>1, <2>2, DefaultSane DEF Sane
<1>2. QED
  BY CliInvHolds, <1>1, PTL
=============================================================================
