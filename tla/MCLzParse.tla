----------------------------- MODULE MCLzParse -----------------------------
(* The two compressors, one or the other, on small texts, with small       *)
(* windows and limits in the order of the real ones.                       *)
EXTENDS Lzo1xFast, SequencesExt

CONSTANTS   (* Of Lzo1x999, whose M4Max is N.                              *)
  N, F, M3Max, M2MaxLen, M3MaxLen, M4MaxLen, Head3, Keys, Levels, Inputs

VARIABLES compressor, preset, level, s, slowAt, lit, mLen, mOff, ahead, maxAhead, slowPiece

slowVars == <<preset, level, s, slowAt, lit, mLen, mOff, ahead, maxAhead, slowPiece>>

Word == {<<0, 1, 2, 0, 1>>, <<1, 1, 1>>, <<0, 0, 1, 2, 2, 1>>, <<2, 0, 0, 1, 2>>, <<0>>}
Words(n) == {FlattenSeq(w) : w \in [1 .. n -> Word]}
Binary == {w \o <<1, 1, 0, 0, 1, 1, 0, 0>> : w \in [1 .. 8 -> {0, 1}]}
Short == UNION {[1 .. n -> {0, 1}] : n \in 0 .. 4}
MCTexts == Words(5) \union Binary \union Short

MCHead3 == [a, b, c \in Bytes |-> (a + 2 * b + c) % 3]
MCDIndex == [q \in [0 .. 3 -> Bytes] |-> (q[0] + q[1] + 2 * q[2] + q[3]) % 3]

(* No dictionary, one, and one that is longer than the window.             *)
MCInputs ==
  [dict : {<<>>}, text : MCTexts]
  \union [dict : {<<0, 1, 2, 0, 1>>, <<1, 1, 1, 2, 0, 0, 1, 0, 1, 2, 2, 1, 0, 0, 1, 1>>},
          text : Words(3) \union Short]

(* A row for each kind of row of compress_level's table, its lengths in    *)
(* the order of the real ones below F: levels 1 to 3, 4, 5 and 6, 7, 8, 9  *)
(* (1 to 3, and 5 and 6, differ in the length of the chain only).          *)
Row(lazy, good, max, chain, best) ==
  [lazy |-> lazy, good |-> good, max |-> max, chain |-> chain, best |-> best]
MCLevels ==
  { Row(0, 0, 0, 1, FALSE), Row(1, 3, 3, 2, FALSE), Row(1, 3, 5, 4, FALSE),
    Row(2, 3, 5, 6, FALSE), Row(2, 5, 6, 8, TRUE), Row(2, 6, 6, 13, TRUE) }

Slow == INSTANCE Lzo1x999 WITH dict <- preset, at <- slowAt, piece <- slowPiece

(* The small window and hash are in the proportion of the real ones.       *)
ASSUME SlowLimits == Slow!Limits

(* HEAD3 of lzo_swd.ch mixes the bytes by shifts and exclusive or,         *)
(* multiplies by 40799 and keeps bits 5 to 18.  If only the third bytes    *)
(* differ, the mixtures differ by d, and the products by more than the     *)
(* lost bits can hide: what Lzo1x999 asks of Head3.                        *)
ASSUME ThirdByteTold == \A d \in 1 .. 255 : (d * 40799) % 2 ^ 19 \in 32 .. 2 ^ 19 - 32

NoPiece == [lit |-> 0, len |-> 0, off |-> 0]

IdleFast ==
  /\ at = "driver" /\ in = 0 /\ ip = 0 /\ ii = 0 /\ ti = 0
  /\ dict = [k \in Slots |-> 0] /\ piece = NoPiece
IdleSlow ==
  /\ preset = <<>> /\ level = "none" /\ s = "none" /\ slowAt = "none"
  /\ lit = 0 /\ mLen = 0 /\ mOff = 0 /\ ahead = 0 /\ maxAhead = 0 /\ slowPiece = NoPiece

MCInit ==
  \/ compressor = "1" /\ Init /\ IdleSlow
  \/ compressor = "999" /\ Slow!Init /\ IdleFast

MCNext ==
  /\ UNCHANGED compressor
  /\ \/ compressor = "1" /\ Next /\ UNCHANGED slowVars
     \/ compressor = "999" /\ Slow!Next /\ UNCHANGED <<at, in, ip, ii, ti, dict, piece>>

MCSpec == MCInit /\ [][MCNext]_<<compressor, vars, slowVars>>

SlowParse == INSTANCE LzParse WITH
  dict <- preset, coded <- IF compressor = "999" THEN Slow!Coded ELSE 0,
  ended <- slowAt = "done", piece <- slowPiece,
  MinFirst <- 1, MXMax <- M1Max + M2Max, M4Max <- N

(* As lzo1x_1_compress does, lzo1x_999_compress cuts any text into what    *)
(* the format can say, with every kind of level and any dictionary: however*)
(* the ring has wrapped and whatever has left the lists, what a search     *)
(* brings up is a true repetition, within the window, and what the lazy    *)
(* choice makes of it can be coded (lzo_swd.ch, lzo1x_9x.c; the assertions *)
(* of assert_match).                                                       *)
SlowParses == SlowParse!Spec
=============================================================================
