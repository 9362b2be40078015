------------------------------ MODULE LzParse ------------------------------
(***************************************************************************)
(* What an LZO1X compressor has to do, however it finds its matches: cut   *)
(* the text into literal runs and matches, each match a true repetition of *)
(* earlier bytes, of the dictionary or the text, and each of a form that   *)
(* the format can say (Codable of Lzo1xFormat, with the same limits).      *)
(* With Lzo1xCodec, which gives back any such script, that makes the       *)
(* round trip of the compressor.                                           *)
(*                                                                         *)
(* This module models no code of its own: Lzo1xFast and Lzo1x999 are       *)
(* checked to implement it.                                                *)
(***************************************************************************)
EXTENDS Integers, Sequences

CONSTANTS
  MinFirst,                (* Literals before the first match, at least.   *)
  M1Max, MXMax, M4Max      (* Limits of distances, as in config1x.h.       *)

VARIABLES
  dict,     (* The bytes the decoder is given as well: never changed.      *)
  text,     (* The bytes to compress: never changed.                       *)
  coded,    (* How many of them are coded.                                 *)
  piece,    (* The last run and match coded.                               *)
  ended

vars == <<dict, text, coded, piece, ended>>

Init == coded = 0 /\ piece = [lit |-> 0, len |-> 0, off |-> 0] /\ ended = FALSE

(* The len bytes after lit literals are those off bytes before.            *)
Repeats(lit, len, off) ==
  LET all  == dict \o text
      from == Len(dict) + coded + lit
  IN /\ off \in 1 .. from
     /\ from + len <= Len(all)
     /\ \A i \in from + 1 .. from + len : all[i] = all[i - off]

Allowed(lit, len, off) ==
  /\ len >= 2 /\ off <= M4Max
  /\ coded = 0 => lit >= MinFirst
  /\ len = 2 => coded > 0 /\ lit \in 1 .. 3 /\ off <= M1Max
  /\ len = 3 /\ off > MXMax => lit < 4

(* Any run and match that may be coded here.                               *)
Pair(p) ==
  /\ ~ended
  /\ Allowed(p.lit, p.len, p.off) /\ Repeats(p.lit, p.len, p.off)
  /\ coded' = coded + p.lit + p.len
  /\ UNCHANGED <<dict, text, ended>>

(* What is left becomes the last run.                                      *)
End ==
  /\ ~ended /\ ended' = TRUE
  /\ coded' = Len(text)
  /\ UNCHANGED <<dict, text, piece>>

Next == Pair(piece') \/ End

Spec == Init /\ [][Next]_vars
=============================================================================
