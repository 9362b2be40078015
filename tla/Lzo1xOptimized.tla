-------------------------- MODULE Lzo1xOptimized ---------------------------
(***************************************************************************)
(* What a block decodes to, read independently of the optimizer, and that  *)
(* it still does after every rewriting of Lzo1xOptimize.                   *)
(***************************************************************************)
EXTENDS Lzo1xOptimize

(* What c decodes to, from place p on, after text.                         *)
RECURSIVE Decoded(_, _, _, _)
Decoded(c, p, before, text) ==
  IF before = "loop" /\ c[p] < 16
  THEN LET r == RunAt(c, p)
       IN Decoded(c, p + r.h + r.len, "run", text \o Literals(c, p + r.h, r.len))
  ELSE LET m == MatchAt(c, p, before)
           q == p + m.h
           n == c[q - 2] % 4
       IN IF m.off = 0 THEN text
          ELSE Decoded(c, q + n, IF n = 0 THEN "loop" ELSE "short",
                       text \o Copied(text, m) \o Literals(c, q, n))

Text(c) ==
  LET n == c[1] - 17
  IN IF n <= 0 THEN Decoded(c, 1, "loop", <<>>)
     ELSE Decoded(c, 2 + n, IF n < 4 THEN "short" ELSE "run", Literals(c, 2, n))

-----------------------------------------------------------------------------
(* Whatever was rewritten so far, the block still decodes to the same      *)
(* text, also if the optimizer stopped there, and what the optimizer       *)
(* itself decodes is that text, to the end of the block.                   *)
KeepsText ==
  /\ Text(code) = Text(block)
  /\ IsPrefix(out, Text(block))
  /\ at = "done" => out = Text(block) /\ ip = Len(code)
=============================================================================
