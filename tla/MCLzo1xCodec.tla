---------------------------- MODULE MCLzo1xCodec ----------------------------
(* LZO1X blocks that are decoded, or optimized.                            *)
EXTENDS Lzo1xBlocks

VARIABLE program

allVars == <<vars, program, block, bytes, label, read, text, litp, joins>>

P(lits, lens, offs) == [lit : lits, len : lens, off : offs]

(* To decode: up to three matches, one of every form, then one of those    *)
(* with lengths and distances at the borders of every form, then a near    *)
(* one.                                                                    *)
Border ==
  UNION { P({0, 1, 3, 4}, {2, 3, 8, 9}, {1, 1024, 1025, 2048, 2049, 3072, 3073}),
          P({0, 3}, {3, 33, 34, 289}, {16384, 16385, 32767, 32768, 49151}),
          P({2, 5}, {9, 10, 264, 265, 288}, {2049, 16385, 32768}),
          P({18, 19, 238, 239, 273, 274}, {3}, {2048, 2049, 3073}) }

MCMenu ==
  << { [lit |-> 1, len |-> 3, off |-> 2048], [lit |-> 4, len |-> 3, off |-> 3072],
       [lit |-> 3, len |-> 3, off |-> 3073],
       [lit |-> 238, len |-> 289, off |-> 1], [lit |-> 274, len |-> 10, off |-> 49151] },
     Border,
     P({3}, {2}, {1024}) >>

MCTails == {0, 2, 19}

MCDamages == [cut : {0, 1, 3, 5}, short : {0}] \union [cut : {0}, short : {1, 3}]

(* To optimize: three matches between runs that can and cannot be joined,  *)
(* after a run that is short, or long enough for the distance of an M3.    *)
NearMenu ==
  UNION { P({1}, {2}, {1, 2, 3}), P({3}, {2}, {2}), P({2}, {3}, {1}),
          P({4}, {3}, {1, 2, 3}), P({12, 13}, {3}, {2}),
          P({0}, {10}, {3}), P({4}, {4}, {2}) }

FarMenu == UNION { P({0, 1, 2, 3}, {3}, {2049}), P({1}, {2}, {1}), P({0, 4}, {3}, {2}) }

Coded(done, p) == StoreRun(done, p.lit, TRUE) \o MatchCode(p.lit, p.len, p.off)

Block(lit0, off0, pairs, n) ==
  LET first == [lit |-> lit0, len |-> 4, off |-> off0]
      c     == StoreRun(FoldLeft(Coded, <<>>, <<first>> \o pairs), n, TRUE) \o EndOfStream
  IN [k \in 1 .. Len(c) |-> IF c[k] = Lit THEN 255 + k ELSE c[k]]

MCBlocks ==
  {Block(4, 3, pairs, n) : pairs \in [1 .. 3 -> NearMenu], n \in {0, 4}}
  \union {Block(3, 1, pairs, n) : pairs \in [1 .. 2 -> NearMenu], n \in {1, 12}}
  \union {Block(2060, 3, pairs, n) : pairs \in [1 .. 3 -> FarMenu], n \in {0, 4}}

Optimized == INSTANCE Lzo1xOptimized WITH
  code <- bytes, at <- label, ip <- read, out <- text, lit <- joins

RECURSIVE PlacesFrom(_, _, _)
PlacesFrom(b, p, before) ==
  LET r == Opt!RunAt(b, p)
      m == Opt!MatchAt(b, p, before)
      n == b[p + m.h - 2] % 4
  IN {<<p, before>>} \union
     IF before = "loop" /\ b[p] < 16 THEN PlacesFrom(b, p + r.h + r.len, "run")
     ELSE IF m.off = 0 THEN {}
     ELSE PlacesFrom(b, p + m.h + n, IF n = 0 THEN "loop" ELSE "short")

Places(b) ==
  LET n == b[1] - 17
  IN IF n <= 0 THEN PlacesFrom(b, 1, "loop")
     ELSE PlacesFrom(b, 2 + n, IF n < 4 THEN "short" ELSE "run")

(* What the codec makes are blocks as the optimizer expects them.          *)
ASSUME BlocksAreWellFormed == \A b \in Blocks : Opt!WellFormed(b, Places(b))

IdleOptimizer ==
  /\ block = <<>> /\ bytes = <<>> /\ label = "idle" /\ read = 0 /\ text = <<>>
  /\ litp = 0 /\ joins = 0

MCInit ==
  \/ program = "codec" /\ Init /\ IdleOptimizer
  \/ program = "optimizer" /\ Init /\ Opt!Init

MCNext ==
  /\ UNCHANGED program
  /\ \/ program = "codec" /\ Next /\ UNCHANGED <<block, bytes, label, read, text, litp, joins>>
     \/ program = "optimizer" /\ Opt!Next /\ UNCHANGED vars

MCSpec == MCInit /\ [][MCNext]_allVars

(* The optimizer never changes what a block decodes to, whatever it joins  *)
(* and wherever it stops (lzo1x_oo.ch).                                    *)
KeepsText == program = "optimizer" => Optimized!KeepsText
=============================================================================
