-------------------------- MODULE FragLayout_proofs --------------------------
(***************************************************************************)
(* The container arithmetic is right for every input size, block size and  *)
(* thread count: the chunks tile the input, and the decompressor, from the *)
(* header alone, cuts the output where the compressor cut the input.       *)
(***************************************************************************)
EXTENDS FragLayout, TLAPS

(* Rounding up: the quotient covers a, and one less would not.             *)
LEMMA CeilDivBounds ==
  ASSUME NEW a \in Nat, NEW b \in Nat \ {0}, a > 0
  PROVE  /\ CeilDiv(a, b) \in Nat \ {0}
         /\ CeilDiv(a, b) * b >= a
         /\ (CeilDiv(a, b) - 1) * b < a
<1> DEFINE x == a + b - 1
           q == x \div b
<1>1. x \in Nat /\ x >= b
  OBVIOUS
<1>2. q \in Int /\ q * b <= x /\ x < (q + 1) * b
  BY <1>1
<1>3. q > 0
  BY <1>1, <1>2
<1>4. QED
  BY <1>2, <1>3 DEF CeilDiv

(* The block size compress_file writes in the header: never zero, never    *)
(* above the limit, never above the input, and below the lower limit only  *)
(* when the whole input is.                                                *)
THEOREM BlockSizeInRange ==
  ASSUME NEW total \in Nat, NEW threads \in Int
  PROVE  LET blk == ChooseBlockSize(total, threads)
         IN /\ blk \in 1 .. MaxBlock
            /\ total > 0 => blk <= total
            /\ blk < MinBlock => blk = total
<1> DEFINE share == CeilDiv(total, AtLeast(threads, 1))
<1>1. AtLeast(threads, 1) \in Nat \ {0}
  BY DEF AtLeast
<1>2. CASE total = 0
  <2>1. share \in Int
    BY <1>1 DEF CeilDiv
  <2>2. QED
    BY <2>1, <1>2, LayoutAssumption DEF ChooseBlockSize, AtLeast, AtMost
<1>3. CASE total > 0
  <2>1. share \in Nat \ {0}
    BY <1>1, <1>3, CeilDivBounds
  <2>2. QED
    BY <2>1, <1>3, LayoutAssumption DEF ChooseBlockSize, AtLeast, AtMost
<1>4. QED
  BY <1>2, <1>3

(* compress_multi cuts the input into chunks that tile it: none is empty   *)
(* or longer than the block size, each begins where the one before ends,   *)
(* the first at 0, and the last ends with the input.                       *)
THEOREM ChunksTile ==
  ASSUME NEW total \in Nat, NEW blk \in Nat \ {0},
         NEW c \in 0 .. ChunkCount(total, blk) - 1
  PROVE  LET end == SplitOffset(blk, c) + SplitLength(total, blk, c)
         IN /\ SplitLength(total, blk, c) \in 1 .. blk
            /\ SplitOffset(blk, 0) = 0
            /\ c + 1 < ChunkCount(total, blk) => end = SplitOffset(blk, c + 1)
            /\ c + 1 = ChunkCount(total, blk) => end = total
<1> DEFINE n == CeilDiv(total, blk)
<1>1. total > 0 /\ ChunkCount(total, blk) = n
  BY DEF ChunkCount
<1>2. n \in Nat \ {0} /\ n * blk >= total /\ (n - 1) * blk < total
  BY <1>1, CeilDivBounds
<1> HIDE DEF n
<1>3. c \in Nat /\ c <= n - 1
  BY <1>1, <1>2
<1>4. c * blk \in Nat /\ (c + 1) * blk = c * blk + blk
  BY <1>3
<1>5. CASE c = n - 1
  <2>1. total - c * blk <= blk
    BY <1>2, <1>4, <1>5
  <2>2. total - c * blk > 0
    BY <1>2, <1>5
  <2>3. SplitLength(total, blk, c) = total - c * blk
    BY <2>1, <1>4 DEF SplitLength, SplitOffset
  <2>4. QED
    BY <2>1, <2>2, <2>3, <1>1, <1>2, <1>3, <1>4, <1>5 DEF SplitOffset
<1>6. CASE c < n - 1
  <2>1. (c + 1) * blk <= (n - 1) * blk
    BY <1>2, <1>3, <1>6
  <2>2. total - c * blk > blk
    BY <2>1, <1>2, <1>4
  <2>3. SplitLength(total, blk, c) = blk
    BY <2>2, <1>4 DEF SplitLength, SplitOffset
  <2>4. QED
    BY <2>3, <1>1, <1>2, <1>3, <1>4, <1>6 DEF SplitOffset
<1>7. QED
  BY <1>2, <1>3, <1>5, <1>6

(* decompress_file, which knows the input's length, the block size and the *)
(* number of blocks from the header and has no lengths of the chunks, puts *)
(* every block where compress_multi took it from, at the same length.      *)
THEOREM RebuildMatchesSplit ==
  ASSUME NEW total \in Nat, NEW blk \in Nat \ {0},
         NEW c \in 0 .. ChunkCount(total, blk) - 1
  PROVE  /\ RebuildOffset(blk, c) = SplitOffset(blk, c)
         /\ RebuildLength(total, blk, ChunkCount(total, blk), c)
              = SplitLength(total, blk, c)
<1> DEFINE n == ChunkCount(total, blk)
           end == SplitOffset(blk, c) + SplitLength(total, blk, c)
<1>1. n \in Nat \ {0}
  BY CeilDivBounds DEF ChunkCount
<1>2. SplitLength(total, blk, c) \in 1 .. blk /\ SplitOffset(blk, c) \in Nat
  BY ChunksTile, <1>1 DEF SplitOffset
<1>3. /\ c + 1 < n => end = SplitOffset(blk, c + 1)
      /\ c + 1 = n => end = total
  BY ChunksTile
<1>4. CASE c = n - 1
  BY <1>1, <1>2, <1>3, <1>4 DEF RebuildLength, RebuildOffset, SplitOffset
<1>5. CASE c # n - 1
  <2>1. c + 1 < n
    BY <1>1, <1>5
  <2>2. SplitOffset(blk, c + 1) = SplitOffset(blk, c) + blk
    BY <1>1 DEF SplitOffset
  <2>3. QED
    BY <2>1, <2>2, <1>2, <1>3, <1>5 DEF RebuildLength, RebuildOffset, SplitOffset
<1>6. QED
  BY <1>4, <1>5
=============================================================================
