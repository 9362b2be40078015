----------------------------- MODULE FragLayout -----------------------------
(***************************************************************************)
(* The arithmetic of the CPU driver's container (lzo_cpu/lzo_frag.c): how  *)
(* compress_file chooses a block size, how compress_multi cuts the input   *)
(* into chunks, and how decompress_file, which knows only the header, cuts *)
(* the output again.                                                       *)
(***************************************************************************)
EXTENDS Integers

CONSTANTS
  MinBlock,   (* MIN_BLOCK_SIZE, 64 KiB in the code.                       *)
  MaxBlock    (* MAX_BLOCK_SIZE, 1 MiB in the code.                        *)

ASSUME LayoutAssumption ==
  /\ MinBlock \in Nat \ {0}
  /\ MaxBlock \in Nat
  /\ MinBlock <= MaxBlock

AtLeast(x, low) == IF x < low THEN low ELSE x
AtMost(x, high) == IF x > high THEN high ELSE x

(* a / b rounded up: "(a + b - 1u) / b".                                   *)
CeilDiv(a, b) == (a + b - 1) \div b

(* Slip: an empty input gets no block size. *)
ChooseZeroBlock(total, threads) ==
  AtMost(AtMost(AtLeast(CeilDiv(total, AtLeast(threads, 1)), MinBlock), MaxBlock), total)

(* choose_block_size: an equal share per thread, within the two limits and *)
(* the input; an empty input gets a block size all the same.               *)
ChooseBlockSize(total, threads) ==
  LET share == CeilDiv(total, AtLeast(threads, 1))
      blk   == AtMost(AtMost(AtLeast(share, MinBlock), MaxBlock), total)
  IN IF blk = 0 /\ total = 0 THEN MinBlock ELSE blk

(* compress_multi's chunk_count.                                           *)
ChunkCount(total, blk) ==
  IF total = 0 THEN 0
  ELSE IF blk = 0 THEN 1 ELSE CeilDiv(total, blk)

(* Offset and length of chunk c, as compress_multi cuts the input.         *)
SplitOffset(blk, c) == c * blk

SplitLength(total, blk, c) ==
  LET left == total - SplitOffset(blk, c)
  IN IF left < blk \/ blk = 0 THEN left ELSE blk

(* Slip: the last block is taken to be whole. *)
RebuildWholeBlock(orig, blk, nblk, c) == blk

(* Offset and length of block c, as decompress_file finds them from the    *)
(* header: its running offset grows by blk_sz for every block but the      *)
(* last, which gets what is left.                                          *)
RebuildOffset(blk, c) == c * blk

RebuildLength(orig, blk, nblk, c) ==
  IF c = nblk - 1 THEN orig - RebuildOffset(blk, c) ELSE blk
=============================================================================
