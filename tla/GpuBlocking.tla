----------------------------- MODULE GpuBlocking -----------------------------
(***************************************************************************)
(* How the GPU programs choose the block size: choose_blocking of the      *)
(* daemon (lzo_gpu/daemon_compress.c) and of the host tool                 *)
(* (lzo_gpu/lzo_host.c).  Both aim at a number of work items for the       *)
(* compute units of the device, round up and keep to limits; they differ   *)
(* in the order of these steps.  MinBlock and MaxBlock of FragLayout stand *)
(* for MIN_BLOCK_SIZE and MAX_BLOCK_SIZE.                                  *)
(***************************************************************************)
EXTENDS FragLayout

CONSTANTS
  AlignBytes,   (* ALIGN_BYTES: 64 KiB in the daemon, 16 KiB in the host.  *)
  OccFactor     (* OCC_FACTOR: work items per compute unit.                *)

ASSUME BlockingAssumption == AlignBytes \in Nat \ {0} /\ OccFactor \in Nat \ {0}

(* "(x + (ALIGN_BYTES - 1)) & ~(ALIGN_BYTES - 1)"                          *)
AlignUp(x) == CeilDiv(x, AlignBytes) * AlignBytes

Clamp(x) == AtMost(AtLeast(x, MinBlock), MaxBlock)

(* The blocks wanted, never more than bytes.                               *)
Target(size, wanted) == AtMost(wanted, size)

(* The number of blocks both answer for the size they settled on.          *)
BlockCount(size, blk) == CeilDiv(size, blk)

(* Slip: no upper limit. *)
DaemonUnlimited(size, units) ==
  AtLeast(AlignUp(CeilDiv(size, Target(size, units * OccFactor))), MinBlock)

(* The daemon: round up, keep to the limits, and round a single block up   *)
(* once more.  An empty input has no answer: the target is then 0, and the *)
(* division traps.                                                         *)
DaemonBlockSize(size, units) ==
  LET first  == AlignUp(CeilDiv(size, Target(size, units * OccFactor)))
      raised == IF BlockCount(size, first) > 1 THEN AtLeast(first, MinBlock)
                ELSE first
      second == AtMost(raised, MaxBlock)
  IN IF BlockCount(size, second) = 1 THEN Clamp(AlignUp(second)) ELSE second

(* The host: an equal share is rounded up and clamped; again with one      *)
(* block per unit when there are fewer blocks than units; and again when   *)
(* the last block would be small.  LZO_FORCE_NBLK may set the target.  The *)
(* last block's size is computed on unsigned numbers: when the blocks      *)
(* before it already cover the input it is huge, not small.                *)
HostBlockSize(size, units, forced) ==
  LET Share(n) == Clamp(AlignUp(CeilDiv(size, n)))
      first    == Share(Target(size, IF forced > 0 THEN forced
                                     ELSE units * OccFactor))
      few      == BlockCount(size, first) < units
      nblk     == IF few THEN units ELSE BlockCount(size, first)
      second   == IF few THEN Share(units) ELSE first
      tail     == size - second * (nblk - 1)
  IN IF nblk > 1 /\ tail >= 0 /\ tail < second \div 4 THEN Share(nblk)
     ELSE second

(* The room a compressed block may need: lzo_worst.                        *)
Worst(blk) == blk + blk \div 16 + 64 + 3
=============================================================================
