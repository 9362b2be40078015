---------------------------- MODULE Lzo1xBlocks ----------------------------
(***************************************************************************)
(* What is done with blocks: the codec makes one and reads it back, and    *)
(* the optimizer rewrites one.  The two never run at the same time; each   *)
(* has variables of its own.                                               *)
(***************************************************************************)
EXTENDS Lzo1xCodec

CONSTANT Blocks           (* The blocks to optimize.                       *)

VARIABLES
  block, bytes,           (* The block as it was and as it is.             *)
  label, read, text,      (* at, ip and out of the optimizer.              *)
  litp, joins             (* What Lzo1xOptimize calls lit.                 *)

Opt == INSTANCE Lzo1xOptimize WITH
  code <- bytes, at <- label, ip <- read, out <- text, lit <- joins

(* The place and the length the optimizer remembers are those of the run   *)
(* before it: the assertions of lzo1x_oo.ch.                               *)
RunRemembered == Opt!RunRemembered
=============================================================================
