------------------------------ MODULE BlockJob ------------------------------
(***************************************************************************)
(* What a block job promises its caller, whatever runs it: compress_multi  *)
(* and decompress_multi of lzo_cpu/lzo_frag.c split a buffer into blocks,  *)
(* process each block independently and answer once.                       *)
(*                                                                         *)
(*   - a block's result is complete only if the codec accepts the block,   *)
(*     and no result changes once the caller is answered;                  *)
(*   - the answer is "ok" only when every block is finished, with the one  *)
(*     exception the code leaves open: nobody looks whether pthread_create *)
(*     succeeded, so a job for which no worker could be started may answer *)
(*     "ok" with nothing done;                                             *)
(*   - an answer other than "ok" has a cause: a block that the codec       *)
(*     rejected, or resources (memory, threads) that were refused.         *)
(*                                                                         *)
(* This module models no code of its own: FragPool and FragCompress are    *)
(* checked to implement it.                                                *)
(***************************************************************************)

VARIABLES
  blocks,     (* The blocks of the job: given, never changed.              *)
  bad,        (* Those that the codec rejects: given, never changed.       *)
  manned,     (* Whether a worker was ever started.                        *)
  finished,   (* The blocks whose result is complete.                      *)
  answer      (* "none" until the caller is answered.                      *)

vars == <<blocks, bad, manned, finished, answer>>

Init ==
  /\ bad \subseteq blocks
  /\ manned = FALSE
  /\ finished = {}
  /\ answer = "none"

(* The job has its first worker. *)
Man ==
  /\ answer = "none"
  /\ manned' = TRUE
  /\ UNCHANGED <<blocks, bad, finished, answer>>

(* One block's result becomes complete: a worker did it. *)
Finish(b) ==
  /\ answer = "none"
  /\ manned
  /\ b \notin finished \union bad
  /\ finished' = finished \union {b}
  /\ UNCHANGED <<blocks, bad, manned, answer>>

(* The caller is answered, and may be told "ok" only if it is so, or if    *)
(* nobody was there to do it.                                              *)
Answer(a) ==
  /\ answer = "none"
  /\ a = "ok" => finished = blocks \/ ~manned
  /\ a = "rejected" => bad # {}
  /\ answer' = a
  /\ UNCHANGED <<blocks, bad, manned, finished>>

Next ==
  \/ Man
  \/ \E b \in blocks : Finish(b)
  \/ \E a \in {"ok", "rejected", "refused"} : Answer(a)

Spec == Init /\ [][Next]_vars
=============================================================================
