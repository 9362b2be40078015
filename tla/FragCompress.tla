---------------------------- MODULE FragCompress ----------------------------
(***************************************************************************)
(* compress_multi and compress_worker of lzo_cpu/lzo_frag.c: the pool of   *)
(* FragPool with the memory of a compression around it.  The caller        *)
(* splits the input into chunks and allocates an output buffer for each    *)
(* before any thread starts; each worker asks for a workspace of its own,  *)
(* or does without; on an error the caller frees every buffer, on success  *)
(* it hands them over.  Every action of the pool appears here with what    *)
(* compress_multi or compress_worker does beside it.                       *)
(*                                                                         *)
(* Here payload[b] is what the compressor answers for block b, and out[b]  *)
(* whether comp_size of chunk b was set by it.                             *)
(***************************************************************************)
EXTENDS FragPool

(* A compressor that answers OK has compressed the whole block.            *)
ASSUME CompressorAssumption == "short" \notin Verdicts

VARIABLES
  cpc,       (* Where the caller is in compress_multi.                     *)
  k,         (* The counter of the loop that allocates.                    *)
  chunks,    (* The chunk array: "none", "live", "freed", "given".         *)
  buf,       (* Each chunk's comp: "null", "fresh", "data", "freed".       *)
  wrkmem,    (* Each worker's thread_wrkmem: "unasked", "heap", "null",    *)
             (* "freed".                                                   *)
  cresult    (* What compress_multi returned, "none" before it did.        *)

memory == <<chunks, buf>>
cvars  == <<vars, cpc, k, memory, wrkmem, cresult>>

CInit ==
  /\ Init
  /\ cpc = "split"
  /\ k = 0
  /\ chunks = "none"
  /\ buf = [b \in Blocks |-> "null"]
  /\ wrkmem = [w \in Workers |-> "unasked"]
  /\ cresult = "none"

(* free_compression_chunks: every buffer, allocated or NULL, and the array.*)
FreeChunks ==
  /\ chunks' = IF chunks = "none" THEN "none" ELSE "freed"
  /\ buf' = [b \in Blocks |-> IF buf[b] = "null" THEN "null" ELSE "freed"]

CReturn(r) ==
  /\ cpc' = "returned"
  /\ cresult' = r

-----------------------------------------------------------------------------
(* The caller: compress_multi.                                             *)

(* The array of chunks, when there is a chunk.                             *)
SplitEmpty ==
  /\ cpc = "split" /\ nblk = 0
  /\ cpc' = "pool"
  /\ UNCHANGED <<vars, k, memory, wrkmem, cresult>>

Split ==
  /\ cpc = "split" /\ nblk > 0
  /\ cpc' = "prealloc"
  /\ chunks' = "live"
  /\ UNCHANGED <<vars, k, buf, wrkmem, cresult>>

SplitNoMemory ==
  /\ cpc = "split" /\ nblk > 0
  /\ CReturn("oom")
  /\ UNCHANGED <<vars, k, memory, wrkmem>>

(* Slips: the loop runs once too often; malloc's result is not looked at.   *)
PreallocPastEnd ==
  /\ cpc = "prealloc"
  /\ buf' = [buf EXCEPT ![k] = "fresh"]
  /\ k' = k + 1
  /\ cpc' = IF k = nblk THEN "pool" ELSE cpc
  /\ UNCHANGED <<vars, chunks, wrkmem, cresult>>

PreallocUnchecked ==
  /\ cpc = "prealloc"
  /\ buf' \in {[buf EXCEPT ![k] = "fresh"], buf}
  /\ k' = k + 1
  /\ cpc' = IF k + 1 = nblk THEN "pool" ELSE cpc
  /\ UNCHANGED <<vars, chunks, wrkmem, cresult>>

(* One output buffer per chunk; if one is refused all are given back.      *)
Prealloc ==
  /\ cpc = "prealloc"
  /\ buf' = [buf EXCEPT ![k] = "fresh"]
  /\ k' = k + 1
  /\ cpc' = IF k + 1 = nblk THEN "pool" ELSE cpc
  /\ UNCHANGED <<vars, chunks, wrkmem, cresult>>

(* Slip: the buffers allocated so far are forgotten. *)
PreallocNoMemoryLeaks ==
  /\ cpc = "prealloc"
  /\ CReturn("oom")
  /\ UNCHANGED <<vars, k, memory, wrkmem>>

PreallocNoMemory ==
  /\ cpc = "prealloc"
  /\ FreeChunks
  /\ CReturn("oom")
  /\ UNCHANGED <<vars, k, wrkmem>>

(* The job, the workers and the joins, as in decompress_multi.             *)
CEnterEmpty ==
  /\ cpc = "pool"
  /\ EnterEmpty
  /\ CReturn("ok")
  /\ UNCHANGED <<k, memory, wrkmem>>

CEnter ==
  /\ cpc = "pool"
  /\ Enter
  /\ UNCHANGED <<cpc, k, memory, wrkmem, cresult>>

CEnterNoMemory ==
  /\ cpc = "pool"
  /\ EnterNoMemory
  /\ FreeChunks
  /\ CReturn("oom")
  /\ UNCHANGED <<k, wrkmem>>

CSpawn ==
  /\ Spawn \/ SpawnFails
  /\ UNCHANGED <<cpc, k, memory, wrkmem, cresult>>

(* A thread has ended once it gave its workspace back.                     *)
CJoin ==
  /\ Join
  /\ wrkmem[i] # "heap"
  /\ UNCHANGED <<cpc, k, memory, wrkmem, cresult>>

CJoinTraps ==
  /\ JoinTraps
  /\ cresult' = "trap"
  /\ UNCHANGED <<cpc, k, memory, wrkmem>>

(* Slip: the status frees the chunks but is not returned. *)
CFinishBlindly ==
  /\ Finish
  /\ CReturn("ok")
  /\ IF status # "ok"
     THEN FreeChunks
     ELSE chunks' = "given" /\ UNCHANGED buf
  /\ UNCHANGED <<k, wrkmem>>

(* An error frees the chunks, success hands them to compress_file.         *)
CFinish ==
  /\ Finish
  /\ CReturn(status)
  /\ IF status # "ok"
     THEN FreeChunks
     ELSE chunks' = "given" /\ UNCHANGED buf
  /\ UNCHANGED <<k, wrkmem>>

CCallerStep ==
  \/ SplitEmpty \/ Split \/ SplitNoMemory
  \/ Prealloc \/ PreallocNoMemory
  \/ CEnterEmpty \/ CEnter \/ CEnterNoMemory
  \/ CSpawn \/ CJoin \/ CJoinTraps \/ CFinish

-----------------------------------------------------------------------------
(* A worker: compress_worker.                                              *)

(* posix_memalign of the workspace; without it the compressor is given an  *)
(* array of compress_block_into's own frame.                               *)
Begin(w) ==
  /\ Running(w, "fetch")
  /\ wrkmem[w] = "unasked"
  /\ wrkmem' \in {[wrkmem EXCEPT ![w] = "heap"], [wrkmem EXCEPT ![w] = "null"]}
  /\ UNCHANGED <<vars, cpc, k, memory, cresult>>

CFetch(w) ==
  /\ wrkmem[w] # "unasked"
  /\ Fetch(w)
  /\ UNCHANGED <<cpc, k, memory, wrkmem, cresult>>

CCheck(w) ==
  /\ Check(w)
  /\ UNCHANGED <<cpc, k, memory, wrkmem, cresult>>

(* compress_block_into, into the chunk's own buffer.                       *)
CWork(w) ==
  /\ Work(w)
  /\ buf' = IF payload[idx[w]] = "good" THEN [buf EXCEPT ![idx[w]] = "data"] ELSE buf
  /\ UNCHANGED <<cpc, k, chunks, wrkmem, cresult>>

(* The end of the thread function.                                         *)
End(w) ==
  /\ Running(w, "done")
  /\ wrkmem[w] = "heap"
  /\ wrkmem' = [wrkmem EXCEPT ![w] = "freed"]
  /\ UNCHANGED <<vars, cpc, k, memory, cresult>>

CWorkerStep(w) == Begin(w) \/ CFetch(w) \/ CCheck(w) \/ CWork(w) \/ End(w)

COver ==
  /\ cresult # "none"
  /\ UNCHANGED cvars

CNext == CCallerStep \/ (\E w \in Workers : CWorkerStep(w)) \/ COver

CFairness ==
  WF_cvars(CCallerStep) /\ \A w \in Workers : WF_cvars(CWorkerStep(w))

CSpec     == CInit /\ [][CNext]_cvars
CFairSpec == CSpec /\ CFairness

-----------------------------------------------------------------------------
(* The variables compress_multi adds keep their types.                     *)
CTypeOK ==
  /\ TypeOK
  /\ cpc \in {"split", "prealloc", "pool", "returned"}
  /\ k \in 0 .. nblk
  /\ chunks \in {"none", "live", "freed", "given"}
  /\ buf \in [Blocks -> {"null", "fresh", "data", "freed"}]
  /\ wrkmem \in [Workers -> {"unasked", "heap", "null", "freed"}]
  /\ cresult \in {"none", "ok", "oom", "trap"} \union Errors

(* A worker compresses into a buffer that is allocated, not yet filled and *)
(* not freed: so the branch of compress_worker that allocates by itself is *)
(* never taken, and the clean-up after an error never pulls a buffer from  *)
(* under a worker that is still compressing.                               *)
WritesLiveBuffer ==
  pc # "trap" =>
    \A w \in Workers : wpc[w] = "work" => chunks = "live" /\ buf[idx[w]] = "fresh"

(* When compress_multi has returned, the caller owns every buffer, all     *)
(* filled by a thread that ran, or nobody owns any; and no workspace of a  *)
(* thread is left behind.                                                  *)
NothingLeaks ==
  /\ cresult = "ok" =>
       /\ chunks \in {"none", "given"}
       /\ \A b \in Blocks : buf[b] = IF Started = {} THEN "fresh" ELSE "data"
  /\ cresult \in {"oom"} \union Errors =>
       /\ chunks \in {"none", "freed"}
       /\ \A b \in Blocks : buf[b] \in {"null", "freed"}
  /\ cresult \notin {"none", "trap"} => \A w \in Workers : wrkmem[w] # "heap"

(* compress_multi answers, whatever fails.                                 *)
CTermination == <>(cresult # "none")

(* compress_multi keeps the promise of a block job, whatever fails on the  *)
(* way: OK means that every chunk holds its compressed data, but for the   *)
(* one case BlockJob names, in which no thread was started.                *)
CompressPromise == INSTANCE BlockJob WITH
  blocks   <- Blocks,
  bad      <- Bad,
  manned   <- Started # {},
  finished <- {b \in Blocks : out[b] = "full"},
  answer   <- AnswerOf(cresult)

CompressKeepsPromise == CompressPromise!Spec
=============================================================================
