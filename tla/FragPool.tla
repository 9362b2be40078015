------------------------------ MODULE FragPool ------------------------------
(***************************************************************************)
(* The worker pool of the CPU driver, as decompress_multi and              *)
(* decompress_worker of lzo_cpu/lzo_frag.c run it.  The caller puts a job  *)
(* record on its stack, starts the worker threads, joins them and returns  *)
(* the status they left.  The workers share two atomics of the record: the *)
(* cursor next_index, from which each claims a block with a fetch-and-add, *)
(* and status, which the first failures overwrite and every worker reads   *)
(* after a claim.  compress_multi runs the same pool (module FragCompress).*)
(*                                                                         *)
(* One action is one access to shared memory or one call of the pthread or *)
(* allocation library: between two of them every thread may run.           *)
(***************************************************************************)
EXTENDS Naturals, FiniteSets

CONSTANTS
  MaxBlocks,      (* Bounds the number of blocks of a job.                 *)
  MaxThreads,     (* Bounds the number of worker threads asked for.        *)
  Errors,         (* The codec's error codes (LZO_E_...).                  *)
  Verdicts,       (* What lzo1x_decompress may make of a block.            *)
  CreateMayFail,  (* Whether pthread_create may fail.                      *)
  StrayJoin       (* What pthread_join does to a thread never created: it  *)
                  (* is undefined, "return" and "trap" are what builds do. *)

ASSUME BoundsAssumption == MaxBlocks \in Nat /\ MaxThreads \in Nat \ {0}

ASSUME ErrorsAssumption ==
  Errors \intersect {"none", "ok", "oom", "trap", "good", "short"} = {}

ASSUME EnvironmentAssumption ==
  /\ Verdicts \subseteq {"good", "short"} \union Errors
  /\ CreateMayFail \in BOOLEAN
  /\ StrayJoin \subseteq {"return", "trap"}

VARIABLES
  nblk,        (* chunk_count                                              *)
  threads,     (* The number of workers asked for.                         *)
  payload,     (* For each block, what the codec will make of it.          *)
  out,         (* For each block, the state of its part of the output.     *)
  next_index,  (* job.next_index                                           *)
  status,      (* job.status                                               *)
  pc,          (* Where the caller is in decompress_multi.                 *)
  i,           (* The caller's loop counter.                               *)
  handle,      (* workers[], as pthread_create left it.                    *)
  wpc,         (* Where each worker is in its loop.                        *)
  idx,         (* The index each worker claimed last.                      *)
  result       (* What decompress_multi returned, "none" before it did.    *)

input   == <<nblk, threads, payload>>
caller  == <<pc, i, handle, result>>
vars    == <<input, out, next_index, status, caller, wpc, idx>>

Workers == 0 .. MaxThreads - 1
Blocks  == 0 .. nblk - 1

(* The workers the caller did start, and those that hold a claim on a      *)
(* block of the job.                                                       *)
Started  == {w \in Workers : handle[w] = "thread"}
Claiming == {w \in Workers : wpc[w] \in {"check", "work"}}

-----------------------------------------------------------------------------
(* lzo1x_decompress answers OK for a block that decodes, to whatever       *)
(* length; decompress_block compares the length, but its conditional       *)
(* yields the codec's own code on both branches.                           *)
CodecReturns(verdict) == IF verdict \in Errors THEN verdict ELSE "ok"

DecompressBlock(verdict) ==
  IF verdict = "good" THEN "ok" ELSE CodecReturns(verdict)

Init ==
  /\ nblk \in 0 .. MaxBlocks
  /\ threads \in 1 .. MaxThreads
  /\ payload \in [Blocks -> Verdicts]
  /\ out = [b \in Blocks |-> "unset"]
  /\ next_index = 0
  /\ status = "ok"
  /\ pc = "call"
  /\ i = 0
  /\ handle = [w \in Workers |-> "zero"]
  /\ wpc = [w \in Workers |-> "none"]
  /\ idx = [w \in Workers |-> 0]
  /\ result = "none"

Return(r) ==
  /\ pc' = "returned"
  /\ result' = r

-----------------------------------------------------------------------------
(* The caller: decompress_multi.                                           *)

(* No block, nothing to do; otherwise workers[] is allocated, or not.      *)
EnterEmpty ==
  /\ pc = "call" /\ nblk = 0
  /\ Return("ok")
  /\ UNCHANGED <<input, out, next_index, status, i, handle, wpc, idx>>

EnterNoMemory ==
  /\ pc = "call" /\ nblk > 0
  /\ Return("oom")
  /\ UNCHANGED <<input, out, next_index, status, i, handle, wpc, idx>>

Enter ==
  /\ pc = "call" /\ nblk > 0
  /\ pc' = "spawn"
  /\ UNCHANGED <<input, out, next_index, status, i, handle, wpc, idx, result>>

(* The caller's for loop over the workers, left for `after`.               *)
Advance(after) ==
  IF i + 1 < threads
  THEN i' = i + 1 /\ UNCHANGED pc
  ELSE i' = 0 /\ pc' = after

(* pthread_create: its result is not looked at, so a failure is an         *)
(* iteration like any other that leaves no thread behind.                  *)
Spawn ==
  /\ pc = "spawn"
  /\ handle' = [handle EXCEPT ![i] = "thread"]
  /\ wpc' = [wpc EXCEPT ![i] = "fetch"]
  /\ Advance("join")
  /\ UNCHANGED <<input, out, next_index, status, idx, result>>

SpawnFails ==
  /\ pc = "spawn" /\ CreateMayFail
  /\ handle' = [handle EXCEPT ![i] = "stray"]
  /\ Advance("join")
  /\ UNCHANGED <<input, out, next_index, status, wpc, idx, result>>

(* Slip: the caller goes on without waiting for the thread it joins. *)
JoinWithoutWaiting ==
  /\ pc = "join"
  /\ Advance("finish")
  /\ UNCHANGED <<input, out, next_index, status, handle, wpc, idx, result>>

(* pthread_join waits for the thread; joining a handle that never became a *)
(* thread is undefined.                                                    *)
Join ==
  /\ pc = "join"
  /\ \/ handle[i] = "thread" /\ wpc[i] = "done"
     \/ handle[i] = "stray" /\ "return" \in StrayJoin
  /\ Advance("finish")
  /\ UNCHANGED <<input, out, next_index, status, handle, wpc, idx, result>>

JoinTraps ==
  /\ pc = "join"
  /\ handle[i] = "stray" /\ "trap" \in StrayJoin
  /\ pc' = "trap"
  /\ result' = "trap"
  /\ UNCHANGED <<input, out, next_index, status, i, handle, wpc, idx>>

(* Slip: the caller does not look at the status. *)
FinishBlindly ==
  /\ pc = "finish"
  /\ Return("ok")
  /\ UNCHANGED <<input, out, next_index, status, i, handle, wpc, idx>>

(* The status the workers left is what the caller answers.                 *)
Finish ==
  /\ pc = "finish"
  /\ Return(status)
  /\ UNCHANGED <<input, out, next_index, status, i, handle, wpc, idx>>

CallerStep ==
  \/ EnterEmpty \/ EnterNoMemory \/ Enter
  \/ Spawn \/ SpawnFails
  \/ Join \/ JoinTraps
  \/ Finish

-----------------------------------------------------------------------------
(* A worker: decompress_worker.                                            *)

Running(w, at) == wpc[w] = at /\ pc # "trap"

(* Slips: the bound is one too far; next_index++ on a plain integer, whose  *)
(* store may be lost; continue in the place of break.                      *)
FetchPastEnd(w) ==
  /\ Running(w, "fetch")
  /\ next_index' = next_index + 1
  /\ idx' = [idx EXCEPT ![w] = next_index]
  /\ wpc' = [wpc EXCEPT ![w] = IF next_index > nblk THEN "done" ELSE "check"]
  /\ UNCHANGED <<input, out, status, caller>>

FetchNotAtomic(w) ==
  /\ Running(w, "fetch")
  /\ next_index' \in {next_index, next_index + 1}
  /\ idx' = [idx EXCEPT ![w] = next_index]
  /\ wpc' = [wpc EXCEPT ![w] = IF next_index >= nblk THEN "done" ELSE "check"]
  /\ UNCHANGED <<input, out, status, caller>>

FetchAgain(w) ==
  /\ Running(w, "fetch")
  /\ next_index' = next_index + 1
  /\ idx' = [idx EXCEPT ![w] = next_index]
  /\ wpc' = [wpc EXCEPT ![w] = IF next_index >= nblk THEN "fetch" ELSE "check"]
  /\ UNCHANGED <<input, out, status, caller>>

(* atomic_fetch_add of next_index, and the bound check of what it got.     *)
Fetch(w) ==
  /\ Running(w, "fetch")
  /\ next_index' = next_index + 1
  /\ idx' = [idx EXCEPT ![w] = next_index]
  /\ wpc' = [wpc EXCEPT ![w] = IF next_index >= nblk THEN "done" ELSE "check"]
  /\ UNCHANGED <<input, out, status, caller>>

(* Slip: after a failure a worker waits for the status to clear. *)
CheckSpins(w) ==
  /\ Running(w, "check")
  /\ wpc' = [wpc EXCEPT ![w] = IF status = "ok" THEN "work" ELSE "check"]
  /\ UNCHANGED <<input, out, next_index, status, caller, idx>>

(* atomic_load of status: after a failure the claim is dropped.            *)
Check(w) ==
  /\ Running(w, "check")
  /\ wpc' = [wpc EXCEPT ![w] = IF status = "ok" THEN "work" ELSE "done"]
  /\ UNCHANGED <<input, out, next_index, status, caller, idx>>

(* Slips: the error is not stored; the code is stored whatever it is. *)
WorkForgets(w) ==
  LET rc == DecompressBlock(payload[idx[w]])
  IN /\ Running(w, "work")
     /\ out' = [out EXCEPT ![idx[w]] =
                  IF payload[idx[w]] = "good" THEN "full" ELSE "partial"]
     /\ wpc' = [wpc EXCEPT ![w] = IF rc = "ok" THEN "fetch" ELSE "done"]
     /\ UNCHANGED <<input, next_index, status, caller, idx>>

WorkOverwrites(w) ==
  LET rc == DecompressBlock(payload[idx[w]])
  IN /\ Running(w, "work")
     /\ out' = [out EXCEPT ![idx[w]] =
                  IF payload[idx[w]] = "good" THEN "full" ELSE "partial"]
     /\ status' = rc
     /\ wpc' = [wpc EXCEPT ![w] = IF rc = "ok" THEN "fetch" ELSE "done"]
     /\ UNCHANGED <<input, next_index, caller, idx>>

(* decompress_block returns: the block's output is written, all of it when *)
(* the block is good, and an error is stored for everybody to see.         *)
Work(w) ==
  LET rc == DecompressBlock(payload[idx[w]])
  IN /\ Running(w, "work")
     /\ out' = [out EXCEPT ![idx[w]] =
                  IF payload[idx[w]] = "good" THEN "full" ELSE "partial"]
     /\ status' = IF rc = "ok" THEN status ELSE rc
     /\ wpc' = [wpc EXCEPT ![w] = IF rc = "ok" THEN "fetch" ELSE "done"]
     /\ UNCHANGED <<input, next_index, caller, idx>>

WorkerStep(w) == Fetch(w) \/ Check(w) \/ Work(w)

(* The job is over; the program goes on, or is dead.                       *)
Over ==
  /\ pc \in {"returned", "trap"}
  /\ UNCHANGED vars

Next == CallerStep \/ (\E w \in Workers : WorkerStep(w)) \/ Over

(* Every started thread is scheduled again and again, and so is the        *)
(* caller: they are plain pthreads of one process.                         *)
Fairness == WF_vars(CallerStep) /\ \A w \in Workers : WF_vars(WorkerStep(w))

Spec     == Init /\ [][Next]_vars
FairSpec == Spec /\ Fairness

-----------------------------------------------------------------------------
(* Each variable keeps to the values the C types and the control flow of   *)
(* decompress_multi and decompress_worker allow it.                        *)
TypeOK ==
  /\ nblk \in 0 .. MaxBlocks
  /\ threads \in 1 .. MaxThreads
  /\ payload \in [Blocks -> Verdicts]
  /\ out \in [Blocks -> {"unset", "partial", "full"}]
  /\ next_index \in Nat
  /\ status \in {"ok"} \union Errors
  /\ pc \in {"call", "spawn", "join", "finish", "returned", "trap"}
  /\ i \in 0 .. threads - 1
  /\ handle \in [Workers -> {"zero", "thread", "stray"}]
  /\ wpc \in [Workers -> {"none", "fetch", "check", "work", "done"}]
  /\ idx \in [Workers -> Nat]
  /\ \A w \in Claiming : idx[w] \in Blocks
  /\ result \in {"none", "ok", "oom", "trap"} \union Errors

(* No two workers ever hold the same block: the only thing that keeps      *)
(* their unlocked writes to chunks[idx] apart is the fetch-and-add.        *)
OneOwner == \A v, w \in Claiming : idx[v] = idx[w] => v = w

(* No worker is alive once decompress_multi is past its joins: the job     *)
(* record is in its stack frame, and the caller frees the buffers next.    *)
NoWorkerOutlivesJob ==
  pc \in {"finish", "returned"} => \A w \in Workers : wpc[w] \in {"none", "done"}

(* What the codec leaves behind when it accepts a block: all of its        *)
(* output, or less when the block decodes short, which decompress_block    *)
(* does not take for an error.                                             *)
Settled(b) == out[b] = IF payload[b] = "short" THEN "partial" ELSE "full"
Finished   == {b \in Blocks : Settled(b)}
Bad        == {b \in Blocks : payload[b] \in Errors}

(* LZO_E_OK means that the codec accepted every block and left its output, *)
(* provided that at least one thread could be created: a claim dropped     *)
(* after a failure, or a worker that left early, never hides behind an OK. *)
OkMeansComplete == result = "ok" /\ Started # {} => Finished = Blocks

(* LZO_E_OK means that every block was decompressed to its full length,    *)
(* whatever became of the threads.                                         *)
OkMeansDone == result = "ok" => \A b \in Blocks : out[b] = "full"

(* The cursor passes the end at most once per worker, so the fetch-and-add *)
(* cannot run away or wrap, whatever the interleaving.                     *)
CursorBounded == next_index <= nblk + threads

(* A failure is never forgotten, and a block's output is written once: no  *)
(* worker clears status, and no worker works on a block again.             *)
FailureSticksWorkIsOnce ==
  [][/\ status # "ok" => status' # "ok"
     /\ \A b \in Blocks : out[b] # "unset" => out'[b] = out[b]]_vars

(* decompress_multi answers, whatever fails and however the threads are    *)
(* scheduled: no join waits for ever.                                      *)
Termination == <>(result # "none")

(* What a result says in the terms of BlockJob.                            *)
AnswerOf(r) ==
  CASE r \in {"none", "ok"} -> r
    [] r \in Errors -> "rejected"
    [] r \in {"oom", "trap"} -> "refused"

(* The pool keeps the promise of a block job. *)
Promise == INSTANCE BlockJob WITH
  blocks <- Blocks, bad <- Bad, manned <- Started # {}, finished <- Finished,
  answer <- AnswerOf(result)

(* Each step of the pool is a step of BlockJob or changes nothing it sees. *)
KeepsPromise == Promise!Spec
=============================================================================
