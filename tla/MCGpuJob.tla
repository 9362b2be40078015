----------------------------- MODULE MCGpuJob -----------------------------
(* Jobs of the GPU programs, or the work items of one that goes well.      *)
EXTENDS GpuJob, GpuKernels

VARIABLE program

(* Jobs: limits of 4 and 8 bytes, aligned to 2, for inputs of none, one    *)
(* and many blocks on small and large devices.                             *)
SomeSizes == {0, 1, 5, 9, 13, 40}
SomeUnits == {1, 2, 4}

(* Work items: one block or several, the last of them whole, short or a    *)
(* single byte; with a word of 256 the last shape does not fit.            *)
SomeShapes == { [size |-> n, blk |-> 4] : n \in {1, 4, 9, 11, 17} }

IdleJob     == Init /\ job = [does |-> "daemon_compress", options |-> {}]
IdleKernels == KInit /\ tools = [writer |-> "gpu", reader |-> "gpu"] /\ shape.size = 1

MCInit ==
  \/ program = "jobs" /\ Init /\ IdleKernels
  \/ program = "kernels" /\ KInit /\ IdleJob

MCNext ==
  /\ UNCHANGED program
  /\ \/ program = "jobs" /\ Next /\ UNCHANGED kvars
     \/ program = "kernels" /\ KNext /\ UNCHANGED vars

MCSpec == MCInit /\ [][MCNext]_<<vars, kvars, program>>
=============================================================================
