--------------------------- MODULE FragPool_proofs ---------------------------
(***************************************************************************)
(* The safety of the worker pool of lzo_cpu/lzo_frag.c, for any number of  *)
(* blocks and threads: the pool itself (FragPool), then the memory that    *)
(* compress_multi keeps around it (FragCompress).                          *)
(*                                                                         *)
(* The invariant IInv of the pool relates the cursor next_index, the       *)
(* claims of the workers and the blocks already written: while status is   *)
(* OK, every index below the cursor is a block that is finished or one     *)
(* that a worker holds.  compress_multi only ever takes steps of the pool  *)
(* (CompressIsPool), so what is proved of the pool holds of it; CInv adds  *)
(* which buffers exist in each phase, and that a buffer holds data exactly *)
(* when its chunk was compressed.                                          *)
(***************************************************************************)
EXTENDS FragCompress, FiniteSetTheorems, TLAPS

(* A worker's program counter and its handle agree. *)
ThreadsAgree ==
  \A w \in Workers : wpc[w] # "none" <=> handle[w] = "thread"

(* Where the caller is in its two loops. *)
CallerKnows ==
  /\ pc = "call" => \A w \in Workers : handle[w] = "zero"
  /\ pc = "spawn" => \A w \in Workers : w >= i => handle[w] = "zero"
  /\ \A w \in Workers : w >= threads => handle[w] = "zero"
  /\ pc = "join" => \A w \in Workers : w < i => wpc[w] \in {"none", "done"}
  /\ pc \in {"finish", "returned"} =>
       \A w \in Workers : wpc[w] \in {"none", "done"}

(* What the caller answered. *)
ResultKnown ==
  /\ result = "none" <=> pc \in {"call", "spawn", "join", "finish"}
  /\ result = "trap" <=> pc = "trap"
  /\ result = "ok" => nblk = 0 \/ status = "ok"

(* A claim is below the cursor, on a block nobody wrote yet, and nobody    *)
(* writes above the cursor.                                                *)
ClaimsFresh ==
  /\ \A w \in Claiming : idx[w] < next_index /\ out[idx[w]] = "unset"
  /\ \A b \in Blocks : out[b] # "unset" => b < next_index

(* Below the cursor every block is settled or held, unless a failure was   *)
(* recorded; and a worker is done only because the blocks are exhausted.   *)
NothingLost ==
  status = "ok" =>
    /\ \A b \in Blocks : b < next_index =>
         Settled(b) \/ \E w \in Claiming : idx[w] = b
    /\ \A w \in Workers : wpc[w] = "done" => next_index >= nblk

(* The workers that overshot the end are done. *)
Done == {w \in Workers : wpc[w] = "done"}
Overshoot == next_index <= nblk + Cardinality(Done)

IInv == /\ TypeOK /\ ThreadsAgree /\ CallerKnows /\ ResultKnown
        /\ OneOwner /\ ClaimsFresh

-----------------------------------------------------------------------------
(* TypeOK is inductive by itself: the claim of a worker is a block because *)
(* the bound is checked on the very value the fetch-and-add returned.      *)
LEMMA TypeStep == TypeOK /\ [Next]_vars => TypeOK'
<1> SUFFICES ASSUME TypeOK, [Next]_vars
             PROVE  TypeOK'
  OBVIOUS
<1> USE BoundsAssumption, EnvironmentAssumption
    DEF TypeOK, Blocks, Workers, Claiming, input, caller
<1>1. ASSUME EnterEmpty \/ EnterNoMemory \/ Enter
      PROVE  TypeOK'
  BY <1>1 DEF EnterEmpty, EnterNoMemory, Enter, Return
<1>2. ASSUME Spawn
      PROVE  TypeOK'
  <2>1. i \in Workers
    OBVIOUS
  <2>2. i' \in 0 .. threads - 1 /\ pc' \in {"spawn", "join"}
    BY <1>2 DEF Spawn, Advance
  <2>3. QED
    BY <1>2, <2>1, <2>2 DEF Spawn
<1>3. ASSUME SpawnFails
      PROVE  TypeOK'
  <2>1. i' \in 0 .. threads - 1 /\ pc' \in {"spawn", "join"}
    BY <1>3 DEF SpawnFails, Advance
  <2>2. QED
    BY <1>3, <2>1 DEF SpawnFails
<1>4. ASSUME Join
      PROVE  TypeOK'
  <2>1. i' \in 0 .. threads - 1 /\ pc' \in {"join", "finish"}
    BY <1>4 DEF Join, Advance
  <2>2. QED
    BY <1>4, <2>1 DEF Join
<1>5. ASSUME JoinTraps \/ Finish
      PROVE  TypeOK'
  BY <1>5 DEF JoinTraps, Finish, Return
<1>6. ASSUME NEW w \in Workers, Fetch(w)
      PROVE  TypeOK'
  BY <1>6 DEF Fetch, Running
<1>7. ASSUME NEW w \in Workers, Check(w)
      PROVE  TypeOK'
  BY <1>7 DEF Check, Running
<1>8. ASSUME NEW w \in Workers, Work(w)
      PROVE  TypeOK'
  <2>1. DecompressBlock(payload[idx[w]]) \in {"ok"} \union Errors
    BY <1>8 DEF DecompressBlock, CodecReturns
  <2>2. status' \in {"ok"} \union Errors
    BY <1>8, <2>1 DEF Work
  <2>3. out' \in [Blocks -> {"unset", "partial", "full"}]
    BY <1>8 DEF Work
  <2>4. wpc' \in [Workers -> {"none", "fetch", "check", "work", "done"}]
    BY <1>8 DEF Work
  <2>5. \A v \in Workers : wpc'[v] \in {"check", "work"} => wpc[v] = wpc'[v]
    BY <1>8 DEF Work
  <2>6. QED
    BY <1>8, <2>2, <2>3, <2>4, <2>5 DEF Work
<1>9. CASE UNCHANGED vars
  BY <1>9 DEF vars
<1>10. QED
  BY <1>1, <1>2, <1>3, <1>4, <1>5, <1>6, <1>7, <1>8, <1>9
  DEF Next, CallerStep, WorkerStep, Over

(* The rest of the invariant is preserved together with TypeOK.  A step of *)
(* the caller moves no cursor, no claim and no output; a step of a worker  *)
(* leaves the caller where it is.                                          *)
LEMMA InvStep == IInv /\ [Next]_vars => IInv'
<1> SUFFICES ASSUME IInv, [Next]_vars
             PROVE  IInv'
  OBVIOUS
<1>0. TypeOK'
  BY TypeStep DEF IInv
<1> USE <1>0, BoundsAssumption
    DEF IInv, ThreadsAgree, CallerKnows, ResultKnown, OneOwner, ClaimsFresh,
        Workers, Claiming, input, caller
<1>1. ASSUME EnterEmpty \/ EnterNoMemory \/ Enter
      PROVE  IInv'
  <2>1. /\ pc = "call" /\ UNCHANGED <<input, out, next_index, status, i, handle, wpc, idx>>
        /\ \/ pc' = "returned" /\ result' = "ok" /\ nblk = 0
           \/ pc' = "returned" /\ result' = "oom"
           \/ pc' = "spawn" /\ result' = result
    BY <1>1 DEF EnterEmpty, EnterNoMemory, Enter, Return
  <2>2. \A w \in Workers : handle[w] = "zero" /\ wpc[w] = "none"
    BY <2>1 DEF TypeOK
  <2>3. ThreadsAgree' /\ CallerKnows'
    BY <2>1, <2>2
  <2>4. ResultKnown'
    BY <2>1
  <2>5. OneOwner' /\ ClaimsFresh'
    BY <2>1 DEF Blocks
  <2>6. QED
    BY <2>3, <2>4, <2>5
<1>2. ASSUME Spawn
      PROVE  IInv'
  <2>1. i \in Workers /\ handle[i] = "zero" /\ wpc[i] = "none"
    BY <1>2 DEF Spawn, TypeOK
  <2>2. \/ i' = i + 1 /\ pc' = "spawn"
        \/ i' = 0 /\ pc' = "join" /\ i + 1 = threads
    BY <1>2 DEF Spawn, Advance, TypeOK
  <2>3. \A w \in Workers : /\ handle'[w] = IF w = i THEN "thread" ELSE handle[w]
                           /\ wpc'[w] = IF w = i THEN "fetch" ELSE wpc[w]
    BY <1>2 DEF Spawn, TypeOK
  <2>4. Claiming' = Claiming /\ Blocks' = Blocks
    BY <2>1, <2>3, <1>2 DEF Spawn, Blocks
  <2>5. ThreadsAgree' /\ CallerKnows' /\ ResultKnown'
    BY <1>2, <2>1, <2>2, <2>3 DEF Spawn, TypeOK
  <2>6. OneOwner' /\ ClaimsFresh'
    BY <1>2, <2>4 DEF Spawn
  <2>7. QED
    BY <2>5, <2>6
<1>3. ASSUME SpawnFails
      PROVE  IInv'
  <2>1. i \in Workers /\ handle[i] = "zero"
    BY <1>3 DEF SpawnFails, TypeOK
  <2>2. \/ i' = i + 1 /\ pc' = "spawn"
        \/ i' = 0 /\ pc' = "join" /\ i + 1 = threads
    BY <1>3 DEF SpawnFails, Advance, TypeOK
  <2>3. \A w \in Workers : handle'[w] = IF w = i THEN "stray" ELSE handle[w]
    BY <1>3 DEF SpawnFails, TypeOK
  <2>4. ThreadsAgree' /\ CallerKnows' /\ ResultKnown'
    BY <1>3, <2>1, <2>2, <2>3 DEF SpawnFails, TypeOK
  <2>5. OneOwner' /\ ClaimsFresh'
    BY <1>3 DEF SpawnFails, Blocks
  <2>6. QED
    BY <2>4, <2>5
<1>4. ASSUME Join
      PROVE  IInv'
  <2>1. i \in Workers /\ wpc[i] \in {"none", "done"}
    BY <1>4 DEF Join, TypeOK
  <2>2. \/ i' = i + 1 /\ pc' = "join"
        \/ i' = 0 /\ pc' = "finish" /\ i + 1 = threads
    BY <1>4 DEF Join, Advance, TypeOK
  <2>3. \A w \in Workers : w < i + 1 => wpc[w] \in {"none", "done"}
    BY <1>4, <2>1 DEF Join, TypeOK
  <2>4. \A w \in Workers : w >= threads => wpc[w] = "none"
    BY DEF TypeOK
  <2>5. CallerKnows'
    BY <1>4, <2>2, <2>3, <2>4 DEF Join, TypeOK
  <2>6. ThreadsAgree' /\ ResultKnown' /\ OneOwner' /\ ClaimsFresh'
    BY <1>4, <2>2 DEF Join, Blocks
  <2>7. QED
    BY <2>5, <2>6
<1>5. ASSUME JoinTraps \/ Finish
      PROVE  IInv'
  <2>1. UNCHANGED <<input, out, next_index, status, i, handle, wpc, idx>>
    BY <1>5 DEF JoinTraps, Finish
  <2>2. OneOwner' /\ ClaimsFresh' /\ ThreadsAgree' /\ CallerKnows'
    BY <1>5, <2>1 DEF JoinTraps, Finish, Return, Blocks
  <2>3. ResultKnown'
    BY <1>5, <2>1, ErrorsAssumption DEF JoinTraps, Finish, Return, TypeOK
  <2>4. QED
    BY <2>2, <2>3
<1>6. ASSUME NEW w \in Workers, Fetch(w)
      PROVE  IInv'
  <2>1. \A v \in Workers :
          /\ idx'[v] = IF v = w THEN next_index ELSE idx[v]
          /\ wpc'[v] = IF v = w THEN IF next_index >= nblk THEN "done" ELSE "check"
                                ELSE wpc[v]
    BY <1>6 DEF Fetch, TypeOK
  <2>2. ThreadsAgree' /\ CallerKnows' /\ ResultKnown'
    BY <1>6, <2>1 DEF Fetch, Running, TypeOK
  <2>3. OneOwner'
    BY <1>6, <2>1 DEF Fetch, Running, TypeOK, Blocks
  <2>4. \A b \in Blocks : out[b] # "unset" => b < next_index
    OBVIOUS
  <2>5. ClaimsFresh'
    <3>1. ASSUME NEW v \in Claiming'
          PROVE  idx'[v] < next_index' /\ out'[idx'[v]] = "unset"
      <4>1. CASE v = w
        <5>1. idx'[v] = next_index /\ next_index \in Blocks
          BY <4>1, <2>1, <3>1 DEF TypeOK, Blocks
        <5>2. out[next_index] = "unset"
          BY <5>1, <2>4 DEF TypeOK, Blocks
        <5>3. QED
          BY <1>6, <5>1, <5>2 DEF Fetch, TypeOK
      <4>2. CASE v # w
        BY <1>6, <4>2, <2>1, <3>1 DEF Fetch, TypeOK, Blocks
      <4>3. QED
        BY <4>1, <4>2
    <3>2. \A b \in Blocks' : out'[b] # "unset" => b < next_index'
      BY <1>6, <2>4 DEF Fetch, TypeOK, Blocks
    <3>3. QED
      BY <3>1, <3>2
  <2>6. QED
    BY <2>2, <2>3, <2>5
<1>7. ASSUME NEW w \in Workers, Check(w)
      PROVE  IInv'
  <2>1. \A v \in Workers :
          wpc'[v] = IF v = w THEN IF status = "ok" THEN "work" ELSE "done" ELSE wpc[v]
    BY <1>7 DEF Check, TypeOK
  <2>2. Claiming' \subseteq Claiming
    BY <1>7, <2>1 DEF Check, Running
  <2>3. ThreadsAgree' /\ CallerKnows' /\ ResultKnown'
    BY <1>7, <2>1 DEF Check, Running
  <2>4. OneOwner' /\ ClaimsFresh'
    BY <1>7, <2>2 DEF Check, Blocks
  <2>5. QED
    BY <2>3, <2>4
<1>8. ASSUME NEW w \in Workers, Work(w)
      PROVE  IInv'
  <2>1. w \in Claiming /\ idx[w] \in Blocks /\ idx[w] < next_index
    BY <1>8 DEF Work, Running, TypeOK
  <2>2. \A v \in Workers :
          wpc'[v] = IF v = w
                    THEN IF DecompressBlock(payload[idx[w]]) = "ok" THEN "fetch" ELSE "done"
                    ELSE wpc[v]
    BY <1>8 DEF Work, TypeOK
  <2>3. Claiming' = Claiming \ {w}
    BY <2>2
  <2>4. \A b \in Blocks : b # idx[w] => out'[b] = out[b]
    BY <1>8, <2>1 DEF Work, TypeOK
  <2>5. ThreadsAgree' /\ CallerKnows'
    BY <1>8, <2>2 DEF Work, Running
  <2>6. pc \in {"call", "spawn", "join"}
    BY <1>8, <2>1 DEF Work, Running, TypeOK
  <2>7. ResultKnown'
    BY <1>8, <2>6 DEF Work
  <2>8. OneOwner'
    BY <1>8, <2>3 DEF Work
  <2>9. ClaimsFresh'
    <3>1. \A v \in Claiming : idx[v] \in Blocks /\ (v # w => idx[v] # idx[w])
      BY <2>1 DEF TypeOK
    <3>2. \A v \in Claiming' : idx[v] \in Blocks /\ idx[v] # idx[w]
      BY <2>3, <3>1
    <3>3. \A v \in Claiming' : idx'[v] < next_index' /\ out'[idx'[v]] = "unset"
      BY <1>8, <2>3, <2>4, <3>2 DEF Work
    <3>4. \A b \in Blocks' : out'[b] # "unset" => b < next_index'
      BY <1>8, <2>1, <2>4 DEF Work, Blocks
    <3>5. QED
      BY <3>3, <3>4
  <2>10. QED
    BY <2>5, <2>7, <2>8, <2>9
<1>9. CASE UNCHANGED vars
  BY <1>9 DEF vars, Blocks
<1>10. QED
  BY <1>1, <1>2, <1>3, <1>4, <1>5, <1>6, <1>7, <1>8, <1>9
  DEF Next, CallerStep, WorkerStep, Over

(* The invariant holds when decompress_multi is called.                    *)
LEMMA InitInv == Init => IInv
<1> USE BoundsAssumption DEF Init, Workers, Blocks, Claiming
<1>1. Init => TypeOK
  BY DEF TypeOK
<1>2. Init => ThreadsAgree /\ CallerKnows /\ ResultKnown /\ OneOwner /\ ClaimsFresh
  BY DEF ThreadsAgree, CallerKnows, ResultKnown, OneOwner, ClaimsFresh
<1>3. QED
  BY <1>1, <1>2 DEF IInv

(* The invariant holds in every state of the pool.                         *)
LEMMA InvHolds == Spec => []IInv
BY InitInv, InvStep, PTL DEF Spec

(* Every variable of the pool keeps its type. *)
THEOREM PoolTypeCorrect == Spec => []TypeOK
<1>1. IInv => TypeOK
  BY DEF IInv
<1>2. QED
  BY <1>1, InvHolds, PTL

(* Two workers never write the same block: the fetch-and-add is all the    *)
(* mutual exclusion that compress_worker and decompress_worker need.       *)
THEOREM PoolOneOwner == Spec => []OneOwner
<1>1. IInv => OneOwner
  BY DEF IInv
<1>2. QED
  BY <1>1, InvHolds, PTL

(* When decompress_multi leaves its joins no worker is alive, even when    *)
(* some threads were never created: its stack frame and the caller's       *)
(* buffers may go.                                                         *)
THEOREM PoolNoWorkerOutlivesJob == Spec => []NoWorkerOutlivesJob
<1>1. IInv => NoWorkerOutlivesJob
  BY DEF IInv, CallerKnows, NoWorkerOutlivesJob
<1>2. QED
  BY <1>1, InvHolds, PTL

-----------------------------------------------------------------------------
(* A claim is given up only for a result or after a failure. *)
LEMMA NothingLostStep == IInv /\ NothingLost /\ [Next]_vars => NothingLost'
<1> SUFFICES ASSUME IInv, NothingLost, [Next]_vars, status' = "ok"
             PROVE  /\ \A b \in Blocks' : b < next_index' =>
                         Settled(b)' \/ \E w \in Claiming' : idx'[w] = b
                    /\ \A w \in Workers : wpc'[w] = "done" => next_index' >= nblk'
  BY DEF NothingLost
<1>0. TypeOK /\ ThreadsAgree /\ CallerKnows
  BY DEF IInv
<1> USE <1>0, BoundsAssumption DEF NothingLost, Settled
<1>1. ASSUME UNCHANGED <<input, out, next_index, status, wpc, idx>>
      PROVE  NothingLost'
  BY <1>1 DEF Blocks, Claiming, input
<1>2. ASSUME Spawn
      PROVE  NothingLost'
  <2>1. i \in Workers /\ wpc[i] = "none"
    BY <1>2 DEF Spawn, TypeOK, Workers, CallerKnows, ThreadsAgree
  <2>2. \A w \in Workers : wpc'[w] = IF w = i THEN "fetch" ELSE wpc[w]
    BY <1>2 DEF Spawn, TypeOK
  <2>3. Claiming' = Claiming
    BY <2>1, <2>2 DEF Claiming
  <2>4. QED
    BY <1>2, <2>2, <2>3 DEF Spawn, Blocks, input
<1>3. ASSUME NEW w \in Workers, Fetch(w)
      PROVE  NothingLost'
  <2>1. \A v \in Workers :
          /\ idx'[v] = IF v = w THEN next_index ELSE idx[v]
          /\ wpc'[v] = IF v = w THEN IF next_index >= nblk THEN "done" ELSE "check"
                                ELSE wpc[v]
    BY <1>3 DEF Fetch, TypeOK
  <2>2. status = "ok" /\ UNCHANGED <<nblk, payload, out>> /\ next_index' = next_index + 1
    BY <1>3 DEF Fetch, input
  <2>3. \A v \in Claiming : v # w
    BY <1>3 DEF Fetch, Running, Claiming
  <2>4. \A v \in Claiming : v \in Claiming' /\ idx'[v] = idx[v]
    BY <2>1, <2>3 DEF Claiming
  <2>5. ASSUME NEW b \in Blocks', b < next_index'
        PROVE  Settled(b)' \/ \E v \in Claiming' : idx'[v] = b
    <3>1. CASE b < next_index
      BY <3>1, <2>2, <2>4 DEF Blocks
    <3>2. CASE b = next_index
      <4>1. w \in Claiming' /\ idx'[w] = b
        BY <3>2, <2>1, <2>2 DEF Blocks, Claiming, TypeOK
      <4>2. QED
        BY <4>1
    <3>3. QED
      BY <2>2, <2>5, <3>1, <3>2 DEF TypeOK, Blocks
  <2>6. ASSUME NEW v \in Workers, wpc'[v] = "done"
        PROVE  next_index' >= nblk'
    BY <2>1, <2>2, <2>6 DEF TypeOK
  <2>7. QED
    BY <2>5, <2>6
<1>4. ASSUME NEW w \in Workers, Check(w)
      PROVE  NothingLost'
  <2>1. status = "ok" /\ UNCHANGED <<input, out, next_index, idx>>
    BY <1>4 DEF Check
  <2>2. \A v \in Workers : wpc'[v] = IF v = w THEN "work" ELSE wpc[v]
    BY <1>4, <2>1 DEF Check, TypeOK
  <2>3. Claiming' = Claiming
    BY <1>4, <2>2 DEF Check, Running, Claiming
  <2>4. QED
    BY <2>1, <2>2, <2>3 DEF Blocks, input
<1>5. ASSUME NEW w \in Workers, Work(w)
      PROVE  NothingLost'
  <2>1. w \in Claiming /\ idx[w] \in Blocks
    BY <1>5 DEF Work, Running, Claiming, TypeOK
  <2>2. DecompressBlock(payload[idx[w]]) = "ok"
    BY <1>5 DEF Work
  <2>3. payload[idx[w]] \in {"good", "short"}
    <3>1. payload[idx[w]] \in Verdicts
      BY <2>1 DEF TypeOK
    <3>2. payload[idx[w]] \in {"good", "short"} \union Errors
      BY <3>1, EnvironmentAssumption
    <3>3. "ok" \notin Errors
      BY ErrorsAssumption
    <3>4. QED
      BY <2>2, <3>2, <3>3 DEF DecompressBlock, CodecReturns
  <2>4. \A v \in Workers : wpc'[v] = IF v = w THEN "fetch" ELSE wpc[v]
    BY <1>5, <2>2 DEF Work, TypeOK
  <2>5. Claiming' = Claiming \ {w}
    BY <2>4 DEF Claiming
  <2>6. \A b \in Blocks : (Settled(b) \/ b = idx[w]) => Settled(b)'
    BY <1>5, <2>1, <2>3 DEF Work, TypeOK, input
  <2>7. status = "ok" /\ UNCHANGED <<input, next_index, idx>>
    BY <1>5, <2>2 DEF Work
  <2>8. ASSUME NEW b \in Blocks, b < next_index
        PROVE  Settled(b)' \/ \E v \in Claiming' : idx[v] = b
    BY <2>5, <2>6, <2>7, <2>8
  <2>9. Blocks' = Blocks /\ nblk' = nblk /\ idx' = idx /\ next_index' = next_index
    BY <2>7 DEF Blocks, input
  <2>10. \A v \in Workers : wpc'[v] = "done" => next_index >= nblk
    BY <2>4, <2>7
  <2>11. QED
    BY <2>8, <2>9, <2>10
<1>6. QED
  BY <1>1, <1>2, <1>3, <1>4, <1>5
  DEF Next, CallerStep, WorkerStep, Over, vars, EnterEmpty, EnterNoMemory, Enter,
      SpawnFails, Join, JoinTraps, Finish, caller

(* LZO_E_OK from a pool in which at least one thread ran means that every  *)
(* block was decompressed, to the end or short, for every schedule.        *)
THEOREM PoolOkMeansComplete == Spec => []OkMeansComplete
<1>1. Init => NothingLost
  BY BoundsAssumption DEF Init, NothingLost, Blocks
<1>2. IInv /\ NothingLost => OkMeansComplete
  <2> SUFFICES ASSUME IInv, NothingLost, result = "ok",
                      NEW w \in Workers, handle[w] = "thread", NEW b \in Blocks
               PROVE  Settled(b)
    BY DEF OkMeansComplete, Started, Finished
  <2>1. pc = "returned"
    BY ErrorsAssumption DEF IInv, ResultKnown, TypeOK
  <2>2. \A v \in Workers : wpc[v] \in {"none", "done"}
    BY <2>1 DEF IInv, CallerKnows
  <2>3. wpc[w] = "done" /\ Claiming = {}
    BY <2>2 DEF IInv, ThreadsAgree, Claiming
  <2>4. status = "ok" /\ b < next_index
    BY <2>3, BoundsAssumption DEF IInv, ResultKnown, NothingLost, TypeOK, Blocks
  <2>5. QED
    BY <2>3, <2>4 DEF NothingLost
<1>3. QED
  BY <1>1, <1>2, InvHolds, NothingLostStep, PTL DEF Spec

-----------------------------------------------------------------------------
(* Every worker passes the end of the blocks at most once, and is done     *)
(* then: the cursor is ahead of the end by no more than the done workers.  *)
LEMMA DoneFinite ==
  ASSUME TypeOK
  PROVE  IsFiniteSet(Done) /\ Cardinality(Done) \in Nat
<1>1. IsFiniteSet(0 .. MaxThreads - 1)
  BY FS_Interval, BoundsAssumption
<1>2. Done \subseteq 0 .. MaxThreads - 1
  BY DEF Done, Workers
<1>3. QED
  BY <1>1, <1>2, FS_Subset, FS_CardinalityType

(* Each step keeps the cursor that close to the end: only a Fetch moves it,*)
(* and a Fetch beyond the end makes one more worker done.                  *)
LEMMA OvershootStep == IInv /\ Overshoot /\ [Next]_vars => Overshoot'
<1> SUFFICES ASSUME IInv, Overshoot, [Next]_vars
             PROVE  Overshoot'
  OBVIOUS
<1>0. TypeOK /\ TypeOK' /\ ThreadsAgree /\ CallerKnows
  BY TypeStep DEF IInv
<1>1. IsFiniteSet(Done) /\ Cardinality(Done) \in Nat
  BY <1>0, DoneFinite
<1>2. ASSUME NEW w \in Workers, w \notin Done, Done' = Done \union {w}
      PROVE  Cardinality(Done') = Cardinality(Done) + 1
  BY <1>1, <1>2, FS_AddElement
<1>3. ASSUME Done' = Done, UNCHANGED <<nblk, next_index>>
      PROVE  Overshoot'
  BY <1>3 DEF Overshoot
<1>4. ASSUME Spawn
      PROVE  Overshoot'
  <2>1. i \in Workers /\ wpc[i] = "none"
    BY <1>0, <1>4, BoundsAssumption DEF Spawn, TypeOK, Workers, CallerKnows, ThreadsAgree
  <2>2. Done' = Done
    BY <1>0, <1>4, <2>1 DEF Spawn, TypeOK, Done
  <2>3. QED
    BY <1>3, <1>4, <2>2 DEF Spawn, input
<1>5. ASSUME NEW w \in Workers, Fetch(w)
      PROVE  Overshoot'
  <2>1. nblk' = nblk /\ next_index' = next_index + 1 /\ w \notin Done
    BY <1>5 DEF Fetch, Running, Done, input
  <2>2. \A v \in Workers :
          wpc'[v] = IF v = w THEN IF next_index >= nblk THEN "done" ELSE "check"
                    ELSE wpc[v]
    BY <1>0, <1>5 DEF Fetch, TypeOK
  <2>3. CASE next_index >= nblk
    <3>1. Done' = Done \union {w}
      BY <2>2, <2>3 DEF Done
    <3>2. Cardinality(Done') = Cardinality(Done) + 1
      BY <1>2, <2>1, <3>1
    <3>3. next_index \in Nat /\ nblk \in Nat
      BY <1>0, BoundsAssumption DEF TypeOK
    <3>4. QED
      BY <1>1, <2>1, <3>2, <3>3 DEF Overshoot
  <2>4. CASE ~(next_index >= nblk)
    <3>1. Done' = Done
      BY <2>1, <2>2, <2>4 DEF Done
    <3>2. QED
      BY <1>0, <1>1, <2>1, <2>4, <3>1 DEF Overshoot, TypeOK
  <2>5. QED
    BY <2>3, <2>4
<1>6. ASSUME NEW w \in Workers, Check(w) \/ Work(w)
      PROVE  Overshoot'
  <2>1. UNCHANGED <<nblk, next_index>> /\ w \notin Done
    BY <1>6 DEF Check, Work, Running, Done, input
  <2>2. \A v \in Workers : v # w => wpc'[v] = wpc[v]
    BY <1>0, <1>6 DEF Check, Work, TypeOK
  <2>3. Done' = Done \/ Done' = Done \union {w}
    BY <2>1, <2>2 DEF Done
  <2>4. CASE Done' = Done
    BY <1>3, <2>1, <2>4
  <2>5. CASE Done' = Done \union {w}
    <3>1. Cardinality(Done') = Cardinality(Done) + 1
      BY <1>2, <2>1, <2>5
    <3>2. next_index \in Nat /\ nblk \in Nat
      BY <1>0, BoundsAssumption DEF TypeOK
    <3>3. QED
      BY <1>1, <2>1, <3>1, <3>2 DEF Overshoot
  <2>6. QED
    BY <2>3, <2>4, <2>5
<1>7. ASSUME UNCHANGED <<input, next_index, wpc>>
      PROVE  Overshoot'
  BY <1>3, <1>7 DEF Done, input
<1>8. QED
  BY <1>4, <1>5, <1>6, <1>7
  DEF Next, CallerStep, WorkerStep, Over, vars, EnterEmpty, EnterNoMemory, Enter,
      SpawnFails, Join, JoinTraps, Finish, caller

(* next_index never exceeds the number of blocks by more than the number   *)
(* of threads: size_t cannot wrap while the joins wait.                    *)
THEOREM PoolCursorBounded == Spec => []CursorBounded
<1>1. Init => Overshoot
  <2> SUFFICES ASSUME Init
               PROVE  Overshoot
    OBVIOUS
  <2>1. TypeOK
    BY InitInv DEF IInv
  <2>2. QED
    BY <2>1, DoneFinite DEF Overshoot, Init, TypeOK
<1>2. IInv /\ Overshoot => CursorBounded
  <2> SUFFICES ASSUME IInv, Overshoot
               PROVE  next_index <= nblk + threads
    BY DEF CursorBounded
  <2>1. Done \subseteq 0 .. threads - 1
    BY BoundsAssumption DEF IInv, TypeOK, CallerKnows, ThreadsAgree, Done, Workers
  <2>2. IsFiniteSet(0 .. threads - 1) /\ Cardinality(0 .. threads - 1) = threads
    BY FS_Interval, BoundsAssumption DEF IInv, TypeOK
  <2>3. Cardinality(Done) <= threads
    BY <2>1, <2>2, FS_Subset
  <2>4. Cardinality(Done) \in Nat
    BY DoneFinite DEF IInv
  <2>5. QED
    BY <2>3, <2>4, BoundsAssumption DEF IInv, TypeOK, Overshoot
<1>3. QED
  BY <1>1, <1>2, InvHolds, OvershootStep, PTL DEF Spec

-----------------------------------------------------------------------------
(* status never goes back to OK, and no block is written twice.            *)
THEOREM PoolFailureSticks == Spec => FailureSticksWorkIsOnce
<1>1. IInv /\ [Next]_vars =>
        [/\ status # "ok" => status' # "ok"
         /\ \A b \in Blocks : out[b] # "unset" => out'[b] = out[b]]_vars
  <2> SUFFICES ASSUME IInv, Next
               PROVE  /\ status # "ok" => status' # "ok"
                      /\ \A b \in Blocks : out[b] # "unset" => out'[b] = out[b]
    OBVIOUS
  <2>1. ASSUME NEW w \in Workers, Work(w)
        PROVE  /\ status # "ok" => status' # "ok"
               /\ \A b \in Blocks : out[b] # "unset" => out'[b] = out[b]
    <3>1. w \in Claiming
      BY <2>1 DEF Work, Running, Claiming
    <3>2. out[idx[w]] = "unset"
      BY <3>1 DEF IInv, ClaimsFresh
    <3>3. QED
      BY <2>1, <3>2 DEF Work, IInv, TypeOK
  <2>2. ASSUME UNCHANGED <<out, status>>
        PROVE  /\ status # "ok" => status' # "ok"
               /\ \A b \in Blocks : out[b] # "unset" => out'[b] = out[b]
    BY <2>2
  <2>3. QED
    BY <2>1, <2>2
    DEF Next, CallerStep, WorkerStep, Over, vars, EnterEmpty, EnterNoMemory, Enter,
        Spawn, SpawnFails, Join, JoinTraps, Finish, Fetch, Check
<1>2. QED
  BY <1>1, InvHolds, PTL DEF Spec, FailureSticksWorkIsOnce

-----------------------------------------------------------------------------
(* A failure recorded is the failure of a block.                           *)
CauseKnown == status # "ok" => \E b \in Blocks : payload[b] \in Errors

(* A status other than OK has a block that caused it.                      *)
LEMMA CauseStep == IInv /\ CauseKnown /\ [Next]_vars => CauseKnown'
<1> SUFFICES ASSUME IInv, CauseKnown, [Next]_vars
             PROVE  CauseKnown'
  OBVIOUS
<1>0. TypeOK
  BY DEF IInv
<1>1. ASSUME NEW w \in Workers, Work(w)
      PROVE  CauseKnown'
  <2>1. idx[w] \in Blocks
    BY <1>0, <1>1 DEF Work, Running, TypeOK, Claiming
  <2>2. DecompressBlock(payload[idx[w]]) # "ok" => payload[idx[w]] \in Errors
    BY DEF DecompressBlock, CodecReturns
  <2>3. status' = status \/ payload[idx[w]] \in Errors
    BY <1>1, <2>2 DEF Work
  <2>4. UNCHANGED <<nblk, payload>>
    BY <1>1 DEF Work, input
  <2>5. QED
    BY <2>1, <2>3, <2>4 DEF CauseKnown, Blocks
<1>2. ASSUME UNCHANGED <<nblk, payload, status>>
      PROVE  CauseKnown'
  BY <1>2 DEF CauseKnown, Blocks
<1>3. QED
  BY <1>1, <1>2
  DEF Next, CallerStep, WorkerStep, Over, vars, EnterEmpty, EnterNoMemory, Enter, Spawn,
      SpawnFails, Join, JoinTraps, Finish, Fetch, Check, input

(* The pool implements BlockJob: the caller is told the truth, whatever    *)
(* fails on the way, as long as one thread was started.                    *)
LEMMA PromiseStep ==
  IInv /\ NothingLost /\ CauseKnown /\ [Next]_vars => [Promise!Next]_(Promise!vars)
<1> SUFFICES ASSUME IInv, NothingLost, CauseKnown, [Next]_vars
             PROVE  [Promise!Next]_(Promise!vars)
  OBVIOUS
<1>0. TypeOK /\ ResultKnown /\ ClaimsFresh /\ ThreadsAgree /\ CallerKnows
  BY DEF IInv
<1>1. ASSUME UNCHANGED <<nblk, payload, out, Started, result>>
      PROVE  UNCHANGED Promise!vars
  BY <1>1 DEF Promise!vars, Blocks, Bad, Finished, Settled
<1>2. ASSUME NEW a \in {"ok", "rejected", "refused"}, UNCHANGED <<nblk, payload, out, Started>>,
             AnswerOf(result) = "none", AnswerOf(result') = a,
             a = "ok" => Finished = Blocks \/ Started = {},
             a = "rejected" => \E b \in Blocks : payload[b] \in Errors
      PROVE  Promise!Next
  <2>1. UNCHANGED <<Blocks, Bad, Finished>>
    BY <1>2 DEF Blocks, Bad, Finished, Settled
  <2>2. a = "rejected" => Bad # {}
    BY <1>2 DEF Bad
  <2>3. Promise!Answer(a)
    BY <1>2, <2>1, <2>2 DEF Promise!Answer
  <2>4. QED
    BY <2>3 DEF Promise!Next
<1>3. /\ AnswerOf("none") = "none" /\ AnswerOf("ok") = "ok"
      /\ AnswerOf("oom") = "refused" /\ AnswerOf("trap") = "refused"
      /\ \A e \in Errors : AnswerOf(e) = "rejected"
  BY ErrorsAssumption DEF AnswerOf
<1>4. ASSUME EnterEmpty
      PROVE  Promise!Next
  <2>1. UNCHANGED <<nblk, payload, out, Started>> /\ result = "none" /\ result' = "ok"
    BY <1>0, <1>4 DEF EnterEmpty, Return, ResultKnown, input, Started
  <2>2. Finished = Blocks
    BY <1>4 DEF EnterEmpty, Finished, Blocks
  <2>3. QED
    BY <1>2, <1>3, <2>1, <2>2
<1>5. ASSUME EnterNoMemory \/ JoinTraps
      PROVE  Promise!Next
  <2>1. /\ UNCHANGED <<nblk, payload, out, Started>> /\ result = "none"
        /\ result' \in {"oom", "trap"}
    BY <1>0, <1>5 DEF EnterNoMemory, JoinTraps, Return, ResultKnown, input, Started
  <2>2. QED
    BY <1>2, <1>3, <2>1
<1>6. ASSUME Finish
      PROVE  Promise!Next
  <2>1. UNCHANGED <<nblk, payload, out, Started>> /\ result = "none" /\ result' = status
    BY <1>0, <1>6 DEF Finish, Return, ResultKnown, input, Started
  <2>2. CASE status # "ok"
    <3>1. status \in Errors
      BY <1>0, <2>2 DEF TypeOK
    <3>2. QED
      BY <1>2, <1>3, <2>1, <2>2, <3>1 DEF CauseKnown
  <2>3. CASE status = "ok" /\ Started = {}
    BY <1>2, <1>3, <2>1, <2>3
  <2>4. CASE status = "ok" /\ Started # {}
    <3>1. PICK w \in Workers : handle[w] = "thread"
      BY <2>4 DEF Started
    <3>2. \A v \in Workers : wpc[v] \in {"none", "done"}
      BY <1>0, <1>6 DEF Finish, CallerKnows
    <3>3. wpc[w] = "done" /\ Claiming = {}
      BY <1>0, <3>1, <3>2 DEF ThreadsAgree, Claiming
    <3>4. next_index >= nblk
      BY <2>4, <3>3 DEF NothingLost
    <3>5. \A b \in Blocks : b < next_index
      BY <1>0, <3>4, BoundsAssumption DEF TypeOK, Blocks
    <3>6. Finished = Blocks
      BY <2>4, <3>3, <3>5 DEF NothingLost, Finished
    <3>7. QED
      BY <1>2, <1>3, <2>1, <2>4, <3>6
  <2>5. QED
    BY <2>2, <2>3, <2>4
<1>7. ASSUME NEW w \in Workers, Work(w)
      PROVE  [Promise!Next]_(Promise!vars)
  <2>1. w \in Claiming /\ idx[w] \in Blocks
    BY <1>0, <1>7 DEF Work, Running, Claiming, TypeOK
  <2>2. out[idx[w]] = "unset"
    BY <1>0, <2>1 DEF ClaimsFresh
  <2>3. /\ UNCHANGED <<nblk, payload, Started, result>>
        /\ out' = [out EXCEPT ![idx[w]] =
                     IF payload[idx[w]] = "good" THEN "full" ELSE "partial"]
    BY <1>7 DEF Work, input, caller, Started
  <2>4. \A b \in Blocks :
          out'[b] = IF b = idx[w] THEN IF payload[b] = "good" THEN "full" ELSE "partial"
                    ELSE out[b]
    BY <1>0, <2>1, <2>3 DEF TypeOK
  <2>5. UNCHANGED <<Blocks, Bad>>
    BY <2>3 DEF Blocks, Bad
  <2>6. idx[w] \notin Finished
    BY <2>2 DEF Finished, Settled
  <2>7. CASE payload[idx[w]] \in {"good", "short"}
    <3>1. \A b \in Blocks : Settled(b)' <=> b = idx[w] \/ Settled(b)
      BY <2>1, <2>3, <2>4, <2>7 DEF Settled
    <3>2. Finished' = Finished \union {idx[w]}
      BY <2>1, <2>5, <3>1 DEF Finished
    <3>3. idx[w] \notin Bad
      BY <2>7, ErrorsAssumption DEF Bad
    <3>4. wpc[w] = "work" /\ pc # "trap"
      BY <1>7 DEF Work, Running
    <3>5. result = "none"
      BY <1>0, <3>4 DEF ResultKnown, CallerKnows, ThreadsAgree, TypeOK
    <3>6. Started # {}
      BY <1>0, <3>4 DEF ThreadsAgree, Started
    <3>7. Promise!Finish(idx[w])
      BY <1>3, <2>3, <2>5, <2>6, <3>2, <3>3, <3>5, <3>6 DEF Promise!Finish
    <3>8. QED
      BY <2>1, <3>7 DEF Promise!Next
  <2>8. CASE payload[idx[w]] \notin {"good", "short"}
    <3>1. \A b \in Blocks : Settled(b)' <=> Settled(b)
      BY <2>1, <2>2, <2>3, <2>4, <2>8 DEF Settled
    <3>2. Finished' = Finished
      BY <2>5, <3>1 DEF Finished
    <3>3. QED
      BY <2>3, <2>5, <3>2 DEF Promise!vars
  <2>9. QED
    BY <2>7, <2>8
<1>8. ASSUME Spawn
      PROVE  [Promise!Next]_(Promise!vars)
  <2>1. i \in Workers /\ UNCHANGED <<nblk, payload, out, result>> /\ result = "none"
    BY <1>0, <1>8, BoundsAssumption DEF Spawn, TypeOK, Workers, ResultKnown, input
  <2>2. Started' = Started \union {i}
    BY <1>0, <1>8, <2>1 DEF Spawn, TypeOK, Started
  <2>3. CASE Started # {}
    BY <2>1, <2>2, <2>3 DEF Promise!vars, Blocks, Bad, Finished, Settled
  <2>4. CASE Started = {}
    <3>1. UNCHANGED <<Blocks, Bad, Finished>>
      BY <2>1 DEF Blocks, Bad, Finished, Settled
    <3>2. Promise!Man
      BY <1>3, <2>1, <2>2, <3>1 DEF Promise!Man
    <3>3. QED
      BY <3>2 DEF Promise!Next
  <2>5. QED
    BY <2>3, <2>4
<1>9. ASSUME SpawnFails
      PROVE  UNCHANGED <<nblk, payload, out, Started, result>>
  <2>1. i \in Workers /\ handle[i] = "zero" /\ UNCHANGED <<nblk, payload, out, result>>
    BY <1>0, <1>9, BoundsAssumption DEF SpawnFails, TypeOK, Workers, CallerKnows, input
  <2>2. \A w \in Workers : handle'[w] = "thread" <=> handle[w] = "thread"
    BY <1>0, <1>9, <2>1 DEF SpawnFails, TypeOK
  <2>3. QED
    BY <2>1, <2>2 DEF Started
<1>10. ASSUME Enter \/ Join \/ (\E w \in Workers : Fetch(w) \/ Check(w)) \/ Over
              \/ UNCHANGED vars
       PROVE  UNCHANGED <<nblk, payload, out, Started, result>>
  BY <1>10 DEF Enter, Join, Fetch, Check, Over, vars, input, caller, Started
<1>11. QED
  BY <1>1, <1>4, <1>5, <1>6, <1>7, <1>8, <1>9, <1>10 DEF Next, CallerStep, WorkerStep

(* Every behaviour of decompress_multi and its workers is one of BlockJob. *)
THEOREM PoolKeepsPromise == Spec => KeepsPromise
<1>1. Init => Promise!Init
  <2> SUFFICES ASSUME Init
               PROVE  Promise!Init
    OBVIOUS
  <2>1. Bad \subseteq Blocks /\ Finished = {} /\ Started = {}
    BY DEF Init, Bad, Finished, Settled, Started
  <2>2. AnswerOf(result) = "none"
    BY ErrorsAssumption DEF Init, AnswerOf
  <2>3. QED
    BY <2>1, <2>2 DEF Promise!Init
<1>2. Init => NothingLost /\ CauseKnown
  BY BoundsAssumption DEF Init, NothingLost, CauseKnown, Blocks
<1>3. QED
  BY <1>1, <1>2, InvHolds, NothingLostStep, CauseStep, PromiseStep, PTL
  DEF Spec, KeepsPromise, Promise!Spec

-----------------------------------------------------------------------------
(* The memory of compress_multi.                                           *)

(* What the memory looks like in each phase of compress_multi.             *)
Phases ==
  /\ cpc = "split" => k = 0 /\ chunks = "none" /\ \A b \in Blocks : buf[b] = "null"
  /\ cpc = "prealloc" =>
       /\ chunks = "live" /\ k < nblk
       /\ \A b \in Blocks : buf[b] = IF b < k THEN "fresh" ELSE "null"
  /\ cpc = "pool" =>
       /\ chunks = IF nblk = 0 THEN "none" ELSE "live"
       /\ \A b \in Blocks : buf[b] = IF out[b] = "full" THEN "data" ELSE "fresh"
  /\ cpc = "returned" /\ cresult = "ok" =>
       /\ chunks = IF nblk = 0 THEN "none" ELSE "given"
       /\ \A b \in Blocks : buf[b] = IF out[b] = "full" THEN "data" ELSE "fresh"
  /\ cpc = "returned" /\ cresult # "ok" =>
       /\ chunks \in {"none", "freed"}
       /\ \A b \in Blocks : buf[b] \in {"null", "freed"}

(* The caller of the pool is where compress_multi is.                      *)
CallersAgree ==
  /\ cpc \in {"split", "prealloc"} => pc = "call"
  /\ pc \in {"spawn", "join", "finish", "trap"} => cpc = "pool" /\ nblk > 0
  /\ pc = "returned" => cpc = "returned" /\ cresult = result
  /\ cresult = "none" <=> cpc # "returned" /\ pc # "trap"
  /\ cresult = "trap" <=> pc = "trap"
  /\ cpc = "returned" => pc \in {"call", "returned"}
  /\ cresult = "ok" => pc = "returned"

(* A thread that never ran asked for nothing, one that was joined gave     *)
(* back what it had, and no chunk is compressed but by a thread.           *)
WorkspacesAgree ==
  /\ \A w \in Workers : wpc[w] = "none" => wrkmem[w] = "unasked"
  /\ pc = "join" => \A w \in Workers : w < i => wrkmem[w] # "heap"
  /\ pc \in {"finish", "returned"} => \A w \in Workers : wrkmem[w] # "heap"
  /\ (\E b \in Blocks : out[b] # "unset") => Started # {}

CInv == CTypeOK /\ Phases /\ CallersAgree /\ WorkspacesAgree

-----------------------------------------------------------------------------
(* compress_multi takes only steps of the pool.                            *)
LEMMA CompressStepIsPoolStep == [CNext]_cvars => [Next]_vars
BY DEF CNext, CCallerStep, CWorkerStep, COver, cvars, SplitEmpty, Split, SplitNoMemory,
       Prealloc, PreallocNoMemory, CEnterEmpty, CEnter, CEnterNoMemory, CSpawn, CJoin,
       CJoinTraps, CFinish, Begin, CFetch, CCheck, CWork, End, Next, CallerStep, WorkerStep

(* Hide the memory of compress_multi and what is left is the pool, so what *)
(* is proved of decompress_multi holds of compress_multi.                  *)
THEOREM CompressIsPool == CSpec => Spec
<1>1. CInit => Init
  BY DEF CInit
<1>2. QED
  BY <1>1, CompressStepIsPoolStep, PTL DEF CSpec, Spec

(* compress_multi with at least one thread: OK means all chunks are        *)
(* compressed; two threads never compress the same chunk.                  *)
COROLLARY CompressSafe == CSpec => [](OneOwner /\ OkMeansComplete)
BY CompressIsPool, PoolOneOwner, PoolOkMeansComplete, PTL

-----------------------------------------------------------------------------
(* The invariant of the memory holds at first.                             *)
LEMMA CInitInv == CInit => CInv
<1> SUFFICES ASSUME CInit
             PROVE  CInv
  OBVIOUS
<1>1. IInv
  BY InitInv DEF CInit
<1>2. CTypeOK
  BY <1>1, BoundsAssumption DEF CInit, CTypeOK, IInv, Init
<1>3. Phases
  BY DEF CInit, Phases
<1>4. CallersAgree
  BY DEF CInit, CallersAgree, Init
<1>5. WorkspacesAgree
  BY DEF CInit, WorkspacesAgree, Init
<1>6. QED
  BY <1>2, <1>3, <1>4, <1>5 DEF CInv

(* The steps before the pool, where no thread exists.                      *)
LEMMA SplitStep ==
  ASSUME IInv, IInv', CInv,
         SplitEmpty \/ Split \/ SplitNoMemory \/ Prealloc \/ PreallocNoMemory
  PROVE  CInv'
<1>1. /\ TypeOK /\ TypeOK' /\ CTypeOK /\ Phases /\ CallersAgree /\ WorkspacesAgree
      /\ UNCHANGED vars /\ UNCHANGED wrkmem
  BY DEF IInv, CInv, SplitEmpty, Split, SplitNoMemory, Prealloc, PreallocNoMemory
<1>2. /\ pc = "call" /\ pc' = pc /\ Blocks' = Blocks /\ nblk' = nblk
      /\ cpc \in {"split", "prealloc"} /\ nblk \in Nat /\ k \in Nat
      /\ i' = i /\ result' = result
  BY <1>1, BoundsAssumption
  DEF CallersAgree, SplitEmpty, Split, SplitNoMemory, Prealloc, PreallocNoMemory,
      vars, input, caller, Blocks, TypeOK, CTypeOK
<1>3. WorkspacesAgree'
  BY <1>1, <1>2 DEF WorkspacesAgree, vars, caller, Started
<1>4. \A b \in Blocks : out[b] = "unset"
  <2>1. \A w \in Workers : handle[w] = "zero"
    BY <1>2 DEF IInv, CallerKnows
  <2>2. QED
    BY <1>1, <2>1 DEF WorkspacesAgree, Started
<1>5. CASE SplitEmpty
  <2>1. cpc' = "pool" /\ UNCHANGED <<k, memory, cresult>> /\ nblk = 0 /\ cpc = "split"
    BY <1>5 DEF SplitEmpty
  <2>2. Phases'
    BY <1>1, <1>2, <2>1 DEF Phases, memory, Blocks
  <2>3. CTypeOK' /\ CallersAgree'
    BY <1>1, <1>2, <2>1 DEF CTypeOK, CallersAgree, memory
  <2>4. QED
    BY <1>3, <2>2, <2>3 DEF CInv
<1>6. CASE Split
  <2>1. /\ cpc = "split" /\ cpc' = "prealloc" /\ chunks' = "live" /\ nblk > 0
        /\ UNCHANGED <<k, buf, cresult>>
    BY <1>6 DEF Split
  <2>2. k = 0 /\ \A b \in Blocks : buf[b] = "null" /\ ~(b < 0)
    BY <1>1, <2>1 DEF Phases, Blocks
  <2>3. Phases'
    BY <1>2, <2>1, <2>2 DEF Phases
  <2>4. CTypeOK' /\ CallersAgree'
    BY <1>1, <1>2, <2>1 DEF CTypeOK, CallersAgree
  <2>5. QED
    BY <1>3, <2>3, <2>4 DEF CInv
<1>7. CASE SplitNoMemory
  <2>1. /\ cpc = "split" /\ cpc' = "returned" /\ cresult' = "oom"
        /\ UNCHANGED <<k, memory>>
    BY <1>7 DEF SplitNoMemory, CReturn
  <2>2. Phases'
    BY <1>1, <1>2, <2>1 DEF Phases, memory
  <2>3. CTypeOK' /\ CallersAgree'
    BY <1>1, <1>2, <2>1 DEF CTypeOK, CallersAgree, memory
  <2>4. QED
    BY <1>3, <2>2, <2>3 DEF CInv
<1>8. CASE Prealloc
  <2>1. /\ cpc = "prealloc" /\ k < nblk /\ k' = k + 1 /\ chunks = "live"
        /\ cpc' = IF k + 1 = nblk THEN "pool" ELSE "prealloc"
        /\ UNCHANGED <<chunks, cresult>>
    BY <1>1, <1>8 DEF Prealloc, Phases
  <2>2. \A b \in Blocks : buf'[b] = IF b < k + 1 THEN "fresh" ELSE "null"
    BY <1>1, <1>2, <1>8, <2>1 DEF Prealloc, Phases, CTypeOK, Blocks
  <2>3. buf' \in [Blocks' -> {"null", "fresh", "data", "freed"}]
    BY <1>1, <1>2, <1>8 DEF Prealloc, CTypeOK
  <2>4. out' = out
    BY <1>1 DEF vars
  <2>5. k + 1 = nblk => \A b \in Blocks : b < k + 1
    BY <1>2 DEF Blocks
  <2>6. Phases'
    BY <1>2, <1>4, <2>1, <2>2, <2>4, <2>5 DEF Phases
  <2>7. CTypeOK'
    BY <1>1, <1>2, <2>1, <2>3 DEF CTypeOK
  <2>8. CallersAgree'
    BY <1>1, <1>2, <2>1 DEF CallersAgree
  <2>9. QED
    BY <1>3, <2>6, <2>7, <2>8 DEF CInv
<1>9. CASE PreallocNoMemory
  <2>1. /\ cpc = "prealloc" /\ cpc' = "returned" /\ cresult' = "oom" /\ k' = k
        /\ chunks' \in {"none", "freed"}
        /\ buf' = [b \in Blocks |-> IF buf[b] = "null" THEN "null" ELSE "freed"]
    BY <1>9 DEF PreallocNoMemory, CReturn, FreeChunks
  <2>2. Phases'
    BY <1>2, <2>1 DEF Phases
  <2>3. CTypeOK' /\ CallersAgree'
    BY <1>1, <1>2, <2>1 DEF CTypeOK, CallersAgree
  <2>4. QED
    BY <1>3, <2>2, <2>3 DEF CInv
<1>10. QED
  BY <1>5, <1>6, <1>7, <1>8, <1>9

(* The caller's steps in the pool.  None changes an output, and those that *)
(* end the job decide what becomes of the buffers.                         *)
LEMMA CallerStepKeepsInv ==
  ASSUME IInv, IInv', CInv,
         CEnterEmpty \/ CEnter \/ CEnterNoMemory \/ CSpawn \/ CJoin \/ CJoinTraps \/ CFinish
  PROVE  CInv'
<1>1. /\ TypeOK /\ TypeOK' /\ CTypeOK /\ Phases /\ CallersAgree /\ WorkspacesAgree
      /\ UNCHANGED <<nblk, out, k, wrkmem>> /\ Blocks' = Blocks
      /\ ResultKnown /\ ThreadsAgree /\ CallerKnows
  BY DEF IInv, CInv, CEnterEmpty, CEnter, CEnterNoMemory, CSpawn, CJoin, CJoinTraps, CFinish,
         EnterEmpty, Enter, EnterNoMemory, Spawn, SpawnFails, Join, JoinTraps, Finish,
         input, Blocks
<1>2. ASSUME UNCHANGED <<pc, i, wpc, handle>> \/ (pc' \in {"spawn", "trap"} /\ UNCHANGED <<wpc, handle>>)
                \/ (pc \in {"finish", "call"} /\ pc' = "returned" /\ UNCHANGED <<wpc, handle>>)
      PROVE  WorkspacesAgree'
  <2>1. pc = "call" => \A w \in Workers : wpc[w] = "none"
    BY <1>1 DEF CallerKnows, ThreadsAgree
  <2>2. \A w \in Workers : wpc[w] = "none" => wrkmem[w] # "heap"
    BY <1>1 DEF WorkspacesAgree
  <2>3. QED
    BY <1>1, <1>2, <2>1, <2>2 DEF WorkspacesAgree, Started
<1>3. CASE CEnterEmpty
  <2>1. /\ cpc = "pool" /\ pc = "call" /\ nblk = 0 /\ pc' = "returned" /\ result' = "ok"
        /\ cpc' = "returned" /\ cresult' = "ok" /\ UNCHANGED <<memory, wpc, handle>>
    BY <1>3 DEF CEnterEmpty, EnterEmpty, Return, CReturn
  <2>2. Phases'
    BY <1>1, <2>1, ErrorsAssumption DEF Phases, memory, Blocks
  <2>3. CTypeOK' /\ CallersAgree'
    BY <1>1, <2>1 DEF CTypeOK, CallersAgree, memory
  <2>4. QED
    BY <1>2, <2>1, <2>2, <2>3 DEF CInv
<1>4. CASE CEnter
  <2>1. /\ cpc = "pool" /\ pc = "call" /\ nblk > 0 /\ pc' = "spawn"
        /\ UNCHANGED <<cpc, cresult, memory, wpc, handle, result>>
    BY <1>4 DEF CEnter, Enter
  <2>2. Phases'
    BY <1>1, <2>1 DEF Phases, memory
  <2>3. CTypeOK' /\ CallersAgree'
    BY <1>1, <2>1 DEF CTypeOK, CallersAgree, memory
  <2>4. QED
    BY <1>2, <2>1, <2>2, <2>3 DEF CInv
<1>5. CASE CEnterNoMemory
  <2>1. /\ cpc = "pool" /\ pc = "call" /\ pc' = "returned" /\ result' = "oom"
        /\ cpc' = "returned" /\ cresult' = "oom" /\ UNCHANGED <<wpc, handle>>
        /\ chunks' \in {"none", "freed"}
        /\ buf' = [b \in Blocks |-> IF buf[b] = "null" THEN "null" ELSE "freed"]
    BY <1>5 DEF CEnterNoMemory, EnterNoMemory, Return, CReturn, FreeChunks
  <2>2. Phases'
    BY <1>1, <2>1 DEF Phases
  <2>3. CTypeOK' /\ CallersAgree'
    BY <1>1, <2>1 DEF CTypeOK, CallersAgree
  <2>4. QED
    BY <1>2, <2>1, <2>2, <2>3 DEF CInv
<1>6. CASE CSpawn
  <2>1. /\ pc = "spawn" /\ pc' \in {"spawn", "join"} /\ (pc' = "join" => i' = 0)
        /\ UNCHANGED <<cpc, cresult, memory, result>>
        /\ \A w \in Workers : wpc'[w] = "none" => wpc[w] = "none"
        /\ \A w \in Workers : handle[w] = "thread" => handle'[w] = "thread"
    <3>1. /\ i \in Workers /\ handle[i] = "zero"
          /\ wpc \in [Workers -> {"none", "fetch", "check", "work", "done"}]
          /\ handle \in [Workers -> {"zero", "thread", "stray"}]
      <4>1. i \in Workers
        BY <1>1, BoundsAssumption DEF TypeOK, Workers
      <4>2. handle[i] = "zero"
        BY <1>1, <1>6, <4>1 DEF CSpawn, Spawn, SpawnFails, CallerKnows, Workers
      <4>3. QED
        BY <1>1, <4>1, <4>2 DEF TypeOK
    <3>2. pc = "spawn" /\ pc' \in {"spawn", "join"} /\ (pc' = "join" => i' = 0)
      BY <1>6 DEF CSpawn, Spawn, SpawnFails, Advance
    <3>3. UNCHANGED <<cpc, cresult, memory, result>>
      BY <1>6 DEF CSpawn, Spawn, SpawnFails
    <3>4. \A w \in Workers : wpc'[w] = "none" => wpc[w] = "none"
      BY <1>6, <3>1 DEF CSpawn, Spawn, SpawnFails
    <3>5. \A w \in Workers : handle[w] = "thread" => handle'[w] = "thread"
      BY <1>6, <3>1 DEF CSpawn, Spawn, SpawnFails
    <3>6. QED
      BY <3>2, <3>3, <3>4, <3>5
  <2>2. Phases'
    BY <1>1, <2>1 DEF Phases, memory
  <2>3. CTypeOK' /\ CallersAgree'
    BY <1>1, <2>1 DEF CTypeOK, CallersAgree, memory
  <2>4. WorkspacesAgree'
    BY <1>1, <2>1 DEF WorkspacesAgree, Started, Workers
  <2>5. QED
    BY <2>2, <2>3, <2>4 DEF CInv
<1>7. CASE CJoin
  <2>1. /\ pc = "join" /\ pc' \in {"join", "finish"} /\ i \in Nat
        /\ (i' = i + 1 /\ pc' = "join") \/ (pc' = "finish" /\ i + 1 = threads)
        /\ UNCHANGED <<cpc, cresult, memory, result, wpc, handle>> /\ wrkmem[i] # "heap"
    <3>1. threads \in Nat /\ i \in Nat /\ i < threads
      BY <1>1, BoundsAssumption DEF TypeOK
    <3>2. QED
      BY <1>7, <3>1 DEF CJoin, Join, Advance
  <2>2. Phases'
    BY <1>1, <2>1 DEF Phases, memory
  <2>3. CTypeOK' /\ CallersAgree'
    BY <1>1, <2>1 DEF CTypeOK, CallersAgree, memory
  <2>4. \A w \in Workers : w < i + 1 => wrkmem[w] # "heap"
    BY <1>1, <2>1, BoundsAssumption DEF WorkspacesAgree, Workers
  <2>5. \A w \in Workers : w >= threads => wrkmem[w] # "heap"
    BY <1>1 DEF WorkspacesAgree, ThreadsAgree, CallerKnows
  <2>6. threads \in Nat
    BY <1>1, BoundsAssumption DEF TypeOK
  <2>7. pc' = "finish" => \A w \in Workers : wrkmem[w] # "heap"
    BY <2>1, <2>4, <2>5, <2>6, BoundsAssumption DEF Workers
  <2>8. WorkspacesAgree'
    BY <1>1, <2>1, <2>4, <2>7 DEF WorkspacesAgree, Started
  <2>9. QED
    BY <2>2, <2>3, <2>8 DEF CInv
<1>8. CASE CJoinTraps
  <2>1. /\ pc = "join" /\ pc' = "trap" /\ result' = "trap" /\ cresult' = "trap"
        /\ UNCHANGED <<cpc, memory, wpc, handle>>
    BY <1>8 DEF CJoinTraps, JoinTraps
  <2>2. Phases'
    BY <1>1, <2>1 DEF Phases, memory, CallersAgree
  <2>3. CTypeOK' /\ CallersAgree'
    BY <1>1, <2>1 DEF CTypeOK, CallersAgree, memory
  <2>4. QED
    BY <1>2, <2>1, <2>2, <2>3 DEF CInv
<1>9. CASE CFinish
  <2>1. /\ pc = "finish" /\ pc' = "returned" /\ result' = status
        /\ cpc' = "returned" /\ cresult' = status /\ UNCHANGED <<wpc, handle>>
        /\ status \in {"ok"} \union Errors /\ cpc = "pool" /\ nblk > 0
    BY <1>1, <1>9 DEF CFinish, Finish, Return, CReturn, TypeOK, CallersAgree
  <2>2. CASE status = "ok"
    <3>1. chunks' = "given" /\ buf' = buf
      BY <1>9, <2>2 DEF CFinish
    <3>2. Phases'
      BY <1>1, <2>1, <2>2, <3>1 DEF Phases
    <3>3. CTypeOK' /\ CallersAgree'
      BY <1>1, <2>1, <2>2, <3>1 DEF CTypeOK, CallersAgree
    <3>4. QED
      BY <1>2, <2>1, <3>2, <3>3 DEF CInv
  <2>3. CASE status # "ok"
    <3>1. /\ chunks' \in {"none", "freed"}
          /\ buf' = [b \in Blocks |-> IF buf[b] = "null" THEN "null" ELSE "freed"]
      BY <1>9, <2>3 DEF CFinish, FreeChunks
    <3>2. Phases'
      BY <1>1, <2>1, <2>3, <3>1 DEF Phases
    <3>3. status \notin {"none", "trap"}
      BY <2>1, ErrorsAssumption
    <3>4. CTypeOK' /\ CallersAgree'
      BY <1>1, <2>1, <2>3, <3>1, <3>3 DEF CTypeOK, CallersAgree
    <3>5. QED
      BY <1>2, <2>1, <3>2, <3>4 DEF CInv
  <2>4. QED
    BY <2>2, <2>3
<1>10. QED
  BY <1>3, <1>4, <1>5, <1>6, <1>7, <1>8, <1>9

(* A worker's steps: the only one to touch a buffer is CWork, in the phase *)
(* in which every buffer is allocated.                                     *)
LEMMA WorkerStepKeepsInv ==
  ASSUME IInv, IInv', CInv, NEW w \in Workers, CWorkerStep(w)
  PROVE  CInv'
<1>1. /\ TypeOK /\ TypeOK' /\ CTypeOK /\ Phases /\ CallersAgree /\ WorkspacesAgree
      /\ UNCHANGED <<nblk, pc, i, handle, result, cpc, k, chunks, cresult>> /\ Blocks' = Blocks
      /\ ThreadsAgree /\ ThreadsAgree' /\ CallerKnows /\ ClaimsFresh
  BY DEF IInv, CInv, CWorkerStep, Begin, CFetch, CCheck, CWork, End, Fetch, Check, Work,
         vars, input, caller, memory, Blocks
<1>2. CallersAgree'
  BY <1>1 DEF CallersAgree
<1>3. wpc[w] # "none" /\ pc # "trap" /\ handle[w] = "thread"
  BY <1>1 DEF CWorkerStep, Begin, CFetch, CCheck, CWork, End, Fetch, Check, Work, Running,
         ThreadsAgree
<1>4. CASE Begin(w) \/ End(w)
  <2>1. UNCHANGED <<vars, buf>> /\ wrkmem' \in [Workers -> {"unasked", "heap", "null", "freed"}]
    BY <1>1, <1>4 DEF Begin, End, memory, CTypeOK
  <2>2. \A v \in Workers : v # w => wrkmem'[v] = wrkmem[v]
    BY <1>1, <1>4 DEF Begin, End, CTypeOK
  <2>3. \/ wpc[w] = "fetch"
        \/ wrkmem'[w] = "freed"
    BY <1>1, <1>4 DEF Begin, End, CTypeOK, Running
  <2>4. wpc[w] = "fetch" => ~(pc = "join" /\ w < i) /\ pc \notin {"finish", "returned"}
    BY <1>1 DEF CallerKnows
  <2>5. Phases' /\ CTypeOK'
    BY <1>1, <2>1 DEF Phases, CTypeOK, vars
  <2>6. WorkspacesAgree'
    BY <1>1, <1>3, <2>1, <2>2, <2>3, <2>4
    DEF WorkspacesAgree, Started, vars, caller
  <2>7. QED
    BY <1>2, <2>5, <2>6 DEF CInv
<1>5. CASE CFetch(w) \/ CCheck(w)
  <2>1. UNCHANGED <<out, buf, wrkmem>>
    BY <1>5 DEF CFetch, CCheck, Fetch, Check, memory
  <2>2. \A v \in Workers : wpc'[v] = "none" => wpc[v] = "none"
    BY <1>1 DEF ThreadsAgree
  <2>3. Phases' /\ CTypeOK'
    BY <1>1, <2>1 DEF Phases, CTypeOK
  <2>4. WorkspacesAgree'
    BY <1>1, <2>1, <2>2 DEF WorkspacesAgree, Started
  <2>5. QED
    BY <1>2, <2>3, <2>4 DEF CInv
<1>6. CASE CWork(w)
  <2>1. wpc[w] = "work" /\ w \in Claiming /\ idx[w] \in Blocks /\ wrkmem' = wrkmem
    BY <1>1, <1>6 DEF CWork, Work, Running, Claiming, TypeOK
  <2>2. out[idx[w]] = "unset" /\ cpc = "pool" /\ nblk > 0
    BY <1>1, <1>3, <2>1 DEF ClaimsFresh, CallersAgree, CallerKnows, ThreadsAgree, TypeOK
  <2>3. \A b \in Blocks :
          /\ out'[b] = IF b = idx[w]
                       THEN IF payload[b] = "good" THEN "full" ELSE "partial"
                       ELSE out[b]
          /\ buf'[b] = IF b = idx[w] /\ payload[b] = "good" THEN "data" ELSE buf[b]
    BY <1>1, <1>6, <2>1 DEF CWork, Work, TypeOK, CTypeOK
  <2>4. buf' \in [Blocks -> {"null", "fresh", "data", "freed"}]
    BY <1>1, <1>6 DEF CWork, CTypeOK
  <2>5. \A b \in Blocks : buf'[b] = IF out'[b] = "full" THEN "data" ELSE "fresh"
    BY <1>1, <2>2, <2>3 DEF Phases
  <2>6. Phases' /\ CTypeOK'
    BY <1>1, <2>1, <2>2, <2>4, <2>5 DEF Phases, CTypeOK
  <2>7. \A v \in Workers : wpc'[v] = "none" => wpc[v] = "none"
    BY <1>1 DEF ThreadsAgree
  <2>8. WorkspacesAgree'
    BY <1>1, <1>3, <2>1, <2>7 DEF WorkspacesAgree, Started
  <2>9. QED
    BY <1>2, <2>6, <2>8 DEF CInv
<1>7. QED
  BY <1>4, <1>5, <1>6 DEF CWorkerStep

(* Every step keeps it.                                                    *)
LEMMA CInvStep == IInv /\ IInv' /\ CInv /\ [CNext]_cvars => CInv'
<1> SUFFICES ASSUME IInv, IInv', CInv, [CNext]_cvars
             PROVE  CInv'
  OBVIOUS
<1>1. CASE UNCHANGED cvars
  BY <1>1 DEF cvars, vars, input, caller, memory, CInv, CTypeOK, Phases, CallersAgree,
              WorkspacesAgree, IInv, Blocks, Started
<1>2. QED
  BY <1>1, SplitStep, CallerStepKeepsInv, WorkerStepKeepsInv DEF CNext, CCallerStep, COver

(* Both invariants hold in every state of compress_multi.                  *)
LEMMA CInvHolds == CSpec => [](IInv /\ CInv)
BY CompressIsPool, InvHolds, CInitInv, CInvStep, PTL DEF CSpec

(* Every variable compress_multi adds keeps its type. *)
THEOREM CompressTypeCorrect == CSpec => []CTypeOK
<1>1. CInv => CTypeOK
  BY DEF CInv
<1>2. QED
  BY <1>1, CInvHolds, PTL

(* No worker writes to a buffer that is freed, missing or already filled,  *)
(* whichever of its siblings fails meanwhile.                              *)
THEOREM CompressWritesLiveBuffer == CSpec => []WritesLiveBuffer
<1>1. IInv /\ CInv => WritesLiveBuffer
  <2> SUFFICES ASSUME IInv, CInv, pc # "trap", NEW w \in Workers, wpc[w] = "work"
               PROVE  chunks = "live" /\ buf[idx[w]] = "fresh"
    BY DEF WritesLiveBuffer
  <2>1. w \in Claiming /\ idx[w] \in Blocks /\ out[idx[w]] = "unset"
    BY DEF Claiming, IInv, TypeOK, ClaimsFresh
  <2>2. pc \in {"spawn", "join"}
    BY DEF IInv, CallerKnows, ThreadsAgree, TypeOK
  <2>3. cpc = "pool" /\ nblk > 0 /\ nblk \in Nat
    BY <2>2, BoundsAssumption DEF CInv, CallersAgree, IInv, TypeOK
  <2>4. QED
    BY <2>1, <2>3 DEF CInv, Phases
<1>2. QED
  BY <1>1, CInvHolds, PTL

(* The compressor never stops short, so what it accepted is whole. *)
LEMMA AllFull ==
  ASSUME TypeOK
  PROVE  \A b \in Blocks : Settled(b) <=> out[b] = "full"
<1>1. \A b \in Blocks : payload[b] # "short"
  BY CompressorAssumption DEF TypeOK
<1>2. QED
  BY <1>1 DEF Settled

(* compress_multi leaks no buffer and no workspace, on any of its exits,   *)
(* and on success every buffer it hands over holds data if a thread ran.   *)
THEOREM CompressNothingLeaks == CSpec => []NothingLeaks
<1>1. IInv /\ CInv /\ OkMeansComplete => NothingLeaks
  <2> SUFFICES ASSUME IInv, CInv, OkMeansComplete
               PROVE  NothingLeaks
    OBVIOUS
  <2>1. cresult \notin {"none", "trap"} => cpc = "returned" /\ pc \in {"call", "returned"}
    BY DEF CInv, CallersAgree
  <2>2. pc = "call" => \A w \in Workers : wpc[w] = "none"
    BY DEF IInv, CallerKnows, ThreadsAgree
  <2>3. cresult \notin {"none", "trap"} => \A w \in Workers : wrkmem[w] # "heap"
    BY <2>1, <2>2 DEF CInv, WorkspacesAgree
  <2>4. cresult \in {"oom"} \union Errors =>
          chunks \in {"none", "freed"} /\ \A b \in Blocks : buf[b] \in {"null", "freed"}
    BY <2>1, ErrorsAssumption DEF CInv, Phases
  <2>5. ASSUME cresult = "ok"
        PROVE  /\ chunks \in {"none", "given"}
               /\ \A b \in Blocks : buf[b] = IF Started = {} THEN "fresh" ELSE "data"
    <3>1. /\ chunks \in {"none", "given"}
          /\ \A b \in Blocks : buf[b] = IF out[b] = "full" THEN "data" ELSE "fresh"
      BY <2>1, <2>5 DEF CInv, Phases
    <3>2. result = "ok"
      BY <2>5 DEF CInv, CallersAgree
    <3>3. Started # {} => \A b \in Blocks : out[b] = "full"
      BY <3>2, AllFull DEF OkMeansComplete, Finished, CInv, CTypeOK
    <3>4. Started = {} => \A b \in Blocks : out[b] = "unset"
      BY DEF CInv, WorkspacesAgree
    <3>5. QED
      BY <3>1, <3>3, <3>4
  <2>6. QED
    BY <2>3, <2>4, <2>5 DEF NothingLeaks
<1>2. QED
  BY <1>1, CInvHolds, CompressIsPool, PoolOkMeansComplete, PTL

-----------------------------------------------------------------------------
(* Until compress_multi gives up before the pool, it answers what the pool *)
(* answers.                                                                *)
LEMMA AnswersAgree ==
  ASSUME IInv, CInv, ~(cpc = "returned" /\ pc = "call")
  PROVE  cresult = result
BY DEF IInv, TypeOK, ResultKnown, CInv, CTypeOK, CallersAgree

(* Where the two answers agree before a step and after it, the step of the *)
(* job that the pool makes is the one compress_multi makes.                *)
LEMMA SamePromise ==
  ASSUME TypeOK, TypeOK', cresult = result, cresult' = result',
         [Promise!Next]_(Promise!vars)
  PROVE  [CompressPromise!Next]_(CompressPromise!vars)
<1>1. AnswerOf(cresult) = AnswerOf(result) /\ AnswerOf(cresult)' = AnswerOf(result)'
  BY DEF AnswerOf
<1>2. Finished = {b \in Blocks : out[b] = "full"}
  BY AllFull DEF Finished
<1>3. \A b \in Blocks' : payload'[b] # "short"
  BY CompressorAssumption DEF TypeOK
<1>4. Finished' = {b \in Blocks' : out'[b] = "full"}
  BY <1>3 DEF Finished, Settled
<1>5. QED
  BY <1>1, <1>2, <1>4
  DEF Promise!Next, Promise!vars, Promise!Man, Promise!Finish, Promise!Answer,
      CompressPromise!Next, CompressPromise!vars, CompressPromise!Man,
      CompressPromise!Finish, CompressPromise!Answer

(* compress_multi's own ways to fail refuse the job; nothing follows them. *)
LEMMA CompressPromiseStep ==
  IInv /\ IInv' /\ CInv /\ CInv' /\ NothingLost /\ CauseKnown /\ [CNext]_cvars =>
    [CompressPromise!Next]_(CompressPromise!vars)
<1> SUFFICES ASSUME IInv, IInv', CInv, CInv', NothingLost, CauseKnown, [CNext]_cvars
             PROVE  [CompressPromise!Next]_(CompressPromise!vars)
  OBVIOUS
<1>1. CASE SplitNoMemory \/ PreallocNoMemory
  <2>1. /\ UNCHANGED <<nblk, payload, out, Started>>
        /\ cresult' = "oom" /\ cresult = "none"
    BY <1>1
    DEF SplitNoMemory, PreallocNoMemory, CReturn, vars, input, caller, Started, CInv,
        CallersAgree
  <2>2. UNCHANGED <<Blocks, Bad>>
    BY <2>1 DEF Blocks, Bad
  <2>3. AnswerOf(cresult) = "none" /\ AnswerOf(cresult)' = "refused"
    BY <2>1, ErrorsAssumption DEF AnswerOf
  <2>4. CompressPromise!Answer("refused")
    BY <2>1, <2>2, <2>3 DEF CompressPromise!Answer
  <2>5. QED
    BY <2>4 DEF CompressPromise!Next
<1>2. CASE cpc = "returned" /\ pc = "call" /\ ~(SplitNoMemory \/ PreallocNoMemory)
  <2>1. \A w \in Workers : wpc[w] = "none"
    BY <1>2 DEF IInv, CallerKnows, ThreadsAgree
  <2>2. UNCHANGED cvars
    BY <1>2, <2>1
    DEF CNext, CCallerStep, CWorkerStep, COver, SplitEmpty, Split, Prealloc, CEnterEmpty,
        CEnter, CEnterNoMemory, CSpawn, Spawn, SpawnFails, CJoin, Join, CJoinTraps,
        JoinTraps, CFinish, Finish, Begin, CFetch, Fetch, CCheck, Check, CWork, Work, End,
        Running
  <2>3. UNCHANGED <<nblk, payload, out, Started, cresult>>
    BY <2>2 DEF cvars, vars, input, caller, Started
  <2>4. QED
    BY <2>3 DEF CompressPromise!vars, Blocks, Bad, AnswerOf
<1>3. CASE ~(cpc = "returned" /\ pc = "call") /\ ~(SplitNoMemory \/ PreallocNoMemory)
  <2>1. ~(cpc' = "returned" /\ pc' = "call")
    BY <1>3
    DEF CNext, CCallerStep, CWorkerStep, COver, cvars, vars, caller, SplitEmpty, Split,
        Prealloc, CEnterEmpty, EnterEmpty, Return, CEnter, Enter, CEnterNoMemory,
        EnterNoMemory, CSpawn, Spawn, SpawnFails, Advance, CJoin, Join, CJoinTraps, JoinTraps, CFinish,
        Finish, CReturn, Begin, CFetch, Fetch, CCheck, Check, CWork, Work, End
  <2>2. cresult = result
    BY <1>3, AnswersAgree
  <2>3. cresult' = result'
    BY <2>1 DEF IInv, TypeOK, ResultKnown, CInv, CTypeOK, CallersAgree
  <2>4. [Promise!Next]_(Promise!vars)
    BY CompressStepIsPoolStep, PromiseStep
  <2>5. QED
    BY <2>2, <2>3, <2>4, SamePromise DEF IInv
<1>4. QED
  BY <1>1, <1>2, <1>3

(* Every behaviour of compress_multi and its workers is one of BlockJob:   *)
(* what it tells compress_file is true, whatever fails on the way and      *)
(* whatever a join of a thread that was never created does, as long as one *)
(* thread was started.                                                     *)
THEOREM CompressPromiseKept == CSpec => CompressKeepsPromise
<1>1. CInit => CompressPromise!Init
  <2> SUFFICES ASSUME CInit
               PROVE  CompressPromise!Init
    OBVIOUS
  <2>1. Bad \subseteq Blocks /\ Started = {} /\ \A b \in Blocks : out[b] # "full"
    BY DEF CInit, Init, Bad, Started
  <2>2. AnswerOf(cresult) = "none"
    BY ErrorsAssumption DEF CInit, AnswerOf
  <2>3. QED
    BY <2>1, <2>2 DEF CompressPromise!Init
<1>2. Init => NothingLost /\ CauseKnown
  BY BoundsAssumption DEF Init, NothingLost, CauseKnown, Blocks
<1>3. Spec => [](NothingLost /\ CauseKnown)
  BY <1>2, InvHolds, NothingLostStep, CauseStep, PTL DEF Spec
<1>4. QED
  BY <1>1, <1>3, CInvHolds, CompressIsPool, CompressPromiseStep, PTL
  DEF CSpec, CompressKeepsPromise, CompressPromise!Spec
=============================================================================
