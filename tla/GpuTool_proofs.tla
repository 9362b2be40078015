-------------------------- MODULE GpuTool_proofs ---------------------------
(***************************************************************************)
(* The GPU tool, on both sides of the OpenCL interface.                    *)
(*                                                                         *)
(* On the host: whatever the device and the input, both choices of a block *)
(* size are within the limits, the blocks they make cover the input with   *)
(* no block empty, and every job uses such blocks; and what every job      *)
(* gives back and answers.                                                 *)
(*                                                                         *)
(* On the device: what comes out of the kernels is the input, for every    *)
(* input and block size, whichever side is the CPU program, for all        *)
(* lengths of streams and all orders of the work items, as long as the     *)
(* worst case of all blocks fits into a word.  The work items share        *)
(* buffers without a lock, so the argument is about places: each stream is *)
(* where the next stage looks for it and nothing that is written later     *)
(* touches it.                                                             *)
(***************************************************************************)
EXTENDS GpuJob, GpuKernels, FragLayout_proofs

-----------------------------------------------------------------------------
(* The jobs of the host: GpuJob.                                           *)

(* Rounding up never makes a size smaller, nor 0.                          *)
LEMMA AlignUpBounds ==
  ASSUME NEW x \in Nat \ {0}
  PROVE  AlignUp(x) \in Nat \ {0} /\ AlignUp(x) >= x
<1> DEFINE up == CeilDiv(x, AlignBytes) * AlignBytes
<1>1. CeilDiv(x, AlignBytes) \in Nat \ {0} /\ up >= x
  BY CeilDivBounds, BlockingAssumption
<1>2. up \in Int
  BY <1>1, BlockingAssumption
<1> HIDE DEF up
<1>3. up \in Nat \ {0} /\ up >= x
  BY <1>1, <1>2
<1>4. QED
  BY <1>3 DEF AlignUp, up

(* A clamped size is within the limits.                                    *)
LEMMA ClampInRange ==
  ASSUME NEW x \in Nat
  PROVE  Clamp(x) \in MinBlock .. MaxBlock
BY LayoutAssumption DEF Clamp, AtLeast, AtMost

(* Blocks of a size that is not 0 cover the input, and none of them is     *)
(* empty.                                                                  *)
LEMMA BlocksCover ==
  ASSUME NEW size \in Nat \ {0}, NEW blk \in Nat \ {0}
  PROVE  /\ BlockCount(size, blk) \in Nat \ {0}
         /\ BlockCount(size, blk) * blk >= size
         /\ (BlockCount(size, blk) - 1) * blk < size
BY CeilDivBounds DEF BlockCount

(* What both choices start from: a positive number of blocks, no more than *)
(* there are bytes.                                                        *)
LEMMA TargetPositive ==
  ASSUME NEW size \in Nat \ {0}, NEW wanted \in Nat \ {0}
  PROVE  Target(size, wanted) \in Nat \ {0}
BY DEF Target, AtMost

(* An equal share, rounded up and clamped, is within the limits.           *)
LEMMA ShareInRange ==
  ASSUME NEW size \in Nat \ {0}, NEW n \in Nat \ {0}
  PROVE  /\ AlignUp(CeilDiv(size, n)) \in Nat \ {0}
         /\ Clamp(AlignUp(CeilDiv(size, n))) \in MinBlock .. MaxBlock
<1>1. CeilDiv(size, n) \in Nat \ {0}
  BY CeilDivBounds
<1>2. AlignUp(CeilDiv(size, n)) \in Nat \ {0}
  BY <1>1, AlignUpBounds
<1>3. QED
  BY <1>2, ClampInRange

(* The host's blocks: within the limits, enough for the input, and none of *)
(* them empty, for every input, device and forced number of blocks.        *)
THEOREM HostBlocking ==
  ASSUME NEW size \in Nat \ {0}, NEW units \in Nat \ {0}, NEW forced \in Int
  PROVE  LET blk == HostBlockSize(size, units, forced)
             n   == BlockCount(size, blk)
         IN /\ blk \in MinBlock .. MaxBlock
            /\ n \in Nat \ {0} /\ n * blk >= size /\ (n - 1) * blk < size
<1> DEFINE wanted == IF forced > 0 THEN forced ELSE units * OccFactor
           Share(n) == Clamp(AlignUp(CeilDiv(size, n)))
           first  == Share(Target(size, wanted))
           few    == BlockCount(size, first) < units
           nblk   == IF few THEN units ELSE BlockCount(size, first)
           second == IF few THEN Share(units) ELSE first
           blk    == HostBlockSize(size, units, forced)
<1>1. wanted \in Nat \ {0}
  BY BlockingAssumption
<1>0. blk = IF nblk > 1 /\ size - second * (nblk - 1) >= 0
               /\ size - second * (nblk - 1) < second \div 4
            THEN Share(nblk) ELSE second
  BY DEF HostBlockSize
<1> HIDE DEF wanted, blk
<1>2. first \in MinBlock .. MaxBlock
  BY <1>1, TargetPositive, ShareInRange
<1>3. first \in Nat \ {0}
  BY <1>2, LayoutAssumption
<1> HIDE DEF first
<1>4. BlockCount(size, first) \in Nat \ {0}
  BY <1>3, BlocksCover
<1>5. nblk \in Nat \ {0}
  BY <1>4
<1>6. Share(units) \in MinBlock .. MaxBlock /\ Share(nblk) \in MinBlock .. MaxBlock
  BY <1>5, ShareInRange
<1>7. blk = Share(nblk) \/ blk = second
  BY <1>0
<1>8. blk \in MinBlock .. MaxBlock
  BY <1>2, <1>6, <1>7
<1>9. blk \in Nat \ {0}
  BY <1>8, LayoutAssumption
<1>10. QED
  BY <1>8, <1>9, BlocksCover DEF blk

(* The daemon's blocks: within the limits too, although it looks at each   *)
(* limit in one case only, enough for the input, and none of them empty.   *)
THEOREM DaemonBlocking ==
  ASSUME NEW size \in Nat \ {0}, NEW units \in Nat \ {0}
  PROVE  LET blk == DaemonBlockSize(size, units)
             n   == BlockCount(size, blk)
         IN /\ blk \in MinBlock .. MaxBlock
            /\ n \in Nat \ {0} /\ n * blk >= size /\ (n - 1) * blk < size
<1> DEFINE wanted == units * OccFactor
           first  == AlignUp(CeilDiv(size, Target(size, wanted)))
           raised == IF BlockCount(size, first) > 1 THEN AtLeast(first, MinBlock)
                     ELSE first
           second == AtMost(raised, MaxBlock)
           blk    == DaemonBlockSize(size, units)
<1>1. wanted \in Nat \ {0}
  BY BlockingAssumption
<1>5. blk = IF BlockCount(size, second) = 1 THEN Clamp(AlignUp(second)) ELSE second
  BY DEF DaemonBlockSize
<1> HIDE DEF wanted, blk
<1>2. first \in Nat \ {0}
  BY <1>1, TargetPositive, ShareInRange
<1> HIDE DEF first
<1>3. raised \in Nat \ {0} /\ raised >= first
  BY <1>2, LayoutAssumption DEF AtLeast
<1>4. second \in Nat \ {0} /\ second <= MaxBlock
  BY <1>3, LayoutAssumption DEF AtMost
<1> HIDE DEF second
<1>6. CASE BlockCount(size, second) = 1
  <2>1. AlignUp(second) \in Nat
    BY <1>4, AlignUpBounds
  <2>2. blk \in MinBlock .. MaxBlock
    BY <2>1, <1>5, <1>6, ClampInRange
  <2>3. blk \in Nat \ {0}
    BY <2>2, LayoutAssumption
  <2>4. QED
    BY <2>2, <2>3, BlocksCover DEF blk
<1>7. CASE BlockCount(size, second) # 1
  <2>0. BlockCount(size, second) \in Nat \ {0}
    BY <1>4, BlocksCover
  <2>1. BlockCount(size, second) > 1
    BY <2>0, <1>7
  <2>2. second >= MinBlock
    <3>1. CASE second = MaxBlock
      BY <3>1, LayoutAssumption
    <3>2. CASE second # MaxBlock
      <4>1. second = raised
        BY <3>2, <1>3, LayoutAssumption DEF AtMost, second
      <4>2. CASE BlockCount(size, first) > 1
        BY <4>1, <4>2, <1>2, LayoutAssumption DEF AtLeast
      <4>3. CASE ~(BlockCount(size, first) > 1)
        BY <4>1, <4>3, <2>1
      <4>4. QED
        BY <4>2, <4>3
    <3>3. QED
      BY <3>1, <3>2
  <2>3. blk = second
    BY <1>5, <1>7
  <2>4. blk \in MinBlock .. MaxBlock /\ blk \in Nat \ {0}
    BY <2>2, <2>3, <1>4, LayoutAssumption
  <2>5. QED
    BY <2>4, BlocksCover DEF blk
<1>8. QED
  BY <1>6, <1>7 DEF blk

-----------------------------------------------------------------------------
(* Jobs.  The size of an input is a number, and no block is chosen for one *)
(* of size 0, because there the call fails.                                *)
JobFits == source.size \in Nat /\ BlocksFit

LEMMA FitsStep ==
  ASSUME JobFits, [Next]_vars
  PROVE  JobFits'
<1>1. CASE \E j \in Jobs, kind \in Kinds, size \in Sizes :
             Begin(j, kind, size)
  <2>1. PICK j \in Jobs, kind \in Kinds, size \in Sizes :
          Begin(j, kind, size)
    BY <1>1
  <2>2. source'.size = size /\ blocks' = <<0, 0>>
    BY <2>1 DEF Begin
  <2>3. QED
    BY <2>2, JobAssumption DEF JobFits, BlocksFit
<1>2. CASE Succeed
  <2>1. source' = source
    BY <1>2 DEF Succeed, input
  <2>2. CASE blocks' = blocks
    BY <2>1, <2>2 DEF JobFits, BlocksFit
  <2>3. CASE blocks' # blocks
    <3>1. Row.name = "blocking" /\ source.size # 0
      BY <1>2, <2>3, Zenon DEF Succeed, MustFail
    <3>2. PICK units \in Units, forced \in {0} \union Units :
            blocks' = Layout(units, forced)
      BY <1>2, <3>1 DEF Succeed
    <3>3. source.size \in Nat \ {0} /\ units \in Nat \ {0} /\ forced \in Int
      BY <3>1, JobAssumption DEF JobFits
    <3>4. \E blk \in {DaemonBlockSize(source.size, units),
                      HostBlockSize(source.size, units, forced)} :
            blocks' = <<blk, BlockCount(source.size, blk)>>
      BY <3>2 DEF Layout
    <3>5. PICK blk \in {DaemonBlockSize(source.size, units),
                       HostBlockSize(source.size, units, forced)} :
            blocks' = <<blk, BlockCount(source.size, blk)>>
      BY <3>4
    <3> DEFINE n == BlockCount(source.size, blk)
    <3>6. /\ blk \in MinBlock .. MaxBlock
          /\ n \in Nat \ {0} /\ n * blk >= source.size /\ (n - 1) * blk < source.size
      <4>1. CASE blk = DaemonBlockSize(source.size, units)
        BY <3>3, <4>1, DaemonBlocking
      <4>2. CASE blk = HostBlockSize(source.size, units, forced)
        BY <3>3, <4>2, HostBlocking
      <4>3. QED
        BY <4>1, <4>2
    <3> HIDE DEF n
    <3>7. blk \in Nat
      BY <3>6, LayoutAssumption
    <3>8. blk * n = n * blk /\ blk * (n - 1) = (n - 1) * blk
      BY <3>6, <3>7
    <3>9. blocks'[1] = blk /\ blocks'[2] = n
      BY <3>5 DEF n
    <3>10. QED
      BY <2>1, <3>3, <3>6, <3>8, <3>9 DEF JobFits, BlocksFit
  <2>4. QED
    BY <2>2, <2>3
<1>3. CASE FailReturns \/ FailTraps \/ FailLater \/ FailUnseen \/ Answer \/ UNCHANGED vars
  <2>1. source' = source /\ blocks' = blocks
    BY <1>3 DEF FailReturns, FailTraps, FailLater, FailUnseen, Answer, End, input, vars
  <2>2. QED
    BY <2>1 DEF JobFits, BlocksFit
<1>4. QED
  BY <1>1, <1>2, <1>3 DEF Next

(* The blocks of every job are within the limits and cover its input, for  *)
(* any sizes, limits, devices and forced numbers of blocks.                *)
THEOREM JobBlocksFit == Spec => []BlocksFit
<1>1. Init => JobFits
  BY DEF Init, JobFits, BlocksFit
<1>2. JobFits /\ [Next]_vars => JobFits'
  BY FitsStep
<1>3. JobFits => BlocksFit
  BY DEF JobFits
<1>4. QED
  BY <1>1, <1>2, <1>3, PTL DEF Spec

-----------------------------------------------------------------------------
(* The four functions, row by row.  Where a job opens its output (past the *)
(* end if it writes none), where a decompression on the host compares, and *)
(* where the rows end.                                                     *)
Compares(j) == j.does = "host_decompress" /\ "verify" \in j.options
Mute(j)     == Compares(j) /\ "o" \notin j.options

LastRow(j) ==
  CASE j.does = "daemon_compress"   -> 24
    [] j.does = "daemon_decompress" -> 19
    [] j.does = "host_compress"     -> IF "verify" \in j.options THEN 29 ELSE 26
    [] j.does = "host_decompress"   -> IF Mute(j) THEN 24 ELSE IF Compares(j) THEN 28 ELSE 26

OpenAt(j) ==
  CASE j.does = "daemon_compress"   -> 21
    [] j.does = "daemon_decompress" -> 16
    [] j.does = "host_compress"     -> 24
    [] j.does = "host_decompress"   -> IF Mute(j) THEN 25 ELSE IF Compares(j) THEN 26 ELSE 24

CheckAt(j) == IF Compares(j) THEN 24 ELSE 0

Late(j)  == j.does = "daemon_compress"   (* A failed fopen is remembered.  *)
After(j) == j.does = "host_compress"     (* Calls follow the writing.      *)

(* What the output and the answer depend on: only one row opens and only   *)
(* the next one writes, how these fail, and what is not looked at.         *)
Rows(p, last, open, check, late, after, over) ==
  /\ Len(p) = last
  /\ \A k \in 1 .. last : p[k].name = "open" <=> k = open
  /\ \A k \in 1 .. last : p[k].name = "write" <=> k = open + 1
  /\ \A k \in 1 .. last : p[k].onfail = "later" => k = open /\ late
  /\ \A k \in 1 .. last :
       /\ k = open => p[k].onfail = IF late THEN "later" ELSE "return"
       /\ k = open + 1 => p[k].onfail = IF late THEN "unseen" ELSE "return"
       /\ k > open + 1 /\ p[k].onfail \in {"return", "undefined"} => after
       /\ p[k].onfail \in {"trap", "undefined"} => k < open
  /\ \A k \in 1 .. last : p[k].onfail = "unseen" =>
       \/ p[k].name \in over
       \/ k < check /\ p[k].name \in {"read", "wait", "decode"}
  /\ \A k \in 1 .. last : k = check =>
       p[k].name = "verify" /\ p[k].onfail = "undefined"

RowsFit(j) ==
  Rows(Program(j), LastRow(j), OpenAt(j), CheckAt(j), Late(j), After(j), Overlooked(j))

(* Every function is such a sequence, with each of its options.            *)
LEMMA DaemonCompressRows ==
  Rows(DaemonCompressUpload \o DaemonCompressDownload, 24, 21, 0, TRUE, FALSE,
       {"close", "mapped", "write"})
BY DEF DaemonCompressUpload, DaemonCompressDownload, DownloadRows, Rows, Call, Try, Checked,
   Unseen, Later, Trap, Release

(* The daemon's decompression.                                             *)
LEMMA DaemonDecompressRows ==
  Rows(DaemonDecompress, 19, 16, 0, FALSE, FALSE, {"close", "decode"})
BY DEF DaemonDecompress, Rows, Call, Try, Checked, Unseen, Trap, Release

(* The host's compression, with and without --verify.                      *)
LEMMA HostCompressRows ==
  LET over == {"close", "read", "wait", "lengths", "verify"}
  IN /\ Rows(HostCompress({"verify"}), 29, 24, 0, FALSE, TRUE, over)
     /\ Rows(HostCompress({}), 26, 24, 0, FALSE, TRUE, over)
<1> DEFINE over == {"close", "read", "wait", "lengths", "verify"}
<1>1. Rows(HostCompress({"verify"}), 29, 24, 0, FALSE, TRUE, over)
  BY DEF HostCompress, Writing, Rows, Call, Exits, Checked, Unseen, Trap, Wild
<1>2. Rows(HostCompress({}), 26, 24, 0, FALSE, TRUE, over)
  BY DEF HostCompress, Writing, Rows, Call, Exits, Checked, Unseen, Trap, Wild
<1>3. QED
  BY <1>1, <1>2

(* The host's decompression, with no --verify, with it, and with it and -o. *)
LEMMA HostDecompressRows ==
  /\ Rows(HostDecode \o HostWrite({}), 26, 24, 0, FALSE, FALSE,
          {"close", "read", "wait", "decode"})
  /\ Rows(HostDecode \o HostWrite({"verify"}), 24, 25, 24, FALSE, FALSE, {"close"})
  /\ Rows(HostDecode \o HostWrite({"verify", "o"}), 28, 26, 24, FALSE, FALSE, {"close"})
<1>1. Rows(HostDecode \o HostWrite({}), 26, 24, 0, FALSE, FALSE,
           {"close", "read", "wait", "decode"})
  BY DEF HostDecode, HostWrite, Writing, Verification, NoOutput, Rows, Call, Exits, Checked,
     Unseen, Trap, Wild
<1>2. Rows(HostDecode \o HostWrite({"verify"}), 24, 25, 24, FALSE, FALSE, {"close"})
  BY DEF HostDecode, HostWrite, Writing, Verification, NoOutput, Rows, Call, Exits, Checked,
     Unseen, Trap, Wild
<1>3. Rows(HostDecode \o HostWrite({"verify", "o"}), 28, 26, 24, FALSE, FALSE, {"close"})
  BY DEF HostDecode, HostWrite, Writing, Verification, NoOutput, Rows, Call, Exits, Checked,
     Unseen, Trap, Wild
<1>4. QED
  BY <1>1, <1>2, <1>3

(* So the program of every job is one.                                     *)
LEMMA RowsFitAll ==
  ASSUME NEW j \in Jobs
  PROVE  RowsFit(j)
<1>1. /\ j.does \in {"daemon_compress", "daemon_decompress", "host_compress",
                     "host_decompress"}
      /\ j.options \in SUBSET {"verify", "o"}
  BY DEF Jobs
<1>2. CASE j.does = "daemon_compress"
  <2>1. Program(j) = DaemonCompressUpload \o DaemonCompressDownload
    BY <1>2 DEF Program
  <2>2. /\ LastRow(j) = 24 /\ OpenAt(j) = 21 /\ CheckAt(j) = 0
        /\ Late(j) = TRUE /\ After(j) = FALSE
        /\ Overlooked(j) = {"close", "mapped", "write"}
    BY <1>2 DEF LastRow, OpenAt, CheckAt, Late, After, Overlooked, Compares
  <2>3. QED
    BY <2>1, <2>2, DaemonCompressRows, Zenon DEF RowsFit
<1>3. CASE j.does = "daemon_decompress"
  <2>1. Program(j) = DaemonDecompress
    BY <1>3 DEF Program
  <2>2. /\ LastRow(j) = 19 /\ OpenAt(j) = 16 /\ CheckAt(j) = 0
        /\ Late(j) = FALSE /\ After(j) = FALSE
        /\ Overlooked(j) = {"close", "decode"}
    BY <1>3 DEF LastRow, OpenAt, CheckAt, Late, After, Overlooked, Compares
  <2>3. QED
    BY <2>1, <2>2, DaemonDecompressRows, Zenon DEF RowsFit
<1>4. CASE j.does = "host_compress"
  <2>1. /\ OpenAt(j) = 24 /\ CheckAt(j) = 0 /\ Late(j) = FALSE /\ After(j) = TRUE
        /\ Overlooked(j) = {"close", "read", "wait", "lengths", "verify"}
    BY <1>4 DEF OpenAt, CheckAt, Late, After, Overlooked, Compares
  <2>2. CASE "verify" \in j.options
    <3>1. Program(j) = HostCompress({"verify"}) /\ LastRow(j) = 29
      BY <1>4, <2>2 DEF Program, HostCompress, LastRow
    <3>2. QED
      BY <2>1, <3>1, HostCompressRows, Zenon DEF RowsFit
  <2>3. CASE "verify" \notin j.options
    <3>1. Program(j) = HostCompress({}) /\ LastRow(j) = 26
      BY <1>4, <2>3 DEF Program, HostCompress, LastRow
    <3>2. QED
      BY <2>1, <3>1, HostCompressRows, Zenon DEF RowsFit
  <2>4. QED
    BY <2>2, <2>3
<1>5. CASE j.does = "host_decompress"
  <2>1. Program(j) = HostDecode \o HostWrite(j.options)
    BY <1>5 DEF Program
  <2>2. Late(j) = FALSE /\ After(j) = FALSE
    BY <1>5 DEF Late, After
  <2>3. CASE "verify" \notin j.options
    <3>1. HostWrite(j.options) = HostWrite({})
      BY <2>3 DEF HostWrite, Verification, NoOutput
    <3>2. /\ LastRow(j) = 26 /\ OpenAt(j) = 24 /\ CheckAt(j) = 0
          /\ Overlooked(j) = {"close", "read", "wait", "decode"}
      BY <1>5, <2>3 DEF LastRow, OpenAt, CheckAt, Overlooked, Compares, Mute
    <3>3. QED
      BY <2>1, <2>2, <3>1, <3>2, HostDecompressRows, Zenon DEF RowsFit
  <2>4. CASE "verify" \in j.options /\ "o" \notin j.options
    <3>1. j.options = {"verify"}
      BY <1>1, <2>4
    <3>2. /\ LastRow(j) = 24 /\ OpenAt(j) = 25 /\ CheckAt(j) = 24
          /\ Overlooked(j) = {"close"}
      BY <1>5, <2>4 DEF LastRow, OpenAt, CheckAt, Overlooked, Compares, Mute
    <3>3. QED
      BY <2>1, <2>2, <3>1, <3>2, HostDecompressRows, Zenon DEF RowsFit
  <2>5. CASE "verify" \in j.options /\ "o" \in j.options
    <3>1. j.options = {"verify", "o"}
      BY <1>1, <2>5
    <3>2. /\ LastRow(j) = 28 /\ OpenAt(j) = 26 /\ CheckAt(j) = 24
          /\ Overlooked(j) = {"close"}
      BY <1>5, <2>5 DEF LastRow, OpenAt, CheckAt, Overlooked, Compares, Mute
    <3>3. QED
      BY <2>1, <2>2, <3>1, <3>2, HostDecompressRows, Zenon DEF RowsFit
  <2>6. QED
    BY <2>3, <2>4, <2>5
<1>6. QED
  BY <1>1, <1>2, <1>3, <1>4, <1>5

-----------------------------------------------------------------------------
(* How far a running job has come, with its output and with what went      *)
(* wrong unseen.                                                           *)
Progress ==
  /\ rc \in {"ok", "error"} /\ answer = "none" /\ lost = {}
  /\ rc = "error" => Late(job) /\ at > OpenAt(job) /\ output = "old"
  /\ at <= OpenAt(job) => output = "old"
  /\ at = OpenAt(job) + 1 /\ rc = "ok" => output = "open"
  /\ at > OpenAt(job) + 1 /\ rc = "ok" => output = "new" \/ "write" \in damage
  /\ damage \subseteq Overlooked(job) \union {"read", "wait", "decode"}
  /\ at > CheckAt(job) => damage \subseteq Overlooked(job)

Answered == OkMeansDone /\ FailureKeepsOutput

JobInv ==
  /\ job \in Jobs /\ at \in 0 .. LastRow(job) + 1
  /\ at = 0 => rc = "ok" /\ Answered
  /\ at > 0 => Progress

(* The numbers of the rows, for any job.                                   *)
LEMMA RowNumbers ==
  ASSUME NEW j \in Jobs
  PROVE  /\ LastRow(j) \in Nat /\ OpenAt(j) \in Nat \ {0} /\ CheckAt(j) \in Nat
         /\ CheckAt(j) <= LastRow(j)
         /\ LastRow(j) > OpenAt(j) \/ (NoOutput(j.options) /\ ~Compresses(j))
         /\ After(j) => "write" \notin Overlooked(j)
         /\ Late(j) => ~After(j)
<1>1. /\ j.does \in {"daemon_compress", "daemon_decompress", "host_compress",
                     "host_decompress"}
      /\ j.options \in SUBSET {"verify", "o"}
  BY DEF Jobs
<1>2. OpenAt(j) \in Nat \ {0} /\ CheckAt(j) \in Nat
  BY <1>1 DEF OpenAt, CheckAt
<1>3. LastRow(j) \in Nat /\ CheckAt(j) <= LastRow(j)
  BY <1>1 DEF LastRow, CheckAt, Compares
<1>4. LastRow(j) > OpenAt(j) \/ (NoOutput(j.options) /\ ~Compresses(j))
  BY <1>1 DEF LastRow, OpenAt, Compares, Mute, NoOutput, Compresses
<1>5. After(j) => "write" \notin Overlooked(j)
  BY <1>1 DEF After, Overlooked
<1>6. Late(j) => ~After(j)
  BY DEF Late, After
<1>7. QED
  BY <1>2, <1>3, <1>4, <1>5, <1>6

(* The row of a running job.                                               *)
LEMMA RowFacts ==
  ASSUME job \in Jobs, at \in Nat, Running
  PROVE  /\ at \in 1 .. LastRow(job)
         /\ Row.name = "open" <=> at = OpenAt(job)
         /\ Row.name = "write" <=> at = OpenAt(job) + 1
         /\ Row.onfail = "later" => at = OpenAt(job) /\ Late(job)
         /\ at = OpenAt(job) => Row.onfail = IF Late(job) THEN "later" ELSE "return"
         /\ at = OpenAt(job) + 1 => Row.onfail = IF Late(job) THEN "unseen" ELSE "return"
         /\ at > OpenAt(job) + 1 /\ Row.onfail \in {"return", "undefined"} => After(job)
         /\ Row.onfail \in {"trap", "undefined"} => at < OpenAt(job)
         /\ Row.onfail = "unseen" =>
              \/ Row.name \in Overlooked(job)
              \/ at < CheckAt(job) /\ Row.name \in {"read", "wait", "decode"}
         /\ at = CheckAt(job) => Row.name = "verify" /\ Row.onfail = "undefined"
<1>1. RowsFit(job)
  BY RowsFitAll
<1>2. at \in 1 .. LastRow(job)
  BY <1>1 DEF RowsFit, Rows, Running
<1>3. QED
  BY <1>1, <1>2 DEF RowsFit, Rows, Row

(* A call that succeeds takes the job one row on.                          *)
LEMMA SucceedStep ==
  ASSUME JobInv, Succeed
  PROVE  JobInv'
<1>1. /\ job \in Jobs /\ at \in Nat /\ at > 0 /\ Running /\ Progress
  BY DEF JobInv, Succeed, Running
<1>2. /\ at' = at + 1 /\ job' = job /\ UNCHANGED <<rc, damage, answer, cause, lost>>
      /\ ~MustFail
  BY DEF Succeed, input
<1>3. output' = CASE Row.name = "open"                      -> "open"
                  [] Row.name = "write" /\ output = "open" -> "new"
                  [] OTHER                                  -> output
  BY DEF Succeed
<1>4. /\ at \in 1 .. LastRow(job)
      /\ Row.name = "open" <=> at = OpenAt(job)
      /\ Row.name = "write" <=> at = OpenAt(job) + 1
      /\ at = CheckAt(job) => Row.name = "verify"
  BY <1>1, RowFacts
<1>5. LastRow(job) \in Nat /\ OpenAt(job) \in Nat /\ CheckAt(job) \in Nat
  BY <1>1, RowNumbers
<1>6. at' \in 0 .. LastRow(job) + 1 /\ at' > 0
  BY <1>2, <1>4, <1>5
<1>7. at' > CheckAt(job) => damage \subseteq Overlooked(job)
  <2>1. CASE at = CheckAt(job)
    <3>1. ~Compresses(job)
      BY <1>1, <1>4, <2>1 DEF CheckAt, Compares, Compresses
    <3>2. ~Wrong
      BY <1>2, <1>4, <2>1, <3>1 DEF MustFail
    <3>3. QED
      BY <1>1, <3>2 DEF Wrong, Progress
  <2>2. CASE at # CheckAt(job)
    BY <1>1, <1>2, <1>5, <2>2 DEF Progress
  <2>3. QED
    BY <2>1, <2>2
<1>8. /\ rc = "error" => output' = "old"
      /\ at' <= OpenAt(job) => output' = "old"
      /\ at' = OpenAt(job) + 1 /\ rc = "ok" => output' = "open"
      /\ at' > OpenAt(job) + 1 /\ rc = "ok" => output' = "new" \/ "write" \in damage
  BY <1>1, <1>2, <1>3, <1>4, <1>5 DEF Progress
<1>9. Progress'
  BY <1>1, <1>2, <1>5, <1>7, <1>8 DEF Progress
<1>10. QED
  BY <1>1, <1>2, <1>6, <1>9 DEF JobInv

(* A failure that is remembered: only that of the daemon's fopen.          *)
LEMMA FailLaterStep ==
  ASSUME JobInv, FailLater
  PROVE  JobInv'
<1>1. /\ job \in Jobs /\ at \in Nat /\ at > 0 /\ Running /\ Progress
      /\ Row.onfail = "later"
  BY DEF JobInv, FailLater, MayFail, Running
<1>2. /\ at' = at + 1 /\ job' = job /\ rc' = "error"
      /\ UNCHANGED <<damage, output, answer, lost>>
  BY DEF FailLater, input
<1>3. at \in 1 .. LastRow(job) /\ at = OpenAt(job) /\ Late(job)
  BY <1>1, RowFacts
<1>4. LastRow(job) \in Nat /\ OpenAt(job) \in Nat /\ CheckAt(job) = 0
  BY <1>1, <1>3, RowNumbers DEF CheckAt, Compares, Late
<1>5. Progress'
  BY <1>1, <1>2, <1>3, <1>4 DEF Progress
<1>6. QED
  BY <1>1, <1>2, <1>3, <1>4, <1>5 DEF JobInv

(* A failure nobody sees is one the code does not look at, or a wrong      *)
(* result that --verify is still to find.                                  *)
LEMMA FailUnseenStep ==
  ASSUME JobInv, FailUnseen
  PROVE  JobInv'
<1>1. /\ job \in Jobs /\ at \in Nat /\ at > 0 /\ Running /\ Progress
      /\ Row.onfail = "unseen" /\ rc = "ok"
  BY DEF JobInv, FailUnseen, MayFail, Running
<1>2. /\ at' = at + 1 /\ job' = job /\ damage' = damage \union {Row.name}
      /\ UNCHANGED <<rc, output, answer, lost>>
  BY DEF FailUnseen, input
<1>3. /\ at \in 1 .. LastRow(job) /\ at # OpenAt(job) /\ at # CheckAt(job)
      /\ at = OpenAt(job) + 1 => Row.name = "write"
      /\ \/ Row.name \in Overlooked(job)
         \/ at < CheckAt(job) /\ Row.name \in {"read", "wait", "decode"}
  BY <1>1, RowFacts
<1>4. LastRow(job) \in Nat /\ OpenAt(job) \in Nat /\ CheckAt(job) \in Nat
  BY <1>1, RowNumbers
<1>5. /\ damage' \subseteq Overlooked(job) \union {"read", "wait", "decode"}
      /\ at' > CheckAt(job) => damage' \subseteq Overlooked(job)
  BY <1>1, <1>2, <1>3, <1>4 DEF Progress
<1>6. at' > OpenAt(job) + 1 => output' = "new" \/ "write" \in damage'
  BY <1>1, <1>2, <1>3, <1>4 DEF Progress
<1>7. Progress'
  BY <1>1, <1>2, <1>3, <1>4, <1>5, <1>6 DEF Progress
<1>8. QED
  BY <1>1, <1>2, <1>3, <1>4, <1>7 DEF JobInv

(* A job that is over: what it answered is true.                           *)
LEMMA EndStep ==
  ASSUME JobInv, FailReturns \/ FailTraps \/ Answer
  PROVE  JobInv'
<1>1. /\ job \in Jobs /\ at \in Nat /\ at > 0 /\ Progress
  BY RowNumbers DEF JobInv, FailReturns, FailTraps, Answer, MayFail, Running
<1>2. /\ at' = 0 /\ job' = job /\ rc' = "ok" /\ UNCHANGED <<damage, output>>
  BY DEF FailReturns, FailTraps, Answer, End, input
<1>3. /\ LastRow(job) \in Nat /\ OpenAt(job) \in Nat /\ CheckAt(job) \in Nat
      /\ CheckAt(job) <= LastRow(job)
      /\ LastRow(job) > OpenAt(job) \/ (NoOutput(job.options) /\ ~Compresses(job))
      /\ After(job) => "write" \notin Overlooked(job)
      /\ Late(job) => ~After(job)
  BY <1>1, RowNumbers
<1>4. CASE FailReturns
  <2>1. /\ Running /\ Row.onfail \in {"return", "undefined"}
        /\ answer' = "error" /\ cause' = Row.name
    BY <1>4 DEF FailReturns, End, MayFail
  <2>2. /\ Row.name = "write" <=> at = OpenAt(job) + 1
        /\ at > OpenAt(job) + 1 => After(job)
    BY <1>1, <2>1, RowFacts
  <2>3. CASE at > OpenAt(job) + 1
    <3>1. /\ job.does = "host_compress" /\ rc = "ok"
      BY <1>1, <1>3, <2>2, <2>3 DEF After, Progress
    <3>2. at > CheckAt(job)
      BY <1>1, <3>1 DEF CheckAt, Compares
    <3>3. output = "new"
      BY <1>1, <1>3, <2>2, <2>3, <3>1, <3>2 DEF Progress
    <3>4. QED
      BY <1>1, <1>2, <1>3, <2>1, <3>1, <3>3
      DEF JobInv, Answered, OkMeansDone, FailureKeepsOutput
  <2>4. CASE ~(at > OpenAt(job) + 1)
    <3>1. output = "old" \/ Row.name = "write"
      BY <1>1, <1>3, <2>2, <2>4 DEF Progress
    <3>2. QED
      BY <1>1, <1>2, <1>3, <2>1, <3>1
      DEF JobInv, Answered, OkMeansDone, FailureKeepsOutput
  <2>5. QED
    BY <2>3, <2>4
<1>5. CASE FailTraps
  <2>1. answer' = "trap" /\ Running /\ Row.onfail \in {"trap", "undefined"}
    BY <1>5 DEF FailTraps, End, MayFail
  <2>2. at < OpenAt(job)
    BY <1>1, <2>1, RowFacts
  <2>3. output = "old"
    BY <1>1, <1>3, <2>2 DEF Progress
  <2>4. QED
    BY <1>1, <1>2, <1>3, <2>1, <2>3 DEF JobInv, Answered, OkMeansDone, FailureKeepsOutput
<1>6. CASE Answer
  <2>1. at = LastRow(job) + 1 /\ answer' = rc
    BY <1>1, <1>6, RowsFitAll DEF Answer, End, RowsFit, Rows
  <2>2. CASE rc = "error"
    <3>1. output = "old"
      BY <1>1, <2>2 DEF Progress
    <3>2. QED
      BY <1>1, <1>2, <1>3, <2>1, <2>2, <3>1
      DEF JobInv, Answered, OkMeansDone, FailureKeepsOutput
  <2>3. CASE rc = "ok"
    <3>1. damage \subseteq Overlooked(job)
      BY <1>1, <1>3, <2>1 DEF Progress
    <3>2. \/ output = "new" \/ "write" \in damage
          \/ NoOutput(job.options) /\ ~Compresses(job)
      BY <1>1, <1>3, <2>1, <2>3 DEF Progress
    <3>3. QED
      BY <1>1, <1>2, <1>3, <2>1, <2>3, <3>1, <3>2
      DEF JobInv, Answered, OkMeansDone, FailureKeepsOutput
  <2>4. QED
    BY <1>1, <2>2, <2>3 DEF Progress
<1>7. QED
  BY <1>4, <1>5, <1>6

-----------------------------------------------------------------------------
(* What a job of the daemon holds, row by row: an object is there from the *)
(* row after the one that gets it to the one that releases it.             *)
Objects(j) ==
  IF j.does = "daemon_compress"
  THEN {"in_buf", "d_in", "d_out", "d_len", "zero_buffer", "evt", "len_arr", "comp_buf"}
  ELSE {"lz_buf", "off_arr", "d_comp", "d_off", "d_out", "d_out_lens", "out_buf"}

Got(j, x) ==
  IF j.does = "daemon_compress"
  THEN CASE x = "in_buf" -> 1 [] x = "d_in" -> 3 [] x = "d_out" -> 4 [] x = "d_len" -> 5
         [] x = "zero_buffer" -> 7 [] x = "evt" -> 11 [] x = "len_arr" -> 14
         [] x = "comp_buf" -> 17
  ELSE CASE x = "lz_buf" -> 1 [] x = "off_arr" -> 3 [] x = "d_comp" -> 5 [] x = "d_off" -> 6
         [] x = "d_out" -> 7 [] x = "d_out_lens" -> 8 [] x = "out_buf" -> 14

Gone(j, x) ==
  CASE x = "zero_buffer" -> 9
    [] x = "evt"         -> 13
    [] OTHER             -> IF j.does = "daemon_compress" THEN 24 ELSE 19

Had(j, k) == {x \in Objects(j) : Got(j, x) < k /\ k <= Gone(j, x)}

Named == {"upload", "args", "launch", "unmap", "download"}

(* Each call changes that as the table says, no call frees what is not     *)
(* held, and one that returns from the middle frees all of it or is named. *)
Balanced(j) ==
  LET p == Program(j)
  IN /\ \A k \in 1 .. LastRow(j) :
          /\ p[k].onfail \in {"return", "unseen", "later", "trap", "never"}
          /\ p[k].frees \subseteq Had(j, k)
          /\ (Had(j, k) \union p[k].gets)
               \ (IF p[k].onfail = "never" THEN p[k].frees ELSE {}) = Had(j, k + 1)
          /\ p[k].onfail \in {"unseen", "later"} => Had(j, k) = Had(j, k + 1)
          /\ p[k].onfail = "return" => Had(j, k) \subseteq p[k].frees \/ p[k].name \in Named
     /\ Had(j, 1) = {} /\ Had(j, LastRow(j) + 1) = {}

(* This is so for both functions of the daemon.                            *)
LEMMA BalancedAll ==
  ASSUME NEW j \in Jobs, InDaemon(j)
  PROVE  Balanced(j)
<1>1. CASE j.does = "daemon_compress"
  <2>1. Program(j) = DaemonCompressUpload \o DaemonCompressDownload /\ LastRow(j) = 24
    BY <1>1 DEF Program, LastRow
  <2> DEFINE p == DaemonCompressUpload \o DaemonCompressDownload
  <2>2. \A k \in 1 .. 24 : p[k].onfail \in {"return", "unseen", "later", "trap", "never"}
    BY DEF DaemonCompressUpload, DaemonCompressDownload, DownloadRows, Device, Call,
       Try, Checked, Unseen, Later, Trap, Release, Had, Objects, Got, Gone, Named
  <2>3. \A k \in 1 .. 24 : p[k].frees \subseteq Had(j, k)
    BY <1>1 DEF DaemonCompressUpload, DaemonCompressDownload, DownloadRows, Device, Call,
       Try, Checked, Unseen, Later, Trap, Release, Had, Objects, Got, Gone, Named
  <2>4. \A k \in 1 .. 24 :
          (Had(j, k) \union p[k].gets)
            \ (IF p[k].onfail = "never" THEN p[k].frees ELSE {}) = Had(j, k + 1)
    BY <1>1 DEF DaemonCompressUpload, DaemonCompressDownload, DownloadRows, Device, Call,
       Try, Checked, Unseen, Later, Trap, Release, Had, Objects, Got, Gone, Named
  <2>5. \A k \in 1 .. 24 : p[k].onfail \in {"unseen", "later"} => Had(j, k) = Had(j, k + 1)
    BY <1>1 DEF DaemonCompressUpload, DaemonCompressDownload, DownloadRows, Device, Call,
       Try, Checked, Unseen, Later, Trap, Release, Had, Objects, Got, Gone, Named
  <2>6. \A k \in 1 .. 24 :
          p[k].onfail = "return" => Had(j, k) \subseteq p[k].frees \/ p[k].name \in Named
    BY <1>1 DEF DaemonCompressUpload, DaemonCompressDownload, DownloadRows, Device, Call,
       Try, Checked, Unseen, Later, Trap, Release, Had, Objects, Got, Gone, Named
  <2>7. Had(j, 1) = {} /\ Had(j, 24 + 1) = {}
    BY <1>1 DEF Had, Objects, Got, Gone
  <2> HIDE DEF p
  <2>8. Program(j) = p
    BY <2>1 DEF p
  <2>9. QED
    BY <2>1, <2>2, <2>3, <2>4, <2>5, <2>6, <2>7, <2>8 DEF Balanced
<1>2. CASE j.does = "daemon_decompress"
  <2>1. Program(j) = DaemonDecompress /\ LastRow(j) = 19
    BY <1>2 DEF Program, LastRow
  <2> DEFINE p == DaemonDecompress
  <2>2. \A k \in 1 .. 19 : p[k].onfail \in {"return", "unseen", "later", "trap", "never"}
    BY DEF DaemonDecompress, DeviceD, Host, Call, Try, Checked, Unseen, Trap, Release,
       Had, Objects, Got, Gone, Named
  <2>3. \A k \in 1 .. 19 : p[k].frees \subseteq Had(j, k)
    BY <1>2 DEF DaemonDecompress, DeviceD, Host, Call, Try, Checked, Unseen, Trap, Release,
       Had, Objects, Got, Gone, Named
  <2>4. \A k \in 1 .. 19 :
          (Had(j, k) \union p[k].gets)
            \ (IF p[k].onfail = "never" THEN p[k].frees ELSE {}) = Had(j, k + 1)
    BY <1>2 DEF DaemonDecompress, DeviceD, Host, Call, Try, Checked, Unseen, Trap, Release,
       Had, Objects, Got, Gone, Named
  <2>5. \A k \in 1 .. 19 : p[k].onfail \in {"unseen", "later"} => Had(j, k) = Had(j, k + 1)
    BY <1>2 DEF DaemonDecompress, DeviceD, Host, Call, Try, Checked, Unseen, Trap, Release,
       Had, Objects, Got, Gone, Named
  <2>6. \A k \in 1 .. 19 :
          p[k].onfail = "return" => Had(j, k) \subseteq p[k].frees \/ p[k].name \in Named
    BY <1>2 DEF DaemonDecompress, DeviceD, Host, Call, Try, Checked, Unseen, Trap, Release,
       Had, Objects, Got, Gone, Named
  <2>7. Had(j, 1) = {} /\ Had(j, 19 + 1) = {}
    BY <1>2 DEF Had, Objects, Got, Gone
  <2> HIDE DEF p
  <2>8. Program(j) = p
    BY <2>1 DEF p
  <2>9. QED
    BY <2>1, <2>2, <2>3, <2>4, <2>5, <2>6, <2>7, <2>8 DEF Balanced
<1>3. QED
  BY <1>1, <1>2 DEF InDaemon

(* A running job of the daemon holds what the table says.                  *)
Held ==
  /\ InDaemon(job) /\ at > 0 => held = Had(job, at) /\ lost = {}
  /\ at = 0 => held = {} /\ LossesNamed
  /\ ~InDaemon(job) => lost = {}

LEMMA HeldStep ==
  ASSUME JobInv, Held, Next
  PROVE  Held'
<1>1. CASE \E j \in Jobs, kind \in Kinds, size \in Sizes :
             Begin(j, kind, size)
  <2>1. PICK j \in Jobs, kind \in Kinds, size \in Sizes :
          Begin(j, kind, size)
    BY <1>1
  <2>2. /\ at = 0 /\ at' = 1 /\ job' = j /\ held' = held /\ lost' = {}
    BY <2>1 DEF Begin
  <2>3. held' = {}
    BY <2>2 DEF Held
  <2>4. InDaemon(j) => Had(j, 1) = {}
    BY BalancedAll DEF Balanced
  <2>5. QED
    BY <2>2, <2>3, <2>4 DEF Held
<1>2. ASSUME Running, at \in Nat, job' = job, at' = at + 1, lost' = lost,
             InDaemon(job) => held' = Had(job, at + 1)
      PROVE  Held'
  BY <1>2 DEF Held, Running
<1>3. ASSUME Running, InDaemon(job)
      PROVE  /\ at \in Nat /\ at > 0 /\ held = Had(job, at) /\ Balanced(job)
             /\ at \in 1 .. LastRow(job) /\ Row = Program(job)[at]
  <2>1. job \in Jobs /\ at \in 0 .. LastRow(job) + 1 /\ LastRow(job) \in Nat
    BY RowNumbers DEF JobInv
  <2>2. Balanced(job) /\ at \in 1 .. LastRow(job)
    BY <1>3, <2>1, BalancedAll, RowFacts
  <2>3. QED
    BY <1>3, <2>2 DEF Held, Row
<1>4. Running => at \in Nat
  BY RowNumbers DEF JobInv
<1>5. CASE Succeed
  <2>1. /\ Running /\ job' = job /\ at' = at + 1 /\ lost' = lost
        /\ held' = (held \union Row.gets)
                    \ (IF Row.onfail = "never" THEN Row.frees ELSE {})
    BY <1>5 DEF Succeed, input
  <2>2. InDaemon(job) => held' = Had(job, at + 1)
    BY <1>3, <2>1 DEF Balanced
  <2>3. QED
    BY <1>2, <1>4, <2>1, <2>2
<1>6. CASE FailLater \/ FailUnseen
  <2>1. /\ Running /\ job' = job /\ at' = at + 1 /\ lost' = lost /\ held' = held
        /\ Row.onfail \in {"unseen", "later"}
    BY <1>6 DEF FailLater, FailUnseen, MayFail, input
  <2>2. InDaemon(job) => held' = Had(job, at + 1)
    BY <1>3, <2>1 DEF Balanced
  <2>3. QED
    BY <1>2, <1>4, <2>1, <2>2
<1>7. ASSUME NEW kept, job' = job, at' = 0, held' = {},
             lost' = IF InDaemon(job) THEN kept ELSE {},
             InDaemon(job) => kept = {} \/ cause' \in Named
      PROVE  Held'
  BY <1>7 DEF Held, LossesNamed, Named
<1>8. CASE FailReturns
  <2>1. /\ Running /\ job' = job /\ at' = 0 /\ held' = {} /\ cause' = Row.name
        /\ lost' = IF InDaemon(job) THEN held \ Row.frees ELSE {}
        /\ Row.onfail \in {"return", "undefined"}
    BY <1>8 DEF FailReturns, MayFail, End, input
  <2>2. InDaemon(job) => held \ Row.frees = {} \/ Row.name \in Named
    BY <1>3, <2>1 DEF Balanced
  <2>3. QED
    BY <1>7, <2>1, <2>2
<1>9. CASE FailTraps
  <2>1. job' = job /\ at' = 0 /\ held' = {} /\ lost' = IF InDaemon(job) THEN {} ELSE {}
    BY <1>9 DEF FailTraps, End, input
  <2>2. QED
    BY <1>7, <2>1
<1>10. CASE Answer
  <2>1. /\ job' = job /\ at' = 0 /\ held' = {} /\ at = Len(Program(job)) + 1
        /\ lost' = IF InDaemon(job) THEN held ELSE {}
    BY <1>10 DEF Answer, End, input
  <2>2. job \in Jobs /\ LastRow(job) \in Nat /\ at = LastRow(job) + 1
    BY <2>1, RowNumbers, RowsFitAll DEF JobInv, RowsFit, Rows
  <2>3. InDaemon(job) => held = {}
    BY <2>2, BalancedAll DEF Balanced, Held
  <2>4. QED
    BY <1>7, <2>1, <2>3
<1>11. QED
  BY <1>1, <1>5, <1>6, <1>8, <1>9, <1>10 DEF Next

-----------------------------------------------------------------------------
(* The inductive invariant of the jobs.                                    *)
LEMMA JobInvHolds == Spec => [](JobInv /\ Held)
<1>1. Init => JobInv /\ Held
  BY RowNumbers DEF Init, JobInv, Held, Answered, OkMeansDone, FailureKeepsOutput, LossesNamed
<1>2. JobInv /\ Held /\ [Next]_vars => JobInv' /\ Held'
  <2> SUFFICES ASSUME JobInv, Held, [Next]_vars
               PROVE  JobInv' /\ Held'
    OBVIOUS
  <2>1. CASE UNCHANGED vars
    BY <2>1 DEF vars, input, JobInv, Held, Progress, Answered, OkMeansDone,
       FailureKeepsOutput, LossesNamed
  <2>2. CASE Next
    <3>1. Held'
      BY <2>2, HeldStep
    <3>2. ASSUME NEW j \in Jobs, NEW kind, NEW size, Begin(j, kind, size)
          PROVE  JobInv'
      <4>1. /\ at = 0 /\ at' = 1 /\ job' = j /\ damage' = {} /\ output' = "old"
            /\ answer' = "none" /\ lost' = {} /\ rc' = rc
        BY <3>2 DEF Begin
      <4>2. rc = "ok"
        BY <4>1 DEF JobInv
      <4>3. LastRow(j) \in Nat /\ OpenAt(j) \in Nat \ {0} /\ CheckAt(j) \in Nat
        BY RowNumbers
      <4>4. QED
        BY <4>1, <4>2, <4>3 DEF JobInv, Progress
    <3>3. JobInv'
      BY <2>2, <3>2, SucceedStep, FailLaterStep, FailUnseenStep, EndStep DEF Next
    <3>4. QED
      BY <3>1, <3>3
  <2>3. QED
    BY <2>1, <2>2
<1>3. QED
  BY <1>1, <1>2, PTL DEF Spec

(* No path of a request frees what it did not get, or gave back already.   *)
THEOREM JobReleasesHeld == Spec => []ReleasesHeld
<1>1. ASSUME JobInv, Held
      PROVE  ReleasesHeld
  <2> SUFFICES ASSUME Running, InDaemon(job)
               PROVE  Row.frees \subseteq held
    BY DEF ReleasesHeld
  <2>1. job \in Jobs /\ at \in Nat
    BY <1>1, RowNumbers DEF JobInv
  <2>2. at \in 1 .. LastRow(job) /\ Balanced(job)
    BY <2>1, RowFacts, BalancedAll
  <2>3. QED
    BY <1>1, <2>2 DEF Held, Balanced, Row, Running
<1>2. QED
  BY <1>1, JobInvHolds, PTL

(* A request costs the daemon memory only where CHECK returns from the     *)
(* middle of it, or the launch fails.                                      *)
THEOREM JobLossesNamed == Spec => []LossesNamed
<1>1. JobInv /\ Held => LossesNamed
  BY RowNumbers DEF JobInv, Held, LossesNamed
<1>2. QED
  BY <1>1, JobInvHolds, PTL

(* What a job that answered "done" left out is something the code does not *)
(* look at, and its output is complete but for that.                       *)
THEOREM JobOkMeansDone == Spec => []OkMeansDone
<1>1. JobInv /\ Held => OkMeansDone
  BY RowNumbers DEF JobInv, Answered, Progress, OkMeansDone
<1>2. QED
  BY <1>1, JobInvHolds, PTL

(* A job that fails leaves the old output alone, unless it failed while    *)
(* writing or, in a compression on the host, after it.                     *)
THEOREM JobFailureKeepsOutput == Spec => []FailureKeepsOutput
<1>1. JobInv /\ Held => FailureKeepsOutput
  BY RowNumbers DEF JobInv, Answered, Progress, FailureKeepsOutput
<1>2. QED
  BY <1>1, JobInvHolds, PTL

-----------------------------------------------------------------------------
(* The kernels: GpuKernels.                                                *)

Length(g) == SplitLength(shape.size, shape.blk, g)

KType ==
  /\ tools \in [writer : {"cpu", "gpu"}, reader : {"cpu", "gpu"}]
  /\ shape \in Shapes
  /\ stage \in {"compress", "gather", "index", "decompress", "done"}
  /\ todo \subseteq Items
  /\ lens \in [Items -> Nat]
  /\ next \in Items
  /\ place \in [0 .. Count -> Nat]
  /\ offs \in [0 .. Count -> Nat]

(* The loops start at the first block, and the end is reached when all     *)
(* items have run.                                                         *)
Staged ==
  /\ stage \notin {"gather", "index"} => next = 0
  /\ stage = "done" => todo = {}

(* Every item that has run left its whole stream in its region.            *)
Ran(g) == stage # "compress" \/ g \notin todo

Stored ==
  \A g \in Items : Ran(g) =>
    /\ lens[g] \in 1 .. Room
    /\ \A k \in 0 .. lens[g] - 1 :
         g * Room + k \in DOMAIN device /\ device[g * Room + k] = <<g, k>>

(* The streams copied so far stand in the archive one after the other.     *)
Copied == IF stage = "compress" THEN 0 ELSE IF stage = "gather" THEN next ELSE Count

Gathered ==
  /\ place[0] = 0
  /\ \A g \in 0 .. Copied : place[g] <= g * Room
  /\ \A g \in 0 .. Copied - 1 :
       /\ place[g + 1] = place[g] + lens[g]
       /\ place[g + 1] <= place[Copied]
       /\ \A k \in 0 .. lens[g] - 1 :
            place[g] + k \in DOMAIN payload /\ payload[place[g] + k] = <<g, k>>

(* The reader's table so far says where they are.                          *)
Known == IF stage \in {"compress", "gather"} THEN 0
         ELSE IF stage = "index" THEN next ELSE Count

Indexed == \A g \in 0 .. Known : offs[g] = place[g]

(* What was written is right, and complete for the items that have run.    *)
Correct ==
  /\ restored = [p \in DOMAIN restored |-> restored[p]]
  /\ \A p \in DOMAIN restored : p \in 0 .. shape.size - 1 /\ restored[p] = p

Covered ==
  stage \in {"decompress", "done"} =>
    \A g \in Items \ todo : \A j \in 0 .. Length(g) - 1 :
      g * shape.blk + j \in DOMAIN restored

KSafe == Staged /\ Stored /\ Gathered /\ Indexed /\ Correct /\ Covered

KInv == KType /\ (Fits => KSafe)

-----------------------------------------------------------------------------
(* A multiple of r, and the r places behind it, are below the next one.    *)
LEMMA Multiples ==
  ASSUME NEW r \in Nat \ {0}, NEW a \in Nat, NEW b \in Nat, a < b
  PROVE  a * r \in Nat /\ b * r \in Nat /\ a * r + r <= b * r
<1>1. a * r \in Nat /\ b * r \in Nat /\ (a + 1) * r = a * r + r
  OBVIOUS
<1>2. (a + 1) * r <= b * r
  OBVIOUS
<1>3. QED
  BY <1>1, <1>2

LEMMA ShapeFacts ==
  ASSUME shape \in Shapes
  PROVE  /\ shape.size \in Nat \ {0} /\ shape.blk \in Nat \ {0}
         /\ Count \in Nat \ {0} /\ Count = ChunkCount(shape.size, shape.blk)
         /\ Room \in Nat \ {0} /\ shape.blk <= Room
         /\ (Count - 1) * shape.blk < shape.size /\ Count * shape.blk >= shape.size
<1>1. shape.size \in Nat \ {0} /\ shape.blk \in Nat \ {0}
  BY KernelsAssumption
<1>2. Count = CeilDiv(shape.size, shape.blk)
  BY DEF Count, BlockCount
<1>3. /\ Count \in Nat \ {0}
      /\ (Count - 1) * shape.blk < shape.size /\ Count * shape.blk >= shape.size
  BY <1>1, <1>2, CeilDivBounds
<1>4. Count = ChunkCount(shape.size, shape.blk)
  BY <1>1, <1>2 DEF ChunkCount
<1>5. shape.blk \div 16 \in Nat
  BY <1>1
<1>6. Room \in Nat \ {0} /\ shape.blk <= Room
  BY <1>1, <1>5 DEF Room, Worst
<1>7. QED
  BY <1>1, <1>3, <1>4, <1>6

(* Block g lies inside the input, and its worst case inside a region.      *)
LEMMA BlockInside ==
  ASSUME shape \in Shapes, NEW g \in Items
  PROVE  /\ g * shape.blk \in Nat /\ g * Room \in Nat
         /\ Length(g) \in 1 .. shape.blk
         /\ g * shape.blk + Length(g) <= shape.size
         /\ Length(g) = shape.blk \/ g * shape.blk + Length(g) = shape.size
         /\ Worst(Length(g)) <= Room
         /\ RebuildLength(shape.size, shape.blk, Count, g) = Length(g)
<1> DEFINE n == ChunkCount(shape.size, shape.blk)
<1>1. shape.size \in Nat /\ shape.blk \in Nat \ {0} /\ n \in Nat \ {0} /\ n = Count
      /\ Room \in Nat
  BY ShapeFacts
<1>2. g \in 0 .. n - 1
  BY <1>1 DEF Items
<1>3. g * shape.blk \in Nat /\ g * Room \in Nat
  BY <1>1, <1>2
<1>4. /\ Length(g) \in 1 .. shape.blk
      /\ g + 1 < n => g * shape.blk + Length(g) = (g + 1) * shape.blk
      /\ g + 1 = n => g * shape.blk + Length(g) = shape.size
  BY <1>1, <1>2, ChunksTile DEF Length, SplitOffset
<1>5. RebuildLength(shape.size, shape.blk, Count, g) = Length(g)
  BY <1>1, <1>2, RebuildMatchesSplit DEF Length
<1>6. g * shape.blk + Length(g) <= shape.size
  <2>1. CASE g + 1 = n
    BY <2>1, <1>1, <1>4
  <2>2. CASE g + 1 < n
    <3>1. (g + 1) * shape.blk <= (n - 1) * shape.blk
      BY <2>2, <1>1, <1>2
    <3>2. (n - 1) * shape.blk < shape.size
      BY <1>1, ShapeFacts
    <3>3. (g + 1) * shape.blk \in Int /\ (n - 1) * shape.blk \in Int
      BY <1>1, <1>2
    <3>4. QED
      BY <2>2, <3>1, <3>2, <3>3, <1>1, <1>4
  <2>3. QED
    BY <2>1, <2>2, <1>1, <1>2
<1>7. Worst(Length(g)) <= Room
  <2>1. Length(g) \div 16 <= shape.blk \div 16 /\ Length(g) \div 16 \in Nat
        /\ shape.blk \div 16 \in Nat
    BY <1>1, <1>4
  <2>2. QED
    BY <2>1, <1>1, <1>4 DEF Room, Worst
<1>8. Length(g) = shape.blk \/ g * shape.blk + Length(g) = shape.size
  <2>1. Length(g) = shape.blk \/ Length(g) = shape.size - g * shape.blk
    BY DEF Length, SplitLength, SplitOffset
  <2>2. QED
    BY <2>1, <1>1, <1>3
<1>9. QED
  BY <1>3, <1>4, <1>5, <1>6, <1>7, <1>8

(* Where everything fits into a word, reckoning with words changes nothing.*)
LEMMA WordsSuffice ==
  ASSUME shape \in Shapes, Fits, NEW g \in Items
  PROVE  /\ g * Room + Room < Word
         /\ ItemFrom(g) = g * shape.blk /\ ItemLength(g) = Length(g)
         /\ ItemPlace(g) = g * Room /\ OutPlace(g) = g * shape.blk
<1>1. /\ shape.size \in Nat /\ shape.blk \in Nat \ {0} /\ Room \in Nat \ {0}
      /\ shape.blk <= Room /\ Count \in Nat \ {0} /\ g \in 0 .. Count - 1
  BY ShapeFacts DEF Items
<1>2. /\ g * shape.blk \in Nat /\ Length(g) \in 1 .. shape.blk
      /\ g * shape.blk + Length(g) <= shape.size
  BY BlockInside
<1>3. Count * Room < Word /\ Count * Room \in Nat /\ Word \in Nat
  BY <1>1, KernelsAssumption DEF Fits
<1>4. g * Room \in Nat /\ g * Room + Room <= Count * Room
  BY <1>1, Multiples
<1>5. g * shape.blk <= g * Room
  BY <1>1
<1>6. g * shape.blk + shape.blk < Word /\ g * Room < Word /\ g * Room + Room < Word
  <2> DEFINE t == g * shape.blk
             r == g * Room
             all == Count * Room
  <2>1. t \in Nat /\ r \in Nat /\ t <= r /\ r + Room <= all /\ all < Word
    BY <1>2, <1>3, <1>4, <1>5
  <2>2. /\ Word \in Nat /\ shape.blk \in Nat /\ Room \in Nat /\ shape.blk <= Room
        /\ all \in Nat
    BY <1>1, <1>3
  <2> HIDE DEF t, r, all
  <2>3. t + shape.blk < Word /\ r < Word /\ r + Room < Word
    BY <2>1, <2>2
  <2>4. QED
    BY <2>3 DEF t, r
<1>7. \A x \in Nat : x < Word => Wrap(x) = x
  BY KernelsAssumption DEF Wrap
<1>8. /\ Wrap(g * shape.blk) = g * shape.blk /\ Wrap(g * Room) = g * Room
      /\ Wrap(g * shape.blk + shape.blk) = g * shape.blk + shape.blk
  <2> DEFINE t == g * shape.blk
             r == g * Room
  <2>1. t \in Nat /\ r \in Nat /\ t + shape.blk \in Nat /\ t < Word
        /\ t + shape.blk < Word /\ r < Word
    BY <1>1, <1>2, <1>4, <1>6, KernelsAssumption
  <2> HIDE DEF t, r
  <2>2. Wrap(t) = t /\ Wrap(r) = r /\ Wrap(t + shape.blk) = t + shape.blk
    BY <2>1, <1>7
  <2>3. QED
    BY <2>2 DEF t, r
<1>9. ItemFrom(g) = g * shape.blk
  BY <1>8 DEF ItemFrom, SplitOffset
<1>10. ItemPlace(g) = g * Room /\ OutPlace(g) = g * shape.blk
  BY <1>8 DEF ItemPlace, HostPlace, OutPlace, RebuildOffset
<1>11. ItemLength(g) = Length(g)
  <2>1. CASE ~OnGpu(tools.writer)
    BY <2>1 DEF ItemLength, Length
  <2>2. CASE OnGpu(tools.writer) /\ g * shape.blk + shape.blk <= shape.size
    <3>1. ItemLength(g) = shape.blk
      BY <2>2, <1>8, <1>9 DEF ItemLength
    <3>2. Length(g) = shape.blk
      BY <2>2, <1>1, <1>2 DEF Length, SplitLength, SplitOffset
    <3>3. QED
      BY <3>1, <3>2
  <2>3. CASE OnGpu(tools.writer) /\ ~(g * shape.blk + shape.blk <= shape.size)
    <3>1. ItemLength(g) = Wrap(shape.size - g * shape.blk)
      BY <2>3, <1>8, <1>9 DEF ItemLength
    <3>2. shape.size - g * shape.blk \in Nat /\ shape.size - g * shape.blk < Word
      BY <2>3, <1>1, <1>2, <1>3, <1>6
    <3>3. Length(g) = shape.size - g * shape.blk
      BY <2>3, <1>1, <1>2 DEF Length, SplitLength, SplitOffset
    <3>4. QED
      BY <3>1, <3>2, <3>3, <1>7
  <2>4. QED
    BY <2>1, <2>2, <2>3
<1>12. QED
  BY <1>6, <1>9, <1>10, <1>11

-----------------------------------------------------------------------------
LEMMA KInitInv == KInit => KInv
<1> SUFFICES ASSUME KInit PROVE KInv
  OBVIOUS
<1>1. Count \in Nat \ {0} /\ 0 \in Items
  <2>1. Count \in Nat \ {0}
    BY ShapeFacts DEF KInit
  <2>2. QED
    BY <2>1 DEF Items
<1>2. KType
  BY <1>1 DEF KInit, KType
<1>3. Staged /\ Stored /\ Indexed
  BY <1>1 DEF KInit, Staged, Stored, Ran, Indexed, Known
<1>4. Gathered
  <2>1. place[0] = 0 /\ Room \in Nat
    BY <1>1, ShapeFacts DEF KInit
  <2>2. 0 <= 0 * Room
    BY <2>1
  <2>3. QED
    BY <1>1, <2>1, <2>2 DEF KInit, Gathered, Copied
<1>5. Correct /\ Covered
  BY DEF KInit, Correct, Covered
<1>6. QED
  BY <1>2, <1>3, <1>4, <1>5 DEF KInv, KSafe

(* The shape of the work never changes.                                    *)
LEMMA ShapeStays ==
  ASSUME [KNext]_kvars
  PROVE  /\ shape' = shape /\ tools' = tools
         /\ Count' = Count /\ Items' = Items /\ Room' = Room /\ (Fits <=> Fits')
         /\ \A g : Length(g)' = Length(g)
<1>1. shape' = shape /\ tools' = tools
  BY DEF KNext, kvars, CompressItem, DecompressItem, GatherBlock, IndexBlock, KOver
<1>2. Count' = Count /\ Room' = Room
  BY <1>1 DEF Count, Room
<1>3. QED
  BY <1>1, <1>2 DEF Items, Fits, Length

LEMMA KTypeStep ==
  ASSUME KType, [KNext]_kvars
  PROVE  KType'
<1>1. Count \in Nat \ {0} /\ Items = 0 .. Count - 1
  BY ShapeFacts DEF KType, Items
<1>2. shape' = shape /\ tools' = tools /\ Count' = Count /\ Items' = Items
  BY ShapeStays
<1>3. ASSUME NEW g \in Items, CompressItem(g)
      PROVE  KType'
  <2>1. PICK l \in Streams(g) : lens' = [lens EXCEPT ![g] = l]
    BY <1>3 DEF CompressItem
  <2>2. l \in Nat
    BY KernelsAssumption DEF Streams
  <2>3. lens' \in [Items -> Nat]
    BY <2>1, <2>2 DEF KType
  <2>4. QED
    BY <1>2, <1>3, <2>3 DEF KType, CompressItem
<1>4. ASSUME NEW g \in Items, DecompressItem(g)
      PROVE  KType'
  BY <1>2, <1>4 DEF KType, DecompressItem
<1>5. ASSUME NEW following \in {"index", "decompress"}, Round(following), KType
      PROVE  next' \in Items /\ stage' \in {stage, following}
  BY <1>1, <1>5 DEF Round, KType
<1>6. CASE GatherBlock
  <2>1. next' \in Items /\ stage' \in {stage, "index"}
    BY <1>5, <1>6 DEF GatherBlock
  <2>2. place[next] + lens[next] \in Nat
    BY <1>1 DEF KType
  <2>3. place' \in [0 .. Count -> Nat]
    BY <1>1, <1>6, <2>2 DEF GatherBlock, KType
  <2>4. QED
    BY <1>2, <1>6, <2>1, <2>3 DEF GatherBlock, KType
<1>7. CASE IndexBlock
  <2>1. next' \in Items /\ stage' \in {stage, "decompress"}
    BY <1>5, <1>7 DEF IndexBlock
  <2>2. offs[next] + lens[next] \in Nat
    BY <1>1 DEF KType
  <2>3. Wrap(offs[next] + lens[next]) \in Nat
    BY <2>2, KernelsAssumption DEF Wrap
  <2>4. offs' \in [0 .. Count -> Nat]
    BY <1>1, <1>7, <2>2, <2>3 DEF IndexBlock, KType
  <2>5. todo' \subseteq Items
    BY <1>7 DEF IndexBlock, KType
  <2>6. QED
    BY <1>2, <1>7, <2>1, <2>4, <2>5 DEF IndexBlock, KType
<1>8. CASE UNCHANGED kvars
  BY <1>2, <1>8 DEF kvars, KType
<1>9. QED
  BY <1>3, <1>4, <1>6, <1>7, <1>8 DEF KNext, KOver

LEMMA PutFacts ==
  ASSUME NEW new, NEW old
  PROVE  /\ Put(new, old) = [x \in DOMAIN Put(new, old) |-> Put(new, old)[x]]
         /\ \A x : x \in DOMAIN Put(new, old) <=> x \in DOMAIN new \/ x \in DOMAIN old
         /\ \A x \in DOMAIN new : Put(new, old)[x] = new[x]
         /\ \A x \in DOMAIN old : x \notin DOMAIN new => Put(new, old)[x] = old[x]
  BY DEF Put

(* An item that compresses writes its own region only: the regions of two  *)
(* items have no byte in common, so no stream that is there suffers.       *)
LEMMA CompressSafe ==
  ASSUME KType, Fits, KSafe, NEW g \in Items, CompressItem(g), [KNext]_kvars
  PROVE  KSafe'
<1>1. shape \in Shapes /\ stage = "compress" /\ g \in todo
  BY DEF KType, CompressItem
<1>2. /\ Count' = Count /\ Items' = Items /\ Room' = Room
      /\ \A h : Length(h)' = Length(h)
  BY ShapeStays
<1>3. Count \in Nat \ {0} /\ Room \in Nat \ {0}
  BY <1>1, ShapeFacts
<1>4. PICK l \in Streams(g) :
        /\ lens' = [lens EXCEPT ![g] = l]
        /\ device' = Put([c \in ItemPlace(g) .. ItemPlace(g) + l - 1
                            |-> <<g, c - ItemPlace(g)>>], device)
  BY DEF CompressItem
<1>5. l \in 1 .. Room
  <2>1. ItemLength(g) = Length(g) /\ Length(g) \in 1 .. shape.blk
        /\ Worst(Length(g)) <= Room
    BY <1>1, WordsSuffice, BlockInside
  <2>2. l \in StreamLengths /\ l <= Worst(Length(g))
    BY <2>1 DEF Streams
  <2>3. Worst(Length(g)) \in Int
    <3>1. shape.blk \in Nat
      BY <1>1, ShapeFacts
    <3>2. Length(g) \in Int
      BY <2>1, <3>1
    <3>3. QED
      BY <3>2 DEF Worst
  <2>4. QED
    BY <2>1, <2>2, <2>3, <1>3, KernelsAssumption
<1>6. ItemPlace(g) = g * Room /\ g * Room \in Nat
  BY <1>1, WordsSuffice, BlockInside
<1>7. stage' \in {"compress", "gather"} /\ next' = next /\ next = 0
  BY <1>1 DEF CompressItem, KSafe, Staged
<1>8. Stored'
  <2> SUFFICES ASSUME NEW h \in Items, Ran(h)'
               PROVE  /\ lens'[h] \in 1 .. Room
                      /\ \A k \in 0 .. lens'[h] - 1 :
                           /\ h * Room + k \in DOMAIN device'
                           /\ device'[h * Room + k] = <<h, k>>
    BY <1>2 DEF Stored
  <2>1. CASE h = g
    <3>1. lens'[h] = l
      BY <2>1, <1>4 DEF KType
    <3>2. ASSUME NEW k \in 0 .. l - 1
          PROVE  /\ g * Room + k \in DOMAIN device'
                 /\ device'[g * Room + k] = <<g, k>>
      <4> DEFINE at0 == g * Room
      <4>1. at0 \in Nat /\ ItemPlace(g) = at0
        BY <1>6
      <4> HIDE DEF at0
      <4>2. at0 + k \in at0 .. at0 + l - 1 /\ at0 + k - at0 = k
        BY <4>1, <1>5
      <4>3. at0 + k \in DOMAIN device' /\ device'[at0 + k] = <<g, k>>
        <5> DEFINE new == [c \in at0 .. at0 + l - 1 |-> <<g, c - at0>>]
        <5>1. device' = Put(new, device)
          BY <4>1, <1>4
        <5>2. at0 + k \in DOMAIN new /\ new[at0 + k] = <<g, k>>
          BY <4>1, <4>2
        <5> HIDE DEF new
        <5>3. QED
          BY <5>1, <5>2, PutFacts
      <4>4. QED
        BY <4>3 DEF at0
    <3>3. QED
      BY <2>1, <3>1, <3>2, <1>5
  <2>2. CASE h # g
    <3>1. h \notin todo
      BY <2>2, <1>1 DEF Ran, CompressItem
    <3>2. /\ lens[h] \in 1 .. Room
          /\ \A k \in 0 .. lens[h] - 1 :
               h * Room + k \in DOMAIN device /\ device[h * Room + k] = <<h, k>>
      BY <3>1 DEF KSafe, Stored, Ran
    <3>3. lens'[h] = lens[h]
      BY <2>2, <1>4 DEF KType
    <3>4. ASSUME NEW k \in 0 .. lens[h] - 1
          PROVE  /\ h * Room + k \in DOMAIN device'
                 /\ device'[h * Room + k] = <<h, k>>
      <4> DEFINE at0 == g * Room
                 at1 == h * Room
      <4>1. at0 \in Nat /\ at1 \in Nat /\ (at0 + Room <= at1 \/ at1 + Room <= at0)
        <5>1. g \in Nat /\ h \in Nat /\ (g < h \/ h < g)
          BY <2>2, <1>3 DEF Items
        <5>2. QED
          BY <5>1, <1>3, Multiples
      <4>2. ItemPlace(g) = at0
        BY <1>6
      <4>3. at1 + k \in DOMAIN device /\ device[at1 + k] = <<h, k>>
        BY <3>2
      <4> HIDE DEF at0, at1
      <4>4. at1 + k \notin at0 .. at0 + l - 1
        BY <4>1, <3>2, <1>3, <1>5
      <4>5. at1 + k \in DOMAIN device' /\ device'[at1 + k] = device[at1 + k]
        <5> DEFINE new == [c \in at0 .. at0 + l - 1 |-> <<g, c - at0>>]
        <5>1. device' = Put(new, device)
          BY <4>2, <1>4
        <5>2. at1 + k \notin DOMAIN new
          BY <4>4
        <5> HIDE DEF new
        <5>3. QED
          BY <4>3, <5>1, <5>2, PutFacts
      <4>6. QED
        BY <4>3, <4>5 DEF at1
    <3>5. QED
      BY <3>2, <3>3, <3>4
  <2>3. QED
    BY <2>1, <2>2
<1>9. Gathered' /\ Indexed'
  <2>1. Copied' = 0 /\ Known' = 0 /\ Copied = 0 /\ Known = 0
    BY <1>1, <1>7 DEF Copied, Known
  <2>2. place' = place /\ offs' = offs
    BY DEF CompressItem
  <2>3. QED
    BY <2>1, <2>2, <1>2 DEF KSafe, Gathered, Indexed
<1>10. Staged' /\ Correct' /\ Covered'
  <2>1. restored' = restored /\ shape' = shape
    BY DEF CompressItem
  <2>2. Staged' /\ Covered'
    BY <1>7 DEF Staged, Covered
  <2>3. QED
    BY <2>1, <2>2 DEF KSafe, Correct
<1>11. QED
  BY <1>8, <1>9, <1>10 DEF KSafe

(* A round of the copy appends the stream of one block; what was copied    *)
(* before lies below.                                                      *)
LEMMA GatherSafe ==
  ASSUME KType, Fits, KSafe, GatherBlock, [KNext]_kvars
  PROVE  KSafe'
<1> DEFINE n    == next
           from == place[n]
           new  == [c \in from .. from + lens[n] - 1
                      |-> DeviceCell(HostPlace(n) + (c - from))]
<1>1. shape \in Shapes /\ stage = "gather"
  BY DEF KType, GatherBlock
<1>2. /\ Count' = Count /\ Items' = Items /\ Room' = Room
      /\ \A h : Length(h)' = Length(h)
  BY ShapeStays
<1>3. Count \in Nat \ {0} /\ Room \in Nat \ {0} /\ n \in 0 .. Count - 1 /\ n \in Items
  BY <1>1, ShapeFacts DEF KType, Items
<1>4. place' = [place EXCEPT ![n + 1] = from + lens[n]] /\ payload' = Put(new, payload)
  BY DEF GatherBlock
<1>5. Copied = n /\ Copied' = n + 1
  <2>1. CASE n + 1 < Count
    BY <2>1, <1>1 DEF Copied, GatherBlock, Round
  <2>2. CASE ~(n + 1 < Count)
    BY <2>2, <1>1, <1>2, <1>3 DEF Copied, GatherBlock, Round
  <2>3. QED
    BY <2>1, <2>2
<1>6. /\ lens[n] \in 1 .. Room /\ n * Room \in Nat
      /\ \A k \in 0 .. lens[n] - 1 :
           n * Room + k \in DOMAIN device /\ device[n * Room + k] = <<n, k>>
  BY <1>1, <1>3, BlockInside DEF KSafe, Stored, Ran
<1>7. /\ place[0] = 0 /\ from \in Nat
      /\ \A g \in 0 .. n : place[g] <= g * Room
      /\ \A g \in 0 .. n - 1 :
           /\ place[g] \in Nat /\ place[g + 1] = place[g] + lens[g]
           /\ place[g + 1] <= from
           /\ \A k \in 0 .. lens[g] - 1 :
                place[g] + k \in DOMAIN payload /\ payload[place[g] + k] = <<g, k>>
  <2>1. /\ place[0] = 0
        /\ \A g \in 0 .. n : place[g] <= g * Room
        /\ \A g \in 0 .. n - 1 :
             /\ place[g + 1] = place[g] + lens[g]
             /\ place[g + 1] <= from
             /\ \A k \in 0 .. lens[g] - 1 :
                  place[g] + k \in DOMAIN payload /\ payload[place[g] + k] = <<g, k>>
    BY <1>5, Zenon DEF KSafe, Gathered
  <2>2. from \in Nat /\ \A g \in 0 .. n - 1 : place[g] \in Nat
    BY <1>3 DEF KType
  <2>3. QED
    BY <2>1, <2>2, Zenon
<1>8. /\ \A g \in 0 .. n : place'[g] = place[g]
      /\ place'[n + 1] = from + lens[n]
  BY <1>3, <1>4 DEF KType
<1>9. Gathered'
  <2>1. place'[0] = 0
    BY <1>3, <1>7, <1>8
  <2>2. ASSUME NEW g \in 0 .. n + 1
        PROVE  place'[g] <= g * Room
    <3>1. CASE g <= n
      BY <3>1, <1>3, <1>7, <1>8
    <3>2. CASE g = n + 1
      <4>1. g * Room = n * Room + Room
        BY <3>2, <1>3
      <4>2. from <= n * Room
        BY <1>3, <1>7
      <4>3. QED
        BY <3>2, <4>1, <4>2, <1>3, <1>6, <1>7, <1>8
    <3>3. QED
      BY <3>1, <3>2, <1>3
  <2>3. ASSUME NEW g \in 0 .. n
        PROVE  /\ place'[g + 1] = place'[g] + lens[g]
               /\ place'[g + 1] <= place'[n + 1]
               /\ \A k \in 0 .. lens[g] - 1 :
                    /\ place'[g] + k \in DOMAIN payload'
                    /\ payload'[place'[g] + k] = <<g, k>>
    <3>1. CASE g = n
      <4>1. place'[g] = from /\ place'[g + 1] = from + lens[n]
        BY <3>1, <1>3, <1>8
      <4>2. ASSUME NEW k \in 0 .. lens[n] - 1
            PROVE  from + k \in DOMAIN payload' /\ payload'[from + k] = <<n, k>>
        <5>1. from + k \in DOMAIN new /\ (from + k) - from = k
          BY <1>6, <1>7
        <5>2. new[from + k] = DeviceCell(HostPlace(n) + ((from + k) - from))
          BY <5>1
        <5>3. new[from + k] = <<n, k>>
          BY <5>1, <5>2, <1>6 DEF DeviceCell, HostPlace
        <5> HIDE DEF new
        <5>4. QED
          BY <5>1, <5>3, <1>4, PutFacts
      <4>3. QED
        BY <3>1, <4>1, <4>2, <1>6, <1>7
    <3>2. CASE g < n
      <4>1. g \in 0 .. n - 1 /\ g + 1 \in 0 .. n
        BY <3>2, <1>3
      <4>2. place'[g] = place[g] /\ place'[g + 1] = place[g + 1]
        BY <4>1, <1>3, <1>8
      <4>3. /\ place[g] \in Nat /\ place[g + 1] = place[g] + lens[g]
            /\ place[g + 1] <= from /\ lens[g] \in Nat
        <5>1. place[g] \in Nat /\ place[g + 1] = place[g] + lens[g] /\ place[g + 1] <= from
          BY <4>1, <1>7, Zenon
        <5>2. g \in Items
          BY <4>1, <1>3 DEF Items
        <5>3. lens[g] \in Nat
          BY <5>2 DEF KType
        <5>4. QED
          BY <5>1, <5>3
      <4>4. ASSUME NEW k \in 0 .. lens[g] - 1
            PROVE  /\ place[g] + k \in DOMAIN payload'
                   /\ payload'[place[g] + k] = <<g, k>>
        <5>1. place[g] + k \in DOMAIN payload /\ payload[place[g] + k] = <<g, k>>
          BY <4>1, <1>7
        <5>2. place[g] + k < from
          BY <4>3, <1>7
        <5>3. place[g] + k \notin DOMAIN new
          BY <4>3, <5>2, <1>7
        <5> HIDE DEF new
        <5>4. QED
          BY <5>1, <5>3, <1>4, PutFacts
      <4>5. from <= from + lens[n]
        BY <1>6, <1>7
      <4>6. QED
        BY <4>2, <4>3, <4>4, <4>5, <1>6, <1>7, <1>8
    <3>3. QED
      BY <3>1, <3>2, <1>3
  <2>4. lens' = lens /\ n + 1 \in Nat
    BY <1>3 DEF GatherBlock
  <2>5. \A g \in 0 .. (n + 1) - 1 : g \in 0 .. n
    BY <1>3
  <2>6. QED
    BY <2>1, <2>2, <2>3, <2>4, <2>5, <1>2, <1>5 DEF Gathered
<1>10. Stored'
  BY <1>1, <1>2 DEF GatherBlock, KSafe, Stored, Ran, Round
<1>11. Indexed' /\ Staged' /\ Covered' /\ Correct'
  <2>1. stage' \in {"gather", "index"} /\ (stage' = "index" => next' = 0)
    BY <1>1 DEF GatherBlock, Round
  <2>2. /\ Known = 0 /\ Known' = 0 /\ offs' = offs /\ restored' = restored
        /\ shape' = shape
    BY <1>1, <2>1 DEF Known, GatherBlock
  <2>3. place'[0] = place[0]
    BY <1>3, <1>8
  <2>4. QED
    BY <2>1, <2>2, <2>3 DEF KSafe, Indexed, Staged, Covered, Correct
<1>12. QED
  BY <1>9, <1>10, <1>11 DEF KSafe

(* A round of the reader's loop finds where the next stream begins.        *)
LEMMA IndexSafe ==
  ASSUME KType, Fits, KSafe, IndexBlock, [KNext]_kvars
  PROVE  KSafe'
<1> DEFINE n == next
<1>1. shape \in Shapes /\ stage = "index" /\ shape' = shape
  BY DEF KType, IndexBlock
<1>2. /\ Count' = Count /\ Items' = Items /\ Room' = Room
      /\ \A h : Length(h)' = Length(h)
  BY ShapeStays
<1>3. Count \in Nat \ {0} /\ Room \in Nat \ {0} /\ n \in 0 .. Count - 1 /\ n \in Items
  BY <1>1, ShapeFacts DEF KType, Items
<1>4. Copied = Count /\ Known = n /\ Known' = n + 1 /\ Copied' = Count
  <2>1. CASE n + 1 < Count
    BY <2>1, <1>1, <1>2 DEF Copied, Known, IndexBlock, Round
  <2>2. CASE ~(n + 1 < Count)
    BY <2>2, <1>1, <1>2, <1>3 DEF Copied, Known, IndexBlock, Round
  <2>3. QED
    BY <2>1, <2>2
<1>5. /\ place[n + 1] = place[n] + lens[n] /\ place[n] \in Nat /\ lens[n] \in Nat
      /\ place[n + 1] <= (n + 1) * Room
  BY <1>3, <1>4 DEF KSafe, Gathered, KType
<1>6. offs[n] = place[n]
  BY <1>3, <1>4 DEF KSafe, Indexed
<1>7. Wrap(place[n + 1]) = place[n + 1]
  <2>1. (n + 1) * Room = n * Room + Room /\ n * Room + Room < Word
        /\ n * Room + Room \in Nat
    BY <1>1, <1>3, WordsSuffice
  <2>2. place[n + 1] \in Nat /\ place[n + 1] < Word /\ Word \in Nat
    <3> DEFINE top == n * Room + Room
    <3>1. top \in Nat /\ top < Word /\ place[n + 1] <= top /\ Word \in Nat
      BY <2>1, <1>5, KernelsAssumption
    <3>2. place[n + 1] \in Nat
      BY <1>5
    <3> HIDE DEF top
    <3>3. QED
      BY <3>1, <3>2
  <2>3. QED
    BY <2>2, KernelsAssumption DEF Wrap
<1>8. offs' = [offs EXCEPT ![n + 1] = place[n + 1]]
  BY <1>5, <1>6, <1>7 DEF IndexBlock
<1>9. Indexed'
  <2> SUFFICES ASSUME NEW g \in 0 .. n + 1
               PROVE  offs'[g] = place'[g]
    BY <1>3, <1>4 DEF Indexed
  <2>1. place' = place
    BY DEF IndexBlock
  <2>2. CASE g = n + 1
    BY <2>1, <2>2, <1>3, <1>8 DEF KType
  <2>3. CASE g # n + 1
    <3>1. g \in 0 .. n
      BY <2>3, <1>3
    <3>2. offs'[g] = offs[g]
      BY <2>3, <3>1, <1>3, <1>8 DEF KType
    <3>3. QED
      BY <2>1, <3>1, <3>2, <1>4 DEF KSafe, Indexed
  <2>4. QED
    BY <2>2, <2>3
<1>10. Stored'
  BY <1>1, <1>2 DEF IndexBlock, KSafe, Stored, Ran, Round
<1>11. Gathered'
  BY <1>2, <1>4 DEF IndexBlock, KSafe, Gathered
<1>12. Staged' /\ Correct' /\ Covered'
  <2>1. \/ stage' = "index"
        \/ stage' = "decompress" /\ todo' = Items /\ next' = 0
    BY <1>1 DEF IndexBlock, Round
  <2>2. restored' = restored
    BY DEF IndexBlock
  <2>3. Staged' /\ Covered'
    BY <2>1, <1>2 DEF Staged, Covered
  <2>4. QED
    BY <2>2, <2>3, <1>1 DEF KSafe, Correct
<1>13. QED
  BY <1>9, <1>10, <1>11, <1>12 DEF KSafe

(* An item that decompresses finds its own stream and no other one, and    *)
(* puts the text of its block where it was.                                *)
LEMMA DecompressSafe ==
  ASSUME KType, Fits, KSafe, NEW g \in Items, DecompressItem(g), [KNext]_kvars
  PROVE  KSafe'
<1> DEFINE from == g * shape.blk
           new  == [p \in from .. from + Length(g) - 1 |-> from + (p - from)]
<1>1. shape \in Shapes /\ stage = "decompress" /\ g \in todo /\ shape' = shape
  BY DEF KType, DecompressItem
<1>2. /\ Count' = Count /\ Items' = Items /\ Room' = Room
      /\ \A h : Length(h)' = Length(h)
  BY ShapeStays
<1>3. Count \in Nat \ {0} /\ g \in 0 .. Count - 1 /\ Items = 0 .. Count - 1
      /\ shape.blk \in Nat \ {0} /\ shape.size \in Nat
  BY <1>1, ShapeFacts DEF Items
<1>4. stage' \in {"decompress", "done"} /\ next' = next /\ lens' = lens
      /\ device' = device /\ place' = place /\ payload' = payload /\ offs' = offs
      /\ todo' = todo \ {g} /\ (stage' = "done" => todo' = {})
  BY <1>1 DEF DecompressItem
<1>5. Copied = Count /\ Known = Count
  BY <1>1 DEF Copied, Known
<1>6. offs[g] = place[g] /\ offs[g + 1] = place[g + 1]
  BY <1>3, <1>5 DEF KSafe, Indexed
<1>7. /\ lens[g] \in Nat \ {0} /\ place[g] \in Nat /\ place[g + 1] = place[g] + lens[g]
      /\ \A k \in 0 .. lens[g] - 1 :
           place[g] + k \in DOMAIN payload /\ payload[place[g] + k] = <<g, k>>
  <2>1. lens[g] \in Nat \ {0}
    <3>1. Room \in Nat /\ lens[g] \in 1 .. Room
      BY <1>1, ShapeFacts DEF KSafe, Stored, Ran
    <3>2. QED
      BY <3>1
  <2>2. place[g] \in Nat
    BY <1>3 DEF KType
  <2>3. QED
    BY <2>1, <2>2, <1>3, <1>5 DEF KSafe, Gathered
<1>8. Decodes(g) = {g}
  <2>1. g \in Decodes(g)
    BY <1>6, <1>7 DEF Decodes
  <2>2. ASSUME NEW h \in Decodes(g)
        PROVE  h = g
    <3>1. h \in Items /\ lens[h] > 0 /\ lens[h] \in Nat
          /\ \A k \in 0 .. lens[h] - 1 : payload[offs[g] + k] = <<h, k>>
      BY DEF Decodes, KType
    <3>2. 0 \in 0 .. lens[h] - 1 /\ 0 \in 0 .. lens[g] - 1
      BY <3>1, <1>7
    <3>3. payload[place[g] + 0] = <<h, 0>> /\ payload[place[g] + 0] = <<g, 0>>
      BY <3>1, <3>2, <1>6, <1>7
    <3>4. QED
      BY <3>3
  <2>3. QED
    BY <2>1, <2>2
<1>9. /\ from \in Nat /\ Length(g) \in Nat \ {0}
      /\ from + Length(g) <= shape.size
  <2>1. /\ g * shape.blk \in Nat /\ Length(g) \in 1 .. shape.blk
        /\ g * shape.blk + Length(g) <= shape.size
    BY <1>1, BlockInside
  <2>2. Length(g) \in Nat \ {0}
    BY <2>1, <1>3
  <2>3. QED
    BY <2>1, <2>2
<1>10. Written(g, g) = Length(g)
  <2>1. ItemLength(g) = Length(g)
        /\ RebuildLength(shape.size, shape.blk, Count, g) = Length(g)
    BY <1>1, WordsSuffice, BlockInside
  <2>2. QED
    BY <2>1 DEF Written, AtMost
<1>11. restored' = Put(new, restored)
  <2>1. OutPlace(g) = from /\ ItemFrom(g) = from
    BY <1>1, WordsSuffice
  <2> HIDE DEF from
  <2>2. QED
    BY <2>1, <1>8, <1>10 DEF DecompressItem
<1>12. \A p \in DOMAIN new : p \in 0 .. shape.size - 1 /\ new[p] = p
  <2> HIDE DEF from
  <2>1. QED
    BY <1>3, <1>9
<1>13. Correct'
  <2> HIDE DEF new
  <2>1. restored' = [p \in DOMAIN restored' |-> restored'[p]]
    BY <1>11, PutFacts
  <2>2. ASSUME NEW p \in DOMAIN restored'
        PROVE  p \in 0 .. shape.size - 1 /\ restored'[p] = p
    <3>1. CASE p \in DOMAIN new
      BY <3>1, <1>11, <1>12, PutFacts
    <3>2. CASE p \notin DOMAIN new
      <4>1. p \in DOMAIN restored /\ restored'[p] = restored[p]
        BY <3>2, <1>11, PutFacts
      <4>2. QED
        BY <4>1 DEF KSafe, Correct
    <3>3. QED
      BY <3>1, <3>2
  <2>3. QED
    BY <2>1, <2>2, <1>1 DEF Correct
<1>14. Covered'
  <2> SUFFICES ASSUME NEW h \in Items \ todo', NEW j \in 0 .. Length(h) - 1
               PROVE  h * shape.blk + j \in DOMAIN restored'
    BY <1>1, <1>2 DEF Covered
  <2>1. CASE h = g
    <3>1. from + j \in DOMAIN new
      <4> HIDE DEF from
      <4>1. QED
        BY <2>1, <1>9
    <3> HIDE DEF new
    <3>2. QED
      BY <2>1, <3>1, <1>11, PutFacts
  <2>2. CASE h # g
    <3>1. h * shape.blk + j \in DOMAIN restored
      BY <2>2, <1>1, <1>4 DEF KSafe, Covered
    <3> HIDE DEF new
    <3>2. QED
      BY <3>1, <1>11, PutFacts
  <2>3. QED
    BY <2>1, <2>2
<1>15. Staged' /\ Stored' /\ Indexed'
  <2>1. Known' = Known
    BY <1>1, <1>2, <1>4 DEF Known
  <2>2. Stored'
    BY <1>1, <1>2, <1>4 DEF KSafe, Stored, Ran
  <2>3. Staged'
    BY <1>1, <1>4 DEF KSafe, Staged
  <2>4. Indexed'
    BY <2>1, <1>4 DEF KSafe, Indexed
  <2>5. QED
    BY <2>2, <2>3, <2>4
<1>16. Gathered'
  <2>1. Copied' = Copied
    BY <1>1, <1>2, <1>4 DEF Copied
  <2>2. QED
    BY <2>1, <1>2, <1>4 DEF KSafe, Gathered
<1>17. QED
  BY <1>13, <1>14, <1>15, <1>16 DEF KSafe

(* When all items have run every byte of the text belongs to one of them.  *)
LEMMA KInvRestores == KInv => Restores
<1> SUFFICES ASSUME KInv, stage = "done", Fits
             PROVE  restored = [p \in 0 .. shape.size - 1 |-> p]
  BY DEF Restores
<1>1. shape \in Shapes /\ Correct /\ Covered /\ todo = {}
  BY DEF KInv, KType, KSafe, Staged
<1>2. /\ shape.size \in Nat \ {0} /\ shape.blk \in Nat \ {0}
      /\ Count \in Nat \ {0} /\ Count * shape.blk >= shape.size
  BY <1>1, ShapeFacts
<1>3. ASSUME NEW p \in 0 .. shape.size - 1
      PROVE  p \in DOMAIN restored
  <2> DEFINE g == p \div shape.blk
             j == p - g * shape.blk
  <2>1. p \in Nat /\ p < shape.size
    BY <1>2
  <2>2. g \in Nat /\ g * shape.blk \in Nat /\ g * shape.blk <= p
        /\ p < g * shape.blk + shape.blk
    BY <2>1, <1>2
  <2> HIDE DEF g
  <2>3. g < Count
    <3>1. g * shape.blk < Count * shape.blk
      BY <2>1, <2>2, <1>2
    <3>2. QED
      BY <3>1, <2>2, <1>2
  <2>4. g \in Items
    BY <2>2, <2>3, <1>2 DEF Items
  <2>5. /\ Length(g) \in 1 .. shape.blk
        /\ Length(g) = shape.blk \/ g * shape.blk + Length(g) = shape.size
    BY <2>4, <1>1, BlockInside
  <2>6. j \in 0 .. Length(g) - 1 /\ g * shape.blk + j = p
    BY <2>1, <2>2, <2>5, <1>2
  <2>7. QED
    BY <2>4, <2>6, <1>1 DEF Covered
<1>4. DOMAIN restored = 0 .. shape.size - 1
  BY <1>1, <1>3 DEF Correct
<1>5. QED
  BY <1>1, <1>4 DEF Correct

(* No item reads or writes what is another's, so the order in which they   *)
(* run, on either side, is never seen in what comes out.                   *)
THEOREM KernelsRestore == KSpec => []Restores
<1>1. KInit => KInv
  BY KInitInv
<1>2. KInv /\ [KNext]_kvars => KInv'
  <2> SUFFICES ASSUME KInv, [KNext]_kvars PROVE KInv'
    OBVIOUS
  <2>1. KType /\ KType'
    BY KTypeStep DEF KInv
  <2>2. ASSUME Fits' PROVE KSafe'
    <3>1. Fits /\ KSafe
      BY <2>2, ShapeStays DEF KInv
    <3>2. ASSUME NEW g \in Items, CompressItem(g) PROVE KSafe'
      BY <2>1, <3>1, <3>2, CompressSafe
    <3>3. ASSUME NEW g \in Items, DecompressItem(g) PROVE KSafe'
      BY <2>1, <3>1, <3>3, DecompressSafe
    <3>4. CASE GatherBlock
      BY <2>1, <3>1, <3>4, GatherSafe
    <3>5. CASE IndexBlock
      BY <2>1, <3>1, <3>5, IndexSafe
    <3>6. CASE UNCHANGED kvars
      <4>1. Count' = Count /\ Items' = Items /\ Room' = Room
            /\ \A h : Length(h)' = Length(h)
        BY ShapeStays
      <4>2. /\ shape' = shape /\ stage' = stage /\ todo' = todo /\ lens' = lens
            /\ device' = device /\ next' = next /\ place' = place
            /\ payload' = payload /\ offs' = offs /\ restored' = restored
        BY <3>6 DEF kvars
      <4>3. Stored' /\ Staged' /\ Correct'
        BY <3>1, <4>1, <4>2 DEF KSafe, Stored, Ran, Staged, Correct
      <4>4. Covered'
        BY <3>1, <4>1, <4>2 DEF KSafe, Covered
      <4>5. Copied' = Copied /\ Known' = Known
        BY <4>1, <4>2 DEF Copied, Known
      <4>6. Gathered' /\ Indexed'
        BY <3>1, <4>1, <4>2, <4>5 DEF KSafe, Gathered, Indexed
      <4>7. QED
        BY <4>3, <4>4, <4>6 DEF KSafe
    <3>7. QED
      BY <3>2, <3>3, <3>4, <3>5, <3>6 DEF KNext, KOver
  <2>3. QED
    BY <2>1, <2>2 DEF KInv
<1>3. KInv => Restores
  BY KInvRestores
<1>4. QED
  BY <1>1, <1>2, <1>3, PTL DEF KSpec
=============================================================================
