------------------------------- MODULE GpuJob -------------------------------
(***************************************************************************)
(* One compression or decompression on the GPU, as the daemon runs it for  *)
(* a request (lzo_gpu/daemon_compress.c, lzo_gpu/daemon_decompress.c) and  *)
(* as the host tool runs it once (lzo_gpu/lzo_host.c).                     *)
(*                                                                         *)
(* Each of the four functions is a sequence of calls.  What they differ in *)
(* is what each call leaves behind and what happens when it fails, so a    *)
(* function is a sequence of records, in the order of its lines, and one   *)
(* action is one call.  The daemon goes on after a job, with whatever the  *)
(* job did not release; the host tool's process ends.                      *)
(***************************************************************************)
EXTENDS GpuBlocking, Sequences

CONSTANTS
  Sizes,    (* Sizes of inputs, 0 among them.                              *)
  Units     (* Numbers of compute units of devices.                        *)

ASSUME JobAssumption == Sizes \subseteq Nat /\ Units \subseteq Nat \ {0}

VARIABLES
  job,      (* The function that runs, or ran last, and its options.       *)
  source,   (* The input: one of Kinds, and its size.                      *)
  at,       (* The call to make next, 0 between jobs.                      *)
  blocks,   (* Block size and count, <<0, 0>> before they are chosen.      *)
  held,     (* Buffers, mappings and events the job has and must release.  *)
  rc,       (* What a failure that is not returned at once left in ret.    *)
  damage,   (* The failures nobody noticed.                                *)
  output,   (* The output file: "old", "open" (cut to 0), "new".           *)
  answer,   (* What the last job answered; "none" while one runs.          *)
  cause,    (* The call whose failure made the answer an error.            *)
  lost      (* What the last job never released.                           *)

input == <<job, source>>
vars  == <<input, at, blocks, held, rc, damage, output, answer, cause, lost>>

-----------------------------------------------------------------------------
(* A call: what it adds to `held`, what the code does if it fails, and     *)
(* what it frees then; Release is a call that cannot fail, and frees.      *)
Call(name, gets, onfail, frees) ==
  [name |-> name, gets |-> gets, onfail |-> onfail, frees |-> frees]

Try(name, gets, frees) == Call(name, gets, "return", frees)
Checked(name)          == Call(name, {}, "return", {})   (* CHECK in the daemon *)
Exits(name, gets)      == Call(name, gets, "return", {}) (* CHECK in the host   *)
Unseen(name)           == Call(name, {}, "unseen", {})
Later(name)            == Call(name, {}, "later", {})
Trap(name, gets)       == Call(name, gets, "trap", {})
Wild(name)             == Call(name, {}, "undefined", {})
Release(objects)       == Call("release", {}, "never", objects)

(* daemon_compress.  Its CHECK returns without releasing anything; so does *)
(* a failed launch, but for the input.  d_out is mapped up to the total of *)
(* the compressed lengths and read at multiples of the worst length.       *)
Device == {"d_in", "d_out", "d_len"}

DaemonCompressUpload ==
  << Try("read", {"in_buf"}, {}),
     Trap("blocking", {}),
     Try("create", {"d_in"}, {"in_buf"}),
     Try("create", {"d_out"}, {"d_in", "in_buf"}),
     Try("create", {"d_len"}, {"d_in", "d_out", "in_buf"}),
     Checked("upload"),
     Call("zero", {"zero_buffer"}, "never", {}),
     Checked("upload"),
     Release({"zero_buffer"}),
     Checked("args") >>

DownloadRows(onWait, onMap) ==
  << Try("launch", {"evt"}, {"in_buf"}),
     Try("wait", {}, onWait),
     Release({"evt"}),
     Trap("malloc", {"len_arr"}),
     Try("map", {}, onMap),
     Checked("unmap"),
     Trap("malloc", {"comp_buf"}),
     Try("map", {}, Device \union {"in_buf", "len_arr", "comp_buf"}),
     Unseen("mapped"),
     Checked("unmap"),
     Later("open"), Unseen("write"), Unseen("close"),
     Release(Device \union {"in_buf", "len_arr", "comp_buf"}) >>

(* Slips: a failed wait keeps the event; a failed mapping frees a buffer   *)
(* that is not there yet.                                                  *)
DownloadKeepsEvent ==
  DownloadRows(Device \union {"in_buf"}, Device \union {"in_buf", "len_arr"})
DownloadFreesEarly ==
  DownloadRows(Device \union {"in_buf", "evt"},
               Device \union {"in_buf", "len_arr", "comp_buf"})

DaemonCompressDownload ==
  DownloadRows(Device \union {"in_buf", "evt"}, Device \union {"in_buf", "len_arr"})

(* daemon_decompress.  The header and the table are read without asking    *)
(* how long the file is, which may trap when it ends before them.  The     *)
(* lengths the kernel stores are never read, so a block that does not      *)
(* decode passes.                                                          *)
DeviceD == {"d_comp", "d_off", "d_out", "d_out_lens"}
Host    == {"lz_buf", "off_arr"}

DaemonDecompress ==
  << Try("read", {"lz_buf"}, {}),
     Try("magic", {}, {"lz_buf"}),
     Trap("malloc", {"off_arr"}),
     Trap("table", {}),
     Try("create", {"d_comp"}, Host),
     Try("create", {"d_off"}, Host \union {"d_comp"}),
     Try("create", {"d_out"}, Host \union {"d_comp", "d_off"}),
     Try("create", {"d_out_lens"}, Host \union {"d_comp", "d_off", "d_out"}),
     Checked("upload"), Checked("upload"), Checked("args"), Checked("launch"),
     Unseen("decode"),
     Try("malloc", {"out_buf"}, DeviceD \union Host),
     Checked("download"),
     Try("open", {}, DeviceD \union Host \union {"out_buf"}),
     Try("write", {}, DeviceD \union Host \union {"out_buf"}),
     Unseen("close"),
     Release(DeviceD \union Host \union {"out_buf"}) >>

(* lzo_host.c, decompression: --verify compares before anything is written *)
(* and, without -o, instead of writing; -o must not name the reference.    *)
(* After a difference the place of the first is looked for, to the end of  *)
(* the output, in a reference that may be shorter: undefined.              *)
HostDecode ==
  << Exits("open_input", {}), Trap("malloc", {"lz_buf"}), Unseen("read"),
     Exits("magic", {}), Trap("malloc", {"off_arr"}), Trap("table", {}),
     Exits("device", {}), Exits("kernel", {}),
     Checked("create"), Checked("map"), Checked("unmap"),
     Checked("create"), Checked("map"), Checked("unmap"),
     Checked("create"), Checked("create"), Checked("args"), Checked("launch"),
     Unseen("wait"), Unseen("decode"), Trap("malloc", {}),
     Exits("map", {}), Exits("unmap", {}) >>

Verification(options, row) == IF "verify" \in options THEN << row >> ELSE <<>>
Writing == << Exits("open", {}), Exits("write", {}), Unseen("close") >>
NoOutput(options) == "verify" \in options /\ "o" \notin options

(* Slips: the file is written, then verified; a mismatch is only printed. *)
HostWriteFirst(options) ==
  (IF NoOutput(options) THEN <<>> ELSE Writing)
  \o Verification(options, Exits("verify", {}))
HostVerifyPrints(options) ==
  Verification(options, Unseen("verify"))
  \o (IF NoOutput(options) THEN <<>> ELSE Writing)

HostWrite(options) ==
  Verification(options, Wild("verify"))
  \o (IF NoOutput(options) THEN <<>>
      ELSE Verification(options, Exits("same_path", {})) \o Writing)

(* lzo_host.c, compression: verified after it was written, and a failed    *)
(* verification is only printed.  A kernel that stores no lengths makes    *)
(* the host guess them from the output, or give up; when it gives up it    *)
(* frees the mapping of the output with free(), which is undefined.        *)
HostCompress(options) ==
  << Exits("open_input", {}), Trap("malloc", {"in_buf"}), Unseen("read"),
     Exits("device", {}), Exits("level", {}), Exits("kernel", {}), Trap("blocking", {}),
     Checked("create"), Checked("map"), Checked("unmap"), Checked("create"),
     Checked("create"), Checked("args"), Checked("launch"),
     Unseen("wait"), Trap("malloc", {}), Exits("map", {}), Exits("unmap", {}),
     Exits("map", {}), Unseen("lengths"), Wild("guess"), Wild("malloc"),
     Exits("unmap", {}) >>
  \o Writing
  \o (IF "verify" \in options
      THEN << Exits("kernel", {}), Exits("verify_run", {}), Unseen("verify") >>
      ELSE <<>>)

Jobs == [does : {"daemon_compress", "daemon_decompress"}, options : {{}}]
        \union [does : {"host_compress", "host_decompress"},
                options : SUBSET {"verify", "o"}]

InDaemon(j)   == j.does \in {"daemon_compress", "daemon_decompress"}
Compresses(j) == j.does \in {"daemon_compress", "host_compress"}

Program(j) ==
  CASE j.does = "daemon_compress"   -> DaemonCompressUpload \o DaemonCompressDownload
    [] j.does = "daemon_decompress" -> DaemonDecompress
    [] j.does = "host_compress"     -> HostCompress(j.options)
    [] j.does = "host_decompress"   -> HostDecode \o HostWrite(j.options)

-----------------------------------------------------------------------------
Init ==
  /\ job \in Jobs /\ source = [kind |-> "data", size |-> 0]
  /\ at = 0 /\ blocks = <<0, 0>>
  /\ held = {} /\ lost = {}
  /\ rc = "ok" /\ damage = {} /\ output = "old"
  /\ answer = "none" /\ cause = "none"

(* What a compression reads is data; an archive may be "foreign" (without  *)
(* the magic), "broken" (its blocks do not decode) or "short" (it ends     *)
(* before its table does).                                                 *)
Kinds == {"data", "foreign", "broken", "short"}

(* A request arrives, or the tool is started. *)
Begin(j, kind, size) ==
  /\ at = 0
  /\ IF Compresses(j) THEN kind = "data" ELSE size = 0
  /\ job' = j
  /\ source' = [kind |-> kind, size |-> size]
  /\ at' = 1 /\ blocks' = <<0, 0>>
  /\ damage' = {} /\ output' = "old" /\ answer' = "none" /\ cause' = "none"
  /\ lost' = {}
  /\ UNCHANGED <<held, rc>>

Running == at \in 1 .. Len(Program(job))
Row     == Program(job)[at]

(* The data decides some failures; anything else may fail at any time.     *)
(* What a short archive has after its table is less than nothing, more     *)
(* than any device gives.  What did not come out right differs from the    *)
(* reference.                                                              *)
Wrong == damage \intersect {"read", "wait", "decode"} # {}
MustFail ==
  \/ Row.name = "blocking" /\ source.size = 0
  \/ Row.name = "magic" /\ source.kind = "foreign"
  \/ Row.name = "create" /\ source.kind = "short"
  \/ Row.name = "decode" /\ source.kind = "broken"
  \/ Row.name = "verify" /\ ~Compresses(job) /\ Wrong

CannotFail ==
  \/ Row.onfail = "never"
  \/ Row.name = "blocking" /\ source.size > 0
  \/ Row.name = "magic" /\ source.kind \notin {"foreign", "short"}
  \/ Row.name = "table" /\ source.kind # "short"
  \/ Row.name = "decode" /\ source.kind # "broken"
  \/ Row.name = "mapped" /\ blocks[2] = 1
  \/ Row.name = "guess" /\ "lengths" \notin damage
  \/ Row.name = "verify" /\ Compresses(job) /\ damage = {}

MayFail(how) == Running /\ ~CannotFail /\ Row.onfail \in how

Layout(units, forced) ==
  LET blk == IF InDaemon(job) THEN DaemonBlockSize(source.size, units)
             ELSE HostBlockSize(source.size, units, forced)
  IN <<blk, BlockCount(source.size, blk)>>

(* A call succeeds.  After a failed fopen there is nothing to write.       *)
Succeed ==
  /\ Running /\ ~MustFail
  /\ held' = (held \union Row.gets)
             \ (IF Row.onfail = "never" THEN Row.frees ELSE {})
  /\ output' = CASE Row.name = "open"                      -> "open"
                 [] Row.name = "write" /\ output = "open" -> "new"
                 [] OTHER                                  -> output
  /\ IF Row.name = "blocking"
     THEN \E units \in Units, forced \in {0} \union Units :
            blocks' = Layout(units, forced)
     ELSE UNCHANGED blocks
  /\ at' = at + 1
  /\ UNCHANGED <<input, rc, damage, answer, cause, lost>>

(* The job is over: what is still held is lost, if the process lives on.   *)
End(status, why, kept) ==
  /\ at' = 0 /\ held' = {} /\ rc' = "ok" /\ answer' = status /\ cause' = why
  /\ lost' = IF InDaemon(job) THEN kept ELSE {}
  /\ UNCHANGED <<input, blocks, damage, output>>

FailReturns ==
  /\ MayFail({"return", "undefined"})
  /\ End("error", Row.name, held \ Row.frees)

FailTraps == MayFail({"trap", "undefined"}) /\ End("trap", Row.name, {})

FailLater ==
  /\ MayFail({"later"})
  /\ rc' = "error" /\ cause' = Row.name
  /\ at' = at + 1
  /\ UNCHANGED <<input, blocks, held, damage, output, answer, lost>>

FailUnseen ==
  /\ MayFail({"unseen"}) /\ rc = "ok"
  /\ damage' = damage \union {Row.name}
  /\ at' = at + 1
  /\ UNCHANGED <<input, blocks, held, rc, output, answer, cause, lost>>

Answer == at = Len(Program(job)) + 1 /\ End(rc, cause, held)

Next ==
  \/ \E j \in Jobs, kind \in Kinds, size \in Sizes :
       Begin(j, kind, size)
  \/ Succeed \/ FailReturns \/ FailTraps \/ FailLater \/ FailUnseen \/ Answer

Spec == Init /\ [][Next]_vars

-----------------------------------------------------------------------------
(* No path of a request frees what it did not get, or gave back already.   *)
ReleasesHeld == Running /\ InDaemon(job) => Row.frees \subseteq held

(* A request costs the daemon memory only where CHECK returns from the     *)
(* middle of it, or the launch fails: every other return gives all of it   *)
(* back, also those half way through the allocations.                      *)
LossesNamed ==
  lost # {} => cause \in {"upload", "args", "launch", "unmap", "download"}

(* "Done" means that the output is complete, but for what the code does    *)
(* not look at: the reading past the mapping, write errors of the daemon's *)
(* compression, blocks that do not decode, fclose, the host's fread and    *)
(* clWaitForEvents, and the host's own verification of a compression.      *)
(* What passed a decompression with --verify did come out right.           *)
Overlooked(j) ==
  {"close"} \union
  (CASE j.does = "daemon_compress"   -> {"mapped", "write"}
     [] j.does = "daemon_decompress" -> {"decode"}
     [] j.does = "host_compress"     -> {"read", "wait", "lengths", "verify"}
     [] j.does = "host_decompress"   ->
          IF "verify" \in j.options THEN {} ELSE {"read", "wait", "decode"})

OkMeansDone ==
  answer = "ok" =>
    /\ damage \subseteq Overlooked(job)
    /\ \/ "write" \in damage
       \/ NoOutput(job.options) /\ ~Compresses(job)
       \/ output = "new"

(* A job that fails, or dies of a trap, leaves the old output as it was,   *)
(* unless it failed while writing, or after it, as only a compression by   *)
(* the host can: a failed --verify of a decompression never costs the      *)
(* file, and neither does an empty input or memory that is refused.        *)
FailureKeepsOutput ==
  answer \in {"error", "trap"} /\ output # "old" =>
    cause = "write" \/ (job.does = "host_compress" /\ output = "new")

(* The blocks are within the limits and cover the input, none is empty.    *)
BlocksFit ==
  blocks # <<0, 0>> =>
    /\ blocks[1] \in MinBlock .. MaxBlock
    /\ blocks[1] * blocks[2] >= source.size
    /\ blocks[1] * (blocks[2] - 1) < source.size
=============================================================================
