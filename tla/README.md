# Verification of lzo-2.10: the CPU and GPU drivers and the codec

This directory holds TLA+ models of the programs of this repository, the TLC
configurations that check them on small instances, and proofs, checked by
TLAPS, of what holds for every size. Run everything from here:

    tlc -config MCFragPool.cfg MCFragPool.tla
    tlapm FragPool_proofs.tla

## The system

The repository is the LZO data compression library (`src/src`) with drivers of
its own: a threaded command line tool for the CPU (`src/lzo_cpu/lzo_frag.c`)
and OpenCL tools for the GPU (`src/lzo_gpu`), among them a daemon that keeps
the OpenCL context alive and a client that talks to it over a Unix socket.
All of them read and write the same container: magic, input size, block size,
block count, a table of compressed lengths, the compressed blocks.

| part | state | operations | hard behaviour | status |
|---|---|---|---|---|
| worker pool, `decompress_multi` / `decompress_worker` | job record on the caller's stack: atomic cursor `next_index`, atomic `status`; thread handles; each worker's claimed index | create, join, fetch-and-add, status check, decompress a block, return | any interleaving of workers, several failures at once, `pthread_create` failing unnoticed | `FragPool`, proved |
| `compress_multi` / `compress_worker` | the same, and the chunk array, one output buffer per chunk, one workspace per thread | split, preallocate, the pool, clean-up or hand-over | a refused allocation half way; clean-up while workers run | `FragCompress`, proved |
| container arithmetic | none | block size, split, reconstruction from the header | borders: empty, below the minimum, above the maximum, last block | `FragLayout`, proved |
| `compress_file` / `decompress_file`, `read_entire`, `write_entire` | files on disk, buffers in memory | read, compress, pack, verify, open, write, close; read, parse, decompress, write | a kill or a failure between any two steps; errors nobody looks at | `FragFile`, proved |
| `main`: options | mode, threads, flags, label, names | one step per argument, default output name, dispatch | order of options, borders of names and counts | `FragCli`, proved |
| GPU daemon and client (`lzo_gpu_daemon.c`, `lzo_gpu_client.c`) | `g_state` (socket, `running`, OpenCL handles, counters), the socket file | init, start, signal handler, accept loop, request, reply, exit | a signal at any point, two daemons, silent or dying clients | `GpuDaemon`, proved but for liveness |
| daemon requests (`daemon_compress.c`, `daemon_decompress.c`) | OpenCL buffers and events, host buffers of one request | create, upload, launch, wait, map, write, release | every early return in a process that lives on | `GpuJob`, `GpuBlocking`, proved |
| LZO1X codec (`lzo1x_c.ch`, `lzo1x_d.ch`) | hash dictionary; input and output pointers | compress a block in several steps with carried literals, decode | borders of the M1 to M4 instruction formats; a damaged block | `Lzo1xFormat`, `Lzo1xCodec`, `Lzo1xFast`, proved |
| LZO1X-999 (`lzo_swd.ch`, `lzo_mchw.ch`, `lzo1x_9x.c`) | ring buffer, hash chains, look-ahead | accept, search, insert, remove | positions reused while chains still name them; a match kept over while a better one is looked for | `Lzo1x999`, checked |
| GPU host tool (`lzo_host.c`) | cached device buffers | choose blocks, grow caches, verify | borders of the block choice; a failed verification | `GpuBlocking`, `GpuJob`, proved; options and caches not modelled |
| kernels (`lzo1x_1*.cl`, `lzo1x_decomp*.cl`) and the host's loops around them | shared device buffers, the table of lengths | one work item per block, gather, index | items in any order, no bounds checks, 32-bit products | `GpuKernels`, proved |
| optimizer (`lzo1x_oo.ch`) | the block, edited in place; `litp` and `lit`, the run before | read an instruction, join a match with the runs around it | lengths rewritten long after they were read | `Lzo1xOptimize`: where the run is told proved, the text checked |
| checksums, initialisation, other LZO algorithms, miniLZO, lzotest, examples, assembler, `main.c` of the GPU, build files | | | | not modelled; PROJECT.json gives the reason of each |

How they interact: `main` calls `compress_file` or `decompress_file`; these
call `compress_multi` or `decompress_multi`; each of these shares one job
record with the threads it starts, which call the codec on disjoint parts of
the buffers. The two directions only meet on disk, in the container. The GPU
client sends one request record over the socket and waits; the daemon calls
`daemon_compress` or `daemon_decompress` and sends one response. The kernels
repeat the codec, one block per work item. Inside the codec a compressor is a
search (`lzo1x_c.ch`, or `lzo_swd.ch` under `lzo1x_9x.c`) that hands runs and
matches to the encoder of the format.

What makes each part correct:

* **pool**: no block is taken twice; OK means that the codec accepted every
  block, if a thread could be started at all; a failure is never lost; no
  worker outlives the call; the call returns.
* **compression memory**: a worker only writes a live buffer; every buffer is
  handed over filled or freed, on every path.
* **arithmetic**: the chunks tile the input, and the decompressor finds the
  same ones from the header alone.
* **files**: exit code 0 twice means that the file came back; an archive cut
  short never passes; an output is only touched when its content is complete.
* **command line**: no label reaches a decompression; a default output name
  never hits the input.
* **daemon**: a request to stop stops it; each client gets an answer or finds
  its connection closed; an answer is true; an orderly exit leaves no file.
* **GPU job**: OK means that the output is complete; nothing of a request
  outlives it; a failure leaves the old output.
* **block choice**: the blocks are within limits and cover the input.
* **kernels**: each item finds its own stream and text, whatever ran before it.
* **codec**: decoding an encoded block gives the block; damage is refused; the
  output buffer is large enough.
* **optimizer**: the block decodes to the same text after every rewriting.
* **search**: what it finds is a true repetition that the format can say, and
  run after run the text is covered.

`PROJECT.json` lists the hazards line by line, with the properties that cover
each one or the reason why none does yet.

## The modules

### BlockJob: what a job promises

`blocks`, the `bad` ones among them, the set `finished`, whether the job is
`manned`, and the `answer`. Once a worker is there, blocks that are not bad
finish in any order; the answer may be OK only when all are finished,
"rejected" only if there is a bad block, and "refused" (no memory, or a
process that died) at any time; nothing happens after the answer. One exception
is part of the specification because it is part of the code: a job for which no
worker was started may answer OK with nothing done (`~manned` in `Answer`).
Both pools do so when every `pthread_create` fails and joining the handles
returns. What a caller may rely on is therefore weaker than OK alone; the run
`pool_no_threads` shows what is missing.

### FragPool: decompress_multi, decompress_worker, decompress_block

One action is one access to shared memory or one library call, so that every
interleaving the C code has, the model has:

| action | code (lzo_frag.c) |
|---|---|
| `EnterEmpty`, `EnterNoMemory`, `Enter` | 492-508: no block, no memory for the handles, or on |
| `Spawn`, `SpawnFails` | 517-518: `pthread_create`, whose result is not looked at |
| `Join`, `JoinTraps` | 519-520: waits for the thread; joining a handle that never became a thread is undefined, and returns or kills the process |
| `Finish` | 524-527: the status is the answer |
| `Fetch(w)` | 475-476: fetch-and-add and bound check of the local result |
| `Check(w)` | 477: load of `status` after the claim |
| `Work(w)` | 479-484: `decompress_block`; an error overwrites `status` and ends the worker |

`payload[b]` is what the codec will make of block `b`: "good" (decodes to its
full length), "short" (decodes, to another length) or an error code.
`decompress_block` (321-326) compares the length and then returns the codec's
OK on both branches, hence `DecompressBlock`; `Settled` is what a block the
codec accepts has when it is done, which for a short one is less than all. The
output of a block is written while `Work` runs; the model has it written at the
end of it, which loses nothing because `OneOwner` says that nobody else is
there.

### FragCompress: compress_multi, compress_worker

EXTENDS FragPool and conjoins each of its actions with what the compression
adds: the chunk array, `buf[c]` (`chunks[c].comp`), the per-thread workspace
`wrkmem[w]`, and the clean-up of `free_compression_chunks`. `Begin` and `End`
are the allocation and release of the workspace around a worker's loop. A
thread that was joined has ended, so `CJoin` waits for `End` too. A compressor
that answers OK has compressed its whole block (`CompressorAssumption`). The branch of
`compress_worker` for a chunk without a buffer (365-374) is not an action:
`WritesLiveBuffer` shows that it is never reached.

### FragLayout: the arithmetic

`ChooseBlockSize` (144-152), `ChunkCount`, `SplitOffset` and `SplitLength`
(385-398), and `RebuildOffset` and `RebuildLength` (850-867). `MinBlock` and
`MaxBlock` stand for 64 KiB and 1 MiB. Sizes are unbounded here: the code uses
`size_t` on sums of at most 4 GiB plus 2^31.

### FragFile: compress_file and decompress_file

One source file, its archive and its restored copy, and any sequence of runs
of the program on them. A file is what was to be written and how many bytes of
it are there; a killed or failed write leaves a prefix. One action is one stage
of the run between two calls that may fail: `ReadSource`, `TooLarge`,
`Compress`, `Pack`, `Verify`, then for the other mode `ReadArchive`,
`ParseRefuses`, `Parse`, `Decompress`, and for both `Open`, `Write`, `Close`
with their failures. `Kill` ends a run between any two.

The pool is taken at its word, as `FragPool` and `FragCompress` show it keeps
it: OK with all blocks, an error, or, when threads could not be created
(`Meet("spawn")`), OK with none. The failures the code does not look at are
named in `ignored` (reading the input, creating any thread, `fclose`), so that
`RoundTrip` can say exactly what the code does guarantee with all of them
switched on, and `RoundTripAlways` what the test takes for granted.

### FragCli: main

The option loop as a machine that reads one option at a time, then the default
output name and the dispatch. Words are members of a small set; a file name is
the number of "decompressed_" in front, whether there is a stem, and the
number of ".lzo" behind, which is all that the default-name code looks at.
Synonyms of an option (`--threads`) are not told apart, and `strcasecmp` is not
modelled.

### GpuDaemon: daemon and clients

A daemon is one thread that a signal may interrupt anywhere, so one action is
the code between two system calls, and `Signal` (the handler, 518-529) may
come between any two: it clears `running` and closes `server_sock`, whatever
that is at the time (`sock[d]`: still the 0 of a static variable, a socket, or
closed). `path` is what the socket file names; daemons share nothing else.

| action | code |
|---|---|
| `Launch`, `Initialise`, `InitFails` | main 652-666 |
| `Socket` ... `ListenFails` | start_server 534-572, one per call and its failure |
| `Run`, `Accept`, `Leave`, `AcceptFails` | run_server 579-595 |
| `Receive`, `ReceiveFails` | 598-603: a whole request; or none, or a part, and the connection is closed |
| `Work`, `Reply`, `ReplyToNobody` | 605-618; `send` to a client that is gone raises SIGPIPE |
| `Close`, `Remove` | main 677-682 |
| `Look` ... `Finish` | compress_with_daemon of the client, 133-216 (decompress_with_daemon is the same) |
| `Kill`, `KillClient` | SIGKILL at any point; the kernel closes what was open, the file stays |

A client blocked in `connect` on a full queue is looked at again each time the
path changes; in the code it would go on waiting for the socket it first
found. A daemon lives once. A client that may stop for ever in any place
without ending is in `Silent`.

### GpuBlocking: the choice of blocks

`DaemonBlockSize` (daemon_compress.c 98-128) and `HostBlockSize` (lzo_host.c
59-114). A comment at daemon_compress.c:97 calls them the same; they are not:
the steps come in another order and the alignments differ, but both keep the
same promise, which is what is proved of each.

### GpuJob: one job on the GPU

The four functions (daemon and host, compression and decompression) are
straight sequences of calls whose error paths differ. Each is a sequence of
rows in the order of its lines; a row says what the call obtains, what happens
when it fails (return, exit by `CHECK`, a trap, noted for later, not looked
at), and what is freed then. The machine runs row after row, any of which may
fail where the data does not decide it, and, for the daemon, goes on with the
next job. The daemon's `CHECK` evaluates its argument twice, so a failing call
is made twice; it fails both times here. An archive may be whole, foreign (no
magic), broken (a block does not decode) or short: it ends before its table
does, and since nobody asks how long the file is, reading the table may trap
(row "table"), or what is left after it comes out as less than nothing, a size
no buffer can have. The allocations nobody checks (`read_file` and `off_arr` of
the host among them) are rows that trap, and so is what `--verify` does after a
difference: it looks for the first one to the end of the output, in a reference
that may be shorter or missing, which is undefined. The host's option loop and
its caches are left out (a process with one job never hits one), and output to
stdout, where no file is at stake; the small allocation for a default output
name is taken to succeed.
The option "o" stands for `-o`.

### GpuKernels: the work items

An input from its split to the restored output, through shared buffers of bytes
that say which stream or text they belong to:

| action | code |
|---|---|
| `CompressItem(g)` | `lzo1x_block_compress`, lzo1x_1.cl 599-624: cut, compress, store at `gid * worst_blk` |
| `GatherBlock` | lzo_host.c 933-939, a round of the loop (the same in daemon_compress.c 335-341) |
| `IndexBlock` | lzo_host.c 484, a round: `off_arr` (the same in daemon_decompress.c 94-97) |
| `DecompressItem(g)` | `lzo1x_block_decompress`, lzo1x_decomp.cl 234-260 |

Items of a launch run in any order. Reckoning inside an item is modulo `Word`,
that of the host is not. The codec is what `Lzo1xCodec` shows it to be: a
stream of some length within the worst case, which decodes to its block if it
is whole where the item looks, and to nothing anybody knows if it is not. The
decoder on the GPU never learns how long its stream or its text may be. Either
side may be the CPU program, whose threads have buffers of their own and whose
decoder checks both lengths. An item is one step: items share no byte they
write, which is what is proved, so nothing is lost by that. An empty input is
left out (both choices of blocks trap on it, and OpenCL refuses a buffer of no
bytes).

### Lzo1xFormat, Lzo1xCodec: the format

`Lzo1xFormat` has the instructions byte by byte with the real limits: how
`code_match` picks one of five forms and writes it, the length of a run, the
price `len_of_coded_match` puts on a match, and what the decoder reads back.
`M2Low` is 8 for LZO1X and 4 for LZO1Y. `Lzo1xCodec` writes a block of runs and
matches of its choice and decodes it, one action per label of lzo1x_d.ch, with
each overrun check. A literal byte is `Lit`, which no opcode is: the decoder
taking a literal for an opcode is seen by `TypeOK`. A damaged block misses
bytes at its end or has too little room; bytes beyond the cut are still those
of the true block, so that the unchecked reads are no easier to catch than in
memory. Without the checks the code is that of lzo1x_decompress. Each piece of
the script carries its place in the text, so that nothing has to be added up.
What a compressor may code next is a parameter (`Menu`, `Tails`), and so are
the damages and the length of a preset dictionary.

### Lzo1xOptimize: rewriting in place

`lzo1x_optimize` reads a block instruction by instruction and turns matches of
two and three bytes between literal runs into literals of one longer run. The
state is the block itself, the place `ip`, what has been decoded, and the two
variables the rewriting depends on: `litp`, where the length of the last run is
kept, and `lit`, that length. One action per instruction that stays and one per
rewriting (`JoinM1Short`, `JoinM1Ahead`, `JoinM2`, `JoinM3Short`,
`JoinM3Ahead`, the counters `o_m1_a` to `o_m3_b` of the code). `WellFormed`
says of a block that its instructions are whole and follow one another to the
end marker; TLC evaluates it for the blocks of the run (`BlocksAreWellFormed`),
and the proof asks it of every block. `Lzo1xBlocks` puts the optimizer beside
the codec, with variables of its own, since the two are checked and proved
about together and never run at the same time. `Lzo1xOptimized` adds `Text`, an
independent and recursive reading of a block; `KeepsText` compares the text of
the block as it is with that of the block as it was. Literals are all
different, so that no byte is right by chance. The loop conditions `TEST_IP`
and `TEST_OP`, which end a loop on a block without an end marker or without
room, never do here.

### LzParse, Lzo1xFast, Lzo1x999: the search

`LzParse` says what a compressor owes the format: the next piece is a run and a
match that is a true repetition of the text (or the dictionary), not longer or
further than the format can say, until all is coded. `Lzo1xFast` is
`lzo1x_c.ch`: the driver that cuts the text into chunks with literals carried
over, and the search loop with its dictionary of positions and growing skip.
`Lzo1x999` is lzo_swd.ch, lzo_mchw.ch and the loop of lzo1x_9x.c: the ring
buffer with its mirrored front, hash chains for three bytes and a table for
two, lengths and best offsets, and the lazy choice. Both are compared with
`LzParse` through a mapping that only says how much is coded; `MCLzParse` runs
one or the other, each with its own variables. Together with the
round trip of `Lzo1xCodec` for every pair `Codable` allows this gives the round
trip of the compressors. Limits are scaled (window 13 for 0xbfff, look-ahead 6
for 2048, chunk 13 for 49152) in the order of the real ones. Two things are
taken as they are in the code's favour: the address wrap check at
lzo1x_c.ch 353-355 is left out; and `Head3` must tell third bytes apart, since
`swd_search` compares the others only once a match of two or more is at hand
(537). HEAD3 of the source does: two triples that differ in the third byte only
differ in their hash, because d * 40799 modulo 2^19 is at least 32, what the
shift loses, from 0 for every d from 1 to 255 (`ThirdByteTold`, an assumption
TLC evaluates for all of them).

## The runs

| run | bounds | what it shows |
|---|---|---|
| `pool` | 3 blocks, 3 threads, one error code, each block good, short or bad, each `pthread_create` may fail, a stray join returns or traps | all pool properties, and that the call returns |
| `compress` | the same, but no block is short | memory properties, termination, and that it implements `BlockJob` |
| `file` | blocks of 2 to 3 bytes, sources of 0, 1, 5 and 6 bytes (6 is above `MaxInput`), 1 to 3 threads, any number of runs | round trip, truncation, earlier outputs |
| `cli` | all command lines of at most 4 of 15 words | labels, counts, default names |
| `file_unreadable` | as `file`, only the read may fail | `RoundTripAlways` is violated |
| `pool_no_threads` | as `pool`, all blocks good, stray joins return | `OkMeansDone` is violated |
| `cli_level` | the words of the command line test | `TestInvocationAccepted` is violated |
| `daemon` | 2 daemons, 2 clients of which one may be silent, a queue of one | true answers, no lost connection, no file left, stopping and answering |
| `daemon_stop` | one daemon, no client | `SignalStops` is violated |
| `gpu_job` | inputs of 0, 1, 5, 9, 13 and 40 bytes in blocks of 4 to 8, 1, 2 or 4 compute units, every kind of job, whole, foreign, broken and short archives, any number of jobs; or the work items of inputs of 1, 4, 9, 11 and 17 bytes in blocks of 4, short and worst-case streams, a word of 256 | what is lost, what OK means, what a failure costs; what comes out of the kernels |
| `codec` | the real format, blocks of at most 3 matches, each number at both sides of every border; or about 4,400 blocks of 2 to 4 matches to optimize, one rewriting or several in a row | round trip, refusal of damage, size, price; a rewritten block keeps its text |
| `parse` | texts of up to 30 bytes over 3 letters, both compressors, the slow one with six rows of scaled flags, one for each kind of level from 1 to 9 (1 to 3, 4, 5 and 6, 7, 8, 9), three dictionaries | a true parse |

Why the bounds are enough. Workers are alike and only meet on the cursor and
the status: two can race for a block, and a third makes one that fails while
another holds a claim and another is at the end. Three blocks leave one before,
one at and one after a failure, and fewer and more blocks than workers both
occur. Errors are only compared with OK. For files, 1 byte is below the minimum
block, 5 bytes make two blocks (of 3) or three (of 2) with a short last one;
every prefix of every container occurs. All files have finitely many contents,
so the number of runs needs no bound.

For the daemon, two processes race for the path and a third would repeat one
of them; two clients make a queue and a stuck loop. In the codec an instruction
is disturbed only by the run noted in the match before it and the form of the
next, so three matches put each form behind and before each other; lengths and
distances need only both sides of each comparison. For the kernels there is one
block, a whole last one and short ones, and (17 bytes) products that wrap. The optimizer looks at the
run before, one match and the run or match after; the runs lie at both sides of
3 and of the 18 that a joined run may reach, and the copies at distances 1 to 3. A window of 13 wraps twice
in a text of 30, and nodes are removed from long and short chains.

Fairness is assumed in `pool`, `compress`, `daemon` and `daemon_stop`. In the
first two: weak fairness of the caller and of each worker. They are threads of one process under a preemptive
scheduler and never wait but in `pthread_join`, so nothing stronger is needed.
No liveness is claimed under a kill or a trap other than that the run is over.
In the daemon: weak fairness of each daemon's next step and of each client that
is not silent; no signal, kill, failure of a call or start is fair. A daemon
that waits in `recv` for a silent client is not able to step, and the
properties say so.

Deadlock is checked everywhere; a program that has ended stutters in an action
of its own (`Over`, `COver`, `Done`, `Stop`) and that action is enabled only
then; `gpu_job` never ends.

## What the code does not do

* **An unreadable input is archived as an empty file** (run `file_unreadable`,
  line 626). `read_entire` returns NULL with the size still 0, and the guard
  asks for a size that is not. Built from this tree, `lzo_cpu nosuch.bin`
  exits 0 and writes an empty container.
* **OK without any work** (run `pool_no_threads`, lines 443 and 518). With
  thread creation refused by a process limit, `lzo_cpu -t 2` exits 0 with a
  container of blocks of length 0.
* **Numeric levels are refused** (run `cli_level`, line 1018), and
  `tests/test_lzo_cpu_cli.py` passes them in every case.
* **A signal during initialisation does not stop the daemon** (run
  `daemon_stop`, line 579 of lzo_gpu_daemon.c). The handler clears `running`
  and `run_server` sets it again; `server_sock` is still 0, so the handler
  closes standard input.
* Noted and not given runs: a failing `fclose` (268) is not seen, which
  `TruncationDetected` shows to be caught later for an archive, while a
  restored file stays short (the same `RoundTripAlways` fails with
  `Faults = {"close"}`); a block that decodes short passes (325;
  the run `pool` has such blocks, and `OkMeansComplete` lets exactly them pass); the label "1x" of the
  comment at line 47 is refused at 1004; a block of the daemon's decompression
  that does not decode is answered with success, and so are a failed write of
  its compression and `--verify FAILED` of a host compression (`Overlooked` of
  `GpuJob` names each); for inputs above about 3.76 GiB, which the comment at
  lzo_host.c:11 allows, `gid * worst_blk` wraps and items write over each other
  (without `Fits`, `Restores` fails with the shape of 17 bytes);
  daemon_compress.c:322 maps fewer bytes than it reads; an empty input kills
  the daemon in a division (107); so does the reply to a client that is gone
  (lzo_gpu_daemon.c:617, `ReplyToNobody`); `CHECK` and a failed launch leave a
  request's memory behind (`LossesNamed`); a client that stays silent stops the
  daemon, signals included (`StuckOn`); a second daemon hides the first
  (`OnlyRivalHides`). The properties named here say that nothing else of the
  kind happens; they do not forbid these.

## The proofs

All for any number of blocks, threads, bytes, and any set of error codes.

**FragPool_proofs.** The inductive invariant `IInv` is `TypeOK`, `OneOwner` and
four facts: threads and handles agree; the caller knows which workers may be
alive in each of its loops; what the result says of the status; and
`ClaimsFresh`, that a claim is below the cursor on a block nobody wrote, and
nobody wrote above the cursor. `OneOwner` alone is not inductive: it needs to
know that the cursor is above every claim. From it follow `PoolTypeCorrect`,
`PoolOneOwner`, `PoolNoWorkerOutlivesJob` and `PoolFailureSticks`.
`PoolOkMeansComplete` adds `NothingLost` (while the status is OK each index
below the cursor is finished or held); it assumes nothing of the blocks, and
speaks of `Finished`, to which a block that decodes short belongs.
`PoolCursorBounded` adds `Overshoot`: the cursor exceeds the end by at most the
number of workers that are done. `PoolKeepsPromise` maps the pool to `BlockJob`
step by step, whatever fails and whatever joining a stray handle does: an OK is
either an OK of finished blocks, or one of a job without a thread, which is the
exception of `BlockJob`.

Then compress_multi. `CompressIsPool`: every behaviour of `CSpec` is one of
the pool's `Spec`, so the theorems above carry over (`CompressSafe`). The
invariant `CInv` adds what each phase of compress_multi has allocated, that a
buffer holds data exactly when its chunk was compressed, and where workspaces
are; `CompressTypeCorrect`, `CompressWritesLiveBuffer` and
`CompressNothingLeaks` follow. `CompressPromiseKept` carries `BlockJob` over
from the pool, the exception included; `CompressorAssumption` is used for the
compression only, where finished means compressed whole.

**FragLayout_proofs.** From `CeilDivBounds` (rounding up): `BlockSizeInRange`,
`ChunksTile` and `RebuildMatchesSplit`.

**FragFile_proofs.** `FileTypeCorrect`, `FileTruncationDetected`,
`FileRoundTrip` and the action property `FilePreviousOutputSurvives`, for any
sizes, any lengths of compressed blocks and any sequence of runs and kills. The
invariant `FInv` has four parts beside the types. `Shapes` ties `product` and
the file being written to the stage the run is in. `TakenBack`: a run that will
write has withdrawn what earlier runs of that file answered; without it an old
exit code would speak of a new file. `WholeArchive`: past `Parse` the archive in
memory is the file, with every byte the header announces. `GoodProducts`: what
a run that met no fault made is right (it rests on `RebuildMatchesSplit`). An
image's length is a sum over its blocks; that such sums exist and are numbers
(`SumsExist`, `SumType`) is proved from the least element of a set of naturals
(`LeastNatural`, `NatSetInduction`), because an induction theorem that takes an
operator cannot be used.

**FragCli_proofs.** `CliTypeCorrect`, `CliLabelOnlyCompresses` and
`CliDefaultOutputSane`, for any words in any number. The properties speak of the
end, so `CliInv` says what every word must keep: a label excludes a
decompression already while options are read (`LabelKnown`), and a made-up name
is what `DefaultOutput` makes of the input and the mode then in force
(`TargetKnown`). `DefaultSane` is about names alone.

**GpuDaemon_proofs.** For any set of daemons and clients, signals and kills
anywhere: `DaemonTypeCorrect`, `DaemonTrueAnswer`, `DaemonForgetsNoConnection`,
`DaemonOrderlyExit` and `DaemonOnlyRivalHides`. `DInv` adds to the types
`FileHasOwner` (whoever the socket file names is still on the way to removing
it), `FoundUnlessRival` (a daemon that bound the path is the one found there, unless
another was started), and `AnswersTrue` (an answer of success, made, under way
or taken, stands for a job done). `OrderlyExitLeavesNoFile`
follows from the first: the places a daemon may be in while the file is its own
do not contain the one it ends in.

**GpuTool_proofs.** The jobs first: `JobBlocksFit`, `JobReleasesHeld`,
`JobLossesNamed`, `JobOkMeansDone` and `JobFailureKeepsOutput`, for any inputs,
limits, devices and number of jobs. Each of the four programs is turned into a table (`Rows`:
which row opens, compares, writes, answers; `Balanced`: at which row each
object is obtained and given back), and the machine is proved from the tables.
`JobInv` says at each row how far the output is and which failures went unseen;
`Held`, that what is held there is what the table says. All that may
fail or trap without a trace in the output stands before the row that opens it,
which is what `JobFailureKeepsOutput` reads off the tables. `JobAssumption` asks
only that sizes are numbers and that a device has a compute unit.
`HostBlocking` and `DaemonBlocking`: the block size is
within its limits and its blocks tile the input with none of them empty, for
any input but the empty one, any device and alignment. The lemma both rest on
is `ShareInRange`: rounding up and clamping never leaves the range.

Then the kernels. `KernelsRestore`: `Restores` for every input, block size,
word, set of stream lengths and order of items. The invariant `KInv` follows
the data: `Stored` (each item that ran left its stream in its region),
`Gathered` (the streams copied so far stand one after the other), `Indexed`
(the reader's table agrees), `Correct` and `Covered` (what is written is right
and complete). `Multiples` keeps regions apart, `WordsSuffice` shows that
nothing wraps when the worst case of all blocks fits into a word, and the split
is that of `ChunksTile` and `RebuildMatchesSplit`. Sums over the lengths never
appear: the loops carry them, one addition per round.

**Lzo1xCodec_proofs.** First the instructions, for every distance and length:
`NearRoundTrip`, `M2RoundTrip`, `FarRoundTrip` and `RunRoundTrip` (decoding
undoes encoding, whatever literal count is added to the free bits),
`NoFalseEnd` (no M4 reads as the end of the stream), `PriceIsExact` and
`PairPays`. Then the codec: `CodecTypeCorrect`, `CodecRoundTrip` and
`CodecDamageRefused`, for blocks of any number of runs and matches of any
length, for LZO1X and LZO1Y, any damage and any dictionary. `CodecAssumption`
asks only that lengths, distances and damages are numbers; that a match is one
the format can say is a guard of the compressor (`Codable`). The invariant
`IInv` has two halves. While a block is made (`Compressing`), `Block` says that
there are places `g[1]`, `g[2]`, ... in it, one for each piece of the script,
and that at `g[j]` stand bytes that read as piece `j`: a match whose free bits
hold the number of literals after it, or a run. When a run of up to three is
noted in the match before it, one byte written earlier changes;
`NotedRunAppended` shows that it changes the count of that match and nothing
else. While the block is read (`Decoding`), `Stands` says that the decoder is
at some `g[j]`, has written the first `j - 1` pieces, and is at a label from
which the bytes of piece `j` are understood (`StandsAt`). None of the three
properties is inductive: nothing in them says that the bytes ahead mean
anything. `CodecWorstCase` is inductive beside `IInv` and rests on `PairPays`.
Its first form, without the byte a first run may add, was true of every block
the run then made and could not be proved: three literals and then a match of
three bytes too far back for an M2, in a dictionary, cost one byte more than
they stand for, and a sixteenth of six is nothing. The bound is now five bytes
and not four, and such a match is among those of the run `codec`; the buffers,
with 67, are not concerned.

The optimizer is in the same module: `OptimizerRemembersRun`, that `litp` and
`lit` name the last run after every instruction and every rewriting, for any
set of blocks of whole instructions (`BlocksWhole`). `RunRemembered` is not
inductive, for a rewriting reads the next instruction where it stands in a
block that earlier ones have changed. `OUnread` says that they changed nothing
from `ip` on, and `OPlaced` that `ip` is where an instruction of the block as
it was begins: a match and its `nl`, or the length of a run, is then read as it
was written (`MatchSame`, `RunSame`). What the rewritings rest on is that a
match of three bytes from a byte of 16 to 63 takes three bytes, and any other
two: as many as the literals that replace it, or one less and the length of the
next run. A run told by more than one byte is longer than 18, so that the sum
of a join, 18 at most, goes into one (`JoinedKeeps`).

**Lzo1xFast_proofs.** `FastImplementsParse`: every behaviour of
lzo1x_1_compress is one of `LzParse`, for any texts, hash, chunk, margin, group
and skip: each piece is literals and a true repetition, no longer and no
further than the format can say, no match is among its own bytes, and the first
run is of four bytes or more. The invariant (`SearchInvariant`) says that all
positions of the dictionary lie behind the one that is looked at (`Behind`),
in the first round too, when all are the chunk's start, since the search begins
past it; that the carried literals end where the chunk begins (`AtChunk`); that
pointers stay in chunk and text (`InText`), so that the matcher stops before the
end; and `FourFirst`. `SearchAssumption` states what the code's constants
provide: the search ends the four bytes of a match and two steps of the matcher
before the chunk does (20 for steps of 8), the chunk is longer than that, and
the hash is defined for any four bytes. `ChunkAssumption` ties the chunk to the
format: `Chunk <= M4Max + 1`, which the code meets exactly, as 49152 is
0xbfff + 1. TLC evaluates both for the constants of the run `parse`. Without the
second a match from the end of a chunk to its beginning could not be coded.

TLC checked the parts of both invariants before they were proved.

Only model-checked:

* termination of the pool and of the compression, `StopObeyed` and
  `ClientAnswered` of the daemon: liveness under fairness is out of the
  prover's reach;
* `KeepsText`: `Text` is recursive over the block, and that what it computes is
  the same for every rewritten block is an induction over data;
* `SlowParses`: `Lzo1x999` inserts, removes and searches with folds over the
  ring and the chains; what they leave is an induction over data too.

## Abstractions

To the drivers the codec is what it promises to be: it returns OK or an error,
and decoding what it encoded gives the block; `Lzo1xCodec` and `LzParse` are
about that promise. Timing, messages and statistics are left out,
as are `stdin` and `stdout`, the `_WIN32` branches, the mutex of the job record
(initialised and never locked) and the benchmark modes. The undefined use of
the workspace array after its block (283, 1156) has no state to be seen in.

## Not modelled

The option loops of the GPU programs, which set variables and nothing else; the
old GPU program `main.c`, which does not set all arguments of the kernels in
this tree; the other LZO
algorithms, checksums and self tests, which nothing here calls; miniLZO,
lzotest, examples and assembler. `PROJECT.json` gives the reason of each.

## Plan

The plan is carried out but for what the list above leaves to TLC. If it is
taken further: `KeepsText` and `SlowParses`, with recursive functions and folds
replaced by invariants over a pointer that walks the block or the chain; the
option loop and the caches of the GPU host tool.
