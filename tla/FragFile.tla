------------------------------ MODULE FragFile ------------------------------
(***************************************************************************)
(* One file, its archive and its restored copy, as runs of the CPU driver  *)
(* make them: compress_file and decompress_file of lzo_cpu/lzo_frag.c with *)
(* read_entire and write_entire, for any sequence of runs, some of them    *)
(* killed on their way.  The worker pool is taken at its word (BlockJob),  *)
(* with what it answers when no thread could be created.                   *)
(*                                                                         *)
(* A block of data is known by its length and whether it is right: an      *)
(* image is the container compress_file builds in memory, a file on disk   *)
(* holds a prefix of what was to be written, absent when it is empty.      *)
(***************************************************************************)
EXTENDS FragLayout, FiniteSets, Functions

CONSTANTS
  Sizes,        (* The sizes the source file may have.                     *)
  MaxInput,     (* UINT32_MAX, what the size field of the header holds.    *)
  MaxThreads,   (* Bounds the thread counts asked for.                     *)
  CompSizes,    (* The lengths a block may compress to.                    *)
  Faults        (* The failures that the code does not look at and that    *)
                (* may happen: reading the input of a compression, creating*)
                (* any thread at all, closing the output.                  *)

ASSUME FileAssumption ==
  /\ Sizes \subseteq Nat
  /\ MaxInput \in Nat
  /\ MaxThreads \in Nat \ {0}
  /\ CompSizes \subseteq Nat \ {0}
  /\ Faults \subseteq {"read", "spawn", "close"}

VARIABLES
  src,        (* The size of the source file.                              *)
  disk,       (* The output files: disk["c"] the archive, disk["d"] the    *)
              (* restored copy; what they should hold, and how many bytes. *)
  pc,         (* Where the running program is; "idle" between runs.        *)
  call,       (* Its arguments.                                            *)
  input,      (* How much of the source a compression has in memory.       *)
  archive,    (* The file a decompression has in memory.                   *)
  product,    (* What the run is going to write.                           *)
  exit,       (* For each mode the exit code of its last writing run.      *)
  ignored     (* For each mode the faults that run met.                    *)

vars == <<src, disk, pc, call, input, archive, product, exit, ignored>>

Modes == {"c", "d"}
Calls == [mode : Modes, verify : BOOLEAN, threads : 1 .. MaxThreads]
NoCall == [mode |-> "c", verify |-> FALSE, threads |-> 1]

-----------------------------------------------------------------------------
(* The container: magic, input size, block size and block count, then the  *)
(* length table, then the blocks.  A block nobody compressed has length 0. *)

Header == 14

BlocksOf(img) == DOMAIN img.lens
TableBytes(img) == 4 * Cardinality(BlocksOf(img))
PayloadUpTo(img, c) == SumFunctionOnSet(img.lens, 0 .. c - 1)
ImageBytes(img) ==
  Header + TableBytes(img) + SumFunctionOnSet(img.lens, BlocksOf(img))

(* Every image compress_file may build of n bytes with t threads.          *)
ImagesOf(n, t, lengths) ==
  LET blk == ChooseBlockSize(n, t)
  IN {[size |-> n, blk |-> blk, lens |-> f] :
        f \in [0 .. ChunkCount(n, blk) - 1 -> lengths]}

NoImage == [size |-> 0, blk |-> 0, lens |-> [c \in {} |-> 0]]
NoFile  == [what |-> NoImage, bytes |-> 0]

(* Slip: the payload is taken to start right after the header. *)
PayloadSizeNoTable(f) == f.bytes - Header

(* What decompress_file finds missing in a file, before it decompresses.   *)
PayloadSize(f) == f.bytes - Header - TableBytes(f.what)

TooSmall(f)         == f.bytes < Header
TruncatedTable(f)   == Header + TableBytes(f.what) > f.bytes
TruncatedPayload(f) ==
  SumFunctionOnSet(f.what.lens, BlocksOf(f.what)) > PayloadSize(f)
ChunkOverflow(f)    ==
  \E c \in BlocksOf(f.what) : PayloadUpTo(f.what, c + 1) > PayloadSize(f)

(* Every block was compressed, and is put back where it was taken from, at *)
(* the length it had.                                                      *)
Restores(img) ==
  \A c \in BlocksOf(img) :
    /\ img.lens[c] > 0
    /\ RebuildOffset(img.blk, c) = SplitOffset(img.blk, c)
    /\ RebuildLength(img.size, img.blk, Cardinality(BlocksOf(img)), c)
         = SplitLength(img.size, img.blk, c)

Plain(n, right) == [size |-> n, right |-> right]

ProductBytes == IF call.mode = "c" THEN ImageBytes(product) ELSE product.size

-----------------------------------------------------------------------------
Init ==
  /\ src \in Sizes
  /\ disk = [m \in Modes |->
               IF m = "c" THEN NoFile ELSE [what |-> Plain(0, TRUE), bytes |-> 0]]
  /\ pc = "idle"
  /\ call = NoCall
  /\ input = 0
  /\ archive = NoFile
  /\ product = NoImage
  /\ exit = [m \in Modes |-> "none"]
  /\ ignored = [m \in Modes |-> {}]

(* The program ends.  A run with --verify writes nothing, and what earlier *)
(* runs answered stands.                                                   *)
Leave(code) ==
  /\ pc' = "idle"
  /\ exit' = IF call.verify THEN exit ELSE [exit EXCEPT ![call.mode] = code]
  /\ call' = NoCall /\ input' = 0 /\ archive' = NoFile /\ product' = NoImage

Meet(fault) ==
  /\ fault \in Faults
  /\ ignored' = IF call.verify THEN ignored
                ELSE [ignored EXCEPT ![call.mode] = @ \union {fault}]

GoOn(next) == pc' = next /\ UNCHANGED <<call, exit>>

(* Somebody starts the program.  A new archive makes what was restored     *)
(* from the old one meaningless.                                           *)
Start ==
  /\ pc = "idle"
  /\ pc' = "read"
  /\ call' \in Calls
  /\ LET restarted == CASE call'.verify       -> {}
                        [] call'.mode = "c"   -> Modes
                        [] call'.mode = "d"   -> {"d"}
     IN /\ exit' = [m \in Modes |-> IF m \in restarted THEN "none" ELSE exit[m]]
        /\ ignored' = [m \in Modes |-> IF m \in restarted THEN {} ELSE ignored[m]]
  /\ UNCHANGED <<src, disk, input, archive, product>>

-----------------------------------------------------------------------------
(* compress_file.                                                          *)

(* read_entire: it returns no buffer when it fails, with the size still 0; *)
(* compress_file gives up only if the size is not, so it goes on with an   *)
(* empty input.                                                            *)
ReadSource ==
  /\ pc = "read" /\ call.mode = "c"
  /\ \/ input' = src /\ UNCHANGED ignored
     \/ input' = 0 /\ Meet("read")
  /\ GoOn("compress")
  /\ UNCHANGED <<src, disk, archive, product>>

TooLarge ==
  /\ pc = "compress" /\ input > MaxInput
  /\ Leave("1")
  /\ UNCHANGED <<src, disk, ignored>>

(* Slip: compress_file opens its output before it has compressed. *)
CompressEarlyOpen ==
  /\ pc = "compress" /\ input <= MaxInput
  /\ \/ /\ product' \in ImagesOf(input, call.threads, CompSizes)
        /\ GoOn("pack")
        /\ UNCHANGED <<input, archive, ignored>>
     \/ Leave("1") /\ UNCHANGED ignored
  /\ disk' = [disk EXCEPT !["c"].bytes = 0]
  /\ UNCHANGED src

(* compress_multi: it answers OK with every block compressed; or OK with   *)
(* none, when there was no thread to do it; or an error; or the process    *)
(* dies in a join.                                                         *)
Compress ==
  /\ pc = "compress" /\ input <= MaxInput
  /\ \/ /\ product' \in ImagesOf(input, call.threads, CompSizes)
        /\ GoOn("pack")
        /\ UNCHANGED <<input, archive, ignored>>
     \/ /\ input > 0
        /\ product' \in ImagesOf(input, call.threads, {0})
        /\ Meet("spawn")
        /\ GoOn("pack")
        /\ UNCHANGED <<input, archive>>
     \/ Leave("1") /\ UNCHANGED ignored
     \/ input > 0 /\ Meet("spawn") /\ Leave("dead")
  /\ UNCHANGED <<src, disk>>

(* The image is put together in one buffer.                                *)
Pack ==
  /\ pc = "pack"
  /\ \/ GoOn(IF call.verify THEN "verify" ELSE "open")
        /\ UNCHANGED <<input, archive, product>>
     \/ Leave("1")
  /\ UNCHANGED <<src, disk, ignored>>

(* --verify: decompress_multi from the chunks in memory, and memcmp, which *)
(* finds memory that no thread wrote equal or not, as it happens to be.    *)
Verify ==
  /\ pc = "verify"
  /\ \/ Restores(product) /\ Leave("0") /\ UNCHANGED ignored
     \/ ~Restores(product) /\ Leave("dead") /\ UNCHANGED ignored
     \/ input > 0 /\ Meet("spawn") /\ (Leave("0") \/ Leave("dead"))
     \/ Leave("1") /\ UNCHANGED ignored
  /\ UNCHANGED <<src, disk>>

-----------------------------------------------------------------------------
(* decompress_file.                                                        *)

(* Here a failed read is noticed: the file is too small.                   *)
ReadArchive ==
  /\ pc = "read" /\ call.mode = "d"
  /\ archive' \in {disk["c"], NoFile}
  /\ GoOn("parse")
  /\ UNCHANGED <<src, disk, input, product, ignored>>

ParseRefuses ==
  /\ pc = "parse"
  /\ \/ TooSmall(archive)
     \/ TruncatedTable(archive)
     \/ TruncatedPayload(archive)
     \/ ChunkOverflow(archive)
  /\ Leave("1")
  /\ UNCHANGED <<src, disk, ignored>>

(* The header and the table are in order; there is memory for the output   *)
(* and the chunk array, or there is not.                                   *)
Parse ==
  /\ pc = "parse"
  /\ ~TooSmall(archive)
  /\ ~TruncatedTable(archive)
  /\ ~TruncatedPayload(archive)
  /\ ~ChunkOverflow(archive)
  /\ \/ GoOn("decompress") /\ UNCHANGED <<input, archive, product>>
     \/ Leave("1")
  /\ UNCHANGED <<src, disk, ignored>>

(* decompress_multi.  Blocks that do not fit their place in the output     *)
(* pass for good ones (decompress_block does not hold the length against   *)
(* them); a block of length 0 is read past its end.                        *)
Decompress ==
  LET img == archive.what
      Answer(right) ==
        IF call.verify THEN Leave("0")
        ELSE /\ product' = Plain(img.size, right)
             /\ GoOn("open")
             /\ UNCHANGED <<input, archive>>
  IN /\ pc = "decompress"
     /\ \/ Answer(Restores(img)) /\ UNCHANGED ignored
        \/ Leave("1") /\ UNCHANGED ignored
        \/ /\ \E c \in BlocksOf(img) : img.lens[c] = 0
           /\ Leave("dead") /\ UNCHANGED ignored
        \/ img.size > 0 /\ Meet("spawn") /\ (Answer(FALSE) \/ Leave("dead"))
     /\ UNCHANGED <<src, disk>>

-----------------------------------------------------------------------------
(* write_entire, of either file.                                           *)

OpenFails ==
  /\ pc = "open"
  /\ Leave("1")
  /\ UNCHANGED <<src, disk, ignored>>

(* fopen(path, "wb") empties the file.                                     *)
Open ==
  /\ pc = "open"
  /\ disk' = [disk EXCEPT ![call.mode] = [what |-> product, bytes |-> 0]]
  /\ GoOn("write")
  /\ UNCHANGED <<src, input, archive, product, ignored>>

(* fwrite takes everything, some of it into the stdio buffer.              *)
Write ==
  /\ pc = "write"
  /\ \E n \in 0 .. ProductBytes : disk' = [disk EXCEPT ![call.mode].bytes = n]
  /\ GoOn("close")
  /\ UNCHANGED <<src, input, archive, product, ignored>>

WriteShort ==
  /\ pc = "write"
  /\ \E n \in 0 .. ProductBytes - 1 : disk' = [disk EXCEPT ![call.mode].bytes = n]
  /\ Leave("1")
  /\ UNCHANGED <<src, ignored>>

(* fclose writes the rest out; that it could not is not looked at.         *)
Close ==
  /\ pc = "close"
  /\ disk' = [disk EXCEPT ![call.mode].bytes = ProductBytes]
  /\ Leave("0")
  /\ UNCHANGED <<src, ignored>>

CloseFails ==
  /\ pc = "close" /\ disk[call.mode].bytes < ProductBytes
  /\ Meet("close")
  /\ Leave("0")
  /\ UNCHANGED <<src, disk>>

-----------------------------------------------------------------------------
(* The run is killed; its files stay as they are.                          *)
Kill ==
  /\ pc # "idle"
  /\ Leave("dead")
  /\ UNCHANGED <<src, disk, ignored>>

Next ==
  \/ Start
  \/ ReadSource \/ TooLarge \/ Compress \/ Pack \/ Verify
  \/ ReadArchive \/ ParseRefuses \/ Parse \/ Decompress
  \/ OpenFails \/ Open \/ Write \/ WriteShort \/ Close \/ CloseFails
  \/ Kill

Spec == Init /\ [][Next]_vars

-----------------------------------------------------------------------------
Images == UNION {UNION {ImagesOf(n, t, CompSizes \union {0}) : t \in 1 .. MaxThreads}
                   : n \in Sizes \union {0}}
ArchiveFile(f) ==
  f.what \in Images \union {NoImage} /\ f.bytes \in 0 .. ImageBytes(f.what)
PlainContents == [size : Sizes \union {0}, right : BOOLEAN]

(* The variables keep their types; in particular an image in the making    *)
(* never has a block size of 0 and a file is never longer than its data.   *)
TypeOK ==
  /\ src \in Sizes
  /\ ArchiveFile(disk["c"])
  /\ disk["d"].what \in PlainContents /\ disk["d"].bytes \in 0 .. disk["d"].what.size
  /\ pc \in {"idle", "read", "compress", "pack", "verify", "parse", "decompress",
             "open", "write", "close"}
  /\ call \in Calls
  /\ input \in {0, src}
  /\ ArchiveFile(archive)
  /\ pc \in {"pack", "verify"} => product \in Images /\ product.blk > 0
  /\ exit \in [Modes -> {"none", "0", "1", "dead"}]
  /\ ignored \in [Modes -> SUBSET Faults]

Restored == disk["d"] = [what |-> Plain(src, TRUE), bytes |-> src]

(* The round trip the command line test makes: when a compression and the  *)
(* decompression of its archive both exit 0, whatever failed in the code's *)
(* sight, the restored file is the source.                                 *)
RoundTrip ==
  (\A m \in Modes : exit[m] = "0" /\ ignored[m] = {}) => Restored

(* The same, whatever failed at all: what the test takes for granted.      *)
RoundTripAlways == (\A m \in Modes : exit[m] = "0") => Restored

(* A decompression that exits 0 read a complete archive: neither a killed  *)
(* nor a failed nor a badly closed compression leaves a file that passes.  *)
TruncationDetected ==
  exit["d"] = "0" => disk["c"].bytes = ImageBytes(disk["c"].what)

(* No file changes before its run has all of the new content in memory,    *)
(* and none in a run with --verify: a job that fails in the pool leaves an *)
(* earlier output alone.                                                   *)
PreviousOutputSurvives ==
  [][\A m \in Modes : disk'[m] # disk[m] =>
       /\ call.mode = m /\ ~call.verify
       /\ disk'[m].what = product
       /\ m = "c" => product.size = input /\ product.blk > 0]_vars
=============================================================================
