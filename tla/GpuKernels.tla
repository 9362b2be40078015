----------------------------- MODULE GpuKernels -----------------------------
(***************************************************************************)
(* An input on its way through the work items of the kernels and back.     *)
(*                                                                         *)
(* lzo1x_block_compress (lzo_gpu/lzo1x_1.cl) runs once for each block, in  *)
(* any order, and leaves a stream in a region of its own; the host gathers *)
(* the streams into the archive; the reader finds them again from their    *)
(* lengths; lzo1x_block_decompress (lzo_gpu/lzo1x_decomp.cl) runs once for *)
(* each block.  An item knows its number and six words and nobody checks   *)
(* where it reads and writes.  The CPU program writes and reads the same   *)
(* archive, so either side may be one or the other.                        *)
(*                                                                         *)
(* A byte of a stream is <<g, k>>: byte k of what block g became.  A byte  *)
(* of text is its place in the input.                                      *)
(***************************************************************************)
EXTENDS GpuBlocking

CONSTANTS
  Word,           (* 2^32: items reckon with uint.                         *)
  Shapes,         (* Sizes of inputs, with the block size chosen for each. *)
  StreamLengths   (* Lengths that streams may have.                        *)

ASSUME KernelsAssumption ==
  /\ Word \in Nat \ {0}
  /\ Shapes \subseteq [size : Nat \ {0}, blk : Nat \ {0}]
  /\ StreamLengths \subseteq Nat \ {0}

VARIABLES
  tools,      (* Who compresses and who decompresses.                      *)
  shape,      (* The input: one of Shapes.                                 *)
  stage,      (* What is being done.                                       *)
  todo,       (* The work items of this launch that have not run.          *)
  lens,       (* out_len, later the table of the archive.                  *)
  device,     (* The output buffer of the compression.                     *)
  next,       (* The index of a loop over the blocks.                      *)
  place,      (* Where block g went in the archive: host_off of each round.*)
  payload,    (* The archive after its table.                              *)
  offs,       (* off_arr.                                                  *)
  restored    (* The output of the decompression.                          *)

kvars == <<tools, shape, stage, todo, lens, device, next, place, payload, offs, restored>>

OnGpu(tool) == tool = "gpu"
Count       == BlockCount(shape.size, shape.blk)
Items       == 0 .. Count - 1
Room        == Worst(shape.blk)
Wrap(x)     == x % Word

(* Memory after a write.                                                   *)
Put(written, memory) ==
  [c \in DOMAIN written \union DOMAIN memory |->
     IF c \in DOMAIN written THEN written[c] ELSE memory[c]]

-----------------------------------------------------------------------------
(* What item g compresses.  "in_off + blk_size <= in_sz" is on words.      *)
ItemFrom(g) ==
  IF OnGpu(tools.writer) THEN Wrap(g * shape.blk) ELSE SplitOffset(shape.blk, g)

(* Slip: the last block is as long as the others. *)
ItemAlwaysWhole(g) == shape.blk

ItemLength(g) ==
  IF OnGpu(tools.writer)
  THEN IF Wrap(ItemFrom(g) + shape.blk) <= shape.size THEN shape.blk
       ELSE Wrap(shape.size - ItemFrom(g))
  ELSE SplitLength(shape.size, shape.blk, g)

(* Where it leaves the stream: "out + gid * worst_blk" is on words again,  *)
(* while the host looks for it at "i * worst_blk" of a size_t.  A thread   *)
(* of the CPU program has a buffer of its own.                             *)
HostPlace(g) == g * Room
ItemPlace(g) == IF OnGpu(tools.writer) THEN Wrap(HostPlace(g)) ELSE HostPlace(g)

KInit ==
  /\ tools \in [writer : {"cpu", "gpu"}, reader : {"cpu", "gpu"}]
  /\ shape \in Shapes
  /\ stage = "compress" /\ todo = Items
  /\ lens = [g \in Items |-> 0]
  /\ place = [g \in 0 .. Count |-> 0] /\ offs = place
  /\ next = 0
  /\ device = <<>> /\ payload = <<>> /\ restored = <<>>

(* The stream do_compress makes: all that the other items and the archive  *)
(* see of it is its length, within the worst case.                         *)
Streams(g) ==
  IF ItemLength(g) = 0 THEN {0}
  ELSE {l \in StreamLengths : l <= Worst(ItemLength(g))}

CompressItem(g) ==
  /\ stage = "compress" /\ g \in todo
  /\ \E l \in Streams(g) :
       /\ lens' = [lens EXCEPT ![g] = l]
       /\ device' = Put([c \in ItemPlace(g) .. ItemPlace(g) + l - 1
                           |-> <<g, c - ItemPlace(g)>>], device)
  /\ todo' = todo \ {g}
  /\ stage' = IF todo' = {} THEN "gather" ELSE stage
  /\ UNCHANGED <<tools, shape, next, place, payload, offs, restored>>

(* A loop over the blocks has come to the end of its round.                *)
Round(following) ==
  IF next + 1 < Count THEN next' = next + 1 /\ UNCHANGED stage
  ELSE next' = 0 /\ stage' = following

(* A byte of the output buffer; nobody wrote some of them.                 *)
DeviceCell(c) == IF c \in DOMAIN device THEN device[c] ELSE <<-1, 0>>

(* The host's copy: one block after the other, to where the last ended.    *)
GatherBlock ==
  /\ stage = "gather"
  /\ place' = [place EXCEPT ![next + 1] = place[next] + lens[next]]
  /\ payload' = Put([c \in place[next] .. place[next] + lens[next] - 1 |->
                       DeviceCell(HostPlace(next) + (c - place[next]))], payload)
  /\ Round("index")
  /\ UNCHANGED <<tools, shape, todo, lens, device, offs, restored>>

(* The reader's table: "off_arr[i+1] = off_arr[i] + len_arr[i]" on words.  *)
IndexBlock ==
  /\ stage = "index"
  /\ LET end == offs[next] + lens[next]
     IN offs' = [offs EXCEPT ![next + 1] = IF OnGpu(tools.reader) THEN Wrap(end) ELSE end]
  /\ Round("decompress")
  /\ todo' = IF stage' = "decompress" THEN Items ELSE todo
  /\ UNCHANGED <<tools, shape, lens, device, place, payload, restored>>

(* The blocks whose stream item g finds: the decoder of the GPU runs until *)
(* the end marker and its result is dropped, the CPU's knows the length.   *)
Decodes(g) ==
  {h \in Items :
     /\ lens[h] > 0
     /\ \A k \in 0 .. lens[h] - 1 :
          offs[g] + k \in DOMAIN payload /\ payload[offs[g] + k] = <<h, k>>
     /\ OnGpu(tools.reader) \/ offs[g + 1] - offs[g] = lens[h]}

OutPlace(g) ==
  IF OnGpu(tools.reader) THEN Wrap(g * shape.blk) ELSE RebuildOffset(shape.blk, g)

(* How much of block h item g writes: nobody stops the GPU.                *)
Written(g, h) ==
  IF OnGpu(tools.reader) THEN ItemLength(h)
  ELSE AtMost(ItemLength(h), RebuildLength(shape.size, shape.blk, Count, g))

DecompressItem(g) ==
  /\ stage = "decompress" /\ g \in todo
  /\ \/ \E h \in Decodes(g) :
          restored' = Put([p \in OutPlace(g) .. OutPlace(g) + Written(g, h) - 1
                             |-> ItemFrom(h) + (p - OutPlace(g))], restored)
     \/ Decodes(g) = {} /\ UNCHANGED restored
  /\ todo' = todo \ {g}
  /\ stage' = IF todo' = {} THEN "done" ELSE stage
  /\ UNCHANGED <<tools, shape, lens, device, next, place, payload, offs>>

KOver == stage = "done" /\ UNCHANGED kvars

KNext ==
  \/ \E g \in Items : CompressItem(g) \/ DecompressItem(g)
  \/ GatherBlock \/ IndexBlock \/ KOver

KSpec == KInit /\ [][KNext]_kvars

-----------------------------------------------------------------------------
(* The worst case of all blocks together fits into a word: inputs of up to *)
(* about 3.76 GiB.                                                         *)
Fits == Count * Room < Word

(* Whoever compressed and whoever decompressed, in whatever order the work *)
(* items ran and however long their streams were: what comes out is the    *)
(* input, and nothing was written beyond its end.                          *)
Restores == stage = "done" /\ Fits => restored = [p \in 0 .. shape.size - 1 |-> p]
=============================================================================
