---------------------------- MODULE FrameLayout ----------------------------
(***************************************************************************)
(* How driver_c7/dsp_driver.c divides its data memory into frames: the     *)
(* blocks that data_alloc obtains, their division by                       *)
(* DSPIOCT_SET_DATASIZE, the command that tells the card of it, and the    *)
(* offset that DSPIOCT_FRAME_POLL returns, by which a process finds the    *)
(* frame in its map of all the blocks.  Sizes count units of memory.       *)
(***************************************************************************)
EXTENDS Integers, Sequences

CONSTANTS
  BlockSize,    \* BLOCK_ALLOC_SIZE
  MaxBlocks,    \* DSP_MAX_MEM_BLOCKS
  MemSize,      \* what mcedsp_probe asks of data_alloc
  Align,        \* DMA_ADDR_ALIGN
  DefaultSize,  \* the data size that stands for one not positive
  DataSizes,    \* the data sizes asked for
  Configurers,  \* processes that issue DSPIOCT_SET_DATASIZE
  MaxConfigs,   \* bound on qt_configs
  SendFails     \* a command to the card may fail

ASSUME LayoutAssumption ==
  /\ BlockSize \in Nat \ {0} /\ MaxBlocks \in Nat /\ MemSize \in Nat
  /\ Align \in Nat \ {0} /\ DefaultSize \in Nat \ {0}
  /\ DataSizes \subseteq Int
  /\ MaxConfigs \in Nat /\ SendFails \in BOOLEAN

VARIABLES
  allocating,  \* data_alloc is in its loop
  nBlocks, start, end, \* the blocks: block b holds frames start[b]..end[b]-1
  nFrames, frameSize, dataSize, head, tail, qtConfigs,
  conf,        \* conf[p]: the configuration p is making; own: nobody has
               \* divided the memory anew since p did (history)
  offset,      \* what the last FRAME_POLL returned, -1 once consumed
  card,        \* the parameters the card has
  told         \* history: the card has taken the command of the process that
               \* made the present division, and none of another since

vars == <<allocating, nBlocks, start, end, nFrames, frameSize, dataSize, head,
          tail, qtConfigs, conf, offset, card, told>>
memory == <<allocating, nBlocks>>
division == <<start, end, nFrames, frameSize, dataSize, qtConfigs>>
frames == <<division, head, tail>>

Blocks == 1..nBlocks

(* (data_size + DMA_ADDR_ALIGN - 1) & DMA_ADDR_MASK *)
RoundUp(d) == ((d + Align - 1) \div Align) * Align

FramesPerBlock_Ceil(f) == (BlockSize + f - 1) \div f
FramesPerBlock(f) == BlockSize \div f

(* The first frame of block b, when a block has per frames. *)
StartFrame_Late(b, per) == b * per
StartFrame(b, per) == (b - 1) * per

Advance(i) == (i + 1) % nFrames

NoParams == [n |-> 0, frame |-> 0, data |-> 0, blocks |-> {}]
Idle     == [pc |-> "idle", own |-> FALSE, params |-> NoParams]

Init ==
  /\ allocating = TRUE /\ nBlocks = 0
  /\ start = <<>> /\ end = <<>>
  /\ nFrames = 0 /\ frameSize = 0 /\ dataSize = 0 /\ qtConfigs = 0
  /\ head = 0 /\ tail = 0
  /\ conf = [p \in Configurers |-> Idle]
  /\ offset = -1
  /\ card = NoParams /\ told = FALSE

-----------------------------------------------------------------------------
(* data_alloc: blocks are taken one by one until the kernel has none left  *)
(* or they are enough.                                                     *)
AllocBlock ==
  /\ allocating /\ nBlocks < MaxBlocks
  /\ nBlocks' = nBlocks + 1
  /\ start' = Append(start, 0) /\ end' = Append(end, 0)
  /\ allocating' = (nBlocks' < MaxBlocks /\ nBlocks' * BlockSize <= MemSize)
  /\ UNCHANGED <<nFrames, frameSize, dataSize, head, tail, qtConfigs, conf,
                 offset, card, told>>

AllocFails ==
  /\ allocating
  /\ allocating' = FALSE
  /\ UNCHANGED <<nBlocks, frames, conf, offset, card, told>>

(* set_transfer_params_multi under the lock. *)
Divide(p, size) ==
  /\ ~allocating
  /\ conf[p].pc = "idle"
  /\ qtConfigs < MaxConfigs
  /\ qtConfigs' = qtConfigs + 1
  /\ dataSize' = IF size <= 0 THEN DefaultSize ELSE size
  /\ frameSize' = RoundUp(dataSize')
  /\ LET per == FramesPerBlock(frameSize')
     IN /\ start' = [b \in Blocks |-> StartFrame(b, per)]
        /\ end' = [b \in Blocks |-> b * per]
        /\ nFrames' = nBlocks * per
  /\ head' = 0 /\ tail' = 0
  /\ conf' = [q \in Configurers |->
                IF q = p THEN [conf[p] EXCEPT !.pc = "sizes", !.own = TRUE]
                ELSE [conf[q] EXCEPT !.own = FALSE]]
  /\ told' = FALSE
  /\ UNCHANGED <<memory, offset, card>>

(* The command is put together without the lock: first the sizes, then     *)
(* the blocks that hold a frame.                                           *)
BuildSizes(p) ==
  /\ conf[p].pc = "sizes"
  /\ conf' = [conf EXCEPT ![p].pc = "blocks", ![p].params =
       [n |-> nFrames, frame |-> frameSize, data |-> dataSize, blocks |-> {}]]
  /\ UNCHANGED <<memory, frames, offset, card, told>>

Trivial(b) == start[b] = end[b]

BuildBlocks(p) ==
  /\ conf[p].pc = "blocks"
  /\ conf' = [conf EXCEPT ![p].pc = "send", ![p].params.blocks =
       {[base |-> b, from |-> start[b], to |-> end[b]] :
          b \in {c \in Blocks : ~Trivial(c)}}]
  /\ UNCHANGED <<memory, frames, offset, card, told>>

(* The card takes the command, or the command fails. *)
SendParams(p) ==
  /\ conf[p].pc = "send"
  /\ \/ card' = conf[p].params /\ told' = conf[p].own
     \/ SendFails /\ UNCHANGED <<card, told>>
  /\ conf' = [conf EXCEPT ![p] = Idle]
  /\ UNCHANGED <<memory, frames, offset>>

-----------------------------------------------------------------------------
(* The block of a frame, as FRAME_POLL's search finds it, and where the    *)
(* frame is in the map of the blocks.                                      *)
BlockOf(x) ==
  CHOOSE b \in Blocks : /\ start[b] <= x /\ x < end[b]
                        /\ \A c \in 1..(b - 1) : ~(start[c] <= x /\ x < end[c])

OffsetOf_Flat(x) == x * frameSize
OffsetOf(x) ==
  LET b == BlockOf(x) IN (b - 1) * BlockSize + frameSize * (x - start[b])

(* DGRAM_TYPE_BUF_INFO: the card announces a head within the ring. *)
Inform ==
  /\ head' \in 0..(nFrames - 1)
  /\ UNCHANGED <<memory, division, tail, conf, offset, card, told>>

(* DSPIOCT_EMPTY. *)
Empty ==
  /\ head' = 0 /\ tail' = 0
  /\ UNCHANGED <<memory, division, conf, offset, card, told>>

(* A frame is there, and no kill switch is pending. *)
FramePoll ==
  /\ tail # head
  /\ offset' = OffsetOf(tail)
  /\ UNCHANGED <<memory, frames, conf, card, told>>

FrameConsume ==
  /\ nFrames > 0 /\ tail # head
  /\ tail' = Advance(tail)
  /\ offset' = -1
  /\ UNCHANGED <<memory, division, head, conf, card, told>>

Next ==
  \/ AllocBlock \/ AllocFails
  \/ \E p \in Configurers :
       \/ \E size \in DataSizes : Divide(p, size)
       \/ BuildSizes(p) \/ BuildBlocks(p) \/ SendParams(p)
  \/ Inform \/ Empty \/ FramePoll \/ FrameConsume

Spec == Init /\ [][Next]_vars

-----------------------------------------------------------------------------
(* Types; head and tail are slots of the present division, so that a poll  *)
(* and a consumption never leave it, and an offset is within the memory.   *)
TypeOK ==
  /\ allocating \in BOOLEAN /\ nBlocks \in 0..MaxBlocks
  /\ start \in Seq(Nat) /\ Len(start) = nBlocks
  /\ end \in Seq(Nat) /\ Len(end) = nBlocks
  /\ nFrames \in Nat /\ frameSize \in Nat /\ dataSize \in Nat
  /\ qtConfigs \in Nat
  /\ (head = 0 \/ head < nFrames) /\ (tail = 0 \/ tail < nFrames)
  /\ \A p \in Configurers : conf[p].pc \in {"idle", "sizes", "blocks", "send"}
  /\ offset \in -1..(MaxBlocks * BlockSize)

(* FRAME_POLL's search for the block of a frame has no bound: each frame   *)
(* of the ring must be in one of the blocks there are, and in one only.    *)
SearchEnds ==
  \A x \in 0..(nFrames - 1) :
    \E b \in Blocks :
      /\ start[b] <= x /\ x < end[b]
      /\ \A c \in Blocks \ {b} : ~(start[c] <= x /\ x < end[c])

(* A frame lies within one block, so that the card can write it at         *)
(* consecutive bus addresses; no two frames share memory; and the data     *)
(* asked for fit in a frame.                                               *)
FramesApart ==
  /\ dataSize <= frameSize
  /\ \A x \in 0..(nFrames - 1) :
       /\ \A y \in 0..(x - 1) : OffsetOf(y) + frameSize <= OffsetOf(x)
       /\ OffsetOf(x) \div BlockSize = (OffsetOf(x) + frameSize - 1) \div BlockSize
       /\ OffsetOf(x) + frameSize <= nBlocks * BlockSize

(* Where the card puts frame x, by the blocks it was told of. *)
CardPlace(x) ==
  LET k == CHOOSE k \in card.blocks : k.from <= x /\ x < k.to
  IN (k.base - 1) * BlockSize + card.frame * (x - k.from)

Agreed == card.n = nFrames /\ card.frame = frameSize /\ card.data = dataSize

(* The card is never given a block without frames.  Once it has taken the  *)
(* command of the process that made the present division, and no stale one *)
(* of another since, it has the parameters of that division, its blocks    *)
(* hold all the frames of the ring, and it and FRAME_POLL find each frame  *)
(* at the same place: whoever else reads, consumes or divides the memory   *)
(* while the command is put together without the lock.  Nothing is said    *)
(* once the last command has failed, or is one that another process'       *)
(* division has overtaken.                                                 *)
SamePlace ==
  /\ \A k \in card.blocks : k.from < k.to
  /\ told =>
       /\ Agreed
       /\ UNION {k.from..(k.to - 1) : k \in card.blocks} = 0..(nFrames - 1)
       /\ \A x \in 0..(nFrames - 1) : CardPlace(x) = OffsetOf(x)
=============================================================================
