------------------------- MODULE McedspDevice_proofs -------------------------
(***************************************************************************)
(* What one card of driver_c7 is made of: the division of its data memory  *)
(* (FrameLayout) and the resources it takes and gives back (McedspLife).   *)
(*                                                                         *)
(* The memory, for any size of block, frame and memory: the search for a   *)
(* frame's block ends, frames do not overlap, and a card that has taken the *)
(* command of the present division finds each frame where the readers do.  *)
(* After any number of configurations, by any number of processes, the     *)
(* frames are divided evenly, and each division is a function of the data  *)
(* size; a command describes it unless another division has overtaken it.  *)
(*                                                                         *)
(* The resources, for any set of files.  Handler and tasklet are covered   *)
(* because the interrupt is taken last and given back first, and because   *)
(* nothing new starts once enabled is FALSE; that needs what is held at    *)
(* each place of probe and remove, and that no file is open at any of them *)
(* but "up".                                                               *)
(***************************************************************************)
EXTENDS FrameLayout, McedspLife, SequenceTheorems, TLAPS

-----------------------------------------------------------------------------
(* Arithmetic of blocks of equal size.                                     *)

LEMMA TimesMonotone ==
  ASSUME NEW a \in Int, NEW b \in Int, NEW k \in Nat, a <= b
  PROVE  a * k <= b * k
<1>1. (b - a) * k >= 0
  BY SMT
<1>2. (b - a) * k = b * k - a * k
  BY SMT
<1> QED
  BY <1>1, <1>2

LEMMA NextMultiple ==
  ASSUME NEW b \in Int, NEW k \in Int
  PROVE  /\ (b - 1) * k \in Int /\ b * k \in Int
         /\ b * k = (b - 1) * k + k
BY SMT

LEMMA Quotient ==
  ASSUME NEW x \in Nat, NEW k \in Nat \ {0}
  PROVE  /\ x \div k \in Nat
         /\ (x \div k) * k <= x
         /\ x < (x \div k) * k + k
BY SMT

(* Number x of n groups of k is in exactly one of them. *)
LEMMA InOneGroup ==
  ASSUME NEW n \in Nat, NEW k \in Nat, NEW x \in 0..(n * k - 1)
  PROVE  /\ k > 0
         /\ \E b \in 1..n :
              /\ (b - 1) * k <= x /\ x < b * k
              /\ \A c \in (1..n) \ {b} : ~((c - 1) * k <= x /\ x < c * k)
<1>1. n * k \in Nat /\ x \in Nat /\ x < n * k
  BY SMT
<1>2. k > 0
  <2>1. k = 0 => n * k = 0
    BY SMT
  <2> QED
    BY <2>1, <1>1
<1> DEFINE q == x \div k
<1>3. q \in Nat /\ q * k <= x /\ x < q * k + k
  BY <1>1, <1>2, Quotient
<1>4. q + 1 \in 1..n
  <2>1. CASE q >= n
    <3>1. n * k <= q * k
      BY <2>1, <1>3, TimesMonotone
    <3> QED
      BY <3>1, <1>1, <1>3
  <2>2. CASE q < n
    BY <2>2, <1>3
  <2> QED
    BY <2>1, <2>2, <1>3
<1>5. ((q + 1) - 1) * k = q * k /\ (q + 1) * k = q * k + k
  <2>1. (q + 1) - 1 = q
    BY <1>3
  <2>2. (q + 1) * k = ((q + 1) - 1) * k + k
    BY <1>3, NextMultiple
  <2> QED
    BY <2>1, <2>2
<1>6. ASSUME NEW c \in (1..n) \ {q + 1}
      PROVE  ~((c - 1) * k <= x /\ x < c * k)
  <2>1. (c - 1) * k \in Int /\ c * k \in Int /\ q * k \in Int
    BY <1>3, NextMultiple
  <2>2. CASE c <= q
    <3>1. c * k <= q * k
      BY <2>2, <1>3, TimesMonotone
    <3> QED
      BY <3>1, <2>1, <1>1, <1>3
  <2>3. CASE c - 1 >= q + 1
    <3>1. (q + 1) * k <= (c - 1) * k
      BY <2>3, <1>3, TimesMonotone
    <3> QED
      BY <3>1, <2>1, <1>1, <1>3, <1>5
  <2>4. c \in Int /\ c # q + 1
    OBVIOUS
  <2>5. c <= q \/ c - 1 >= q + 1
    BY <2>4, <1>3
  <2> QED
    BY <2>2, <2>3, <2>5
<1> HIDE DEF q
<1> QED
  BY <1>1, <1>2, <1>3, <1>4, <1>5, <1>6

(* Rounding up to a multiple of Align loses nothing. *)
LEMMA RoundedUp ==
  ASSUME NEW d \in Nat \ {0}
  PROVE  RoundUp(d) \in Nat \ {0} /\ d <= RoundUp(d)
<1>1. Align \in Nat \ {0} /\ d + Align - 1 \in Nat
  BY LayoutAssumption
<1> DEFINE q == (d + Align - 1) \div Align
<1>2. q \in Nat /\ d + Align - 1 < q * Align + Align
  BY <1>1, Quotient
<1>3. q * Align \in Int /\ d - 1 < q * Align
  BY <1>1, <1>2, SMT
<1> QED
  BY <1>1, <1>2, <1>3 DEF RoundUp

(* The frames of a block are not more than fit in it. *)
LEMMA FramesFit ==
  ASSUME NEW f \in Nat \ {0}
  PROVE  /\ FramesPerBlock(f) \in Nat
         /\ FramesPerBlock(f) * f <= BlockSize
BY LayoutAssumption, Quotient DEF FramesPerBlock

-----------------------------------------------------------------------------
(* The inductive invariant.                                                *)

(* What a configuration to the data size d tells the card. *)
BlocksFor(per) ==
  {[base |-> b, from |-> StartFrame(b, per), to |-> b * per] :
     b \in {c \in Blocks : StartFrame(c, per) # c * per}}

ParamsFor(d) ==
  [n |-> nBlocks * FramesPerBlock(RoundUp(d)), frame |-> RoundUp(d), data |-> d,
   blocks |-> BlocksFor(FramesPerBlock(RoundUp(d)))]

(* No configuration yet: the blocks, so far, hold no frame. *)
Undivided ==
  /\ nFrames = 0 /\ frameSize = 0 /\ dataSize = 0
  /\ start \in Seq({0}) /\ Len(start) = nBlocks
  /\ end \in Seq({0}) /\ Len(end) = nBlocks

(* The division that the last configuration made. *)
Divided ==
  /\ ~allocating
  /\ dataSize \in Nat \ {0} /\ frameSize = RoundUp(dataSize)
  /\ nFrames = nBlocks * FramesPerBlock(frameSize)
  /\ start = [b \in Blocks |-> StartFrame(b, FramesPerBlock(frameSize))]
  /\ end = [b \in Blocks |-> b * FramesPerBlock(frameSize)]

Division == nBlocks \in Nat /\ (Undivided \/ Divided)

SizesFor(d) ==
  [n |-> nBlocks * FramesPerBlock(RoundUp(d)), frame |-> RoundUp(d), data |-> d,
   blocks |-> {}]

(* The parameters on their way to the card, and those it has. *)
ParamSet ==
  [n : Int, frame : Int, data : Int,
   blocks : SUBSET [base : Int, from : Int, to : Int]]

Stages == {"idle", "sizes", "blocks", "send"}
ConfTypes ==
  conf \in [Configurers -> [pc : Stages, own : BOOLEAN, params : ParamSet]]

Filled(blocks) == \A k \in blocks : k.from < k.to

(* A command tells of blocks with frames only; if no other division has    *)
(* overtaken it, it tells of the present one.                              *)
Underway(p) ==
  /\ conf[p].pc # "idle" => Divided
  /\ conf[p].pc = "blocks" /\ conf[p].own => conf[p].params = SizesFor(dataSize)
  /\ conf[p].pc = "send" => Filled(conf[p].params.blocks)
  /\ conf[p].pc = "send" /\ conf[p].own => conf[p].params = ParamsFor(dataSize)

CardTold ==
  /\ Filled(card.blocks)
  /\ told => Divided /\ card = ParamsFor(dataSize)

Telling == ConfTypes /\ (\A p \in Configurers : Underway(p)) /\ CardTold

-----------------------------------------------------------------------------
LEMMA InitDivision == Init => Division
<1> SUFFICES ASSUME Init PROVE Division
  OBVIOUS
<1>1. start \in Seq({0}) /\ Len(start) = 0 /\ end \in Seq({0}) /\ Len(end) = 0
  BY EmptySeq DEF Init
<1> QED
  BY <1>1 DEF Init, Division, Undivided

(* A data size that is not positive stands for the default. *)
LEMMA SizeAsked ==
  ASSUME NEW p \in Configurers, NEW size \in DataSizes, Divide(p, size)
  PROVE  dataSize' \in Nat \ {0}
BY LayoutAssumption DEF Divide

LEMMA NextDivision == Division /\ [Next]_vars => Division'
<1> SUFFICES ASSUME Division, [Next]_vars PROVE Division'
  OBVIOUS
<1>1. CASE AllocBlock
  <2>1. Undivided
    BY <1>1 DEF AllocBlock, Division, Divided
  <2>2. start' \in Seq({0}) /\ Len(start') = nBlocks + 1
    BY <1>1, <2>1, AppendProperties DEF AllocBlock, Undivided
  <2>3. end' \in Seq({0}) /\ Len(end') = nBlocks + 1
    BY <1>1, <2>1, AppendProperties DEF AllocBlock, Undivided
  <2>4. nBlocks' = nBlocks + 1 /\ UNCHANGED <<nFrames, frameSize, dataSize>>
    BY <1>1 DEF AllocBlock
  <2> QED
    BY <2>1, <2>2, <2>3, <2>4 DEF Division, Undivided
<1>2. CASE AllocFails
  BY <1>2 DEF AllocFails, frames, division, Division, Undivided, Divided, Blocks
<1>3. ASSUME NEW p \in Configurers, NEW size \in DataSizes, Divide(p, size)
      PROVE  Division'
  <2>1. dataSize' \in Nat \ {0}
    BY <1>3, SizeAsked
  <2>2. /\ frameSize' = RoundUp(dataSize')
        /\ start' = [b \in Blocks |-> StartFrame(b, FramesPerBlock(frameSize'))]
        /\ end' = [b \in Blocks |-> b * FramesPerBlock(frameSize')]
        /\ nFrames' = nBlocks * FramesPerBlock(frameSize')
        /\ nBlocks' = nBlocks /\ ~allocating'
    BY <1>3 DEF Divide, memory
  <2> QED
    BY <2>1, <2>2 DEF Division, Divided, Blocks
<1>4. CASE UNCHANGED <<memory, division>>
  BY <1>4 DEF memory, division, Division, Undivided, Divided, Blocks
<1>5. CASE \/ \E p \in Configurers : BuildSizes(p) \/ BuildBlocks(p) \/ SendParams(p)
           \/ Inform \/ Empty \/ FramePoll \/ FrameConsume
  BY <1>5, <1>4 DEF BuildSizes, BuildBlocks, SendParams, Inform, Empty,
                    FramePoll, FrameConsume, frames
<1>6. CASE UNCHANGED vars
  BY <1>6, <1>4 DEF vars, memory, division
<1> QED
  BY <1>1, <1>2, <1>3, <1>5, <1>6 DEF Next

LEMMA DivisionHolds == Spec => []Division
BY InitDivision, NextDivision, PTL DEF Spec

-----------------------------------------------------------------------------
(* What the division means.                                                *)

(* Each frame of a division is in one block. *)
LEMMA FrameInBlock ==
  ASSUME Division, NEW x \in 0..(nFrames - 1)
  PROVE  /\ Divided
         /\ \E b \in Blocks :
              /\ start[b] <= x /\ x < end[b]
              /\ \A c \in Blocks \ {b} : ~(start[c] <= x /\ x < end[c])
<1>1. Divided
  BY DEF Division, Undivided
<1>2. frameSize \in Nat \ {0}
  BY <1>1, RoundedUp DEF Divided
<1> DEFINE per == FramesPerBlock(frameSize)
<1>3. per \in Nat /\ nBlocks \in Nat /\ x \in 0..(nBlocks * per - 1)
  BY <1>1, <1>2, FramesFit DEF Divided, Division
<1>4. \A b \in Blocks : start[b] = (b - 1) * per /\ end[b] = b * per
  BY <1>1 DEF Divided, StartFrame
<1> HIDE DEF per
<1>5. \E b \in 1..nBlocks :
        /\ (b - 1) * per <= x /\ x < b * per
        /\ \A c \in (1..nBlocks) \ {b} : ~((c - 1) * per <= x /\ x < c * per)
  BY <1>3, InOneGroup
<1> QED
  BY <1>1, <1>4, <1>5 DEF Blocks

(* FRAME_POLL's search, which has no bound of its own, ends: each frame of *)
(* the ring is in a block, and in one only, whatever the sizes are.        *)
THEOREM PollEnds == Spec => []SearchEnds
<1>1. Division => SearchEnds
  BY FrameInBlock DEF SearchEnds
<1> QED
  BY <1>1, DivisionHolds, PTL

-----------------------------------------------------------------------------
(* Where the frames are.                                                   *)

(* x is the i-th frame, from 0, of block b. *)
InBlock(b, x, i) ==
  /\ b \in Blocks /\ BlockOf(x) = b /\ start[b] = x - i
  /\ i \in Nat /\ i < FramesPerBlock(frameSize)

LEMMA HasBlock ==
  ASSUME Division, NEW x \in 0..(nFrames - 1)
  PROVE  \E b, i : InBlock(b, x, i)
<1>1. Divided
  BY FrameInBlock
<1>2. PICK b \in Blocks :
        /\ start[b] <= x /\ x < end[b]
        /\ \A c \in Blocks \ {b} : ~(start[c] <= x /\ x < end[c])
  BY FrameInBlock
<1>3. b \in Nat \ {0} /\ nBlocks \in Nat
  BY DEF Division, Blocks
<1>4. \A c \in 1..(b - 1) : c \in Blocks \ {b}
  BY <1>3 DEF Blocks
<1> DEFINE First(c) == /\ start[c] <= x /\ x < end[c]
                       /\ \A e \in 1..(c - 1) : ~(start[e] <= x /\ x < end[e])
<1>5. First(b)
  BY <1>2, <1>4
<1>6. \A c \in Blocks : First(c) => c = b
  BY <1>2
<1>7. BlockOf(x) = CHOOSE c \in Blocks : First(c)
  BY Zenon DEF BlockOf
<1> HIDE DEF First
<1>8. BlockOf(x) = b
  BY <1>5, <1>6, <1>7
<1> DEFINE per == FramesPerBlock(frameSize)
<1>9. per \in Nat
  BY <1>1, RoundedUp, FramesFit DEF Divided
<1>10. start[b] = (b - 1) * per /\ end[b] = b * per
  BY <1>1 DEF Divided, StartFrame
<1> HIDE DEF per
<1>11. start[b] \in Int /\ end[b] = start[b] + per
  BY <1>3, <1>9, <1>10, NextMultiple
<1>12. x \in Nat
  BY <1>1, FramesFit, RoundedUp DEF Divided
<1>13. x - start[b] \in Nat /\ x - start[b] < per /\ start[b] = x - (x - start[b])
  BY <1>2, <1>9, <1>11, <1>12
<1> QED
  BY <1>8, <1>13 DEF InBlock, per

(* Its memory, within that of the block. *)
LEMMA PlaceInBlock ==
  ASSUME Division, NEW x \in 0..(nFrames - 1), NEW b, NEW i, InBlock(b, x, i)
  PROVE  /\ frameSize \in Nat \ {0} /\ BlockSize \in Nat \ {0}
         /\ b \in Nat \ {0} /\ b <= nBlocks /\ nBlocks \in Nat
         /\ (b - 1) * BlockSize \in Nat /\ frameSize * i \in Nat
         /\ b * BlockSize = (b - 1) * BlockSize + BlockSize
         /\ OffsetOf(x) = (b - 1) * BlockSize + frameSize * i
         /\ frameSize * i + frameSize <= BlockSize
<1>1. Divided
  BY FrameInBlock
<1>2. frameSize \in Nat \ {0} /\ BlockSize \in Nat \ {0}
  BY <1>1, RoundedUp, LayoutAssumption DEF Divided
<1>3. b \in Nat \ {0} /\ b <= nBlocks /\ nBlocks \in Nat
  BY DEF InBlock, Blocks, Division
<1> DEFINE per == FramesPerBlock(frameSize)
<1>4. per \in Nat /\ per * frameSize <= BlockSize /\ i \in Nat /\ i + 1 <= per
  BY <1>2, FramesFit DEF InBlock
<1>5. x \in Nat /\ x - start[b] = i
  <2>1. x \in Int
    BY <1>1, FramesFit, RoundedUp DEF Divided
  <2>2. x \in Nat
    BY <2>1
  <2>3. start[b] = x - i
    BY DEF InBlock
  <2> QED
    BY <1>4, <2>2, <2>3
<1>6. OffsetOf(x) = (b - 1) * BlockSize + frameSize * i
  BY <1>5 DEF OffsetOf, InBlock
<1> HIDE DEF per
<1>7. (i + 1) * frameSize <= per * frameSize
  BY <1>2, <1>4, TimesMonotone
<1>8. frameSize * i \in Nat /\ (i + 1) * frameSize = frameSize * i + frameSize
  BY <1>2, <1>4, SMT
<1>9. per * frameSize \in Int
  BY <1>2, <1>4, SMT
<1>10. frameSize * i + frameSize <= BlockSize
  BY <1>2, <1>4, <1>7, <1>8, <1>9
<1>11. (b - 1) * BlockSize \in Nat
  <2>1. 0 * BlockSize <= (b - 1) * BlockSize
    BY <1>2, <1>3, TimesMonotone
  <2> QED
    BY <2>1, <1>2, <1>3, NextMultiple
<1>12. b * BlockSize = (b - 1) * BlockSize + BlockSize
  BY <1>2, <1>3, NextMultiple
<1> QED
  BY <1>2, <1>3, <1>6, <1>8, <1>10, <1>11, <1>12

(* A later frame is in the same block or a later one. *)
LEMMA LaterFrame ==
  ASSUME Division, NEW x \in 0..(nFrames - 1), NEW y \in 0..(x - 1)
  PROVE  OffsetOf(y) + frameSize <= OffsetOf(x)
<1>1. x \in Nat /\ y \in 0..(nFrames - 1) /\ y < x
  <2>1. nFrames \in Int
    <3>1. Divided
      BY FrameInBlock
    <3>2. FramesPerBlock(frameSize) \in Nat /\ nBlocks \in Nat
      BY <3>1, FramesFit, RoundedUp DEF Divided, Division
    <3> QED
      BY <3>1, <3>2 DEF Divided
  <2> QED
    BY <2>1
<1>2. PICK b, i : InBlock(b, x, i)
  BY HasBlock
<1>3. PICK c, j : InBlock(c, y, j)
  BY <1>1, HasBlock
<1>4. /\ frameSize \in Nat \ {0} /\ BlockSize \in Nat
      /\ b \in Nat \ {0} /\ i \in Nat /\ c \in Nat \ {0} /\ j \in Nat
      /\ (b - 1) * BlockSize \in Nat /\ frameSize * i \in Nat
      /\ (c - 1) * BlockSize \in Nat /\ frameSize * j \in Nat
      /\ OffsetOf(x) = (b - 1) * BlockSize + frameSize * i
      /\ OffsetOf(y) = (c - 1) * BlockSize + frameSize * j
      /\ c * BlockSize = (c - 1) * BlockSize + BlockSize
      /\ frameSize * j + frameSize <= BlockSize
  <2>1. i \in Nat /\ j \in Nat
    BY <1>2, <1>3 DEF InBlock
  <2> QED
    BY <1>1, <1>2, <1>3, <2>1, PlaceInBlock
<1>5. CASE c <= b - 1
  <2>1. c * BlockSize <= (b - 1) * BlockSize
    BY <1>4, <1>5, TimesMonotone
  <2> QED
    BY <1>4, <2>1
<1> DEFINE per == FramesPerBlock(frameSize)
<1>6. per \in Nat /\ start[b] = (b - 1) * per /\ start[c] = (c - 1) * per
  <2>1. Divided
    BY FrameInBlock
  <2> QED
    BY <1>2, <1>3, <1>4, <2>1, FramesFit DEF InBlock, Divided, StartFrame
<1>7. start[b] = x - i /\ start[c] = y - j /\ i < per /\ j < per
  BY <1>2, <1>3 DEF InBlock
<1> HIDE DEF per
<1>8. CASE c = b
  <2>1. j + 1 <= i
    BY <1>1, <1>4, <1>7, <1>8
  <2>2. (j + 1) * frameSize <= i * frameSize
    BY <1>4, <2>1, TimesMonotone
  <2>3. (j + 1) * frameSize = frameSize * j + frameSize /\ i * frameSize = frameSize * i
    BY <1>4, SMT
  <2> QED
    BY <1>4, <1>8, <2>2, <2>3
<1>9. ~(c >= b + 1)
  <2> SUFFICES ASSUME c >= b + 1 PROVE FALSE
    OBVIOUS
  <2>1. b * per <= (c - 1) * per
    BY <1>4, <1>6, TimesMonotone
  <2>2. b * per = (b - 1) * per + per /\ (b - 1) * per \in Int
    BY <1>4, <1>6, NextMultiple
  <2>3. (b - 1) * per = x - i /\ (c - 1) * per = y - j
    BY <1>6, <1>7
  <2> QED
    BY <1>1, <1>4, <1>6, <1>7, <2>1, <2>2, <2>3
<1> QED
  BY <1>4, <1>5, <1>8, <1>9

(* What is within block b has quotient b - 1. *)
LEMMA QuotientIs ==
  ASSUME NEW q \in Nat, NEW k \in Nat \ {0}, NEW r \in Nat, r < k
  PROVE  (q * k + r) \div k = q
BY SMT

(* Frames of the division lie within a block each, one after the other,    *)
(* and hold the data asked for, whatever the sizes are.                    *)
THEOREM LaidOut == Spec => []FramesApart
<1> SUFFICES ASSUME Division PROVE FramesApart
  BY DivisionHolds, PTL
<1>1. dataSize <= frameSize
  BY RoundedUp DEF Division, Undivided, Divided
<1>2. ASSUME NEW x \in 0..(nFrames - 1)
      PROVE  /\ OffsetOf(x) \div BlockSize = (OffsetOf(x) + frameSize - 1) \div BlockSize
             /\ OffsetOf(x) + frameSize <= nBlocks * BlockSize
  <2>1. PICK b, i : InBlock(b, x, i)
    BY HasBlock
  <2>2. /\ frameSize \in Nat \ {0} /\ BlockSize \in Nat \ {0}
        /\ b \in Nat \ {0} /\ b <= nBlocks /\ nBlocks \in Nat
        /\ (b - 1) * BlockSize \in Nat /\ frameSize * i \in Nat
        /\ b * BlockSize = (b - 1) * BlockSize + BlockSize
        /\ OffsetOf(x) = (b - 1) * BlockSize + frameSize * i
        /\ frameSize * i + frameSize <= BlockSize
    BY <2>1, PlaceInBlock
  <2> DEFINE q == b - 1
             r == frameSize * i
  <2>3. q \in Nat /\ r \in Nat /\ r + frameSize <= BlockSize /\ OffsetOf(x) = q * BlockSize + r
    BY <2>2
  <2> HIDE DEF q, r
  <2>4. OffsetOf(x) \div BlockSize = (OffsetOf(x) + frameSize - 1) \div BlockSize
    <3>1. r < BlockSize /\ r + frameSize - 1 \in Nat /\ r + frameSize - 1 < BlockSize
      BY <2>2, <2>3
    <3>2. (q * BlockSize + r) \div BlockSize = q
      BY <2>2, <2>3, <3>1, QuotientIs
    <3>3. (q * BlockSize + (r + frameSize - 1)) \div BlockSize = q
      BY <2>2, <2>3, <3>1, QuotientIs
    <3>4. q * BlockSize \in Int
      BY <2>2, <2>3, NextMultiple
    <3>5. OffsetOf(x) + frameSize - 1 = q * BlockSize + (r + frameSize - 1)
      BY <2>2, <2>3, <3>4
    <3> QED
      BY <2>3, <3>2, <3>3, <3>5
  <2>5. b * BlockSize <= nBlocks * BlockSize
    BY <2>2, TimesMonotone
  <2>6. nBlocks * BlockSize \in Int
    BY <2>2, NextMultiple
  <2>7. OffsetOf(x) + frameSize <= nBlocks * BlockSize
    BY <2>2, <2>5, <2>6
  <2> QED
    BY <2>4, <2>7
<1> QED
  BY <1>1, <1>2, LaterFrame DEF FramesApart

-----------------------------------------------------------------------------
(* What the card is told.                                                  *)

LEMMA ParamTypes ==
  ASSUME nBlocks \in Nat, NEW d \in Nat \ {0}
  PROVE  ParamsFor(d) \in ParamSet
<1> DEFINE per == FramesPerBlock(RoundUp(d))
<1>1. RoundUp(d) \in Nat \ {0} /\ per \in Nat
  BY RoundedUp, FramesFit
<1> HIDE DEF per
<1>2. \A b \in Blocks : b \in Int /\ StartFrame(b, per) \in Int /\ b * per \in Int
  BY <1>1, NextMultiple DEF Blocks, StartFrame
<1>3. BlocksFor(per) \in SUBSET [base : Int, from : Int, to : Int]
  BY <1>2 DEF BlocksFor
<1>4. nBlocks * per \in Int
  BY <1>1, NextMultiple
<1> QED
  BY <1>1, <1>3, <1>4 DEF ParamsFor, ParamSet, per

(* The blocks of which the card is told, for per frames in each: none is   *)
(* without frames, and they hold all the frames there are.                 *)
LEMMA BlocksTold ==
  ASSUME nBlocks \in Nat, NEW per \in Nat
  PROVE  /\ \A k \in BlocksFor(per) : k.from < k.to
         /\ UNION {k.from..(k.to - 1) : k \in BlocksFor(per)}
              = 0..(nBlocks * per - 1)
<1>1. ASSUME NEW b \in Blocks
      PROVE  /\ b \in Nat \ {0} /\ b <= nBlocks
             /\ StartFrame(b, per) \in Nat /\ b * per = StartFrame(b, per) + per
             /\ b * per <= nBlocks * per /\ nBlocks * per \in Int
  <2>1. b \in Nat \ {0} /\ b <= nBlocks
    BY DEF Blocks
  <2>2. 0 * per <= (b - 1) * per /\ b * per <= nBlocks * per
    BY <2>1, TimesMonotone
  <2>3. (b - 1) * per \in Int /\ b * per = (b - 1) * per + per
        /\ nBlocks * per \in Int /\ 0 * per = 0
    BY <2>1, NextMultiple
  <2> QED
    BY <2>1, <2>2, <2>3 DEF StartFrame
<1>2. ASSUME NEW k \in BlocksFor(per)
      PROVE  /\ k.from < k.to /\ k.from \in Nat
             /\ k.to \in Int /\ k.to <= nBlocks * per /\ nBlocks * per \in Int
  <2>1. PICK b \in Blocks :
          /\ k = [base |-> b, from |-> StartFrame(b, per), to |-> b * per]
          /\ StartFrame(b, per) # b * per
    BY DEF BlocksFor
  <2>2. k.from = StartFrame(b, per) /\ k.to = b * per
    BY <2>1
  <2> QED
    BY <1>1, <2>1, <2>2
<1>3. ASSUME NEW k \in BlocksFor(per), NEW x \in k.from..(k.to - 1)
      PROVE  x \in 0..(nBlocks * per - 1)
  BY <1>2
<1>4. ASSUME NEW x \in 0..(nBlocks * per - 1)
      PROVE  \E k \in BlocksFor(per) : x \in k.from..(k.to - 1)
  <2>1. per > 0 /\ \E b \in 1..nBlocks : (b - 1) * per <= x /\ x < b * per
    BY InOneGroup
  <2>2. PICK b \in Blocks : StartFrame(b, per) <= x /\ x < b * per
    BY <2>1 DEF Blocks, StartFrame
  <2> DEFINE k == [base |-> b, from |-> StartFrame(b, per), to |-> b * per]
  <2>3. StartFrame(b, per) \in Nat /\ b * per = StartFrame(b, per) + per
    BY <1>1
  <2>4. k \in BlocksFor(per)
    <3>1. StartFrame(b, per) # b * per
      BY <2>1, <2>3
    <3> QED
      BY <3>1 DEF BlocksFor
  <2>5. x \in StartFrame(b, per)..(b * per - 1)
    <3>1. x \in Int
      BY <2>2
    <3> QED
      BY <2>2, <2>3, <3>1
  <2>6. x \in k.from..(k.to - 1)
    BY <2>5
  <2> HIDE DEF k
  <2> QED
    BY <2>4, <2>6
<1>5. UNION {k.from..(k.to - 1) : k \in BlocksFor(per)} = 0..(nBlocks * per - 1)
  <2>1. UNION {k.from..(k.to - 1) : k \in BlocksFor(per)} \subseteq 0..(nBlocks * per - 1)
    BY <1>3
  <2>2. 0..(nBlocks * per - 1) \subseteq UNION {k.from..(k.to - 1) : k \in BlocksFor(per)}
    BY <1>4
  <2> QED
    BY <2>1, <2>2
<1> QED
  BY <1>2, <1>5

LEMMA InitTelling == Init => Telling
<1> SUFFICES ASSUME Init PROVE Telling
  OBVIOUS
<1>1. NoParams \in ParamSet /\ Filled(NoParams.blocks)
  BY DEF NoParams, ParamSet, Filled
<1>2. conf = [p \in Configurers |-> Idle] /\ card = NoParams /\ told = FALSE
  BY DEF Init
<1>3. ConfTypes
  BY <1>1, <1>2 DEF ConfTypes, Idle, Stages
<1>4. \A p \in Configurers : Underway(p)
  BY <1>2 DEF Underway, Idle
<1> QED
  BY <1>1, <1>2, <1>3, <1>4 DEF Telling, CardTold

(* Nothing that a configuration relies on has changed. *)
LEMMA SameParams ==
  ASSUME UNCHANGED <<memory, division>>
  PROVE  /\ Divided' <=> Divided
         /\ ParamsFor(dataSize)' = ParamsFor(dataSize)
         /\ SizesFor(dataSize)' = SizesFor(dataSize)
<1>1. UNCHANGED <<allocating, nBlocks, start, end, nFrames, frameSize, dataSize>>
  BY DEF memory, division
<1>2. Divided' <=> Divided
  BY <1>1 DEF Divided, Blocks
<1>3. /\ ParamsFor(dataSize)' = ParamsFor(dataSize)
      /\ SizesFor(dataSize)' = SizesFor(dataSize)
  BY <1>1 DEF ParamsFor, SizesFor, BlocksFor, Blocks
<1> QED
  BY <1>2, <1>3

LEMMA SameTelling ==
  ASSUME Telling, UNCHANGED <<memory, division, conf, card, told>>
  PROVE  Telling'
<1>1. /\ Divided' <=> Divided
      /\ ParamsFor(dataSize)' = ParamsFor(dataSize)
      /\ SizesFor(dataSize)' = SizesFor(dataSize)
  BY SameParams
<1>2. CardTold'
  BY <1>1 DEF Telling, CardTold, Filled
<1>3. ConfTypes' /\ \A p \in Configurers : Underway(p)'
  BY <1>1 DEF Telling, ConfTypes, Underway, Filled
<1> QED
  BY <1>2, <1>3 DEF Telling

(* While the memory is allocated no configuration is under way. *)
LEMMA AllocTelling ==
  ASSUME Telling, allocating, UNCHANGED <<conf, card, told>>
  PROVE  Telling'
<1>1. ~told /\ \A p \in Configurers : conf[p].pc = "idle"
  BY DEF Telling, Underway, CardTold, Divided
<1>2. ConfTypes' /\ CardTold'
  BY <1>1 DEF Telling, ConfTypes, CardTold, Filled
<1>3. \A p \in Configurers : Underway(p)'
  BY <1>1 DEF Underway
<1> QED
  BY <1>2, <1>3 DEF Telling

(* One process goes on with its command; the memory stays divided.         *)
LEMMA StepTelling ==
  ASSUME Telling, UNCHANGED <<memory, division, card, told>>,
         NEW p \in Configurers, Divided,
         NEW c \in [pc : Stages, own : BOOLEAN, params : ParamSet],
         conf' = [conf EXCEPT ![p] = c],
         c.pc = "blocks" /\ c.own => c.params = SizesFor(dataSize),
         c.pc = "send" => Filled(c.params.blocks),
         c.pc = "send" /\ c.own => c.params = ParamsFor(dataSize)
  PROVE  Telling'
<1>1. /\ Divided' <=> Divided
      /\ ParamsFor(dataSize)' = ParamsFor(dataSize)
      /\ SizesFor(dataSize)' = SizesFor(dataSize)
  BY SameParams
<1>2. CardTold'
  BY <1>1 DEF Telling, CardTold, Filled
<1>3. ConfTypes' /\ conf'[p] = c
  BY DEF Telling, ConfTypes
<1>4. \A q \in Configurers : q # p => conf'[q] = conf[q]
  BY DEF Telling, ConfTypes
<1>5. ASSUME NEW q \in Configurers PROVE Underway(q)'
  <2>1. CASE q = p
    BY <1>1, <1>3, <2>1 DEF Underway, Filled
  <2>2. CASE q # p
    BY <1>1, <1>4, <2>2 DEF Telling, Underway, Filled
  <2> QED
    BY <2>1, <2>2
<1> QED
  BY <1>2, <1>3, <1>5 DEF Telling

(* A new division overtakes all the commands but that of its own process. *)
LEMMA DivideTelling ==
  ASSUME Division, Telling,
         NEW p \in Configurers, NEW size \in DataSizes, Divide(p, size)
  PROVE  Telling'
<1>1. Divided'
  <2>1. Division'
    BY NextDivision DEF Next
  <2>2. dataSize' \in Nat \ {0}
    BY SizeAsked
  <2> QED
    BY <2>1, <2>2 DEF Division, Undivided
<1>2. /\ conf' = [q \in Configurers |->
                    IF q = p THEN [conf[p] EXCEPT !.pc = "sizes", !.own = TRUE]
                    ELSE [conf[q] EXCEPT !.own = FALSE]]
      /\ told' = FALSE /\ card' = card
  BY DEF Divide
<1>3. ConfTypes'
  BY <1>2 DEF Telling, ConfTypes, Stages
<1>4. ASSUME NEW q \in Configurers PROVE Underway(q)'
  <2>1. CASE q = p
    <3>1. conf'[q].pc = "sizes"
      BY <1>2, <2>1 DEF Telling, ConfTypes
    <3> QED
      BY <1>1, <3>1 DEF Underway
  <2>2. CASE q # p
    <3>1. /\ conf'[q].own = FALSE /\ conf'[q].pc = conf[q].pc
          /\ conf'[q].params = conf[q].params
      BY <1>2, <2>2 DEF Telling, ConfTypes
    <3> QED
      BY <1>1, <3>1 DEF Telling, Underway, Filled
  <2> QED
    BY <2>1, <2>2
<1>5. CardTold'
  BY <1>2 DEF Telling, CardTold, Filled
<1> QED
  BY <1>3, <1>4, <1>5 DEF Telling

LEMMA SizesTelling ==
  ASSUME Division, Telling, NEW p \in Configurers, BuildSizes(p)
  PROVE  Telling'
<1> DEFINE new == [n |-> nFrames, frame |-> frameSize, data |-> dataSize,
                   blocks |-> {}]
           c == [conf[p] EXCEPT !.pc = "blocks", !.params = new]
<1>1. /\ conf[p].pc = "sizes"
      /\ UNCHANGED <<memory, division, card, told>>
  BY DEF BuildSizes, frames
<1>2. Divided
  BY <1>1 DEF Telling, Underway
<1>3. new = SizesFor(dataSize)
  BY <1>2 DEF Divided, SizesFor
<1>4. new \in ParamSet
  <2>1. ParamsFor(dataSize) \in ParamSet
    BY <1>2, ParamTypes DEF Divided, Division
  <2> QED
    BY <1>3, <2>1 DEF ParamSet, ParamsFor, SizesFor
<1>5. conf' = [conf EXCEPT ![p] = c]
  BY DEF BuildSizes
<1> HIDE DEF new
<1>6. c \in [pc : Stages, own : BOOLEAN, params : ParamSet]
  BY <1>4 DEF Telling, ConfTypes, Stages
<1>7. conf[p] \in [pc : Stages, own : BOOLEAN, params : ParamSet]
  BY DEF Telling, ConfTypes
<1>8. c.pc = "blocks" /\ c.params = new
  BY <1>7
<1> HIDE DEF c
<1> QED
  BY <1>1, <1>2, <1>3, <1>5, <1>6, <1>8, StepTelling

LEMMA ListTelling ==
  ASSUME Division, Telling, NEW p \in Configurers, BuildBlocks(p)
  PROVE  Telling'
<1> DEFINE list == {[base |-> b, from |-> start[b], to |-> end[b]] :
                      b \in {e \in Blocks : ~Trivial(e)}}
           c == [conf[p] EXCEPT !.pc = "send", !.params.blocks = list]
           per == FramesPerBlock(RoundUp(dataSize))
<1>1. /\ conf[p].pc = "blocks"
      /\ UNCHANGED <<memory, division, card, told>>
  BY DEF BuildBlocks, frames
<1>2. Divided
  BY <1>1 DEF Telling, Underway
<1>3. list = BlocksFor(per)
  BY <1>2 DEF Divided, BlocksFor, Trivial
<1>4. per \in Nat /\ nBlocks \in Nat
  BY <1>2, RoundedUp, FramesFit DEF Divided, Division
<1>5. conf' = [conf EXCEPT ![p] = c]
  BY DEF BuildBlocks
<1> HIDE DEF list, per
<1>6. Filled(list)
  BY <1>3, <1>4, BlocksTold DEF Filled
<1>7. list \in SUBSET [base : Int, from : Int, to : Int]
  <2>1. ParamsFor(dataSize) \in ParamSet
    BY <1>2, ParamTypes DEF Divided, Division
  <2> QED
    BY <1>3, <2>1 DEF ParamSet, ParamsFor, per
<1>8. conf[p] \in [pc : Stages, own : BOOLEAN, params : ParamSet]
  BY DEF Telling, ConfTypes
<1>9. /\ c.pc = "send" /\ c.own = conf[p].own /\ c.params.blocks = list
      /\ c.params = [conf[p].params EXCEPT !.blocks = list]
  BY <1>8 DEF ParamSet
<1>10. c \in [pc : Stages, own : BOOLEAN, params : ParamSet]
  BY <1>7, <1>8 DEF ParamSet, Stages
<1>11. conf[p].own => c.params = ParamsFor(dataSize)
  BY <1>1, <1>3, <1>9 DEF Telling, Underway, ParamsFor, SizesFor, per
<1> HIDE DEF c
<1> QED
  BY <1>1, <1>2, <1>5, <1>6, <1>9, <1>10, <1>11, StepTelling

LEMMA SendTelling ==
  ASSUME Telling, NEW p \in Configurers, SendParams(p)
  PROVE  Telling'
<1>1. /\ conf[p].pc = "send" /\ conf' = [conf EXCEPT ![p] = Idle]
      /\ \/ card' = conf[p].params /\ told' = conf[p].own
         \/ UNCHANGED <<card, told>>
      /\ UNCHANGED <<memory, division>>
  BY DEF SendParams, frames
<1>2. /\ Divided' <=> Divided
      /\ ParamsFor(dataSize)' = ParamsFor(dataSize)
      /\ SizesFor(dataSize)' = SizesFor(dataSize)
  BY <1>1, SameParams
<1>3. CardTold'
  BY <1>1, <1>2 DEF Telling, Underway, CardTold, Filled
<1>4. Idle \in [pc : Stages, own : BOOLEAN, params : ParamSet]
  BY DEF Idle, NoParams, ParamSet, Stages
<1>5. ConfTypes'
  BY <1>1, <1>4 DEF Telling, ConfTypes
<1>6. ASSUME NEW q \in Configurers PROVE Underway(q)'
  <2>1. CASE q = p
    <3>1. conf'[q].pc = "idle"
      BY <1>1, <2>1 DEF Telling, ConfTypes, Idle
    <3> QED
      BY <3>1 DEF Underway
  <2>2. CASE q # p
    <3>1. conf'[q] = conf[q]
      BY <1>1, <2>2 DEF Telling, ConfTypes
    <3> QED
      BY <1>2, <3>1 DEF Telling, Underway, Filled
  <2> QED
    BY <2>1, <2>2
<1> QED
  BY <1>3, <1>5, <1>6 DEF Telling

LEMMA NextTelling == Division /\ Telling /\ [Next]_vars => Telling'
<1> SUFFICES ASSUME Division, Telling, [Next]_vars PROVE Telling'
  OBVIOUS
<1>1. CASE AllocBlock \/ AllocFails
  BY <1>1, AllocTelling DEF AllocBlock, AllocFails
<1>2. ASSUME NEW p \in Configurers,
             \/ \E size \in DataSizes : Divide(p, size)
             \/ BuildSizes(p) \/ BuildBlocks(p) \/ SendParams(p)
      PROVE  Telling'
  BY <1>2, DivideTelling, SizesTelling, ListTelling, SendTelling
<1>3. CASE Inform \/ Empty \/ FramePoll \/ FrameConsume
  BY <1>3, SameTelling DEF Inform, Empty, FramePoll, FrameConsume, frames
<1>4. CASE UNCHANGED vars
  BY <1>4, SameTelling DEF vars, memory, division
<1> QED
  BY <1>1, <1>2, <1>3, <1>4 DEF Next

LEMMA TellingHolds == Spec => [](Division /\ Telling)
<1>1. Init => Division /\ Telling
  BY InitDivision, InitTelling
<1>2. Division /\ Telling /\ [Next]_vars => (Division /\ Telling)'
  BY NextDivision, NextTelling
<1> QED
  BY <1>1, <1>2, PTL DEF Spec

(* A card that has the present sizes has the present blocks, and finds a   *)
(* frame among them where FRAME_POLL does.                                 *)
LEMMA SamePlaceOf ==
  ASSUME Division, NEW x \in 0..(nFrames - 1),
         card.blocks = BlocksFor(FramesPerBlock(frameSize)),
         card.frame = frameSize
  PROVE  CardPlace(x) = OffsetOf(x)
<1> DEFINE per == FramesPerBlock(frameSize)
           Holds(k) == k.from <= x /\ x < k.to
           Told(b) == [base |-> b, from |-> start[b], to |-> end[b]]
<1>1. /\ \A b \in Blocks : start[b] = StartFrame(b, per) /\ end[b] = b * per
      /\ per \in Nat
  BY FrameInBlock, RoundedUp, FramesFit DEF Divided
<1>2. PICK b \in Blocks :
        /\ start[b] <= x /\ x < end[b]
        /\ \A c \in Blocks \ {b} : ~(start[c] <= x /\ x < end[c])
  BY FrameInBlock
<1>3. BlockOf(x) = b
  <2>1. PICK c, i : InBlock(c, x, i)
    BY HasBlock
  <2>2. c \in Blocks /\ BlockOf(x) = c /\ start[c] = x - i /\ i \in Nat /\ i < per
    BY <2>1 DEF InBlock
  <2>3. c \in Nat /\ end[c] = start[c] + per /\ start[c] \in Int
    <3>1. c \in Nat
      BY <2>2 DEF Blocks, Division
    <3>2. end[c] = c * per /\ start[c] = (c - 1) * per
      BY <1>1, <2>2 DEF StartFrame
    <3> QED
      BY <1>1, <3>1, <3>2, NextMultiple
  <2>4. start[c] <= x /\ x < end[c]
    BY <1>1, <2>2, <2>3
  <2> QED
    BY <1>2, <2>2, <2>4
<1> HIDE DEF per
<1>4. start[b] # end[b]
  <2>1. x \in Int /\ start[b] \in Int /\ end[b] \in Int
    <3>1. b \in Nat
      BY DEF Blocks, Division
    <3>2. end[b] = b * per /\ start[b] = (b - 1) * per
      BY <1>1 DEF StartFrame
    <3> QED
      BY <1>1, <3>1, <3>2, NextMultiple
  <2> QED
    BY <1>2, <2>1
<1>5. card.blocks = {Told(c) : c \in {c \in Blocks : start[c] # end[c]}}
  <2>1. card.blocks = BlocksFor(per)
    BY DEF per
  <2> QED
    BY <1>1, <2>1 DEF BlocksFor
<1>6. Told(b) \in card.blocks /\ Holds(Told(b))
  BY <1>2, <1>4, <1>5
<1>7. \A k \in card.blocks : Holds(k) => k = Told(b)
  BY <1>2, <1>5
<1>8. (CHOOSE k \in card.blocks : Holds(k)) = Told(b)
  <2> HIDE DEF Holds, Told
  <2> QED
    BY <1>6, <1>7
<1>9. CardPlace(x) = (b - 1) * BlockSize + card.frame * (x - start[b])
  <2>1. CardPlace(x) = (Told(b).base - 1) * BlockSize + card.frame * (x - Told(b).from)
    BY <1>8 DEF CardPlace
  <2> QED
    BY <2>1
<1> QED
  BY <1>3, <1>9 DEF OffsetOf

(* For any number of configurers: the card is told of blocks with frames   *)
(* only, and once it has taken the command of the process that made the    *)
(* present division, it has its parameters and all of its blocks, and it   *)
(* and the readers find each frame at the same place.                      *)
THEOREM CardAgrees == Spec => []SamePlace
<1>1. Division /\ Telling => SamePlace
  <2> SUFFICES ASSUME Division, Telling PROVE SamePlace
    OBVIOUS
  <2>1. Filled(card.blocks) /\ nBlocks \in Nat
    BY DEF Telling, CardTold, Division
  <2>2. ASSUME told
        PROVE  /\ Agreed
               /\ UNION {k.from..(k.to - 1) : k \in card.blocks} = 0..(nFrames - 1)
               /\ \A x \in 0..(nFrames - 1) : CardPlace(x) = OffsetOf(x)
    <3> DEFINE per == FramesPerBlock(frameSize)
    <3>1. Divided /\ card = ParamsFor(dataSize)
      BY <2>2 DEF Telling, CardTold
    <3>2. dataSize \in Nat \ {0} /\ frameSize = RoundUp(dataSize) /\ nFrames = nBlocks * per
      BY <3>1 DEF Divided
    <3>3. /\ card.n = nFrames /\ card.frame = frameSize /\ card.data = dataSize
          /\ card.blocks = BlocksFor(per)
      BY <3>1, <3>2 DEF ParamsFor
    <3>4. per \in Nat
      BY <3>2, RoundedUp, FramesFit
    <3> HIDE DEF per
    <3>5. UNION {k.from..(k.to - 1) : k \in card.blocks} = 0..(nFrames - 1)
      BY <2>1, <3>2, <3>3, <3>4, BlocksTold
    <3>6. \A x \in 0..(nFrames - 1) : CardPlace(x) = OffsetOf(x)
      BY <3>3, SamePlaceOf DEF per
    <3> QED
      BY <3>3, <3>5, <3>6 DEF Agreed
  <2> QED
    BY <2>1, <2>2 DEF SamePlace, Filled
<1> QED
  BY <1>1, TellingHolds, PTL

-----------------------------------------------------------------------------
(* What is taken and given back: McedspLife.                               *)

(* Places before the interrupt can come, and places at which it is over. *)
BeforeIrq  == {"blocks", "reply", "device", "regions", "regs", "check", "irq"}
AfterLower == {"dspTimer", "mceTimer", "grantlet", "freeIrq", "freeReply",
               "freeBlocks", "unmap", "release", "out"}

FilesOpen == \A f \in Files : file[f] # "closed" => core = "up"

(* What is held, and that the pointers by which it is given back are set. *)
Taken ==
  /\ "reply" \in held => "reply" \in ptr
  /\ "regs" \in held => "regs" \in ptr
  /\ core \in {"device", "regions", "regs", "check", "irq"} => "reply" \in held
  /\ core = "reply" => "reply" \notin held
  /\ core \in {"reply", "device", "regions", "regs"} => "regs" \notin held
  /\ core \in {"check", "irq", "shake", "upload", "collect", "up"} => "regs" \in held
  /\ "irq" \in held => "regs" \in held /\ "reply" \in held

GivenBack ==
  /\ core \in {"out", "blocks"} => held = {}
  /\ core \in {"freeReply", "freeBlocks", "unmap", "release"} => "irq" \notin held
  /\ core \in {"freeBlocks", "unmap", "release"} => "reply" \notin held
  /\ core \in {"unmap", "release"} => "blocks" \notin held
  /\ core = "release" => "regs" \notin held

Started ==
  /\ isr => "irq" \in held
  /\ enabled => core \in {"upload", "collect", "up", "disable"}

(* Without slow handlers nothing runs on after mcedsp_remove has slept. *)
Quieted ==
  "slow" \notin faults =>
    /\ core \in BeforeIrq \cup AfterLower => Settled
    /\ ~Settled => "regs" \in held
    /\ core \in AfterLower \ {"dspTimer"} => "dsp" \notin timers
    /\ core \in AfterLower \ {"dspTimer", "mceTimer"} => "mce" \notin timers

(* A removal without registers is that of a probe that failed early; no    *)
(* command was ever sent, so no timer runs.                                *)
Stranded ==
  /\ core = "oops" => "regs" \notin held
  /\ core \in {"disable", "lower", "oops"} /\ "regs" \notin held =>
       "early" \in faults /\ ("slow" \notin faults => timers = {})
  /\ core \in BeforeIrq /\ "slow" \notin faults => timers = {}

LifeInv ==
  /\ LifeTypeOK /\ FilesOpen /\ Taken /\ GivenBack /\ Started /\ Quieted
  /\ Stranded /\ LockKept

-----------------------------------------------------------------------------
(* Initially nothing is held, started or open. *)
LEMMA InitLife == LifeInit => LifeInv
<1> SUFFICES ASSUME LifeInit PROVE LifeInv
  OBVIOUS
<1>1. LifeTypeOK
  BY DEF LifeInit, LifeTypeOK
<1>2. FilesOpen /\ Taken /\ GivenBack /\ Started
  BY DEF LifeInit, FilesOpen, Taken, GivenBack, Started
<1>3. Quieted
  BY DEF LifeInit, Quieted, Settled
<1>4. Stranded
  BY DEF LifeInit, Stranded, BeforeIrq
<1>5. LockKept
  BY LifeAssumption DEF LifeInit, LockKept
<1> QED
  BY <1>1, <1>2, <1>3, <1>4, <1>5 DEF LifeInv

(* A card is found: of the one before nothing is left. *)
LEMMA StartLife == LifeInv /\ UNCHANGED faults /\ StartProbe => LifeInv'
<1> SUFFICES ASSUME LifeInv, UNCHANGED faults, StartProbe PROVE LifeInv'
  OBVIOUS
<1>1. /\ core = "out" /\ core' = "blocks" /\ ptr' = {} /\ enabled' = FALSE
      /\ sent' = FALSE /\ dataLock' = NoFile
      /\ UNCHANGED <<held, isr, grantlet, timers, file, owners>>
  BY DEF StartProbe
<1>2. held = {}
  BY <1>1 DEF LifeInv, GivenBack
<1>3. "slow" \notin faults => Settled /\ timers = {}
  BY <1>1 DEF LifeInv, LifeTypeOK, Quieted, AfterLower
<1>4. \A f \in Files : file[f] = "closed"
  BY <1>1 DEF LifeInv, FilesOpen
<1>5. dataLock = NoFile
  BY <1>4 DEF LifeInv, LifeTypeOK, LockKept
<1>6. LifeTypeOK'
  BY <1>1 DEF LifeInv, LifeTypeOK, Probing
<1>7. FilesOpen' /\ LockKept'
  BY <1>1, <1>4, <1>5 DEF LifeInv, FilesOpen, LockKept
<1>8. Taken' /\ GivenBack' /\ Started'
  BY <1>1, <1>2 DEF LifeInv, Taken, GivenBack, Started
<1>9. Quieted' /\ Stranded'
  BY <1>1, <1>3 DEF Quieted, Stranded, Settled, BeforeIrq, AfterLower
<1> QED
  BY <1>6, <1>7, <1>8, <1>9 DEF LifeInv

(* A step of mcedsp_probe preserves the invariant. *)
LEMMA ProbeLife == LifeInv /\ UNCHANGED faults /\ Probe => LifeInv'
<1> USE LifeAssumption
    DEF LifeInv, LifeTypeOK, FilesOpen, Taken, GivenBack, Started, Quieted, Stranded,
        LockKept, Settled, Resource, Probing, Removing, BeforeIrq, AfterLower, work, user
<1> SUFFICES ASSUME LifeInv, UNCHANGED faults, Probe PROVE LifeInv'
  OBVIOUS
<1>1. CASE StartProbe
  BY <1>1, StartLife
<1>2. CASE Take("blocks", "reply")
  BY <1>2 DEF Take
<1>3. CASE Take("reply", "device")
  BY <1>3 DEF Take
<1>4. CASE Take("device", "regions")
  BY <1>4 DEF Take
<1>5. CASE Take("regions", "regs")
  BY <1>5 DEF Take
<1>6. CASE Take("regs", "check")
  BY <1>6 DEF Take
<1>7. CASE CheckCard
  BY <1>7 DEF CheckCard
<1>8. CASE Take("irq", "shake")
  BY <1>8 DEF Take
<1>9. CASE Handshake
  BY ZenonT(60), <1>9 DEF Handshake
<1>10. CASE UploadSend
  BY <1>10 DEF UploadSend
<1>11. CASE UploadDone
  BY ZenonT(60), <1>11 DEF UploadDone
<1> QED
  BY <1>1, <1>2, <1>3, <1>4, <1>5, <1>6, <1>7, <1>8, <1>9, <1>10, <1>11 DEF Probe

(* A step of mcedsp_remove preserves the invariant: each resource goes     *)
(* after what uses it.                                                     *)
LEMMA RemoveLife == LifeInv /\ UNCHANGED faults /\ Remove => LifeInv'
<1> USE LifeAssumption
    DEF LifeInv, LifeTypeOK, FilesOpen, Taken, GivenBack, Started, Quieted, Stranded,
        LockKept, Settled, Resource, Probing, Removing, BeforeIrq, AfterLower, work, user
<1> SUFFICES ASSUME LifeInv, UNCHANGED faults, Remove PROVE LifeInv'
  OBVIOUS
<1>1. CASE StartRemove
  BY <1>1 DEF StartRemove, InUse
<1>2. CASE Disable
  BY <1>2 DEF Disable, Cleared
<1>3. CASE Lower
  BY <1>3 DEF Lower
<1>4. CASE DelTimerSync("dspTimer", "dsp", "mceTimer")
  BY <1>4 DEF DelTimerSync
<1>5. CASE DelTimerSync("mceTimer", "mce", "grantlet")
  BY <1>5 DEF DelTimerSync
<1>6. CASE TaskletKill
  BY <1>6 DEF TaskletKill
<1>7. CASE FreeIrq
  BY <1>7 DEF FreeIrq, IsrGone
<1>8. CASE FreeReply
  BY <1>8 DEF FreeReply
<1>9. CASE DataFree
  BY <1>9 DEF DataFree, FreedBlocks
<1>10. CASE Unmap
  BY <1>10 DEF Unmap
<1>11. CASE Release
  BY <1>11 DEF Release
<1>12. CASE LowerFaults
  BY <1>12 DEF LowerFaults
<1> QED
  BY <1>1, <1>2, <1>3, <1>4, <1>5, <1>6, <1>7, <1>8, <1>9, <1>10, <1>11, <1>12
  DEF Remove

(* So does a reboot: where mcedsp_remove has faulted nothing runs. *)
LEMMA RebootLife == LifeInv /\ UNCHANGED faults /\ Reboot => LifeInv'
<1> SUFFICES ASSUME LifeInv, UNCHANGED faults, Reboot PROVE LifeInv'
  OBVIOUS
<1>1. /\ core = "oops" /\ core' = "out" /\ held' = {} /\ "regs" \notin held
      /\ UNCHANGED <<ptr, enabled, work, user>>
  BY DEF Reboot, LifeInv, Stranded
<1>2. ~isr /\ ~enabled
  BY <1>1 DEF LifeInv, Started, Taken
<1>3. "slow" \notin faults => Settled /\ timers = {}
  BY <1>1 DEF LifeInv, Quieted, Stranded
<1>4. LifeTypeOK' /\ FilesOpen' /\ LockKept'
  BY <1>1 DEF LifeInv, LifeTypeOK, FilesOpen, LockKept, work, user
<1>5. Taken' /\ GivenBack' /\ Started' /\ Stranded'
  BY <1>1, <1>2 DEF Taken, GivenBack, Started, Stranded, BeforeIrq, work
<1>6. Quieted'
  BY <1>1, <1>3 DEF Quieted, Settled, work
<1> QED
  BY <1>4, <1>5, <1>6 DEF LifeInv

(* Interrupt, tasklet and timers preserve it: they start only while the    *)
(* driver is enabled, with the interrupt held.                             *)
LEMMA WorkLife ==
  ASSUME LifeInv, UNCHANGED faults,
         \/ Interrupt \/ IsrServe \/ GrantStart \/ GrantSend
         \/ \E t \in {"dsp", "mce"} : Timeout(t)
  PROVE  LifeInv'
<1>1. CASE Interrupt
  BY <1>1
  DEF Interrupt, LifeInv, LifeTypeOK, FilesOpen, Taken, GivenBack, Started, Quieted,
      Stranded, LockKept, Settled, BeforeIrq, AfterLower, user
<1>2. CASE IsrServe
  BY ZenonT(60), <1>2
  DEF IsrServe, LifeInv, LifeTypeOK, FilesOpen, Taken, GivenBack, Started, Quieted,
      Stranded, LockKept, Settled, BeforeIrq, AfterLower, user
<1>3. CASE GrantStart
  BY <1>3
  DEF GrantStart, LifeInv, LifeTypeOK, FilesOpen, Taken, GivenBack, Started, Quieted,
      Stranded, LockKept, Settled, BeforeIrq, AfterLower, user
<1>4. CASE GrantSend
  <2>1. LifeTypeOK'
    BY <1>4 DEF GrantSend, LifeInv, LifeTypeOK, user
  <2>2. Quieted'
    BY <1>4 DEF GrantSend, LifeInv, LifeTypeOK, Quieted, Settled
  <2>3. Stranded'
    BY <1>4 DEF GrantSend, LifeInv, Quieted, Stranded, Settled
  <2> QED
    BY <1>4, <2>1, <2>2, <2>3
    DEF GrantSend, LifeInv, FilesOpen, Taken, GivenBack, Started, LockKept, user
<1>5. CASE \E t \in {"dsp", "mce"} : Timeout(t)
  <2> PICK t \in {"dsp", "mce"} : Timeout(t)
    BY <1>5
  <2>1. LifeTypeOK'
    BY DEF Timeout, LifeInv, LifeTypeOK, user
  <2>2. Quieted'
    BY DEF Timeout, LifeInv, LifeTypeOK, Quieted, Settled
  <2>3. Stranded'
    BY DEF Timeout, LifeInv, Stranded
  <2> QED
    BY <2>1, <2>2, <2>3
    DEF Timeout, LifeInv, FilesOpen, Taken, GivenBack, Started, LockKept, user
<1> QED
  BY <1>1, <1>2, <1>3, <1>4, <1>5

(* What files do preserves it: they are open only while the card is up, and *)
(* the data lock is given up by its owner alone.                            *)
LEMMA FileLife ==
  ASSUME LifeInv, UNCHANGED faults, NEW f \in Files,
         \/ Open(f) \/ Ioctl(f) \/ IoctlEnd(f)
         \/ LockDown(f) \/ LockUp(f) \/ LockReset(f) \/ Close(f)
  PROVE  LifeInv'
<1>1. CASE IoctlEnd(f)
  <2>1. /\ core = "up"
        /\ UNCHANGED <<core, held, ptr, isr, grantlet, dataLock, owners>>
    BY <1>1 DEF IoctlEnd, LifeInv, FilesOpen
  <2>2. LifeTypeOK'
    BY <1>1 DEF IoctlEnd, LifeInv, LifeTypeOK
  <2>3. LockKept' /\ FilesOpen'
    BY <1>1, <2>1 DEF IoctlEnd, LifeInv, LifeTypeOK, LockKept, FilesOpen
  <2>4. Taken' /\ GivenBack' /\ Started'
    BY <2>1 DEF LifeInv, Taken, GivenBack, Started
  <2>5. Quieted' /\ Stranded'
    BY <2>1 DEF LifeInv, Quieted, Stranded, Settled, BeforeIrq, AfterLower
  <2> QED
    BY <2>2, <2>3, <2>4, <2>5 DEF LifeInv
<1> USE LifeAssumption
    DEF LifeInv, LifeTypeOK, FilesOpen, Taken, GivenBack, Started, Quieted, Stranded,
        LockKept, Settled, Resource, Probing, Removing, BeforeIrq, AfterLower, work, user
<1>2. CASE Open(f)
  BY <1>2 DEF Open
<1>3. CASE Ioctl(f)
  BY <1>3 DEF Ioctl
<1>4. CASE LockDown(f)
  BY <1>4 DEF LockDown
<1>5. CASE LockUp(f)
  BY <1>5 DEF LockUp, Unlocked
<1>6. CASE LockReset(f)
  BY <1>6 DEF LockReset
<1>7. CASE Close(f)
  BY <1>7 DEF Close, Unlocked
<1> QED
  BY <1>1, <1>2, <1>3, <1>4, <1>5, <1>6, <1>7

(* The invariant is inductive. *)
LEMMA NextLife == LifeInv /\ [LifeNext]_lifeVars => LifeInv'
<1> SUFFICES ASSUME LifeInv, [LifeNext]_lifeVars PROVE LifeInv'
  OBVIOUS
<1>1. CASE LifeNext
  BY <1>1, ProbeLife, RemoveLife, RebootLife, WorkLife, FileLife DEF LifeNext
<1>2. CASE UNCHANGED lifeVars
  BY <1>2
  DEF lifeVars, LifeInv, LifeTypeOK, FilesOpen, Taken, GivenBack, Started, Quieted,
      Stranded, LockKept, Settled
<1> QED
  BY <1>1, <1>2

-----------------------------------------------------------------------------
(* Handler and tasklet never run without registers and reply buffer. *)
THEOREM Covered == LifeSpec => []UsersCovered
<1>1. LifeInv => UsersCovered
  BY DEF LifeInv, LifeTypeOK, Started, Taken, Quieted, Settled, UsersCovered
<1> QED
  BY <1>1, InitLife, NextLife, PTL DEF LifeSpec

(* When mcedsp_remove has come to its end nothing of the card is left, and *)
(* it comes to its end after every probe that had mapped the registers.    *)
THEOREM Cleaned == LifeSpec => []NothingLeft
<1>1. LifeInv => NothingLeft
  BY DEF LifeInv, LifeTypeOK, GivenBack, Started, Quieted, Stranded, AfterLower,
         Settled, NothingLeft
<1> QED
  BY <1>1, InitLife, NextLife, PTL DEF LifeSpec

(* The data lock is kept by the open file that took it. *)
THEOREM LockOwned == LifeSpec => []LockKept
<1>1. LifeInv => LockKept
  BY DEF LifeInv
<1> QED
  BY <1>1, InitLife, NextLife, PTL DEF LifeSpec

=============================================================================
