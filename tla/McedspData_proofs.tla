-------------------------- MODULE McedspData_proofs --------------------------
(***************************************************************************)
(* Theorems about McedspData, for any sizes of the ring and any bounds:    *)
(* types and the range of the tail however configuration, EMPTY, the kill  *)
(* switch and interrupts mix; and, when the ring is configured between     *)
(* acquisitions and nobody issues EMPTY, the order of the indices and the  *)
(* refinement of FrameFifo, whatever commands are refused or lost.         *)
(***************************************************************************)
EXTENDS McedspData, SequenceTheorems, TLAPS

-----------------------------------------------------------------------------
(* Indices modulo the size of the ring.                                    *)

(* The distance from slot a to slot b is that of the plain indices, and    *)
(* once round when b has wrapped and a has not.                            *)
LEMMA DistIs ==
  ASSUME NEW n \in Nat \ {0}, NEW a \in 0..(n - 1), NEW b \in 0..(n - 1)
  PROVE  Dist(n, a, b) = IF a <= b THEN b - a ELSE b - a + n
<1>1. CASE a <= b
  <2>1. b - a + n = n * 1 + (b - a) /\ b - a \in 0..(n - 1)
    BY <1>1
  <2> QED
    BY <1>1, <2>1 DEF Dist
<1>2. CASE a > b
  <2>1. b - a + n \in 0..(n - 1)
    BY <1>2
  <2> QED
    BY <1>2, <2>1 DEF Dist
<1> QED
  BY <1>1, <1>2

(* The next slot of the ring. *)
LEMMA NextIs ==
  ASSUME NEW n \in Nat \ {0}, NEW i \in 0..(n - 1)
  PROVE  (i + 1) % n = IF i + 1 = n THEN 0 ELSE i + 1
<1>1. CASE i + 1 = n
  BY <1>1
<1>2. CASE i + 1 < n
  BY <1>2
<1> QED
  BY <1>1, <1>2

(* Distances are smaller than the ring, and tell slots apart. *)
LEMMA DistRange ==
  ASSUME NEW n \in Nat \ {0}, NEW a \in 0..(n - 1), NEW b \in 0..(n - 1)
  PROVE  /\ Dist(n, a, b) \in 0..(n - 1)
         /\ Dist(n, a, a) = 0
         /\ \A c \in 0..(n - 1) : Dist(n, a, b) = Dist(n, a, c) => b = c
<1>1. Dist(n, a, b) = IF a <= b THEN b - a ELSE b - a + n
  BY DistIs
<1>2. Dist(n, a, a) = a - a
  BY DistIs
<1>3. ASSUME NEW c \in 0..(n - 1), Dist(n, a, b) = Dist(n, a, c)
      PROVE  b = c
  <2>1. Dist(n, a, c) = IF a <= c THEN c - a ELSE c - a + n
    BY DistIs
  <2> QED
    BY <1>1, <1>3, <2>1
<1> QED
  BY <1>1, <1>2, <1>3

(* The next slot is one further on, unless it is where counting begins. *)
LEMMA DistNext ==
  ASSUME NEW n \in Nat \ {0}, NEW a \in 0..(n - 1), NEW b \in 0..(n - 1),
         Dist(n, a, b) < n - 1
  PROVE  /\ (b + 1) % n \in 0..(n - 1)
         /\ Dist(n, a, (b + 1) % n) = Dist(n, a, b) + 1
<1> DEFINE c == IF b + 1 = n THEN 0 ELSE b + 1
<1>1. (b + 1) % n = c /\ c \in 0..(n - 1)
  BY NextIs
<1>2. Dist(n, a, b) = IF a <= b THEN b - a ELSE b - a + n
  BY DistIs
<1>3. Dist(n, a, c) = IF a <= c THEN c - a ELSE c - a + n
  BY <1>1, DistIs
<1>4. Dist(n, a, c) = Dist(n, a, b) + 1
  BY <1>2, <1>3
<1> QED
  BY <1>1, <1>4

(* When counting begins further on, at a slot not beyond x, x is nearer by *)
(* as much.                                                                *)
LEMMA DistShift ==
  ASSUME NEW n \in Nat \ {0}, NEW a \in 0..(n - 1), NEW b \in 0..(n - 1),
         NEW x \in 0..(n - 1), Dist(n, a, b) <= Dist(n, a, x)
  PROVE  Dist(n, b, x) = Dist(n, a, x) - Dist(n, a, b)
<1>1. Dist(n, a, b) = IF a <= b THEN b - a ELSE b - a + n
  BY DistIs
<1>2. Dist(n, a, x) = IF a <= x THEN x - a ELSE x - a + n
  BY DistIs
<1>3. Dist(n, b, x) = IF b <= x THEN x - b ELSE x - b + n
  BY DistIs
<1> QED
  BY <1>1, <1>2, <1>3

-----------------------------------------------------------------------------
(* Types and the range of the tail, whatever is configured when.           *)

LEMMA SlotFacts == 0 \in Slots /\ Slots \subseteq Nat /\ Slots \subseteq 0..MaxSize
BY ConstAssumption DEF Slots

(* TypeOK in two parts, its flags and the rest. *)
Flags ==
  /\ forceExit \in BOOLEAN /\ ready \in BOOLEAN
  /\ synced \in BOOLEAN /\ running \in BOOLEAN

Words ==
  /\ head \in Slots /\ tail \in Slots /\ lastGrant \in Slots
  /\ nFrames \in 0..MaxSize /\ qtConfigs \in Nat
  /\ isr \in [pc : {"idle", "update", "schedule"}, info : Slots, k : Slots]
  /\ grantlet \in [due : BOOLEAN, pc : {"idle", "send"}, tail : Slots]
  /\ chan \in [cmd : {"none", "SET_DATA_MULTI", "SET_TAIL_INF"}, arg : 0..MaxSize]
  /\ ctl \in [pc : {"idle", "sendData", "waitData", "sendTail", "go"}, tail : Slots]
  /\ reader \in [pc : {"idle", "frame", "done"}, x : Slots, frame : Nat]
  /\ out \in Nat /\ written \in Nat
  /\ cn \in 0..MaxSize /\ chead \in Slots /\ ctail \in Slots /\ told \in Slots
  /\ slot \in [Slots -> Nat]
  /\ infos \in Seq(Slots)

LEMMA TypeParts == TypeOK <=> Flags /\ Words
BY DEF TypeOK, Flags, Words

LEMMA WordTypes ==
  ASSUME Words
  PROVE  /\ isr.info \in Slots /\ ctl.tail \in Slots /\ grantlet.tail \in Slots
         /\ nFrames \in Nat /\ lastGrant \in Nat /\ isr.info \in Nat
         /\ head \in Nat /\ tail \in Nat /\ cn \in Nat
<1>1. isr.info \in Slots /\ ctl.tail \in Slots /\ grantlet.tail \in Slots
  BY DEF Words
<1>2. /\ nFrames \in Nat /\ lastGrant \in Nat
      /\ head \in Nat /\ tail \in Nat /\ cn \in Nat
  BY SlotFacts, ConstAssumption DEF Words
<1> QED
  BY <1>1, <1>2, SlotFacts

(* A division has slots when the handler uses it, and a tail on its way to *)
(* the card is a slot.                                                     *)
RangeInv ==
  /\ Words /\ TailInRange
  /\ isr.pc = "update" => nFrames > 0
  /\ chan.cmd # "SET_DATA_MULTI" => chan.arg \in Slots

LEMMA RangeInit == Init => Flags /\ RangeInv
<1>1. Init => Flags
  BY DEF Init, Flags
<1>2. Init => RangeInv
  BY ConstAssumption, SlotFacts DEF Init, RangeInv, Words, TailInRange, NoCmd
<1> QED
  BY <1>1, <1>2

LEMMA FlagsNext == Flags /\ [Next]_vars => Flags'
BY DEF Flags, Next, Isr, Grant, Reader, ring, card, vars, SetDatasize, ResetRing,
       SetNFrames, CtlSend, CtlReply, Empty, FakeStopframe, IsrCheck, IsrUpdate,
       IsrSchedule, GrantTask, GrantSend, FramePoll, TakeStop, ReadFrame,
       FrameConsume, Go, Halt, CardWrite, CardInform, CardExec, CardLose

(* Sends and arithmetic preserve the range. *)
LEMMA CtlSendRange == RangeInv /\ CtlSend => RangeInv'
<1> SUFFICES ASSUME RangeInv, CtlSend PROVE RangeInv'
  OBVIOUS
<1>1. \/ /\ chan' = [cmd |-> "SET_DATA_MULTI", arg |-> nFrames]
         /\ ctl' = [ctl EXCEPT !.pc = "waitData"]
      \/ /\ chan' = [cmd |-> "SET_TAIL_INF", arg |-> ctl.tail]
         /\ ctl' = [pc |-> "go", tail |-> 0]
      \/ chan' = chan /\ ctl' = [pc |-> "idle", tail |-> 0]
  BY DEF CtlSend
<1>2. /\ chan' \in [cmd : {"none", "SET_DATA_MULTI", "SET_TAIL_INF"}, arg : 0..MaxSize]
      /\ chan'.cmd # "SET_DATA_MULTI" => chan'.arg \in Slots
  <2>1. CASE chan' = [cmd |-> "SET_DATA_MULTI", arg |-> nFrames]
    BY <2>1 DEF RangeInv, Words
  <2>2. CASE chan' = [cmd |-> "SET_TAIL_INF", arg |-> ctl.tail]
    BY <2>2, SlotFacts, WordTypes DEF RangeInv
  <2>3. CASE chan' = chan
    BY <2>3 DEF RangeInv, Words
  <2> QED
    BY <1>1, <2>1, <2>2, <2>3
<1>3. ctl' \in [pc : {"idle", "sendData", "waitData", "sendTail", "go"}, tail : Slots]
  <2>1. ctl \in [pc : {"idle", "sendData", "waitData", "sendTail", "go"}, tail : Slots]
    BY DEF RangeInv, Words
  <2> QED
    BY <1>1, <2>1, SlotFacts
<1> QED
  BY <1>2, <1>3 DEF CtlSend, RangeInv, Words, TailInRange, ring, card

LEMMA GrantSendRange == RangeInv /\ GrantSend => RangeInv'
<1> SUFFICES ASSUME RangeInv, GrantSend PROVE RangeInv'
  OBVIOUS
<1>1. /\ grantlet' = [grantlet EXCEPT !.pc = "idle", !.tail = 0]
      /\ \/ chan' = chan
         \/ chan' = [cmd |-> "SET_TAIL_INF", arg |-> grantlet.tail]
  BY DEF GrantSend
<1>2. /\ chan' \in [cmd : {"none", "SET_DATA_MULTI", "SET_TAIL_INF"}, arg : 0..MaxSize]
      /\ chan'.cmd # "SET_DATA_MULTI" => chan'.arg \in Slots
  <2>1. CASE chan' = chan
    BY <2>1 DEF RangeInv, Words
  <2>2. CASE chan' = [cmd |-> "SET_TAIL_INF", arg |-> grantlet.tail]
    BY <2>2, SlotFacts, WordTypes DEF RangeInv
  <2> QED
    BY <1>1, <2>1, <2>2
<1>3. grantlet' \in [due : BOOLEAN, pc : {"idle", "send"}, tail : Slots]
  BY <1>1, SlotFacts DEF RangeInv, Words
<1> QED
  BY <1>2, <1>3 DEF GrantSend, RangeInv, Words, TailInRange, ring, card

LEMMA IsrUpdateRange == RangeInv /\ IsrUpdate => RangeInv'
<1> SUFFICES ASSUME RangeInv, IsrUpdate PROVE RangeInv'
  OBVIOUS
<1> DEFINE k == (isr.info - lastGrant + nFrames) % nFrames
<1>1. nFrames \in Nat \ {0} /\ isr.info - lastGrant + nFrames \in Int
  BY WordTypes DEF RangeInv, IsrUpdate
<1>2. k \in 0..(nFrames - 1)
  BY <1>1
<1>3. nFrames <= MaxSize /\ isr.info \in Slots
  BY WordTypes, ConstAssumption DEF RangeInv, Words
<1>4. k \in Slots
  BY <1>1, <1>2, <1>3, ConstAssumption DEF Slots
<1>5. isr' = [isr EXCEPT !.pc = "schedule", !.k = k]
  BY DEF IsrUpdate
<1> HIDE DEF k
<1>6. isr' \in [pc : {"idle", "update", "schedule"}, info : Slots, k : Slots]
  BY <1>4, <1>5 DEF RangeInv, Words
<1> QED
  BY <1>3, <1>5, <1>6 DEF IsrUpdate, RangeInv, Words, TailInRange, card

LEMMA FrameConsumeRange == RangeInv /\ FrameConsume => RangeInv'
<1> SUFFICES ASSUME RangeInv, FrameConsume PROVE RangeInv'
  OBVIOUS
<1>1. nFrames \in Nat /\ nFrames <= MaxSize /\ tail \in Nat
  BY SMTT(40), WordTypes, ConstAssumption DEF RangeInv, Words
<1>4. tail' \in Slots /\ (tail' < nFrames \/ tail' = 0)
  <2>1. CASE tail' = tail
    BY <2>1 DEF RangeInv, Words, TailInRange
  <2>2. CASE nFrames > 0 /\ tail' = (tail + 1) % nFrames
    <3>1. tail' \in 0..(nFrames - 1)
      BY <1>1, <2>2
    <3> QED
      BY <1>1, <3>1, ConstAssumption DEF Slots
  <2> QED
    BY <2>1, <2>2 DEF FrameConsume, Advance
<1>5. reader'\in [pc : {"idle", "frame", "done"}, x : Slots, frame : Nat]
  BY SlotFacts DEF FrameConsume
<1>6. out' \in Nat
  BY DEF FrameConsume, RangeInv, Words
<1> QED
  BY <1>4, <1>5, <1>6 DEF FrameConsume, RangeInv, Words, TailInRange, card

(* Each action preserves the range. *)
LEMMA RangeNext == RangeInv /\ [Next]_vars => RangeInv'
<1> SUFFICES ASSUME RangeInv, [Next]_vars PROVE RangeInv'
  OBVIOUS
<1> USE ConstAssumption, SlotFacts
    DEF RangeInv, Words, TailInRange, NoCmd, ring, card, TailToGrant
<1>1. CASE SetDatasize
  BY SMTT(40), <1>1 DEF SetDatasize, ResetRing
<1>2. CASE SetNFrames
  BY <1>2 DEF SetNFrames
<1>3. CASE CtlSend
  BY <1>3, CtlSendRange
<1>4. CASE CtlReply
  BY <1>4 DEF CtlReply
<1>5. CASE Empty
  BY <1>5 DEF Empty
<1>6. CASE FakeStopframe
  BY <1>6 DEF FakeStopframe
<1>7. CASE IsrCheck
  <2>1. infos \in Seq(Slots) /\ infos # <<>>
    BY <1>7 DEF IsrCheck
  <2>2. Head(infos) \in Slots /\ Tail(infos) \in Seq(Slots)
    BY <2>1, HeadTailProperties
  <2>3. isr' = IF InRing(Head(infos))
               THEN [isr EXCEPT !.pc = "update", !.info = Head(infos)] ELSE isr
    BY <1>7 DEF IsrCheck
  <2>4. InRing(Head(infos)) => nFrames > 0
    BY DEF InRing
  <2> QED
    BY ZenonT(60), <1>7, <2>2, <2>3, <2>4 DEF IsrCheck
<1>8. CASE IsrUpdate
  BY <1>8, IsrUpdateRange
<1>9. CASE IsrSchedule
  BY <1>9 DEF IsrSchedule, GrantDue
<1>10. CASE GrantTask
  BY <1>10 DEF GrantTask
<1>11. CASE GrantSend
  BY <1>11, GrantSendRange
<1>12. CASE FramePoll
  <2>1. reader' = reader \/ reader' = [reader EXCEPT !.pc = "frame", !.x = tail]
    BY <1>12 DEF FramePoll
  <2> QED
    BY ZenonT(60), <1>12, <2>1 DEF FramePoll
<1>13. CASE ReadFrame
  BY <1>13 DEF ReadFrame
<1>14. CASE FrameConsume
  BY <1>14, FrameConsumeRange
<1>15. CASE Go
  BY <1>15 DEF Go
<1>16. CASE Halt
  BY <1>16 DEF Halt
<1>17. CASE CardWrite
  <2>1. cn > 0 /\ chead' = (chead + 1) % cn
    BY <1>17 DEF CardWrite
  <2>2. chead' \in 0..(cn - 1)
    BY SMTT(40), <2>1
  <2>3. chead' \in Slots
    BY <2>1, <2>2 DEF Slots
  <2>4. slot' \in [Slots -> Nat] /\ written' \in Nat
    BY <1>17 DEF CardWrite
  <2> QED
    BY <1>17, <2>3, <2>4 DEF CardWrite
<1>18. CASE CardInform
  BY <1>18 DEF CardInform
<1>19. CASE CardExec
  BY SMTT(40), <1>19 DEF CardExec
<1>20. CASE CardLose
  BY <1>20 DEF CardLose
<1>21. CASE UNCHANGED vars
  BY <1>21 DEF vars
<1> QED
  BY <1>1, <1>2, <1>3, <1>4, <1>5, <1>6, <1>7, <1>8, <1>9, <1>10, <1>11, <1>12,
     <1>13, <1>14, <1>15, <1>16, <1>17, <1>18, <1>19, <1>20, <1>21
  DEF Next, Isr, Grant, Reader

(* Every index is within the memory of the ring, however configuration,    *)
(* EMPTY and interrupts mix.                                               *)
THEOREM Types == Spec => []TypeOK
<1>1. Flags /\ RangeInv => TypeOK
  BY TypeParts DEF RangeInv
<1> QED
  BY <1>1, RangeInit, FlagsNext, RangeNext, PTL DEF Spec

(* The tail that FRAME_POLL looks for is a slot of the present division.   *)
THEOREM TailStays == Spec => []TailInRange
<1>1. RangeInv => TailInRange
  BY DEF RangeInv
<1> QED
  BY <1>1, RangeInit, RangeNext, PTL DEF Spec

-----------------------------------------------------------------------------
(* How far index x is ahead of the card's tail. *)
Ahead(x) == Dist(cn, ctail, x)

(* A slot of the card's ring that the driver's tail has reached. *)
Given(x) == x \in 0..(cn - 1) /\ Ahead(x) <= Ahead(tail)

(* The indices follow each other: tails on their way to the card, the      *)
(* driver's tail and head, heads on their way from the card, the card's.   *)
Indices ==
  synced =>
    /\ cn = nFrames /\ cn > 0
    /\ ctail < cn /\ tail < cn /\ head < cn /\ told < cn /\ chead < cn
    /\ Ahead(tail) <= Ahead(head)
    /\ Ahead(head) <= Ahead(told)
    /\ Ahead(told) <= Ahead(chead)

Tails ==
  synced =>
    /\ chan.cmd = "SET_TAIL_INF" => Given(chan.arg)
    /\ ctl.pc = "sendTail" => Given(ctl.tail)
    /\ grantlet.pc = "send" =>
         /\ Given(grantlet.tail)
         /\ chan.cmd = "SET_TAIL_INF" => Ahead(chan.arg) <= Ahead(grantlet.tail)

Heads ==
  synced =>
    /\ \A i \in 1..Len(infos) :
         /\ infos[i] < cn
         /\ Ahead(head) <= Ahead(infos[i]) /\ Ahead(infos[i]) <= Ahead(told)
         /\ \A j \in 1..Len(infos) : i < j => Ahead(infos[i]) <= Ahead(infos[j])
    /\ isr.pc = "update" =>
         /\ isr.info < cn
         /\ Ahead(head) <= Ahead(isr.info) /\ Ahead(isr.info) <= Ahead(told)
         /\ \A i \in 1..Len(infos) : Ahead(isr.info) <= Ahead(infos[i])

(* Nothing but the configuration is under way.                             *)
Calm ==
  /\ ~running /\ infos = <<>> /\ told = chead /\ isr.pc = "idle"
  /\ grantlet.pc = "idle" /\ ~grantlet.due

(* A configuration waits for each of its commands in turn. *)
Configuring ==
  /\ chan.cmd = "none" => chan = NoCmd
  /\ ctl.pc # "idle" => Calm
  /\ ctl.pc = "sendData" => ~synced /\ nFrames \in Sizes
  /\ ctl.pc \in {"sendData", "sendTail"} => chan = NoCmd
  /\ ctl.pc = "waitData" => chan = NoCmd \/ chan.cmd = "SET_DATA_MULTI"
  /\ chan.cmd = "SET_DATA_MULTI" =>
       ~synced /\ ctl.pc = "waitData" /\ chan.arg = nFrames /\ nFrames \in Sizes

(* Between a configuration and its execution the ring is empty and at rest. *)
Unsynced ==
  ~synced =>
    /\ Calm /\ head = 0 /\ tail = 0 /\ ~ready /\ reader.pc = "idle"
    /\ chan.cmd = "SET_TAIL_INF" => chan.arg = 0
    /\ ctl.tail = 0

(* The frame being read stays in its slot until it is consumed. *)
Reading ==
  reader.pc # "idle" =>
    /\ synced /\ tail # head /\ reader.x = tail
    /\ reader.pc = "done" => reader.frame = slot[tail]

RingInv ==
  Indices /\ Tails /\ Heads /\ Configuring /\ Unsynced /\ Reading

(* Once the card has the configuration, every index is a slot of its ring. *)
LEMMA Positions ==
  ASSUME RangeInv, Indices, synced
  PROVE  /\ cn \in Nat \ {0} /\ ctail \in 0..(cn - 1) /\ tail \in 0..(cn - 1)
         /\ head \in 0..(cn - 1) /\ told \in 0..(cn - 1) /\ chead \in 0..(cn - 1)
         /\ \A x \in 0..(cn - 1) : Ahead(x) \in 0..(cn - 1)
         /\ Ahead(ctail) = 0
<1>1. /\ cn \in Nat \ {0} /\ ctail \in 0..(cn - 1) /\ tail \in 0..(cn - 1)
      /\ head \in 0..(cn - 1) /\ told \in 0..(cn - 1) /\ chead \in 0..(cn - 1)
  BY SlotFacts, WordTypes DEF RangeInv, Words, Indices
<1>2. ASSUME NEW x \in 0..(cn - 1)
      PROVE  Ahead(x) \in 0..(cn - 1)
  BY <1>1, DistRange DEF Ahead
<1>3. Ahead(ctail) = 0
  BY <1>1, DistRange DEF Ahead
<1> QED
  BY <1>1, <1>2, <1>3

(* The order of the indices is the first part of the invariant. *)
LEMMA RingOrdered ==
  ASSUME RangeInv, Indices
  PROVE  RingOrder
<1> SUFFICES ASSUME synced PROVE RingOrder
  BY DEF RingOrder
<1>1. /\ Ahead(tail) \in Nat /\ Ahead(head) \in Nat
      /\ Ahead(told) \in Nat /\ Ahead(chead) \in Nat
  BY Positions
<1>2. Dist(cn, tail, head) = Ahead(head) - Ahead(tail)
  BY Positions, DistShift DEF Ahead, Indices
<1>3. Dist(cn, head, chead) = Ahead(chead) - Ahead(head)
  <2>1. Ahead(head) <= Ahead(chead)
    BY <1>1 DEF Indices
  <2> QED
    BY Positions, <2>1, DistShift DEF Ahead
<1> QED
  BY <1>1, <1>2, <1>3 DEF RingOrder, Ahead

(* Initially nothing is configured. *)
LEMMA RingInit == Init => RingInv
BY DEF Init, RingInv, Indices, Tails, Heads, Configuring, Calm, Unsynced,
       Reading, NoCmd

(* A step that leaves alone what a part is about preserves it. *)
LEMMA Kept ==
  /\ Indices /\ UNCHANGED <<synced, cn, nFrames, ctail, tail, head, told, chead>>
       => Indices'
  /\ Tails /\ UNCHANGED <<synced, cn, ctail, tail, chan, ctl, grantlet>> => Tails'
  /\ Heads /\ UNCHANGED <<synced, cn, ctail, head, told, infos, isr>> => Heads'
  /\ Calm /\ UNCHANGED <<running, infos, told, chead, isr, grantlet>> => Calm'
  /\ Reading /\ UNCHANGED <<reader, synced, tail, head, slot>> => Reading'
<1>1. Indices /\ UNCHANGED <<synced, cn, nFrames, ctail, tail, head, told, chead>>
        => Indices'
  BY DEF Indices, Ahead
<1>2. Tails /\ UNCHANGED <<synced, cn, ctail, tail, chan, ctl, grantlet>> => Tails'
  BY DEF Tails, Given, Ahead
<1>3. Heads /\ UNCHANGED <<synced, cn, ctail, head, told, infos, isr>> => Heads'
  BY DEF Heads, Ahead
<1>4. Calm /\ UNCHANGED <<running, infos, told, chead, isr, grantlet>> => Calm'
  BY DEF Calm
<1>5. Reading /\ UNCHANGED <<reader, synced, tail, head, slot>> => Reading'
  BY DEF Reading
<1> QED
  BY <1>1, <1>2, <1>3, <1>4, <1>5

(* An acquisition under way excludes configuration. *)
LEMMA Busy ==
  ASSUME RingInv, ~Calm
  PROVE  synced /\ ctl.pc = "idle" /\ chan.cmd # "SET_DATA_MULTI"
BY DEF RingInv, Configuring, Unsynced

-----------------------------------------------------------------------------
(* The configuration. *)

LEMMA SetDatasizeRing ==
  ASSUME RingInv, Orderly, SetDatasize
  PROVE  RingInv'
<1>1. Calm /\ chan = NoCmd /\ reader.pc = "idle"
  BY DEF SetDatasize, MayConfigure, Quiet, Calm
<1> QED
  BY <1>1
  DEF SetDatasize, ResetRing, RingInv, Indices, Tails, Heads, Configuring,
      Calm, Unsynced, Reading, NoCmd

LEMMA SetNFramesRing ==
  ASSUME RangeInv, RingInv, Orderly, SetNFrames
  PROVE  RingInv'
<1>1. Calm /\ chan = NoCmd /\ ctl.pc = "idle"
  BY DEF SetNFrames, MayConfigure, Quiet, Calm
<1>2. /\ ctl' = [pc |-> "sendTail", tail |-> tail]
      /\ UNCHANGED <<synced, cn, nFrames, ctail, tail, head, told, chead, chan,
                     grantlet, infos, isr, running, reader, slot, ready>>
  BY DEF SetNFrames, TailToGrant, card
<1>3. Indices' /\ Heads' /\ Reading' /\ Calm'
  BY <1>1, <1>2, Kept DEF RingInv
<1>4. Tails'
  <2> SUFFICES ASSUME synced PROVE Tails'
    BY <1>2 DEF Tails
  <2>1. tail \in 0..(cn - 1)
    BY Positions DEF RingInv
  <2>2. Ahead(tail) <= Ahead(tail)
    BY <2>1, Positions DEF RingInv
  <2>3. Given(tail)'
    BY <1>2, <2>1, <2>2 DEF Given, Ahead
  <2> QED
    BY <1>1, <1>2, <2>3 DEF Tails, Calm, NoCmd
<1>5. Configuring' /\ Unsynced'
  BY <1>1, <1>2, <1>3 DEF RingInv, Configuring, Unsynced, NoCmd
<1> QED
  BY <1>3, <1>4, <1>5 DEF RingInv

LEMMA CtlSendRing ==
  ASSUME RangeInv, RingInv, CtlSend
  PROVE  RingInv'
<1>1. UNCHANGED <<synced, cn, nFrames, ctail, tail, head, told, chead,
                  grantlet, infos, isr, running, reader, slot, ready>>
  BY DEF CtlSend, ring, card
<1>2. /\ chan = NoCmd /\ Calm
      /\ ctl.pc = "sendData" => ~synced /\ nFrames \in Sizes
  BY DEF CtlSend, RingInv, Configuring
<1>3. \/ /\ ctl.pc = "sendData" /\ ctl'.pc = "waitData" /\ ctl'.tail = ctl.tail
         /\ chan' = [cmd |-> "SET_DATA_MULTI", arg |-> nFrames]
      \/ /\ ctl.pc = "sendTail" /\ ctl'.pc = "go" /\ ctl'.tail = 0
         /\ chan' = [cmd |-> "SET_TAIL_INF", arg |-> ctl.tail]
      \/ chan' = NoCmd /\ ctl'.pc = "idle" /\ ctl'.tail = 0
  <2>1. ctl \in [pc : {"idle", "sendData", "waitData", "sendTail", "go"}, tail : Slots]
    BY DEF RangeInv, Words
  <2> QED
    BY <1>2, <2>1 DEF CtlSend
<1>4. Indices' /\ Heads' /\ Reading' /\ Calm'
  BY <1>1, <1>2, Kept DEF RingInv
<1>5. Tails'
  <2> SUFFICES ASSUME synced PROVE Tails'
    BY <1>1 DEF Tails
  <2>1. grantlet'.pc = "idle" /\ ctl'.pc # "sendTail"
    BY <1>1, <1>2, <1>3 DEF Calm
  <2>2. chan'.cmd = "SET_TAIL_INF" => chan'.arg = ctl.tail /\ Given(ctl.tail)
    BY <1>2, <1>3 DEF RingInv, Tails, NoCmd
  <2>3. chan'.cmd = "SET_TAIL_INF" => Given(chan.arg)'
    BY <1>1, <2>2 DEF Given, Ahead
  <2> QED
    BY <2>1, <2>3 DEF Tails
<1>6. Configuring'
  BY <1>1, <1>2, <1>3, <1>4 DEF Configuring, NoCmd
<1>7. Unsynced'
  BY <1>1, <1>2, <1>3, <1>4 DEF RingInv, Unsynced, NoCmd
<1> QED
  BY <1>4, <1>5, <1>6, <1>7 DEF RingInv

LEMMA CtlReplyRing ==
  ASSUME RingInv, Flags, CtlReply
  PROVE  RingInv'
<1>1. /\ UNCHANGED <<synced, cn, nFrames, ctail, tail, head, told, chead, chan,
                     grantlet, infos, isr, running, reader, slot>>
      /\ ctl' = [pc |-> "idle", tail |-> 0]
  BY DEF CtlReply, ring, card
<1>2. ~synced => ~ready'
  BY DEF CtlReply, Flags
<1>3. Calm /\ chan = NoCmd
  BY DEF CtlReply, RingInv, Configuring
<1>4. Indices' /\ Heads' /\ Reading' /\ Calm'
  BY <1>1, <1>3, Kept DEF RingInv
<1>5. Tails'
  BY <1>1, <1>3 DEF RingInv, Tails, Calm, NoCmd
<1>6. Configuring' /\ Unsynced'
  BY <1>1, <1>2, <1>3, <1>4 DEF RingInv, Configuring, Unsynced, NoCmd
<1> QED
  BY <1>4, <1>5, <1>6 DEF RingInv

LEMMA GoRing ==
  ASSUME RangeInv, RingInv, Go
  PROVE  RingInv'
<1>1. /\ UNCHANGED <<synced, cn, nFrames, ctail, tail, head, told, chead, chan,
                     grantlet, infos, isr, reader, slot, ready>>
      /\ ctl' = [pc |-> "idle", tail |-> 0]
      /\ running' = running \/ ready
  BY DEF Go, ring
<1>2. Calm /\ ctl.pc = "go"
  BY DEF Go, RingInv, Configuring
<1>3. Indices' /\ Heads' /\ Reading'
  BY <1>1, Kept DEF RingInv
<1>4. Tails'
  BY <1>1, <1>2 DEF RingInv, Tails, Given, Calm, Ahead
<1>5. Configuring'
  BY <1>1, <1>2 DEF RingInv, Configuring
<1>6. Unsynced'
  BY <1>1, <1>2 DEF RingInv, Unsynced, Calm
<1> QED
  BY <1>3, <1>4, <1>5, <1>6 DEF RingInv

(* Steps that stop something, or change nothing the invariant is about. *)
LEMMA HaltRing ==
  ASSUME RingInv, Halt \/ FakeStopframe \/ UNCHANGED vars
  PROVE  RingInv'
<1>1. UNCHANGED <<synced, cn, nFrames, ctail, tail, head, told, chead, chan, ctl,
                  grantlet, infos, isr, reader, slot, ready>>
  BY DEF Halt, FakeStopframe, ring, card, vars
<1>2. running' = running \/ running' = FALSE
  BY DEF Halt, FakeStopframe, card, vars
<1>3. Indices' /\ Tails' /\ Heads' /\ Reading'
  BY <1>1, Kept DEF RingInv
<1>4. Configuring' /\ Unsynced'
  BY <1>1, <1>2 DEF RingInv, Configuring, Unsynced, Calm
<1> QED
  BY <1>3, <1>4 DEF RingInv

-----------------------------------------------------------------------------
(* The interrupt handler and the grant tasklet. *)

LEMMA IsrCheckRing ==
  ASSUME RangeInv, RingInv, IsrCheck
  PROVE  RingInv'
<1>1. /\ UNCHANGED <<synced, cn, nFrames, ctail, tail, head, told, chead, chan,
                     ctl, grantlet, running, reader, slot, ready>>
      /\ infos # <<>> /\ infos' = Tail(infos) /\ isr.pc = "idle"
      /\ \/ isr'.pc = "update" /\ isr'.info = Head(infos)
         \/ isr'.pc = "idle"
  BY DEF IsrCheck, ring, card, RangeInv, Words
<1>2. synced /\ ctl.pc = "idle" /\ chan.cmd # "SET_DATA_MULTI"
  BY <1>1, Busy DEF Calm
<1>3. Indices' /\ Tails' /\ Reading'
  BY <1>1, Kept DEF RingInv
<1>4. Heads'
  <2>1. /\ Len(infos) \in Nat \ {0} /\ Len(infos') = Len(infos) - 1
        /\ Head(infos) = infos[1]
        /\ \A i \in 1..Len(infos') : infos'[i] = infos[i + 1]
    BY <1>1, HeadTailProperties DEF RangeInv, Words
  <2>2. \A i \in 1..Len(infos) :
           /\ infos[i] < cn
           /\ Ahead(head) <= Ahead(infos[i]) /\ Ahead(infos[i]) <= Ahead(told)
           /\ \A j \in 1..Len(infos) : i < j => Ahead(infos[i]) <= Ahead(infos[j])
    BY <1>2 DEF RingInv, Heads
  <2>3. \A x : Ahead(x)' = Dist(cn, ctail, x)
    BY <1>1 DEF Ahead
  <2>4. ASSUME NEW i \in 1..Len(infos')
        PROVE  /\ infos'[i] = infos[i + 1] /\ i + 1 \in 1..Len(infos)
    BY <2>1
  <2>5. ASSUME NEW i \in 1..Len(infos')
        PROVE  /\ (infos[i] < cn)'
               /\ (Ahead(head) <= Ahead(infos[i]) /\ Ahead(infos[i]) <= Ahead(told))'
               /\ \A j \in 1..Len(infos') :
                    i < j => (Ahead(infos[i]) <= Ahead(infos[j]))'
               /\ isr'.pc = "update" => (Ahead(isr.info) <= Ahead(infos[i]))'
    BY <1>1, <2>1, <2>2, <2>4 DEF Ahead
  <2>6. isr'.pc = "update" =>
          /\ (isr.info < cn)'
          /\ (Ahead(head) <= Ahead(isr.info) /\ Ahead(isr.info) <= Ahead(told))'
    BY <1>1, <2>1, <2>2 DEF Ahead
  <2> QED
    BY <2>5, <2>6 DEF Heads
<1>5. Configuring' /\ Unsynced'
  BY <1>1, <1>2 DEF RingInv, Configuring, Unsynced
<1> QED
  BY <1>3, <1>4, <1>5 DEF RingInv

LEMMA IsrUpdateRing ==
  ASSUME RangeInv, RingInv, IsrUpdate
  PROVE  RingInv'
<1>1. /\ UNCHANGED <<synced, cn, nFrames, ctail, tail, told, chead, chan,
                     ctl, grantlet, running, reader, slot, ready, infos>>
      /\ isr.pc = "update" /\ head' = isr.info /\ isr'.pc = "schedule"
  BY DEF IsrUpdate, card, RangeInv, Words
<1>2. synced /\ ctl.pc = "idle" /\ chan.cmd # "SET_DATA_MULTI"
  BY <1>1, Busy DEF Calm
<1>3. /\ isr.info \in 0..(cn - 1) /\ isr.info < cn
      /\ Ahead(head) <= Ahead(isr.info) /\ Ahead(isr.info) <= Ahead(told)
      /\ \A i \in 1..Len(infos) : Ahead(isr.info) <= Ahead(infos[i])
  <2>1. /\ isr.info < cn
        /\ Ahead(head) <= Ahead(isr.info) /\ Ahead(isr.info) <= Ahead(told)
        /\ \A i \in 1..Len(infos) : Ahead(isr.info) <= Ahead(infos[i])
    BY <1>1, <1>2 DEF RingInv, Heads
  <2>2. isr.info \in Nat /\ cn \in Nat
    BY WordTypes DEF RangeInv
  <2> QED
    BY <2>1, <2>2
<1>4. /\ cn \in Nat \ {0} /\ ctail \in 0..(cn - 1) /\ tail \in 0..(cn - 1)
      /\ head \in 0..(cn - 1) /\ told \in 0..(cn - 1) /\ chead \in 0..(cn - 1)
      /\ \A x \in 0..(cn - 1) : Ahead(x) \in 0..(cn - 1)
  BY <1>2, Positions DEF RingInv
<1>5. Ahead(tail) <= Ahead(head) /\ Ahead(told) <= Ahead(chead)
  BY <1>2 DEF RingInv, Indices
<1>6. Ahead(tail) <= Ahead(isr.info)
  <2>1. isr.info \in 0..(cn - 1)
    BY <1>3
  <2>2. Ahead(tail) \in 0..(cn - 1)
    BY <1>4
  <2>3. Ahead(head) \in 0..(cn - 1)
    BY <1>4
  <2>4. Ahead(isr.info) \in 0..(cn - 1)
    BY <1>4, <2>1
  <2> QED
    BY <1>3, <1>5, <2>2, <2>3, <2>4
<1>7. Indices'
  <2>1. /\ cn = nFrames /\ cn > 0 /\ ctail < cn /\ tail < cn /\ isr.info < cn
        /\ told < cn /\ chead < cn
    BY <1>2, <1>3 DEF RingInv, Indices
  <2> QED
    BY <1>1, <1>3, <1>5, <1>6, <2>1 DEF Indices, Ahead
<1>8. Tails'
  BY <1>1, Kept DEF RingInv
<1>9. Heads'
  BY <1>1, <1>2, <1>3 DEF RingInv, Heads, Ahead
<1>10. Configuring' /\ Unsynced'
  BY <1>1, <1>2 DEF RingInv, Configuring, Unsynced
<1>11. Reading'
  <2> SUFFICES ASSUME reader.pc # "idle" PROVE Reading'
    BY <1>1 DEF Reading
  <2>1. tail # head
    BY DEF RingInv, Reading
  <2>2. Ahead(tail) # Ahead(head)
    BY <1>4, <2>1, DistRange DEF Ahead
  <2>3. Ahead(tail) \in Int /\ Ahead(head) \in Int
    BY <1>4
  <2>4. tail # isr.info
    BY <1>3, <1>5, <2>2, <2>3
  <2> QED
    BY <1>1, <2>4 DEF RingInv, Reading
<1> QED
  BY <1>7, <1>8, <1>9, <1>10, <1>11 DEF RingInv

LEMMA IsrScheduleRing ==
  ASSUME RangeInv, RingInv, IsrSchedule
  PROVE  RingInv'
<1>1. /\ UNCHANGED <<synced, cn, nFrames, ctail, tail, head, told, chead, chan,
                     ctl, running, reader, slot, ready, infos>>
      /\ isr.pc = "schedule" /\ isr'.pc = "idle"
      /\ grantlet'.pc = grantlet.pc /\ grantlet'.tail = grantlet.tail
  BY DEF IsrSchedule, ring, card, RangeInv, Words
<1>2. synced /\ ctl.pc = "idle" /\ chan.cmd # "SET_DATA_MULTI"
  BY <1>1, Busy DEF Calm
<1>3. Indices' /\ Reading'
  BY <1>1, Kept DEF RingInv
<1>4. Tails'
  BY <1>1 DEF RingInv, Tails, Given, Ahead
<1>5. Heads'
  BY <1>1 DEF RingInv, Heads, Ahead
<1>6. Configuring' /\ Unsynced'
  BY <1>1, <1>2 DEF RingInv, Configuring, Unsynced
<1> QED
  BY <1>3, <1>4, <1>5, <1>6 DEF RingInv

LEMMA GrantTaskRing ==
  ASSUME RangeInv, RingInv, GrantTask
  PROVE  RingInv'
<1>1. /\ UNCHANGED <<synced, cn, nFrames, ctail, tail, head, told, chead, chan,
                     ctl, isr, running, reader, slot, ready, infos>>
      /\ grantlet.due
      /\ grantlet' = [due |-> FALSE, pc |-> "send", tail |-> tail]
  BY DEF GrantTask, TailToGrant, card
<1>2. synced /\ ctl.pc = "idle" /\ chan.cmd # "SET_DATA_MULTI"
  BY <1>1, Busy DEF Calm
<1>3. Indices' /\ Heads' /\ Reading'
  BY <1>1, Kept DEF RingInv
<1>4. Tails'
  <2>1. tail \in 0..(cn - 1) /\ Ahead(tail) <= Ahead(tail)
    BY <1>2, Positions DEF RingInv
  <2>2. chan.cmd = "SET_TAIL_INF" => Given(chan.arg)
    BY <1>2 DEF RingInv, Tails
  <2>3. Given(grantlet.tail)'
    BY <1>1, <2>1 DEF Given, Ahead
  <2>4. chan'.cmd = "SET_TAIL_INF" => Given(chan.arg)'
    BY <1>1, <2>2 DEF Given, Ahead
  <2>5. chan'.cmd = "SET_TAIL_INF" => (Ahead(chan.arg) <= Ahead(grantlet.tail))'
    BY <1>1, <2>2 DEF Given, Ahead
  <2> QED
    BY <1>1, <1>2, <2>3, <2>4, <2>5 DEF Tails
<1>5. Configuring' /\ Unsynced'
  BY <1>1, <1>2 DEF RingInv, Configuring, Unsynced
<1> QED
  BY <1>3, <1>4, <1>5 DEF RingInv

LEMMA GrantSendRing ==
  ASSUME RangeInv, RingInv, GrantSend
  PROVE  RingInv'
<1>1. /\ UNCHANGED <<synced, cn, nFrames, ctail, tail, head, told, chead,
                     ctl, isr, running, reader, slot, ready, infos>>
      /\ grantlet.pc = "send" /\ grantlet'.pc = "idle"
      /\ chan' = chan \/ chan' = [cmd |-> "SET_TAIL_INF", arg |-> grantlet.tail]
  BY DEF GrantSend, ring, card, RangeInv, Words
<1>2. synced /\ ctl.pc = "idle" /\ chan.cmd # "SET_DATA_MULTI"
  BY <1>1, Busy DEF Calm
<1>3. Indices' /\ Heads' /\ Reading'
  BY <1>1, Kept DEF RingInv
<1>4. Tails'
  <2>1. chan'.cmd = "SET_TAIL_INF" => Given(chan'.arg)
    BY <1>1, <1>2 DEF RingInv, Tails
  <2>2. chan'.cmd = "SET_TAIL_INF" => Given(chan.arg)'
    BY <1>1, <2>1 DEF Given, Ahead
  <2> QED
    BY <1>1, <1>2, <2>2 DEF Tails
<1>5. Configuring' /\ Unsynced'
  BY <1>1, <1>2 DEF RingInv, Configuring, Unsynced
<1> QED
  BY <1>3, <1>4, <1>5 DEF RingInv

-----------------------------------------------------------------------------
(* The acquisition. *)

LEMMA FramePollRing ==
  ASSUME RangeInv, RingInv, FramePoll
  PROVE  RingInv'
<1>1. /\ UNCHANGED <<synced, cn, nFrames, ctail, tail, head, told, chead, chan,
                     ctl, grantlet, isr, running, slot, ready, infos>>
      /\ reader.pc = "idle"
      /\ \/ reader' = reader
         \/ tail # head /\ reader'.pc = "frame" /\ reader'.x = tail
  BY DEF FramePoll, card, RangeInv, Words
<1>2. Indices' /\ Tails' /\ Heads'
  BY <1>1, Kept DEF RingInv
<1>3. Configuring'
  BY <1>1 DEF RingInv, Configuring, Calm
<1>4. Unsynced' /\ Reading'
  BY <1>1 DEF RingInv, Unsynced, Reading, Calm
<1> QED
  BY <1>2, <1>3, <1>4 DEF RingInv

LEMMA ReadFrameRing ==
  ASSUME RangeInv, RingInv, ReadFrame
  PROVE  RingInv'
<1>1. /\ UNCHANGED <<synced, cn, nFrames, ctail, tail, head, told, chead, chan,
                     ctl, grantlet, isr, running, slot, ready, infos>>
      /\ reader.pc = "frame"
      /\ reader'.pc = "done" /\ reader'.x = reader.x
      /\ reader'.frame = slot[reader.x]
  BY DEF ReadFrame, ring, card, RangeInv, Words
<1>2. Indices' /\ Tails' /\ Heads'
  BY <1>1, Kept DEF RingInv
<1>3. Configuring'
  BY <1>1 DEF RingInv, Configuring, Calm
<1>4. Unsynced' /\ Reading'
  BY <1>1 DEF RingInv, Unsynced, Reading, Calm
<1> QED
  BY <1>2, <1>3, <1>4 DEF RingInv

LEMMA FrameConsumeRing ==
  ASSUME RangeInv, RingInv, FrameConsume
  PROVE  RingInv'
<1>1. /\ UNCHANGED <<synced, cn, nFrames, ctail, head, told, chead, chan,
                     ctl, grantlet, isr, running, slot, ready, infos>>
      /\ reader.pc = "done" /\ reader'.pc = "idle"
  BY DEF FrameConsume, card
<1>2. synced /\ tail # head
  BY <1>1 DEF RingInv, Reading
<1>3. /\ cn \in Nat \ {0} /\ ctail \in 0..(cn - 1) /\ tail \in 0..(cn - 1)
      /\ head \in 0..(cn - 1)
      /\ Ahead(tail) \in 0..(cn - 1) /\ Ahead(head) \in 0..(cn - 1)
  BY <1>2, Positions DEF RingInv
<1>4. cn = nFrames /\ Ahead(tail) <= Ahead(head)
  BY <1>2 DEF RingInv, Indices
<1>5. tail' = (tail + 1) % cn
  BY <1>2, <1>3, <1>4 DEF FrameConsume, Advance
<1>6. Ahead(tail) < Ahead(head) /\ Ahead(tail) < cn - 1
  <2>1. Ahead(tail) # Ahead(head)
    BY <1>2, <1>3, DistRange DEF Ahead
  <2> QED
    BY <1>3, <1>4, <2>1
<1>7. tail' \in 0..(cn - 1) /\ Ahead(tail') = Ahead(tail) + 1
  BY <1>3, <1>5, <1>6, DistNext DEF Ahead
<1>8. Ahead(tail') \in Nat /\ Ahead(tail) <= Ahead(tail') /\ Ahead(tail') <= Ahead(head)
      /\ tail' < cn
  BY <1>3, <1>6, <1>7
<1>9. \A x : Ahead(x)' = Dist(cn, ctail, x) /\ Ahead(x) = Dist(cn, ctail, x)
  BY <1>1 DEF Ahead
<1>10. Indices'
  BY <1>1, <1>2, <1>8 DEF RingInv, Indices, Ahead
<1>11. ASSUME NEW x, Given(x)
       PROVE  x \in 0..(cn - 1) /\ Ahead(x) <= Ahead(tail')
  <2>1. x \in 0..(cn - 1) /\ Ahead(x) <= Ahead(tail)
    BY <1>11 DEF Given
  <2>2. Ahead(x) \in 0..(cn - 1)
    BY <1>2, <2>1, Positions DEF RingInv
  <2> QED
    BY <1>3, <1>8, <2>1, <2>2
<1>12. Tails'
  <2>1. /\ chan.cmd = "SET_TAIL_INF" => Given(chan.arg)
        /\ ctl.pc = "sendTail" => Given(ctl.tail)
        /\ grantlet.pc = "send" =>
             /\ Given(grantlet.tail)
             /\ chan.cmd = "SET_TAIL_INF" => Ahead(chan.arg) <= Ahead(grantlet.tail)
    BY <1>2 DEF RingInv, Tails
  <2>2. /\ chan.cmd = "SET_TAIL_INF" => Given(chan.arg)'
        /\ ctl.pc = "sendTail" => Given(ctl.tail)'
        /\ grantlet.pc = "send" => Given(grantlet.tail)'
    BY <1>1, <1>11, <2>1 DEF Given, Ahead
  <2> QED
    BY <1>1, <2>1, <2>2 DEF Tails, Ahead
<1>13. Heads'
  BY <1>1, Kept DEF RingInv
<1>14. Configuring' /\ Unsynced' /\ Reading'
  BY <1>1, <1>2 DEF RingInv, Configuring, Unsynced, Reading, Calm
<1> QED
  BY <1>10, <1>12, <1>13, <1>14 DEF RingInv

-----------------------------------------------------------------------------
(* The card. *)

(* A card that is not full can go on without meeting its tail. *)
LEMMA RoomLeft ==
  ASSUME RangeInv, Indices, synced, ~Full
  PROVE  Ahead(chead) < cn - 1
<1>1. /\ cn \in Nat \ {0} /\ ctail \in 0..(cn - 1) /\ chead \in 0..(cn - 1)
      /\ Ahead(chead) \in 0..(cn - 1)
  BY Positions
<1>2. (chead + 1) % cn # ctail
  BY <1>1 DEF Full
<1>3. (chead + 1) % cn = IF chead + 1 = cn THEN 0 ELSE chead + 1
  BY <1>1, NextIs
<1>4. Ahead(chead) = IF ctail <= chead THEN chead - ctail ELSE chead - ctail + cn
  BY <1>1, DistIs DEF Ahead
<1> QED
  BY <1>1, <1>2, <1>3, <1>4

LEMMA CardWriteRing ==
  ASSUME RangeInv, RingInv, CardWrite
  PROVE  RingInv'
<1>1. /\ UNCHANGED <<synced, cn, nFrames, ctail, tail, head, told, chan,
                     ctl, grantlet, isr, running, reader, ready, infos>>
      /\ running /\ ~Full /\ chead' = (chead + 1) % cn
      /\ slot' = [slot EXCEPT ![chead] = written + 1]
  BY DEF CardWrite, ring
<1>2. synced /\ ctl.pc = "idle" /\ chan.cmd # "SET_DATA_MULTI"
  BY <1>1, Busy DEF Calm
<1>3. /\ cn \in Nat \ {0} /\ ctail \in 0..(cn - 1) /\ tail \in 0..(cn - 1)
      /\ head \in 0..(cn - 1) /\ told \in 0..(cn - 1) /\ chead \in 0..(cn - 1)
      /\ Ahead(tail) \in 0..(cn - 1) /\ Ahead(head) \in 0..(cn - 1)
      /\ Ahead(told) \in 0..(cn - 1) /\ Ahead(chead) \in 0..(cn - 1)
      /\ Ahead(ctail) = 0
  BY <1>2, Positions DEF RingInv
<1>4. /\ cn = nFrames /\ Ahead(tail) <= Ahead(head)
      /\ Ahead(head) <= Ahead(told) /\ Ahead(told) <= Ahead(chead)
  BY <1>2 DEF RingInv, Indices
<1>5. Ahead(chead) < cn - 1
  BY <1>1, <1>2, RoomLeft DEF RingInv
<1>6. chead' \in 0..(cn - 1) /\ Ahead(chead') = Ahead(chead) + 1
  BY <1>1, <1>3, <1>5, DistNext DEF Ahead
<1>7. Ahead(told) <= Ahead(chead') /\ chead' < cn
  BY <1>3, <1>4, <1>6
<1>8. Indices'
  BY <1>1, <1>2, <1>7 DEF RingInv, Indices, Ahead
<1>9. Tails' /\ Heads'
  BY <1>1, Kept DEF RingInv
<1>10. Configuring' /\ Unsynced'
  BY <1>1, <1>2 DEF RingInv, Configuring, Unsynced
<1>11. Reading'
  <2> SUFFICES ASSUME reader.pc # "idle" PROVE Reading'
    BY <1>1 DEF Reading
  <2>1. tail # head
    BY DEF RingInv, Reading
  <2>2. Ahead(tail) # Ahead(head)
    BY <1>3, <2>1, DistRange DEF Ahead
  <2>3. tail # chead
    BY <1>3, <1>4, <2>2
  <2>4. slot'[tail] = slot[tail]
    BY <1>1, <2>3
  <2> QED
    BY <1>1, <2>4 DEF RingInv, Reading
<1> QED
  BY <1>8, <1>9, <1>10, <1>11 DEF RingInv

LEMMA CardInformRing ==
  ASSUME RangeInv, RingInv, CardInform
  PROVE  RingInv'
<1>1. /\ UNCHANGED <<synced, cn, nFrames, ctail, tail, head, chead, chan,
                     ctl, grantlet, isr, running, reader, slot, ready>>
      /\ told # chead \/ running
      /\ infos' = Append(infos, chead) /\ told' = chead
  BY DEF CardInform, ring
<1>2. synced /\ ctl.pc = "idle" /\ chan.cmd # "SET_DATA_MULTI"
  BY <1>1, Busy DEF Calm
<1>3. /\ cn \in Nat \ {0} /\ head \in 0..(cn - 1) /\ told \in 0..(cn - 1)
      /\ chead \in 0..(cn - 1) /\ Ahead(head) \in 0..(cn - 1)
      /\ Ahead(told) \in 0..(cn - 1) /\ Ahead(chead) \in 0..(cn - 1)
  BY <1>2, Positions DEF RingInv
<1>4. /\ Ahead(head) <= Ahead(told) /\ Ahead(told) <= Ahead(chead)
  BY <1>2 DEF RingInv, Indices
<1>5. Ahead(head) <= Ahead(chead) /\ Ahead(chead) <= Ahead(chead) /\ chead < cn
  BY <1>3, <1>4
<1>6. Indices'
  BY <1>1, <1>2, <1>5 DEF RingInv, Indices, Ahead
<1>7. Tails' /\ Reading'
  BY <1>1, Kept DEF RingInv
<1>8. Heads'
  <2>1. /\ Len(infos) \in Nat /\ Len(infos') = Len(infos) + 1
        /\ \A i \in 1..Len(infos) : infos'[i] = infos[i]
        /\ infos'[Len(infos) + 1] = chead
    <3>1. infos \in Seq(Slots) /\ chead \in Slots
      BY DEF RangeInv, Words
    <3> QED
      BY <1>1, <3>1, AppendProperties
  <2>2. /\ \A i \in 1..Len(infos) :
             /\ infos[i] < cn
             /\ Ahead(head) <= Ahead(infos[i]) /\ Ahead(infos[i]) <= Ahead(told)
             /\ \A j \in 1..Len(infos) : i < j => Ahead(infos[i]) <= Ahead(infos[j])
        /\ isr.pc = "update" =>
             /\ isr.info < cn
             /\ Ahead(head) <= Ahead(isr.info) /\ Ahead(isr.info) <= Ahead(told)
             /\ \A i \in 1..Len(infos) : Ahead(isr.info) <= Ahead(infos[i])
    BY <1>2 DEF RingInv, Heads
  <2>3. \A i \in 1..Len(infos) : Ahead(infos[i]) \in Int
    <3>1. infos \in Seq(Slots)
      BY DEF RangeInv, Words
    <3>2. ASSUME NEW i \in 1..Len(infos)
          PROVE  infos[i] \in 0..(cn - 1)
      <4>1. infos[i] \in Nat
        BY <3>1, ElementOfSeq, SlotFacts
      <4> QED
        BY <1>3, <2>2, <4>1
    <3>3. \A x \in 0..(cn - 1) : Ahead(x) \in 0..(cn - 1)
      BY <1>2, Positions DEF RingInv
    <3> QED
      BY <3>2, <3>3
  <2>4. isr.pc = "update" => Ahead(isr.info) \in Int
    <3>1. isr.info \in Nat
      BY WordTypes DEF RangeInv
    <3>2. isr.pc = "update" => isr.info \in 0..(cn - 1)
      BY <1>3, <2>2, <3>1
    <3>3. \A x \in 0..(cn - 1) : Ahead(x) \in 0..(cn - 1)
      BY <1>2, Positions DEF RingInv
    <3> QED
      BY <3>2, <3>3
  <2>5. \A i \in 1..Len(infos) : Ahead(infos[i]) <= Ahead(chead)
    BY <1>3, <1>4, <2>2, <2>3
  <2>6. isr.pc = "update" => Ahead(isr.info) <= Ahead(chead)
    BY <1>3, <1>4, <2>2, <2>4
  <2>7. \A i \in 1..Len(infos') : i \in 1..Len(infos) \/ i = Len(infos) + 1
    BY <2>1
  <2>8. \A i \in 1..Len(infos') :
           /\ infos'[i] < cn
           /\ Ahead(head) <= Ahead(infos'[i]) /\ Ahead(infos'[i]) <= Ahead(chead)
           /\ isr.pc = "update" => Ahead(isr.info) <= Ahead(infos'[i])
    BY <1>5, <2>1, <2>2, <2>5, <2>6, <2>7
  <2>9. ASSUME NEW i \in 1..Len(infos'), NEW j \in 1..Len(infos'), i < j
        PROVE  Ahead(infos'[i]) <= Ahead(infos'[j])
    <3>1. i \in 1..Len(infos)
      BY <2>1, <2>7, <2>9
    <3>2. CASE j \in 1..Len(infos)
      BY <2>1, <2>2, <2>9, <3>1, <3>2
    <3>3. CASE j = Len(infos) + 1
      BY <2>1, <2>5, <3>1, <3>3
    <3> QED
      BY <2>7, <3>2, <3>3
  <2> QED
    BY <1>1, <2>2, <2>6, <2>8, <2>9 DEF Heads, Ahead
<1>9. Configuring' /\ Unsynced'
  BY <1>1, <1>2 DEF RingInv, Configuring, Unsynced
<1> QED
  BY <1>6, <1>7, <1>8, <1>9 DEF RingInv

LEMMA CardLoseRing ==
  ASSUME RingInv, CardLose
  PROVE  RingInv'
<1>1. /\ UNCHANGED <<synced, cn, nFrames, ctail, tail, head, told, chead,
                     ctl, grantlet, isr, running, reader, slot, ready, infos>>
      /\ chan' = NoCmd
  BY DEF CardLose, ring, card
<1>2. Indices' /\ Heads' /\ Reading'
  BY <1>1, Kept DEF RingInv
<1>3. Tails'
  BY <1>1 DEF RingInv, Tails, Given, Ahead, NoCmd
<1>4. Configuring' /\ Unsynced'
  BY <1>1 DEF RingInv, Configuring, Unsynced, Calm, NoCmd
<1> QED
  BY <1>2, <1>3, <1>4 DEF RingInv

(* The card executes SET_DATA_MULTI: its ring is new and empty. *)
LEMMA CardConfigureRing ==
  ASSUME RangeInv, RingInv, CardExec, chan.cmd = "SET_DATA_MULTI"
  PROVE  RingInv'
<1>1. /\ UNCHANGED <<nFrames, tail, head, ctl, grantlet, isr, running, reader,
                     slot, ready, infos>>
      /\ chan' = NoCmd /\ cn' = chan.arg
      /\ chead' = 0 /\ ctail' = 0 /\ told' = 0 /\ synced'
  BY DEF CardExec, ring
<1>2. /\ ~synced /\ ctl.pc = "waitData" /\ Calm
      /\ chan.arg = nFrames /\ nFrames \in Sizes
  BY DEF RingInv, Configuring
<1>3. head = 0 /\ tail = 0 /\ reader.pc = "idle"
  BY <1>2 DEF RingInv, Unsynced
<1>4. nFrames \in Nat /\ nFrames > 0
  BY <1>2, ConstAssumption
<1>5. Indices'
  <2>1. 0 <= Dist(nFrames, 0, 0)
    BY <1>4 DEF Dist
  <2> QED
    BY <1>1, <1>2, <1>3, <1>4, <2>1 DEF Indices, Ahead, Dist
<1>6. Calm' /\ Tails' /\ Heads' /\ Reading'
  BY <1>1, <1>2, <1>3 DEF Calm, Tails, Heads, Reading, NoCmd
<1>7. Configuring' /\ Unsynced'
  BY <1>1, <1>2, <1>6 DEF Configuring, Unsynced, NoCmd
<1> QED
  BY <1>5, <1>6, <1>7 DEF RingInv

(* The card executes SET_TAIL_INF: every index is nearer by as much. *)
LEMMA CardGrantRing ==
  ASSUME RangeInv, RingInv, CardExec, chan.cmd # "SET_DATA_MULTI"
  PROVE  RingInv'
<1>1. /\ UNCHANGED <<synced, cn, nFrames, tail, head, told, chead, ctl, grantlet,
                     isr, running, reader, slot, ready, infos>>
      /\ chan' = NoCmd /\ ctail' = chan.arg
  BY DEF CardExec, ring
<1>2. chan.cmd = "SET_TAIL_INF"
  <2>1. chan.cmd \in {"none", "SET_DATA_MULTI", "SET_TAIL_INF"}
    BY DEF RangeInv, Words
  <2> QED
    BY <2>1 DEF CardExec, RingInv, Configuring
<1>3. Reading'
  BY <1>1, Kept DEF RingInv
<1>4. Configuring'
  BY <1>1 DEF RingInv, Configuring, Calm, NoCmd
<1>5. Unsynced'
  BY <1>1 DEF RingInv, Unsynced, Calm, NoCmd
<1>6. CASE ~synced
  BY <1>1, <1>3, <1>4, <1>5, <1>6 DEF RingInv, Indices, Tails, Heads
<1>7. CASE synced
  <2>1. Given(chan.arg)
    BY <1>2, <1>7 DEF RingInv, Tails
  <2>2. /\ cn \in Nat \ {0} /\ ctail \in 0..(cn - 1) /\ chan.arg \in 0..(cn - 1)
        /\ tail \in 0..(cn - 1) /\ head \in 0..(cn - 1)
        /\ told \in 0..(cn - 1) /\ chead \in 0..(cn - 1)
        /\ \A x \in 0..(cn - 1) : Ahead(x) \in 0..(cn - 1)
        /\ Ahead(chan.arg) <= Ahead(tail)
    BY <1>7, <2>1, Positions DEF RingInv, Given
  <2> DEFINE d == Ahead(chan.arg)
             Fwd(x) == x \in 0..(cn - 1) /\ d <= Ahead(x)
  <2>3. d \in Int /\ \A x \in 0..(cn - 1) : Ahead(x) \in Int
    BY <2>2
  <2>4. ASSUME NEW x, Fwd(x)
        PROVE  Ahead(x)' = Ahead(x) - d
    BY <1>1, <2>2, <2>4, DistShift DEF Ahead
  <2> HIDE DEF d
  <2>5. ASSUME NEW x, NEW y, Fwd(x), y \in 0..(cn - 1), Ahead(x) <= Ahead(y)
        PROVE  Fwd(y) /\ (Ahead(x) <= Ahead(y))'
    <3>1. Ahead(x) \in Int /\ Ahead(y) \in Int
      BY <2>3, <2>5
    <3>2. Fwd(y)
      BY <2>3, <2>5, <3>1
    <3>3. Ahead(x)' = Ahead(x) - d /\ Ahead(y)' = Ahead(y) - d
      BY <2>4, <2>5, <3>2
    <3> QED
      BY <2>3, <2>5, <3>1, <3>2, <3>3
  <2>6. /\ Fwd(tail) /\ Fwd(head) /\ Fwd(told) /\ Fwd(chead)
        /\ (Ahead(tail) <= Ahead(head))' /\ (Ahead(head) <= Ahead(told))'
        /\ (Ahead(told) <= Ahead(chead))'
    <3>1. Fwd(tail)
      BY <2>2 DEF d
    <3>2. Ahead(tail) <= Ahead(head) /\ Ahead(head) <= Ahead(told)
          /\ Ahead(told) <= Ahead(chead)
      BY <1>7 DEF RingInv, Indices
    <3>3. Fwd(head) /\ (Ahead(tail) <= Ahead(head))'
      BY <1>1, <2>2, <2>5, <3>1, <3>2
    <3>4. Fwd(told) /\ (Ahead(head) <= Ahead(told))'
      BY <1>1, <2>2, <2>5, <3>2, <3>3
    <3>5. Fwd(chead) /\ (Ahead(told) <= Ahead(chead))'
      BY <1>1, <2>2, <2>5, <3>2, <3>4
    <3> QED
      BY <3>1, <3>3, <3>4, <3>5
  <2>7. Indices'
    <3>1. chan.arg < cn
      BY <2>2
    <3> QED
      BY <1>1, <1>7, <2>6, <3>1 DEF RingInv, Indices
  <2>8. Tails'
    <3>1. ctl.pc = "idle" \/ (ctl.pc # "sendTail" /\ grantlet.pc = "idle")
      BY <1>2 DEF RingInv, Configuring, Calm, NoCmd
    <3>2. CASE grantlet.pc # "send"
      BY <1>1, <1>2, <3>1, <3>2 DEF RingInv, Configuring, Tails, NoCmd
    <3>3. CASE grantlet.pc = "send"
      <4>1. Given(grantlet.tail) /\ Ahead(chan.arg) <= Ahead(grantlet.tail)
        BY <1>2, <1>7, <3>3 DEF RingInv, Tails
      <4>2. Fwd(grantlet.tail) /\ Ahead(grantlet.tail) <= Ahead(tail)
        BY <4>1 DEF Given, d
      <4>3. (Ahead(grantlet.tail) <= Ahead(tail))'
        BY <1>1, <2>2, <2>5, <4>2
      <4>4. Given(grantlet.tail)'
        BY <1>1, <4>2, <4>3 DEF Given
      <4> QED
        BY <1>1, <3>1, <3>3, <4>4 DEF Tails, NoCmd
    <3> QED
      BY <3>2, <3>3
  <2>9. Heads'
    <3>1. /\ \A i \in 1..Len(infos) :
               /\ infos[i] < cn
               /\ Ahead(head) <= Ahead(infos[i]) /\ Ahead(infos[i]) <= Ahead(told)
               /\ \A j \in 1..Len(infos) : i < j => Ahead(infos[i]) <= Ahead(infos[j])
          /\ isr.pc = "update" =>
               /\ isr.info < cn
               /\ Ahead(head) <= Ahead(isr.info) /\ Ahead(isr.info) <= Ahead(told)
               /\ \A i \in 1..Len(infos) : Ahead(isr.info) <= Ahead(infos[i])
      BY <1>7 DEF RingInv, Heads
    <3>2. infos \in Seq(Slots) /\ isr.info \in Nat
      BY WordTypes DEF RangeInv, Words
    <3>3. ASSUME NEW i \in 1..Len(infos)
          PROVE  infos[i] \in 0..(cn - 1)
      <4>1. infos[i] \in Nat
        BY <3>2, ElementOfSeq, SlotFacts
      <4>2. infos[i] < cn
        BY <3>1
      <4>3. cn \in Nat
        BY <2>2
      <4> QED
        BY <4>1, <4>2, <4>3
    <3> DEFINE New(x) == Dist(cn', ctail', x)
    <3>4. ASSUME NEW x, NEW y, Fwd(x), y \in 0..(cn - 1), Ahead(x) <= Ahead(y)
          PROVE  Fwd(y) /\ New(x) <= New(y)
      BY <2>5, <3>4 DEF Ahead
    <3>5. ASSUME NEW i \in 1..Len(infos)
          PROVE  /\ Fwd(infos[i])
                 /\ New(head) <= New(infos[i]) /\ New(infos[i]) <= New(told)
                 /\ \A j \in 1..Len(infos) : i < j => New(infos[i]) <= New(infos[j])
      <4>1. Fwd(infos[i]) /\ New(head) <= New(infos[i])
        BY <2>6, <3>1, <3>3, <3>4
      <4> QED
        BY <2>2, <3>1, <3>3, <3>4, <4>1
    <3>6. isr.pc = "update" =>
            /\ isr.info < cn
            /\ New(head) <= New(isr.info) /\ New(isr.info) <= New(told)
            /\ \A i \in 1..Len(infos) : New(isr.info) <= New(infos[i])
      <4> SUFFICES ASSUME isr.pc = "update"
                   PROVE  /\ isr.info < cn
                          /\ New(head) <= New(isr.info) /\ New(isr.info) <= New(told)
                          /\ \A i \in 1..Len(infos) : New(isr.info) <= New(infos[i])
        OBVIOUS
      <4>1. isr.info \in 0..(cn - 1)
        <5>1. isr.info < cn
          BY <3>1
        <5>2. cn \in Nat
          BY <2>2
        <5> QED
          BY <3>2, <5>1, <5>2
      <4>2. Fwd(isr.info) /\ New(head) <= New(isr.info)
        BY <2>6, <3>1, <3>4, <4>1
      <4> QED
        BY <2>2, <3>1, <3>3, <3>4, <4>2
    <3> QED
      BY <1>1, <3>1, <3>5, <3>6 DEF Heads, Ahead
  <2> QED
    BY <1>3, <1>4, <1>5, <2>7, <2>8, <2>9 DEF RingInv
<1> QED
  BY <1>6, <1>7

-----------------------------------------------------------------------------
(* Every step, when the ring is configured between acquisitions and nobody *)
(* issues EMPTY.                                                           *)
LEMMA RingNext ==
  ASSUME Orderly, ~Empties, Flags, RangeInv, RingInv, [Next]_vars
  PROVE  RingInv'
<1>1. CASE SetDatasize
  BY <1>1, SetDatasizeRing
<1>2. CASE SetNFrames
  BY <1>2, SetNFramesRing
<1>3. CASE CtlSend
  BY <1>3, CtlSendRing
<1>4. CASE CtlReply
  BY <1>4, CtlReplyRing
<1>5. CASE Empty
  BY <1>5 DEF Empty
<1>6. CASE Isr
  BY <1>6, IsrCheckRing, IsrUpdateRing, IsrScheduleRing DEF Isr
<1>7. CASE Grant
  BY <1>7, GrantTaskRing, GrantSendRing DEF Grant
<1>8. CASE Reader
  BY <1>8, FramePollRing, ReadFrameRing, FrameConsumeRing DEF Reader
<1>9. CASE Go
  BY <1>9, GoRing
<1>10. CASE Halt \/ FakeStopframe \/ UNCHANGED vars
  BY <1>10, HaltRing
<1>11. CASE CardWrite
  BY <1>11, CardWriteRing
<1>12. CASE CardInform
  BY <1>12, CardInformRing
<1>13. CASE CardExec
  BY <1>13, CardConfigureRing, CardGrantRing
<1>14. CASE CardLose
  BY <1>14, CardLoseRing
<1> QED
  BY <1>1, <1>2, <1>3, <1>4, <1>5, <1>6, <1>7, <1>8, <1>9, <1>10, <1>11, <1>12,
     <1>13, <1>14 DEF Next

(* The card's tail, the driver's tail, its head and the card's head follow *)
(* each other round the ring: no grant gives away a slot not consumed, and *)
(* the driver takes no slot for new that was not written, whatever sends   *)
(* are refused and commands lost.                                          *)
THEOREM RingStays ==
  ASSUME Orderly, ~Empties
  PROVE  Spec => []RingOrder
<1>1. Flags /\ RangeInv /\ RingInv /\ [Next]_vars => RingInv'
  BY RingNext
<1>2. RangeInv /\ RingInv => RingOrder
  BY RingOrdered DEF RingInv
<1> QED
  BY <1>1, <1>2, RangeInit, RingInit, FlagsNext, RangeNext, PTL DEF Spec

-----------------------------------------------------------------------------
(* The refinement of FrameFifo: Pending is its queue. *)

(* The slot of the i-th frame from slot t on. *)
LEMMA SlotIs ==
  ASSUME NEW n \in Nat \ {0}, NEW t \in 0..(n - 1), NEW i \in 1..n
  PROVE  (t + i - 1) % n = IF t + i - 1 < n THEN t + i - 1 ELSE t + i - 1 - n
<1>1. CASE t + i - 1 < n
  <2>1. t + i - 1 \in 0..(n - 1)
    BY <1>1
  <2> QED
    BY <1>1, <2>1
<1>2. CASE t + i - 1 >= n
  <2>1. t + i - 1 = n * 1 + (t + i - 1 - n) /\ t + i - 1 - n \in 0..(n - 1)
    BY <1>2
  <2> QED
    BY <1>2, <2>1
<1> QED
  BY <1>1, <1>2

(* Counting l slots from slot t to slot c: only the slot after the last of *)
(* them is c, and the i-th slot after t + 1 is the (i + 1)-th after t.     *)
LEMMA SlotWalk ==
  ASSUME NEW n \in Nat \ {0}, NEW t \in 0..(n - 1), NEW c \in 0..(n - 1)
  PROVE  /\ (t + (Dist(n, t, c) + 1) - 1) % n = c
         /\ \A i \in 1..Dist(n, t, c) :
              (t + i - 1) % n \in 0..(n - 1) /\ (t + i - 1) % n # c
         /\ \A i \in 1..(n - 1) : (((t + 1) % n) + i - 1) % n = (t + (i + 1) - 1) % n
<1>1. Dist(n, t, c) = IF t <= c THEN c - t ELSE c - t + n
  BY DistIs
<1>2. Dist(n, t, c) \in 0..(n - 1)
  BY DistRange
<1>3. (t + (Dist(n, t, c) + 1) - 1) % n = c
  <2>1. Dist(n, t, c) + 1 \in 1..n
    BY <1>2
  <2>2. (t + (Dist(n, t, c) + 1) - 1) % n =
          IF t + (Dist(n, t, c) + 1) - 1 < n THEN t + (Dist(n, t, c) + 1) - 1
          ELSE t + (Dist(n, t, c) + 1) - 1 - n
    BY <2>1, SlotIs
  <2> QED
    BY <1>1, <1>2, <2>2
<1>4. ASSUME NEW i \in 1..Dist(n, t, c)
      PROVE  (t + i - 1) % n \in 0..(n - 1) /\ (t + i - 1) % n # c
  <2>1. i \in 1..n
    BY <1>2
  <2>2. (t + i - 1) % n = IF t + i - 1 < n THEN t + i - 1 ELSE t + i - 1 - n
    BY <2>1, SlotIs
  <2> QED
    BY <1>1, <1>2, <2>1, <2>2
<1>5. ASSUME NEW i \in 1..(n - 1)
      PROVE  (((t + 1) % n) + i - 1) % n = (t + (i + 1) - 1) % n
  <2> DEFINE u == IF t + 1 = n THEN 0 ELSE t + 1
  <2>1. (t + 1) % n = u /\ u \in 0..(n - 1)
    BY NextIs
  <2>2. i \in 1..n /\ i + 1 \in 1..n
    OBVIOUS
  <2>3. (u + i - 1) % n = IF u + i - 1 < n THEN u + i - 1 ELSE u + i - 1 - n
    BY <2>1, <2>2, SlotIs
  <2>4. (t + (i + 1) - 1) % n =
          IF t + (i + 1) - 1 < n THEN t + (i + 1) - 1 ELSE t + (i + 1) - 1 - n
    BY <2>2, SlotIs
  <2>5. (u + i - 1) % n = (t + (i + 1) - 1) % n
    BY <2>2, <2>3, <2>4
  <2> QED
    BY <2>1, <2>5
<1> QED
  BY <1>3, <1>4, <1>5

(* The frames that wait are a sequence, empty without a configuration. *)
Queue ==
  /\ ~synced => Pending = <<>>
  /\ synced =>
       /\ Dist(cn, tail, chead) \in 0..(cn - 1)
       /\ Pending = [i \in 1..Dist(cn, tail, chead) |-> slot[(tail + i - 1) % cn]]
       /\ Pending \in Seq(Nat)
       /\ Len(Pending) = Dist(cn, tail, chead)

LEMMA PendingIs == RangeInv /\ RingInv => Queue
<1> SUFFICES ASSUME RangeInv, RingInv PROVE Queue
  OBVIOUS
<1>1. ASSUME ~synced PROVE Pending = <<>>
  BY <1>1 DEF Pending
<1>2. ASSUME synced
      PROVE  /\ Dist(cn, tail, chead) \in 0..(cn - 1)
             /\ Pending = [i \in 1..Dist(cn, tail, chead) |-> slot[(tail + i - 1) % cn]]
             /\ Pending \in Seq(Nat)
             /\ Len(Pending) = Dist(cn, tail, chead)
  <2>1. cn \in Nat \ {0} /\ tail \in 0..(cn - 1) /\ chead \in 0..(cn - 1)
    BY <1>2, Positions DEF RingInv
  <2>2. Dist(cn, tail, chead) \in 0..(cn - 1)
    BY <2>1, DistRange
  <2>3. Pending = [i \in 1..Dist(cn, tail, chead) |-> slot[(tail + i - 1) % cn]]
    BY <1>2 DEF Pending
  <2>4. slot \in [Slots -> Nat] /\ cn <= MaxSize
    BY ConstAssumption DEF RangeInv, Words
  <2>5. \A i \in 1..Dist(cn, tail, chead) : slot[(tail + i - 1) % cn] \in Nat
    BY <2>1, <2>4, SlotWalk, ConstAssumption DEF Slots
  <2> HIDE DEF Pending
  <2>6. Dist(cn, tail, chead) \in Nat
    BY <2>1, <2>2
  <2>7. Pending \in [1..Dist(cn, tail, chead) -> Nat]
    BY <2>3, <2>5
  <2> QED
    BY SMTT(40), <2>2, <2>3, <2>6, <2>7
<1> QED
  BY <1>1, <1>2 DEF Queue

LEMMA PendingIsNext == RangeInv' /\ RingInv' => Queue'
BY PendingIs, PTL

LEMMA PendingKept ==
  ASSUME UNCHANGED <<synced, cn, tail, chead, slot>>
  PROVE  Pending' = Pending
BY DEF Pending

(* A frame the card writes is appended. *)
LEMMA WriteAccepts ==
  ASSUME RangeInv, RingInv, RangeInv', RingInv', CardWrite
  PROVE  Fifo!Accept
<1>1. /\ UNCHANGED <<synced, cn, tail, ctail, out>>
      /\ written' = written + 1
      /\ running /\ ~Full /\ chead' = (chead + 1) % cn
      /\ slot' = [slot EXCEPT ![chead] = written + 1]
  BY DEF CardWrite, ring
<1>2. synced /\ synced'
  BY <1>1, Busy DEF Calm
<1> DEFINE l == Dist(cn, tail, chead)
           e == written + 1
<1>3. /\ cn \in Nat \ {0} /\ tail \in 0..(cn - 1) /\ chead \in 0..(cn - 1)
      /\ ctail \in 0..(cn - 1)
      /\ Ahead(tail) \in 0..(cn - 1) /\ Ahead(told) \in 0..(cn - 1)
      /\ Ahead(head) \in 0..(cn - 1) /\ Ahead(chead) \in 0..(cn - 1)
  BY <1>2, Positions DEF RingInv
<1>4. l \in 0..(cn - 1) /\ Pending = [i \in 1..l |-> slot[(tail + i - 1) % cn]]
      /\ Pending \in Seq(Nat) /\ Len(Pending) = l
  BY <1>2, PendingIs DEF Queue
<1>5. Dist(cn, tail, chead') = l + 1
  <2>1. Ahead(tail) <= Ahead(chead)
    <3>1. /\ Ahead(tail) <= Ahead(head) /\ Ahead(head) <= Ahead(told)
          /\ Ahead(told) <= Ahead(chead)
      BY <1>2 DEF RingInv, Indices
    <3> QED
      BY <1>3, <3>1
  <2>2. l = Ahead(chead) - Ahead(tail)
    BY <1>3, <2>1, DistShift DEF Ahead
  <2>3. Ahead(chead) < cn - 1
    BY <1>1, <1>2, RoomLeft DEF RingInv
  <2>4. l < cn - 1
    BY <1>3, <2>2, <2>3
  <2> QED
    BY <1>1, <1>3, <2>4, DistNext
<1>6. /\ Pending' \in Seq(Nat) /\ Len(Pending') = l + 1
      /\ Pending' = [i \in 1..(l + 1) |-> slot'[(tail + i - 1) % cn]]
  <2>1. /\ Pending' = [i \in 1..Dist(cn', tail', chead') |->
                         slot'[(tail' + i - 1) % cn']]
        /\ Pending' \in Seq(Nat) /\ Len(Pending') = Dist(cn', tail', chead')
    BY <1>2, PendingIsNext DEF Queue
  <2> HIDE DEF l
  <2>2. Dist(cn', tail', chead') = l + 1
    BY <1>1, <1>5
  <2>3. cn' = cn /\ tail' = tail
    BY <1>1
  <2> QED
    BY <2>1, <2>2, <2>3
<1> HIDE DEF l, e
<1>7. /\ slot \in [Slots -> Nat] /\ chead \in Slots /\ e \in Nat
      /\ \A k \in 0..(cn - 1) : k \in Slots
  <2>1. slot \in [Slots -> Nat] /\ chead \in Slots /\ cn <= MaxSize /\ written \in Nat
    BY ConstAssumption DEF RangeInv, Words
  <2> QED
    BY <1>3, <2>1, ConstAssumption DEF Slots, e
<1>8. slot'[chead] = e /\ \A k \in 0..(cn - 1) : k # chead => slot'[k] = slot[k]
  BY <1>1, <1>7 DEF e
<1>9. /\ (tail + (l + 1) - 1) % cn = chead
      /\ \A i \in 1..l : (tail + i - 1) % cn \in 0..(cn - 1) /\ (tail + i - 1) % cn # chead
  BY <1>3, SlotWalk DEF l
<1>10. /\ Append(Pending, e) \in Seq(Nat) /\ Len(Append(Pending, e)) = l + 1
       /\ \A i \in 1..l : Append(Pending, e)[i] = Pending[i]
       /\ Append(Pending, e)[l + 1] = e
  BY <1>4, <1>7, AppendProperties
<1>11. ASSUME NEW i \in 1..(l + 1)
       PROVE  Pending'[i] = Append(Pending, e)[i]
  <2>1. Pending'[i] = slot'[(tail + i - 1) % cn]
    BY <1>6
  <2>2. CASE i \in 1..l
    <3>1. Pending[i] = slot[(tail + i - 1) % cn]
      BY <1>4, <2>2
    <3> QED
      BY <1>8, <1>9, <1>10, <2>1, <2>2, <3>1
  <2>3. CASE i = l + 1
    BY <1>8, <1>9, <1>10, <2>1, <2>3
  <2> QED
    BY <1>4, <2>2, <2>3
<1>12. Pending' = Append(Pending, e)
  BY <1>6, <1>10, <1>11, SeqEqual
<1> QED
  BY <1>1, <1>12 DEF Fifo!Accept, e

(* The frame consumed is the oldest one, as it was written. *)
LEMMA ConsumeConsumes ==
  ASSUME RangeInv, RingInv, RangeInv', RingInv', FrameConsume
  PROVE  Fifo!Consume
<1>1. /\ UNCHANGED <<synced, cn, head, chead, slot, written>>
      /\ out' = reader.frame /\ reader.pc = "done"
  BY DEF FrameConsume, card
<1>2. synced /\ synced' /\ tail # head /\ reader.frame = slot[tail]
  BY <1>1 DEF RingInv, Reading
<1> DEFINE l == Dist(cn, tail, chead)
<1>3. /\ cn \in Nat \ {0} /\ tail \in 0..(cn - 1) /\ chead \in 0..(cn - 1)
      /\ ctail \in 0..(cn - 1) /\ head \in 0..(cn - 1)
      /\ Ahead(tail) \in 0..(cn - 1) /\ Ahead(told) \in 0..(cn - 1)
      /\ Ahead(head) \in 0..(cn - 1) /\ Ahead(chead) \in 0..(cn - 1)
  BY <1>2, Positions DEF RingInv
<1>4. l \in 0..(cn - 1) /\ Pending = [i \in 1..l |-> slot[(tail + i - 1) % cn]]
      /\ Pending \in Seq(Nat) /\ Len(Pending) = l
  BY <1>2, PendingIs DEF Queue
<1>5. tail' = (tail + 1) % cn
  BY <1>2, <1>3 DEF FrameConsume, Advance, RingInv, Indices
<1>6. l > 0
  <2>1. /\ Ahead(tail) <= Ahead(head) /\ Ahead(head) <= Ahead(told)
        /\ Ahead(told) <= Ahead(chead)
    BY <1>2 DEF RingInv, Indices
  <2>2. Ahead(tail) # Ahead(head)
    BY <1>2, <1>3, DistRange DEF Ahead
  <2>3. Ahead(tail) < Ahead(chead)
    BY <1>3, <2>1, <2>2
  <2>4. l = Ahead(chead) - Ahead(tail)
    BY <1>3, <2>3, DistShift DEF Ahead
  <2> QED
    BY <1>3, <2>3, <2>4
<1>7. tail' \in 0..(cn - 1) /\ Dist(cn, tail', chead) = l - 1
  <2>1. l = IF tail <= chead THEN chead - tail ELSE chead - tail + cn
    BY <1>3, DistIs
  <2>2. tail' = IF tail + 1 = cn THEN 0 ELSE tail + 1
    BY <1>3, <1>5, NextIs
  <2>3. tail' \in 0..(cn - 1)
    BY <1>3, <2>2
  <2>4. Dist(cn, tail', chead) = IF tail' <= chead THEN chead - tail' ELSE chead - tail' + cn
    BY <1>3, <2>3, DistIs
  <2> HIDE DEF l
  <2> QED
    BY <1>3, <1>6, <2>1, <2>2, <2>3, <2>4
<1>8. /\ Pending' \in Seq(Nat) /\ Len(Pending') = l - 1
      /\ Pending' = [i \in 1..(l - 1) |-> slot[(tail' + i - 1) % cn]]
  <2>1. /\ Pending' = [i \in 1..Dist(cn', tail', chead') |->
                         slot'[(tail' + i - 1) % cn']]
        /\ Pending' \in Seq(Nat) /\ Len(Pending') = Dist(cn', tail', chead')
    BY <1>2, PendingIsNext DEF Queue
  <2> QED
    BY <1>1, <1>7, <2>1
<1> HIDE DEF l
<1>9. Pending # <<>>
  BY <1>4, <1>6
<1>10. Head(Pending) = slot[tail]
  <2>1. (tail + 1 - 1) % cn = tail
    BY <1>3
  <2>2. 1 \in 1..l
    BY <1>4, <1>6
  <2>3. Pending[1] = slot[tail]
    BY <1>4, <2>1, <2>2
  <2> QED
    BY <1>4, <1>9, <2>3
<1>11. /\ Tail(Pending) \in Seq(Nat) /\ Len(Tail(Pending)) = l - 1
       /\ \A i \in 1..(l - 1) : Tail(Pending)[i] = Pending[i + 1]
  BY <1>4, <1>9, HeadTailProperties
<1>12. ASSUME NEW i \in 1..(l - 1)
       PROVE  Pending'[i] = Tail(Pending)[i]
  <2>1. Pending'[i] = slot[(tail' + i - 1) % cn]
    BY <1>8
  <2>2. i \in 1..(cn - 1) /\ i + 1 \in 1..l
    BY <1>3, <1>4
  <2>3. Pending[i + 1] = slot[(tail + (i + 1) - 1) % cn]
    BY <1>4, <2>2
  <2>4. (tail' + i - 1) % cn = (tail + (i + 1) - 1) % cn
    BY <1>3, <1>5, <2>2, SlotWalk
  <2> QED
    BY <1>11, <2>1, <2>3, <2>4
<1>13. Pending' = Tail(Pending)
  BY <1>8, <1>11, <1>12, SeqEqual
<1> QED
  BY <1>1, <1>2, <1>9, <1>10, <1>13 DEF Fifo!Consume

(* Every step is one of the queue's, or leaves it alone. *)
LEMMA QueueNext ==
  ASSUME ~Empties, RangeInv, RingInv, RangeInv', RingInv', [Next]_vars
  PROVE  [Fifo!Next]_<<Pending, written, out>>
<1>1. CASE SetDatasize
  <2>1. ~synced' /\ UNCHANGED <<written, out>>
    BY <1>1 DEF SetDatasize
  <2>2. Pending' = <<>>
    BY <2>1, PendingIsNext DEF Queue
  <2> QED
    BY <2>1, <2>2 DEF Fifo!Next, Fifo!Configure
<1>2. CASE CardWrite
  BY <1>2, WriteAccepts DEF Fifo!Next
<1>3. CASE FrameConsume
  BY <1>3, ConsumeConsumes DEF Fifo!Next
<1>4. CASE CardExec
  <2>1. UNCHANGED <<written, out>>
    BY <1>4 DEF CardExec
  <2>2. CASE chan.cmd = "SET_DATA_MULTI"
    <3>1. ~synced
      BY <2>2 DEF RingInv, Configuring
    <3>2. synced' /\ tail' = tail /\ chead' = 0
      BY <1>4, <2>2 DEF CardExec, ring
    <3>3. tail = 0
      BY <3>1 DEF RingInv, Unsynced
    <3>4. cn' \in Nat \ {0}
      <4>1. cn' = chan.arg
        BY <1>4, <2>2 DEF CardExec
      <4>2. chan.arg = nFrames /\ nFrames \in Sizes
        BY <2>2 DEF RingInv, Configuring
      <4>3. nFrames \in Nat \ {0}
        BY <4>2, ConstAssumption
      <4> QED
        BY <4>1, <4>2, <4>3
    <3>5. Dist(cn', tail', chead') = 0
      BY <3>2, <3>3, <3>4, DistRange
    <3>6. Pending' \in Seq(Nat) /\ Len(Pending') = 0
      BY <3>2, <3>5, PendingIsNext DEF Queue
    <3>7. Pending' = <<>>
      BY <3>6, EmptySeq
    <3>8. Pending = <<>>
      BY <3>1, PendingIs DEF Queue
    <3> QED
      BY <2>1, <3>7, <3>8
  <2>3. CASE chan.cmd # "SET_DATA_MULTI"
    <3>1. UNCHANGED <<synced, cn, tail, chead, slot>>
      BY <1>4, <2>3 DEF CardExec, ring
    <3> QED
      BY <2>1, <3>1, PendingKept
  <2> QED
    BY <2>2, <2>3
<1>5. CASE \/ SetNFrames \/ CtlSend \/ CtlReply \/ FakeStopframe \/ Isr \/ Grant
           \/ FramePoll \/ ReadFrame \/ Go \/ Halt \/ CardInform \/ CardLose
           \/ UNCHANGED vars
  <2>1. UNCHANGED <<synced, cn, tail, chead, slot, written, out>>
    BY <1>5 DEF SetNFrames, CtlSend, CtlReply, FakeStopframe, Isr, IsrCheck,
                IsrUpdate, IsrSchedule, Grant, GrantTask, GrantSend, FramePoll,
                ReadFrame, Go, Halt, CardInform, CardLose, ring, card, vars
  <2> QED
    BY <2>1, PendingKept
<1>6. CASE Empty
  BY <1>6 DEF Empty
<1> QED
  BY <1>1, <1>2, <1>3, <1>4, <1>5, <1>6 DEF Next, Reader

(* Frames come out once each, as they were written, in the order they were *)
(* written, whatever commands are refused or lost.                         *)
THEOREM FramesInOrder ==
  ASSUME Orderly, ~Empties
  PROVE  Spec => ImplementsFifo
<1>1. Init => Fifo!Init
  BY DEF Init, Pending, Fifo!Init
<1>2. Flags /\ RangeInv /\ RingInv /\ [Next]_vars => RingInv'
  BY RingNext
<1>3. RangeInv /\ RingInv /\ RangeInv' /\ RingInv' /\ [Next]_vars
        => [Fifo!Next]_<<Pending, written, out>>
  BY QueueNext
<1> QED
  BY <1>1, <1>2, <1>3, RangeInit, RingInit, FlagsNext, RangeNext, PTL
  DEF Spec, ImplementsFifo, Fifo!Spec
=============================================================================
