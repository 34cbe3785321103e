-------------------------- MODULE LegacyRing_proofs --------------------------
(***************************************************************************)
(* The account of frames in the legacy driver's ring, for any divisions of *)
(* the buffer, any number of frames and of configurations, and any of the  *)
(* trouble that LegacyRing knows: each frame read is later than all read   *)
(* before it, and those left out were counted, while upset is FALSE.       *)
(*                                                                         *)
(* While it is, the ring is in one of two states.  It is still: nothing    *)
(* runs, nothing is on its way, and it may have any indices; a             *)
(* configuration begins and ends there.  Or frames flow: the slots from    *)
(* the tail to the card's head hold the frames after those taken, and the  *)
(* heads that driver, interrupt and message know lie between, each with    *)
(* the drops up to it.  Along these slots the frames rise, from the last   *)
(* one read on (Ordered), so that the next one read is later than it.      *)
(***************************************************************************)
EXTENDS LegacyRing, FiniteSetTheorems, TLAPS

-----------------------------------------------------------------------------
(* Slots of a ring of n, from the slot a or t on.                          *)

Dist(n, a, b)  == IF a <= b THEN b - a ELSE (b - a) + n
At(n, t, j)    == IF t + j < n THEN t + j ELSE (t + j) - n
NextSlot(n, a) == IF a + 1 = n THEN 0 ELSE a + 1

(* Frames before h, counted from the tail t: the one j slots on is the one *)
(* numbered base + j + 1, or later by at most limit that are missing.      *)
Window(s, n, t, base, h, limit) ==
  \A j \in 0..(Dist(n, t, h) - 1) :
    s[At(n, t, j)] - (base + j + 1) \in 0..limit

(* Nothing but slot h is written. *)
SameBut(s, s2, n, h) == \A i \in 0..(n - 1) : i # h => s2[i] = s[i]

LEMMA NextIs ==
  ASSUME NEW n \in Nat, NEW a \in Nat, a < n
  PROVE  /\ (a + 1) % n = NextSlot(n, a)
         /\ NextSlot(n, a) \in Nat /\ NextSlot(n, a) < n
<1>1. CASE a + 1 = n
  BY <1>1 DEF NextSlot
<1>2. CASE a + 1 < n
  BY <1>2 DEF NextSlot
<1> QED
  BY <1>1, <1>2

LEMMA DistRange ==
  ASSUME NEW n \in Nat, NEW a \in Nat, NEW b \in Nat, a < n, b < n
  PROVE  /\ Dist(n, a, b) \in Nat /\ Dist(n, a, b) < n
         /\ Dist(n, a, b) = 0 <=> a = b
BY DEF Dist

(* One slot further, unless counting begins there. *)
LEMMA DistNext ==
  ASSUME NEW n \in Nat, NEW a \in Nat, NEW b \in Nat, a < n, b < n
  PROVE  /\ Dist(n, a, b) < n
         /\ NextSlot(n, b) = a <=> Dist(n, a, b) + 1 = n
         /\ NextSlot(n, b) # a => Dist(n, a, NextSlot(n, b)) = Dist(n, a, b) + 1
BY DEF Dist, NextSlot

(* Counting begins one slot later. *)
LEMMA DistShift ==
  ASSUME NEW n \in Nat, NEW a \in Nat, NEW b \in Nat, a < n, b < n, a # b
  PROVE  Dist(n, a, b) = Dist(n, NextSlot(n, a), b) + 1
BY DEF Dist, NextSlot

(* Distances add up. *)
LEMMA DistSum ==
  ASSUME NEW n \in Nat, NEW a \in Nat, NEW b \in Nat, NEW c \in Nat,
         a < n, b < n, c < n, Dist(n, a, b) + Dist(n, b, c) < n
  PROVE  Dist(n, a, c) = Dist(n, a, b) + Dist(n, b, c)
BY DEF Dist

(* Between 0 and n, further on in turn. *)
LEMMA DistOrder ==
  ASSUME NEW n \in Nat, NEW t \in Nat, NEW a \in Nat, NEW b \in Nat,
         t < n, a < n, b < n, Dist(n, t, a) <= Dist(n, t, b)
  PROVE  \/ t <= a /\ a <= b
         \/ a >= t /\ t > b /\ a > b
         \/ t > b /\ b >= a /\ t > a
BY DEF Dist

LEMMA AtIs ==
  ASSUME NEW n \in Nat, NEW t \in Nat, t < n, NEW j \in Nat, j < n
  PROVE  /\ At(n, t, j) \in Nat /\ At(n, t, j) < n
         /\ Dist(n, t, At(n, t, j)) = j
         /\ At(n, t, 0) = t
BY DEF At, Dist

LEMMA AtDist ==
  ASSUME NEW n \in Nat, NEW t \in Nat, t < n, NEW h \in Nat, h < n
  PROVE  At(n, t, Dist(n, t, h)) = h
BY DEF At, Dist

LEMMA AtShift ==
  ASSUME NEW n \in Nat, NEW t \in Nat, t < n, NEW j \in Nat, j + 1 < n
  PROVE  At(n, NextSlot(n, t), j) = At(n, t, j + 1)
BY DEF At, NextSlot

-----------------------------------------------------------------------------
(* What becomes of a window.                                               *)

(* It is shorter, or more is missing. *)
LEMMA WindowLess ==
  ASSUME NEW s, NEW n \in Nat, NEW t \in Nat, NEW base \in Nat,
         NEW h \in Nat, NEW g \in Nat, t < n, h < n, g < n,
         NEW limit \in Nat, NEW more \in Nat,
         Window(s, n, t, base, h, limit),
         Dist(n, t, g) <= Dist(n, t, h), limit <= more
  PROVE  Window(s, n, t, base, g, more)
<1> SUFFICES ASSUME NEW j \in 0..(Dist(n, t, g) - 1)
             PROVE  s[At(n, t, j)] - (base + j + 1) \in 0..more
  BY DEF Window
<1>1. Dist(n, t, h) \in Nat /\ Dist(n, t, g) \in Nat
  BY DistRange
<1>2. j \in 0..(Dist(n, t, h) - 1)
  BY <1>1
<1>3. s[At(n, t, j)] - (base + j + 1) \in 0..limit
  BY <1>2 DEF Window
<1> QED
  BY <1>3

(* The frame at the tail is the next one, or later. *)
LEMMA WindowFirst ==
  ASSUME NEW s, NEW n \in Nat, NEW t \in Nat, NEW base \in Nat,
         NEW h \in Nat, t < n, h < n, t # h, NEW limit \in Nat,
         Window(s, n, t, base, h, limit)
  PROVE  s[t] - (base + 1) \in 0..limit
<1>1. Dist(n, t, h) \in Nat /\ Dist(n, t, h) > 0
  BY DistRange
<1>2. s[At(n, t, 0)] - (base + 0 + 1) \in 0..limit
  BY <1>1 DEF Window
<1>3. At(n, t, 0) = t
  BY DEF At
<1> QED
  BY <1>2, <1>3

(* The tail moves past a frame. *)
LEMMA WindowShift ==
  ASSUME NEW s, NEW n \in Nat, NEW t \in Nat, NEW base \in Nat,
         NEW h \in Nat, t < n, h < n, t # h, NEW limit \in Nat,
         Window(s, n, t, base, h, limit)
  PROVE  Window(s, n, NextSlot(n, t), base + 1, h, limit)
<1> DEFINE u == NextSlot(n, t)
<1> SUFFICES ASSUME NEW j \in 0..(Dist(n, u, h) - 1)
             PROVE  s[At(n, u, j)] - ((base + 1) + j + 1) \in 0..limit
  BY DEF Window
<1>1. u \in Nat /\ u < n
  BY NextIs
<1>2. Dist(n, t, h) = Dist(n, u, h) + 1 /\ Dist(n, u, h) \in Nat
      /\ Dist(n, t, h) < n
  BY <1>1, DistShift, DistRange
<1>3. j + 1 \in 0..(Dist(n, t, h) - 1) /\ j \in Nat /\ j + 1 < n
  BY <1>2
<1>4. s[At(n, t, j + 1)] - (base + (j + 1) + 1) \in 0..limit
  BY <1>3 DEF Window
<1>5. At(n, u, j) = At(n, t, j + 1)
  BY <1>3, AtShift
<1>6. base + (j + 1) + 1 = (base + 1) + j + 1
  BY <1>3
<1> QED
  BY <1>4, <1>5, <1>6

(* A slot that is written beyond it does not concern it. *)
LEMMA WindowKept ==
  ASSUME NEW s, NEW s2, NEW n \in Nat, NEW t \in Nat, NEW base \in Nat,
         NEW g \in Nat, NEW h \in Nat, t < n, g < n, h < n, NEW limit \in Nat,
         Window(s, n, t, base, g, limit),
         Dist(n, t, g) <= Dist(n, t, h),
         SameBut(s, s2, n, h)
  PROVE  Window(s2, n, t, base, g, limit)
<1> SUFFICES ASSUME NEW j \in 0..(Dist(n, t, g) - 1)
             PROVE  s2[At(n, t, j)] - (base + j + 1) \in 0..limit
  BY DEF Window
<1>1. /\ Dist(n, t, g) \in Nat /\ Dist(n, t, g) < n
      /\ Dist(n, t, h) \in Nat /\ Dist(n, t, h) < n
  BY DistRange
<1>2. j \in Nat /\ j < n /\ j # Dist(n, t, h)
  BY <1>1
<1>3. At(n, t, j) \in Nat /\ At(n, t, j) < n /\ Dist(n, t, At(n, t, j)) = j
  BY <1>2, AtIs
<1>4. At(n, t, j) # h /\ At(n, t, j) \in 0..(n - 1)
  BY <1>2, <1>3
<1>5. s2[At(n, t, j)] = s[At(n, t, j)]
  BY <1>4 DEF SameBut
<1> QED
  BY <1>5 DEF Window

(* A frame is written at its end, and it grows. *)
LEMMA WindowGrow ==
  ASSUME NEW s, NEW s2, NEW n \in Nat, NEW t \in Nat, NEW base \in Nat,
         NEW h \in Nat, t < n, h < n, NEW limit \in Nat,
         Window(s, n, t, base, h, limit), NextSlot(n, h) # t,
         SameBut(s, s2, n, h),
         s2[h] - (base + Dist(n, t, h) + 1) \in 0..limit
  PROVE  Window(s2, n, t, base, NextSlot(n, h), limit)
<1> SUFFICES ASSUME NEW j \in 0..(Dist(n, t, NextSlot(n, h)) - 1)
             PROVE  s2[At(n, t, j)] - (base + j + 1) \in 0..limit
  BY DEF Window
<1>1. Dist(n, t, h) \in Nat /\ Dist(n, t, h) < n
  BY DistRange
<1>2. Dist(n, t, NextSlot(n, h)) = Dist(n, t, h) + 1
  BY DistNext
<1>3. j \in 0..Dist(n, t, h)
  BY <1>1, <1>2
<1>4. CASE j = Dist(n, t, h)
  BY <1>4, AtDist
<1>5. CASE j # Dist(n, t, h)
  <2>1. Window(s2, n, t, base, h, limit)
    <3>1. Dist(n, t, h) <= Dist(n, t, h)
      BY <1>1
    <3> QED
      BY WindowKept, <3>1
  <2>2. j \in 0..(Dist(n, t, h) - 1)
    BY <1>1, <1>3, <1>5
  <2> QED
    BY <2>1, <2>2 DEF Window
<1> QED
  BY <1>4, <1>5

-----------------------------------------------------------------------------
(* The order of the frames in a ring.                                      *)

(* Each frame before h is later than low, and than those before it. *)
Rising(s, n, t, low, h) ==
  \A j \in 0..(Dist(n, t, h) - 1) :
    /\ s[At(n, t, j)] > low
    /\ \A i \in 0..(j - 1) : s[At(n, t, j)] > s[At(n, t, i)]

(* The tail moves past a frame, the lowest of them. *)
LEMMA RisingShift ==
  ASSUME NEW s, NEW n \in Nat, NEW t \in Nat, NEW low,
         NEW h \in Nat, t < n, h < n, t # h,
         Rising(s, n, t, low, h)
  PROVE  s[t] > low /\ Rising(s, n, NextSlot(n, t), s[t], h)
<1> DEFINE u == NextSlot(n, t)
<1>1. u \in Nat /\ u < n
  BY NextIs
<1>2. Dist(n, t, h) = Dist(n, u, h) + 1 /\ Dist(n, u, h) \in Nat
      /\ Dist(n, t, h) < n
  BY <1>1, DistShift, DistRange
<1>3. At(n, t, 0) = t
  BY DEF At
<1>4. s[t] > low
  <2>1. 0 \in 0..(Dist(n, t, h) - 1)
    BY <1>2
  <2> QED
    BY <1>3, <2>1 DEF Rising
<1>5. ASSUME NEW j \in 0..(Dist(n, u, h) - 1)
      PROVE  /\ s[At(n, u, j)] > s[t]
             /\ \A i \in 0..(j - 1) : s[At(n, u, j)] > s[At(n, u, i)]
  <2>1. j + 1 \in 0..(Dist(n, t, h) - 1) /\ j \in Nat /\ j + 1 < n
    BY <1>2
  <2>2. \A i \in 0..j : At(n, u, i) = At(n, t, i + 1)
    <3>1. \A i \in 0..j : i \in Nat /\ i + 1 < n
      BY <2>1
    <3> QED
      BY <3>1, AtShift
  <2>3. \A i \in 0..((j + 1) - 1) : s[At(n, t, j + 1)] > s[At(n, t, i)]
    BY <2>1 DEF Rising
  <2>4. 0 \in 0..((j + 1) - 1) /\ j \in 0..j
    BY <2>1
  <2>5. \A i \in 0..(j - 1) : i \in 0..j /\ i + 1 \in 0..((j + 1) - 1)
    BY <2>1
  <2> QED
    BY <1>3, <2>2, <2>3, <2>4, <2>5
<1> QED
  BY <1>4, <1>5 DEF Rising

(* A slot that is written beyond it does not concern it. *)
LEMMA RisingKept ==
  ASSUME NEW s, NEW s2, NEW n \in Nat, NEW t \in Nat, NEW low, NEW h \in Nat,
         t < n, h < n, Rising(s, n, t, low, h), SameBut(s, s2, n, h)
  PROVE  /\ Rising(s2, n, t, low, h)
         /\ \A j \in 0..(Dist(n, t, h) - 1) : s2[At(n, t, j)] = s[At(n, t, j)]
<1>1. Dist(n, t, h) \in Nat /\ Dist(n, t, h) < n
  BY DistRange
<1>2. ASSUME NEW j \in 0..(Dist(n, t, h) - 1)
      PROVE  s2[At(n, t, j)] = s[At(n, t, j)]
  <2>1. j \in Nat /\ j < n /\ j # Dist(n, t, h)
    BY <1>1
  <2>2. At(n, t, j) \in Nat /\ At(n, t, j) < n /\ Dist(n, t, At(n, t, j)) = j
    BY <2>1, AtIs
  <2>3. At(n, t, j) # h /\ At(n, t, j) \in 0..(n - 1)
    BY <2>1, <2>2
  <2> QED
    BY <2>3 DEF SameBut
<1>3. ASSUME NEW j \in 0..(Dist(n, t, h) - 1)
      PROVE  /\ s2[At(n, t, j)] > low
             /\ \A i \in 0..(j - 1) : s2[At(n, t, j)] > s2[At(n, t, i)]
  <2>1. \A i \in 0..(j - 1) : i \in 0..(Dist(n, t, h) - 1)
    BY <1>1
  <2>2. /\ s[At(n, t, j)] > low
        /\ \A i \in 0..(j - 1) : s[At(n, t, j)] > s[At(n, t, i)]
    BY DEF Rising
  <2> QED
    BY <1>2, <2>1, <2>2
<1> QED
  BY <1>2, <1>3 DEF Rising

(* A frame later than all of them is written at its end. *)
LEMMA RisingGrow ==
  ASSUME NEW s, NEW s2, NEW n \in Nat, NEW t \in Nat, NEW low, NEW h \in Nat,
         t < n, h < n, Rising(s, n, t, low, h), NextSlot(n, h) # t,
         SameBut(s, s2, n, h), s2[h] > low,
         \A j \in 0..(Dist(n, t, h) - 1) : s2[h] > s[At(n, t, j)]
  PROVE  Rising(s2, n, t, low, NextSlot(n, h))
<1>1. Dist(n, t, h) \in Nat /\ Dist(n, t, h) < n
  BY DistRange
<1>2. Dist(n, t, NextSlot(n, h)) = Dist(n, t, h) + 1
  BY DistNext
<1>3. /\ Rising(s2, n, t, low, h)
      /\ \A j \in 0..(Dist(n, t, h) - 1) : s2[At(n, t, j)] = s[At(n, t, j)]
  BY RisingKept
<1>4. ASSUME NEW j \in 0..(Dist(n, t, NextSlot(n, h)) - 1)
      PROVE  /\ s2[At(n, t, j)] > low
             /\ \A i \in 0..(j - 1) : s2[At(n, t, j)] > s2[At(n, t, i)]
  <2>1. CASE j = Dist(n, t, h)
    <3>1. At(n, t, j) = h
      BY <2>1, AtDist
    <3> QED
      BY <1>3, <2>1, <3>1
  <2>2. CASE j # Dist(n, t, h)
    <3>1. j \in 0..(Dist(n, t, h) - 1)
      BY <1>1, <1>2, <2>2
    <3> QED
      BY <1>3, <3>1 DEF Rising
  <2> QED
    BY <2>1, <2>2
<1> QED
  BY <1>4 DEF Rising

-----------------------------------------------------------------------------
(* Types, and the channel to the card.                                     *)

LEMMA SlotFacts ==
  /\ Largest \in Sizes /\ 0 \in Slots /\ Slots \subseteq Nat
  /\ \A n \in Sizes : n \in Nat /\ n > 0 /\ n <= Largest
  /\ \A n \in Sizes : \A i \in Nat : i < n => i \in Slots
  /\ StopFrame \in Nat /\ MaxFrames \in Nat
<1>1. \E n \in Sizes : \A m \in Sizes : m <= n
  BY RingAssumption
<1>2. Largest \in Sizes /\ \A m \in Sizes : m <= Largest
  BY <1>1 DEF Largest
<1>3. \A n \in Sizes : n \in Nat /\ n > 0
  <2>1. Sizes \subseteq Nat \ {0}
    BY RingAssumption
  <2> QED
    BY <2>1
<1>4. MaxFrames \in Nat
  BY RingAssumption, Zenon
<1> QED
  BY <1>2, <1>3, <1>4 DEF Slots, StopFrame

Looks == [pc : {"idle", "test"}, new : Nat, tail : Nat]
Reads == [pc : {"idle", "frame", "done", "over"}, x : Nat, frame : Nat]
Commands == [cmd : {"none", "QTS", "GRANT", "HST"}, arg : Nat]
Waits == [pc : {"idle", "wait", "answered", "go"}, step : 1..6,
          next : {"idle", "ready", "go"}, arg : Nat]
Msg == [type : {"QTI", "DA"}, head : Nat, drops : Nat]

RingTypes ==
  /\ head \in Nat /\ tail \in Slots /\ partial \in {0, 1}
  /\ maxIndex \in Sizes /\ dropped \in Nat
  /\ dataMode \in {"quiet", "classic"} /\ upset \in BOOLEAN
  /\ {first, out, taken, refused, written} \subseteq Nat
  /\ isr \in Looks /\ reader \in Reads
  /\ running \in BOOLEAN

ChannelTypes ==
  /\ prio \subseteq {"INT", "INFORM"} /\ task \in {"none", "INT", "INFORM"}
  /\ informTail \in Slots /\ lost \in BOOLEAN
  /\ chan \in Commands /\ ctl \in Waits

CardTypes ==
  /\ firmware \in {"quiet", "classic"} /\ enabled \in BOOLEAN
  /\ cn \in Sizes /\ ctail \in Slots
  /\ {chead, drops, held} \subseteq Nat /\ told \in Nat \X Nat
  /\ slot \in [Slots -> Nat]
  /\ msgs = <<>> \/ \E m \in Msg : msgs = <<m>>

(* A command with priority is out while the process that gave it waits, *)
(* and a slot of the ring where the card needs one.                     *)
Orders ==
  /\ chan.cmd = "QTS" =>
       ctl.pc = "wait" /\ chan.arg = ctl.arg /\ ("INT" \in prio => task = "INT")
  /\ chan.cmd = "GRANT" => chan.arg \in Slots
  /\ "INT" \in prio /\ task # "INT" => ctl.pc = "wait"
  /\ ctl.pc = "wait" /\ ctl.step = 2 => ctl.arg = maxIndex
  /\ ctl.pc = "wait" /\ ctl.step = 3 => ctl.arg \in Slots

Types == RingTypes /\ ChannelTypes /\ CardTypes /\ Orders

LEMMA Records ==
  /\ NotTesting \in Looks /\ Unread \in Reads
  /\ [Unread EXCEPT !.pc = "over"] \in Reads
  /\ NoCmd \in Commands /\ Idle \in Waits /\ [Idle EXCEPT !.pc = "go"] \in Waits
BY DEF NotTesting, Unread, NoCmd, Idle, Looks, Reads, Commands, Waits

(* A message is the only one. *)
LEMMA MsgIs ==
  ASSUME CardTypes, msgs # <<>>
  PROVE  /\ Head(msgs) \in Msg /\ Tail(msgs) = <<>>
         /\ msgs = <<Head(msgs)>>
<1>1. PICK m \in Msg : msgs = <<m>>
  BY DEF CardTypes
<1>2. Head(<<m>>) = m /\ Tail(<<m>>) = <<>>
  OBVIOUS
<1> QED
  BY <1>1, <1>2

LEMMA ModSlot ==
  ASSUME NEW x \in Nat, NEW n \in Sizes
  PROVE  (x + 1) % n \in Slots /\ (x + 1) % n \in Nat /\ (x + 1) % n < n
<1>1. n \in Nat /\ n > 0
  BY SlotFacts
<1>2. (x + 1) % n \in 0..(n - 1)
  BY <1>1
<1> QED
  BY <1>1, <1>2, SlotFacts

LEMMA TypesInit == Init => Types
<1> SUFFICES ASSUME Init PROVE Types
  OBVIOUS
<1>1. written \in Nat
  BY RingAssumption DEF Init
<1>2. RingTypes
  BY <1>1, SlotFacts, Records DEF Init, RingTypes
<1>3. ChannelTypes
  <2>1. 0 \in Slots
    BY SlotFacts
  <2> QED
    BY <2>1, Records DEF Init, ChannelTypes
<1>4. CardTypes
  BY SlotFacts DEF Init, CardTypes
<1>5. Orders
  BY DEF Init, Orders, NoCmd, Idle
<1> QED
  BY <1>2, <1>3, <1>4, <1>5 DEF Types

LEMMA RingTypesStep == ASSUME Types, [Next]_vars PROVE RingTypes'
<1> USE DEF Types, RingTypes, world, dframes, control, mce, card, account, channel
<1>1. CASE TaskSend \/ TaskFail \/ TaskDone
  BY <1>1 DEF TaskSend, TaskFail, TaskDone
<1>2. CASE SetDatasize
  BY <1>2 DEF SetDatasize
<1>3. CASE QtConfig
  BY <1>3 DEF QtConfig
<1>4. CASE QtAnswered
  BY <1>4, SlotFacts DEF QtAnswered, Reset, NewAccount
<1>5. CASE Go
  BY <1>5, Records DEF Go
<1>6. CASE Empty
  BY <1>6, SlotFacts DEF Empty, Forget
<1>7. CASE FakeStop
  BY <1>7 DEF FakeStop, Forget
<1>8. CASE QtiHandler
  <2>1. Head(msgs) \in Msg
    BY <1>8, MsgIs DEF QtiHandler, Announced
  <2>2. Head(msgs).head \in Nat /\ Head(msgs).drops \in Nat
    BY <2>1 DEF Msg
  <2>3. tail \in Nat /\ (Head(msgs).head + 1) % maxIndex \in Slots
    BY <2>2, SlotFacts, ModSlot
  <2>4. [pc |-> "test", new |-> Head(msgs).head, tail |-> tail] \in Looks
    BY <2>2, <2>3 DEF Looks
  <2> QED
    BY <1>8, <2>2, <2>3, <2>4 DEF QtiHandler, MoveHead, CountDrops
<1>9. CASE QtiRest
  <2>1. isr.new \in Nat
    BY DEF Looks
  <2>2. (isr.new + 1) % maxIndex \in Slots
    BY <2>1, ModSlot
  <2> QED
    BY <1>9, <2>1, <2>2, Records DEF QtiRest, MoveHead
<1>10. CASE NfyHandler
  BY <1>10 DEF NfyHandler
<1>11. CASE Poll
  <2>1. tail \in Nat
    BY SlotFacts
  <2>2. [reader EXCEPT !.pc = "frame", !.x = tail] \in Reads
    BY <2>1 DEF Reads
  <2> QED
    BY <1>11, <2>2 DEF Poll
<1>12. \A i \in Nat : Content(i) \in Nat
  BY DEF Content, CardTypes
<1>13. CASE ReadFrame
  <2>1. reader.x \in Nat
    BY DEF Reads
  <2>2. [reader EXCEPT !.pc = "done", !.frame = Content(reader.x)] \in Reads
    BY <1>12, <2>1 DEF Reads
  <2> QED
    BY <1>13, <2>2 DEF ReadFrame
<1>14. Consumed \in Slots /\ tail \in Nat
  BY ModSlot, SlotFacts DEF Consumed
<1>15. CASE Consume
  <2>1. reader.frame \in Nat
    BY DEF Reads
  <2> QED
    BY <1>14, <1>15, <2>1, Records DEF Consume, Take
<1>16. CASE CopyFrame
  <2>1. Content(tail) \in Nat
    BY <1>12, <1>14
  <2>2. [reader EXCEPT !.frame = Content(tail)] \in Reads
    BY <2>1 DEF Reads
  <2> QED
    BY <1>14, <1>16, <2>1, <2>2, Records DEF CopyFrame, Take
<1>17. CASE Halt
  BY <1>17 DEF Halt
<1>18. CASE QuietFrame
  BY <1>18 DEF QuietFrame
<1>19. CASE CardInform
  BY <1>19 DEF CardInform
<1>20. CASE ClassicFrame
  BY <1>20 DEF ClassicFrame
<1>21. CASE CardExec
  <2>1. (head + 1) % maxIndex \in Nat
    BY ModSlot
  <2> QED
    BY <1>21, <2>1 DEF CardExec, Increment, NoRoom
<1>22. CASE UNCHANGED vars
  BY <1>22 DEF vars
<1> QED
  BY <1>1, <1>2, <1>3, <1>4, <1>5, <1>6, <1>7, <1>8, <1>9, <1>10, <1>11, <1>13,
     <1>15, <1>16, <1>17, <1>18, <1>19, <1>20, <1>21, <1>22
     DEF Next, Isr, Reader

LEMMA ChannelTypesStep == ASSUME Types, [Next]_vars PROVE ChannelTypes'
<1> USE DEF Types, ChannelTypes, world, dframes, control, mce, card, account,
            channel
<1>1. CASE TaskSend
  <2>1. ctl.arg \in Nat
    BY DEF Waits
  <2>2. informTail \in Nat
    BY SlotFacts
  <2>3. /\ [cmd |-> "QTS", arg |-> ctl.arg] \in Commands
        /\ [cmd |-> "GRANT", arg |-> informTail] \in Commands
    BY <2>1, <2>2 DEF Commands
  <2> QED
    BY <1>1, <2>3 DEF TaskSend
<1>2. CASE TaskFail
  BY <1>2, Records DEF TaskFail
<1>3. CASE TaskDone
  BY <1>3 DEF TaskDone
<1>4. \A next \in {"ready", "go"} :
        [pc |-> "wait", step |-> 1, next |-> next, arg |-> 0] \in Waits
  BY DEF Waits
<1>5. CASE SetDatasize
  BY <1>4, <1>5 DEF SetDatasize, Disable
<1>6. CASE QtConfig
  BY <1>4, <1>6 DEF QtConfig, Disable
<1>7. CASE QtAnswered
  <2>1. ctl.step \in 1..6 /\ Len(QtSteps) = 6
    BY DEF Waits, QtSteps
  <2>2. \A k \in 2..6 : QtArgument(k) \in Nat
    BY SlotFacts DEF QtArgument, QtSteps, RingTypes
  <2>3. CASE ctl.step < 6
    <3>1. ctl.step + 1 \in 2..6
      BY <2>1, <2>3
    <3>2. [ctl EXCEPT !.pc = "wait", !.step = @ + 1,
                      !.arg = QtArgument(ctl.step + 1)] \in Waits
      <4>1. QtArgument(ctl.step + 1) \in Nat
        BY <2>2, <3>1
      <4>2. [pc |-> "wait", step |-> ctl.step + 1, next |-> ctl.next,
             arg |-> QtArgument(ctl.step + 1)] \in Waits
        BY <3>1, <4>1 DEF Waits
      <4> QED
        BY <4>2 DEF Waits
    <3> QED
      BY <1>7, <2>1, <2>3, <3>2 DEF QtAnswered, NewAccount
  <2>4. CASE ctl.step = 6
    BY <1>7, <2>1, <2>4, Records DEF QtAnswered, NewAccount
  <2> QED
    BY <2>1, <2>3, <2>4
<1>8. CASE Go
  BY <1>8, Records DEF Go
<1>9. CASE Empty \/ FakeStop \/ QtiHandler \/ QtiRest
  BY <1>9 DEF Empty, FakeStop, QtiHandler, QtiRest
<1>10. CASE NfyHandler
  <2>1. [cmd |-> "HST", arg |-> head] \in Commands
    BY DEF Commands, RingTypes
  <2> QED
    BY <1>10, <2>1 DEF NfyHandler
<1>11. CASE Poll \/ ReadFrame
  BY <1>11 DEF Poll, ReadFrame
<1>12. Consumed \in Slots /\ tail \in Slots
  BY ModSlot, SlotFacts DEF Consumed, RingTypes
<1>13. CASE Consume
  BY <1>12, <1>13 DEF Consume, RequestGrant
<1>14. CASE CopyFrame
  BY <1>12, <1>14 DEF CopyFrame, RequestGrant
<1>15. CASE Halt \/ QuietFrame \/ CardInform \/ ClassicFrame
  BY <1>15 DEF Halt, QuietFrame, CardInform, ClassicFrame
<1>16. CASE CardExec
  <2>1. [ctl EXCEPT !.pc = "answered"] \in Waits
    BY DEF Waits
  <2> QED
    BY <1>16, <2>1, Records DEF CardExec
<1>17. CASE UNCHANGED vars
  BY <1>17 DEF vars
<1> QED
  BY <1>1, <1>2, <1>3, <1>5, <1>6, <1>7, <1>8, <1>9, <1>10, <1>11, <1>13, <1>14,
     <1>15, <1>16, <1>17 DEF Next, Isr, Reader

LEMMA CardTypesStep == ASSUME Types, [Next]_vars PROVE CardTypes'
<1> USE DEF Types, CardTypes, world, dframes, control, mce, card, account, channel
<1>1. CASE TaskSend \/ TaskFail \/ TaskDone
  BY <1>1 DEF TaskSend, TaskFail, TaskDone
<1>2. CASE SetDatasize \/ QtConfig \/ QtAnswered \/ Go \/ Empty
  BY <1>2 DEF SetDatasize, QtConfig, QtAnswered, Go, Empty
<1>3. CASE FakeStop
  BY <1>3, SlotFacts DEF FakeStop
<1>4. CASE QtiHandler
  <2>1. Tail(msgs) = <<>>
    BY <1>4, MsgIs DEF QtiHandler, Announced
  <2> QED
    BY <1>4, <2>1 DEF QtiHandler
<1>5. CASE NfyHandler
  <2>1. Tail(msgs) = <<>>
    BY <1>5, MsgIs DEF NfyHandler, Announced
  <2> QED
    BY <1>5, <2>1 DEF NfyHandler
<1>6. CASE QtiRest \/ Reader \/ Halt
  BY <1>6 DEF QtiRest, Reader, Poll, ReadFrame, Consume, CopyFrame, Halt
<1>7. CASE QuietFrame
  <2>0. chead \in Nat /\ cn \in Sizes /\ written \in Nat
    BY DEF RingTypes
  <2>1. (chead + 1) % cn \in Nat /\ written + 1 \in Nat /\ drops + 1 \in Nat
    BY <2>0, ModSlot
  <2>2. [i \in Slots |-> IF i = chead THEN written + 1 ELSE slot[i]]
          \in [Slots -> Nat]
    BY <2>1
  <2> QED
    BY <1>7, <2>1, <2>2 DEF QuietFrame
<1>8. CASE CardInform
  BY <1>8 DEF CardInform, Msg
<1>9. CASE ClassicFrame
  <2>1. [type |-> "DA", head |-> 0, drops |-> 0] \in Msg /\ written + 1 \in Nat
    BY DEF Msg, RingTypes
  <2> QED
    BY <1>9, <2>1 DEF ClassicFrame
<1>10. CASE CardExec
  <2>1. chan.arg \in Nat
    BY DEF ChannelTypes, Commands
  <2>2. CASE chan.cmd = "HST"
    BY <1>10, <2>1, <2>2 DEF CardExec
  <2>3. CASE chan.cmd = "GRANT"
    BY <1>10, <2>1, <2>3 DEF CardExec, Orders
  <2>4. CASE chan.cmd = "QTS"
    <3>1. ctl.step \in 1..6
      BY DEF ChannelTypes, Waits
    <3>2. ctl.step = 2 => chan.arg \in Sizes
      BY <2>4 DEF Orders, RingTypes
    <3>3. ctl.step = 3 => chan.arg \in Slots
      BY <2>4 DEF Orders
    <3>4. /\ QtSteps[ctl.step] = "NUMBER" => ctl.step = 2
          /\ QtSteps[ctl.step] = "TAIL" => ctl.step = 3
      BY <3>1 DEF QtSteps
    <3>5. CASE firmware = "quiet"
      <4>1. Execute(QtSteps[ctl.step], chan.arg)
        BY <1>10, <2>4, <3>5 DEF CardExec
      <4>2. enabled' \in BOOLEAN /\ drops' \in Nat /\ told' \in Nat \X Nat
        BY <4>1 DEF Execute
      <4>3. cn' \in Sizes /\ ctail' \in Slots /\ chead' \in Nat
        BY <2>1, <3>2, <3>3, <3>4, <4>1 DEF Execute
      <4>4. UNCHANGED <<firmware, held, slot, msgs>>
        BY <1>10, <2>4 DEF CardExec
      <4> QED
        BY <4>2, <4>3, <4>4
    <3>6. CASE firmware # "quiet"
      BY <1>10, <2>4, <3>6 DEF CardExec
    <3> QED
      BY <3>5, <3>6
  <2> QED
    BY <1>10, <2>2, <2>3, <2>4 DEF CardExec
<1>11. CASE UNCHANGED vars
  BY <1>11 DEF vars
<1> QED
  BY <1>1, <1>2, <1>3, <1>4, <1>5, <1>6, <1>7, <1>8, <1>9, <1>10, <1>11
     DEF Next, Isr

LEMMA OrdersStep == ASSUME Types, [Next]_vars PROVE Orders'
<1> USE DEF Types, Orders, world, dframes, control, mce, card, account, channel
<1>1. CASE TaskSend
  BY <1>1 DEF TaskSend, NoCmd, ChannelTypes
<1>2. CASE TaskFail
  BY <1>2 DEF TaskFail, NoCmd, Idle
<1>3. CASE TaskDone
  BY <1>3 DEF TaskDone
<1>4. CASE SetDatasize
  BY <1>4 DEF SetDatasize, Disable, MayConfigure
<1>5. CASE QtConfig
  BY <1>5 DEF QtConfig, Disable, MayConfigure
<1>6. CASE QtAnswered
  <2>1. /\ ctl.pc = "answered" /\ ctl.step \in 1..6 /\ Len(QtSteps) = 6
        /\ chan.cmd # "QTS" /\ UNCHANGED <<chan, maxIndex, task>>
    BY <1>6 DEF QtAnswered, ChannelTypes, Waits, QtSteps
  <2>2. CASE ctl.step < 6
    <3>1. ctl' = [ctl EXCEPT !.pc = "wait", !.step = @ + 1,
                             !.arg = QtArgument(ctl.step + 1)]
      BY <1>6, <2>1, <2>2 DEF QtAnswered
    <3>2. /\ ctl'.pc = "wait" /\ ctl'.step = ctl.step + 1
          /\ ctl'.arg = QtArgument(ctl.step + 1)
      BY <3>1 DEF ChannelTypes, Waits
    <3>3. ctl.step = 1 => ctl'.arg = maxIndex
      BY <3>2 DEF QtArgument, QtSteps
    <3>4. ctl.step = 2 => ctl'.arg \in Slots
      BY <3>2 DEF QtArgument, QtSteps, RingTypes
    <3> QED
      BY <2>1, <3>2, <3>3, <3>4
  <2>3. CASE ctl.step = 6
    BY <1>6, <2>1, <2>3 DEF QtAnswered, Idle
  <2> QED
    BY <2>1, <2>2, <2>3
<1>7. CASE Go
  BY <1>7 DEF Go, Idle
<1>8. CASE Empty \/ FakeStop \/ QtiHandler \/ QtiRest
  BY <1>8 DEF Empty, FakeStop, QtiHandler, QtiRest
<1>9. CASE NfyHandler
  BY <1>9 DEF NfyHandler, NoCmd
<1>10. CASE Poll \/ ReadFrame
  BY <1>10 DEF Poll, ReadFrame
<1>11. CASE Consume
  BY <1>11 DEF Consume, RequestGrant
<1>12. CASE CopyFrame
  BY <1>12 DEF CopyFrame, RequestGrant
<1>13. CASE Halt \/ QuietFrame \/ CardInform \/ ClassicFrame
  BY <1>13 DEF Halt, QuietFrame, CardInform, ClassicFrame
<1>14. CASE CardExec
  BY <1>14 DEF CardExec, NoCmd, ChannelTypes, Waits
<1>15. CASE UNCHANGED vars
  BY <1>15 DEF vars
<1> QED
  BY <1>1, <1>2, <1>3, <1>4, <1>5, <1>6, <1>7, <1>8, <1>9, <1>10, <1>11, <1>12,
     <1>13, <1>14, <1>15 DEF Next, Isr, Reader

LEMMA TypesStep == ASSUME Types, [Next]_vars PROVE Types'
BY RingTypesStep, ChannelTypesStep, CardTypesStep, OrdersStep DEF Types

-----------------------------------------------------------------------------
(* Notifications and the card's mode, whatever is done to the ring.        *)

(* The steps of a configuration that the card has executed. *)
Executed ==
  IF ctl.pc = "wait" THEN ctl.step - 1
  ELSE IF ctl.pc = "answered" THEN ctl.step
  ELSE IF ctl.pc = "go" THEN 6 ELSE 0

(* The card holds a frame until its notification has been answered. *)
Notified ==
  /\ held # 0 <=> (Announced("DA") \/ chan.cmd = "HST")
  /\ ~(Announced("DA") /\ chan.cmd = "HST")
  /\ firmware = "classic" => ~enabled /\ ~Announced("QTI") /\ isr.pc = "idle"

(* Quiet transfers are off from the first step to the last. *)
Mode ==
  firmware = "quiet" =>
    (Executed \in 1..5 => ~enabled) /\ (Executed = 6 => enabled)

LEMMA NotifiedInit == Init => Notified /\ Mode
<1> SUFFICES ASSUME Init PROVE Notified /\ Mode
  OBVIOUS
<1>1. Notified
  BY DEF Init, Notified, Announced, NoCmd, NotTesting
<1>2. Executed = 0
  BY DEF Init, Executed, Idle
<1> QED
  BY <1>1, <1>2 DEF Mode

LEMMA NotifiedStep == ASSUME Types, Notified, [Next]_vars PROVE Notified'
<1> USE DEF Notified, Announced, world, dframes, control, mce, card, account, channel
<1>1. CASE TaskSend \/ TaskFail \/ TaskDone
  BY <1>1 DEF TaskSend, TaskFail, TaskDone, NoCmd
<1>2. CASE SetDatasize \/ QtConfig \/ QtAnswered \/ Go \/ Empty \/ FakeStop
  BY <1>2 DEF SetDatasize, QtConfig, QtAnswered, Go, Empty, FakeStop
<1>3. CASE QtiHandler
  <2>1. Tail(msgs) = <<>>
    BY <1>3, MsgIs DEF QtiHandler, Types
  <2> QED
    BY <1>3, <2>1 DEF QtiHandler
<1>4. CASE QtiRest
  BY <1>4 DEF QtiRest, NotTesting
<1>5. CASE NfyHandler
  <2>1. Tail(msgs) = <<>>
    BY <1>5, MsgIs DEF NfyHandler, Types
  <2> QED
    BY <1>5, <2>1 DEF NfyHandler, NoCmd
<1>6. CASE Reader \/ Halt \/ QuietFrame
  BY <1>6 DEF Reader, Poll, ReadFrame, Consume, CopyFrame, Halt, QuietFrame
<1>7. CASE CardInform
  <2>1. Head(msgs') = [type |-> "QTI", head |-> chead, drops |-> drops]
    BY <1>7 DEF CardInform
  <2> QED
    BY <1>7, <2>1 DEF CardInform
<1>8. CASE ClassicFrame
  <2>1. Head(msgs') = [type |-> "DA", head |-> 0, drops |-> 0]
        /\ written + 1 # 0
    BY <1>8 DEF ClassicFrame, Types, RingTypes
  <2> QED
    BY <1>8, <2>1 DEF ClassicFrame
<1>9. CASE CardExec
  <2>1. CASE firmware = "quiet"
    BY <1>9, <2>1 DEF CardExec, NoCmd
  <2>2. CASE firmware = "classic"
    BY <1>9, <2>2 DEF CardExec, NoCmd
  <2> QED
    BY <2>1, <2>2 DEF Types, CardTypes
<1>10. CASE UNCHANGED vars
  BY <1>10 DEF vars
<1> QED
  BY <1>1, <1>2, <1>3, <1>4, <1>5, <1>6, <1>7, <1>8, <1>9, <1>10 DEF Next, Isr

LEMMA ModeStep == ASSUME Types, Mode, [Next]_vars PROVE Mode'
<1> USE DEF Mode, Executed, world, dframes, control, mce, card, account, channel
<1>0. ctl.step \in 1..6 /\ ctl \in Waits
  BY DEF Types, ChannelTypes, Waits
<1>1. CASE TaskSend \/ TaskDone
  BY <1>1 DEF TaskSend, TaskDone
<1>2. CASE TaskFail
  BY <1>2 DEF TaskFail, Idle
<1>3. CASE SetDatasize
  BY <1>3 DEF SetDatasize, Disable
<1>4. CASE QtConfig
  BY <1>4 DEF QtConfig, Disable
<1>5. CASE QtAnswered
  <2>1. ctl.pc = "answered" /\ UNCHANGED <<firmware, enabled>> /\ Len(QtSteps) = 6
    BY <1>5 DEF QtAnswered, QtSteps
  <2>2. CASE ctl.step < 6
    <3>1. ctl' = [ctl EXCEPT !.pc = "wait", !.step = @ + 1,
                             !.arg = QtArgument(ctl.step + 1)]
      BY <1>5, <2>1, <2>2 DEF QtAnswered
    <3>2. ctl'.pc = "wait" /\ ctl'.step = ctl.step + 1
      BY <1>0, <3>1 DEF Waits
    <3>3. Executed' = ctl.step /\ Executed = ctl.step
      BY <1>0, <2>1, <3>2
    <3> QED
      BY <2>1, <3>3
  <2>3. CASE ctl.step = 6
    <3>1. ctl'.pc \in {"go", "idle"}
      BY <1>5, <2>1, <2>3 DEF QtAnswered, Idle
    <3> QED
      BY <2>1, <2>3, <3>1
  <2> QED
    BY <1>0, <2>2, <2>3
<1>6. CASE Go
  BY <1>6 DEF Go, Idle
<1>7. CASE Empty \/ FakeStop \/ Isr
  BY <1>7 DEF Empty, FakeStop, Isr, QtiHandler, QtiRest, NfyHandler
<1>8. CASE Reader \/ Halt \/ QuietFrame \/ CardInform \/ ClassicFrame
  BY <1>8 DEF Reader, Poll, ReadFrame, Consume, CopyFrame, Halt, QuietFrame,
              CardInform, ClassicFrame
<1>9. CASE CardExec
  <2>1. CASE chan.cmd # "QTS"
    BY <1>9, <2>1 DEF CardExec
  <2>2. CASE chan.cmd = "QTS" /\ firmware = "quiet"
    <3>1. ctl.pc = "wait"
      BY <2>2 DEF Types, Orders
    <3>2. ctl'.pc = "answered" /\ ctl'.step = ctl.step /\ firmware' = firmware
          /\ Execute(QtSteps[ctl.step], chan.arg)
      BY <1>0, <1>9, <2>2 DEF CardExec, Waits
    <3>3. /\ QtSteps[ctl.step] = "DISABLE" <=> ctl.step = 1
          /\ QtSteps[ctl.step] = "ENABLE" <=> ctl.step = 6
      BY <1>0 DEF QtSteps
    <3>4. Executed = ctl.step - 1 /\ Executed' = ctl.step
      BY <1>0, <3>1, <3>2
    <3>5. enabled' = IF ctl.step = 1 THEN FALSE
                     ELSE IF ctl.step = 6 THEN TRUE ELSE enabled
      BY <3>2, <3>3 DEF Execute
    <3> QED
      BY <1>0, <3>2, <3>4, <3>5
  <2>3. CASE firmware # "quiet"
    BY <1>9, <2>3 DEF CardExec
  <2> QED
    BY <2>1, <2>2, <2>3
<1>10. CASE UNCHANGED vars
  BY <1>10 DEF vars
<1> QED
  BY <1>1, <1>2, <1>3, <1>4, <1>5, <1>6, <1>7, <1>8, <1>9, <1>10 DEF Next

-----------------------------------------------------------------------------
(* The state of the ring while it is left alone.                           *)

(* Nothing runs and nothing is on its way. *)
Still ==
  /\ ~running /\ head = tail /\ partial = 0 /\ msgs = <<>> /\ held = 0
  /\ isr.pc = "idle" /\ reader.pc \in {"idle", "over"}
  /\ enabled => told = <<chead, drops>>

(* The buffer has been reset by the configuration under way, *)
(* and the card follows step by step.                        *)
Begun == ctl.pc = "go" \/ (ctl.pc \in {"wait", "answered"} /\ ctl.step > 1)

CardFollows ==
  /\ Executed >= 2 => cn = maxIndex
  /\ Executed >= 3 => ctail < maxIndex
  /\ Executed >= 3 /\ chan.cmd = "GRANT" => chan.arg < maxIndex
  /\ (ctl.step >= 3 \/ ctl.pc = "go") /\ "INFORM" \in prio => informTail < maxIndex
  /\ Executed >= 4 => chead = 0
  /\ Executed >= 5 => drops = 0

Fresh ==
  /\ Still /\ head = 0 /\ dropped = 0 /\ refused = 0 /\ taken = 0
  /\ out = written /\ first = written
  /\ ctl.pc = "wait" /\ ctl.step \in {3, 4} => ctl.arg = 0
  /\ firmware = "quiet" => CardFollows

(* Slots beyond the tail, and before it. *)
To(x)   == Dist(maxIndex, tail, x)
Back(x) == Dist(maxIndex, x, tail)

(* From the tail to h are the frames after those taken but for some that *)
(* are missing, at most limit.                                           *)
Filled(h, limit) == Window(slot, maxIndex, tail, first + taken, h, limit)

ReaderOk ==
  /\ reader.pc \in {"frame", "done"} => reader.x = tail /\ tail # head /\ partial = 0
  /\ reader.pc = "done" => reader.frame = slot[tail]
  /\ partial = 1 => tail # head /\ reader.pc = "idle" /\ reader.frame = slot[tail]

(* The head that the driver has, or is about to have. *)
Newest == IF isr.pc = "test" THEN isr.new ELSE head

(* The heads in turn, from the driver's to the card's, and the drops. *)
Heads ==
  /\ cn = maxIndex /\ chead < maxIndex /\ held = 0
  /\ Newest < maxIndex /\ told[1] < maxIndex
  /\ To(head) <= To(Newest) /\ To(Newest) <= To(told[1]) /\ To(told[1]) <= To(chead)
  /\ dropped <= told[2] /\ told[2] <= drops

Messages ==
  /\ Announced("QTI") => Head(msgs).head = told[1] /\ Head(msgs).drops = told[2]
  /\ msgs = <<>> => Newest = told[1] /\ dropped = told[2]

Frames ==
  /\ written = first + taken + To(chead) + drops
  /\ Filled(chead, drops) /\ Filled(told[1], told[2]) /\ Filled(Newest, dropped)

(* A tail the card may have or be told of: it does not go back, and the    *)
(* card does not fill the ring beyond it.                                  *)
Grantable(x) == x < maxIndex /\ Back(x) + To(chead) < maxIndex

Grants ==
  running =>
    /\ enabled /\ Grantable(ctail)
    /\ chan.cmd = "GRANT" => Grantable(chan.arg) /\ Back(chan.arg) <= Back(ctail)
    /\ "INFORM" \in prio =>
         /\ Grantable(informTail) /\ Back(informTail) <= Back(ctail)
         /\ chan.cmd = "GRANT" => Back(informTail) <= Back(chan.arg)

(* Older firmware: a frame at a time, which is held until it is asked for. *)
ClassicFlow ==
  /\ held # 0 => held = written
  /\ chan.cmd = "HST" => chan.arg = head
  /\ written = first + taken + To(head) + dropped + refused
                 + (IF held # 0 THEN 1 ELSE 0)
  /\ Filled(head, dropped + refused)

Flow ==
  /\ head < maxIndex /\ tail < maxIndex /\ ReaderOk
  /\ firmware = "quiet" => Heads /\ Messages /\ Frames /\ Grants
  /\ firmware = "classic" => ClassicFlow

Counted == out - (first + taken) \in 0..(dropped + refused)

Ring ==
  /\ Counted
  /\ ctl.pc # "idle" => ~running
  /\ Still \/ Flow
  /\ Begun => Fresh

RingInv == Types /\ Notified /\ Mode /\ (~upset => Ring)

(* Numbers and slots. *)
LEMMA Numbers ==
  ASSUME Types
  PROVE  /\ maxIndex \in Nat /\ maxIndex > 0
         /\ \A i \in 0..(maxIndex - 1) : i \in Slots
         /\ {head, tail, dropped, first, out, taken, refused, written} \subseteq Nat
         /\ {chead, ctail, drops, held, informTail} \subseteq Nat
         /\ told[1] \in Nat /\ told[2] \in Nat /\ told = <<told[1], told[2]>>
         /\ chan.arg \in Nat /\ isr.new \in Nat /\ Newest \in Nat
<1>1. maxIndex \in Nat /\ maxIndex > 0
  BY SlotFacts DEF Types, RingTypes
<1>2. \A i \in 0..(maxIndex - 1) : i \in Slots
  BY <1>1, SlotFacts DEF Types, RingTypes
<1>3. {head, tail, dropped, first, out, taken, refused, written} \subseteq Nat
  BY SlotFacts DEF Types, RingTypes
<1>4. {chead, ctail, drops, held, informTail} \subseteq Nat
  BY SlotFacts DEF Types, ChannelTypes, CardTypes
<1>5. told[1] \in Nat /\ told[2] \in Nat /\ told = <<told[1], told[2]>>
  BY DEF Types, CardTypes
<1>6. chan.arg \in Nat /\ isr.new \in Nat
  BY DEF Types, RingTypes, ChannelTypes, Commands, Looks
<1>7. Newest \in Nat
  BY <1>3, <1>6 DEF Newest
<1> QED
  BY <1>1, <1>2, <1>3, <1>4, <1>5, <1>6, <1>7

-----------------------------------------------------------------------------
(* A ring that is still, or being configured.                              *)

LEMMA RingInit == Init => Ring
<1> SUFFICES ASSUME Init PROVE Ring
  OBVIOUS
<1>1. written \in Nat
  BY RingAssumption DEF Init
<1>2. Still
  BY DEF Init, Still, NotTesting, Unread
<1>3. Counted
  BY <1>1 DEF Init, Counted
<1>4. ctl.pc = "idle"
  BY DEF Init, Idle
<1> QED
  BY <1>2, <1>3, <1>4 DEF Ring, Begun

(* Nothing moves there. *)
LEMMA StillQuiet ==
  ASSUME Still, Notified
  PROVE  /\ ~(FakeStop \/ QtiHandler \/ QtiRest \/ NfyHandler \/ Reader \/ Halt)
         /\ ~(QuietFrame \/ CardInform \/ ClassicFrame)
         /\ chan.cmd # "HST"
BY DEF Still, Notified, FakeStop, QtiHandler, QtiRest, NfyHandler, Announced,
       Reader, Poll, ReadFrame, Consume, CopyFrame, Halt, QuietFrame,
       CardInform, ClassicFrame

(* The first step of a configuration resets the buffer, *)
(* whatever has been done to it.                        *)
LEMMA ResetRing ==
  ASSUME Types, QtAnswered, ctl.step = 1, ~upset'
  PROVE  Ring'
<1>1. /\ head' = 0 /\ tail' = 0 /\ dropped' = 0 /\ partial' = 0
      /\ first' = written /\ out' = written /\ taken' = 0 /\ refused' = 0
      /\ Quiet /\ ctl.pc = "answered"
  BY DEF QtAnswered, Reset, NewAccount
<1>2. UNCHANGED <<running, msgs, held, isr, reader, enabled, told, chead, drops,
                  written>>
  BY DEF QtAnswered, mce, card
<1>3. Still'
  BY <1>1, <1>2 DEF Still, Quiet
<1>4. written \in Nat
  BY DEF Types, RingTypes
<1>5. Counted'
  BY <1>1, <1>4 DEF Counted
<1>6. ctl' = [ctl EXCEPT !.pc = "wait", !.step = @ + 1,
                         !.arg = QtArgument(ctl.step + 1)]
  BY DEF QtAnswered, QtSteps
<1>7. ctl'.pc = "wait" /\ ctl'.step = 2
  BY <1>6 DEF Types, ChannelTypes, Waits
<1>8. Executed' = 1
  BY <1>7 DEF Executed
<1>9. CardFollows'
  BY <1>7, <1>8 DEF CardFollows
<1>10. Fresh'
  BY <1>1, <1>2, <1>3, <1>7, <1>9 DEF Fresh
<1>11. ~running'
  BY <1>3 DEF Still
<1> QED
  BY <1>3, <1>5, <1>10, <1>11 DEF Ring

(* The further steps. *)
LEMMA ConfigureRing ==
  ASSUME Types, Ring, QtAnswered, ctl.step # 1, ~upset'
  PROVE  Ring'
<1>1. /\ ctl.pc = "answered" /\ ctl.step \in 2..6 /\ Len(QtSteps) = 6
      /\ ctl \in Waits
  BY DEF QtAnswered, Types, ChannelTypes, Waits, QtSteps
<1>2. Fresh
  BY <1>1 DEF Ring, Begun
<1>3. UNCHANGED <<running, msgs, held, isr, reader, enabled, told, chead, drops,
                  written, head, tail, partial, dropped, first, out, taken,
                  refused, firmware, cn, ctail, maxIndex, chan, informTail>>
  BY <1>1 DEF QtAnswered, mce, card, world
<1>4. Still'
  BY <1>2, <1>3 DEF Fresh, Still
<1>5. Counted'
  BY <1>3 DEF Ring, Counted
<1>6. ~running'
  BY <1>4 DEF Still
<1>7. CASE ctl.step < 6
  <2>1. ctl' = [ctl EXCEPT !.pc = "wait", !.step = @ + 1,
                           !.arg = QtArgument(ctl.step + 1)]
        /\ prio' = prio \cup {"INT"}
    BY <1>1, <1>7 DEF QtAnswered
  <2>2. /\ ctl'.pc = "wait" /\ ctl'.step = ctl.step + 1
        /\ ctl'.arg = QtArgument(ctl.step + 1)
    BY <1>1, <2>1 DEF Waits
  <2>3. Executed = ctl.step /\ Executed' = ctl.step
    BY <1>1, <2>2 DEF Executed
  <2>4. ctl'.step \in {3, 4} => ctl'.arg = 0
    <3>1. head = 0 /\ tail = 0
      BY <1>2 DEF Fresh, Still
    <3>2. QtArgument(3) = tail /\ QtArgument(4) = head
      BY DEF QtArgument, QtSteps
    <3> QED
      BY <1>1, <2>2, <3>1, <3>2
  <2>5. CASE firmware = "quiet"
    <3>1. CardFollows
      BY <1>2, <2>5 DEF Fresh
    <3>2. ctl.step = 2 /\ "INFORM" \in prio => informTail < maxIndex
      <4>1. upset' = (upset \/ Overtaken(ctl.step))
        BY <1>1 DEF QtAnswered
      <4>2. ~Overtaken(ctl.step)
        BY <4>1
      <4>3. maxIndex \in Nat /\ informTail \in Nat
        BY Numbers
      <4> QED
        BY <4>2, <4>3 DEF Overtaken, QtSteps
    <3>3. ctl.step >= 3 /\ "INFORM" \in prio => informTail < maxIndex
      BY <3>1 DEF CardFollows
    <3>4. "INFORM" \in prio' => informTail < maxIndex
      BY <1>1, <2>1, <3>2, <3>3
    <3>5. CardFollows'
      BY <1>3, <2>3, <3>1, <3>4 DEF CardFollows
    <3> QED
      BY <1>2, <1>3, <1>4, <2>2, <2>4, <3>5, <1>5, <1>6 DEF Fresh, Ring
  <2>6. CASE firmware # "quiet"
    BY <1>2, <1>3, <1>4, <2>2, <2>4, <2>6, <1>5, <1>6 DEF Fresh, Ring
  <2> QED
    BY <2>5, <2>6
<1>8. CASE ctl.step = 6
  <2>1. /\ ctl' = IF ctl.next = "go" THEN [Idle EXCEPT !.pc = "go"] ELSE Idle
        /\ prio' = prio
    BY <1>1, <1>8 DEF QtAnswered
  <2>2. (ctl'.pc = "go" /\ ctl'.step = 1) \/ ctl'.pc = "idle"
    BY <2>1 DEF Idle
  <2>3. CASE ctl'.pc = "idle"
    BY <1>4, <1>5, <1>6, <2>3 DEF Ring, Begun
  <2>4. CASE ctl'.pc = "go"
    <3>1. Executed = 6 /\ Executed' = 6
      BY <1>1, <1>8, <2>4 DEF Executed
    <3>2. CardFollows => CardFollows'
      BY <1>3, <1>8, <2>1, <2>4, <3>1 DEF CardFollows
    <3> QED
      BY <1>2, <1>3, <1>4, <1>5, <1>6, <2>4, <3>2 DEF Fresh, Ring
  <2> QED
    BY <2>2, <2>3, <2>4
<1> QED
  BY <1>1, <1>7, <1>8

(* An acquisition begins, or is refused. *)
LEMMA GoRing ==
  ASSUME Types, Notified, Mode, Ring, Go
  PROVE  Ring'
<1>1. /\ ctl.pc = "go" /\ chan = NoCmd /\ prio = {} /\ ctl'.pc = "idle"
      /\ running' \in BOOLEAN /\ (reader' = Unread \/ reader' = reader)
  BY DEF Go, Idle, Types, RingTypes
<1>2. Fresh
  BY <1>1 DEF Ring, Begun
<1>3. UNCHANGED <<msgs, held, isr, enabled, told, chead, drops, written, head,
                  tail, partial, dropped, first, out, taken, refused, firmware,
                  cn, ctail, maxIndex, chan, prio, informTail, slot>>
  BY DEF Go, mce, card, world, dframes, channel, account
<1>4. Counted' /\ ~Begun'
  BY <1>1, <1>3 DEF Ring, Counted, Begun
<1>5. CASE ~running'
  <2>1. reader'.pc \in {"idle", "over"}
    BY <1>1, <1>2 DEF Fresh, Still, Unread
  <2>2. Still'
    BY <1>2, <1>3, <1>5, <2>1 DEF Fresh, Still
  <2> QED
    BY <1>1, <1>4, <2>2 DEF Ring
<1>6. CASE running'
  <2>1. reader' = Unread
    BY <1>2, <1>6 DEF Go, Fresh, Still
  <2>2. maxIndex \in Nat /\ maxIndex > 0 /\ written \in Nat
    BY Numbers
  <2>3. head = 0 /\ tail = 0 /\ partial = 0 /\ held = 0 /\ msgs = <<>>
        /\ isr.pc = "idle"
    BY <1>2 DEF Fresh, Still
  <2>4. ReaderOk'
    BY <1>3, <2>1, <2>3 DEF ReaderOk, Unread
  <2>5. Dist(maxIndex, 0, 0) = 0
    BY <2>2, DistRange
  <2>6. \A limit : Window(slot, maxIndex, 0, first + taken, 0, limit)
    BY <2>5 DEF Window
  <2>7. CASE firmware = "quiet"
    <3>1. Executed = 6 /\ enabled
      BY <1>1, <2>7 DEF Executed, Mode
    <3>2. cn = maxIndex /\ ctail < maxIndex /\ chead = 0 /\ drops = 0
      BY <1>2, <2>7, <3>1 DEF Fresh, CardFollows
    <3>3. told = <<0, 0>> /\ told[1] = 0 /\ told[2] = 0
      BY <1>2, <3>1, <3>2 DEF Fresh, Still
    <3>4. Heads'
      BY <1>2, <1>3, <2>2, <2>3, <2>5, <3>2, <3>3 DEF Heads, Newest, To, Fresh
    <3>5. Messages'
      BY <1>2, <1>3, <2>3, <3>3 DEF Messages, Newest, Fresh, Announced
    <3>6. Frames'
      BY <1>2, <1>3, <2>2, <2>3, <2>5, <2>6, <3>2, <3>3
         DEF Frames, Filled, To, Newest, Fresh
    <3>7. Grants'
      <4>1. ctail \in Nat
        BY Numbers
      <4>2. Dist(maxIndex, ctail, 0) \in Nat /\ Dist(maxIndex, ctail, 0) < maxIndex
        BY <2>2, <3>2, <4>1, DistRange
      <4>3. Grantable(ctail)'
        BY <1>3, <2>3, <2>5, <3>2, <4>2 DEF Grantable, To, Back
      <4> QED
        BY <1>1, <1>3, <3>1, <4>3 DEF Grants, NoCmd
    <3> QED
      BY <1>1, <1>3, <1>4, <2>2, <2>3, <2>4, <2>7, <3>4, <3>5, <3>6, <3>7
         DEF Flow, Ring
  <2>8. CASE firmware = "classic"
    <3>1. ClassicFlow'
      BY <1>1, <1>2, <1>3, <2>2, <2>3, <2>5, <2>6
         DEF ClassicFlow, Filled, To, Fresh, NoCmd
    <3> QED
      BY <1>1, <1>3, <1>4, <2>2, <2>3, <2>4, <2>8, <3>1 DEF Flow, Ring
  <2> QED
    BY <2>7, <2>8 DEF Types, CardTypes
<1> QED
  BY <1>1, <1>5, <1>6

(* The requests to configure. *)
LEMMA ConfigRing ==
  ASSUME Types, Ring, SetDatasize \/ QtConfig, ~upset'
  PROVE  Ring'
<1>1. /\ Quiet /\ ctl.pc = "idle"
      /\ ctl'.pc = "idle" \/ (ctl'.pc = "wait" /\ ctl'.step = 1)
      /\ prio' \subseteq prio \cup {"INT"} /\ prio \subseteq prio'
  <2>1. upset' = (upset \/ ~Quiet) /\ MayConfigure
    BY DEF SetDatasize, QtConfig
  <2>2. (ctl' = ctl /\ prio' = prio) \/ \E next : Disable(next)
    BY DEF SetDatasize, QtConfig
  <2>3. Quiet /\ ctl.pc = "idle"
    BY <2>1 DEF MayConfigure, Types, RingTypes
  <2>4. ASSUME NEW next, Disable(next)
        PROVE  ctl'.pc = "wait" /\ ctl'.step = 1 /\ prio' = prio \cup {"INT"}
    BY <2>4 DEF Disable
  <2> QED
    BY <2>2, <2>3, <2>4
<1>2. UNCHANGED <<msgs, held, isr, enabled, told, chead, drops, written, head,
                  tail, partial, dropped, first, out, taken, refused, firmware,
                  cn, ctail, chan, informTail, slot, running, reader>>
  BY DEF SetDatasize, QtConfig, mce, card, world, dframes, channel, account
<1>3. Counted' /\ ~Begun' /\ ~running'
  BY <1>1, <1>2 DEF Ring, Counted, Begun, Quiet
<1>4. CASE Still
  BY <1>2, <1>3, <1>4 DEF Still, Ring
<1>5. CASE Flow /\ maxIndex' # maxIndex
  <2>1. tail = head
    BY <1>5 DEF SetDatasize, QtConfig, dframes
  <2>2. partial = 0
    BY <1>5, <2>1 DEF Flow, ReaderOk, Types, RingTypes
  <2>3. Still'
    BY <1>1, <1>2, <2>1, <2>2 DEF Still, Quiet
  <2> QED
    BY <1>3, <2>3 DEF Ring
<1>6. CASE Flow /\ maxIndex' = maxIndex
  <2>1. ReaderOk' /\ (Messages => Messages')
    BY <1>2, <1>6 DEF Flow, ReaderOk, Messages, Newest, Announced
  <2>2. (Heads => Heads') /\ (Frames => Frames') /\ (ClassicFlow => ClassicFlow')
    BY <1>2, <1>6 DEF Heads, Frames, ClassicFlow, Filled, To, Newest
  <2>3. Grants'
    BY <1>3 DEF Grants
  <2>4. Flow'
    BY <1>2, <1>6, <2>1, <2>2, <2>3 DEF Flow
  <2> QED
    BY <1>3, <2>4 DEF Ring
<1> QED
  BY <1>4, <1>5, <1>6 DEF Ring

(* The tasklet and the card, while the ring is still. *)
LEMMA StillTask ==
  ASSUME Types, Ring, Still, TaskSend \/ TaskFail \/ TaskDone
  PROVE  Ring'
<1>1. UNCHANGED <<msgs, held, isr, enabled, told, chead, drops, written, head,
                  tail, partial, dropped, first, out, taken, refused, firmware,
                  cn, ctail, maxIndex, informTail, slot, running, reader>>
  BY DEF TaskSend, TaskFail, TaskDone, mce, card, world, dframes, channel, account
<1>2. Still' /\ Counted' /\ ~running'
  BY <1>1 DEF Still, Ring, Counted
<1>3. prio' \subseteq prio /\ (ctl' = ctl \/ ctl' = Idle)
  BY DEF TaskSend, TaskFail, TaskDone, control
<1>4. chan' = chan \/ chan'.cmd # "GRANT" \/ (chan'.arg = informTail /\ "INFORM" \in prio)
  BY DEF TaskSend, TaskFail, TaskDone
<1>5. CASE ~Begun'
  BY <1>2, <1>5 DEF Ring
<1>6. CASE Begun'
  <2>1. ctl' = ctl /\ Fresh
    BY <1>3, <1>6 DEF Begun, Idle, Ring
  <2>2. Executed' = Executed
    BY <2>1 DEF Executed
  <2>3. Executed >= 3 => ctl.step >= 3 \/ ctl.pc = "go"
    BY DEF Executed, Types, ChannelTypes, Waits
  <2>4. CardFollows => CardFollows'
    BY <1>1, <1>3, <1>4, <2>1, <2>2, <2>3 DEF CardFollows
  <2>5. Fresh'
    BY <1>1, <1>2, <2>1, <2>4 DEF Fresh
  <2> QED
    BY <1>2, <2>5 DEF Ring
<1> QED
  BY <1>5, <1>6

LEMMA StillExec ==
  ASSUME Types, Mode, Ring, Still, CardExec, chan.cmd # "HST"
  PROVE  Ring' /\ Still'
<1>1. UNCHANGED <<msgs, held, isr, written, head, tail, partial, dropped, first,
                  out, taken, refused, firmware, maxIndex, informTail, slot,
                  running, reader, prio>> /\ chan' = NoCmd
  BY DEF CardExec, mce, card, world, dframes, channel, account
<1>2. ctl \in Waits
  BY DEF Types, ChannelTypes
<1>3. CASE chan.cmd = "GRANT"
  <2>1. UNCHANGED <<enabled, cn, chead, drops, told, ctl>>
        /\ ctail' = IF firmware = "quiet" THEN chan.arg ELSE ctail
    BY <1>3 DEF CardExec
  <2>2. Still' /\ Counted' /\ ~running' /\ Begun' = Begun
    BY <1>1, <2>1 DEF Still, Ring, Counted, Begun
  <2>3. Executed' = Executed
    BY <2>1 DEF Executed
  <2>4. firmware = "quiet" /\ CardFollows => CardFollows'
    BY <1>1, <1>3, <2>1, <2>3 DEF CardFollows, NoCmd
  <2>5. Fresh => Fresh'
    BY <1>1, <2>1, <2>2, <2>4 DEF Fresh
  <2> QED
    BY <2>2, <2>5 DEF Ring
<1>4. CASE chan.cmd = "QTS"
  <2>1. /\ ctl.pc = "wait" /\ chan.arg = ctl.arg /\ ctl.step \in 1..6
        /\ ctl.step = 2 => ctl.arg = maxIndex
    BY <1>2, <1>4 DEF Types, Orders, Waits
  <2>2. ctl'.pc = "answered" /\ ctl'.step = ctl.step
    BY <1>2, <1>4 DEF CardExec, Waits
  <2>3. Executed = ctl.step - 1 /\ Executed' = ctl.step
    BY <2>1, <2>2 DEF Executed
  <2>4. Counted' /\ ~running' /\ Begun' = Begun
    BY <1>1, <2>1, <2>2 DEF Still, Ring, Counted, Begun
  <2>5. CASE firmware # "quiet"
    <3>1. UNCHANGED <<enabled, cn, chead, drops, told>>
      BY <1>4, <2>5 DEF CardExec
    <3>2. Still'
      BY <1>1, <3>1 DEF Still
    <3>3. Fresh => Fresh'
      BY <1>1, <2>2, <2>5, <3>2 DEF Fresh
    <3> QED
      BY <2>4, <3>2, <3>3 DEF Ring
  <2>6. CASE firmware = "quiet"
    <3>1. Execute(QtSteps[ctl.step], chan.arg)
      BY <1>4, <2>6 DEF CardExec
    <3>2. /\ QtSteps[ctl.step] = "DISABLE" <=> ctl.step = 1
          /\ QtSteps[ctl.step] = "NUMBER" <=> ctl.step = 2
          /\ QtSteps[ctl.step] = "TAIL" <=> ctl.step = 3
          /\ QtSteps[ctl.step] = "HEAD" <=> ctl.step = 4
          /\ QtSteps[ctl.step] = "DROPS" <=> ctl.step = 5
          /\ QtSteps[ctl.step] = "ENABLE" <=> ctl.step = 6
      BY <2>1 DEF QtSteps
    <3>3. /\ enabled' = (IF ctl.step = 1 THEN FALSE
                         ELSE IF ctl.step = 6 THEN TRUE ELSE enabled)
          /\ cn' = (IF ctl.step = 2 THEN ctl.arg ELSE cn)
          /\ ctail' = (IF ctl.step = 3 THEN ctl.arg ELSE ctail)
          /\ chead' = (IF ctl.step = 4 THEN ctl.arg ELSE chead)
          /\ drops' = (IF ctl.step = 5 THEN 0 ELSE drops)
          /\ told' = (IF ctl.step = 6 THEN <<chead, drops>> ELSE told)
      BY <2>1, <3>1, <3>2 DEF Execute
    <3>4. enabled => ctl.step = 1
      BY <2>1, <2>3, <2>6 DEF Mode
    <3>5. enabled' => told' = <<chead', drops'>>
      <4>1. CASE ctl.step = 6
        BY <3>3, <4>1
      <4>2. CASE ctl.step # 6
        BY <3>3, <3>4, <4>2
      <4> QED
        BY <4>1, <4>2
    <3>6. Still'
      BY <1>1, <3>5 DEF Still
    <3>7. ASSUME Begun PROVE Fresh'
      <4>1. Fresh /\ CardFollows /\ ctl.step >= 2
        BY <2>1, <2>6, <3>7 DEF Ring, Fresh, Begun
      <4>2. maxIndex > 0
        BY Numbers
      <4>3. CardFollows'
        BY <1>1, <2>1, <2>2, <2>3, <3>3, <4>1, <4>2 DEF CardFollows, Fresh, NoCmd
      <4> QED
        BY <1>1, <2>2, <3>6, <4>1, <4>3 DEF Fresh
    <3> QED
      BY <2>4, <3>6, <3>7 DEF Ring
  <2> QED
    BY <2>5, <2>6
<1> QED
  BY <1>3, <1>4 DEF CardExec

-----------------------------------------------------------------------------
(* Frames flow: the channel, and what ends.                                *)

LEMMA FlowTask ==
  ASSUME Types, Flow, TaskSend \/ TaskFail \/ TaskDone
  PROVE  Flow'
<1>1. UNCHANGED <<msgs, held, isr, enabled, told, chead, drops, written, head,
                  tail, partial, dropped, first, out, taken, refused, firmware,
                  cn, ctail, maxIndex, informTail, slot, running, reader>>
      /\ prio' \subseteq prio
  BY DEF TaskSend, TaskFail, TaskDone, mce, card, world, dframes, channel, account
<1>2. chan' = chan \/ chan'.cmd = "QTS"
      \/ (chan' = [cmd |-> "GRANT", arg |-> informTail] /\ "INFORM" \in prio)
  BY DEF TaskSend, TaskFail, TaskDone
<1>3. ReaderOk' /\ (Messages => Messages') /\ (Heads => Heads') /\ (Frames => Frames')
  BY <1>1 DEF Flow, ReaderOk, Messages, Newest, Announced, Heads, Frames, Filled, To
<1>4. ClassicFlow => ClassicFlow'
  BY <1>1, <1>2 DEF ClassicFlow, Filled, To
<1>5. Back(informTail) \in Int \/ ~Grantable(informTail)
  BY Numbers DEF Back, Dist, Flow
<1>6. ASSUME Grants, firmware = "quiet" PROVE Grants'
  <2>1. tail \in Nat /\ tail < maxIndex /\ maxIndex \in Nat /\ informTail \in Nat
    BY Numbers DEF Flow
  <2>2. informTail < maxIndex => Back(informTail) \in Nat
    BY <2>1, DistRange DEF Back
  <2>3. CASE chan' = chan
    BY <1>1, <1>6, <2>3 DEF Grants, Grantable, Back, To
  <2>4. CASE chan'.cmd = "QTS"
    BY <1>1, <1>6, <2>4 DEF Grants, Grantable, Back, To
  <2>5. CASE chan' = [cmd |-> "GRANT", arg |-> informTail] /\ "INFORM" \in prio
    BY <1>1, <1>6, <2>2, <2>5 DEF Grants, Grantable, Back, To
  <2> QED
    BY <1>2, <2>3, <2>4, <2>5
<1> QED
  BY <1>1, <1>3, <1>4, <1>6 DEF Flow

LEMMA FlowHalt == ASSUME Flow, Halt PROVE Flow'
<1>1. UNCHANGED <<msgs, held, isr, enabled, told, chead, drops, written, head,
                  tail, partial, dropped, first, out, taken, refused, firmware,
                  cn, ctail, maxIndex, informTail, slot, reader, chan>>
      /\ ~running'
  BY DEF Halt, mce, card, world, dframes, channel, account
<1>2. ReaderOk' /\ (Messages => Messages') /\ (Heads => Heads') /\ (Frames => Frames')
  BY <1>1 DEF Flow, ReaderOk, Messages, Newest, Announced, Heads, Frames, Filled, To
<1>3. Grants' /\ (ClassicFlow => ClassicFlow')
  BY <1>1 DEF Grants, ClassicFlow, Filled, To
<1> QED
  BY <1>1, <1>2, <1>3 DEF Flow

-----------------------------------------------------------------------------
(* The head.                                                               *)

(* Distances from the tail. *)
LEMMA Distances ==
  ASSUME Types, Flow
  PROVE  /\ To(head) \in Nat /\ To(head) < maxIndex /\ (To(head) = 0 <=> tail = head)
         /\ firmware = "quiet" =>
              /\ To(Newest) \in Nat /\ To(told[1]) \in Nat
              /\ To(chead) \in Nat /\ To(chead) < maxIndex
              /\ To(told[1]) = 0 <=> tail = told[1]
              /\ To(chead) = 0 <=> tail = chead
              /\ To(Newest) = 0 <=> tail = Newest
<1>1. /\ maxIndex \in Nat /\ tail \in Nat /\ head \in Nat /\ chead \in Nat
      /\ told[1] \in Nat /\ Newest \in Nat
      /\ tail < maxIndex /\ head < maxIndex
  BY Numbers DEF Flow
<1>2. To(head) \in Nat /\ To(head) < maxIndex /\ (To(head) = 0 <=> tail = head)
  BY <1>1, DistRange DEF To
<1>3. ASSUME firmware = "quiet"
      PROVE  /\ To(Newest) \in Nat /\ To(told[1]) \in Nat
             /\ To(chead) \in Nat /\ To(chead) < maxIndex
             /\ To(told[1]) = 0 <=> tail = told[1]
             /\ To(chead) = 0 <=> tail = chead
             /\ To(Newest) = 0 <=> tail = Newest
  <2>1. chead < maxIndex /\ Newest < maxIndex /\ told[1] < maxIndex
    BY <1>3 DEF Flow, Heads
  <2>2. \A x \in Nat : x < maxIndex => To(x) \in Nat /\ To(x) < maxIndex
                                          /\ (To(x) = 0 <=> tail = x)
    BY <1>1, DistRange DEF To
  <2> QED
    BY <1>1, <2>1, <2>2
<1> QED
  BY <1>2, <1>3

LEMMA Pair == ASSUME NEW a, NEW b, a # b PROVE Cardinality({a, b}) = 2
<1>1. IsFiniteSet({a}) /\ Cardinality({a}) = 1
  BY FS_Singleton
<1>2. {a, b} = {a} \cup {b} /\ b \notin {a}
  OBVIOUS
<1> QED
  BY <1>1, <1>2, FS_AddElement

(* Two of three. *)
LEMMA TwoOf ==
  ASSUME NEW a \in BOOLEAN, NEW b \in BOOLEAN, NEW c \in BOOLEAN,
         (a /\ b /\ ~c) \/ (~a /\ b /\ c) \/ (a /\ ~b /\ c)
  PROVE  Cardinality({i \in 1..3 : <<a, b, c>>[i]}) = 2
<1> DEFINE S == {i \in 1..3 : <<a, b, c>>[i]}
<1>1. <<a, b, c>>[1] = a /\ <<a, b, c>>[2] = b /\ <<a, b, c>>[3] = c
  OBVIOUS
<1>2. 1..3 = {1, 2, 3}
  OBVIOUS
<1>3. S = {1, 2} \/ S = {2, 3} \/ S = {1, 3}
  <2>1. \A i \in S : i \in {1, 2, 3} /\ <<a, b, c>>[i]
    BY <1>2
  <2>2. (1 \in S <=> a) /\ (2 \in S <=> b) /\ (3 \in S <=> c)
    BY <1>1, <1>2, Zenon
  <2> HIDE DEF S
  <2> QED
    BY <2>1, <2>2
<1>4. \A x, y \in {1, 2, 3} : x # y => Cardinality({x, y}) = 2
  BY Pair, Zenon
<1>5. Cardinality({1, 2}) = 2 /\ Cardinality({2, 3}) = 2 /\ Cardinality({1, 3}) = 2
  BY <1>4
<1> HIDE DEF S
<1>6. Cardinality(S) = 2
  BY <1>3, <1>5
<1> QED
  BY <1>6 DEF S

(* data_frame_contribute accepts a head that is further on from the tail. *)
LEMMA InTurnHolds ==
  ASSUME Types, NEW new \in Nat, head < maxIndex, tail < maxIndex, new < maxIndex,
         To(head) <= To(new)
  PROVE  InTurn(new, tail, tail)
<1>1. head \in Nat /\ tail \in Nat /\ maxIndex \in Nat
  BY Numbers
<1>2. \/ tail <= head /\ head <= new
      \/ head >= tail /\ tail > new /\ head > new
      \/ tail > new /\ new >= head /\ tail > head
  BY <1>1, DistOrder DEF To
<1>3. InTurn(new, tail, tail)
        = (Cardinality({i \in 1..3 : <<new >= head, head >= tail, tail > new>>[i]}) = 2)
  BY DEF InTurn
<1>4. Cardinality({i \in 1..3 : <<new >= head, head >= tail, tail > new>>[i]}) = 2
  <2> DEFINE a == new >= head
             b == head >= tail
             c == tail > new
  <2>1. a \in BOOLEAN /\ b \in BOOLEAN /\ c \in BOOLEAN
    BY <1>1
  <2>2. (a /\ b /\ ~c) \/ (~a /\ b /\ c) \/ (a /\ ~b /\ c)
    BY <1>1, <1>2
  <2> HIDE DEF a, b, c
  <2>3. Cardinality({i \in 1..3 : <<a, b, c>>[i]}) = 2
    BY <2>1, <2>2, TwoOf, Zenon
  <2> QED
    BY <2>3 DEF a, b, c
<1> QED
  BY <1>3, <1>4

LEMMA FlowInform ==
  ASSUME Types, Notified, Flow, CardInform
  PROVE  Flow'
<1>1. /\ enabled /\ msgs = <<>> /\ told' = <<chead, drops>>
      /\ msgs' = <<[type |-> "QTI", head |-> chead, drops |-> drops]>>
  BY DEF CardInform
<1>2. UNCHANGED <<held, isr, enabled, chead, drops, written, head, tail, partial,
                  dropped, first, out, taken, refused, firmware, cn, ctail,
                  maxIndex, informTail, slot, running, reader, chan, prio>>
  BY DEF CardInform, mce, world, dframes, channel, account
<1>3. firmware = "quiet"
  BY <1>1 DEF Notified, Types, CardTypes
<1>4. /\ To(head) \in Nat /\ To(Newest) \in Nat /\ To(told[1]) \in Nat
      /\ To(chead) \in Nat
  BY <1>3, Distances
<1>5. Heads /\ Frames /\ Grants /\ ReaderOk
  BY <1>3 DEF Flow
<1>6. told'[1] = chead /\ told'[2] = drops
  BY <1>1
<1>7. drops \in Nat /\ told[2] \in Nat /\ dropped \in Nat
  BY Numbers
<1>8. Heads'
  BY <1>2, <1>4, <1>5, <1>6, <1>7 DEF Heads, To, Newest
<1>9. Messages'
  BY <1>1, <1>6 DEF Messages, Announced
<1>10. Frames'
  BY <1>2, <1>5, <1>6 DEF Frames, Filled, To, Newest
<1>11. Grants' /\ ReaderOk'
  BY <1>2, <1>5 DEF Grants, Grantable, To, Back, ReaderOk
<1> QED
  BY <1>2, <1>3, <1>8, <1>9, <1>10, <1>11 DEF Flow

(* The driver is told of a head, and looks at it again if the reader has *)
(* moved the tail meanwhile.                                             *)
LEMMA FlowQti ==
  ASSUME Types, Notified, Flow, QtiHandler
  PROVE  Flow' /\ tail' = tail
<1>1. isr.pc = "idle" /\ Announced("QTI") /\ msgs' = Tail(msgs) /\ Tail(msgs) = <<>>
  BY MsgIs DEF QtiHandler, Announced, Types
<1>2. firmware = "quiet"
  BY <1>1 DEF Notified, Types, CardTypes
<1>3. Heads /\ Messages /\ Frames /\ Grants /\ ReaderOk
      /\ tail < maxIndex /\ head < maxIndex
  BY <1>2 DEF Flow
<1>4. Head(msgs).head = told[1] /\ Head(msgs).drops = told[2]
  BY <1>1, <1>3 DEF Messages
<1>5. UNCHANGED <<partial, maxIndex, chan, prio, informTail, reader, running,
                  written, first, out, taken, refused, enabled, cn, chead, ctail,
                  drops, told, held, slot, firmware>> /\ dropped' = told[2]
  BY <1>4 DEF QtiHandler, CountDrops, mce, channel, account, world
<1>6. Newest = head
  BY <1>1 DEF Newest
<1>7. /\ To(head) \in Nat /\ To(told[1]) \in Nat /\ To(chead) \in Nat
      /\ To(head) = 0 <=> tail = head
      /\ To(told[1]) = 0 <=> tail = told[1]
  BY <1>2, Distances
<1>8. InTurn(told[1], tail, tail)
  BY <1>3, <1>6, InTurnHolds, Numbers DEF Heads
<1>9. /\ tail' = tail /\ head' \in {head, told[1]} /\ Newest' = told[1]
  <2>1. CASE "torn" \in faults
    BY <1>4, <2>1 DEF QtiHandler, Newest
  <2>2. CASE "torn" \notin faults
    BY <1>1, <1>4, <1>8, <2>2 DEF QtiHandler, MoveHead, Newest
  <2> QED
    BY <2>1, <2>2
<1>10. drops \in Nat /\ told[2] \in Nat
  BY Numbers
<1>11. To(head)' \in {To(head), To(told[1])}
  BY <1>5, <1>9 DEF To
<1>12. To(Newest)' = To(told[1]) /\ To(told[1])' = To(told[1]) /\ To(chead)' = To(chead)
  BY <1>5, <1>9 DEF To
<1>13. Heads'
  BY <1>3, <1>5, <1>6, <1>7, <1>9, <1>10, <1>11, <1>12 DEF Heads
<1>14. Messages'
  BY <1>1, <1>5, <1>9 DEF Messages, Announced
<1>15. Frames'
  BY <1>3, <1>5, <1>9 DEF Frames, Filled, To
<1>16. Grants'
  BY <1>3, <1>5, <1>9 DEF Grants, Grantable, To, Back
<1>17. tail # head => tail # head'
  BY <1>3, <1>6, <1>7, <1>9 DEF Heads
<1>18. ReaderOk'
  BY <1>3, <1>5, <1>9, <1>17 DEF ReaderOk
<1>19. head' < maxIndex'
  BY <1>3, <1>5, <1>9 DEF Heads
<1> QED
  BY <1>2, <1>3, <1>5, <1>9, <1>13, <1>14, <1>15, <1>16, <1>18, <1>19 DEF Flow

LEMMA FlowQtiRest ==
  ASSUME Types, Notified, Flow, QtiRest, ~upset'
  PROVE  Flow' /\ tail' = tail
<1>1. isr.pc = "test" /\ tail = isr.tail /\ isr' = NotTesting
  BY DEF QtiRest
<1>2. firmware = "quiet"
  BY <1>1 DEF Notified, Types, CardTypes
<1>3. Heads /\ Messages /\ Frames /\ Grants /\ ReaderOk
      /\ tail < maxIndex /\ head < maxIndex
  BY <1>2 DEF Flow
<1>4. UNCHANGED <<partial, maxIndex, dropped, chan, prio, informTail, reader,
                  running, written, first, out, taken, refused, enabled, cn,
                  chead, ctail, drops, told, held, slot, firmware, msgs>>
  BY DEF QtiRest, mce, channel, world, card
<1>5. Newest = isr.new /\ isr.new \in Nat
  BY <1>1, Numbers DEF Newest
<1>6. InTurn(isr.new, tail, tail)
  BY <1>3, <1>5, InTurnHolds DEF Heads
<1>7. head' = isr.new /\ tail' = tail /\ Newest' = head'
  BY <1>1, <1>6 DEF QtiRest, MoveHead, NotTesting, Newest
<1>8. /\ To(head) \in Nat /\ To(Newest) \in Nat
      /\ To(head) = 0 <=> tail = head
      /\ To(Newest) = 0 <=> tail = Newest
  BY <1>2, Distances
<1>9. Heads' /\ Messages' /\ Frames'
  BY <1>3, <1>4, <1>5, <1>7, <1>8 DEF Heads, Messages, Frames, Filled, To, Announced
<1>10. Grants'
  BY <1>3, <1>4, <1>7 DEF Grants, Grantable, To, Back
<1>11. tail # head => tail # head'
  BY <1>3, <1>5, <1>7, <1>8 DEF Heads
<1>12. ReaderOk'
  BY <1>3, <1>4, <1>7, <1>11 DEF ReaderOk
<1>13. head' < maxIndex'
  BY <1>3, <1>4, <1>5, <1>7 DEF Heads
<1> QED
  BY <1>2, <1>3, <1>4, <1>7, <1>9, <1>10, <1>12, <1>13 DEF Flow

-----------------------------------------------------------------------------
(* The reader.                                                             *)

LEMMA ContentIs ==
  ASSUME Types, tail < maxIndex
  PROVE  Content(tail) = slot[tail]
BY Numbers DEF Content, Types, RingTypes

(* A frame is waited for and looked at, or its first half is read. *)
LEMMA FlowLook ==
  ASSUME Types, Flow,
         Poll \/ ReadFrame \/ (CopyFrame /\ partial' = 1)
  PROVE  Flow' /\ UNCHANGED <<dropped, out, taken, refused, first, running, ctl>>
<1>1. UNCHANGED <<msgs, held, isr, enabled, told, chead, drops, written, head,
                  tail, dropped, first, out, taken, refused, firmware, cn,
                  ctail, maxIndex, slot, running, chan, ctl>>
  BY DEF Poll, ReadFrame, CopyFrame, mce, card, world, dframes, channel, account,
         control
<1>2. tail < maxIndex /\ head < maxIndex /\ ReaderOk
  BY DEF Flow
<1>3. Content(tail) = slot[tail]
  BY <1>2, ContentIs
<1>4. reader \in Reads
  BY DEF Types, RingTypes
<1>5. ReaderOk'
  <2>1. CASE Poll
    BY <1>1, <1>2, <1>4, <2>1 DEF Poll, MayRead, ReaderOk, Reads, dframes
  <2>2. CASE ReadFrame
    BY <1>1, <1>2, <1>3, <1>4, <2>2 DEF ReadFrame, ReaderOk, Reads, dframes
  <2>3. CASE CopyFrame /\ partial' = 1
    <3>1. /\ tail # head /\ reader.pc = "idle"
          /\ reader' = [reader EXCEPT !.frame = Content(tail)]
      BY <2>3 DEF CopyFrame, MayRead
    <3> QED
      BY <1>1, <1>3, <1>4, <3>1 DEF ReaderOk, Reads
  <2> QED
    BY <2>1, <2>2, <2>3
<1>6. \/ UNCHANGED <<prio, informTail>>
      \/ informTail' = tail /\ prio' = prio \cup {"INFORM"}
  BY DEF Poll, ReadFrame, CopyFrame, RequestGrant, channel
<1>7. (Heads => Heads') /\ (Messages => Messages') /\ (Frames => Frames')
      /\ (ClassicFlow => ClassicFlow')
  BY <1>1 DEF Heads, Messages, Frames, ClassicFlow, Filled, To, Newest, Announced
<1>8. ASSUME firmware = "quiet" PROVE Grants'
  <2>1. Grants /\ chead < maxIndex
    BY <1>8 DEF Flow, Heads
  <2>2. /\ maxIndex \in Nat /\ tail \in Nat /\ chan.arg \in Nat /\ ctail \in Nat
        /\ chead \in Nat
    BY Numbers
  <2>3. Back(tail) = 0 /\ To(chead) \in Nat /\ To(chead) < maxIndex
    BY <1>2, <2>1, <2>2, DistRange DEF Back, To
  <2>4. \A x \in Nat : x < maxIndex => Back(x) \in Nat
    BY <1>2, <2>2, DistRange DEF Back
  <2>5. Grantable(tail)
    BY <1>2, <2>3 DEF Grantable
  <2>6. \A x \in Nat : Grantable(x) => Back(tail) <= Back(x)
    BY <2>3, <2>4 DEF Grantable
  <2>7. \A x : (Grantable(x) => Grantable(x)') /\ Back(x)' = Back(x)
    BY <1>1 DEF Grantable, Back, To
  <2>8. CASE UNCHANGED <<prio, informTail>>
    BY <1>1, <2>1, <2>8 DEF Grants, Grantable, Back, To
  <2>9. CASE informTail' = tail /\ prio' = prio \cup {"INFORM"}
    BY <1>1, <2>1, <2>2, <2>5, <2>6, <2>9 DEF Grants, Grantable, Back, To
  <2> QED
    BY <1>6, <2>8, <2>9
<1> QED
  BY <1>1, <1>2, <1>5, <1>7, <1>8 DEF Flow

(* A slot is given up, and the card is to know. *)
Advance ==
  /\ tail # head /\ tail' = (tail + 1) % maxIndex /\ partial' = 0
  /\ taken' = taken + 1 /\ out' = slot[tail]
  /\ prio' = prio \cup {"INFORM"} /\ informTail' = tail'
  /\ reader'.pc \in {"idle", "over"}
  /\ UNCHANGED <<msgs, held, isr, enabled, told, chead, drops, written, head,
                 dropped, first, refused, firmware, cn, ctail, maxIndex, slot,
                 running, chan, ctl>>

LEMMA ReadAdvances ==
  ASSUME Types, Flow, ~upset, Consume \/ (CopyFrame /\ partial' # 1)
  PROVE  Advance
<1>1. tail < maxIndex /\ ReaderOk /\ Content(tail) = slot[tail]
  BY ContentIs DEF Flow
<1>2. CASE Consume
  <2>1. tail # head /\ reader.frame = slot[tail]
    BY <1>1, <1>2 DEF Consume, ReaderOk
  <2>2. Take(reader.frame) /\ tail' = Consumed /\ partial' = 0 /\ RequestGrant(Consumed)
    BY <1>2, <2>1 DEF Consume
  <2>3. UNCHANGED <<msgs, held, isr, enabled, told, chead, drops, written, head,
                 dropped, first, refused, firmware, cn, ctail, maxIndex, slot,
                 running, chan, ctl>>
    BY <1>2 DEF Consume, mce, card, world, control
  <2> QED
    BY <2>1, <2>2, <2>3 DEF Advance, Take, Consumed, RequestGrant, Unread
<1>3. CASE CopyFrame /\ partial' # 1
  <2>1. partial = 1 => reader.frame = Content(tail)
    BY <1>1 DEF ReaderOk
  <2>2. tail # head /\ Take(Content(tail)) /\ tail' = Consumed /\ partial' = 0
        /\ RequestGrant(Consumed)
    BY <1>3, <2>1 DEF CopyFrame
  <2>3. UNCHANGED <<msgs, held, isr, enabled, told, chead, drops, written, head,
                 dropped, first, refused, firmware, cn, ctail, maxIndex, slot,
                 running, chan, ctl>>
    BY <1>3 DEF CopyFrame, mce, card, world, control
  <2> QED
    BY <1>1, <2>2, <2>3 DEF Advance, Take, Consumed, RequestGrant, Unread
<1> QED
  BY <1>2, <1>3

LEMMA FlowAdvance ==
  ASSUME Types, Flow, Counted, Advance
  PROVE  Flow' /\ Counted'
<1>1. /\ maxIndex \in Nat /\ tail \in Nat /\ head \in Nat /\ chead \in Nat
      /\ told[1] \in Nat /\ Newest \in Nat /\ tail < maxIndex /\ head < maxIndex
      /\ tail # head
      /\ first \in Nat /\ taken \in Nat /\ dropped \in Nat /\ refused \in Nat
      /\ drops \in Nat /\ told[2] \in Nat /\ written \in Nat
  BY Numbers DEF Flow, Advance
<1>2. tail' = NextSlot(maxIndex, tail) /\ tail' \in Nat /\ tail' < maxIndex
  BY <1>1, NextIs DEF Advance
<1>3. \A x \in Nat : x < maxIndex /\ x # tail => To(x) = To(x)' + 1
  BY <1>1, <1>2, DistShift DEF To, Advance
<1>4. \A x \in Nat, limit \in Nat :
         x < maxIndex /\ x # tail /\ Filled(x, limit) => Filled(x, limit)'
  <2>1. ASSUME NEW x \in Nat, NEW limit \in Nat,
               x < maxIndex, x # tail, Filled(x, limit)
        PROVE  Window(slot, maxIndex, NextSlot(maxIndex, tail), first + taken + 1,
                      x, limit)
    <3>1. Window(slot, maxIndex, tail, first + taken, x, limit)
      BY <2>1 DEF Filled
    <3>2. first + taken \in Nat /\ tail # x
      BY <1>1, <2>1
    <3> QED
      BY <1>1, <2>1, <3>1, <3>2, WindowShift
  <2>2. first' + taken' = first + taken + 1
    BY <1>1 DEF Advance
  <2>3. slot' = slot /\ maxIndex' = maxIndex
    BY DEF Advance
  <2> QED
    BY <1>2, <2>1, <2>2, <2>3 DEF Filled
<1>5. ReaderOk'
  BY DEF Advance, ReaderOk
<1>6. CASE firmware = "quiet"
  <2>1. Heads /\ Messages /\ Frames /\ Grants
    BY <1>6 DEF Flow
  <2>2. /\ To(head) \in Nat /\ To(Newest) \in Nat /\ To(told[1]) \in Nat
        /\ To(chead) \in Nat
        /\ To(head) = 0 <=> tail = head
        /\ To(told[1]) = 0 <=> tail = told[1]
        /\ To(chead) = 0 <=> tail = chead
        /\ To(Newest) = 0 <=> tail = Newest
    BY <1>6, Distances
  <2>3. chead < maxIndex /\ told[1] < maxIndex /\ Newest < maxIndex
        /\ chead # tail /\ told[1] # tail /\ Newest # tail
    BY <1>1, <2>1, <2>2 DEF Heads
  <2>4. /\ To(head) = To(head)' + 1 /\ To(Newest) = To(Newest)' + 1
        /\ To(told[1]) = To(told[1])' + 1 /\ To(chead) = To(chead)' + 1
    <3>1. Newest' = Newest /\ head' = head /\ told' = told /\ chead' = chead
      BY DEF Advance, Newest
    <3> QED
      BY <1>1, <1>3, <2>3, <3>1 DEF To
  <2>5. /\ To(head)' \in Int /\ To(Newest)' \in Int /\ To(told[1])' \in Int
        /\ To(chead)' \in Int
    <3>1. \A x \in Nat : x < maxIndex => To(x)' \in Int
      BY <1>1, <1>2, DistRange DEF To, Advance
    <3> QED
      BY <1>1, <2>3, <3>1 DEF Advance, To, Newest
  <2>6. Heads'
    BY <1>1, <2>1, <2>2, <2>4, <2>5 DEF Heads, Advance, Newest
  <2>7. Messages'
    BY <2>1 DEF Messages, Advance, Newest, Announced
  <2>8. Frames'
    <3>1. Filled(chead, drops)' /\ Filled(told[1], told[2])' /\ Filled(Newest, dropped)'
      BY <1>1, <1>4, <2>1, <2>3 DEF Frames, Filled, Advance, Newest
    <3>2. written' = first' + taken' + To(chead)' + drops'
      BY <1>1, <2>1, <2>4, <2>5 DEF Frames, Advance
    <3> QED
      BY <3>1, <3>2 DEF Frames
  <2>9. ASSUME running PROVE Grants'
    <3>1. enabled /\ Grantable(ctail)
      BY <2>1, <2>9 DEF Grants
    <3>2. ASSUME NEW x \in Nat, Grantable(x)
          PROVE  Back(x)' = Back(x) + 1 /\ Back(x) \in Nat /\ Grantable(x)'
      <4>1. x < maxIndex /\ Back(x) \in Nat /\ Back(x) + To(chead) < maxIndex
        BY <1>1, <3>2, DistRange DEF Grantable, Back
      <4>2. Back(x) + 1 < maxIndex
        BY <1>1, <2>2, <2>3, <4>1
      <4>3. NextSlot(maxIndex, tail) # x
            /\ Dist(maxIndex, x, NextSlot(maxIndex, tail)) = Dist(maxIndex, x, tail) + 1
        <5>1. Dist(maxIndex, x, tail) + 1 # maxIndex
          BY <1>1, <4>1, <4>2 DEF Back
        <5> QED
          BY <1>1, <4>1, <5>1, DistNext
      <4>4. Back(x)' = Back(x) + 1
        BY <1>2, <4>3 DEF Back, Advance
      <4>5. Grantable(x)'
        BY <1>1, <2>4, <2>5, <4>1, <4>4 DEF Grantable, Advance
      <4> QED
        BY <4>1, <4>4, <4>5
    <3>3. Back(informTail)' = 0 /\ Grantable(informTail)'
      <4>1. /\ Dist(maxIndex, tail', tail') = 0 /\ Dist(maxIndex, tail', chead) < maxIndex
            /\ Dist(maxIndex, tail', chead) \in Nat
        <5>1. Dist(maxIndex, tail', tail') = 0
          BY <1>1, <1>2, DistRange
        <5>2. Dist(maxIndex, tail', chead) < maxIndex
              /\ Dist(maxIndex, tail', chead) \in Nat
          BY <1>1, <1>2, <2>3, DistRange
        <5> QED
          BY <5>1, <5>2
      <4> QED
        BY <1>1, <1>2, <4>1 DEF Back, Grantable, To, Advance
    <3>4. ctail \in Nat /\ chan.arg \in Nat
      BY Numbers
    <3>5. Grantable(ctail)' /\ Back(ctail)' = Back(ctail) + 1 /\ Back(ctail) \in Nat
      <4>1. Grantable(ctail)' /\ Back(ctail)' = Back(ctail) + 1 /\ Back(ctail) \in Nat
        BY <3>1, <3>2, <3>4 DEF Grantable, Back, To, Advance
      <4> QED
        BY <4>1
    <3>6. chan.cmd = "GRANT" =>
            /\ Grantable(chan.arg)' /\ Back(chan.arg)' = Back(chan.arg) + 1
            /\ Back(chan.arg) \in Nat /\ Back(chan.arg) <= Back(ctail)
      BY <2>1, <2>9, <3>2, <3>4 DEF Grants, Grantable, Back, To, Advance
    <3>7. chan.cmd = "GRANT" => Grantable(chan.arg)' /\ Back(chan.arg)' <= Back(ctail)'
                                /\ Back(informTail)' <= Back(chan.arg)'
      BY <3>3, <3>5, <3>6
    <3>8. Back(informTail)' <= Back(ctail)'
      BY <3>3, <3>5
    <3> QED
      BY <3>1, <3>3, <3>5, <3>7, <3>8 DEF Grants, Advance
  <2>10. Grants'
    BY <2>9 DEF Grants, Advance
  <2>11. Flow'
    BY <1>1, <1>2, <1>5, <1>6, <2>6, <2>7, <2>8, <2>10 DEF Flow, Advance
  <2>12. slot[tail] - (first + taken + 1) \in 0..dropped
    <3>1. Window(slot, maxIndex, tail, first + taken, Newest, dropped)
      BY <2>1 DEF Frames, Filled
    <3> QED
      BY <1>1, <2>3, <3>1, WindowFirst
  <2>13. Counted'
    BY <1>1, <2>12 DEF Counted, Advance
  <2> QED
    BY <2>11, <2>13
<1>7. CASE firmware = "classic"
  <2>1. ClassicFlow
    BY <1>7 DEF Flow
  <2>2. To(head) = To(head)' + 1 /\ To(head)' \in Int
    <3>1. To(head)' \in Nat
      BY <1>1, <1>2, DistRange DEF To, Advance
    <3> QED
      BY <1>1, <1>3, <3>1 DEF To, Advance
  <2>3. Filled(head, dropped + refused)'
    BY <1>1, <1>4, <2>1 DEF ClassicFlow, Filled, Advance
  <2>4. ClassicFlow'
    BY <1>1, <2>1, <2>2, <2>3 DEF ClassicFlow, Advance
  <2>5. Flow'
    BY <1>1, <1>2, <1>5, <1>7, <2>4 DEF Flow, Advance
  <2>6. slot[tail] - (first + taken + 1) \in 0..(dropped + refused)
    <3>1. Window(slot, maxIndex, tail, first + taken, head, dropped + refused)
      BY <2>1 DEF ClassicFlow, Filled
    <3>2. dropped + refused \in Nat /\ first + taken \in Nat
      BY <1>1
    <3> QED
      BY <1>1, <3>1, <3>2, WindowFirst
  <2>7. Counted'
    BY <1>1, <2>6 DEF Counted, Advance
  <2> QED
    BY <2>5, <2>7
<1> QED
  BY <1>6, <1>7 DEF Types, CardTypes

-----------------------------------------------------------------------------
(* The card's frames.                                                      *)

(* A window that a frame beyond it, or at its end, leaves as it is. *)
LEMMA FilledKept ==
  ASSUME Types, Flow, NEW g \in Nat, NEW h \in Nat, NEW limit \in Nat,
         g < maxIndex, h < maxIndex, To(g) <= To(h), Filled(g, limit),
         NEW v, slot' = [i \in Slots |-> IF i = h THEN v ELSE slot[i]],
         UNCHANGED <<maxIndex, tail, first, taken>>
  PROVE  Filled(g, limit)'
<1>1. /\ maxIndex \in Nat /\ tail \in Nat /\ tail < maxIndex
      /\ first + taken \in Nat
  BY Numbers DEF Flow
<1>2. SameBut(slot, slot', maxIndex, h)
  BY Numbers DEF SameBut
<1>3. Window(slot, maxIndex, tail, first + taken, g, limit)
      /\ Dist(maxIndex, tail, g) <= Dist(maxIndex, tail, h)
  BY DEF Filled, To
<1>4. Window(slot', maxIndex, tail, first + taken, g, limit)
  BY <1>1, <1>2, <1>3, WindowKept
<1> QED
  BY <1>4 DEF Filled

(* The frame that comes next, after at most limit that were missing. *)
LEMMA FilledGrows ==
  ASSUME Types, Flow, NEW h \in Nat, NEW limit \in Nat, h < maxIndex,
         NextSlot(maxIndex, h) # tail, Filled(h, limit),
         NEW v, slot' = [i \in Slots |-> IF i = h THEN v ELSE slot[i]],
         v - (first + taken + To(h) + 1) \in 0..limit,
         UNCHANGED <<maxIndex, tail, first, taken>>
  PROVE  Filled(NextSlot(maxIndex, h), limit)'
<1>1. /\ maxIndex \in Nat /\ tail \in Nat /\ tail < maxIndex
      /\ first + taken \in Nat
  BY Numbers DEF Flow
<1>2. SameBut(slot, slot', maxIndex, h) /\ slot'[h] = v
  BY Numbers DEF SameBut
<1>3. Window(slot, maxIndex, tail, first + taken, h, limit)
      /\ slot'[h] - (first + taken + Dist(maxIndex, tail, h) + 1) \in 0..limit
  BY <1>2 DEF Filled, To
<1>4. Window(slot', maxIndex, tail, first + taken, NextSlot(maxIndex, h), limit)
  BY <1>1, <1>2, <1>3, WindowGrow
<1> QED
  BY <1>4 DEF Filled

(* More may be missing. *)
LEMMA FilledMore ==
  ASSUME Types, Flow, NEW h \in Nat, NEW limit \in Nat, NEW more \in Nat,
         h < maxIndex, Filled(h, limit), limit <= more
  PROVE  Filled(h, more)
<1>1. /\ maxIndex \in Nat /\ tail \in Nat /\ tail < maxIndex
      /\ first + taken \in Nat
  BY Numbers DEF Flow
<1>2. Dist(maxIndex, tail, h) <= Dist(maxIndex, tail, h)
  BY <1>1, DistRange
<1> QED
  BY <1>1, <1>2, WindowLess DEF Filled

LEMMA FlowQuietFrame ==
  ASSUME Types, Notified, Flow, QuietFrame
  PROVE  Flow' /\ (~Full => chead' # tail)
<1>1. /\ enabled /\ running /\ written' = written + 1
      /\ UNCHANGED <<held, isr, enabled, head, tail, partial, dropped, first, out,
                     taken, refused, firmware, cn, ctail, maxIndex, informTail,
                     running, reader, chan, prio, told, msgs>>
  BY DEF QuietFrame, world, dframes, channel, account
<1>2. firmware = "quiet"
  BY <1>1 DEF Notified, Types, CardTypes
<1>3. Heads /\ Messages /\ Frames /\ Grants /\ ReaderOk
  BY <1>2 DEF Flow
<1>4. /\ maxIndex \in Nat /\ tail \in Nat /\ head \in Nat /\ chead \in Nat
      /\ told[1] \in Nat /\ Newest \in Nat /\ tail < maxIndex /\ head < maxIndex
      /\ first \in Nat /\ taken \in Nat /\ dropped \in Nat /\ refused \in Nat
      /\ drops \in Nat /\ told[2] \in Nat /\ written \in Nat /\ ctail \in Nat
      /\ chan.arg \in Nat /\ informTail \in Nat
  BY Numbers DEF Flow
<1>5. /\ To(head) \in Nat /\ To(Newest) \in Nat /\ To(told[1]) \in Nat
      /\ To(chead) \in Nat /\ To(chead) < maxIndex
      /\ To(head) = 0 <=> tail = head
      /\ To(chead) = 0 <=> tail = chead
  BY <1>2, Distances
<1>6. chead < maxIndex /\ Newest < maxIndex /\ told[1] < maxIndex /\ cn = maxIndex
  BY <1>3 DEF Heads
<1>7. Newest' = Newest /\ To(head)' = To(head) /\ To(Newest)' = To(Newest)
      /\ To(told[1])' = To(told[1])
  BY <1>1 DEF Newest, To
<1>8. Messages'
  BY <1>1, <1>3, <1>7 DEF Messages, Announced
<1>9. CASE Full
  <2>1. drops' = drops + 1 /\ UNCHANGED <<slot, chead>>
    BY <1>9 DEF QuietFrame
  <2>2. To(chead)' = To(chead) /\ \A x : Back(x)' = Back(x)
    BY <1>1, <2>1 DEF To, Back
  <2>3. Heads'
    BY <1>1, <1>3, <1>4, <1>7, <2>1, <2>2 DEF Heads
  <2>4. Filled(chead, drops + 1)
    BY <1>3, <1>4, <1>6, FilledMore DEF Frames
  <2>5. Frames'
    BY <1>1, <1>3, <1>4, <1>5, <1>7, <2>1, <2>2, <2>4 DEF Frames, Filled
  <2>6. Grants'
    BY <1>1, <1>3, <2>1, <2>2 DEF Grants, Grantable, Back, To
  <2>7. ReaderOk'
    BY <1>1, <1>3, <2>1 DEF ReaderOk
  <2> QED
    BY <1>1, <1>2, <1>4, <1>8, <1>9, <2>3, <2>5, <2>6, <2>7 DEF Flow
<1>10. CASE ~Full
  <2>1. /\ slot' = [i \in Slots |-> IF i = chead THEN written + 1 ELSE slot[i]]
        /\ chead' = (chead + 1) % cn /\ drops' = drops
    BY <1>10 DEF QuietFrame
  <2>2. chead' = NextSlot(maxIndex, chead) /\ chead' \in Nat /\ chead' < maxIndex
        /\ chead' # ctail
    BY <1>4, <1>6, <1>10, <2>1, NextIs DEF Full
  <2>3. Grantable(ctail)
    BY <1>1, <1>3 DEF Grants
  <2>4. Back(ctail) + To(chead) + 1 < maxIndex /\ Back(ctail) \in Nat
    <3>1. ctail < maxIndex /\ Back(ctail) \in Nat /\ Back(ctail) + To(chead) < maxIndex
      BY <1>4, <2>3, DistRange DEF Grantable, Back
    <3>2. Dist(maxIndex, ctail, chead) = Back(ctail) + To(chead)
      BY <1>4, <1>6, <3>1, DistSum DEF Back, To
    <3>3. Dist(maxIndex, ctail, chead) + 1 # maxIndex /\ Dist(maxIndex, ctail, chead) < maxIndex
      BY <1>4, <1>6, <2>2, <3>1, DistNext
    <3> QED
      BY <1>4, <1>5, <3>1, <3>2, <3>3
  <2>5. chead' # tail /\ To(chead)' = To(chead) + 1
    <3>1. Dist(maxIndex, tail, chead) + 1 # maxIndex
      BY <1>4, <1>5, <2>4 DEF To
    <3>2. NextSlot(maxIndex, chead) # tail
          /\ Dist(maxIndex, tail, NextSlot(maxIndex, chead)) = Dist(maxIndex, tail, chead) + 1
      BY <1>4, <1>6, <3>1, DistNext
    <3> QED
      BY <1>1, <2>2, <3>2 DEF To
  <2>6. Heads'
    BY <1>1, <1>3, <1>4, <1>5, <1>7, <2>1, <2>2, <2>5 DEF Heads
  <2>7. (written + 1) - (first + taken + To(chead) + 1) \in 0..drops
    BY <1>3, <1>4, <1>5 DEF Frames
  <2>8. \A h, limit \in Nat :
          h = chead /\ limit = drops => Filled(NextSlot(maxIndex, h), limit)'
    <3>1. Filled(chead, drops) /\ NextSlot(maxIndex, chead) # tail
      BY <1>1, <1>3, <2>2, <2>5 DEF Frames
    <3>2. ASSUME NEW h \in Nat, NEW limit \in Nat, h = chead, limit = drops
          PROVE  Filled(NextSlot(maxIndex, h), limit)'
      <4>1. h < maxIndex /\ NextSlot(maxIndex, h) # tail /\ Filled(h, limit)
        BY <1>6, <3>1, <3>2
      <4>2. slot' = [i \in Slots |-> IF i = h THEN written + 1 ELSE slot[i]]
            /\ UNCHANGED <<maxIndex, tail, first, taken>>
        BY <1>1, <2>1, <3>2
      <4>3. (written + 1) - (first + taken + To(h) + 1) \in 0..limit
        BY <2>7, <3>2
      <4> QED
        BY <4>1, <4>2, <4>3, FilledGrows
    <3> QED
      BY <3>2
  <2>9. Filled(told[1], told[2])' /\ Filled(Newest, dropped)'
    <3>1. To(told[1]) <= To(chead) /\ To(Newest) <= To(chead)
      BY <1>3, <1>5 DEF Heads
    <3>2. Filled(told[1], told[2]) /\ Filled(Newest, dropped)
      BY <1>3 DEF Frames
    <3>3. ASSUME NEW x \in Nat, NEW y \in Nat, x < maxIndex,
                 To(x) <= To(chead), Filled(x, y)
          PROVE  Filled(x, y)'
      <4>1. /\ slot' = [i \in Slots |-> IF i = chead THEN written + 1 ELSE slot[i]]
            /\ UNCHANGED <<maxIndex, tail, first, taken>>
        BY <1>1, <2>1
      <4> QED
        BY <1>4, <1>6, <3>3, <4>1, FilledKept
    <3>4. Filled(told[1], told[2])'
      <4>1. \A x, y \in Nat : x = told[1] /\ y = told[2] => Filled(x, y)'
        BY <1>6, <3>1, <3>2, <3>3
      <4> QED
        BY <1>1, <1>4, <4>1 DEF Filled
    <3>5. Filled(Newest, dropped)'
      <4>1. \A x, y \in Nat : x = Newest /\ y = dropped => Filled(x, y)'
        BY <1>6, <3>1, <3>2, <3>3
      <4> QED
        BY <1>1, <1>4, <1>7, <4>1 DEF Filled
    <3> QED
      BY <3>4, <3>5
  <2>10. Frames'
    <3>1. Filled(chead, drops)'
      BY <1>1, <1>4, <2>1, <2>2, <2>8 DEF Filled
    <3>2. written' = first' + taken' + To(chead)' + drops'
      BY <1>1, <1>3, <1>4, <1>5, <2>1, <2>5 DEF Frames
    <3> QED
      BY <2>9, <3>1, <3>2 DEF Frames
  <2>11. \A x \in Nat : Grantable(x) /\ Back(x) <= Back(ctail) => Grantable(x)'
    <3>1. \A x \in Nat : x < maxIndex => Back(x) \in Nat
      BY <1>4, DistRange DEF Back
    <3>2. \A x : Back(x)' = Back(x)
      BY <1>1 DEF Back
    <3> QED
      BY <1>1, <1>4, <1>5, <2>4, <2>5, <3>1, <3>2 DEF Grantable
  <2>12. Grants'
    <3>1. Grantable(ctail)' /\ UNCHANGED <<Back(ctail), Back(chan.arg), Back(informTail)>>
      BY <1>1, <1>4, <2>3, <2>4, <2>11 DEF Grantable, Back, To
    <3>2. chan.cmd = "GRANT" => Grantable(chan.arg)'
      BY <1>1, <1>3, <1>4, <2>11 DEF Grants, Grantable, Back, To
    <3>3. "INFORM" \in prio => Grantable(informTail)'
      BY <1>1, <1>3, <1>4, <2>11 DEF Grants, Grantable, Back, To
    <3> QED
      BY <1>1, <1>3, <3>1, <3>2, <3>3 DEF Grants
  <2>13. tail # head => chead # tail
    BY <1>3, <1>5 DEF Heads
  <2>14. tail \in Slots
    BY DEF Types, RingTypes
  <2>15. tail # head => slot'[tail] = slot[tail]
    BY <2>1, <2>13, <2>14
  <2>16. ReaderOk'
    BY <1>1, <1>3, <2>15 DEF ReaderOk
  <2> QED
    BY <1>1, <1>2, <1>4, <1>8, <2>5, <2>6, <2>10, <2>12, <2>16 DEF Flow
<1> QED
  BY <1>9, <1>10

LEMMA FlowClassicFrame ==
  ASSUME Types, Notified, Flow, ClassicFrame
  PROVE  Flow'
<1>1. /\ ~enabled /\ running /\ held = 0 /\ written' = written + 1
      /\ held' = written + 1
      /\ UNCHANGED <<isr, enabled, head, tail, partial, dropped, first, out,
                     taken, refused, firmware, maxIndex, reader, chan, slot>>
  BY DEF ClassicFrame, world, dframes, channel, account
<1>2. firmware = "classic"
  BY <1>1 DEF Flow, Grants, Types, CardTypes
<1>3. ClassicFlow /\ ReaderOk /\ chan.cmd # "HST"
  BY <1>1, <1>2 DEF Flow, Notified
<1>4. /\ written \in Nat /\ first \in Nat /\ taken \in Nat /\ dropped \in Nat
      /\ refused \in Nat /\ To(head) \in Nat
  BY Numbers, Distances
<1>5. To(head)' = To(head) /\ (Filled(head, dropped + refused) =>
                                 Filled(head, dropped + refused)')
  BY <1>1 DEF To, Filled
<1>6. ClassicFlow'
  BY <1>1, <1>3, <1>4, <1>5 DEF ClassicFlow
<1>7. ReaderOk'
  BY <1>1, <1>3 DEF ReaderOk
<1> QED
  BY <1>1, <1>2, <1>6, <1>7 DEF Flow

(* The driver asks for the frame at its head, or refuses it. *)
LEMMA FlowNfy ==
  ASSUME Types, Notified, Flow, Counted, ~upset, NfyHandler
  PROVE  Flow' /\ Counted'
<1>1. /\ Announced("DA")
      /\ UNCHANGED <<isr, enabled, head, tail, partial, dropped, first, out,
                     taken, firmware, maxIndex, reader, slot, written, running>>
  BY DEF NfyHandler, world, dframes, channel, account, mce
<1>2. held # 0 /\ chan.cmd # "HST"
  BY <1>1 DEF Notified
<1>3. firmware = "classic"
  BY <1>2 DEF Flow, Heads, Types, CardTypes
<1>4. ClassicFlow /\ ReaderOk
  BY <1>3 DEF Flow
<1>5. /\ written \in Nat /\ first \in Nat /\ taken \in Nat /\ dropped \in Nat
      /\ refused \in Nat /\ To(head) \in Nat /\ head \in Nat /\ out \in Nat
  BY Numbers, Distances
<1>6. To(head)' = To(head)
  BY <1>1 DEF To
<1>7. ReaderOk'
  BY <1>1, <1>4 DEF ReaderOk
<1>8. CASE chan = NoCmd /\ prio = {}
  <2>1. chan' = [cmd |-> "HST", arg |-> head] /\ UNCHANGED <<held, refused>>
    BY <1>8 DEF NfyHandler
  <2>2. Filled(head, dropped + refused)'
    BY <1>1, <1>4, <2>1 DEF ClassicFlow, Filled
  <2>3. ClassicFlow' /\ Counted'
    BY <1>1, <1>4, <1>6, <2>1, <2>2 DEF ClassicFlow, Counted
  <2> QED
    BY <1>1, <1>3, <1>7, <2>3 DEF Flow
<1>9. CASE ~(chan = NoCmd /\ prio = {})
  <2>1. held' = 0 /\ refused' = refused + 1 /\ chan' = chan
    BY <1>9 DEF NfyHandler
  <2>2. Filled(head, dropped + refused + 1)
    <3>1. /\ dropped + refused \in Nat /\ dropped + refused + 1 \in Nat
          /\ dropped + refused <= dropped + refused + 1
      BY <1>5
    <3>2. head < maxIndex /\ Filled(head, dropped + refused)
      BY <1>4 DEF ClassicFlow, Flow
    <3> QED
      BY <1>5, <3>1, <3>2, FilledMore
  <2>3. dropped' + refused' = dropped + refused + 1
    BY <1>1, <1>5, <2>1
  <2>4. Filled(head, dropped + refused)'
    BY <1>1, <2>2, <2>3 DEF Filled
  <2>5. ClassicFlow'
    BY <1>1, <1>2, <1>4, <1>5, <1>6, <2>1, <2>3, <2>4 DEF ClassicFlow
  <2>6. Counted'
    BY <1>1, <1>5, <2>1 DEF Counted
  <2> QED
    BY <1>1, <1>3, <1>7, <2>5, <2>6 DEF Flow
<1> QED
  BY <1>8, <1>9

(* The card writes the frame it was asked for, and the driver's head moves *)
(* on if the reader has left room.                                         *)
LEMMA FlowHst ==
  ASSUME Types, Notified, Flow, Counted, CardExec, chan.cmd = "HST"
  PROVE  Flow' /\ Counted'
<1>1. /\ slot' = [i \in Slots |-> IF i = chan.arg THEN held ELSE slot[i]]
      /\ held' = 0 /\ Increment /\ chan' = NoCmd
      /\ UNCHANGED <<isr, tail, partial, first, out, taken, refused, firmware,
                     maxIndex, reader, written, running, ctl>>
  BY DEF CardExec, world, account, mce
<1>2. held # 0
  BY DEF Notified
<1>3. firmware = "classic"
  BY <1>2 DEF Flow, Heads, Types, CardTypes
<1>4. ClassicFlow /\ ReaderOk
  BY <1>3 DEF Flow
<1>5. chan.arg = head /\ held = written
  BY <1>2, <1>4 DEF ClassicFlow
<1>6. /\ maxIndex \in Nat /\ tail \in Nat /\ head \in Nat
      /\ tail < maxIndex /\ head < maxIndex
      /\ first \in Nat /\ taken \in Nat /\ dropped \in Nat /\ refused \in Nat
      /\ written \in Nat /\ out \in Nat
  BY Numbers DEF Flow
<1>7. To(head) \in Nat /\ (To(head) = 0 <=> tail = head)
  BY Distances
<1>8. (head + 1) % maxIndex = NextSlot(maxIndex, head)
      /\ NextSlot(maxIndex, head) \in Nat /\ NextSlot(maxIndex, head) < maxIndex
  BY <1>6, NextIs
<1>9. written = first + taken + To(head) + dropped + refused + 1
  BY <1>2, <1>4 DEF ClassicFlow
<1>10. Filled(head, dropped + refused) /\ dropped + refused \in Nat
  BY <1>4, <1>6 DEF ClassicFlow
<1>11. slot' = [i \in Slots |-> IF i = head THEN written ELSE slot[i]]
  BY <1>1, <1>5
<1>12. tail # head => slot'[tail] = slot[tail]
  BY <1>11 DEF Types, RingTypes
<1>13. CASE NoRoom((head + 1) % maxIndex)
  <2>1. dropped' = dropped + 1 /\ head' = head
    BY <1>1, <1>13 DEF Increment
  <2>2. dropped' + refused' = dropped + refused + 1
    BY <1>1, <1>6, <2>1
  <2>3. Filled(head, dropped + refused + 1)
    <3>1. dropped + refused + 1 \in Nat /\ dropped + refused <= dropped + refused + 1
      BY <1>10
    <3> QED
      BY <1>6, <1>10, <3>1, FilledMore
  <2>4. ASSUME NEW h \in Nat, NEW limit \in Nat,
               h = head, limit = dropped + refused + 1
        PROVE  Filled(h, limit)'
    <3>1. h < maxIndex /\ To(h) <= To(h) /\ Filled(h, limit)
      BY <1>6, <1>7, <2>3, <2>4
    <3>2. slot' = [i \in Slots |-> IF i = h THEN written ELSE slot[i]]
          /\ UNCHANGED <<maxIndex, tail, first, taken>>
      BY <1>1, <1>11, <2>4
    <3> QED
      BY <3>1, <3>2, FilledKept
  <2>5. Filled(head, dropped + refused)'
    <3>1. dropped + refused + 1 \in Nat
      BY <1>10
    <3> QED
      BY <1>6, <2>1, <2>2, <2>4, <3>1 DEF Filled
  <2>6. To(head)' = To(head)
    BY <1>1, <2>1 DEF To
  <2>7. ClassicFlow'
    BY <1>1, <1>6, <1>7, <1>9, <2>1, <2>5, <2>6 DEF ClassicFlow, NoCmd
  <2>8. Counted'
    BY <1>1, <1>6, <2>1 DEF Counted
  <2>9. ReaderOk'
    BY <1>1, <1>4, <1>12, <2>1 DEF ReaderOk
  <2> QED
    BY <1>1, <1>3, <1>6, <2>1, <2>7, <2>8, <2>9 DEF Flow
<1>14. CASE ~NoRoom((head + 1) % maxIndex)
  <2>1. head' = NextSlot(maxIndex, head) /\ dropped' = dropped /\ head' # tail
    BY <1>1, <1>8, <1>14 DEF Increment, NoRoom
  <2>2. ASSUME NEW h \in Nat, NEW limit \in Nat, h = head, limit = dropped + refused
        PROVE  Filled(NextSlot(maxIndex, h), limit)'
    <3>1. h < maxIndex /\ NextSlot(maxIndex, h) # tail /\ Filled(h, limit)
      BY <1>6, <1>10, <2>1, <2>2
    <3>2. slot' = [i \in Slots |-> IF i = h THEN written ELSE slot[i]]
          /\ UNCHANGED <<maxIndex, tail, first, taken>>
      BY <1>1, <1>11, <2>2
    <3>3. written - (first + taken + To(h) + 1) \in 0..limit
      BY <1>6, <1>7, <1>9, <2>2
    <3> QED
      BY <3>1, <3>2, <3>3, FilledGrows
  <2>3. Filled(head, dropped + refused)'
    BY <1>1, <1>6, <1>10, <2>1, <2>2 DEF Filled
  <2>4. To(head)' = To(head) + 1
    <3>1. Dist(maxIndex, tail, NextSlot(maxIndex, head)) = Dist(maxIndex, tail, head) + 1
      BY <1>6, <2>1, DistNext
    <3> QED
      BY <1>1, <2>1, <3>1 DEF To
  <2>5. ClassicFlow'
    BY <1>1, <1>6, <1>7, <1>9, <2>1, <2>3, <2>4 DEF ClassicFlow, NoCmd
  <2>6. Counted'
    BY <1>1, <2>1 DEF Counted
  <2>7. ReaderOk'
    BY <1>1, <1>4, <1>12, <2>1 DEF ReaderOk
  <2> QED
    BY <1>1, <1>3, <1>6, <1>8, <2>1, <2>5, <2>6, <2>7 DEF Flow
<1> QED
  BY <1>13, <1>14

(* The card is told of a tail, or to stop its transfers. *)
LEMMA FlowExec ==
  ASSUME Types, Ring, Flow, ~Still, CardExec, chan.cmd # "HST"
  PROVE  Flow'
<1>1. UNCHANGED <<msgs, held, isr, written, head, tail, partial, dropped, first,
                  out, taken, refused, firmware, maxIndex, informTail, slot,
                  running, reader, prio>> /\ chan' = NoCmd
  BY DEF CardExec, mce, card, world, dframes, channel, account
<1>2. ReaderOk' /\ (ClassicFlow => ClassicFlow')
  BY <1>1 DEF Flow, ReaderOk, ClassicFlow, Filled, To, NoCmd
<1>3. ASSUME firmware = "quiet", chan.cmd = "GRANT"
      PROVE  Heads' /\ Messages' /\ Frames' /\ Grants'
  <2>1. UNCHANGED <<enabled, cn, chead, drops, told>> /\ ctail' = chan.arg
    BY <1>3 DEF CardExec
  <2>2. Heads' /\ Messages' /\ Frames'
    BY <1>1, <1>3, <2>1 DEF Flow, Heads, Messages, Frames, Filled, To, Newest,
                           Announced
  <2>3. Grants'
    BY <1>1, <1>3, <2>1 DEF Flow, Grants, Grantable, To, Back, NoCmd
  <2> QED
    BY <2>2, <2>3
<1>4. ASSUME firmware = "quiet", chan.cmd = "QTS"
      PROVE  Heads' /\ Messages' /\ Frames' /\ Grants'
  <2>1. ctl.pc = "wait" /\ ctl.step \in 1..6
    BY <1>4 DEF Types, Orders, ChannelTypes, Waits
  <2>2. ctl.step = 1 /\ ~running
    BY <2>1 DEF Ring, Begun, Fresh
  <2>3. Execute("DISABLE", chan.arg)
    BY <1>4, <2>2 DEF CardExec, QtSteps
  <2>4. UNCHANGED <<cn, chead, drops, told, ctail>>
    BY <2>3 DEF Execute
  <2>5. Heads' /\ Messages' /\ Frames'
    BY <1>1, <1>4, <2>4 DEF Flow, Heads, Messages, Frames, Filled, To, Newest,
                           Announced
  <2>6. Grants'
    BY <1>1, <2>2 DEF Grants
  <2> QED
    BY <2>5, <2>6
<1>5. chan.cmd = "GRANT" \/ chan.cmd = "QTS"
  BY DEF CardExec
<1> QED
  BY <1>1, <1>2, <1>3, <1>4, <1>5 DEF Flow

-----------------------------------------------------------------------------
(* Every step.                                                             *)

(* More may have been dropped. *)
LEMMA Within ==
  ASSUME NEW a \in Nat, NEW b \in Nat, NEW c \in Nat, NEW x \in 0..(a + c), a <= b
  PROVE  x \in 0..(b + c)
OBVIOUS

LEMMA CountedMore ==
  ASSUME Types, Counted, UNCHANGED <<out, first, taken, refused>>,
         dropped' \in Nat, dropped <= dropped'
  PROVE  Counted'
<1>1. dropped \in Nat /\ refused \in Nat
  BY Numbers
<1>2. out - (first + taken) \in 0..(dropped + refused)
  BY DEF Counted
<1>3. out - (first + taken) \in 0..(dropped' + refused)
  BY <1>1, <1>2, Within
<1> QED
  BY <1>3 DEF Counted

LEMMA RingStep ==
  ASSUME Types, Notified, Mode, ~upset => Ring, [Next]_vars, ~upset'
  PROVE  Ring'
<1>0. ctl \in Waits /\ upset \in BOOLEAN
  BY DEF Types, RingTypes, ChannelTypes
<1>1. CASE QtAnswered /\ ctl.step = 1
  BY <1>1, ResetRing
<1>2. CASE QtAnswered /\ ctl.step # 1
  <2>1. ~upset
    BY <1>2 DEF QtAnswered
  <2> QED
    BY <1>2, <2>1, ConfigureRing
<1>3. CASE Empty \/ FakeStop
  BY <1>3 DEF Empty, FakeStop, Forget
<1>4. CASE SetDatasize \/ QtConfig
  <2>1. ~upset
    BY <1>0, <1>4 DEF SetDatasize, QtConfig
  <2> QED
    BY <1>4, <2>1, ConfigRing
<1>5. CASE Go
  <2>1. ~upset
    BY <1>5 DEF Go, account
  <2> QED
    BY <1>5, <2>1, GoRing
<1>6. CASE TaskSend \/ TaskFail \/ TaskDone
  <2>1. Ring
    BY <1>6 DEF TaskSend, TaskFail, TaskDone, account
  <2>2. CASE Still
    BY <1>6, <2>1, <2>2, StillTask
  <2>3. CASE ~Still
    <3>1. Flow /\ Counted
      BY <2>1, <2>3 DEF Ring
    <3>2. Flow'
      BY <1>6, <3>1, FlowTask
    <3>3. UNCHANGED <<dropped, out, taken, refused, first, running>>
      BY <1>6 DEF TaskSend, TaskFail, TaskDone, mce, account, dframes
    <3>4. Counted' /\ (ctl' = ctl \/ ctl' = Idle)
      BY <1>6, <3>1, <3>3 DEF Counted, TaskSend, TaskFail, TaskDone, control
    <3>5. ctl'.pc # "idle" => ~running'
      BY <2>1, <3>3, <3>4 DEF Ring, Idle
    <3>6. ~Begun
      BY <2>1, <2>3 DEF Ring, Fresh
    <3>7. ~Begun'
      BY <3>4, <3>6 DEF Begun, Idle
    <3> QED
      BY <3>2, <3>4, <3>5, <3>7 DEF Ring
  <2> QED
    BY <2>2, <2>3
<1>7. CASE CardExec
  <2>1. Ring /\ UNCHANGED <<out, taken, refused, first, running>>
    BY <1>7 DEF CardExec, account, mce
  <2>2. CASE Still
    <3>1. chan.cmd # "HST"
      BY <2>2, StillQuiet
    <3> QED
      BY <1>7, <2>1, <2>2, <3>1, StillExec
  <2>3. CASE ~Still
    <3>1. Flow /\ Counted
      BY <2>1, <2>3 DEF Ring
    <3>2. Flow' /\ Counted'
      <4>1. CASE chan.cmd = "HST"
        BY <1>7, <3>1, <4>1, FlowHst
      <4>2. CASE chan.cmd # "HST"
        <5>1. Flow'
          BY <1>7, <2>1, <2>3, <3>1, <4>2, FlowExec
        <5>2. dropped' = dropped
          BY <1>7, <4>2 DEF CardExec
        <5> QED
          BY <2>1, <3>1, <5>1, <5>2 DEF Counted
      <4> QED
        BY <4>1, <4>2
    <3>3. ctl' = ctl \/ (ctl' = [ctl EXCEPT !.pc = "answered"] /\ ctl.pc = "wait")
      BY <1>7 DEF CardExec, Types, Orders
    <3>4. ~Begun
      BY <2>1, <2>3 DEF Ring, Fresh
    <3>5. ~Begun' /\ (ctl'.pc # "idle" => ~running')
      BY <1>0, <2>1, <3>3, <3>4 DEF Begun, Waits, Ring
    <3> QED
      BY <3>2, <3>5 DEF Ring
  <2> QED
    BY <2>2, <2>3
<1>8. CASE Isr \/ Reader \/ Halt \/ QuietFrame \/ CardInform \/ ClassicFrame
  <2>1. Ring /\ ~upset
    BY <1>0, <1>8 DEF Isr, QtiHandler, QtiRest, NfyHandler, Reader, Poll, ReadFrame,
      Consume, CopyFrame, Halt, QuietFrame, CardInform, ClassicFrame, account
  <2>2. ~Still
    BY <1>8, StillQuiet DEF Isr
  <2>3. Flow /\ Counted
    BY <2>1, <2>2 DEF Ring
  <2>4. ctl' = ctl /\ (running' = running \/ running' = FALSE)
    BY <1>8 DEF Isr, QtiHandler, QtiRest, NfyHandler, Reader, Poll, ReadFrame,
      Consume, CopyFrame, Halt, QuietFrame, CardInform, ClassicFrame, control, mce
  <2>5. CASE Reader
    <3>1. ASSUME Poll \/ ReadFrame \/ (CopyFrame /\ partial' = 1)
          PROVE  Flow' /\ Counted'
      <4>1. Flow' /\ UNCHANGED <<dropped, out, taken, refused, first>>
        BY <2>3, <3>1, FlowLook
      <4> QED
        BY <2>3, <4>1 DEF Counted
    <3>2. ASSUME Consume \/ (CopyFrame /\ partial' # 1)
          PROVE  Flow' /\ Counted'
      BY <2>1, <2>3, <3>2, ReadAdvances, FlowAdvance
    <3>3. Flow' /\ Counted'
      BY <2>5, <3>1, <3>2 DEF Reader
    <3> QED
      BY <1>0, <2>1, <2>2, <2>4, <3>3 DEF Ring, Begun, Fresh
  <2>6. CASE NfyHandler
    <3>1. Flow' /\ Counted'
      BY <2>1, <2>3, <2>6, FlowNfy
    <3> QED
      BY <1>0, <2>1, <2>2, <2>4, <3>1 DEF Ring, Begun, Fresh
  <2>7. CASE QtiHandler
    <3>1. Flow'
      BY <2>3, <2>7, FlowQti
    <3>2. Counted'
      <4>1. firmware = "quiet" /\ dropped' \in Nat /\ dropped <= dropped'
            /\ UNCHANGED <<out, first, taken, refused>>
        <5>1. Announced("QTI")
          BY <2>7 DEF QtiHandler
        <5>2. firmware = "quiet"
          BY <5>1 DEF Notified, Types, CardTypes
        <5>3. Head(msgs).drops = told[2] /\ dropped <= told[2]
          BY <2>3, <5>1, <5>2 DEF Flow, Heads, Messages
        <5>4. dropped' = told[2] /\ UNCHANGED <<out, first, taken, refused>>
          BY <2>7, <5>3 DEF QtiHandler, CountDrops, account
        <5> QED
          BY <5>2, <5>3, <5>4, Numbers
      <4> QED
        BY <2>3, <4>1, CountedMore
    <3> QED
      BY <1>0, <2>1, <2>2, <2>4, <3>1, <3>2 DEF Ring, Begun, Fresh
  <2>8. CASE QtiRest \/ Halt \/ QuietFrame \/ CardInform \/ ClassicFrame
    <3>1. Flow'
      BY <2>3, <2>8, FlowQtiRest, FlowHalt, FlowQuietFrame, FlowInform,
         FlowClassicFrame
    <3>2. UNCHANGED <<dropped, out, taken, refused, first>>
      BY <2>8 DEF QtiRest, Halt, QuietFrame, CardInform, ClassicFrame, account,
                  dframes
    <3>3. Counted'
      BY <2>3, <3>2 DEF Counted
    <3> QED
      BY <1>0, <2>1, <2>2, <2>4, <3>1, <3>3 DEF Ring, Begun, Fresh
  <2> QED
    BY <1>8, <2>5, <2>6, <2>7, <2>8 DEF Isr
<1>9. CASE UNCHANGED vars
  <2>1. Ring
    BY <1>9 DEF vars
  <2>2. Still' = Still /\ Counted' = Counted /\ Begun' = Begun
    BY <1>9 DEF vars, Still, Counted, Begun
  <2>3. Flow => Flow'
    BY <1>9 DEF vars, Flow, ReaderOk, Heads, Messages, Frames, Grants, Grantable,
      ClassicFlow, Filled, To, Back, Newest, Announced
  <2>4. Fresh => Fresh'
    BY <1>9, <2>2 DEF vars, Fresh, CardFollows, Executed
  <2> QED
    BY <1>9, <2>1, <2>2, <2>3, <2>4 DEF Ring, vars
<1> QED
  BY <1>1, <1>2, <1>3, <1>4, <1>5, <1>6, <1>7, <1>8, <1>9 DEF Next

-----------------------------------------------------------------------------
(* The order of the frames.                                                *)

(* Where the next frame goes. *)
Latest == IF firmware = "quiet" THEN chead ELSE head

Ordered ==
  /\ out <= written
  /\ Still \/ Rising(slot, maxIndex, tail, out, Latest)

(* The frames in the ring were written before. *)
LEMMA Behind ==
  ASSUME Types, Flow, NEW h \in Nat, h < maxIndex, NEW limit \in Nat,
         Filled(h, limit)
  PROVE  \A j \in 0..(To(h) - 1) :
           /\ slot[At(maxIndex, tail, j)] \in Nat
           /\ slot[At(maxIndex, tail, j)] <= first + taken + To(h) + limit
<1>1. /\ maxIndex \in Nat /\ tail \in Nat /\ tail < maxIndex
      /\ first \in Nat /\ taken \in Nat
  BY Numbers DEF Flow
<1>2. To(h) \in Nat /\ To(h) < maxIndex
  BY <1>1, DistRange DEF To
<1>3. ASSUME NEW j \in 0..(To(h) - 1)
      PROVE  /\ slot[At(maxIndex, tail, j)] \in Nat
             /\ slot[At(maxIndex, tail, j)] <= first + taken + To(h) + limit
  <2>1. slot[At(maxIndex, tail, j)] - (first + taken + j + 1) \in 0..limit
    BY DEF Filled, Window, To
  <2>2. j \in Nat /\ j < maxIndex /\ j + 1 <= To(h)
    <3> DEFINE d == To(h)
    <3>1. d \in Nat /\ d < maxIndex /\ j \in 0..(d - 1)
      BY <1>2
    <3> HIDE DEF d
    <3>2. j \in Nat /\ j < maxIndex /\ j + 1 <= d
      BY <1>1, <3>1
    <3> QED
      BY <3>2 DEF d
  <2>3. At(maxIndex, tail, j) \in 0..(maxIndex - 1)
    BY <1>1, <2>2, AtIs
  <2>4. slot[At(maxIndex, tail, j)] \in Nat
    BY <2>3, Numbers DEF Types, CardTypes
  <2> QED
    BY <1>1, <1>2, <2>1, <2>2, <2>4
<1> QED
  BY <1>3

(* A later frame is written at the end of the others. *)
LEMMA RisesOn ==
  ASSUME Types, Flow, NEW h \in Nat, h < maxIndex, NEW limit \in Nat,
         Filled(h, limit), Rising(slot, maxIndex, tail, out, h),
         NextSlot(maxIndex, h) # tail,
         NEW v \in Nat, v > out, v > first + taken + To(h) + limit,
         slot' = [i \in Slots |-> IF i = h THEN v ELSE slot[i]]
  PROVE  Rising(slot', maxIndex, tail, out, NextSlot(maxIndex, h))
<1>1. /\ maxIndex \in Nat /\ tail \in Nat /\ tail < maxIndex
      /\ first \in Nat /\ taken \in Nat
  BY Numbers DEF Flow
<1>2. To(h) \in Nat
  BY <1>1, DistRange DEF To
<1>3. SameBut(slot, slot', maxIndex, h) /\ slot'[h] = v
  BY <1>1, Numbers DEF SameBut
<1>4. \A j \in 0..(Dist(maxIndex, tail, h) - 1) :
        slot'[h] > slot[At(maxIndex, tail, j)]
  <2>1. \A j \in 0..(To(h) - 1) :
          /\ slot[At(maxIndex, tail, j)] \in Nat
          /\ slot[At(maxIndex, tail, j)] <= first + taken + To(h) + limit
    BY Behind
  <2> QED
    BY <1>1, <1>2, <1>3, <2>1 DEF To
<1> QED
  BY <1>1, <1>3, <1>4, RisingGrow

(* The frame that is read is the first of them. *)
LEMMA OrderedAdvance ==
  ASSUME Types, Flow, Ordered, ~Still, Advance
  PROVE  out' > out /\ Ordered'
<1>1. /\ maxIndex \in Nat /\ tail \in Nat /\ tail < maxIndex /\ tail # head
      /\ head \in Nat /\ head < maxIndex /\ chead \in Nat
      /\ first \in Nat /\ taken \in Nat /\ dropped \in Nat /\ refused \in Nat
      /\ drops \in Nat /\ written \in Nat
  BY Numbers DEF Flow, Advance
<1>2. Latest \in Nat /\ Latest < maxIndex /\ Latest # tail
      /\ slot[tail] <= written
  <2>1. At(maxIndex, tail, 0) = tail
    BY <1>1 DEF At
  <2>2. CASE firmware = "quiet"
    <3>1. /\ To(head) \in Nat /\ To(Newest) \in Nat /\ To(told[1]) \in Nat
          /\ To(chead) \in Nat
          /\ To(head) = 0 <=> tail = head
          /\ To(chead) = 0 <=> tail = chead
      BY <2>2, Distances
    <3>2. chead < maxIndex /\ chead # tail
      BY <1>1, <2>2, <3>1 DEF Flow, Heads
    <3>3. Filled(chead, drops) /\ written = first + taken + To(chead) + drops
      BY <2>2 DEF Flow, Frames
    <3>4. 0 \in 0..(To(chead) - 1)
      BY <3>1, <3>2
    <3>5. slot[tail] <= written
      BY <1>1, <2>1, <3>2, <3>3, <3>4, Behind
    <3> QED
      BY <1>1, <2>2, <3>2, <3>5 DEF Latest
  <2>3. CASE firmware # "quiet"
    <3>1. To(head) \in Nat /\ (To(head) = 0 <=> tail = head) /\ ClassicFlow
      BY <2>3, Distances DEF Flow, Types, CardTypes
    <3>2. Filled(head, dropped + refused) /\ dropped + refused \in Nat
          /\ first + taken + To(head) + (dropped + refused) <= written
      BY <1>1, <3>1 DEF ClassicFlow
    <3>3. 0 \in 0..(To(head) - 1)
      BY <1>1, <3>1
    <3>4. slot[tail] <= first + taken + To(head) + (dropped + refused)
      BY <1>1, <2>1, <3>2, <3>3, Behind
    <3>5. slot[tail] \in Nat
      BY DEF Types, RingTypes, CardTypes
    <3> QED
      BY <1>1, <2>3, <3>1, <3>2, <3>4, <3>5 DEF Latest
  <2> QED
    BY <2>2, <2>3
<1>3. slot[tail] > out /\ Rising(slot, maxIndex, NextSlot(maxIndex, tail), slot[tail],
                                 Latest)
  BY <1>1, <1>2, RisingShift DEF Ordered
<1>4. tail' = NextSlot(maxIndex, tail)
  BY <1>1, NextIs DEF Advance
<1>5. out' = slot[tail] /\ UNCHANGED <<slot, maxIndex, written, Latest>>
  BY DEF Advance, Latest
<1>6. Rising(slot, maxIndex, tail, out, Latest)'
  BY <1>3, <1>4, <1>5
<1> QED
  BY <1>2, <1>3, <1>5, <1>6 DEF Ordered

(* A frame is written where it goes. *)
LEMMA OrderedQuietFrame ==
  ASSUME Types, Notified, Flow, Ordered, ~Still, QuietFrame
  PROVE  Ordered'
<1>1. /\ enabled /\ written' = written + 1
      /\ UNCHANGED <<firmware, maxIndex, tail, out, head>>
  BY DEF QuietFrame, world, dframes, account
<1>2. firmware = "quiet"
  BY <1>1 DEF Notified, Types, CardTypes
<1>3. /\ maxIndex \in Nat /\ tail \in Nat /\ tail < maxIndex
      /\ chead \in Nat /\ drops \in Nat /\ out \in Nat /\ written \in Nat
      /\ first \in Nat /\ taken \in Nat
  BY Numbers DEF Flow
<1>4. /\ chead < maxIndex /\ cn = maxIndex /\ Filled(chead, drops)
      /\ written = first + taken + To(chead) + drops
  BY <1>2 DEF Flow, Heads, Frames
<1>5. Rising(slot, maxIndex, tail, out, chead) /\ out <= written
  BY <1>2 DEF Ordered, Latest
<1>6. CASE Full
  <2>1. UNCHANGED <<slot, chead>>
    BY <1>6 DEF QuietFrame
  <2> QED
    BY <1>1, <1>2, <1>3, <1>5, <2>1 DEF Ordered, Latest
<1>7. CASE ~Full
  <2>1. /\ slot' = [i \in Slots |-> IF i = chead THEN written + 1 ELSE slot[i]]
        /\ chead' = NextSlot(maxIndex, chead)
    BY <1>3, <1>4, <1>7, NextIs DEF QuietFrame
  <2>2. NextSlot(maxIndex, chead) # tail
    BY <1>7, <2>1, FlowQuietFrame
  <2>3. /\ To(chead) \in Nat /\ written + 1 \in Nat /\ written + 1 > out
        /\ written + 1 > first + taken + To(chead) + drops
    BY <1>2, <1>3, <1>4, <1>5, Distances
  <2>4. Rising(slot', maxIndex, tail, out, NextSlot(maxIndex, chead))
    BY <1>3, <1>4, <1>5, <2>1, <2>2, <2>3, RisesOn
  <2> QED
    BY <1>1, <1>2, <1>3, <1>5, <2>1, <2>4 DEF Ordered, Latest
<1> QED
  BY <1>6, <1>7

(* The frame that the driver has asked for. *)
LEMMA OrderedHst ==
  ASSUME Types, Notified, Flow, Counted, Ordered, ~Still, CardExec,
         chan.cmd = "HST"
  PROVE  Ordered'
<1>1. /\ slot' = [i \in Slots |-> IF i = chan.arg THEN held ELSE slot[i]]
      /\ Increment
      /\ UNCHANGED <<firmware, maxIndex, tail, out, written>>
  BY DEF CardExec, world, account, mce
<1>2. held # 0
  BY DEF Notified
<1>3. firmware = "classic"
  BY <1>2 DEF Flow, Heads, Types, CardTypes
<1>4. ClassicFlow /\ chan.arg = head /\ held = written
  BY <1>2, <1>3 DEF Flow, ClassicFlow
<1>5. /\ maxIndex \in Nat /\ tail \in Nat /\ head \in Nat
      /\ tail < maxIndex /\ head < maxIndex
      /\ first \in Nat /\ taken \in Nat /\ dropped \in Nat /\ refused \in Nat
      /\ written \in Nat /\ out \in Nat /\ To(head) \in Nat
  BY Numbers, Distances DEF Flow
<1>6. written = first + taken + To(head) + dropped + refused + 1
      /\ Filled(head, dropped + refused) /\ dropped + refused \in Nat
  BY <1>2, <1>4, <1>5 DEF ClassicFlow
<1>7. written > out /\ written > first + taken + To(head) + (dropped + refused)
  BY <1>5, <1>6 DEF Counted
<1>8. Rising(slot, maxIndex, tail, out, head)
  BY <1>3 DEF Ordered, Latest
<1>9. slot' = [i \in Slots |-> IF i = head THEN written ELSE slot[i]]
  BY <1>1, <1>4
<1>10. (head + 1) % maxIndex = NextSlot(maxIndex, head)
  BY <1>5, NextIs
<1>11. CASE NoRoom((head + 1) % maxIndex)
  <2>1. head' = head
    BY <1>1, <1>11 DEF Increment
  <2>2. SameBut(slot, slot', maxIndex, head)
    BY <1>5, <1>9, Numbers DEF SameBut
  <2>3. Rising(slot', maxIndex, tail, out, head)
    BY <1>5, <1>8, <2>2, RisingKept
  <2> QED
    BY <1>1, <1>3, <1>5, <1>7, <2>1, <2>3 DEF Ordered, Latest
<1>12. CASE ~NoRoom((head + 1) % maxIndex)
  <2>1. head' = NextSlot(maxIndex, head) /\ NextSlot(maxIndex, head) # tail
    BY <1>1, <1>10, <1>12 DEF Increment, NoRoom
  <2>2. Rising(slot', maxIndex, tail, out, NextSlot(maxIndex, head))
    BY <1>5, <1>6, <1>7, <1>8, <1>9, <2>1, RisesOn
  <2> QED
    BY <1>1, <1>3, <1>5, <1>7, <2>1, <2>2 DEF Ordered, Latest
<1> QED
  BY <1>11, <1>12

(* The reset of a configuration. *)
LEMMA ResetStill ==
  ASSUME Types, QtAnswered, ctl.step = 1, ~upset'
  PROVE  Still' /\ out' = written /\ taken' = 0 /\ written' = written
<1>1. /\ out' = written /\ taken' = 0 /\ written' = written
      /\ head' = 0 /\ tail' = 0 /\ partial' = 0 /\ Quiet
  BY DEF QtAnswered, Reset, NewAccount, mce
<1>2. UNCHANGED <<running, msgs, held, isr, reader, enabled, told, chead, drops>>
  BY DEF QtAnswered, mce, card
<1> QED
  BY <1>1, <1>2 DEF Still, Quiet

(* Where nothing moves, nothing begins but by Go. *)
LEMMA StillStays ==
  ASSUME Types, Notified, Mode, Ring, Still, [Next]_vars, ~upset', Ring'
  PROVE  \/ Still'
         \/ /\ Go /\ tail = 0 /\ head = 0
            /\ firmware = "quiet" => chead = 0
<1>1. CASE TaskSend \/ TaskFail \/ TaskDone
  BY <1>1 DEF TaskSend, TaskFail, TaskDone, Still, mce, card, dframes
<1>2. CASE SetDatasize \/ QtConfig
  BY <1>2 DEF SetDatasize, QtConfig, Still, mce, card, dframes
<1>3. CASE QtAnswered
  <2>1. CASE ctl.step = 1
    BY <1>3, <2>1, ResetStill
  <2>2. CASE ctl.step # 1
    BY <1>3, <2>2 DEF QtAnswered, Still, mce, card
  <2> QED
    BY <2>1, <2>2
<1>4. CASE Go
  <2>1. Fresh
    BY <1>4 DEF Go, Ring, Begun
  <2>2. firmware = "quiet" => chead = 0
    <3>1. Executed = 6
      BY <1>4 DEF Go, Executed
    <3> QED
      BY <2>1, <3>1 DEF Fresh, CardFollows
  <2> QED
    BY <1>4, <2>1, <2>2 DEF Fresh, Still
<1>5. CASE Empty
  BY <1>5 DEF Empty, Forget
<1>6. CASE CardExec
  BY <1>6, StillQuiet, StillExec
<1>7. CASE UNCHANGED vars
  BY <1>7 DEF vars, Still
<1> QED
  BY <1>1, <1>2, <1>3, <1>4, <1>5, <1>6, <1>7, StillQuiet DEF Next, Isr

(* Everything else leaves the frames and their order alone. *)
Untouched ==
  UNCHANGED <<firmware, maxIndex, tail, out, slot, Latest>>

LEMMA OrderedKept ==
  ASSUME Types, Ordered, ~Still, Untouched, written' = written \/ written' = written + 1
  PROVE  Ordered'
<1>1. out \in Nat /\ written \in Nat
  BY Numbers
<1> QED
  BY <1>1 DEF Ordered, Untouched

LEMMA OrderedStill ==
  ASSUME Types, Notified, Mode, Ring, Ring', Still, Ordered, [Next]_vars, ~upset',
         ~(QtAnswered /\ ctl.step = 1), ~Empty
  PROVE  Ordered' /\ taken' = taken
<1>1. UNCHANGED <<out, taken, written>>
  <2>1. CASE TaskSend \/ TaskFail \/ TaskDone \/ SetDatasize \/ QtConfig \/ Go
    BY <2>1 DEF TaskSend, TaskFail, TaskDone, SetDatasize, QtConfig, Go, account, mce
  <2>2. CASE QtAnswered
    BY <2>2 DEF QtAnswered, mce
  <2>3. CASE CardExec
    BY <2>3 DEF CardExec, account, mce
  <2>4. CASE UNCHANGED vars
    BY <2>4 DEF vars
  <2> QED
    BY <2>1, <2>2, <2>3, <2>4, StillQuiet DEF Next, Isr
<1>2. CASE Still'
  BY <1>1, <1>2 DEF Ordered
<1>3. CASE Go /\ tail = 0 /\ head = 0 /\ (firmware = "quiet" => chead = 0)
  <2>1. UNCHANGED <<firmware, maxIndex, tail, head, chead>>
    BY <1>3 DEF Go, world, dframes, card
  <2>2. tail' = 0 /\ Latest' = 0
    BY <1>3, <2>1 DEF Latest
  <2>3. maxIndex' \in Nat /\ maxIndex' > 0
    BY <2>1, Numbers
  <2>4. Dist(maxIndex', 0, 0) = 0
    BY <2>3, DistRange
  <2>5. Rising(slot', maxIndex', 0, out', 0)
    BY <2>4 DEF Rising
  <2> QED
    BY <1>1, <2>2, <2>5 DEF Ordered
<1> QED
  BY <1>1, <1>2, <1>3, StillStays

LEMMA OrderedFlow ==
  ASSUME Types, Notified, Ring, Ring', ~Still, Ordered, [Next]_vars,
         ~upset, ~upset', ~Empty, ~FakeStop, ~(QtAnswered /\ ctl.step = 1)
  PROVE  Ordered' /\ (taken' = taken + 1 => out' > out)
<1>1. /\ Flow /\ Counted /\ ~Begun /\ ctl.pc # "go" /\ ~QtAnswered
      /\ taken \in Nat /\ ctl.step \in 1..6
  <2>1. Flow /\ Counted /\ ~Begun
    BY DEF Ring, Fresh
  <2>2. taken \in Nat /\ ctl.step \in 1..6
    BY Numbers DEF Types, ChannelTypes, Waits
  <2>3. ctl.pc # "go" /\ ~QtAnswered
    BY <2>1, <2>2 DEF Begun, QtAnswered
  <2> QED
    BY <2>1, <2>2, <2>3
<1>2. CASE TaskSend \/ TaskFail \/ TaskDone \/ QtConfig
  <2>1. Untouched /\ UNCHANGED <<written, taken>>
    BY <1>2 DEF TaskSend, TaskFail, TaskDone, QtConfig, Untouched, Latest, world,
                dframes, account, card, mce
  <2> QED
    BY <1>1, <2>1, OrderedKept
<1>3. CASE SetDatasize
  <2>1. UNCHANGED <<out, taken, written, slot, tail, head, chead, firmware>>
    BY <1>3 DEF SetDatasize, world, card, mce
  <2>2. CASE maxIndex' = maxIndex
    BY <1>1, <2>1, <2>2, OrderedKept DEF Untouched, Latest
  <2>3. CASE maxIndex' # maxIndex
    <3>1. tail = head /\ Quiet
      BY <1>3, <2>3 DEF SetDatasize
    <3>2. partial = 0
      BY <1>1, <3>1 DEF Flow, ReaderOk, Types, RingTypes
    <3> QED
      BY <3>1, <3>2 DEF Still, Quiet
  <2> QED
    BY <2>2, <2>3
<1>4. CASE Isr
  <2>1. UNCHANGED <<out, taken, written, slot, chead, firmware, maxIndex>>
    BY <1>4 DEF Isr, QtiHandler, QtiRest, NfyHandler, world, dframes, account, card,
                mce
  <2>2. CASE NfyHandler
    BY <1>1, <2>1, <2>2, OrderedKept DEF NfyHandler, Untouched, Latest, dframes
  <2>3. CASE QtiHandler \/ QtiRest
    <3>1. tail' = tail
      BY <1>1, <2>3, FlowQti, FlowQtiRest
    <3>2. firmware = "quiet"
      BY <2>3 DEF QtiHandler, QtiRest, Notified, Types, CardTypes
    <3> QED
      BY <1>1, <2>1, <3>1, <3>2, OrderedKept DEF Untouched, Latest
  <2> QED
    BY <1>4, <2>2, <2>3 DEF Isr
<1>5. CASE Consume \/ (CopyFrame /\ partial' # 1)
  BY <1>1, <1>5, ReadAdvances, OrderedAdvance
<1>6. CASE Poll \/ ReadFrame \/ (CopyFrame /\ partial' = 1)
  <2>1. Untouched /\ UNCHANGED <<written, taken>>
    BY <1>6 DEF Poll, ReadFrame, CopyFrame, Untouched, Latest, world, dframes,
                account, card, mce
  <2> QED
    BY <1>1, <2>1, OrderedKept
<1>7. CASE Halt \/ CardInform \/ ClassicFrame
  <2>1. Untouched /\ taken' = taken /\ (written' = written \/ written' = written + 1)
    BY <1>7 DEF Halt, CardInform, ClassicFrame, Untouched, Latest, world, dframes,
                account, card, mce
  <2> QED
    BY <1>1, <2>1, OrderedKept
<1>8. CASE QuietFrame
  <2>1. taken' = taken
    BY <1>8 DEF QuietFrame, account
  <2> QED
    BY <1>1, <1>8, <2>1, OrderedQuietFrame
<1>9. CASE CardExec
  <2>1. taken' = taken
    BY <1>9 DEF CardExec, account
  <2>2. CASE chan.cmd = "HST"
    BY <1>1, <1>9, <2>1, <2>2, OrderedHst
  <2>3. CASE chan.cmd # "HST"
    <3>1. UNCHANGED <<firmware, maxIndex, tail, out, slot, head, written>>
      BY <1>9, <2>3 DEF CardExec, world, account, mce
    <3>2. firmware = "quiet" => chead' = chead
      <4>1. CASE chan.cmd = "GRANT"
        BY <1>9, <4>1 DEF CardExec
      <4>2. CASE chan.cmd = "QTS" /\ firmware = "quiet"
        <5>1. ctl.pc = "wait" /\ ctl.step = 1
          BY <1>1, <4>2 DEF Types, Orders, Begun
        <5>2. Execute("DISABLE", chan.arg)
          BY <1>9, <4>2, <5>1 DEF CardExec, QtSteps
        <5> QED
          BY <5>2 DEF Execute
      <4> QED
        BY <1>9, <2>3, <4>1, <4>2 DEF CardExec
    <3> QED
      BY <1>1, <2>1, <3>1, <3>2, OrderedKept DEF Untouched, Latest
  <2> QED
    BY <2>2, <2>3
<1>10. CASE UNCHANGED vars
  <2>1. Untouched /\ UNCHANGED <<written, taken>>
    BY <1>10 DEF vars, Untouched, Latest
  <2> QED
    BY <1>1, <2>1, OrderedKept
<1> QED
  BY <1>1, <1>2, <1>3, <1>4, <1>5, <1>6, <1>7, <1>8, <1>9, <1>10 DEF Next, Reader, Go

LEMMA OrderedStep ==
  ASSUME RingInv, RingInv', ~upset => Ordered, [Next]_vars, ~upset'
  PROVE  Ordered' /\ (taken' = taken + 1 => out' > out)
<1>1. /\ Types /\ Notified /\ Mode /\ Ring' /\ upset \in BOOLEAN
      /\ out \in Nat /\ taken \in Nat /\ written \in Nat
      /\ tail \in Nat /\ head \in Nat /\ maxIndex \in Nat /\ maxIndex > 0
  BY Numbers DEF RingInv, Types, RingTypes
<1>2. CASE QtAnswered /\ ctl.step = 1
  BY <1>1, <1>2, ResetStill DEF Ordered
<1>3. CASE ~(QtAnswered /\ ctl.step = 1)
  <2>1. ~Empty /\ ~FakeStop
    BY DEF Empty, FakeStop, Forget
  <2>2. ~upset
    <3>1. CASE TaskSend \/ TaskFail \/ TaskDone \/ SetDatasize \/ QtConfig \/ Go
      BY <1>1, <3>1 DEF TaskSend, TaskFail, TaskDone, SetDatasize, QtConfig, Go, account
    <3>2. CASE QtAnswered
      BY <1>1, <1>3, <3>2 DEF QtAnswered
    <3>3. CASE Isr \/ Reader
      BY <1>1, <3>3 DEF Isr, QtiHandler, QtiRest, NfyHandler, Reader, Poll,
                        ReadFrame, Consume, CopyFrame, account
    <3>4. CASE Halt \/ QuietFrame \/ CardInform \/ ClassicFrame \/ CardExec
      BY <3>4 DEF Halt, QuietFrame, CardInform, ClassicFrame, CardExec, account
    <3>5. CASE UNCHANGED vars
      BY <3>5 DEF vars
    <3> QED
      BY <2>1, <3>1, <3>2, <3>3, <3>4, <3>5 DEF Next
  <2>3. Ring /\ Ordered
    BY <2>2 DEF RingInv
  <2>4. CASE Still
    BY <1>1, <1>3, <2>1, <2>3, <2>4, OrderedStill
  <2>5. CASE ~Still
    BY <1>1, <1>3, <2>1, <2>2, <2>3, <2>5, OrderedFlow
  <2> QED
    BY <2>4, <2>5
<1> QED
  BY <1>2, <1>3

(* Only a frame that is read counts as taken, and nothing else counts then. *)
LEMMA TakenOnly ==
  ASSUME Types, [Next]_vars, taken' = taken + 1
  PROVE  ~upset /\ ~upset' /\ UNCHANGED <<first, dropped, refused>>
<1>1. taken \in Nat
  BY Numbers
<1>2. ~(TaskSend \/ TaskFail \/ TaskDone \/ SetDatasize \/ QtConfig \/ Go)
  BY <1>1 DEF TaskSend, TaskFail, TaskDone, SetDatasize, QtConfig, Go, account
<1>3. ~(QtAnswered \/ Empty \/ FakeStop)
  BY <1>1 DEF QtAnswered, NewAccount, Empty, FakeStop, Forget
<1>4. ~(Isr \/ Halt \/ QuietFrame \/ CardInform \/ ClassicFrame \/ CardExec)
  BY <1>1 DEF Isr, QtiHandler, QtiRest, NfyHandler, Halt, QuietFrame, CardInform,
              ClassicFrame, CardExec, account
<1>5. ~(Poll \/ ReadFrame \/ UNCHANGED vars)
  BY <1>1 DEF Poll, ReadFrame, account, vars
<1>6. CASE Consume
  BY <1>1, <1>6 DEF Consume, Take
<1>7. CASE CopyFrame
  BY <1>1, <1>7 DEF CopyFrame, Take
<1> QED
  BY <1>2, <1>3, <1>4, <1>5, <1>6, <1>7 DEF Next, Reader

-----------------------------------------------------------------------------
(* The theorems.                                                           *)

LEMMA InvHolds == Spec => []RingInv
<1>1. Init => RingInv
  BY TypesInit, NotifiedInit, RingInit DEF RingInv
<1>2. RingInv /\ [Next]_vars => RingInv'
  BY TypesStep, NotifiedStep, ModeStep, RingStep DEF RingInv
<1> QED
  BY <1>1, <1>2, PTL DEF Spec

(***************************************************************************)
(* Types, for any sizes and bounds: the ring's tail and the card's are     *)
(* slots of the buffer, whatever is configured when.                       *)
(***************************************************************************)
THEOREM TypesHold == Spec => []TypeOK
<1>1. RingInv => TypeOK
  BY DEF RingInv, Types, RingTypes, ChannelTypes, CardTypes, TypeOK
<1> QED
  BY <1>1, InvHolds, PTL

(***************************************************************************)
(* A frame that is read is later than all those read before it, and those  *)
(* left out were counted by then, however the ring has overflowed, for any *)
(* sizes; this holds again after every configuration that begins on a      *)
(* quiet card, whatever firmware the card has and whatever was before.     *)
(***************************************************************************)
THEOREM FramesStayAccounted == Spec => FramesAccounted
<1> DEFINE OrderInv == RingInv /\ (~upset => Ordered)
           Accounted == taken' = taken + 1 =>
                          /\ out' > out
                          /\ out' - first - taken' \in 0..(dropped + refused)
<1>1. Init => (~upset => Ordered)
  <2>1. SUFFICES ASSUME Init PROVE Ordered
    OBVIOUS
  <2>2. written \in Nat /\ out = written
    BY <2>1, RingAssumption DEF Init
  <2>3. Still
    BY <2>1 DEF Init, Still, NotTesting, Unread
  <2> QED
    BY <2>2, <2>3 DEF Ordered
<1>2. OrderInv /\ RingInv' /\ [Next]_vars => OrderInv' /\ [Accounted]_vars
  <2>1. SUFFICES ASSUME OrderInv, RingInv', [Next]_vars
                 PROVE  OrderInv' /\ Accounted
    OBVIOUS
  <2>2. (~upset' => Ordered') /\ (~upset' /\ taken' = taken + 1 => out' > out)
    BY <2>1, OrderedStep
  <2>3. ASSUME taken' = taken + 1
        PROVE  /\ ~upset /\ ~upset'
               /\ UNCHANGED <<first, dropped, refused>>
    BY <2>1, <2>3, TakenOnly DEF RingInv
  <2>4. ASSUME taken' = taken + 1
        PROVE  out' - first - taken' \in 0..(dropped + refused)
    <3>1. Counted' /\ Types'
      BY <2>1, <2>3, <2>4 DEF RingInv, Ring
    <3>2. out' \in Nat /\ first' \in Nat /\ taken' \in Nat
      BY <3>1 DEF Types, RingTypes
    <3>3. out' - (first + taken') \in 0..(dropped + refused) /\ first \in Nat
      BY <2>3, <2>4, <3>1, <3>2 DEF Counted
    <3>4. out' - first - taken' = out' - (first + taken')
      BY <3>2, <3>3
    <3> QED
      BY <3>3, <3>4
  <2> QED
    BY <2>1, <2>2, <2>3, <2>4
<1> HIDE DEF OrderInv, Accounted
<1>3. Init /\ RingInv => OrderInv
  BY <1>1 DEF OrderInv
<1>4. Spec => [][Accounted]_vars
  BY <1>2, <1>3, InvHolds, PTL DEF Spec
<1> QED
  BY <1>4 DEF Accounted, FramesAccounted
=============================================================================
