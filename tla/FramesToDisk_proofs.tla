------------------------- MODULE FramesToDisk_proofs -------------------------
(***************************************************************************)
(* The frames of a GO, from the MCE through the buffer to the stores, and  *)
(* then their samples through the channels of a store to its files.        *)
(*                                                                         *)
(* First, the safety properties of Acquisition, for any counts, limits,    *)
(* stores and number of acquisitions.  Run says that the frames taken,     *)
(* those waiting and those to come are of this GO and in order, Between    *)
(* that nothing is left when a GO begins, Complete that none is missing    *)
(* while none is lost.  The stores need only a count of those that failed. *)
(***************************************************************************)
EXTENDS Acquisition, FrameDirfile, SequenceTheorems, FiniteSetTheorems,
        WellFoundedInduction, TLAPS

Frame    == [go : Nat, k : Nat, last : BOOLEAN, stop : BOOLEAN, bad : BOOLEAN]
Received == [go : Nat, k : Nat]

(* The types, in two parts. *)
SeqTypes == ring \in Seq(Frame) /\ got \in Seq(Received)
NumTypes ==
  /\ mce \in [go : Nat, sent : Nat, of : Nat, stop : BOOLEAN]
  /\ gos \in Nat /\ n \in Nat /\ count \in Nat /\ last \in Int /\ retDatS \in Nat \ {0}
StoreTypes == missed \in [Store -> Nat] /\ failed \subseteq Store /\ stopped \subseteq Store

Types == SeqTypes /\ NumTypes /\ StoreTypes

(* Places of a GO that is under way. *)
Going == {"launch", "loop", "frame", "wait"}

(* The counts of frames at the places of a GO. *)
Counts ==
  /\ last > 0 => last = retDatS
  /\ pc = "retdat" => n > 0
  /\ pc \in {"start"} \cup Going => n = retDatS
  /\ pc \in Going => count = Len(got)
  /\ pc = "frame" => ring # <<>> /\ done = "no"

(* No frame is waiting and none is to come. *)
Quiet == ring = <<>> /\ mce.go = 0

Between ==
  /\ pc = "none" => ~clean
  /\ clean /\ pc \in {"ready", "retdat", "start"} => Quiet

(* Frames taken, waiting in the buffer, and to come. *)
Taken ==
  /\ \A i \in 1..Len(got) : got[i].go = gos /\ i <= got[i].k /\ got[i].k <= n
  /\ \A i, j \in 1..Len(got) : i < j => got[i].k < got[j].k

Waiting ==
  /\ \A i \in 1..Len(ring) :
       /\ ring[i].go = gos /\ Len(got) + i <= ring[i].k /\ ring[i].k <= n
       /\ ring[i].stop \/ (ring[i].last /\ ~ring[i].bad) => mce.go = 0 /\ i = Len(ring)
  /\ \A i, j \in 1..Len(ring) : i < j => ring[i].k < ring[j].k
  /\ \A i \in 1..Len(got), j \in 1..Len(ring) : got[i].k < ring[j].k

Coming ==
  mce.go # 0 =>
    /\ mce.go = gos /\ mce.of = n /\ mce.sent < n
    /\ Len(got) + Len(ring) <= mce.sent
    /\ \A i \in 1..Len(got) : got[i].k <= mce.sent
    /\ \A i \in 1..Len(ring) : ring[i].k <= mce.sent

(* The last frame of a GO comes last. *)
Ended == done \in {"last", "stop", "count"} => Quiet

Frames == Taken /\ Waiting /\ Coming

Run == clean /\ pc \in Going => Frames /\ Ended

(* Nothing is missing among the frames taken and those waiting. *)
AllThere ==
  /\ \A i \in 1..Len(got) : got[i].k = i
  /\ \A i \in 1..Len(ring) : ring[i].k = Len(got) + i
  /\ Len(got) + Len(ring) = IF mce.go = 0 THEN n ELSE mce.sent

Complete == clean /\ whole /\ pc \in Going => AllThere

(* The ends of the thread. *)
Exits == pc \in {"launch", "wait"} => done \in {"no", "count", "read", "eof"}

(* A store misses at most one frame for each store before it that failed. *)
Missing ==
  stopping => /\ stopped = failed
              /\ \A s \in Store \ failed : missed[s] <= Cardinality({t \in failed : t < s})

LEMMA TypesInit == Init => Types
BY AcqAssumption DEF Init, Types, SeqTypes, NumTypes, StoreTypes, Idle

LEMMA Steps ==
  ASSUME [Next]_vars
  PROVE  \/ Create \/ Go \/ WriteRetDat \/ Start \/ Poll \/ CopyFrame \/ Finish
         \/ Launch \/ ThreadNoMemory \/ ThreadRead \/ ThreadReadFails \/ ThreadEnds
         \/ Waits \/ Send \/ Stop \/ FakeStopframe \/ UNCHANGED vars
BY DEF Next, Loop, Thread

(* The frame at hand is taken from the buffer. *)
Takes ==
  /\ ring # <<>> /\ ring' = Tail(ring)
  /\ got' = Append(got, [go |-> Head(ring).go, k |-> Head(ring).k])

LEMMA TakesIs ==
  ASSUME ring \in Seq(Frame), got \in Seq(Received), Takes
  PROVE  /\ ring' \in Seq(Frame) /\ got' \in Seq(Received)
         /\ Len(ring) \in Nat \ {0} /\ Len(ring') = Len(ring) - 1
         /\ Head(ring) = ring[1] /\ ring[1] \in Frame
         /\ \A i \in 1..Len(ring') : ring'[i] = ring[i + 1] /\ i + 1 \in 1..Len(ring)
         /\ Len(got) \in Nat /\ Len(got') = Len(got) + 1
         /\ \A i \in 1..Len(got) : got'[i] = got[i]
         /\ got'[Len(got')].go = ring[1].go /\ got'[Len(got')].k = ring[1].k
<1> DEFINE r == [go |-> Head(ring).go, k |-> Head(ring).k]
<1>1. /\ ring' \in Seq(Frame)
      /\ Len(ring) \in Nat \ {0} /\ Len(ring') = Len(ring) - 1
      /\ Head(ring) = ring[1] /\ Head(ring) \in Frame
      /\ \A i \in 1..Len(ring') : ring'[i] = ring[i + 1]
  BY HeadTailProperties DEF Takes
<1>2. \A i \in 1..Len(ring') : i + 1 \in 1..Len(ring)
  BY <1>1
<1>3. r \in Received
  BY <1>1 DEF Frame, Received
<1>4. /\ got' \in Seq(Received)
      /\ Len(got) \in Nat /\ Len(got') = Len(got) + 1
      /\ \A i \in 1..Len(got) : got'[i] = got[i]
      /\ got'[Len(got) + 1] = r
  BY <1>3, AppendProperties DEF Takes
<1> QED
  BY <1>1, <1>2, <1>4

(* A frame arrives in the buffer. *)
LEMMA ArrivesIs ==
  ASSUME ring \in Seq(Frame), NEW f \in Frame, ring' = Append(ring, f)
  PROVE  /\ ring' \in Seq(Frame) /\ Len(ring) \in Nat /\ Len(ring') = Len(ring) + 1
         /\ \A i \in 1..Len(ring) : ring'[i] = ring[i]
         /\ ring'[Len(ring')] = f
BY AppendProperties

LEMMA SeqTypesNext ==
  ASSUME Types, Counts, [Next]_vars
  PROVE  SeqTypes'
<1>0. ring \in Seq(Frame) /\ got \in Seq(Received)
  BY DEF Types, SeqTypes
<1>1. CASE Create \/ Start
  <2>1. ring' = <<>> \/ ring' = ring
    BY <1>1 DEF Create, Start
  <2>2. got' = <<>> \/ got' = got
    BY <1>1 DEF Create, Start
  <2>3. ring' \in Seq(Frame)
    BY <1>0, <2>1, EmptySeq
  <2>4. got' \in Seq(Received)
    BY <1>0, <2>2, EmptySeq
  <2> QED
    BY <2>3, <2>4 DEF SeqTypes
<1>2. CASE CopyFrame \/ ThreadRead
  <2>1. Takes
    BY <1>2 DEF CopyFrame, ThreadRead, Takes, Consumed, Counts
  <2> QED
    BY <1>0, <2>1, TakesIs DEF SeqTypes
<1>3. CASE Send
  <2>1. got' = got
    BY <1>3 DEF Send
  <2>2. mce.go \in Nat /\ mce.sent + 1 \in Nat /\ mce.stop \in BOOLEAN
    BY DEF Types, NumTypes
  <2>3. PICK l \in BOOLEAN, bad \in BOOLEAN, lost \in BOOLEAN :
          ring' = IF lost THEN ring
                  ELSE Append(ring, [go |-> mce.go, k |-> mce.sent + 1, last |-> l,
                                     stop |-> mce.stop, bad |-> bad])
    BY <1>3 DEF Send
  <2>4. [go |-> mce.go, k |-> mce.sent + 1, last |-> l, stop |-> mce.stop,
         bad |-> bad] \in Frame
    BY <2>2 DEF Frame
  <2>5. ring' \in Seq(Frame)
    BY <1>0, <2>3, <2>4, ArrivesIs
  <2> QED
    BY <1>0, <2>1, <2>5 DEF SeqTypes
<1>4. CASE \/ Go \/ WriteRetDat \/ Poll \/ Finish
           \/ Launch \/ ThreadNoMemory \/ ThreadReadFails \/ ThreadEnds
           \/ Waits \/ Stop \/ FakeStopframe \/ UNCHANGED vars
  <2>1. UNCHANGED <<ring, got>>
    BY <1>4 DEF Go, WriteRetDat, Poll, Finish, Launch, ThreadNoMemory, ThreadReadFails,
      ThreadEnds, Waits, Stop, FakeStopframe, vars
  <2> QED
    BY <1>0, <2>1 DEF SeqTypes
<1> QED
  BY <1>1, <1>2, <1>3, <1>4, Steps

LEMMA NumTypesNext ==
  ASSUME Types, Counts, [Next]_vars
  PROVE  NumTypes'
<1>0. NumTypes
  BY DEF Types
<1>1. CASE Create
  BY <1>0, <1>1 DEF Create, NumTypes
<1>2. CASE Go
  <2>1. UNCHANGED <<mce, gos, count, last, retDatS>>
    BY <1>2 DEF Go, outer, hist
  <2>2. n' \in Asks \cup {retDatS, n}
    BY <1>2 DEF Go
  <2>3. n' \in Nat
    BY <1>0, <2>2, AcqAssumption DEF NumTypes
  <2> QED
    BY <1>0, <2>1, <2>3 DEF NumTypes
<1>3. CASE WriteRetDat
  <2>1. /\ UNCHANGED <<mce, gos, n, count>> /\ pc = "retdat"
        /\ retDatS' \in {n, retDatS} /\ last' \in {n, -1}
    BY <1>3 DEF WriteRetDat, Forgotten, hist
  <2> QED
    BY <1>0, <2>1 DEF NumTypes, Counts
<1>4. CASE Start
  <2>1. /\ UNCHANGED <<n, last, retDatS>> /\ gos' = gos + 1
        /\ count' \in {0, count}
        /\ mce' = mce \/ mce' = [go |-> gos + 1, sent |-> 0, of |-> retDatS, stop |-> FALSE]
    BY <1>4 DEF Start, Running
  <2>2. mce' \in [go : Nat, sent : Nat, of : Nat, stop : BOOLEAN]
    <3>1. gos + 1 \in Nat /\ retDatS \in Nat
      BY <1>0 DEF NumTypes
    <3>2. [go |-> gos + 1, sent |-> 0, of |-> retDatS, stop |-> FALSE]
            \in [go : Nat, sent : Nat, of : Nat, stop : BOOLEAN]
      BY <3>1
    <3> QED
      BY <1>0, <2>1, <3>2 DEF NumTypes
  <2>3. gos' \in Nat /\ count' \in Nat
    BY <1>0, <2>1 DEF NumTypes
  <2> QED
    BY <1>0, <2>1, <2>2, <2>3 DEF NumTypes
<1>5. CASE CopyFrame \/ ThreadRead
  <2>1. UNCHANGED <<n, last, retDatS, mce, gos>> /\ count' = count + 1
    BY <1>5 DEF CopyFrame, ThreadRead, outer, hist
  <2> QED
    BY <1>0, <2>1 DEF NumTypes
<1>6. CASE Send \/ Stop
  <2>1. /\ UNCHANGED <<n, last, retDatS, gos, count>>
        /\ \/ mce' = Idle \/ mce' = [mce EXCEPT !.sent = @ + 1]
           \/ mce' = [mce EXCEPT !.stop = TRUE]
    BY <1>6 DEF Send, Stop, acq, hist
  <2>2. mce' \in [go : Nat, sent : Nat, of : Nat, stop : BOOLEAN]
    <3>1. mce \in [go : Nat, sent : Nat, of : Nat, stop : BOOLEAN]
      BY <1>0 DEF NumTypes
    <3>2. CASE mce' = Idle
      BY <3>2 DEF Idle
    <3>3. CASE mce' = [mce EXCEPT !.sent = @ + 1]
      BY <3>1, <3>3
    <3>4. CASE mce' = [mce EXCEPT !.stop = TRUE]
      BY <3>1, <3>4
    <3> QED
      BY <2>1, <3>2, <3>3, <3>4
  <2> QED
    BY <1>0, <2>1, <2>2 DEF NumTypes
<1>7. CASE \/ Poll \/ Finish \/ Launch \/ ThreadNoMemory \/ ThreadReadFails \/ ThreadEnds
           \/ Waits \/ FakeStopframe \/ UNCHANGED vars
  <2>1. UNCHANGED <<mce, gos, n, count, last, retDatS>>
    BY <1>7 DEF Poll, Finish, Launch, ThreadNoMemory, ThreadReadFails,
      ThreadEnds, Waits, FakeStopframe, vars, acq, outer, hist
  <2> QED
    BY <1>0, <2>1 DEF NumTypes
<1> QED
  BY <1>1, <1>2, <1>3, <1>4, <1>5, <1>6, <1>7, Steps

(* A frame is handed to the stores, or not. *)
LEMMA StoresNext ==
  ASSUME [Next]_vars
  PROVE  \/ /\ Create /\ stopped' = {} /\ failed' = {}
            /\ missed' = [s \in Store |-> 0] /\ UNCHANGED stopping
         \/ UNCHANGED <<stopped, failed, missed, stopping>>
         \/ UNCHANGED stopping /\ \E f : PostFrame(f)
<1>1. CASE Create
  BY <1>1 DEF Create, mode
<1>2. CASE CopyFrame \/ ThreadRead
  BY <1>2 DEF CopyFrame, ThreadRead, mode
<1>3. CASE \/ Go \/ WriteRetDat \/ Start \/ Poll \/ Finish
           \/ Launch \/ ThreadNoMemory \/ ThreadReadFails \/ ThreadEnds
           \/ Waits \/ Send \/ Stop \/ FakeStopframe \/ UNCHANGED vars
  BY <1>3 DEF Go, WriteRetDat, Start, Poll, Finish, Launch, ThreadNoMemory,
    ThreadReadFails, ThreadEnds, Waits, Send, Stop, FakeStopframe, vars, mode, stores
<1> QED
  BY <1>1, <1>2, <1>3, Steps

LEMMA StoreTypesNext ==
  ASSUME Types, [Next]_vars
  PROVE  StoreTypes'
<1>0. StoreTypes
  BY DEF Types
<1>1. ASSUME NEW f, PostFrame(f) PROVE StoreTypes'
  BY <1>0, <1>1 DEF PostFrame, StoreTypes
<1> QED
  BY <1>0, <1>1, StoresNext DEF StoreTypes

LEMMA TypesNext ==
  ASSUME Types, Counts, [Next]_vars
  PROVE  Types'
BY SeqTypesNext, NumTypesNext, StoreTypesNext DEF Types

-----------------------------------------------------------------------------
(* Counts. *)
LEMMA CountsNext ==
  ASSUME Types, Counts, [Next]_vars
  PROVE  Counts'
<1>0. /\ Counts /\ SeqTypes /\ NumTypes
  BY DEF Types
<1>1. CASE Create
  BY <1>1 DEF Create, Counts, Going
<1>2. CASE Go
  <2>1. UNCHANGED <<last, retDatS, ring, done>>
    BY <1>2 DEF Go, outer, stores
  <2>2. \/ pc' = "ready"
        \/ n' = last /\ last > 0 /\ pc' = "start"
        \/ n' = retDatS /\ pc' = "retdat"
        \/ n' = last /\ n' = retDatS /\ pc' = "start"
        \/ n' \in Asks /\ pc' = "retdat"
    <3>1. \A a \in Asks : a \in Nat /\ a > 0
      BY AcqAssumption
    <3> QED
      BY <1>2, <3>1 DEF Go, Fails, DspOnly
  <2>3. \A a \in Asks : a > 0
    BY AcqAssumption
  <2> QED
    BY <1>0, <2>1, <2>2, <2>3 DEF Counts, NumTypes, Going
<1>3. CASE WriteRetDat
  <2>1. /\ UNCHANGED <<n, count, got, ring, done>>
        /\ \/ retDatS' = n /\ last' = n /\ pc' = "start"
           \/ last' = -1 /\ pc' = "ready"
    BY <1>3 DEF WriteRetDat, Forgotten, Fails
  <2> QED
    BY <1>0, <2>1 DEF Counts, Going
<1>4. CASE Start
  <2>1. /\ UNCHANGED <<n, last, retDatS, ring>> /\ pc = "start"
        /\ \/ pc' \in {"launch", "loop"} /\ count' = 0 /\ got' = <<>>
           \/ pc' = "ready"
    BY <1>4 DEF Start, Fails
  <2>2. got' = <<>> => Len(got') = 0
    BY EmptySeq
  <2> QED
    BY <1>0, <2>1, <2>2 DEF Counts, Going
<1>5. CASE CopyFrame \/ ThreadRead
  <2>1. /\ Takes /\ UNCHANGED <<n, last, retDatS>> /\ count' = count + 1
        /\ pc \in Going /\ pc' \in {"loop", "wait"}
    BY <1>0, <1>5 DEF CopyFrame, ThreadRead, Takes, Consumed, Counts, outer, Going
  <2>2. Len(got') = Len(got) + 1
    BY <1>0, <2>1, TakesIs DEF SeqTypes
  <2> QED
    BY <1>0, <2>1, <2>2 DEF Counts, Going
<1>6. CASE Send
  <2>1. UNCHANGED <<pc, n, last, retDatS, count, got, done>>
    BY <1>6 DEF Send, acq
  <2>2. ring' = ring \/ \E f : ring' = Append(ring, f)
    BY <1>6 DEF Send
  <2>3. ring # <<>> => ring' # <<>>
    BY <1>0, <2>2 DEF SeqTypes
  <2> QED
    BY <1>0, <2>1, <2>3 DEF Counts
<1>7. CASE Poll
  <2>1. /\ UNCHANGED <<n, last, retDatS, count, got, ring>> /\ pc = "loop" /\ done = "no"
        /\ \/ pc' = pc
           \/ pc' = "frame" /\ ring # <<>> /\ done' = "no"
    BY <1>7 DEF Poll, acq
  <2> QED
    BY <1>0, <2>1 DEF Counts, Going
<1>8. CASE \/ Finish \/ Launch \/ ThreadNoMemory \/ ThreadReadFails \/ ThreadEnds
           \/ Waits \/ Stop \/ FakeStopframe \/ UNCHANGED vars
  <2>1. /\ UNCHANGED <<n, last, retDatS, count, got, ring>>
        /\ \/ UNCHANGED <<pc, done>>
           \/ pc # "frame" /\ pc' = pc
           \/ pc' = "ready"
           \/ pc = "launch" /\ pc' = "wait"
    BY <1>8 DEF Finish, Launch, ThreadNoMemory, ThreadReadFails, ThreadEnds, Waits, Stop,
      FakeStopframe, vars, acq, outer, Fails
  <2> QED
    BY <1>0, <2>1 DEF Counts, Going
<1> QED
  BY <1>1, <1>2, <1>3, <1>4, <1>5, <1>6, <1>7, <1>8, Steps

-----------------------------------------------------------------------------
(* The frames of an acquisition. *)
(* A frame that is taken is the next one, and the last of the buffer if it *)
(* is the last of its GO, the one before a stop, or the n-th.              *)
LEMMA FrameTaken ==
  ASSUME SeqTypes, NumTypes, Frames, Takes, UNCHANGED <<n, gos, mce>>
  PROVE  /\ Frames'
         /\ \/ ring[1].stop \/ (ring[1].last /\ ~ring[1].bad)
            \/ Len(got') >= n
            => Quiet'
<1>1. /\ Len(ring) \in Nat \ {0} /\ Len(ring') = Len(ring) - 1
      /\ Head(ring) = ring[1] /\ ring[1] \in Frame /\ ring' \in Seq(Frame)
      /\ \A i \in 1..Len(ring') : ring'[i] = ring[i + 1] /\ i + 1 \in 1..Len(ring)
      /\ Len(got) \in Nat /\ Len(got') = Len(got) + 1
      /\ \A i \in 1..Len(got) : got'[i] = got[i]
      /\ got'[Len(got')].go = ring[1].go /\ got'[Len(got')].k = ring[1].k
  BY TakesIs DEF SeqTypes
<1>2. 1 \in 1..Len(ring)
  BY <1>1
<1>3. /\ ring[1].go = gos /\ Len(got) + 1 <= ring[1].k /\ ring[1].k <= n
      /\ \A i \in 1..Len(got) : got[i].k < ring[1].k
      /\ \A i \in 2..Len(ring) : ring[1].k < ring[i].k
  BY <1>1, <1>2 DEF Frames, Waiting
<1>4. \A i \in 1..Len(got') : i \in 1..Len(got) \/ i = Len(got')
  BY <1>1
<1>5. Taken'
  <2>1. \A i \in 1..Len(got') : got'[i].go = gos /\ i <= got'[i].k /\ got'[i].k <= n
    BY <1>1, <1>3, <1>4 DEF Frames, Taken
  <2>2. ASSUME NEW i \in 1..Len(got'), NEW j \in 1..Len(got'), i < j
        PROVE  got'[i].k < got'[j].k
    <3>1. i \in 1..Len(got) /\ got'[i] = got[i]
      BY <1>1, <2>2
    <3>2. CASE j \in 1..Len(got)
      BY <1>1, <2>2, <3>1, <3>2 DEF Frames, Taken
    <3>3. CASE j = Len(got')
      BY <1>1, <1>3, <3>1, <3>3
    <3> QED
      BY <1>4, <3>2, <3>3
  <2> QED
    BY <2>1, <2>2 DEF Taken
<1>6. Waiting'
  <2>1. ASSUME NEW i \in 1..Len(ring')
        PROVE  /\ ring'[i].go = gos /\ Len(got') + i <= ring'[i].k /\ ring'[i].k <= n
               /\ ring'[i].stop \/ (ring'[i].last /\ ~ring'[i].bad)
                    => mce.go = 0 /\ i = Len(ring')
    <3>1. ring'[i] = ring[i + 1] /\ i + 1 \in 1..Len(ring) /\ i \in Nat
      BY <1>1
    <3>2. /\ ring[i + 1].go = gos /\ Len(got) + (i + 1) <= ring[i + 1].k
          /\ ring[i + 1].k <= n
          /\ ring[i + 1].stop \/ (ring[i + 1].last /\ ~ring[i + 1].bad)
               => mce.go = 0 /\ i + 1 = Len(ring)
      BY <3>1 DEF Frames, Waiting
    <3> QED
      BY <1>1, <3>1, <3>2
  <2>2. ASSUME NEW i \in 1..Len(ring'), NEW j \in 1..Len(ring'), i < j
        PROVE  ring'[i].k < ring'[j].k
    <3>1. /\ ring'[i] = ring[i + 1] /\ i + 1 \in 1..Len(ring)
          /\ ring'[j] = ring[j + 1] /\ j + 1 \in 1..Len(ring)
      BY <1>1
    <3> QED
      BY <2>2, <3>1 DEF Frames, Waiting
  <2>3. ASSUME NEW i \in 1..Len(got'), NEW j \in 1..Len(ring')
        PROVE  got'[i].k < ring'[j].k
    <3>1. ring'[j] = ring[j + 1] /\ j + 1 \in 2..Len(ring) /\ j + 1 \in 1..Len(ring)
      BY SMTT(40), <1>1
    <3>2. CASE i \in 1..Len(got)
      BY <1>1, <3>1, <3>2 DEF Frames, Waiting
    <3>3. CASE i = Len(got')
      BY <1>1, <1>3, <3>1, <3>3
    <3> QED
      BY <1>4, <3>2, <3>3
  <2> QED
    BY <2>1, <2>2, <2>3 DEF Waiting
<1>7. Coming'
  <2>1. ASSUME mce.go # 0
        PROVE  /\ mce.go = gos /\ mce.of = n /\ mce.sent < n
               /\ Len(got') + Len(ring') <= mce.sent
               /\ \A i \in 1..Len(got') : got'[i].k <= mce.sent
               /\ \A i \in 1..Len(ring') : ring'[i].k <= mce.sent
    <3>1. /\ mce.go = gos /\ mce.of = n /\ mce.sent < n
          /\ Len(got) + Len(ring) <= mce.sent
          /\ \A i \in 1..Len(got) : got[i].k <= mce.sent
          /\ \A i \in 1..Len(ring) : ring[i].k <= mce.sent
      BY <2>1 DEF Frames, Coming
    <3>2. Len(got') + Len(ring') = Len(got) + Len(ring)
      BY <1>1
    <3>3. \A i \in 1..Len(got') : got'[i].k <= mce.sent
      BY <1>1, <1>2, <1>4, <3>1
    <3> QED
      BY <1>1, <3>1, <3>2, <3>3
  <2> QED
    BY <2>1 DEF Coming
<1>8. ASSUME \/ ring[1].stop \/ (ring[1].last /\ ~ring[1].bad)
             \/ Len(got') >= n
      PROVE  Quiet'
  <2>1. CASE ring[1].stop \/ (ring[1].last /\ ~ring[1].bad)
    <3>1. mce.go = 0 /\ Len(ring) = 1
      BY <1>2, <2>1 DEF Frames, Waiting
    <3>2. Len(ring') = 0 /\ ring' \in Seq(Frame)
      BY <1>1, <3>1
    <3>3. ring' = <<>>
      BY <3>2, EmptySeq
    <3> QED
      BY <3>1, <3>3 DEF Quiet
  <2>2. CASE Len(got') >= n
    <3>1. ring[1].k \in Nat /\ n \in Nat /\ mce.sent \in Nat
      BY <1>1 DEF Frame, NumTypes
    <3>2. ring[1].k = n
      BY <1>1, <1>3, <2>2, <3>1
    <3>3. Len(ring) = 1
      <4>1. ASSUME Len(ring) # 1 PROVE FALSE
        <5>1. 2 \in 2..Len(ring) /\ 2 \in 1..Len(ring)
          BY <1>1, <4>1
        <5>2. ring[1].k < ring[2].k /\ ring[2].k <= n
          BY <1>3, <5>1 DEF Frames, Waiting
        <5>3. ring[2] \in Frame
          BY <5>1, ElementOfSeq DEF SeqTypes
        <5>4. ring[2].k \in Nat
          BY <5>3 DEF Frame
        <5> QED
          BY <3>1, <3>2, <5>2, <5>4
      <4> QED
        BY <4>1
    <3>4. mce.go = 0
      <4>1. ASSUME mce.go # 0 PROVE FALSE
        <5>1. mce.sent < n /\ ring[1].k <= mce.sent
          BY <1>2, <4>1 DEF Frames, Coming
        <5> QED
          BY <3>1, <3>2, <5>1
      <4> QED
        BY <4>1
    <3>5. ring' = <<>>
      BY <1>1, <3>3, EmptySeq
    <3> QED
      BY <3>4, <3>5 DEF Quiet
  <2> QED
    BY <1>8, <2>1, <2>2
<1> QED
  BY <1>5, <1>6, <1>7, <1>8 DEF Frames

(* The run goes on by a frame, that is the last if the run has been        *)
(* stopped; the frame is lost, or arrives.                                 *)
Emits ==
  /\ mce.go # 0
  /\ mce' = IF mce.sent + 1 = mce.of \/ mce.stop THEN Idle
            ELSE [mce EXCEPT !.sent = @ + 1]
Emitted(l, bad) ==
  [go |-> mce.go, k |-> mce.sent + 1, last |-> l, stop |-> mce.stop, bad |-> bad]

LEMMA EmitsIs ==
  ASSUME NumTypes, Emits
  PROVE  /\ mce.sent \in Nat /\ mce.of \in Nat /\ mce.go \in Nat
         /\ \/ /\ mce.sent + 1 = mce.of \/ mce.stop
               /\ mce'.go = 0
            \/ /\ mce.sent + 1 # mce.of /\ ~mce.stop
               /\ mce'.go = mce.go /\ mce'.of = mce.of /\ mce'.stop = mce.stop
               /\ mce'.sent = mce.sent + 1
<1>1. mce \in [go : Nat, sent : Nat, of : Nat, stop : BOOLEAN]
  BY DEF NumTypes
<1>2. CASE mce.sent + 1 = mce.of \/ mce.stop
  BY <1>1, <1>2 DEF Emits, Idle
<1>3. CASE ~(mce.sent + 1 = mce.of \/ mce.stop)
  BY <1>1, <1>3 DEF Emits
<1> QED
  BY <1>2, <1>3

LEMMA Numbers ==
  ASSUME SeqTypes
  PROVE  /\ \A i \in 1..Len(got) : got[i].k \in Nat
         /\ \A i \in 1..Len(ring) : ring[i].k \in Nat
<1>1. ASSUME NEW i \in 1..Len(got) PROVE got[i].k \in Nat
  <2>1. got[i] \in Received
    BY ElementOfSeq DEF SeqTypes
  <2> QED
    BY <2>1 DEF Received
<1>2. ASSUME NEW i \in 1..Len(ring) PROVE ring[i].k \in Nat
  <2>1. ring[i] \in Frame
    BY ElementOfSeq DEF SeqTypes
  <2> QED
    BY <2>1 DEF Frame
<1> QED
  BY <1>1, <1>2

LEMMA FrameLost ==
  ASSUME SeqTypes, NumTypes, Frames, Emits, UNCHANGED <<n, gos, got, ring>>
  PROVE  Frames'
<1>1. /\ mce.go = gos /\ mce.of = n /\ mce.sent < n
      /\ Len(got) + Len(ring) <= mce.sent
      /\ \A i \in 1..Len(got) : got[i].k <= mce.sent
      /\ \A i \in 1..Len(ring) : ring[i].k <= mce.sent
  BY DEF Emits, Frames, Coming
<1>2. \A i \in 1..Len(ring) : ~(ring[i].stop \/ (ring[i].last /\ ~ring[i].bad))
  BY DEF Emits, Frames, Waiting
<1>3. Taken' /\ Waiting'
  BY <1>2 DEF Frames, Taken, Waiting
<1>4. Coming'
  <2>1. ASSUME mce'.go # 0
        PROVE  /\ mce'.go = gos /\ mce'.of = n /\ mce'.sent < n
               /\ mce'.sent = mce.sent + 1 /\ mce.sent \in Nat /\ n \in Nat
    BY <1>1, <2>1, EmitsIs DEF NumTypes
  <2>2. Len(got) \in Nat /\ Len(ring) \in Nat
    BY DEF SeqTypes
  <2>3. /\ \A i \in 1..Len(got) : got[i].k \in Nat
        /\ \A i \in 1..Len(ring) : ring[i].k \in Nat
    BY Numbers
  <2>4. ASSUME mce'.go # 0 PROVE Len(got) + Len(ring) <= mce'.sent
    BY <1>1, <2>1, <2>2, <2>4
  <2>5. ASSUME mce'.go # 0
        PROVE  /\ \A i \in 1..Len(got) : got[i].k <= mce'.sent
               /\ \A i \in 1..Len(ring) : ring[i].k <= mce'.sent
    BY <1>1, <2>1, <2>3, <2>5
  <2> QED
    BY <2>1, <2>4, <2>5 DEF Coming
<1> QED
  BY <1>3, <1>4 DEF Frames

LEMMA FrameArrives ==
  ASSUME SeqTypes, NumTypes, Frames, Emits, UNCHANGED <<n, gos, got>>,
         NEW l \in BOOLEAN, NEW bad \in BOOLEAN,
         bad \/ l = (mce.sent + 1 = mce.of) \/ (l /\ mce.stop),
         ring' = Append(ring, Emitted(l, bad))
  PROVE  Frames'
<1> DEFINE f == Emitted(l, bad)
<1>1. /\ mce.go = gos /\ mce.of = n /\ mce.sent < n
      /\ Len(got) + Len(ring) <= mce.sent
      /\ \A i \in 1..Len(got) : got[i].k <= mce.sent
      /\ \A i \in 1..Len(ring) : ring[i].k <= mce.sent
  BY DEF Emits, Frames, Coming
<1>2. \A i \in 1..Len(ring) : ~(ring[i].stop \/ (ring[i].last /\ ~ring[i].bad))
  BY DEF Emits, Frames, Waiting
<1>3. /\ f \in Frame /\ f.go = mce.go /\ f.k = mce.sent + 1
      /\ f.stop = mce.stop /\ f.last = l /\ f.bad = bad
  BY DEF Emitted, Frame, NumTypes
<1>4. /\ Len(ring) \in Nat /\ Len(got) \in Nat /\ Len(ring') = Len(ring) + 1
      /\ \A i \in 1..Len(ring) : ring'[i] = ring[i]
      /\ ring'[Len(ring')] = f
  BY <1>3, ArrivesIs DEF SeqTypes
<1>5. \A i \in 1..Len(ring') : i \in 1..Len(ring) \/ i = Len(ring')
  BY <1>4
<1>6. mce.sent \in Nat /\ n \in Nat
  BY DEF NumTypes
<1>7. /\ \A i \in 1..Len(got) : got[i].k \in Nat
      /\ \A i \in 1..Len(ring) : ring[i].k \in Nat
  BY Numbers
<1>8. Taken'
  BY DEF Frames, Taken
<1>9. Waiting'
  <2>1. ASSUME NEW i \in 1..Len(ring')
        PROVE  /\ ring'[i].go = gos /\ Len(got) + i <= ring'[i].k /\ ring'[i].k <= n
               /\ ring'[i].stop \/ (ring'[i].last /\ ~ring'[i].bad)
                    => mce'.go = 0 /\ i = Len(ring')
    <3>1. CASE i \in 1..Len(ring)
      <4>1. ring'[i] = ring[i]
        BY <1>4, <3>1
      <4> QED
        BY <1>2, <3>1, <4>1 DEF Frames, Waiting
    <3>2. CASE i = Len(ring')
      <4>1. ring'[i] = f
        BY <1>4, <3>2
      <4>2. f.go = gos /\ f.k = mce.sent + 1
        BY <1>1, <1>3
      <4>3. Len(got) + i <= mce.sent + 1 /\ mce.sent + 1 <= n
        BY <1>1, <1>4, <1>6, <3>2
      <4>4. f.stop \/ (f.last /\ ~f.bad) => mce'.go = 0
        BY <1>3, EmitsIs
      <4> QED
        BY <3>2, <4>1, <4>2, <4>3, <4>4
    <3> QED
      BY <1>5, <3>1, <3>2
  <2>2. ASSUME NEW i \in 1..Len(ring'), NEW j \in 1..Len(ring'), i < j
        PROVE  ring'[i].k < ring'[j].k
    <3>1. i \in 1..Len(ring) /\ ring'[i] = ring[i]
      BY <1>4, <2>2
    <3>2. CASE j \in 1..Len(ring)
      BY <1>4, <2>2, <3>1, <3>2 DEF Frames, Waiting
    <3>3. CASE j = Len(ring')
      <4>1. ring'[j].k = mce.sent + 1
        BY <1>3, <1>4, <3>3
      <4>2. ring[i].k <= mce.sent /\ ring[i].k \in Nat
        BY <1>1, <1>7, <3>1
      <4> QED
        BY <1>6, <3>1, <4>1, <4>2
    <3> QED
      BY <1>5, <3>2, <3>3
  <2>3. ASSUME NEW i \in 1..Len(got), NEW j \in 1..Len(ring')
        PROVE  got[i].k < ring'[j].k
    <3>1. CASE j \in 1..Len(ring)
      BY <1>4, <3>1 DEF Frames, Waiting
    <3>2. CASE j = Len(ring')
      <4>1. ring'[j].k = mce.sent + 1
        BY <1>3, <1>4, <3>2
      <4>2. got[i].k <= mce.sent /\ got[i].k \in Nat
        BY <1>1, <1>7
      <4> QED
        BY <1>6, <4>1, <4>2
    <3> QED
      BY <1>5, <3>1, <3>2
  <2> QED
    BY <2>1, <2>2, <2>3 DEF Waiting
<1>10. Coming'
  <2>1. ASSUME mce'.go # 0
        PROVE  /\ mce'.go = gos /\ mce'.of = n /\ mce'.sent < n
               /\ mce'.sent = mce.sent + 1
    BY <1>1, <1>6, <2>1, EmitsIs
  <2>2. ASSUME mce'.go # 0 PROVE Len(got) + Len(ring') <= mce'.sent
    BY <1>1, <1>4, <1>6, <2>1, <2>2
  <2>3. ASSUME mce'.go # 0
        PROVE  \A i \in 1..Len(got) : got[i].k <= mce'.sent
    BY <1>1, <1>6, <1>7, <2>1, <2>3
  <2>4. ASSUME mce'.go # 0, NEW i \in 1..Len(ring')
        PROVE  ring'[i].k <= mce'.sent
    <3>1. CASE i \in 1..Len(ring)
      <4>1. ring'[i].k = ring[i].k /\ ring[i].k <= mce.sent /\ ring[i].k \in Nat
        BY <1>1, <1>4, <1>7, <3>1
      <4> QED
        BY <1>6, <2>1, <2>4, <4>1
    <3>2. CASE i = Len(ring')
      BY <1>3, <1>4, <1>6, <2>1, <2>4, <3>2
    <3> QED
      BY <1>5, <3>1, <3>2
  <2> QED
    BY <2>1, <2>2, <2>3, <2>4 DEF Coming
<1> QED
  BY <1>8, <1>9, <1>10 DEF Frames

LEMMA BetweenNext ==
  ASSUME Types, Counts, Between, Run, [Next]_vars
  PROVE  Between'
<1>1. CASE Create
  BY <1>1 DEF Create, Between, Quiet
<1>2. CASE Go \/ WriteRetDat
  <2>1. /\ UNCHANGED <<ring, mce, clean>> /\ pc \in {"ready", "retdat"}
        /\ pc' \in {"ready", "retdat", "start"}
    BY <1>2 DEF Go, WriteRetDat, Fails, outer, hist
  <2> QED
    BY <2>1 DEF Between, Quiet
<1>3. CASE Start \/ Launch
  <2>1. pc' \in Going \/ (pc' = "ready" /\ ~clean')
    BY <1>3 DEF Start, Launch, Fails, Going
  <2> QED
    BY <2>1 DEF Between, Going
<1>4. CASE Finish \/ Waits
  <2>1. /\ UNCHANGED <<ring, mce>> /\ pc \in Going /\ pc' = "ready"
        /\ clean' => clean /\ done \in {"last", "stop", "count"}
    BY <1>4 DEF Finish, Waits, Status, outer, Going
  <2> QED
    BY <2>1 DEF Between, Run, Ended, Quiet
<1>5. CASE Send \/ Stop
  <2>1. mce.go # 0 /\ UNCHANGED <<pc, clean>>
    BY <1>5 DEF Send, Stop, hist
  <2> QED
    BY <2>1 DEF Between, Quiet
<1>6. CASE \/ Poll \/ CopyFrame \/ ThreadNoMemory \/ ThreadRead \/ ThreadReadFails
           \/ ThreadEnds \/ FakeStopframe
  <2>1. pc' \in Going
    BY <1>6 DEF Poll, CopyFrame, ThreadNoMemory, ThreadRead, ThreadReadFails,
      ThreadEnds, FakeStopframe, Going
  <2> QED
    BY <2>1 DEF Between, Going
<1>7. CASE UNCHANGED vars
  BY <1>7 DEF vars, Between, Quiet
<1> QED
  BY <1>1, <1>2, <1>3, <1>4, <1>5, <1>6, <1>7, Steps

(* What Send does, in the terms of the two lemmas. *)
LEMMA SendIs ==
  ASSUME Send
  PROVE  /\ Emits /\ UNCHANGED <<n, gos, got, pc, done, clean>>
         /\ \/ ring' = ring /\ ~whole'
            \/ \E l \in BOOLEAN, bad \in BOOLEAN :
                 /\ bad \/ l = (mce.sent + 1 = mce.of) \/ (l /\ mce.stop)
                 /\ ring' = Append(ring, Emitted(l, bad))
                 /\ whole' => whole /\ ~mce.stop
<1> DEFINE end == mce.sent + 1 = mce.of
<1>1. PICK l \in BOOLEAN, bad \in BOOLEAN, lost \in BOOLEAN :
        /\ bad \/ l = end \/ (l /\ mce.stop)
        /\ ring' = IF lost THEN ring ELSE Append(ring, Emitted(l, bad))
        /\ whole' = (whole /\ ~lost /\ ~mce.stop)
        /\ mce' = IF end \/ mce.stop THEN Idle ELSE [mce EXCEPT !.sent = @ + 1]
  BY DEF Send, Emitted
<1>2. Emits /\ UNCHANGED <<n, gos, got, pc, done, clean>>
  BY <1>1 DEF Send, Emits, acq
<1>3. CASE lost
  BY <1>1, <1>2, <1>3
<1>4. CASE ~lost
  BY <1>1, <1>2, <1>4
<1> QED
  BY <1>3, <1>4

(* CopyFrame and ThreadRead take a frame. *)
LEMMA TakersIs ==
  ASSUME Types, Counts, CopyFrame \/ ThreadRead
  PROVE  /\ Takes /\ UNCHANGED <<n, gos, mce, clean, whole>>
         /\ pc \in Going /\ Len(got') = count + 1
         /\ done' \in {"last", "stop", "count"} =>
               \/ ring[1].stop \/ (ring[1].last /\ ~ring[1].bad)
               \/ Len(got') >= n
<1>1. /\ Takes /\ UNCHANGED <<n, gos, mce, clean, whole>> /\ pc \in Going
  BY DEF CopyFrame, ThreadRead, Takes, Consumed, Counts, outer, hist, Going
<1>2. /\ Head(ring) = ring[1] /\ Len(got') = Len(got) + 1
  BY <1>1, TakesIs DEF Types, SeqTypes
<1>3. Len(got') = count + 1
  BY <1>1, <1>2 DEF Counts
<1>4. done' \in {"last", "stop", "count"} =>
        \/ Head(ring).stop \/ (Head(ring).last /\ ~Head(ring).bad)
        \/ count + 1 >= n
  <2>1. CASE CopyFrame
    BY <2>1 DEF CopyFrame, ExitOf
  <2>2. CASE ThreadRead
    BY <2>2 DEF ThreadRead
  <2> QED
    BY <2>1, <2>2
<1> QED
  BY <1>1, <1>2, <1>3, <1>4

(* What leaves the frames as they are. *)
LEMMA FramesKept ==
  ASSUME Frames, UNCHANGED <<ring, got, gos, n>>,
         mce'.go = mce.go, mce'.of = mce.of, mce'.sent = mce.sent
  PROVE  Frames'
<1>1. Taken'
  BY DEF Frames, Taken
<1>2. Waiting'
  BY DEF Frames, Waiting
<1>3. Coming'
  BY DEF Frames, Coming
<1> QED
  BY <1>1, <1>2, <1>3 DEF Frames

LEMMA RunNext ==
  ASSUME Types, Counts, Between, Run, [Next]_vars
  PROVE  Run'
<1> SUFFICES ASSUME clean', pc' \in Going PROVE Frames' /\ Ended'
  BY DEF Run
<1>0. SeqTypes /\ NumTypes
  BY DEF Types
<1>1. CASE Start
  <2>1. /\ got' = <<>> /\ ring' = ring /\ n' = n /\ gos' = gos + 1 /\ done' = "no"
        /\ clean /\ pc = "start" /\ mce' = Running
    BY <1>1 DEF Start, Fails, Going
  <2>2. n = retDatS /\ n > 0 /\ gos + 1 # 0
    BY <1>0, <2>1 DEF Counts, NumTypes
  <2>3. ring = <<>>
    BY <2>1 DEF Between, Quiet
  <2>4. /\ mce'.go = gos' /\ mce'.of = n' /\ mce'.sent = 0 /\ 0 < n'
    BY <2>1, <2>2 DEF Running
  <2>5. Len(got') = 0 /\ Len(ring') = 0
    BY <2>1, <2>3, EmptySeq
  <2>6. Taken'
    BY <2>5 DEF Taken
  <2>7. Waiting'
    BY <2>5 DEF Waiting
  <2>8. Coming'
    BY <2>4, <2>5 DEF Coming
  <2> QED
    BY <2>1, <2>6, <2>7, <2>8 DEF Frames, Ended
<1>2. CASE CopyFrame \/ ThreadRead
  <2>1. /\ Takes /\ UNCHANGED <<n, gos, mce, clean>> /\ pc \in Going
        /\ done' \in {"last", "stop", "count"} =>
             \/ ring[1].stop \/ (ring[1].last /\ ~ring[1].bad)
             \/ Len(got') >= n
    BY <1>2, TakersIs
  <2>2. Frames
    BY <2>1 DEF Run
  <2>3. /\ Frames'
        /\ \/ ring[1].stop \/ (ring[1].last /\ ~ring[1].bad)
           \/ Len(got') >= n
           => Quiet'
    BY <1>0, <2>1, <2>2, FrameTaken
  <2> QED
    BY <2>1, <2>3 DEF Ended
<1>3. CASE Send
  <2>1. /\ Emits /\ UNCHANGED <<n, gos, got, pc, done, clean>>
        /\ \/ ring' = ring
           \/ \E l \in BOOLEAN, bad \in BOOLEAN :
                /\ bad \/ l = (mce.sent + 1 = mce.of) \/ (l /\ mce.stop)
                /\ ring' = Append(ring, Emitted(l, bad))
    BY <1>3, SendIs
  <2>2. Frames /\ Ended
    BY <2>1 DEF Run
  <2>3. Frames'
    BY <1>0, <2>1, <2>2, FrameLost, FrameArrives
  <2>4. Ended'
    BY <2>1, <2>2 DEF Ended, Quiet, Emits
  <2> QED
    BY <2>3, <2>4
<1>4. CASE Stop
  <2>1. /\ UNCHANGED <<ring, got, gos, n, pc, done, clean>>
        /\ mce' = [mce EXCEPT !.stop = TRUE]
    BY <1>4 DEF Stop, acq, hist
  <2>2. mce'.go = mce.go /\ mce'.of = mce.of /\ mce'.sent = mce.sent
    BY <1>0, <2>1 DEF NumTypes
  <2>3. Frames /\ Ended
    BY <2>1 DEF Run
  <2> QED
    BY <2>1, <2>2, <2>3, FramesKept DEF Ended, Quiet
<1>5. CASE \/ Poll \/ Launch \/ ThreadNoMemory \/ ThreadReadFails \/ ThreadEnds
           \/ FakeStopframe \/ UNCHANGED vars
  <2>1. /\ UNCHANGED <<ring, got, gos, n, mce>> /\ pc \in Going /\ clean
        /\ done' = done \/ done' \notin {"last", "stop", "count"}
    BY <1>5 DEF Poll, Launch, ThreadNoMemory, ThreadReadFails, ThreadEnds, FakeStopframe,
      vars, acq, outer, hist, Going, Fails
  <2>2. Frames /\ Ended
    BY <2>1 DEF Run
  <2> QED
    BY <2>1, <2>2, FramesKept DEF Ended, Quiet
<1>6. CASE Create \/ Go \/ WriteRetDat \/ Finish \/ Waits
  BY <1>6 DEF Create, Go, WriteRetDat, Finish, Waits, Fails, Going
<1> QED
  BY <1>1, <1>2, <1>3, <1>4, <1>5, <1>6, Steps

-----------------------------------------------------------------------------
(* No frame of a whole run is missing. *)
LEMMA CompleteNext ==
  ASSUME Types, Counts, Between, Run, Complete, [Next]_vars
  PROVE  Complete'
<1> SUFFICES ASSUME clean', whole', pc' \in Going PROVE AllThere'
  BY DEF Complete
<1>0. SeqTypes /\ NumTypes
  BY DEF Types
<1>1. CASE Start
  <2>1. /\ got' = <<>> /\ ring' = ring /\ gos' = gos + 1
        /\ clean /\ pc = "start" /\ mce' = Running
    BY <1>1 DEF Start, Fails, Going
  <2>2. gos + 1 # 0
    BY <1>0 DEF NumTypes
  <2>3. ring = <<>>
    BY <2>1 DEF Between, Quiet
  <2>4. mce'.go # 0 /\ mce'.sent = 0
    BY <2>1, <2>2 DEF Running
  <2>5. Len(got') = 0 /\ Len(ring') = 0
    BY <2>1, <2>3, EmptySeq
  <2> QED
    BY <2>4, <2>5 DEF AllThere
<1>2. CASE CopyFrame \/ ThreadRead
  <2>1. /\ Takes /\ UNCHANGED <<n, mce, clean, whole>> /\ pc \in Going
    BY <1>2, TakersIs
  <2>2. /\ \A i \in 1..Len(got) : got[i].k = i
        /\ \A i \in 1..Len(ring) : ring[i].k = Len(got) + i
        /\ Len(got) + Len(ring) = IF mce.go = 0 THEN n ELSE mce.sent
    BY <2>1 DEF Complete, AllThere
  <2>3. /\ Len(ring) \in Nat \ {0} /\ Len(ring') = Len(ring) - 1
        /\ \A i \in 1..Len(ring') : ring'[i] = ring[i + 1] /\ i + 1 \in 1..Len(ring)
        /\ Len(got) \in Nat /\ Len(got') = Len(got) + 1
        /\ \A i \in 1..Len(got) : got'[i] = got[i]
        /\ got'[Len(got')].k = ring[1].k
    BY <1>0, <2>1, TakesIs DEF SeqTypes
  <2>4. 1 \in 1..Len(ring)
    BY <2>3
  <2>5. ring[1].k = Len(got')
    BY <2>2, <2>3, <2>4
  <2>6. ASSUME NEW i \in 1..Len(got') PROVE got'[i].k = i
    <3>1. i \in 1..Len(got) \/ i = Len(got')
      BY <2>3
    <3> QED
      BY <2>2, <2>3, <2>5, <3>1
  <2>7. ASSUME NEW i \in 1..Len(ring') PROVE ring'[i].k = Len(got') + i
    <3>1. ring'[i] = ring[i + 1] /\ i + 1 \in 1..Len(ring) /\ i \in Nat
      BY <2>3
    <3>2. ring[i + 1].k = Len(got) + (i + 1)
      BY <2>2, <3>1
    <3> QED
      BY <2>3, <3>1, <3>2
  <2>8. Len(got') + Len(ring') = Len(got) + Len(ring)
    BY <2>3
  <2> QED
    BY <2>1, <2>2, <2>6, <2>7, <2>8 DEF AllThere
<1>3. CASE Send
  <2>1. /\ Emits /\ UNCHANGED <<n, gos, got, pc, done, clean>>
        /\ \E l \in BOOLEAN, bad \in BOOLEAN : ring' = Append(ring, Emitted(l, bad))
        /\ whole /\ ~mce.stop
    BY <1>3, SendIs
  <2>2. PICK l \in BOOLEAN, bad \in BOOLEAN : ring' = Append(ring, Emitted(l, bad))
    BY <2>1
  <2>3. /\ mce.go # 0 /\ mce.of = n
        /\ \A i \in 1..Len(got) : got[i].k = i
        /\ \A i \in 1..Len(ring) : ring[i].k = Len(got) + i
        /\ Len(got) + Len(ring) = mce.sent
    BY <2>1 DEF Complete, AllThere, Run, Frames, Coming, Emits
  <2>4. Emitted(l, bad) \in Frame /\ Emitted(l, bad).k = mce.sent + 1
    BY <1>0 DEF Emitted, Frame, NumTypes
  <2>5. /\ Len(ring) \in Nat /\ Len(got) \in Nat /\ Len(ring') = Len(ring) + 1
        /\ \A i \in 1..Len(ring) : ring'[i] = ring[i]
        /\ ring'[Len(ring')] = Emitted(l, bad)
    BY <1>0, <2>2, <2>4, ArrivesIs DEF SeqTypes
  <2>6. ASSUME NEW i \in 1..Len(ring') PROVE ring'[i].k = Len(got) + i
    <3>1. i \in 1..Len(ring) \/ i = Len(ring')
      BY <2>5
    <3>2. mce.sent + 1 = Len(got) + Len(ring')
      BY <2>3, <2>5
    <3> QED
      BY <2>3, <2>4, <2>5, <3>1, <3>2
  <2>7. Len(got) + Len(ring') = mce.sent + 1
    BY <2>3, <2>5
  <2>8. \/ mce'.go = 0 /\ mce.sent + 1 = n
        \/ mce'.go # 0 /\ mce'.sent = mce.sent + 1
    BY <1>0, <2>1, <2>3, EmitsIs
  <2> QED
    BY <2>1, <2>3, <2>6, <2>7, <2>8 DEF AllThere
<1>4. CASE Stop
  <2>1. /\ UNCHANGED <<ring, got, n, pc, clean, whole>>
        /\ mce' = [mce EXCEPT !.stop = TRUE]
    BY <1>4 DEF Stop, acq, hist
  <2>2. mce'.go = mce.go /\ mce'.sent = mce.sent
    BY <1>0, <2>1 DEF NumTypes
  <2> QED
    BY <2>1, <2>2 DEF Complete, AllThere
<1>5. CASE \/ Poll \/ Launch \/ ThreadNoMemory \/ ThreadReadFails \/ ThreadEnds
           \/ FakeStopframe \/ UNCHANGED vars
  <2>1. UNCHANGED <<ring, got, n, mce, whole>> /\ pc \in Going /\ clean
    BY <1>5 DEF Poll, Launch, ThreadNoMemory, ThreadReadFails, ThreadEnds, FakeStopframe,
      vars, acq, outer, hist, Going, Fails
  <2> QED
    BY <2>1 DEF Complete, AllThere
<1>6. CASE Create \/ Go \/ WriteRetDat \/ Finish \/ Waits
  BY <1>6 DEF Create, Go, WriteRetDat, Finish, Waits, Fails, Going
<1> QED
  BY <1>1, <1>2, <1>3, <1>4, <1>5, <1>6, Steps

-----------------------------------------------------------------------------
(* The stores. *)
LEMMA Smallest ==
  ASSUME NEW T \in SUBSET Store, T # {}
  PROVE  \E m \in T : \A b \in T : m <= b
<1>1. T \subseteq Nat
  BY AcqAssumption DEF Store
<1>2. \E m \in T : \A b \in T : ~(<<b, m>> \in OpToRel(<, Nat))
  BY <1>1, NatLessThanWellFounded, WFMin
<1>3. \A b, m \in Nat : <<b, m>> \in OpToRel(<, Nat) <=> b < m
  BY DEF OpToRel
<1>4. PICK m \in T : \A b \in T : ~(<<b, m>> \in OpToRel(<, Nat))
  BY <1>2
<1>5. ASSUME NEW b \in T PROVE m <= b
  <2>1. b \in Nat /\ m \in Nat
    BY <1>1
  <2>2. ~(b < m)
    BY <1>3, <1>4, <2>1
  <2> QED
    BY <2>1, <2>2
<1> QED
  BY <1>5

LEMMA PostFrameMisses ==
  ASSUME StoreTypes, stopping, Missing, UNCHANGED stopping, NEW f, PostFrame(f)
  PROVE  Missing'
<1>1. PICK bad \in SUBSET {s \in Store : "store" \in faults /\ Serves(s)} :
        LET served(s) == Serves(s) /\ \A b \in bad : s < b
            breaks    == {b \in bad : \A x \in bad : b <= x}
        IN /\ missed' = [s \in Store |-> missed[s] + IF served(s) THEN 0 ELSE 1]
           /\ failed' = failed \cup breaks
           /\ stopped' = IF stopping THEN stopped \cup breaks ELSE stopped
  BY DEF PostFrame
<1> DEFINE served(s) == Serves(s) /\ \A b \in bad : s < b
           breaks == {b \in bad : \A x \in bad : b <= x}
           Before(S, s) == {t \in S : t < s}
<1>2. /\ missed' = [s \in Store |-> missed[s] + IF served(s) THEN 0 ELSE 1]
      /\ failed' = failed \cup breaks /\ stopped' = stopped \cup breaks
  BY <1>1
<1>3. /\ stopped = failed
      /\ \A s \in Store \ failed : missed[s] <= Cardinality(Before(failed, s))
  BY DEF Missing
<1>4. /\ failed \subseteq Store /\ missed \in [Store -> Nat] /\ Store \subseteq Nat
      /\ bad \subseteq Store /\ \A b \in bad : b \notin failed
  BY <1>3, AcqAssumption DEF StoreTypes, Store, Serves
<1>5. \A S \in SUBSET Store : IsFiniteSet(S)
  <2>1. IsFiniteSet(Store)
    BY FS_Interval, AcqAssumption DEF Store
  <2> QED
    BY <2>1, FS_Subset
<1>6. ASSUME NEW s \in Store \ failed'
      PROVE  missed'[s] <= Cardinality(Before(failed', s))
  <2>1. s \in Store \ failed /\ s \notin breaks
    BY <1>2, <1>6
  <2>2. missed[s] <= Cardinality(Before(failed, s)) /\ missed[s] \in Nat
    BY <1>3, <1>4, <2>1
  <2>3. /\ IsFiniteSet(Before(failed, s)) /\ IsFiniteSet(Before(failed', s))
        /\ Before(failed, s) \subseteq Before(failed', s)
    <3>1. Before(failed, s) \subseteq Store /\ Before(failed', s) \subseteq Store
      BY <1>2, <1>4
    <3> QED
      BY <1>2, <1>5, <3>1
  <2>4. /\ Cardinality(Before(failed, s)) \in Nat
        /\ Cardinality(Before(failed', s)) \in Nat
        /\ Cardinality(Before(failed, s)) <= Cardinality(Before(failed', s))
    BY <2>3, FS_CardinalityType, FS_Subset
  <2>5. CASE served(s)
    <3>1. missed'[s] = missed[s]
      BY <1>2, <1>4, <2>1, <2>5
    <3> QED
      BY <2>2, <2>4, <3>1
  <2>6. CASE ~served(s)
    <3>1. missed'[s] = missed[s] + 1
      BY <1>2, <2>1, <2>6
    <3>2. \E b \in bad : b <= s
      <4>1. Serves(s)
        BY <1>3, <2>1 DEF Serves
      <4>2. \E b \in bad : ~(s < b)
        BY <2>6, <4>1
      <4> QED
        BY <1>4, <2>1, <4>2
    <3>3. bad # {}
      BY <3>2
    <3>4. PICK m \in bad : \A b \in bad : m <= b
      BY <1>4, <3>3, Smallest
    <3>5. m \in breaks /\ m \notin failed /\ m \in Nat
      BY <1>4, <3>4
    <3>6. m # s
      BY <2>1, <3>5
    <3>7. m < s
      BY <1>4, <2>1, <3>2, <3>4, <3>5, <3>6
    <3>8. /\ m \notin Before(failed, s)
          /\ Before(failed, s) \cup {m} \subseteq Before(failed', s)
      BY <1>2, <3>5, <3>7
    <3>9. /\ IsFiniteSet(Before(failed, s) \cup {m})
          /\ Cardinality(Before(failed, s) \cup {m}) = Cardinality(Before(failed, s)) + 1
      BY <2>3, <3>8, FS_AddElement
    <3>10. Cardinality(Before(failed, s) \cup {m}) <= Cardinality(Before(failed', s))
      BY <2>3, <3>8, FS_Subset
    <3> QED
      BY <2>2, <2>4, <3>1, <3>9, <3>10
  <2> QED
    BY <2>5, <2>6
<1> QED
  BY <1>2, <1>3, <1>6 DEF Missing

LEMMA MissingNext ==
  ASSUME Types, Missing, [Next]_vars
  PROVE  Missing'
<1>1. CASE /\ stopped' = {} /\ failed' = {}
           /\ missed' = [s \in Store |-> 0] /\ UNCHANGED stopping
  <2>1. ASSUME NEW s \in Store
        PROVE  missed'[s] <= Cardinality({t \in failed' : t < s})
    <3>1. {t \in failed' : t < s} = {}
      BY <1>1
    <3>2. Cardinality({t \in failed' : t < s}) = 0
      BY <3>1, FS_EmptySet
    <3> QED
      BY <1>1, <3>2
  <2> QED
    BY <1>1, <2>1 DEF Missing
<1>2. CASE UNCHANGED <<stopped, failed, missed, stopping>>
  BY <1>2 DEF Missing
<1>3. ASSUME NEW f, PostFrame(f), UNCHANGED stopping PROVE Missing'
  <2>1. CASE stopping
    BY <1>3, <2>1, PostFrameMisses DEF Types
  <2>2. CASE ~stopping
    BY <1>3, <2>2 DEF Missing
  <2> QED
    BY <2>1, <2>2
<1> QED
  BY <1>1, <1>2, <1>3, StoresNext

-----------------------------------------------------------------------------
(* The invariants together. *)
LEMMA ExitsNext ==
  ASSUME Exits, [Next]_vars
  PROVE  Exits'
<1>1. CASE Create \/ Go \/ WriteRetDat \/ Start
  BY <1>1 DEF Create, Go, WriteRetDat, Start, Fails, Exits
<1>2. CASE Poll \/ CopyFrame \/ Finish
  BY <1>2 DEF Poll, CopyFrame, Finish, Exits
<1>3. CASE Launch \/ ThreadNoMemory \/ ThreadEnds \/ Waits
  BY <1>3 DEF Launch, Fails, ThreadNoMemory, ThreadEnds, Waits, Exits
<1>4. CASE ThreadRead
  <2>1. done' \in {"no", "count"}
    BY <1>4 DEF ThreadRead
  <2> QED
    BY <2>1 DEF Exits
<1>5. CASE ThreadReadFails
  BY <1>5 DEF ThreadReadFails, Exits
<1>6. CASE Send \/ Stop \/ FakeStopframe
  BY <1>6 DEF Send, Stop, FakeStopframe, Exits
<1>7. CASE UNCHANGED vars
  BY <1>7 DEF vars, Exits
<1> QED
  BY <1>1, <1>2, <1>3, <1>4, <1>5, <1>6, <1>7, Steps

Inv == Types /\ Counts /\ Between /\ Run /\ Complete /\ Missing /\ Exits

LEMMA InvInit == Init => Inv
<1> SUFFICES ASSUME Init PROVE Inv
  OBVIOUS
<1>1. Types
  BY TypesInit
<1>2. Counts /\ Between /\ Run /\ Complete /\ Exits
  BY DEF Init, Counts, Between, Run, Complete, Going, Exits
<1>3. Missing
  <2>1. \A s \in Store : missed[s] = 0 /\ {t \in failed : t < s} = {}
    BY DEF Init
  <2> QED
    BY <2>1, FS_EmptySet DEF Init, Missing
<1> QED
  BY <1>1, <1>2, <1>3 DEF Inv

LEMMA InvNext == Inv /\ [Next]_vars => Inv'
<1> SUFFICES ASSUME Inv, [Next]_vars PROVE Inv'
  OBVIOUS
<1>1. Types /\ Counts /\ Between /\ Run /\ Complete /\ Missing /\ Exits
  BY DEF Inv
<1>2. Types' /\ Counts' /\ Between'
  BY <1>1, TypesNext, CountsNext, BetweenNext
<1>3. Run' /\ Complete' /\ Missing' /\ Exits'
  BY <1>1, RunNext, CompleteNext, MissingNext, ExitsNext
<1> QED
  BY <1>2, <1>3 DEF Inv

LEMMA InvHolds == Spec => []Inv
BY InvInit, InvNext, PTL DEF Spec

(* mcedata_acq_go collects the frames of its own GO, in the order they     *)
(* were sent, if none was left by an acquisition before it: for any counts *)
(* of frames, time limit, stores and number of acquisitions.               *)
THEOREM FramesAreOwn == Spec => []OwnFrames
<1>1. Inv => OwnFrames
  <2> SUFFICES ASSUME Inv, clean, pc \in {"loop", "frame", "wait"}
               PROVE  /\ \A i \in DOMAIN got : got[i].go = gos
                      /\ \A i, j \in DOMAIN got : i < j => got[i].k < got[j].k
    BY DEF OwnFrames
  <2>1. Taken
    BY DEF Inv, Run, Going, Frames
  <2>2. DOMAIN got = 1..Len(got)
    BY DEF Inv, Types, SeqTypes
  <2> QED
    BY <2>1, <2>2 DEF Taken
<1> QED
  BY <1>1, InvHolds, PTL

(* When mcedata_acq_go returns 0 and leaves the status 0, every frame asked *)
(* for has been collected, once and in order, by the loop or by the thread, *)
(* unless frames were lost on the way, the MCE was stopped, or the thread's *)
(* read() failed or ended, which the thread does not report.                *)
THEOREM CompleteIsAll == Spec => []CompleteHasAll
<1>1. Inv => CompleteHasAll
  <2> SUFFICES ASSUME Inv, Succeeds, clean, whole
               PROVE  [i \in DOMAIN got |-> got[i].k] = [i \in 1..n |-> i]
    BY DEF CompleteHasAll
  <2>1. done \in {"count", "last"} /\ pc \in Going
    BY DEF Succeeds, Status, Inv, Exits, Going
  <2>2. Quiet /\ AllThere
    BY <2>1 DEF Inv, Run, Complete, Going, Ended
  <2>3. Len(ring) = 0 /\ Len(got) \in Nat /\ DOMAIN got = 1..Len(got)
    BY <2>2, EmptySeq DEF Inv, Types, SeqTypes, Quiet
  <2>4. Len(got) = n /\ \A i \in 1..Len(got) : got[i].k = i
    BY <2>2, <2>3 DEF Quiet, AllThere
  <2> QED
    BY <2>3, <2>4
<1> QED
  BY <1>1, InvHolds, PTL

(* A store that fails costs each store behind it one frame (multisync.c),  *)
(* for any number of stores and frames.                                    *)
THEOREM FewAreMissed == Spec => []FewMissed
<1>1. Inv => FewMissed
  BY DEF Inv, Missing, FewMissed
<1> QED
  BY <1>1, InvHolds, PTL

-----------------------------------------------------------------------------
(***************************************************************************)
(* Frames on their way to disk, for any cards, rows, columns, header and   *)
(* interval: a channel's buffer never overflows wherever flushes fall,     *)
(* what is written to a channel's file is that channel's samples, and each *)
(* accepted frame is once in the file of its interval.  The first rests on *)
(* a bound of a buffer by the frames since the last look at it, the second *)
(* on the arithmetic of the layouts: the MCE's, by card, row and column;   *)
(* the sorted frame's, by row, card and column; and the channels', by      *)
(* card, column and row; the third on the switches: where the present file *)
(* began, and that what it has and what its buffers have is its frames.    *)
(***************************************************************************)

-----------------------------------------------------------------------------
(* Numbers of three digits, in the mixed radix m, v, w.                    *)

Digits(b, q, k, v, w) == (b * v + q) * w + k

LEMMA TimesMonotone ==
  ASSUME NEW a \in Int, NEW b \in Int, NEW k \in Nat, a <= b
  PROVE  a * k <= b * k
<1>1. (b - a) * k >= 0
  BY SMT
<1>2. (b - a) * k = b * k - a * k
  BY SMT
<1> QED
  BY <1>1, <1>2

LEMMA Product ==
  ASSUME NEW a \in Nat, NEW b \in Nat
  PROVE  a * b \in Nat /\ (a # 0 /\ b # 0 => a * b # 0)
BY SMT

LEMMA Divided ==
  ASSUME NEW x \in Nat, NEW k \in Nat \ {0}
  PROVE  /\ x \div k \in Nat /\ x % k \in Nat /\ x % k < k
         /\ x = (x \div k) * k + (x % k)
BY SMT

LEMMA QuotientIs ==
  ASSUME NEW q \in Nat, NEW k \in Nat \ {0}, NEW r \in Nat, r < k
  PROVE  (q * k + r) \div k = q /\ (q * k + r) % k = r
<1>1. q * k + r \in Nat
  BY SMT
<1>2. (q * k + r) \div k = q
  BY SMT
<1>3. ASSUME NEW x \in Nat, x = q * k + r
      PROVE  x % k = r
  BY <1>3, SMT
<1> QED
  BY <1>1, <1>2, <1>3

(* A digit more: below m * k whenever the rest is below k. *)
LEMMA Below ==
  ASSUME NEW m \in Nat, NEW k \in Nat, NEW b \in Nat, b < m, NEW r \in Nat, r < k
  PROVE  b * k + r \in Nat /\ b * k + r < m * k
<1>1. (b + 1) * k <= m * k
  BY TimesMonotone
<1>2. (b + 1) * k = b * k + k /\ b * k \in Nat /\ m * k \in Nat
  BY Product, SMT
<1> QED
  BY <1>1, <1>2

LEMMA Above ==
  ASSUME NEW m \in Nat, NEW k \in Nat, NEW b \in Nat, NEW r \in Nat,
         b * k + r < m * k
  PROVE  b < m
<1> SUFFICES ASSUME m <= b PROVE FALSE
  OBVIOUS
<1>1. m * k <= b * k
  BY TimesMonotone
<1>2. m * k \in Nat /\ b * k \in Nat
  BY Product
<1> QED
  BY <1>1, <1>2

(* The digits of a number made of three. *)
LEMMA DigitsOf ==
  ASSUME NEW v \in Nat \ {0}, NEW w \in Nat \ {0}, NEW b \in Nat,
         NEW q \in Nat, q < v, NEW k \in Nat, k < w,
         NEW i, i = Digits(b, q, k, v, w)
  PROVE  /\ i \in Nat
         /\ i % w = k /\ i \div w = b * v + q
         /\ (i \div w) % v = q /\ i \div (v * w) = b
<1> DEFINE a == b * v + q
           r == q * w + k
<1>1. a \in Nat /\ a \div v = b /\ a % v = q
  BY Product, QuotientIs
<1>2. r \in Nat /\ r < v * w /\ v * w \in Nat \ {0}
  BY Below, Product
<1>3. i = b * (v * w) + r
  BY SMT DEF Digits
<1>4. i = a * w + k
  BY DEF Digits
<1> HIDE DEF a, r
<1>5. i \div w = a /\ i % w = k
  BY <1>1, <1>4, QuotientIs
<1>6. i \div (v * w) = b
  BY <1>2, <1>3, QuotientIs
<1>7. i \in Nat
  BY <1>1, <1>4, Product, SMT
<1> QED
  BY <1>1, <1>5, <1>6, <1>7 DEF a

LEMMA DigitsBelow ==
  ASSUME NEW m \in Nat, NEW v \in Nat \ {0}, NEW w \in Nat \ {0},
         NEW b \in Nat, b < m, NEW q \in Nat, q < v, NEW k \in Nat, k < w,
         NEW p, p = m * (v * w)
  PROVE  Digits(b, q, k, v, w) \in 0..(p - 1)
<1> DEFINE r == q * w + k
<1>1. r \in Nat /\ r < v * w /\ v * w \in Nat
  BY Below, Product
<1>2. Digits(b, q, k, v, w) = b * (v * w) + r
  BY SMT DEF Digits
<1> HIDE DEF r
<1>3. b * (v * w) + r \in Nat /\ b * (v * w) + r < p
  BY <1>1, Below
<1>4. p \in Nat
  BY <1>1, Product
<1> QED
  BY <1>2, <1>3, <1>4

(* Every number below m * (v * w) has such digits. *)
HasDigits(i, m, v, w) ==
  \E b, q, k \in Nat : /\ b < m /\ q < v /\ k < w
                       /\ i = Digits(b, q, k, v, w)

LEMMA DigitsThere ==
  ASSUME NEW m \in Nat, NEW v \in Nat \ {0}, NEW w \in Nat \ {0},
         NEW p, p = m * (v * w), NEW i \in 0..(p - 1)
  PROVE  HasDigits(i, m, v, w)
<1> DEFINE a == i \div w
           k == i % w
           b == a \div v
           q == a % v
<1>0. v * w \in Nat /\ p \in Nat
  BY Product
<1>1. i \in Nat /\ a \in Nat /\ k \in Nat /\ k < w /\ i = a * w + k
  BY <1>0, Divided
<1>2. b \in Nat /\ q \in Nat /\ q < v /\ a = b * v + q
  BY <1>1, Divided
<1>3. q * w + k \in Nat
  BY <1>1, <1>2, Product
<1> HIDE DEF a, b, k, q
<1>4. i = b * (v * w) + (q * w + k)
  BY <1>1, <1>2, SMT
<1>5. b < m
  BY <1>0, <1>2, <1>3, <1>4, Above
<1>6. i = Digits(b, q, k, v, w)
  BY <1>1, <1>2 DEF Digits
<1> QED
  BY <1>1, <1>2, <1>5, <1>6 DEF HasDigits

-----------------------------------------------------------------------------
(* The layouts of a frame.                                                 *)

Shape == cards \in CardSets /\ rows \in Nat \ {0} /\ cols \in Nat \ {0}

LEMMA Sizes ==
  ASSUME Shape
  PROVE  /\ CardsOut \in Nat \ {0} /\ rows \in Nat \ {0} /\ cols \in Nat \ {0}
         /\ Size \in Nat
         /\ Size = CardsOut * (rows * cols) /\ Size = CardsOut * (cols * rows)
         /\ Size = rows * (CardsOut * cols)
<1>1. IsFiniteSet(cards) /\ cards # {}
  BY SortAssumption DEF Shape
<1>2. CardsOut \in Nat \ {0}
  BY <1>1, FS_CardinalityType, FS_EmptySet DEF CardsOut
<1>3. rows \in Nat \ {0} /\ cols \in Nat \ {0}
  BY DEF Shape
<1> HIDE DEF CardsOut
<1> QED
  BY <1>2, <1>3, SMT DEF Size

(* The MCE's layout. *)
LEMMA RawAt ==
  ASSUME Shape,
         NEW b \in Nat, b < CardsOut, NEW r \in Nat, r < rows,
         NEW k \in Nat, k < cols
  PROVE  /\ Digits(b, r, k, rows, cols) \in 0..(Size - 1)
         /\ RawFrame[Digits(b, r, k, rows, cols)] = <<NthCard(b), r, k>>
<1> DEFINE i == Digits(b, r, k, rows, cols)
<1>0. /\ CardsOut \in Nat /\ rows \in Nat \ {0} /\ cols \in Nat \ {0}
      /\ Size = CardsOut * (rows * cols) /\ i = Digits(b, r, k, rows, cols)
  BY Sizes
<1> HIDE DEF i
<1>1. i % cols = k /\ (i \div cols) % rows = r /\ i \div (rows * cols) = b
  BY <1>0, DigitsOf
<1>2. i \in 0..(Size - 1)
  BY <1>0, DigitsBelow
<1>3. RawFrame[i] = <<NthCard(b), r, k>>
  BY <1>1, <1>2 DEF RawFrame
<1> QED
  BY <1>2, <1>3 DEF i

(* The sorted frame's. *)
LEMMA SortedAt ==
  ASSUME Shape,
         NEW q \in Nat, q < CardsOut, NEW r \in Nat, r < rows,
         NEW k \in Nat, k < cols, NEW i, i = Digits(r, q, k, CardsOut, cols)
  PROVE  /\ i \in 0..(Size - 1)
         /\ i % cols = k /\ (i \div cols) % CardsOut = q
         /\ i \div (CardsOut * cols) = r
         /\ SortedFrame[i] = <<NthCard(q), r, k>>
<1>0. /\ CardsOut \in Nat \ {0} /\ rows \in Nat /\ cols \in Nat \ {0}
      /\ Size = rows * (CardsOut * cols)
  BY Sizes
<1>1. /\ i % cols = k /\ (i \div cols) % CardsOut = q
      /\ i \div (CardsOut * cols) = r
  BY <1>0, DigitsOf
<1>2. i \in 0..(Size - 1)
  BY <1>0, DigitsBelow
<1>3. SortedFrame[i] = <<NthCard(q), r, k>>
  BY <1>1, <1>2 DEF SortedFrame
<1> QED
  BY <1>1, <1>2, <1>3

LEMMA SortedHas ==
  ASSUME Shape, NEW i \in 0..(Size - 1)
  PROVE  HasDigits(i, rows, CardsOut, cols)
BY Sizes, DigitsThere

(* The channels': each has the sample that names it. *)
LEMMA ChannelAt ==
  ASSUME Shape, NEW j \in 0..(Size - 1)
  PROVE  /\ Offset(j) \in 0..(Size - 1)
         /\ SortedFrame[Offset(j)] = SampleOf(j)
<1>1. CardsOut \in Nat \ {0} /\ rows \in Nat \ {0} /\ cols \in Nat \ {0}
  BY Sizes
<1>2. HasDigits(j, CardsOut, cols, rows)
  BY Sizes, DigitsThere
<1>3. PICK q, k, r \in Nat : /\ q < CardsOut /\ k < cols /\ r < rows
                             /\ j = Digits(q, k, r, cols, rows)
  BY <1>2, Zenon DEF HasDigits
<1>4. j % rows = r /\ (j \div rows) % cols = k /\ j \div (cols * rows) = q
  BY <1>1, <1>3, DigitsOf
<1>5. rows * cols = cols * rows
  BY <1>1, SMT
<1>6. CardOf(j) = q /\ ColOf(j) = k /\ RowOf(j) = r
  BY <1>4, <1>5 DEF CardOf, ColOf, RowOf
<1> HIDE DEF CardsOut
<1>7. r * (CardsOut * cols) + k + q * cols = (r * CardsOut + q) * cols + k
  BY <1>1, SMT
<1>8. Offset(j) = Digits(r, q, k, CardsOut, cols)
  BY <1>6, <1>7 DEF Offset, Digits
<1> QED
  BY <1>3, <1>6, <1>8, SortedAt DEF SampleOf

(* A single card's frame is sorted as it comes. *)
LEMMA OneCardSorted ==
  ASSUME Shape, CardsOut = 1
  PROVE  RawFrame = SortedFrame
<1>1. ASSUME NEW i \in 0..(Size - 1) PROVE RawFrame[i] = SortedFrame[i]
  <2>1. PICK r, q, k \in Nat : /\ q < CardsOut /\ r < rows /\ k < cols
                               /\ i = Digits(r, q, k, CardsOut, cols)
    BY SortedHas, Zenon DEF HasDigits
  <2>2. q = 0 /\ Digits(r, 0, k, 1, cols) = Digits(0, r, k, rows, cols)
    BY <2>1, Sizes, SMT DEF Digits
  <2>3. SortedFrame[i] = <<NthCard(0), r, k>>
    BY <2>1, <2>2, SortedAt
  <2>4. RawFrame[i] = <<NthCard(0), r, k>>
    BY <2>1, <2>2, RawAt
  <2> QED
    BY <2>3, <2>4
<1> QED
  BY <1>1 DEF RawFrame, SortedFrame

-----------------------------------------------------------------------------
(* sort_columns.                                                           *)

(* The passes of the loop so far have filled in the columns of the cards   *)
(* they were for; each card found has its place in the frame as it came.   *)
Passes ==
  CardsOut > 1 /\ ~sorted =>
    /\ c \in 0..CardsOut /\ cIn = c
    /\ \A i \in 0..(Size - 1) : (i \div cols) % CardsOut < c => temp[i] = SortedFrame[i]

Sorting ==
  /\ Shape
  /\ temp = [i \in 0..(Size - 1) |-> temp[i]]
  /\ ~sorted => data = RawFrame
  /\ Gapless => Passes /\ (sorted => data = SortedFrame)

sorter == <<cards, rows, cols, data, temp, c, cIn, sorted>>

LEMMA FrameComes ==
  ASSUME Shape, UNCHANGED <<cards, rows, cols>>,
         data' = RawFrame, temp' = NoSamples, c' = 0, cIn' = 0, sorted' = FALSE
  PROVE  Sorting'
<1>1. Shape' /\ Size' = Size /\ CardsOut' = CardsOut /\ RawFrame' = RawFrame
  BY DEF Shape, Size, CardsOut, RawFrame, NthCard
<1>2. temp' = [i \in 0..(Size - 1) |-> temp'[i]]
  BY DEF NoSamples
<1>3. CardsOut \in Nat
  BY Sizes
<1>4. \A i \in 0..(Size - 1) : (i \div cols) % CardsOut \in Nat
  <2> TAKE i \in 0..(Size - 1)
  <2>1. CardsOut \in Nat \ {0} /\ cols \in Nat \ {0} /\ i \in Nat
    BY Sizes
  <2>2. i \div cols \in Nat
    BY <2>1, Divided
  <2> QED
    BY <2>1, <2>2, Divided
<1>5. Passes'
  BY <1>1, <1>3, <1>4 DEF Passes
<1> QED
  BY <1>1, <1>2, <1>5 DEF Sorting

LEMMA SorterStays ==
  ASSUME Sorting, UNCHANGED sorter
  PROVE  Sorting'
<1>1. /\ Shape' = Shape /\ Size' = Size /\ CardsOut' = CardsOut
      /\ RawFrame' = RawFrame /\ SortedFrame' = SortedFrame /\ Gapless' = Gapless
  BY DEF sorter, Shape, Size, CardsOut, RawFrame, SortedFrame, NthCard, Gapless
<1>2. UNCHANGED <<cols, data, temp, c, cIn, sorted>>
  BY DEF sorter
<1>3. Passes' = Passes
  BY <1>1, <1>2 DEF Passes
<1> QED
  BY <1>1, <1>2, <1>3 DEF Sorting

LEMMA SortStep ==
  ASSUME Sorting, SortNext
  PROVE  Sorting'
<1>1. UNCHANGED <<cards, rows, cols>>
  BY DEF SortNext, OneCard, CopyCard, CopyBack
<1>2. /\ Shape /\ Shape' /\ Size' = Size /\ CardsOut' = CardsOut
      /\ RawFrame' = RawFrame /\ SortedFrame' = SortedFrame /\ Gapless' = Gapless
  BY <1>1 DEF Sorting, Shape, Size, CardsOut, RawFrame, SortedFrame, NthCard,
              Gapless
<1>3. CardsOut \in Nat \ {0} /\ cols \in Nat \ {0} /\ rows \in Nat \ {0}
  BY <1>2, Sizes
<1>4. CASE OneCard
  <2>1. /\ CardsOut = 1 /\ ~sorted /\ sorted' = TRUE /\ UNCHANGED <<data, temp>>
    BY <1>4 DEF OneCard
  <2>2. data = SortedFrame
    BY <1>2, <2>1, OneCardSorted DEF Sorting
  <2> QED
    BY <1>2, <2>1, <2>2 DEF Sorting, Passes
<1>5. CASE CopyCard
  <2>1. /\ ~sorted /\ CardsOut > 1 /\ c < CardsOut
        /\ c' = c + 1 /\ UNCHANGED <<data, sorted>>
    BY <1>5 DEF CopyCard
  <2>2. temp' = [i \in 0..(Size - 1) |-> temp'[i]]
    <3>1. DOMAIN temp = 0..(Size - 1)
      BY DEF Sorting
    <3>2. CASE c \in cards
      BY <1>5, <3>1, <3>2 DEF CopyCard
    <3>3. CASE c \notin cards
      BY <1>5, <3>3 DEF CopyCard, Sorting
    <3> QED
      BY <3>2, <3>3
  <2>3. ASSUME Gapless PROVE Passes'
    <3>1. c \in 0..CardsOut /\ cIn = c /\ data = RawFrame
      BY <2>1, <2>3 DEF Sorting, Passes
    <3>2. c \in cards
      BY <1>3, <2>1, <2>3, <3>1 DEF Gapless
    <3>3. /\ cIn' = c' /\ c' \in 0..CardsOut
          /\ temp' = [i \in 0..(Size - 1) |->
                        IF (i \div cols) % CardsOut = c
                        THEN data[Source(i \div (CardsOut * cols), i % cols)]
                        ELSE temp[i]]
      <4>1. DOMAIN temp = 0..(Size - 1)
        BY DEF Sorting
      <4> QED
        BY <1>3, <1>5, <2>1, <3>1, <3>2, <4>1 DEF CopyCard
    <3>4. ASSUME NEW i \in 0..(Size - 1), (i \div cols) % CardsOut < c'
          PROVE  temp'[i] = SortedFrame[i]
      <4>1. PICK r, q, k \in Nat : /\ q < CardsOut /\ r < rows /\ k < cols
                                   /\ i = Digits(r, q, k, CardsOut, cols)
        BY <1>2, SortedHas, Zenon DEF HasDigits
      <4>2. /\ (i \div cols) % CardsOut = q /\ i % cols = k
            /\ i \div (CardsOut * cols) = r
            /\ SortedFrame[i] = <<NthCard(q), r, k>>
        BY <1>2, <4>1, SortedAt
      <4>3. CASE q = c
        <5>1. temp'[i] = data[Source(r, k)]
          BY <3>3, <4>2, <4>3
        <5>2. Source(r, k) = Digits(q, r, k, rows, cols)
          BY <1>3, <3>1, <4>1, <4>3, SMT DEF Source, Digits
        <5> QED
          BY <1>2, <3>1, <4>1, <4>2, <5>1, <5>2, RawAt
      <4>4. CASE q # c
        <5>1. q < c
          BY <2>1, <3>1, <3>4, <4>1, <4>2, <4>4
        <5>2. temp'[i] = temp[i]
          BY <3>3, <4>2, <4>4
        <5> QED
          BY <2>1, <2>3, <4>2, <5>1, <5>2 DEF Sorting, Passes
      <4> QED
        BY <4>3, <4>4
    <3> QED
      BY <1>1, <1>2, <3>3, <3>4 DEF Passes
  <2> QED
    BY <1>2, <2>1, <2>2, <2>3 DEF Sorting
<1>6. CASE CopyBack
  <2>1. /\ ~sorted /\ CardsOut > 1 /\ c = CardsOut
        /\ data' = temp /\ sorted' = TRUE /\ UNCHANGED temp
    BY <1>6 DEF CopyBack
  <2>2. ASSUME Gapless PROVE temp = SortedFrame
    <3>1. ASSUME NEW i \in 0..(Size - 1) PROVE temp[i] = SortedFrame[i]
      <4>1. PICK r, q, k \in Nat : /\ q < CardsOut /\ r < rows /\ k < cols
                                   /\ i = Digits(r, q, k, CardsOut, cols)
        BY <1>2, SortedHas, Zenon DEF HasDigits
      <4>2. (i \div cols) % CardsOut = q
        BY <1>2, <4>1, SortedAt
      <4> QED
        BY <2>1, <2>2, <4>1, <4>2 DEF Sorting, Passes
    <3> QED
      BY <3>1 DEF Sorting, SortedFrame
  <2> QED
    BY <1>2, <2>1, <2>2 DEF Sorting, Passes
<1> QED
  BY <1>4, <1>5, <1>6 DEF SortNext

-----------------------------------------------------------------------------
(* The inductive invariant of the files.                                   *)

Counting ==
  /\ interval \in Nat \ {0}
  /\ posted \in 0..MaxFrames
  /\ phase \in {"sort", "post"} => posted < MaxFrames
  /\ Sequence => seqCount = posted
  /\ idx \in 0..MaxFrames

(* A frame that is handed over has been sorted. *)
Ready == phase = "post" => sorted

(* What a channel's file, or a whole file, may have of a frame. *)
Want(j)  == IF Flat THEN SortedFrame ELSE SampleOf(j)
Entry(j) == Nat \X {Want(j)}

Filled ==
  Gapless =>
    /\ \A j \in Chan : buf[j] \in Seq(Entry(j))
    /\ DOMAIN file = Dirs
    /\ \A d \in Dirs : /\ DOMAIN file[d] = Chan
                       /\ \A j \in Chan : file[d][j] \in Seq(Entry(j))

(* A buffer that was not written at the last look at it was less than half *)
(* full, and has had a sample per frame since.  frameCount counts these,   *)
(* but from 0 after a look and from 1 after the first frame of a directory. *)
IsSequence(s) == \E S : s \in Seq(S)

Room ==
  /\ frameCount \in 0..Period
  /\ \A j \in Chan : /\ IsSequence(buf[j])
                     /\ j < opened => Len(buf[j]) <= frameCount + Period - 1
  /\ Flat \/ phase = "create" => \A j \in Chan : buf[j] = <<>>

DirInv == Sorting /\ Counting /\ Ready /\ Filled /\ Room

-----------------------------------------------------------------------------
LEMMA PeriodIs ==
  ASSUME Shape
  PROVE  /\ Period \in Nat \ {0} /\ Threshold = Period /\ DataSize = 2 * Period
<1>1. Fields \in Nat \ {0}
  BY Sizes, DirfileAssumption DEF Fields
<1> HIDE DEF Fields
<1> QED
  BY <1>1, SMT DEF Period, Threshold, DataSize

(* Appending, writing and forgetting keep sequences what they are. *)
LEMMA Appending ==
  ASSUME NEW s, IsSequence(s), NEW e
  PROVE  IsSequence(Append(s, e)) /\ Len(Append(s, e)) = Len(s) + 1
         /\ Len(s) \in Nat
<1>1. PICK S : s \in Seq(S)
  BY DEF IsSequence
<1> DEFINE T == S \cup {e}
<1>2. s \in Seq(T) /\ e \in T
  <2>1. \A i \in 1..Len(s) : s[i] \in T
    BY <1>1, ElementOfSeq
  <2>2. Len(s) \in Nat /\ s \in [1..Len(s) -> T]
    BY <1>1, <2>1, LenProperties
  <2> QED
    BY <2>2, SeqDef
<1> HIDE DEF T
<1>3. Append(s, e) \in Seq(T) /\ Len(Append(s, e)) = Len(s) + 1 /\ Len(s) \in Nat
  BY <1>2, AppendProperties, LenProperties
<1> QED
  BY <1>3 DEF IsSequence

LEMMA NoneYet == IsSequence(<<>>) /\ Len(<<>>) = 0
BY EmptySeq DEF IsSequence

LEMMA InitInv == DirInit => DirInv
<1> SUFFICES ASSUME DirInit PROVE DirInv
  OBVIOUS
<1>1. Shape
  BY SortAssumption DEF DirInit, SortInit, Shape
<1>2. Sorting
  <2>1. data = RawFrame /\ temp = NoSamples /\ c = 0 /\ cIn = 0 /\ sorted = FALSE
    BY DEF DirInit, SortInit
  <2>2. temp = [i \in 0..(Size - 1) |-> temp[i]]
    BY <2>1 DEF NoSamples
  <2>3. CardsOut \in Nat \ {0} /\ cols \in Nat \ {0} /\ Size \in Nat
    BY <1>1, Sizes
  <2>4. \A i \in 0..(Size - 1) : (i \div cols) % CardsOut \in Nat
    <3> TAKE i \in 0..(Size - 1)
    <3>1. i \div cols \in Nat
      BY <2>3, Divided
    <3> QED
      BY <2>3, <3>1, Divided
  <2>5. Passes
    BY <2>1, <2>3, <2>4 DEF Passes
  <2> QED
    BY <1>1, <2>1, <2>2, <2>5 DEF Sorting
<1>3. Counting
  <2>1. interval \in Nat \ {0}
    BY DirfileAssumption DEF DirInit
  <2> QED
    BY <2>1, DirfileAssumption DEF DirInit, Counting
<1>4. Ready
  BY DEF DirInit, Ready
<1>5. \A j \in Chan : buf[j] = <<>>
  BY DEF DirInit, Empty
<1>6. Filled
  <2>1. DOMAIN file = Dirs /\ \A d \in Dirs : file[d] = Empty
    BY DEF DirInit
  <2>2. DOMAIN Empty = Chan /\ \A j \in Chan : Empty[j] = <<>>
    BY DEF Empty
  <2>3. \A j \in Chan : <<>> \in Seq(Entry(j))
    BY EmptySeq
  <2> QED
    BY <1>5, <2>1, <2>2, <2>3 DEF Filled
<1>7. Room
  <2>1. frameCount = 0
    BY DEF DirInit
  <2>2. Period \in Nat \ {0}
    BY <1>1, PeriodIs
  <2> HIDE DEF Period
  <2> QED
    BY <1>5, <2>1, <2>2, NoneYet DEF Room
<1> QED
  BY <1>2, <1>3, <1>4, <1>6, <1>7 DEF DirInv

-----------------------------------------------------------------------------
(* The steps.  None changes the frame's shape or the kind of file.         *)

fixed == <<cards, rows, cols, kind, interval>>

LEMMA AlwaysFixed == DirNext => UNCHANGED fixed
BY DEF DirNext, CreateStore, NextFrame, Sort, SortNext, OneCard, CopyCard, CopyBack,
       PostSame, PostSwitch, PostFile, FlushOrCleanup, sortVars, dirVars, fixed

LEMMA FixedMeans ==
  ASSUME UNCHANGED fixed
  PROVE  /\ Chan' = Chan /\ Flat' = Flat /\ Sequence' = Sequence
         /\ Gapless' = Gapless /\ Period' = Period /\ Shape' = Shape
         /\ \A j : Want(j)' = Want(j) /\ Entry(j)' = Entry(j)
<1>1. UNCHANGED <<cards, rows, cols, kind, interval>>
  BY DEF fixed
<1>2. Size' = Size /\ CardsOut' = CardsOut /\ Flat' = Flat
  BY <1>1 DEF Size, CardsOut, Flat
<1>3. SortedFrame' = SortedFrame /\ \A j : SampleOf(j)' = SampleOf(j)
  BY <1>1, <1>2 DEF SortedFrame, SampleOf, NthCard, CardOf, RowOf, ColOf
<1>4. \A j : Want(j)' = Want(j) /\ Entry(j)' = Entry(j)
  BY <1>2, <1>3 DEF Want, Entry
<1>5. Period' = Period
  BY <1>2 DEF Period, DataSize, Fields
<1> QED
  BY <1>1, <1>2, <1>4, <1>5 DEF Chan, Sequence, Gapless, Shape

(* The sorter does not run while frames are posted. *)
LEMMA NextSorting == DirInv /\ [DirNext]_storeVars => Sorting'
<1> SUFFICES ASSUME DirInv, [DirNext]_storeVars PROVE Sorting'
  OBVIOUS
<1>1. Sorting
  BY DEF DirInv
<1>2. CASE NextFrame
  BY <1>1, <1>2, FrameComes DEF NextFrame, Sorting
<1>3. CASE Sort
  BY <1>1, <1>3, SortStep DEF Sort
<1>4. CASE CreateStore \/ PostSame \/ PostSwitch \/ PostFile \/ FlushOrCleanup
  BY <1>1, <1>4, SorterStays DEF CreateStore, PostSame, PostSwitch, PostFile,
                                 FlushOrCleanup, sortVars, sorter
<1>5. CASE UNCHANGED storeVars
  BY <1>1, <1>5, SorterStays DEF storeVars, sortVars, sorter
<1> QED
  BY <1>2, <1>3, <1>4, <1>5 DEF DirNext

LEMMA NextReady == DirInv /\ [DirNext]_storeVars => Ready'
<1> SUFFICES ASSUME DirInv, [DirNext]_storeVars PROVE Ready'
  OBVIOUS
<1>1. CASE Sort
  BY <1>1 DEF Sort, Ready
<1>2. CASE CreateStore \/ PostSame \/ PostSwitch \/ PostFile \/ FlushOrCleanup \/ NextFrame
  BY <1>2 DEF CreateStore, PostSame, PostSwitch, PostFile, FlushOrCleanup, NextFrame, Ready
<1>3. CASE UNCHANGED storeVars
  BY <1>3 DEF storeVars, sortVars, DirInv, Ready
<1> QED
  BY <1>1, <1>2, <1>3 DEF DirNext

(* The number of the next directory or file. *)
LEMMA NewIdxBound ==
  ASSUME Counting, phase = "post", SwitchDue
  PROVE  NewIdx \in 0..MaxFrames
<1>1. Sequence /\ Counted = posted + 1 /\ posted + 1 \in Nat /\ posted + 1 <= MaxFrames
  BY DirfileAssumption DEF Counting, SwitchDue, Counted
<1>2. interval \in Nat \ {0}
  BY DEF Counting
<1> DEFINE q == Counted \div interval
           r == Counted % interval
<1>3. q \in Nat /\ r \in Nat /\ Counted = q * interval + r /\ Counted \in Nat
  BY <1>1, <1>2, Divided
<1> HIDE DEF q, r
<1>4. q * 1 <= q * interval
  <2>1. q * interval = interval * q /\ q * 1 = 1 * q
    BY <1>2, <1>3, SMT
  <2>2. 1 * q <= interval * q
    BY <1>2, <1>3, TimesMonotone
  <2> QED
    BY <2>1, <2>2
<1>5. q <= Counted
  <2>1. q * interval \in Nat
    BY <1>2, <1>3, Product
  <2> QED
    BY <1>3, <1>4, <2>1
<1>6. q \in 0..MaxFrames
  BY <1>1, <1>3, <1>5, DirfileAssumption
<1> QED
  BY <1>6 DEF NewIdx, q

LEMMA NextCounting == DirInv /\ [DirNext]_storeVars => Counting'
<1> SUFFICES ASSUME DirInv, [DirNext]_storeVars PROVE Counting'
  OBVIOUS
<1>1. Counting
  BY DEF DirInv
<1>2. CASE CreateStore \/ FlushOrCleanup
  <2>1. /\ UNCHANGED <<fixed, seqCount, posted, idx>>
        /\ phase' \notin {"sort", "post"}
    BY <1>2 DEF CreateStore, FlushOrCleanup, sortVars, fixed
  <2> QED
    BY <1>1, <2>1, FixedMeans DEF Counting, fixed
<1>3. CASE NextFrame
  <2>1. UNCHANGED <<fixed, seqCount, posted, idx>> /\ posted < MaxFrames
    BY <1>3 DEF NextFrame, dirVars, fixed
  <2> QED
    BY <1>1, <2>1, FixedMeans DEF Counting, fixed
<1>4. CASE Sort
  <2>1. UNCHANGED <<fixed, seqCount, posted, idx>> /\ phase = "sort"
    BY <1>4, AlwaysFixed DEF DirNext, Sort, dirVars
  <2> QED
    BY <1>1, <2>1, FixedMeans DEF Counting, fixed
<1>5. CASE PostSame \/ PostSwitch \/ PostFile
  <2>1. /\ phase = "post" /\ phase' = "frame"
        /\ posted' = posted + 1 /\ seqCount' = Counted
        /\ UNCHANGED fixed
    BY <1>5, AlwaysFixed DEF DirNext, PostSame, PostSwitch, PostFile
  <2>2. idx' = idx \/ (SwitchDue /\ idx' = NewIdx)
    BY <1>5 DEF PostSame, PostSwitch, PostFile
  <2>3. idx' \in 0..MaxFrames
    BY <1>1, <2>1, <2>2, NewIdxBound DEF Counting
  <2>4. posted < MaxFrames /\ posted' \in 0..MaxFrames
    BY <1>1, <2>1, DirfileAssumption DEF Counting
  <2> QED
    BY <1>1, <2>1, <2>3, <2>4, FixedMeans DEF Counting, Counted, fixed
<1>6. CASE UNCHANGED storeVars
  <2>1. UNCHANGED <<fixed, seqCount, posted, idx, phase>>
    BY <1>6 DEF storeVars, sortVars, dirVars, fixed
  <2> QED
    BY <1>1, <2>1, FixedMeans DEF Counting, fixed
<1> QED
  BY <1>2, <1>3, <1>4, <1>5, <1>6 DEF DirNext

-----------------------------------------------------------------------------
(* What is in the buffers and the files.                                   *)

LEMMA FilledStays ==
  ASSUME Filled, UNCHANGED <<fixed, buf, file>>
  PROVE  Filled'
<1>1. Gapless' = Gapless /\ Chan' = Chan /\ \A j : Entry(j)' = Entry(j)
  BY FixedMeans DEF fixed
<1>2. UNCHANGED <<buf, file>>
  OBVIOUS
<1> QED
  BY <1>1, <1>2 DEF Filled, Dirs

(* dirfile_post gives a channel its own sample. *)
LEMMA WithOwn ==
  ASSUME DirInv, phase = "post", ~Flat, Gapless, NEW b,
         \A j \in Chan : b[j] \in Seq(Entry(j))
  PROVE  \A j \in Chan : With(b)[j] \in Seq(Entry(j))
<1> TAKE j \in Chan
<1>1. data = SortedFrame /\ Shape
  BY DEF DirInv, Ready, Sorting
<1>2. j \in 0..(Size - 1)
  BY DEF Chan
<1>3. data[Offset(j)] = SampleOf(j)
  BY <1>1, <1>2, ChannelAt
<1>4. <<posted, data[Offset(j)]>> \in Entry(j)
  BY <1>3 DEF Entry, Want, DirInv, Counting
<1>5. Append(b[j], <<posted, data[Offset(j)]>>) \in Seq(Entry(j))
  BY <1>4, AppendProperties
<1> QED
  BY <1>5 DEF With

LEMMA KeptOwn ==
  ASSUME NEW b, NEW flush, \A j \in Chan : b[j] \in Seq(Entry(j))
  PROVE  \A j \in Chan : Kept(b, flush)[j] \in Seq(Entry(j))
<1>1. \A j \in Chan : <<>> \in Seq(Entry(j))
  BY EmptySeq
<1> QED
  BY <1>1 DEF Kept

LEMMA WrittenOwn ==
  ASSUME Filled, Gapless, idx \in Dirs,
         NEW b, NEW flush, \A j \in Chan : b[j] \in Seq(Entry(j))
  PROVE  /\ DOMAIN Written(b, flush) = Dirs
         /\ \A d \in Dirs :
              /\ DOMAIN Written(b, flush)[d] = Chan
              /\ \A j \in Chan : Written(b, flush)[d][j] \in Seq(Entry(j))
<1> DEFINE new == [j \in Chan |-> IF Writes(b, flush, j) THEN file[idx][j] \o b[j]
                                  ELSE file[idx][j]]
<1>1. DOMAIN file = Dirs /\ Written(b, flush) = [file EXCEPT ![idx] = new]
  BY DEF Filled, Written
<1>2. ASSUME NEW j \in Chan PROVE new[j] \in Seq(Entry(j))
  <2>1. file[idx][j] \in Seq(Entry(j)) /\ b[j] \in Seq(Entry(j))
    BY DEF Filled
  <2>2. file[idx][j] \o b[j] \in Seq(Entry(j))
    BY <2>1, ConcatProperties
  <2> QED
    BY <2>1, <2>2
<1>3. DOMAIN new = Chan
  OBVIOUS
<1> HIDE DEF new
<1> QED
  BY <1>1, <1>2, <1>3 DEF Filled

LEMMA NextFilled == DirInv /\ [DirNext]_storeVars => Filled'
<1> SUFFICES ASSUME DirInv, [DirNext]_storeVars PROVE Filled'
  OBVIOUS
<1>1. Filled /\ idx \in Dirs /\ Shape
  BY DEF DirInv, Counting, Sorting, Dirs
<1>2. CASE CreateStore \/ NextFrame \/ Sort
  <2>1. UNCHANGED <<fixed, buf, file>>
    BY <1>2, AlwaysFixed DEF DirNext, CreateStore, NextFrame, Sort, dirVars
  <2> QED
    BY <1>1, <2>1, FilledStays
<1>3. CASE UNCHANGED storeVars
  <2>1. UNCHANGED <<fixed, buf, file>>
    BY <1>3 DEF storeVars, sortVars, dirVars, fixed
  <2> QED
    BY <1>1, <2>1, FilledStays
<1> SUFFICES ASSUME PostSame \/ PostSwitch \/ PostFile \/ FlushOrCleanup,
                    Gapless,
                    UNCHANGED fixed
             PROVE  /\ \A j \in Chan : buf'[j] \in Seq(Entry(j))
                    /\ DOMAIN file' = Dirs
                    /\ \A d \in Dirs :
                         /\ DOMAIN file'[d] = Chan
                         /\ \A j \in Chan : file'[d][j] \in Seq(Entry(j))
  <2>1. DirNext => UNCHANGED fixed
    BY AlwaysFixed
  <2>2. UNCHANGED fixed =>
          Gapless' = Gapless /\ Chan' = Chan /\ \A j : Entry(j)' = Entry(j)
    BY FixedMeans
  <2> QED
    BY <1>2, <1>3, <2>1, <2>2 DEF DirNext, Filled, Dirs
<1>4. \A j \in Chan : buf[j] \in Seq(Entry(j))
  BY <1>1 DEF Filled
<1>5. CASE PostSame
  <2>1. phase = "post" /\ ~Flat
    BY <1>5 DEF PostSame
  <2>2. \A j \in Chan : With(buf)[j] \in Seq(Entry(j))
    BY <1>4, <2>1, WithOwn
  <2>3. CASE frameCount >= Period
    <3>1. buf' = Kept(With(buf), FALSE) /\ file' = Written(With(buf), FALSE)
      BY <1>5, <2>3 DEF PostSame
    <3> QED
      BY <1>1, <2>2, <3>1, KeptOwn, WrittenOwn
  <2>4. CASE ~(frameCount >= Period)
    <3>1. buf' = With(buf) /\ file' = file
      BY <1>5, <2>4 DEF PostSame
    <3> QED
      BY <1>1, <2>2, <3>1 DEF Filled
  <2> QED
    BY <2>3, <2>4
<1>6. CASE PostSwitch
  <2>1. phase = "post" /\ ~Flat /\ file' = Written(buf, TRUE)
    BY <1>6 DEF PostSwitch, ClosingWrite
  <2>2. \A j \in Chan : Empty[j] \in Seq(Entry(j))
    BY EmptySeq DEF Empty
  <2>3. \A j \in Chan : With(Empty)[j] \in Seq(Entry(j))
    BY <2>1, <2>2, WithOwn
  <2>4. buf' = Empty \/ buf' = With(Empty)
    BY <1>6 DEF PostSwitch
  <2> QED
    BY <1>1, <1>4, <2>1, <2>2, <2>3, <2>4, WrittenOwn
<1>7. CASE PostFile
  <2>1. phase = "post" /\ Flat /\ buf' = buf
    BY <1>7 DEF PostFile
  <2>2. file' = file \/ file' = Appended
    BY <1>7 DEF PostFile
  <2>3. CASE file' = file
    BY <1>1, <1>4, <2>1, <2>3 DEF Filled
  <2>4. CASE file' = Appended
    <3>1. data = SortedFrame
      BY <2>1 DEF DirInv, Ready, Sorting
    <3>2. <<posted, data>> \in Entry(0) /\ Chan = {0}
      BY <2>1, <3>1 DEF Entry, Want, DirInv, Counting, Chan
    <3> DEFINE new == [j \in Chan |-> Append(file[idx'][j], <<posted, data>>)]
    <3>3. file' = [file EXCEPT ![idx'] = new]
      BY <2>4 DEF Appended
    <3>4. ASSUME idx' \in Dirs, NEW j \in Chan
          PROVE  new[j] \in Seq(Entry(j))
      <4>1. file[idx'][j] \in Seq(Entry(j)) /\ <<posted, data>> \in Entry(j)
        BY <1>1, <3>2, <3>4 DEF Filled
      <4> QED
        BY <4>1, AppendProperties
    <3>5. DOMAIN new = Chan
      OBVIOUS
    <3> HIDE DEF new
    <3> QED
      BY <1>1, <1>4, <2>1, <3>3, <3>4, <3>5 DEF Filled
  <2> QED
    BY <2>2, <2>3, <2>4
<1>8. CASE FlushOrCleanup
  <2>1. buf' = Kept(buf, TRUE) /\ file' = Written(buf, TRUE)
    BY <1>8 DEF FlushOrCleanup
  <2> QED
    BY <1>1, <1>4, <2>1, KeptOwn, WrittenOwn
<1> QED
  BY <1>5, <1>6, <1>7, <1>8

-----------------------------------------------------------------------------
(* How full the buffers are.                                               *)

LEMMA RoomStays ==
  ASSUME Room, UNCHANGED <<fixed, buf, opened, frameCount>>,
         phase' = "create" => phase = "create"
  PROVE  Room'
<1>1. Period' = Period /\ Chan' = Chan /\ Flat' = Flat
  BY FixedMeans DEF fixed
<1>2. UNCHANGED <<buf, opened, frameCount>>
  OBVIOUS
<1> QED
  BY <1>1, <1>2 DEF Room

LEMMA WithRoom ==
  ASSUME NEW b, NEW j \in Chan, IsSequence(b[j])
  PROVE  /\ IsSequence(With(b)[j])
         /\ Len(b[j]) \in Nat
         /\ Len(With(b)[j]) \in Nat
         /\ Len(With(b)[j]) <= Len(b[j]) + 1
<1>1. /\ IsSequence(Append(b[j], <<posted, data[Offset(j)]>>))
      /\ Len(Append(b[j], <<posted, data[Offset(j)]>>)) = Len(b[j]) + 1
      /\ Len(b[j]) \in Nat
  BY Appending
<1>2. CASE made'
  <2>1. With(b)[j] = Append(b[j], <<posted, data[Offset(j)]>>)
    BY <1>2 DEF With
  <2>2. Len(With(b)[j]) = Len(b[j]) + 1
    BY <1>1, <2>1
  <2> QED
    BY <1>1, <2>1, <2>2
<1>3. CASE ~made'
  <2>1. With(b)[j] = b[j]
    BY <1>3 DEF With
  <2> QED
    BY <1>1, <2>1
<1> QED
  BY <1>2, <1>3

LEMMA NextRoom == DirInv /\ [DirNext]_storeVars => Room'
<1> SUFFICES ASSUME DirInv, [DirNext]_storeVars PROVE Room'
  OBVIOUS
<1>1. Room /\ Shape /\ Period \in Nat \ {0} /\ Threshold = Period
  BY PeriodIs DEF DirInv, Sorting
<1> HIDE DEF Period, Threshold
<1>2. CASE NextFrame \/ Sort
  <2>1. UNCHANGED <<fixed, buf, opened, frameCount>> /\ phase' # "create"
    BY <1>2, AlwaysFixed DEF DirNext, NextFrame, Sort, dirVars
  <2> QED
    BY <1>1, <2>1, RoomStays
<1>3. CASE UNCHANGED storeVars
  <2>1. UNCHANGED <<fixed, buf, opened, frameCount, phase>>
    BY <1>3 DEF storeVars, sortVars, dirVars, fixed
  <2> QED
    BY <1>1, <2>1, RoomStays
<1> SUFFICES ASSUME CreateStore \/ PostSame \/ PostSwitch \/ PostFile \/ FlushOrCleanup
             PROVE  /\ phase' # "create"
                    /\ frameCount' \in 0..Period
                    /\ Flat => \A j \in Chan : buf'[j] = <<>>
                    /\ \A j \in Chan :
                         /\ IsSequence(buf'[j])
                         /\ j < opened' => Len(buf'[j]) <= frameCount' + Period - 1
  <2>1. DirNext => UNCHANGED fixed
    BY AlwaysFixed
  <2>2. UNCHANGED fixed => Period' = Period /\ Chan' = Chan /\ Flat' = Flat
    BY FixedMeans
  <2> QED
    BY <1>2, <1>3, <2>1, <2>2 DEF DirNext, Room
<1>4. frameCount \in 0..Period /\ IsSequence(<<>>) /\ Len(<<>>) = 0
  BY <1>1, NoneYet DEF Room
<1>5. CASE CreateStore
  <2>1. \A j \in Chan : buf'[j] = <<>>
    BY <1>1, <1>5 DEF CreateStore, Room
  <2>2. phase' # "create" /\ frameCount' = frameCount
    BY <1>5 DEF CreateStore
  <2> QED
    BY <1>1, <1>4, <2>1, <2>2
<1>6. CASE PostSame
  <2>1. phase' = "frame" /\ ~Flat /\ opened' = opened
    BY <1>6 DEF PostSame
  <2>2. ASSUME NEW j \in Chan
        PROVE  /\ IsSequence(With(buf)[j]) /\ Len(With(buf)[j]) \in Nat
               /\ j < opened => Len(With(buf)[j]) <= frameCount + Period
    <3>1. /\ IsSequence(buf[j])
          /\ j < opened => Len(buf[j]) <= frameCount + Period - 1
      BY <1>1 DEF Room
    <3> QED
      BY <1>1, <1>4, <3>1, WithRoom
  <2>3. CASE frameCount >= Period
    <3>1. buf' = Kept(With(buf), FALSE) /\ frameCount' = 0
      BY <1>6, <2>3 DEF PostSame
    <3>0. frameCount' = 0 /\ Period - 1 \in Nat
      BY <1>1, <3>1
    <3>2. ASSUME NEW j \in Chan
          PROVE  \/ buf'[j] = <<>>
                 \/ buf'[j] = With(buf)[j] /\ ~(j < opened /\ Len(With(buf)[j]) >= Period)
      BY <1>1, <3>1 DEF Kept, Writes
    <3>3. ASSUME NEW j \in Chan
          PROVE  /\ IsSequence(buf'[j])
                 /\ j < opened' => Len(buf'[j]) <= frameCount' + Period - 1
      <4>1. CASE buf'[j] = <<>>
        <5>1. IsSequence(buf'[j]) /\ Len(buf'[j]) = 0
          BY <1>4, <4>1
        <5>2. Len(buf'[j]) <= frameCount' + Period - 1
          BY <1>1, <3>0, <5>1
        <5> QED
          BY <5>1, <5>2, Zenon
      <4>2. CASE /\ buf'[j] = With(buf)[j]
                 /\ ~(j < opened /\ Len(With(buf)[j]) >= Period)
        <5>1. IsSequence(buf'[j]) /\ Len(buf'[j]) \in Nat
          BY <2>2, <4>2
        <5>2. ~(j < opened' /\ Len(buf'[j]) >= Period)
          BY <2>1, <4>2
        <5>3. ~(Len(buf'[j]) >= Period) => Len(buf'[j]) <= frameCount' + Period - 1
          BY <1>1, <3>0, <5>1
        <5> QED
          BY <5>1, <5>2, <5>3, Zenon
      <4> QED
        BY <3>2, <4>1, <4>2
    <3>4. frameCount' \in 0..Period
      BY <1>1, <3>1
    <3> QED
      BY <2>1, <3>3, <3>4
  <2>4. CASE ~(frameCount >= Period)
    <3>1. buf' = With(buf) /\ frameCount' = frameCount + 1
      BY <1>6, <2>4 DEF PostSame
    <3> QED
      BY <1>1, <1>4, <2>1, <2>2, <2>4, <3>1
  <2> QED
    BY <2>3, <2>4
<1>7. CASE PostSwitch
  <2>1. phase' = "frame" /\ ~Flat
    BY <1>7 DEF PostSwitch
  <2>2. \A j \in Chan : Empty[j] = <<>>
    BY DEF Empty
  <2>3. \/ buf' = Empty /\ frameCount' = 0
        \/ buf' = With(Empty) /\ frameCount' = 1
    BY <1>7 DEF PostSwitch
  <2>4. ASSUME NEW j \in Chan
        PROVE  IsSequence(With(Empty)[j]) /\ Len(With(Empty)[j]) \in Nat
               /\ Len(With(Empty)[j]) <= 1
    BY <1>4, <2>2, WithRoom
  <2> QED
    BY <1>1, <1>4, <2>1, <2>2, <2>3, <2>4
<1>8. CASE PostFile
  <2>1. phase' = "frame" /\ Flat /\ buf' = buf /\ frameCount' = frameCount
    BY <1>8 DEF PostFile
  <2>2. \A j \in Chan : buf'[j] = <<>>
    BY <1>1, <2>1 DEF Room
  <2> QED
    BY <1>1, <1>4, <2>1, <2>2
<1>9. CASE FlushOrCleanup
  <2>1. /\ phase' # "create" /\ buf' = Kept(buf, TRUE)
        /\ opened' = opened /\ frameCount' = frameCount
    BY <1>9 DEF FlushOrCleanup
  <2>2. ASSUME NEW j \in Chan PROVE buf'[j] = <<>> \/ buf'[j] = buf[j]
    BY <2>1 DEF Kept
  <2>3. ASSUME NEW j \in Chan
        PROVE  /\ IsSequence(buf'[j])
               /\ j < opened' => Len(buf'[j]) <= frameCount' + Period - 1
    <3>1. CASE buf'[j] = <<>>
      <4>1. IsSequence(buf'[j]) /\ Len(buf'[j]) = 0
        BY <1>4, <3>1
      <4>2. Len(buf'[j]) <= frameCount' + Period - 1
        <5>1. frameCount' \in Nat /\ Period - 1 \in Nat
          BY <1>1, <1>4, <2>1
        <5> QED
          BY <4>1, <5>1
      <4> QED
        BY <4>1, <4>2, Zenon
    <3>2. CASE buf'[j] = buf[j]
      BY <1>1, <2>1, <3>2 DEF Room
    <3> QED
      BY <2>2, <3>1, <3>2
  <2> QED
    BY <1>1, <1>4, <2>1, <2>2, <2>3 DEF Room
<1> QED
  BY <1>5, <1>6, <1>7, <1>8, <1>9

LEMMA DirInvHolds == DirSpec => []DirInv
<1>1. DirInv /\ [DirNext]_storeVars => DirInv'
  BY NextSorting, NextCounting, NextReady, NextFilled, NextRoom DEF DirInv
<1> QED
  BY <1>1, InitInv, PTL DEF DirSpec

-----------------------------------------------------------------------------
(* Which frames are in which file.                                         *)

(* The files and channels there are, and what they have so far.            *)
Stored ==
  /\ DOMAIN file = Dirs
  /\ \A d \in Dirs : /\ DOMAIN file[d] = Chan
                     /\ \A j \in Chan : IsSequence(file[d][j])

(* Without failures everything is open. *)
Open   == made /\ (~Flat => opened = Size) /\ (Flat => opened = 1)
Opened == failing = {} /\ phase # "create" => Open

(* After m switches behind the first, which is at frame 0, the file is that *)
(* of the last frame, and lasts until nextSwitch.                           *)
SwitchedAt(m) ==
  /\ m * interval <= posted - 1 /\ posted - 1 < nextSwitch
  /\ nextSwitch = m * interval + interval
  /\ idx = IF interval = 1 THEN m + 1 ELSE m
Switching ==
  /\ ~Sequence => interval = MaxFrames + 1 /\ idx = 0
  /\ Sequence /\ posted = 0 => nextSwitch = 0
  /\ Sequence /\ posted # 0 => \E m \in Nat : SwitchedAt(m)

AllTaken ==
  /\ accepted \subseteq 0..(posted - 1)
  /\ failing = {} => accepted = 0..(posted - 1)
  /\ phase = "create" => posted = 0

(* The file of a frame.  The count is advanced before it is divided, which *)
(* shows when there is one frame in a file. *)
FileOf(v) == IF interval = 1 THEN v + 1 ELSE v \div interval

(* s has the frames F, in order. *)
Cut(s, F) ==
  /\ {s[i][1] : i \in 1..Len(s)} = F
  /\ \A i, k \in 1..Len(s) : i < k => s[i][1] < s[k][1]
FramesOf(d) == {v \in accepted : FileOf(v) = d}
IsCut == failing = {} \/ Flat =>
           \A d \in Dirs, j \in Chan : Cut(Has(d, j), FramesOf(d))

CutInv == Stored /\ Opened /\ Switching /\ AllTaken /\ IsCut

-----------------------------------------------------------------------------
(* Sequences of anything. *)
LEMMA Elements ==
  ASSUME NEW s, IsSequence(s)
  PROVE  /\ Len(s) \in Nat /\ DOMAIN s = 1..Len(s)
         /\ s \o <<>> = s
BY LenProperties, ConcatEmptySeq DEF IsSequence

LEMMA Together ==
  ASSUME NEW s, NEW t, IsSequence(s), IsSequence(t), NEW e
  PROVE  \E S : s \in Seq(S) /\ t \in Seq(S) /\ e \in S
<1>1. PICK S : s \in Seq(S)
  BY DEF IsSequence
<1>2. PICK T : t \in Seq(T)
  BY DEF IsSequence
<1> DEFINE U == (S \cup T) \cup {e}
<1>3. S \subseteq U /\ T \subseteq U /\ e \in U
  OBVIOUS
<1> HIDE DEF U
<1>4. s \in Seq(U) /\ t \in Seq(U)
  BY <1>1, <1>2, <1>3, SeqMonotonic
<1> QED
  BY <1>3, <1>4

LEMMA Joining ==
  ASSUME NEW s, NEW t, IsSequence(s), IsSequence(t)
  PROVE  IsSequence(s \o t)
<1>1. PICK S : s \in Seq(S) /\ t \in Seq(S)
  BY Together
<1> QED
  BY <1>1, ConcatProperties DEF IsSequence

LEMMA JoinLast ==
  ASSUME NEW s, NEW t, IsSequence(s), IsSequence(t), NEW e
  PROVE  s \o Append(t, e) = Append(s \o t, e)
<1>1. PICK S : s \in Seq(S) /\ t \in Seq(S) /\ e \in S
  BY Together
<1> DEFINE a == s \o Append(t, e)
           b == Append(s \o t, e)
<1>2. /\ Append(t, e) \in Seq(S) /\ Len(Append(t, e)) = Len(t) + 1
      /\ \A i \in 1..Len(t) : Append(t, e)[i] = t[i]
      /\ Append(t, e)[Len(t) + 1] = e
  BY <1>1, AppendProperties
<1>3. /\ s \o t \in Seq(S) /\ Len(s \o t) = Len(s) + Len(t)
      /\ \A i \in 1..(Len(s) + Len(t)) :
           (s \o t)[i] = IF i <= Len(s) THEN s[i] ELSE t[i - Len(s)]
  BY <1>1, ConcatProperties
<1>4. /\ a \in Seq(S) /\ Len(a) = Len(s) + (Len(t) + 1)
      /\ \A i \in 1..(Len(s) + (Len(t) + 1)) :
           a[i] = IF i <= Len(s) THEN s[i] ELSE Append(t, e)[i - Len(s)]
  BY SMTT(40), <1>1, <1>2, ConcatProperties
<1>5. /\ b \in Seq(S) /\ Len(b) = Len(s \o t) + 1
      /\ \A i \in 1..Len(s \o t) : b[i] = (s \o t)[i]
      /\ b[Len(s \o t) + 1] = e
  BY <1>1, <1>3, AppendProperties
<1>6. Len(s) \in Nat /\ Len(t) \in Nat
  BY <1>1, LenProperties
<1> HIDE DEF a, b
<1>7. Len(a) = Len(b) /\ Len(a) = Len(s) + Len(t) + 1
  BY <1>3, <1>4, <1>5, <1>6
<1>8. ASSUME NEW i \in 1..Len(a) PROVE a[i] = b[i]
  <2>1. CASE i <= Len(s)
    <3>1. i \in 1..Len(s) /\ i \in 1..Len(s \o t) /\ i \in 1..(Len(s) + Len(t))
      BY <1>3, <1>6, <1>7, <2>1
    <3>2. i \in 1..(Len(s) + (Len(t) + 1))
      BY <1>6, <3>1
    <3>3. a[i] = s[i]
      BY <1>4, <2>1, <3>2
    <3>4. b[i] = s[i]
      BY <1>3, <1>5, <2>1, <3>1
    <3> QED
      BY <3>3, <3>4
  <2>2. CASE i > Len(s) /\ i <= Len(s) + Len(t)
    <3>1. i - Len(s) \in 1..Len(t)
      BY <1>6, <2>2, <1>7
    <3>2. a[i] = Append(t, e)[i - Len(s)] /\ b[i] = t[i - Len(s)]
      BY <1>3, <1>4, <1>5, <1>6, <1>7, <2>2
    <3> QED
      BY <1>2, <3>1, <3>2
  <2>3. CASE i = Len(s) + Len(t) + 1
    <3>1. i - Len(s) = Len(t) + 1 /\ ~(i <= Len(s))
      BY <1>6, <2>3
    <3>2. a[i] = Append(t, e)[i - Len(s)] /\ b[i] = e
      BY <1>3, <1>4, <1>5, <1>6, <1>7, <2>3, <3>1
    <3> QED
      BY <1>2, <3>1, <3>2
  <2> QED
    BY <1>6, <1>7, <2>1, <2>2, <2>3
<1> QED
  BY <1>4, <1>5, <1>7, <1>8, SeqEqual DEF a, b

LEMMA Last ==
  ASSUME NEW s, IsSequence(s), NEW e
  PROVE  /\ Len(s) \in Nat /\ Len(Append(s, e)) = Len(s) + 1
         /\ \A i \in 1..Len(s) : Append(s, e)[i] = s[i]
         /\ Append(s, e)[Len(s) + 1] = e
<1>1. PICK S : s \in Seq(S) /\ e \in S
  BY Together
<1> QED
  BY <1>1, AppendProperties, LenProperties

-----------------------------------------------------------------------------
(* A frame more. *)
LEMMA CutAppend ==
  ASSUME NEW s, IsSequence(s), NEW v \in Nat, NEW F, F \subseteq 0..(v - 1),
         Cut(s, F), NEW e, e[1] = v
  PROVE  Cut(Append(s, e), F \cup {v})
<1> DEFINE t == Append(s, e)
           l == Len(s)
<1>1. /\ l \in Nat /\ Len(t) = l + 1
      /\ \A i \in 1..l : t[i] = s[i]
      /\ t[l + 1] = e
  BY Last
<1>2. 1..Len(t) = (1..l) \cup {l + 1}
  BY <1>1
<1> HIDE DEF t, l
<1>3. /\ {s[i][1] : i \in 1..l} = F
      /\ \A i, k \in 1..l : i < k => s[i][1] < s[k][1]
  BY DEF Cut, l
<1>4. \A i \in 1..l : s[i][1] \in 0..(v - 1)
  BY <1>3
<1>5. {t[i][1] : i \in 1..Len(t)} = F \cup {v}
  BY <1>1, <1>2, <1>3
<1>6. ASSUME NEW i \in 1..Len(t), NEW k \in 1..Len(t), i < k
      PROVE  t[i][1] < t[k][1]
  <2>1. i \in 1..l
    BY <1>1, <1>6
  <2>2. t[i][1] = s[i][1] /\ s[i][1] \in 0..(v - 1)
    BY <1>1, <1>4, <2>1
  <2>3. CASE k \in 1..l
    BY <1>1, <1>3, <1>6, <2>1, <2>2, <2>3
  <2>4. CASE k = l + 1
    BY <1>1, <2>2, <2>4
  <2> QED
    BY <1>2, <2>3, <2>4
<1> QED
  BY <1>5, <1>6 DEF Cut, t

(* What is taken from a buffer is what is written. *)
LEMMA Moved ==
  ASSUME Stored, idx \in Dirs, NEW b, \A j \in Chan : IsSequence(b[j]), NEW flush
  PROVE  /\ DOMAIN Written(b, flush) = Dirs
         /\ \A d \in Dirs : d # idx => Written(b, flush)[d] = file[d]
         /\ DOMAIN Written(b, flush)[idx] = Chan
         /\ \A j \in Chan :
              /\ IsSequence(Written(b, flush)[idx][j])
              /\ IsSequence(Kept(b, flush)[j])
              /\ Written(b, flush)[idx][j] \o Kept(b, flush)[j] = file[idx][j] \o b[j]
              /\ Writes(b, flush, j) => Written(b, flush)[idx][j] = file[idx][j] \o b[j]
<1> DEFINE new == [j \in Chan |-> IF Writes(b, flush, j) THEN file[idx][j] \o b[j]
                                  ELSE file[idx][j]]
<1>1. DOMAIN file = Dirs /\ Written(b, flush) = [file EXCEPT ![idx] = new]
  BY DEF Stored, Written
<1>2. Written(b, flush)[idx] = new
  BY <1>1
<1>3. ASSUME NEW j \in Chan
      PROVE  /\ IsSequence(new[j]) /\ IsSequence(Kept(b, flush)[j])
             /\ new[j] \o Kept(b, flush)[j] = file[idx][j] \o b[j]
             /\ Writes(b, flush, j) => new[j] = file[idx][j] \o b[j]
  <2>1. IsSequence(file[idx][j]) /\ IsSequence(b[j])
    BY DEF Stored
  <2>2. IsSequence(file[idx][j] \o b[j])
    BY <2>1, Joining
  <2>3. CASE Writes(b, flush, j)
    <3>1. new[j] = file[idx][j] \o b[j] /\ Kept(b, flush)[j] = <<>>
      BY <2>3 DEF Kept
    <3>2. (file[idx][j] \o b[j]) \o <<>> = file[idx][j] \o b[j]
      BY <2>2, Elements
    <3> QED
      BY <2>2, <3>1, <3>2, NoneYet
  <2>4. CASE ~Writes(b, flush, j)
    <3>1. new[j] = file[idx][j] /\ Kept(b, flush)[j] = b[j]
      BY <2>4 DEF Kept
    <3> QED
      BY <2>1, <2>4, <3>1
  <2> QED
    BY <2>3, <2>4
<1>4. DOMAIN new = Chan
  OBVIOUS
<1> HIDE DEF new
<1> QED
  BY <1>1, <1>2, <1>3, <1>4

-----------------------------------------------------------------------------
(* The number of the file is that of the frame's interval. *)
LEMMA QuotientFrom ==
  ASSUME NEW x \in Nat, NEW k \in Nat \ {0}, NEW m \in Nat,
         m * k <= x, x < m * k + k
  PROVE  x \div k = m
<1> DEFINE r == x - m * k
<1>1. m * k \in Nat
  BY Product
<1>2. r \in Nat /\ r < k /\ x = m * k + r
  BY <1>1
<1> HIDE DEF r
<1> QED
  BY <1>2, QuotientIs

LEMMA QuotientSmall ==
  ASSUME NEW x \in Nat, NEW k \in Nat \ {0}
  PROVE  x \div k \in Nat /\ x \div k <= x
<1> DEFINE q == x \div k
           z == x % k
<1>1. q \in Nat /\ z \in Nat /\ x = q * k + z
  BY Divided
<1> HIDE DEF q, z
<1>2. 1 * q <= k * q
  BY <1>1, TimesMonotone
<1>3. k * q = q * k /\ q * k \in Nat /\ 1 * q = q
  BY <1>1, Product, SMT
<1>4. q <= x
  BY <1>1, <1>2, <1>3
<1> QED
  BY <1>1, <1>4 DEF q

LEMMA SwitchIs ==
  ASSUME Counting, Switching, phase = "post",
         posted' = posted + 1, UNCHANGED fixed,
         \/ /\ SwitchDue /\ idx' = NewIdx /\ nextSwitch' = nextSwitch + interval
         \/ /\ ~SwitchDue /\ idx' = idx /\ (Sequence => nextSwitch' = nextSwitch)
  PROVE  Switching' /\ idx' = FileOf(posted)
<1>1. /\ interval \in Nat \ {0} /\ posted \in Nat /\ posted < MaxFrames
      /\ Sequence' = Sequence /\ interval' = interval /\ MaxFrames \in Nat
  BY FixedMeans, DirfileAssumption DEF Counting, fixed
<1>2. CASE ~Sequence
  <2>1. interval = MaxFrames + 1 /\ idx' = 0
    BY <1>2 DEF Switching, SwitchDue
  <2>2. posted \div interval = 0
    <3>1. 0 * interval <= posted /\ posted < 0 * interval + interval
      BY <1>1, <2>1
    <3> QED
      BY <1>1, <3>1, QuotientFrom
  <2> QED
    BY <1>1, <1>2, <2>1, <2>2 DEF Switching, FileOf
<1>3. CASE Sequence
  <2>1. /\ seqCount = posted /\ Counted = posted + 1
        /\ SwitchDue <=> posted >= nextSwitch
    BY <1>3 DEF Counting, Counted, SwitchDue
  <2> SUFFICES \E m \in Nat : SwitchedAt(m)' /\ idx' = FileOf(posted)
    <3>1. posted' = posted + 1 /\ posted' # 0 /\ posted' - 1 = posted
      BY <1>1
    <3> QED
      BY <1>1, <1>3, <3>1 DEF Switching, SwitchedAt
  <2>2. ASSUME NEW m \in Nat, idx' = (IF interval = 1 THEN m + 1 ELSE m),
               m * interval <= posted, posted < m * interval + interval,
               nextSwitch' = m * interval + interval
        PROVE  SwitchedAt(m)' /\ idx' = FileOf(posted)
    <3>1. posted \div interval = m
      BY <1>1, <2>2, QuotientFrom
    <3>2. interval = 1 => posted = m
      BY <1>1, <2>2
    <3> QED
      BY <1>1, <2>2, <3>1, <3>2 DEF SwitchedAt, FileOf
  <2>3. CASE posted = 0
    <3>1. SwitchDue /\ nextSwitch = 0
      BY <1>3, <2>1, <2>3 DEF Switching
    <3>2. idx' = 1 \div interval /\ nextSwitch' = interval
      BY <1>1, <2>1, <2>3, <3>1 DEF NewIdx
    <3>3. CASE interval = 1
      <4>1. 1 \div interval = 1
        BY <3>3, QuotientFrom
      <4> QED
        BY <1>1, <2>2, <2>3, <3>2, <3>3, <4>1
    <3>4. CASE interval # 1
      <4>1. 1 \div interval = 0
        <5>1. 0 * interval <= 1 /\ 1 < 0 * interval + interval
          BY <1>1, <3>4
        <5> QED
          BY <1>1, <5>1, QuotientFrom
      <4>2. 0 * interval <= posted /\ posted < 0 * interval + interval
            /\ nextSwitch' = 0 * interval + interval
        BY <1>1, <2>3, <3>2
      <4> QED
        BY <1>1, <2>2, <3>2, <3>4, <4>1, <4>2
    <3> QED
      BY <3>3, <3>4
  <2>4. CASE posted # 0
    <3>1. PICK m \in Nat : SwitchedAt(m)
      BY <1>3, <2>4 DEF Switching
    <3>2. /\ m * interval <= posted - 1 /\ posted - 1 < nextSwitch
          /\ nextSwitch = m * interval + interval /\ m * interval \in Nat
          /\ idx = IF interval = 1 THEN m + 1 ELSE m
      BY <1>1, <3>1, Product DEF SwitchedAt
    <3>3. CASE ~SwitchDue
      <4>1. idx' = idx /\ nextSwitch' = nextSwitch /\ posted < nextSwitch
        BY <1>1, <1>3, <2>1, <3>2, <3>3
      <4> QED
        BY <1>1, <1>3, <2>2, <3>2, <4>1
    <3>4. CASE SwitchDue
      <4>1. posted = nextSwitch /\ nextSwitch' = nextSwitch + interval /\ idx' = NewIdx
        BY <1>1, <2>1, <3>2, <3>4
      <4>2. (m + 1) * interval = m * interval + interval /\ m + 1 \in Nat
        BY <1>1, SMT
      <4>3. posted + 1 \in Nat /\ posted = (m + 1) * interval
        BY <1>1, <3>2, <4>1, <4>2
      <4>4. (posted + 1) \div interval = IF interval = 1 THEN (m + 1) + 1 ELSE m + 1
        <5>1. CASE interval = 1
          <6>1. posted = m + 1
            BY <3>2, <4>1, <5>1
          <6>2. (posted + 1) \div interval = posted + 1
            BY <1>1, <5>1, QuotientFrom
          <6> QED
            BY <5>1, <6>1, <6>2
        <5>2. CASE interval # 1
          <6>1. (m + 1) * interval <= posted + 1
                /\ posted + 1 < (m + 1) * interval + interval
            BY <1>1, <4>2, <4>3, <5>2
          <6>2. (posted + 1) \div interval = m + 1
            BY <1>1, <4>2, <4>3, <6>1, QuotientFrom
          <6> QED
            BY <5>2, <6>2
        <5> QED
          BY <5>1, <5>2
      <4>5. idx' = IF interval = 1 THEN (m + 1) + 1 ELSE m + 1
        BY <2>1, <4>1, <4>4 DEF NewIdx
      <4>6. /\ (m + 1) * interval <= posted /\ posted < (m + 1) * interval + interval
            /\ nextSwitch' = (m + 1) * interval + interval
        BY <1>1, <4>1, <4>2, <4>3
      <4> QED
        BY <2>2, <4>2, <4>5, <4>6
    <3> QED
      BY <3>3, <3>4
  <2> QED
    BY <2>3, <2>4
<1> QED
  BY <1>2, <1>3

-----------------------------------------------------------------------------
LEMMA CutInit == DirInit => CutInv
<1> SUFFICES ASSUME DirInit PROVE CutInv
  OBVIOUS
<1>1. /\ file = [d \in Dirs |-> Empty] /\ accepted = {} /\ posted = 0
      /\ phase = "create" /\ idx = 0 /\ nextSwitch = 0
      /\ ~Sequence => interval = MaxFrames + 1
      /\ buf = Empty
  BY DEF DirInit
<1>2. DOMAIN Empty = Chan /\ \A j \in Chan : Empty[j] = <<>>
  BY DEF Empty
<1>3. Stored
  BY <1>1, <1>2, NoneYet DEF Stored
<1>4. Opened /\ Switching /\ AllTaken
  BY <1>1 DEF Opened, Switching, AllTaken
<1>5. IsCut
  <2> SUFFICES ASSUME NEW d \in Dirs, NEW j \in Chan
               PROVE  Cut(Has(d, j), FramesOf(d))
    BY DEF IsCut
  <2>1. <<>> \o <<>> = <<>>
    BY NoneYet, Elements
  <2>2. Has(d, j) = <<>>
    BY <1>1, <1>2, <2>1 DEF Has
  <2> QED
    BY <1>1, <2>2, NoneYet DEF Cut, FramesOf
<1> QED
  BY <1>3, <1>4, <1>5 DEF CutInv

LEMMA FixedCut ==
  ASSUME UNCHANGED fixed
  PROVE  /\ Size' = Size /\ Dirs' = Dirs
         /\ \A d : FramesOf(d)' = {v \in accepted' : FileOf(v) = d}
<1>1. UNCHANGED <<cards, rows, cols, kind, interval>>
  BY DEF fixed
<1> QED
  BY <1>1 DEF FileOf, FramesOf, Size, CardsOut, Dirs

(* What does not touch files and frames. *)
LEMMA CutStays ==
  ASSUME CutInv,
         UNCHANGED <<fixed, failing, idx, nextSwitch, made, opened, buf, file,
                     posted, accepted>>,
         phase' = "create" <=> phase = "create"
  PROVE  CutInv'
<1>1. /\ UNCHANGED fixed
      /\ failing' = failing /\ idx' = idx /\ nextSwitch' = nextSwitch
      /\ made' = made /\ opened' = opened /\ buf' = buf /\ file' = file
      /\ posted' = posted /\ accepted' = accepted /\ interval' = interval
  BY DEF fixed
<1>2. /\ Chan' = Chan /\ Flat' = Flat /\ Sequence' = Sequence /\ Dirs' = Dirs
      /\ Size' = Size /\ \A d : FramesOf(d)' = FramesOf(d)
  BY <1>1, FixedMeans, FixedCut DEF FramesOf
<1>3. Stored' /\ Opened' /\ Switching' /\ AllTaken'
  BY <1>1, <1>2 DEF CutInv, Stored, Opened, Open, Switching, SwitchedAt, AllTaken
<1>4. IsCut'
  <2>1. \A d, j : Has(d, j)' = Has(d, j)
    BY <1>1 DEF Has
  <2> QED
    BY <1>1, <1>2, <2>1 DEF CutInv, IsCut
<1> QED
  BY <1>3, <1>4 DEF CutInv

-----------------------------------------------------------------------------
(* What a step does to the files: nothing, or one frame more in all channels *)
(* of the present one.                                                       *)
Same == \A d \in Dirs, j \in Chan : Has(d, j)' = Has(d, j)
More == \A d \in Dirs, j \in Chan :
          IF d = idx' THEN \E e : e[1] = posted /\ Has(d, j)' = Append(Has(d, j), e)
          ELSE Has(d, j)' = Has(d, j)

(* A frame at the end of what a channel has. *)
Ends(h, t) == \E e : e[1] = posted /\ h = Append(t, e)

LEMMA Given ==
  ASSUME NEW s, NEW b, NEW j \in Chan, IsSequence(s), IsSequence(b[j]), made'
  PROVE  Ends(s \o With(b)[j], s \o b[j])
<1> DEFINE e == <<posted, data[Offset(j)]>>
<1>1. With(b)[j] = Append(b[j], e) /\ e[1] = posted
  BY DEF With
<1> HIDE DEF e
<1>2. s \o Append(b[j], e) = Append(s \o b[j], e)
  BY JoinLast
<1> QED
  BY <1>1, <1>2 DEF Ends

LEMMA StoredIs ==
  ASSUME UNCHANGED fixed, DOMAIN file' = Dirs,
         \A d \in Dirs : /\ DOMAIN file'[d] = Chan
                         /\ \A j \in Chan : IsSequence(file'[d][j])
  PROVE  Stored'
BY FixedMeans, FixedCut DEF Stored

LEMMA SameHas ==
  ASSUME DirInv, CutInv, PostSame, UNCHANGED fixed
  PROVE  Stored' /\ (made => More)
<1>1. Stored /\ idx \in Dirs /\ idx' = idx /\ made' = made
  BY DEF CutInv, DirInv, Counting, Dirs, PostSame
<1>2. \A j \in Chan : IsSequence(buf[j]) /\ IsSequence(With(buf)[j])
  BY WithRoom DEF DirInv, Room
<1> DEFINE b == With(buf)
<1>3. /\ DOMAIN file' = Dirs /\ DOMAIN file'[idx] = Chan
      /\ \A d \in Dirs : d # idx => file'[d] = file[d]
      /\ \A j \in Chan : /\ IsSequence(file'[idx][j])
                         /\ file'[idx][j] \o buf'[j] = file[idx][j] \o b[j]
  <2>1. CASE frameCount >= Period
    <3>1. buf' = Kept(With(buf), FALSE) /\ file' = Written(With(buf), FALSE)
      BY <2>1 DEF PostSame
    <3> QED
      BY <1>1, <1>2, <3>1, Moved
  <2>2. CASE ~(frameCount >= Period)
    <3>1. buf' = With(buf) /\ file' = file
      BY <2>2 DEF PostSame
    <3> QED
      BY <1>1, <3>1 DEF Stored
  <2> QED
    BY <2>1, <2>2
<1>4. Stored'
  BY <1>1, <1>3, StoredIs DEF Stored
<1>5. ASSUME made PROVE More
  <2> SUFFICES ASSUME NEW d \in Dirs, NEW j \in Chan
               PROVE  IF d = idx THEN Ends(Has(d, j)', Has(d, j))
                      ELSE Has(d, j)' = Has(d, j)
    BY <1>1 DEF More, Ends
  <2>1. CASE d = idx
    <3>1. Has(d, j) = file[idx][j] \o buf[j] /\ Has(d, j)' = file'[idx][j] \o buf'[j]
      BY <1>1, <2>1 DEF Has
    <3>2. IsSequence(file[idx][j])
      BY <1>1 DEF Stored
    <3>3. Ends(file[idx][j] \o b[j], file[idx][j] \o buf[j])
      BY <1>1, <1>2, <1>5, <3>2, Given
    <3> QED
      BY <1>3, <2>1, <3>1, <3>3
  <2>2. CASE d # idx
    BY <1>1, <1>3, <2>2 DEF Has
  <2> QED
    BY <2>1, <2>2
<1> QED
  BY <1>4, <1>5

LEMMA SwitchHas ==
  ASSUME DirInv, CutInv, PostSwitch, UNCHANGED fixed
  PROVE  Stored' /\ (Open /\ ~Failed => More)
<1>1. Stored /\ idx \in Dirs /\ ~Flat
  BY DEF CutInv, DirInv, Counting, Dirs, PostSwitch
<1>2. \A j \in Chan : IsSequence(buf[j])
  BY DEF DirInv, Room
<1>3. file' = Written(buf, TRUE) /\ idx' # idx
  BY DEF PostSwitch, ClosingWrite
<1>4. /\ DOMAIN file' = Dirs /\ DOMAIN file'[idx] = Chan
      /\ \A d \in Dirs : d # idx => file'[d] = file[d]
      /\ \A j \in Chan : /\ IsSequence(file'[idx][j])
                         /\ Writes(buf, TRUE, j) => file'[idx][j] = file[idx][j] \o buf[j]
  BY <1>1, <1>2, <1>3, Moved
<1>5. Stored'
  BY <1>1, <1>4, StoredIs DEF Stored
<1>6. ASSUME Open, ~Failed PROVE More
  <2> SUFFICES ASSUME NEW d \in Dirs, NEW j \in Chan
               PROVE  IF d = idx' THEN Ends(Has(d, j)', Has(d, j))
                      ELSE Has(d, j)' = Has(d, j)
    BY DEF More, Ends
  <2>1. made' /\ buf' = With(Empty) /\ Empty[j] = <<>>
    BY <1>6 DEF PostSwitch, Failed, Empty
  <2>2. Writes(buf, TRUE, j)
    <3>1. Size \in Nat
      BY Sizes DEF DirInv, Sorting
    <3> QED
      BY <1>1, <1>6, <3>1 DEF Open, Chan, Writes
  <2>3. CASE d = idx'
    <3>1. Has(d, j) = file[d][j] \o <<>> /\ Has(d, j)' = file[d][j] \o With(Empty)[j]
      BY <1>3, <1>4, <2>1, <2>3 DEF Has
    <3>2. IsSequence(file[d][j])
      BY <1>1 DEF Stored
    <3>3. Ends(file[d][j] \o With(Empty)[j], file[d][j] \o Empty[j])
      BY <2>1, <3>2, Given, NoneYet
    <3> QED
      BY <2>1, <2>3, <3>1, <3>3
  <2>4. CASE d = idx
    <3>1. Has(d, j) = file[idx][j] \o buf[j] /\ Has(d, j)' = file'[idx][j] \o <<>>
      BY <1>3, <2>4 DEF Has
    <3>2. file'[idx][j] \o <<>> = file'[idx][j]
      BY <1>4, Elements
    <3> QED
      BY <1>3, <1>4, <2>2, <2>4, <3>1, <3>2
  <2>5. CASE d # idx /\ d # idx'
    BY <1>4, <2>5 DEF Has
  <2> QED
    BY <2>3, <2>4, <2>5
<1> QED
  BY <1>5, <1>6

LEMMA FileHas ==
  ASSUME DirInv, CutInv, PostFile, UNCHANGED fixed, idx' \in Dirs
  PROVE  Stored' /\ IF opened' = 0 THEN Same ELSE More
<1>1. Stored /\ Flat /\ buf' = buf /\ Chan = {0}
  BY DEF CutInv, PostFile, Chan
<1>2. \A j \in Chan : buf[j] = <<>>
  BY <1>1 DEF DirInv, Room
<1>3. ASSUME NEW d \in Dirs, NEW j \in Chan
      PROVE  Has(d, j) = file[d][j] /\ IsSequence(file[d][j])
  BY <1>1, <1>2, Elements DEF Has, Stored
<1>4. CASE opened' = 0
  <2>1. file' = file
    BY <1>4 DEF PostFile
  <2>2. \A d \in Dirs, j \in Chan : Has(d, j)' = file[d][j]
    BY <1>1, <1>2, <1>3, <2>1, Elements DEF Has
  <2> QED
    BY <1>1, <1>3, <1>4, <2>1, <2>2, StoredIs DEF Stored, Same
<1>5. CASE opened' # 0
  <2> DEFINE e == <<posted, data>>
             new == [j \in Chan |-> Append(file[idx'][j], e)]
  <2>1. file' = [file EXCEPT ![idx'] = new]
    BY <1>5 DEF PostFile, Appended
  <2>2. e[1] = posted /\ DOMAIN new = Chan
    OBVIOUS
  <2>3. ASSUME NEW j \in Chan
        PROVE  new[j] = Append(file[idx'][j], e) /\ IsSequence(new[j])
    BY <1>3, Appending
  <2> HIDE DEF e, new
  <2>4. /\ DOMAIN file' = Dirs /\ file'[idx'] = new
        /\ \A d \in Dirs : d # idx' => file'[d] = file[d]
    BY <1>1, <2>1 DEF Stored
  <2>5. Stored'
    BY <1>1, <2>2, <2>3, <2>4, StoredIs DEF Stored
  <2>6. More
    <3> SUFFICES ASSUME NEW d \in Dirs, NEW j \in Chan
                 PROVE  IF d = idx' THEN Ends(Has(d, j)', Has(d, j))
                        ELSE Has(d, j)' = Has(d, j)
      BY DEF More, Ends
    <3>1. IsSequence(file'[d][j])
      BY <1>3, <2>3, <2>4
    <3>2. Has(d, j)' = file'[d][j]
      BY <1>1, <1>2, <3>1, Elements DEF Has
    <3>3. CASE d = idx'
      BY <1>3, <2>2, <2>3, <2>4, <3>2, <3>3 DEF Ends
    <3>4. CASE d # idx'
      BY <1>3, <2>4, <3>2, <3>4
    <3> QED
      BY <3>3, <3>4
  <2> QED
    BY <1>5, <2>5, <2>6
<1> QED
  BY <1>4, <1>5

LEMMA FlushHas ==
  ASSUME DirInv, CutInv, FlushOrCleanup, UNCHANGED fixed
  PROVE  Stored' /\ Same
<1>1. Stored /\ idx \in Dirs /\ idx' = idx
  BY DEF CutInv, DirInv, Counting, Dirs, FlushOrCleanup
<1>2. \A j \in Chan : IsSequence(buf[j])
  BY DEF DirInv, Room
<1>3. buf' = Kept(buf, TRUE) /\ file' = Written(buf, TRUE)
  BY DEF FlushOrCleanup
<1>4. /\ DOMAIN file' = Dirs /\ DOMAIN file'[idx] = Chan
      /\ \A d \in Dirs : d # idx => file'[d] = file[d]
      /\ \A j \in Chan : /\ IsSequence(file'[idx][j])
                         /\ file'[idx][j] \o buf'[j] = file[idx][j] \o buf[j]
  BY <1>1, <1>2, <1>3, Moved
<1>5. Stored'
  BY <1>1, <1>4, StoredIs DEF Stored
<1>6. Same
  BY <1>1, <1>4 DEF Same, Has
<1> QED
  BY <1>5, <1>6

(* A frame that is handed over, accepted or not. *)
LEMMA PostKeeps ==
  ASSUME DirInv, CutInv, UNCHANGED fixed, failing' = failing,
         phase = "post", phase' = "frame", posted' = posted + 1,
         Stored', Opened', Switching', idx' = FileOf(posted),
         \/ accepted' = accepted /\ failing # {} /\ (Flat => Same)
         \/ accepted' = accepted \cup {posted} /\ (failing = {} \/ Flat => More)
  PROVE  CutInv'
<1>1. AllTaken /\ IsCut /\ Stored /\ posted \in Nat
  BY DEF CutInv, DirInv, Counting
<1>2. AllTaken'
  <2>1. 0..(posted' - 1) = (0..(posted - 1)) \cup {posted}
    BY <1>1
  <2> QED
    BY <1>1, <2>1 DEF AllTaken
<1>3. Flat' = Flat /\ Chan' = Chan /\ Dirs' = Dirs
      /\ \A d : FramesOf(d)' = {v \in accepted' : FileOf(v) = d}
  BY FixedMeans, FixedCut
<1>4. IsCut'
  <2> SUFFICES ASSUME failing = {} \/ Flat, NEW d \in Dirs, NEW j \in Chan
               PROVE  Cut(Has(d, j)', FramesOf(d)')
    BY <1>3 DEF IsCut
  <2>1. Cut(Has(d, j), FramesOf(d))
    BY <1>1 DEF IsCut
  <2>2. IsSequence(Has(d, j))
    <3>1. IsSequence(file[d][j]) /\ IsSequence(buf[j]) /\ IsSequence(<<>>)
      BY <1>1, NoneYet DEF Stored, DirInv, Room
    <3> QED
      BY <3>1, Joining DEF Has
  <2>3. CASE accepted' = accepted /\ Same
    BY <1>3, <2>1, <2>3 DEF Same, FramesOf
  <2>4. CASE accepted' = accepted \cup {posted} /\ More
    <3>1. CASE d = idx'
      <4>1. PICK e : e[1] = posted /\ Has(d, j)' = Append(Has(d, j), e)
        BY <2>4, <3>1 DEF More
      <4>2. FramesOf(d)' = FramesOf(d) \cup {posted}
        BY <1>3, <2>4, <3>1 DEF FramesOf
      <4>3. FramesOf(d) \subseteq 0..(posted - 1)
        BY <1>1 DEF AllTaken, FramesOf
      <4>4. Cut(Append(Has(d, j), e), FramesOf(d) \cup {posted})
        BY <1>1, <2>1, <2>2, <4>1, <4>3, CutAppend
      <4> QED
        BY <4>1, <4>2, <4>4
    <3>2. CASE d # idx'
      <4>1. Has(d, j)' = Has(d, j)
        BY <2>4, <3>2 DEF More
      <4>2. FramesOf(d)' = FramesOf(d)
        BY <1>3, <2>4, <3>2 DEF FramesOf
      <4> QED
        BY <2>1, <4>1, <4>2
    <3> QED
      BY <3>1, <3>2
  <2> QED
    BY <2>3, <2>4
<1> QED
  BY <1>2, <1>4 DEF CutInv

(* The switch of the three posting functions. *)
LEMMA PostSwitches ==
  ASSUME DirInv, CutInv, UNCHANGED fixed, PostSame \/ PostSwitch \/ PostFile
  PROVE  Switching' /\ idx' = FileOf(posted)
<1>1. Counting /\ Switching /\ interval \in Nat /\ posted \in Nat
  BY DEF DirInv, CutInv, Counting
<1>2. phase = "post" /\ posted' = posted + 1
  BY DEF PostSame, PostSwitch, PostFile
<1>3. \/ /\ SwitchDue /\ idx' = NewIdx /\ nextSwitch' = nextSwitch + interval
      \/ /\ ~SwitchDue /\ idx' = idx /\ (Sequence => nextSwitch' = nextSwitch)
  <2>1. CASE PostSame
    <3>1. CASE SwitchDue
      BY <2>1, <3>1 DEF PostSame
    <3>2. CASE ~SwitchDue
      <4>1. nextSwitch' = nextSwitch + 0 /\ idx' = idx
        BY <2>1, <3>2 DEF PostSame
      <4>2. Sequence => nextSwitch \in Nat
        <5>1. \A m \in Nat : m * interval + interval \in Nat
          BY <1>1, SMT
        <5> QED
          BY <1>1, <5>1 DEF Switching, SwitchedAt
      <4> QED
        BY <3>2, <4>1, <4>2
    <3> QED
      BY <3>1, <3>2
  <2>2. CASE PostSwitch
    BY <2>2 DEF PostSwitch
  <2>3. CASE PostFile
    BY <2>3 DEF PostFile
  <2> QED
    BY <2>1, <2>2, <2>3
<1> QED
  BY <1>1, <1>2, <1>3, SwitchIs

LEMMA CutNext == DirInv /\ CutInv /\ DirInv' /\ [DirNext]_storeVars => CutInv'
<1> SUFFICES ASSUME DirInv, CutInv, DirInv', [DirNext]_storeVars PROVE CutInv'
  OBVIOUS
<1>1. DirNext => UNCHANGED fixed
  BY AlwaysFixed
<1>2. CASE CreateStore
  <2>1. /\ UNCHANGED <<idx, nextSwitch, buf, file, posted, accepted>>
        /\ failing' = failing /\ phase = "create" /\ phase' # "create"
        /\ UNCHANGED fixed
    BY <1>1, <1>2 DEF DirNext, CreateStore
  <2>2. Size' = Size /\ Flat' = Flat /\ Chan' = Chan /\ Dirs' = Dirs
        /\ Sequence' = Sequence /\ interval' = interval
        /\ \A d : FramesOf(d)' = FramesOf(d)
    BY <2>1, FixedMeans, FixedCut DEF FramesOf, fixed
  <2>3. Opened'
    BY <1>2, <2>1, <2>2 DEF CreateStore, OpenFile, InitDir, Opened, Open
  <2>4. Stored' /\ Switching' /\ AllTaken'
    BY <2>1, <2>2 DEF CutInv, Stored, Switching, SwitchedAt, AllTaken
  <2>5. IsCut'
    <3>1. \A d, j : Has(d, j)' = Has(d, j)
      BY <2>1 DEF Has
    <3> QED
      BY <2>1, <2>2, <3>1 DEF CutInv, IsCut
  <2> QED
    BY <2>3, <2>4, <2>5 DEF CutInv
<1>3. CASE NextFrame \/ Sort
  BY <1>1, <1>3, CutStays DEF DirNext, NextFrame, Sort, dirVars
<1>4. CASE UNCHANGED storeVars
  BY <1>4, CutStays DEF storeVars, sortVars, dirVars, fixed
<1>5. CASE FlushOrCleanup
  <2>1. /\ UNCHANGED <<idx, nextSwitch, made, opened, posted, accepted>>
        /\ failing' = failing /\ phase' # "create" /\ phase # "create"
        /\ UNCHANGED fixed
    BY <1>1, <1>5 DEF DirNext, FlushOrCleanup
  <2>2. Size' = Size /\ Flat' = Flat /\ Chan' = Chan /\ Dirs' = Dirs
        /\ Sequence' = Sequence /\ interval' = interval
        /\ \A d : FramesOf(d)' = FramesOf(d)
    BY <2>1, FixedMeans, FixedCut DEF FramesOf, fixed
  <2>3. Opened' /\ Switching' /\ AllTaken'
    BY <2>1, <2>2 DEF CutInv, Opened, Open, Switching, SwitchedAt, AllTaken
  <2>4. Stored' /\ Same
    BY <1>5, <2>1, FlushHas
  <2>5. IsCut'
    BY <2>1, <2>2, <2>4 DEF CutInv, IsCut, Same
  <2> QED
    BY <2>3, <2>4, <2>5 DEF CutInv
<1>6. CASE PostSame \/ PostSwitch \/ PostFile
  <2>1. /\ UNCHANGED fixed /\ failing' = failing
        /\ phase = "post" /\ phase' = "frame" /\ posted' = posted + 1
    BY <1>1, <1>6 DEF DirNext, PostSame, PostSwitch, PostFile
  <2>2. Switching' /\ idx' = FileOf(posted) /\ idx' \in Dirs
    BY <1>6, <2>1, PostSwitches DEF DirInv, Counting, Dirs
  <2>3. Opened /\ (failing = {} => Open) /\ Size' = Size /\ Flat' = Flat /\ Size \in Nat
    BY <2>1, FixedMeans, FixedCut, Sizes DEF CutInv, Opened, DirInv, Sorting
  <2>4. CASE PostSame
    <3>1. made' = made /\ opened' = opened /\ accepted' = accepted \cup {posted} /\ ~Flat
      BY <2>4 DEF PostSame
    <3>2. Opened'
      BY <2>1, <2>3, <3>1 DEF Opened, Open
    <3>3. Stored' /\ (made => More)
      BY <2>1, <2>4, SameHas
    <3>4. failing = {} \/ Flat => More
      BY <2>3, <3>1, <3>3 DEF Open
    <3> QED
      BY <2>1, <2>2, <3>1, <3>2, <3>3, <3>4, PostKeeps
  <2>5. CASE PostSwitch
    <3>1. ~Flat /\ (failing = {} => made' /\ opened' = Size)
      BY <2>5 DEF PostSwitch, InitDir
    <3>2. Opened'
      BY <2>1, <2>3, <3>1 DEF Opened, Open
    <3>3. Stored' /\ (Open /\ ~Failed => More)
      BY <2>1, <2>5, SwitchHas
    <3>4. failing = {} => ~Failed
      BY <2>3, <3>1 DEF Failed
    <3>5. \/ accepted' = accepted /\ Failed
          \/ accepted' = accepted \cup {posted}
      BY <2>5 DEF PostSwitch
    <3> QED
      BY <2>1, <2>2, <2>3, <3>1, <3>2, <3>3, <3>4, <3>5, PostKeeps
  <2>6. CASE PostFile
    <3>1. Flat /\ \/ UNCHANGED <<made, opened>>
                  \/ made' /\ (failing = {} => opened' = 1)
      BY <2>6 DEF PostFile, OpenFile
    <3>2. Opened' /\ (failing = {} => opened' # 0)
      BY <2>1, <2>3, <3>1 DEF Opened, Open
    <3>3. Stored' /\ IF opened' = 0 THEN Same ELSE More
      BY <2>1, <2>2, <2>6, FileHas
    <3>4. IF opened' = 0 THEN accepted' = accepted ELSE accepted' = accepted \cup {posted}
      BY <2>6 DEF PostFile
    <3> QED
      BY <2>1, <2>2, <3>2, <3>3, <3>4, PostKeeps
  <2> QED
    BY <1>6, <2>4, <2>5, <2>6
<1> QED
  BY <1>2, <1>3, <1>4, <1>5, <1>6 DEF DirNext

-----------------------------------------------------------------------------
(* Whenever dirfile_post is about to add a sample, a channel that has a    *)
(* file has room for it, however flushes, switches of the directory and    *)
(* failures fall; though its buffer is only looked at once a period and    *)
(* then written only if it is half full.                                   *)
THEOREM RoomStaysLeft == DirSpec => []RoomForSample
<1>1. DirInv => RoomForSample
  <2> SUFFICES ASSUME DirInv, phase = "post", NEW j \in Chan, j < opened
               PROVE  Len(buf[j]) < DataSize
    BY DEF RoomForSample
  <2>1. Period \in Nat \ {0} /\ DataSize = 2 * Period
    BY PeriodIs DEF DirInv, Sorting
  <2>2. frameCount \in 0..Period /\ Len(buf[j]) <= frameCount + Period - 1
    BY DEF DirInv, Room
  <2>3. Len(buf[j]) \in Nat
    BY Appending DEF DirInv, Room
  <2> HIDE DEF Period, DataSize
  <2> QED
    BY <2>1, <2>2, <2>3
<1> QED
  BY <1>1, DirInvHolds, PTL

(* sort_columns, the layout of dirfile.c's channels and what is written    *)
(* agree: a channel's file has the samples of its card, column and row,    *)
(* and a whole file the sorted frames, if the cards that report are the    *)
(* first ones or there is only one.                                        *)
THEOREM SamplesAreOwn == DirSpec => []OwnSamples
<1>1. DirInv => OwnSamples
  <2> SUFFICES ASSUME DirInv, Gapless, NEW d \in 0..idx, NEW j \in Chan,
                      NEW i \in DOMAIN file[d][j]
               PROVE  file[d][j][i][2] = Want(j)
    BY Zenon DEF OwnSamples, Want
  <2>1. d \in Dirs
    BY DirfileAssumption DEF DirInv, Counting, Dirs
  <2>2. file[d][j] \in Seq(Entry(j))
    BY <2>1 DEF DirInv, Filled
  <2>3. file[d][j][i] \in Entry(j)
    BY <2>2, ElementOfSeq, LenProperties
  <2> QED
    BY <2>3 DEF Entry
<1> QED
  BY <1>1, DirInvHolds, PTL

(* Whatever the interval, the kind of file and wherever flushes fall: no    *)
(* frame that the store accepted is lost, repeated or with those of another *)
(* interval, in any channel, the files of intervals of two frames or more   *)
(* bear the intervals' numbers, and without failures every frame is         *)
(* accepted.  dirfileseq_cycle writes what is left before it goes on, and   *)
(* what dirfile_write takes from a buffer is what it appends to the file.   *)
THEOREM FramesAreCut == DirSpec => []FramesCut
<1>1. DirInv /\ CutInv => FramesCut
  <2> SUFFICES ASSUME DirInv, CutInv PROVE FramesCut
    OBVIOUS
  <2>1. failing = {} => accepted = 0..(posted - 1)
    BY DEF CutInv, AllTaken
  <2>2. interval \in Nat \ {0} /\ posted \in Nat /\ posted <= MaxFrames /\ MaxFrames \in Nat
    BY DirfileAssumption DEF DirInv, Counting
  <2>3. ASSUME NEW v \in accepted
        PROVE  /\ FileOf(v) \in Dirs /\ v \div interval \in Nat
               /\ FileOf(v) = IF interval = 1 THEN (v \div interval) + 1 ELSE v \div interval
    <3>1. v \in 0..(posted - 1)
      BY DEF CutInv, AllTaken
    <3>2. v \in Nat /\ v + 1 <= MaxFrames
      BY <2>2, <3>1
    <3>3. CASE interval = 1
      <4>1. v \div interval = v
        BY <3>2, <3>3, QuotientFrom
      <4> QED
        BY <2>2, <3>2, <3>3, <4>1 DEF FileOf, Dirs
    <3>4. CASE interval # 1
      <4>1. v \div interval \in Nat /\ v \div interval <= v
        BY <2>2, <3>2, QuotientSmall
      <4> QED
        BY <2>2, <3>2, <3>4, <4>1 DEF FileOf, Dirs
    <3> QED
      BY <3>3, <3>4
  <2>4. ASSUME failing = {} \/ Flat, NEW j \in Chan, NEW d \in Dirs
        PROVE  /\ {Has(d, j)[i][1] : i \in DOMAIN Has(d, j)} = FramesOf(d)
               /\ \A i, k \in DOMAIN Has(d, j) :
                    i < k => Has(d, j)[i][1] < Has(d, j)[k][1]
    <3>1. Cut(Has(d, j), FramesOf(d))
      BY <2>4 DEF CutInv, IsCut
    <3>2. DOMAIN Has(d, j) = 1..Len(Has(d, j))
      <4>1. IsSequence(file[d][j]) /\ IsSequence(buf[j]) /\ IsSequence(<<>>)
        BY NoneYet DEF CutInv, Stored, DirInv, Room
      <4> QED
        BY <4>1, Joining, Elements DEF Has
    <3> QED
      BY <3>1, <3>2 DEF Cut
  <2>5. ASSUME failing = {} \/ Flat, NEW j \in Chan
        PROVE  LET frame(d, i) == Has(d, j)[i][1]
                   In(d) == {frame(d, i) : i \in DOMAIN Has(d, j)}
               IN  /\ UNION {In(d) : d \in Dirs} = accepted
                   /\ \A d, e \in Dirs : \A v \in In(d), m \in In(e) :
                        d = e <=> v \div interval = m \div interval
                   /\ interval > 1 => \A d \in Dirs : \A v \in In(d) : v \div interval = d
                   /\ \A d \in Dirs : \A i, k \in DOMAIN Has(d, j) :
                        i < k => frame(d, i) < frame(d, k)
    <3> DEFINE In(d) == {Has(d, j)[i][1] : i \in DOMAIN Has(d, j)}
    <3>1. \A d \in Dirs : In(d) = FramesOf(d)
      BY <2>4, <2>5
    <3>2. \A d \in Dirs : \A i, k \in DOMAIN Has(d, j) :
            i < k => Has(d, j)[i][1] < Has(d, j)[k][1]
      BY <2>4, <2>5
    <3> HIDE DEF In
    <3>3. ASSUME NEW d \in Dirs, NEW v \in In(d) PROVE v \in accepted /\ d = FileOf(v)
      BY <3>1 DEF FramesOf
    <3>4. UNION {In(d) : d \in Dirs} = accepted
      <4>1. ASSUME NEW v \in accepted PROVE \E d \in Dirs : v \in In(d)
        BY <2>3, <3>1 DEF FramesOf
      <4> QED
        BY <3>3, <4>1
    <3>5. ASSUME NEW d \in Dirs, NEW e \in Dirs, NEW v \in In(d), NEW m \in In(e)
          PROVE  d = e <=> v \div interval = m \div interval
      <4>1. v \in accepted /\ m \in accepted /\ d = FileOf(v) /\ e = FileOf(m)
        BY <3>3
      <4> DEFINE a == v \div interval
                 b == m \div interval
      <4>2. /\ a \in Nat /\ b \in Nat
            /\ d = (IF interval = 1 THEN a + 1 ELSE a) /\ e = (IF interval = 1 THEN b + 1 ELSE b)
        BY <2>3, <4>1
      <4> HIDE DEF a, b
      <4>3. d = e <=> a = b
        BY <4>2
      <4> QED
        BY <4>3 DEF a, b
    <3>6. ASSUME interval > 1, NEW d \in Dirs, NEW v \in In(d) PROVE v \div interval = d
      <4>1. interval # 1
        BY <2>2, <3>6
      <4> QED
        BY <2>3, <3>3, <4>1
    <3> QED
      BY <3>2, <3>4, <3>5, <3>6, Zenon DEF In
  <2> QED
    BY <2>1, <2>5, Zenon DEF FramesCut
<1>2. DirSpec => []CutInv
  <2>1. DirInv /\ DirInv' /\ CutInv /\ [DirNext]_storeVars => CutInv'
    BY CutNext
  <2> QED
    BY <2>1, CutInit, DirInvHolds, PTL DEF DirSpec
<1> QED
  BY <1>1, <1>2, DirInvHolds, PTL

=============================================================================
