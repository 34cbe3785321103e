----------------------------- MODULE McedspData -----------------------------
(***************************************************************************)
(* The frame buffer of driver_c7/dsp_driver.c.  The card writes frames to  *)
(* a ring of n_frames slots in host memory and announces its head in       *)
(* BUF_INFO datagrams; the acquisition reads the slot at tail in place     *)
(* (FRAME_POLL), then gives it up (FRAME_CONSUME); the grant tasklet and   *)
(* DSPIOCT_SET_NFRAMES tell the card how far tail has come, without which  *)
(* the card does not write on.                                             *)
(*                                                                         *)
(* The command channel, whose details are McedspCmd's, appears as chan:    *)
(* the one command that the card has not executed yet.  The card and the   *)
(* MCE are external: the card refuses a frame that would make its head     *)
(* meet its tail, and announces its head again while it refuses frames.    *)
(***************************************************************************)
EXTENDS Integers, Sequences

CONSTANTS
  MaxSize,     \* slots in the largest division of the memory
  Sizes,       \* the values n_frames takes, by the data sizes asked for
  MaxFrames,   \* bound on the frames the MCE sends
  MaxConfigs,  \* bound on qt_configs
  MaxInfos,    \* bound on the BUF_INFO datagrams on their way
  Orderly,     \* the ring is configured only between acquisitions
  Empties,     \* someone issues DSPIOCT_EMPTY
  Stops,       \* someone issues DSPIOCT_FAKE_STOPFRAME
  Faults       \* the trouble a behaviour may have:
               \* busy: a send finds the channel taken, by a command of the
               \* buffer's own or of McedspCmd's others, or the bus fails;
               \* lost: the card drops a command

ASSUME ConstAssumption ==
  /\ MaxSize \in Nat \ {0}
  /\ Sizes \subseteq 1..MaxSize
  /\ MaxFrames \in Nat /\ MaxConfigs \in Nat /\ MaxInfos \in Nat
  /\ Orderly \in BOOLEAN /\ Empties \in BOOLEAN /\ Stops \in BOOLEAN
  /\ Faults \subseteq {"busy", "lost"}

VARIABLES
  head, tail, lastGrant, nFrames, forceExit, qtConfigs, \* dsp->dframes
  isr,        \* the interrupt handler, between its accesses to dframes
  grantlet,   \* the grant tasklet: scheduled?, and what it is sending
  chan,       \* the command on the DSP channel
  ctl,        \* the process configuring the buffer
  reader,     \* the acquisition, from FRAME_POLL to FRAME_CONSUME
  ready,      \* acq->ready: the last configuration succeeded
  out,        \* the frame consumed last
  faults,     \* the trouble of this behaviour
  (* the card *)
  cn, chead, ctail,  \* its configuration and its indices
  told,              \* the head it announced last
  synced,            \* it has executed the last SET_DATA_MULTI
  slot,              \* the frames in the ring
  infos,             \* BUF_INFO datagrams not served yet
  running,           \* the MCE is sending frames
  written            \* the number of the last frame written

ring  == <<head, tail, lastGrant, nFrames, forceExit, qtConfigs>>
card  == <<faults, cn, chead, ctail, told, synced, slot, running, written>>
vars  == <<head, tail, lastGrant, nFrames, forceExit, qtConfigs, isr, grantlet,
           chan, ctl, reader, ready, out, faults, cn, chead, ctail, told, synced,
           slot, infos, running, written>>

Slots == 0..(MaxSize - 1)
NoCmd == [cmd |-> "none", arg |-> 0]
Full  == cn > 0 /\ (chead + 1) % cn = ctail

(* Accesses to dsp->dframes. *)
ResetRing_KeepHead ==
  head' = head /\ tail' = 0 /\ lastGrant' = 0 /\ forceExit' = FALSE
ResetRing_KeepTail ==
  head' = 0 /\ tail' = tail /\ lastGrant' = 0 /\ forceExit' = FALSE
ResetRing == head' = 0 /\ tail' = 0 /\ lastGrant' = 0 /\ forceExit' = FALSE

Advance(i) == (i + 1) % nFrames

InRing_NotLast(i) == i + 1 < nFrames
InRing(i) == nFrames > 0 /\ i < nFrames

(* A grant is worth its cost when a quarter of the ring is used up. *)
GrantDue_Whole(k) == k >= nFrames
GrantDue(k) == k > nFrames \div 4

TailToGrant_Head == head
TailToGrant == tail

TakeStop == forceExit' = FALSE

(* Nothing of an earlier acquisition is on its way. *)
Quiet ==
  /\ ~running /\ infos = <<>> /\ told = chead
  /\ isr.pc = "idle" /\ grantlet.pc = "idle" /\ ~grantlet.due /\ chan = NoCmd
  /\ reader.pc = "idle"

Init ==
  /\ head = 0 /\ tail = 0 /\ lastGrant = 0 /\ nFrames = 0
  /\ forceExit = FALSE /\ qtConfigs = 0
  /\ isr = [pc |-> "idle", info |-> 0, k |-> 0]
  /\ grantlet = [due |-> FALSE, pc |-> "idle", tail |-> 0]
  /\ chan = NoCmd
  /\ ctl = [pc |-> "idle", tail |-> 0]
  /\ reader = [pc |-> "idle", x |-> 0, frame |-> 0]
  /\ ready = FALSE /\ out = 0
  /\ faults \in {{}, Faults}
  /\ cn = 0 /\ chead = 0 /\ ctail = 0 /\ told = 0 /\ synced = FALSE
  /\ slot = [i \in Slots |-> 0]
  /\ infos = <<>> /\ running = FALSE /\ written = 0

-----------------------------------------------------------------------------
(* Configuration: set_transfer_params_multi and send_set_tail_inform. *)

MayConfigure == ctl.pc = "idle" /\ (Orderly => Quiet)

(* DSPIOCT_SET_DATASIZE under the lock: the ring is reset and redivided. *)
SetDatasize ==
  /\ MayConfigure
  /\ qtConfigs < MaxConfigs
  /\ ResetRing
  /\ qtConfigs' = qtConfigs + 1
  /\ nFrames' \in Sizes
  /\ ctl' = [pc |-> "sendData", tail |-> 0]
  /\ ready' = FALSE /\ synced' = FALSE
  /\ UNCHANGED <<isr, grantlet, chan, reader, out, faults, cn, chead, ctail,
                 told, slot, infos, running, written>>

(* DSPIOCT_SET_NFRAMES under the lock. *)
SetNFrames ==
  /\ MayConfigure
  /\ lastGrant' = TailToGrant
  /\ ctl' = [pc |-> "sendTail", tail |-> lastGrant']
  /\ UNCHANGED <<head, tail, nFrames, forceExit, qtConfigs, isr, grantlet,
                 chan, reader, ready, out, card, infos>>

(* The blocking send that follows; a signal or the PCI bus may end it. *)
CtlSend ==
  /\ ctl.pc \in {"sendData", "sendTail"}
  /\ \/ /\ chan = NoCmd
        /\ IF ctl.pc = "sendData"
           THEN /\ chan' = [cmd |-> "SET_DATA_MULTI", arg |-> nFrames]
                /\ ctl' = [ctl EXCEPT !.pc = "waitData"]
           ELSE /\ chan' = [cmd |-> "SET_TAIL_INF", arg |-> ctl.tail]
                /\ ctl' = [pc |-> "go", tail |-> 0]
     \/ /\ "busy" \in faults
        /\ ctl' = [pc |-> "idle", tail |-> 0]
        /\ UNCHANGED chan
  /\ UNCHANGED <<ring, isr, grantlet, reader, ready, out, card, infos>>

(* The reply to SET_DATA_MULTI, or its timeout. *)
CtlReply ==
  /\ ctl.pc = "waitData"
  /\ chan.cmd # "SET_DATA_MULTI"
  /\ ctl' = [pc |-> "idle", tail |-> 0]
  /\ ready' \in {synced} \cup {b \in {FALSE} : "lost" \in faults}
  /\ UNCHANGED <<ring, isr, grantlet, chan, reader, out, card, infos>>

(* DSPIOCT_EMPTY and DSPIOCT_FAKE_STOPFRAME. *)
Empty ==
  /\ Empties
  /\ head' = 0 /\ tail' = 0
  /\ UNCHANGED <<lastGrant, nFrames, forceExit, qtConfigs, isr, grantlet, chan,
                 ctl, reader, ready, out, card, infos>>

FakeStopframe ==
  /\ Stops
  /\ forceExit' = TRUE
  /\ UNCHANGED <<head, tail, lastGrant, nFrames, qtConfigs, isr, grantlet,
                 chan, ctl, reader, ready, out, card, infos>>

-----------------------------------------------------------------------------
(* The interrupt handler's DGRAM_TYPE_BUF_INFO case, and the tasklet. *)

(* The sanity check reads n_frames without the lock. *)
IsrCheck ==
  /\ isr.pc = "idle"
  /\ infos # <<>>
  /\ infos' = Tail(infos)
  /\ isr' = IF InRing(Head(infos))
            THEN [isr EXCEPT !.pc = "update", !.info = Head(infos)] ELSE isr
  /\ UNCHANGED <<ring, grantlet, chan, ctl, reader, ready, out, card>>

IsrUpdate ==
  /\ isr.pc = "update"
  /\ head' = isr.info
  /\ isr' = [isr EXCEPT !.pc = "schedule",
                        !.k = (isr.info - lastGrant + nFrames) % nFrames]
  /\ UNCHANGED <<tail, lastGrant, nFrames, forceExit, qtConfigs, grantlet,
                 chan, ctl, reader, ready, out, card, infos>>

IsrSchedule ==
  /\ isr.pc = "schedule"
  /\ grantlet' = [grantlet EXCEPT !.due = @ \/ GrantDue(isr.k)]
  /\ isr' = [pc |-> "idle", info |-> 0, k |-> 0]
  /\ UNCHANGED <<ring, chan, ctl, reader, ready, out, card, infos>>

(* grant_task: the tail is read and noted under the lock ... *)
GrantTask ==
  /\ grantlet.due /\ grantlet.pc = "idle"
  /\ lastGrant' = TailToGrant
  /\ grantlet' = [due |-> FALSE, pc |-> "send", tail |-> lastGrant']
  /\ UNCHANGED <<head, tail, nFrames, forceExit, qtConfigs, isr, chan, ctl,
                 reader, ready, out, card, infos>>

(* ... then sent without blocking: on -EAGAIN or -EIO the grant is lost. *)
GrantSend ==
  /\ grantlet.pc = "send"
  /\ grantlet' = [grantlet EXCEPT !.pc = "idle", !.tail = 0]
  /\ \/ /\ chan = NoCmd
        /\ chan' = [cmd |-> "SET_TAIL_INF", arg |-> grantlet.tail]
     \/ "busy" \in faults /\ UNCHANGED chan
  /\ UNCHANGED <<ring, isr, ctl, reader, ready, out, card, infos>>

-----------------------------------------------------------------------------
(* The acquisition. *)

(* DSPIOCT_FRAME_POLL; an empty ring (-EAGAIN) changes nothing. *)
FramePoll ==
  /\ reader.pc = "idle"
  /\ \/ /\ forceExit
        /\ TakeStop
        /\ UNCHANGED reader
     \/ /\ ~forceExit /\ tail # head
        /\ reader' = [reader EXCEPT !.pc = "frame", !.x = tail]
        /\ UNCHANGED forceExit
  /\ UNCHANGED <<head, tail, lastGrant, nFrames, qtConfigs, isr, grantlet,
                 chan, ctl, ready, out, card, infos>>

(* The frame is sorted, stored and checked in place. *)
ReadFrame ==
  /\ reader.pc = "frame"
  /\ reader' = [reader EXCEPT !.pc = "done", !.frame = slot[reader.x]]
  /\ UNCHANGED <<ring, isr, grantlet, chan, ctl, ready, out, card, infos>>

(* DSPIOCT_FRAME_CONSUME. *)
FrameConsume ==
  /\ reader.pc = "done"
  /\ tail' = IF nFrames > 0 /\ tail # head THEN Advance(tail) ELSE tail
  /\ out' = reader.frame
  /\ reader' = [pc |-> "idle", x |-> 0, frame |-> 0]
  /\ UNCHANGED <<head, lastGrant, nFrames, forceExit, qtConfigs, isr, grantlet,
                 chan, ctl, ready, card, infos>>

-----------------------------------------------------------------------------
(* The MCE and the card. *)

(* mcedata_acq_go, once DSPIOCT_SET_NFRAMES has returned 0: GO is itself a *)
(* command, posted when the DSP channel is idle; or the MCE refuses it.    *)
Go ==
  /\ ctl.pc = "go"
  /\ ctl' = [pc |-> "idle", tail |-> 0]
  /\ \/ ready /\ ~running /\ chan = NoCmd /\ running' = TRUE
     \/ UNCHANGED running
  /\ UNCHANGED <<ring, isr, grantlet, chan, reader, ready, out,
                 faults, cn, chead, ctail, told, synced, slot, infos, written>>

Halt ==
  /\ running
  /\ running' = FALSE
  /\ UNCHANGED <<ring, isr, grantlet, chan, ctl, reader, ready, out,
                 faults, cn, chead, ctail, told, synced, slot, infos, written>>

CardWrite ==
  /\ running /\ cn > 0 /\ ~Full
  /\ written < MaxFrames
  /\ written' = written + 1
  /\ slot' = [slot EXCEPT ![chead] = written + 1]
  /\ chead' = (chead + 1) % cn
  /\ UNCHANGED <<ring, isr, grantlet, chan, ctl, reader, ready, out,
                 faults, cn, ctail, told, synced, infos, running>>

CardInform ==
  /\ Len(infos) < MaxInfos
  /\ told # chead \/ (running /\ Full)
  /\ infos' = Append(infos, chead)
  /\ told' = chead
  /\ UNCHANGED <<ring, isr, grantlet, chan, ctl, reader, ready, out,
                 faults, cn, chead, ctail, synced, slot, running, written>>

CardExec ==
  /\ chan # NoCmd
  /\ chan' = NoCmd
  /\ IF chan.cmd = "SET_DATA_MULTI"
     THEN /\ cn' = chan.arg
          /\ chead' = 0 /\ ctail' = 0 /\ told' = 0
          /\ synced' = TRUE
     ELSE ctail' = chan.arg /\ UNCHANGED <<cn, chead, told, synced>>
  /\ UNCHANGED <<ring, isr, grantlet, ctl, reader, ready, out, faults,
                 slot, infos, running, written>>

CardLose ==
  /\ "lost" \in faults
  /\ chan # NoCmd
  /\ chan' = NoCmd
  /\ UNCHANGED <<ring, isr, grantlet, ctl, reader, ready, out, card, infos>>

-----------------------------------------------------------------------------

Isr    == IsrCheck \/ IsrUpdate \/ IsrSchedule
Grant  == GrantTask \/ GrantSend
Reader == FramePoll \/ ReadFrame \/ FrameConsume

Next ==
  \/ SetDatasize \/ SetNFrames \/ CtlSend \/ CtlReply
  \/ Empty \/ FakeStopframe
  \/ Isr \/ Grant \/ Reader
  \/ Go \/ Halt \/ CardWrite \/ CardInform \/ CardExec \/ CardLose

Spec == Init /\ [][Next]_vars

(* Interrupts are served, tasklets run, the acquisition polls every        *)
(* millisecond, and the card executes commands and announces its head.     *)
FairSpec ==
  /\ Spec
  /\ WF_vars(Isr) /\ WF_vars(Grant) /\ WF_vars(Reader)
  /\ WF_vars(CtlSend \/ CtlReply)
  /\ WF_vars(CardExec) /\ WF_vars(CardInform)

-----------------------------------------------------------------------------
(* Types, with every index within the memory of the ring. *)
TypeOK ==
  /\ head \in Slots /\ tail \in Slots /\ lastGrant \in Slots
  /\ nFrames \in 0..MaxSize /\ qtConfigs \in Nat
  /\ forceExit \in BOOLEAN /\ ready \in BOOLEAN /\ synced \in BOOLEAN
  /\ running \in BOOLEAN
  /\ isr \in [pc : {"idle", "update", "schedule"}, info : Slots, k : Slots]
  /\ grantlet \in [due : BOOLEAN, pc : {"idle", "send"}, tail : Slots]
  /\ chan \in [cmd : {"none", "SET_DATA_MULTI", "SET_TAIL_INF"}, arg : 0..MaxSize]
  /\ ctl \in [pc : {"idle", "sendData", "waitData", "sendTail", "go"}, tail : Slots]
  /\ reader \in [pc : {"idle", "frame", "done"}, x : Slots, frame : Nat]
  /\ out \in Nat /\ written \in Nat
  /\ cn \in 0..MaxSize /\ chead \in Slots /\ ctail \in Slots /\ told \in Slots
  /\ slot \in [Slots -> Nat]
  /\ infos \in Seq(Slots)

(* Steps from slot a forward to slot b of a ring of n slots. *)
Dist(n, a, b) == (b - a + n) % n

(* Once the card has the configuration, its tail, the driver's tail, the   *)
(* driver's head and the card's head follow each other round the ring: a   *)
(* grant never gives away a slot not consumed, and the driver never takes  *)
(* for new a slot not written.                                             *)
RingOrder ==
  synced => Dist(cn, ctail, tail) + Dist(cn, tail, head) + Dist(cn, head, chead)
              = Dist(cn, ctail, chead)

(* The tail is a slot of the present division, so that FRAME_POLL's search *)
(* for its block ends, however configuration, EMPTY and interrupts mix.    *)
TailInRange == tail < nFrames \/ tail = 0

(* The frames between the driver's tail and the card's head. *)
Pending ==
  [i \in 1..(IF synced THEN Dist(cn, tail, chead) ELSE 0)
     |-> slot[(tail + i - 1) % cn]]

(* "In the grant task, we send updates of the tail_index to the DSP": a    *)
(* card that refuses frames while they are being consumed is let go on,    *)
(* unless a command of the buffer's own was refused or lost.               *)
CardUnblocked == faults = {} /\ running /\ Full ~> ~running \/ ~Full

(* Each frame in the ring reaches the acquisition, unless the ring is      *)
(* configured anew before.                                                 *)
FramesDelivered ==
  \A n \in 1..MaxFrames :
    faults = {} /\ (\E i \in DOMAIN Pending : Pending[i] = n)
      ~> out = n \/ ~synced

(* The buffer is a FIFO of frames. *)
Fifo == INSTANCE FrameFifo WITH queue <- Pending, last <- written, out <- out
ImplementsFifo == Fifo!Spec
=============================================================================
