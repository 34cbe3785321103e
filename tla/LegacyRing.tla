----------------------------- MODULE LegacyRing -----------------------------
(***************************************************************************)
(* The frame buffer of the legacy driver, driver_c6: data.c, data_qt.c and *)
(* data_ops.c.  With firmware that knows quiet transfers the card writes   *)
(* frames to the ring by itself, announces its head in QTI messages and is *)
(* told the tail by grants; older firmware notifies the driver of each     *)
(* frame (NFY), which answers with the address of a slot (HST).  The card  *)
(* drops what it has no room for.  Frames are mapped and given up (POLL,   *)
(* CONSUME), or copied by read().                                          *)
(* Of the channel to the card, LegacyMce's subject, there is the command   *)
(* out, the two flags of the priority tasklet that the buffer uses, and    *)
(* its step in two.  The card is the one of fake_mce/dsp_state.c.          *)
(***************************************************************************)
EXTENDS Integers, Sequences, FiniteSets

CONSTANTS
  Sizes,      \* the values max_index takes, by the frame sizes asked for
  MaxFrames,  \* bound on the frames the MCE sends ...
  MaxFaulty,  \* ... and in behaviours with trouble
  MaxConfigs, \* bound on the divisions of the buffer and the beginnings
  Faults      \* the trouble a behaviour may have, one kind at most:
              \* fail: the bus refuses a command of the tasklet's;
              \* torn: the reader moves the tail during the test of a new head;
              \* empty, stop: DATADEV_IOCT_EMPTY, DATADEV_IOCT_FAKE_STOPFRAME,
              \* once, the latter during an acquisition;
              \* parts: a frame is read in parts;
              \* overlap: a frame is given up before the tasklet has marked
              \*   the grant for the one before as sent;
              \* hasty: configured while frames of an acquisition still come

ASSUME RingAssumption ==
  /\ Sizes \subseteq Nat \ {0} /\ \E n \in Sizes : n > 1
  /\ \E n \in Sizes : \A m \in Sizes : m <= n
  /\ MaxFrames \in Nat /\ MaxFaulty \in 0..MaxFrames /\ MaxConfigs \in Nat
  /\ Faults \subseteq {"fail", "torn", "empty", "stop", "parts", "overlap",
                    "hasty"}

VARIABLES
  faults, firmware, \* the trouble to come in this behaviour, and its card
  head, tail, partial, maxIndex, dropped, dataMode, \* dframes
  isr,        \* data_frame_contribute, between its looks at the tail
  prio,       \* dev->state: "INT" (DDAT_DSP_INT), "INFORM" (DDAT_INFORM)
  informTail, \* dev->inform_tail
  task,       \* what dsp_priority_task has sent, and not yet marked
  chan,       \* the command on its way to the card
  ctl, ready, \* the process that configures, and its success
  reader,     \* the process that reads
  configs, running, written, \* requests to divide or begin; the MCE
  (* what has become of the frames since the last reset of the buffer *)
  first,      \* frames sent before it
  out, taken, \* the last frame read, and their number
  refused,    \* notifications answered by no HST
  upset,      \* the ring was moved from outside
  lost,       \* the last grant did not reach the card
  (* the card *)
  enabled, cn, chead, ctail, drops, told, \* its configuration and indices
  held,       \* the frame whose notification was not answered yet
  slot, msgs  \* the frames in memory; messages to the driver

dframes == <<head, tail, partial, maxIndex, dropped, dataMode>>
channel == <<prio, informTail, task, chan>>
control == <<ctl, ready, configs>>
account == <<first, out, taken, refused, upset, lost>>
mce     == <<running, written>>
card    == <<enabled, cn, chead, ctail, drops, told, held, slot, msgs>>
world   == <<faults, firmware>>
vars    == <<faults, firmware, head, tail, partial, maxIndex, dropped, dataMode,
             isr, prio, informTail, task, chan, ctl, ready, reader, configs,
             running, written, first, out, taken, refused, upset, lost, enabled,
             cn, chead, ctail, drops, told, held, slot, msgs>>

Largest == CHOOSE n \in Sizes : \A m \in Sizes : m <= n
Slots   == 0..(Largest - 1)
NoCmd   == [cmd |-> "none", arg |-> 0]
NotTesting == [pc |-> "idle", new |-> 0, tail |-> 0]
Idle    == [pc |-> "idle", step |-> 1, next |-> "idle", arg |-> 0]
StopFrame == MaxFrames + 1
Unread  == [pc |-> "idle", x |-> 0, frame |-> 0]

(* As data_probe leaves things. *)
Init ==
  /\ faults \in {F \in SUBSET Faults : Cardinality(F) <= 1}
  /\ firmware \in {"quiet", "classic"}
  /\ head = 0 /\ tail = 0 /\ partial = 0 /\ dropped = 0
  /\ maxIndex \in {n \in Sizes : n > 1} /\ dataMode = firmware
  /\ isr = NotTesting
  /\ prio = {} /\ informTail = 0 /\ task = "none" /\ chan = NoCmd
  /\ ctl = Idle /\ ready = FALSE /\ reader = Unread /\ configs = 0
  /\ running = FALSE
  /\ written = IF faults = {} THEN 0 ELSE MaxFrames - MaxFaulty
  /\ first = written /\ out = written /\ taken = 0 /\ refused = 0
  /\ upset = FALSE /\ lost = FALSE
  /\ enabled = (firmware = "quiet")
  /\ cn = maxIndex /\ chead = 0 /\ ctail = 0 /\ drops = 0 /\ told = <<0, 0>>
  /\ held = 0 /\ slot = [i \in Slots |-> 0] /\ msgs = <<>>

-----------------------------------------------------------------------------
(* The channel.                                                            *)

(* dsp_request_grant. *)
RequestGrant_Once(t) ==
  /\ prio' = prio \cup {"INFORM"}
  /\ informTail' = IF "INFORM" \in prio THEN informTail ELSE t
RequestGrant(t) == prio' = prio \cup {"INFORM"} /\ informTail' = t

(* dsp_priority_task, which waits for the channel: a command somebody      *)
(* waits for goes before a grant.                                          *)
TaskSend ==
  /\ task = "none" /\ chan = NoCmd
  /\ \/ /\ "INT" \in prio
        /\ task' = "INT"
        /\ chan' = [cmd |-> "QTS", arg |-> ctl.arg]
        /\ UNCHANGED lost
     \/ /\ "INT" \notin prio /\ "INFORM" \in prio
        /\ task' = "INFORM"
        /\ chan' = [cmd |-> "GRANT", arg |-> informTail]
        /\ lost' = FALSE
  /\ UNCHANGED <<world, dframes, isr, prio, informTail, control, reader, mce,
                 first, out, taken, refused, upset, card>>

(* What the bus refuses counts as done: the grant is lost, or the caller   *)
(* waits until it is killed by a signal.                                   *)
TaskFail ==
  /\ "fail" \in faults
  /\ task = "none" /\ chan = NoCmd /\ prio # {}
  /\ IF "INT" \in prio
     THEN task' = "INT" /\ ctl' = Idle /\ UNCHANGED lost
     ELSE task' = "INFORM" /\ lost' = TRUE /\ UNCHANGED ctl
  /\ UNCHANGED <<world, dframes, isr, prio, informTail, chan, ready, reader,
                 configs, mce, first, out, taken, refused, upset, card>>

(* A grant requested since the task read the tail is cleared with it. *)
TaskDone ==
  /\ task # "none"
  /\ prio' = prio \ {task} /\ task' = "none"
  /\ UNCHANGED <<world, dframes, isr, informTail, chan, control, reader, mce,
                 account, card>>

-----------------------------------------------------------------------------
(* Configuration.                                                          *)

(* data_qt_configure, as far as its commands differ to the ring. *)
QtSteps == <<"DISABLE", "NUMBER", "TAIL", "HEAD", "DROPS", "ENABLE">>

QtArgument(step) ==
  CASE QtSteps[step] = "NUMBER" -> maxIndex
    [] QtSteps[step] = "TAIL" -> tail
    [] QtSteps[step] = "HEAD" -> head
    [] OTHER -> 0

Quiet ==
  /\ ~running /\ msgs = <<>> /\ held = 0 /\ (enabled => told = <<chead, drops>>)
  /\ isr.pc = "idle" /\ reader.pc \in {"idle", "over"}

MayConfigure == ctl.pc = "idle" /\ (Quiet \/ "hasty" \in faults)

(* mce_qt_command, the first one of a configuration. *)
Disable(next) ==
  /\ ctl' = [pc |-> "wait", step |-> 1, next |-> next, arg |-> 0]
  /\ prio' = prio \cup {"INT"}

(* DATADEV_IOCT_SET_DATASIZE: data_frame_resize, data_frame_divide.  The   *)
(* division stays when it is refused for being too coarse.                 *)
SetDatasize ==
  /\ MayConfigure
  /\ \E n \in Sizes :
       \/ /\ n = maxIndex
          /\ ready' = TRUE
          /\ UNCHANGED <<maxIndex, ctl, prio, configs>>
       \/ /\ n # maxIndex /\ tail # head
          /\ ready' = FALSE
          /\ UNCHANGED <<maxIndex, ctl, prio, configs>>
       \/ /\ n # maxIndex /\ tail = head
          /\ configs < MaxConfigs /\ configs' = configs + 1
          /\ maxIndex' = n
          /\ IF n > 1 /\ dataMode = "quiet"
             THEN Disable("ready") /\ ready' = FALSE
             ELSE ready' = (n > 1) /\ UNCHANGED <<ctl, prio>>
  /\ upset' = (upset \/ ~Quiet)
  /\ UNCHANGED <<world, head, tail, partial, dropped, dataMode, isr,
                 informTail, task, chan, reader, mce, first, out, taken,
                 refused, lost, card>>

(* DATADEV_IOCT_QT_CONFIG, by which mcedata_acq_go begins. *)
QtConfig ==
  /\ MayConfigure /\ ready
  /\ configs < MaxConfigs /\ configs' = configs + 1
  /\ Disable("go")
  /\ upset' = (upset \/ ~Quiet)
  /\ UNCHANGED <<world, dframes, isr, informTail, task, chan, ready, reader,
                 mce, first, out, taken, refused, lost, card>>

(* data_reset, once quiet transfers are disabled. *)
Reset_KeepPartial ==
  head' = 0 /\ tail' = 0 /\ dropped' = 0 /\ UNCHANGED partial
Reset == head' = 0 /\ tail' = 0 /\ dropped' = 0 /\ partial' = 0

NewAccount ==
  /\ first' = written /\ out' = written /\ taken' = 0 /\ refused' = 0
  /\ upset' = ~Quiet /\ lost' = FALSE

(* A grant of the last division waits since before the reset, and the card *)
(* will hear of it after TAIL: of a slot that it does not have any more.   *)
Overtaken(step) ==
  QtSteps[step] = "NUMBER" /\ "INFORM" \in prio /\ informTail >= maxIndex

(* From here to the next reset nothing is known of the frames. *)
Forget ==
  /\ upset' = TRUE
  /\ first' = 0 /\ out' = 0 /\ taken' = 0 /\ refused' = 0

(* A command is answered: its effect, and the next one. *)
QtAnswered ==
  /\ ctl.pc = "answered"
  /\ IF ctl.step = 1
     THEN dataMode' = "classic" /\ Reset /\ NewAccount
     ELSE /\ dataMode' = IF ctl.step = Len(QtSteps) THEN "quiet" ELSE dataMode
          /\ upset' = (upset \/ Overtaken(ctl.step))
          /\ UNCHANGED <<head, tail, dropped, partial, first, out, taken,
                         refused, lost>>
  /\ IF ctl.step < Len(QtSteps)
     THEN /\ ctl' = [ctl EXCEPT !.pc = "wait", !.step = @ + 1,
                                !.arg = QtArgument(ctl.step + 1)]
          /\ prio' = prio \cup {"INT"}
          /\ UNCHANGED ready
     ELSE /\ ctl' = IF ctl.next = "go" THEN [Idle EXCEPT !.pc = "go"] ELSE Idle
          /\ ready' = TRUE
          /\ UNCHANGED prio
  /\ UNCHANGED <<world, maxIndex, isr, informTail, task, chan, reader, configs,
                 mce, card>>

(* GO is a command without priority; the MCE may refuse it. *)
Go ==
  /\ ctl.pc = "go" /\ chan = NoCmd /\ prio = {}
  /\ ctl' = Idle
  /\ \/ running' = TRUE /\ reader' = Unread
     \/ UNCHANGED <<running, reader>>
  /\ UNCHANGED <<world, dframes, isr, channel, ready, configs, written,
                 account, card>>

(* data_frame_empty_buffers, without the semaphore or a word to the card. *)
Empty ==
  /\ "empty" \in faults /\ faults' = {}
  /\ head' = 0 /\ tail' = 0 /\ partial' = 0
  /\ Forget
  /\ UNCHANGED <<firmware, maxIndex, dropped, dataMode, isr, channel, control,
                 reader, mce, lost, card>>

(* data_frame_fake_stop: a stop frame is written after the next frame, and *)
(* the head moved past both, wherever that is.                             *)
FakeStop ==
  /\ "stop" \in faults /\ faults' = {} /\ running
  /\ head' = head + 2
  /\ slot' = [i \in Slots |-> IF i = head + 1 THEN StopFrame ELSE slot[i]]
  /\ Forget
  /\ UNCHANGED <<firmware, tail, partial, maxIndex, dropped, dataMode, isr,
                 channel, control, reader, mce, lost, enabled, cn, chead,
                 ctail, drops, told, held, msgs>>

-----------------------------------------------------------------------------
(* Interrupts: mce_qti_handler and mce_int_handler.                        *)

Announced(type) == msgs # <<>> /\ Head(msgs).type = type

(* new_head >= head >= tail, or head >= tail > new_head, or                *)
(* tail > new_head >= head.  The tail is looked at twice.                  *)
InTurn(new, tail1, tail2) ==
  Cardinality({i \in 1..3 : <<new >= head, head >= tail1, tail2 > new>>[i]}) = 2

(* The end of data_frame_contribute: a head that does not fit means that   *)
(* the buffer is trashed. *)
MoveHead(new, ok) ==
  /\ head' = new
  /\ tail' = IF ok THEN tail ELSE (new + 1) % maxIndex

CountDrops(n) == dropped' = n

QtiHandler ==
  /\ isr.pc = "idle" /\ Announced("QTI")
  /\ LET new == Head(msgs).head IN
     /\ CountDrops(Head(msgs).drops)
     /\ IF "torn" \in faults
        THEN /\ isr' = [pc |-> "test", new |-> new, tail |-> tail]
             /\ UNCHANGED <<head, tail>>
        ELSE MoveHead(new, InTurn(new, tail, tail)) /\ UNCHANGED isr
  /\ msgs' = Tail(msgs)
  /\ UNCHANGED <<world, partial, maxIndex, dataMode, channel, control, reader,
                 mce, account, enabled, cn, chead, ctail, drops, told, held,
                 slot>>

QtiRest ==
  /\ isr.pc = "test"
  /\ MoveHead(isr.new, InTurn(isr.new, isr.tail, tail))
  /\ upset' = (upset \/ tail # isr.tail)
  /\ isr' = NotTesting
  /\ UNCHANGED <<world, partial, maxIndex, dropped, dataMode, channel, control,
                 reader, mce, first, out, taken, refused, lost, card>>

(* mce_da_hst_now: the frame is asked for at the head, or refused when the *)
(* channel or a task keeps the command from being sent. *)
NfyHandler ==
  /\ isr.pc = "idle" /\ Announced("DA")
  /\ msgs' = Tail(msgs)
  /\ IF chan = NoCmd /\ prio = {}
     THEN chan' = [cmd |-> "HST", arg |-> head] /\ UNCHANGED <<held, refused>>
     ELSE /\ held' = 0
          /\ refused' = IF upset THEN refused ELSE refused + 1
          /\ UNCHANGED chan
  /\ UNCHANGED <<world, dframes, isr, prio, informTail, task, control, reader,
                 mce, first, out, taken, upset, lost, enabled, cn, chead,
                 ctail, drops, told, slot>>

(* data_frame_increment, when the card has answered HST. *)
NoRoom(next) == next = tail

Increment ==
  LET next == (head + 1) % maxIndex IN
  IF NoRoom(next)
  THEN dropped' = dropped + 1 /\ UNCHANGED head
  ELSE head' = next /\ UNCHANGED dropped

-----------------------------------------------------------------------------
(* The reader.                                                             *)

(* A stop frame ends the acquisition.  Frames are counted while the ring   *)
(* is left alone.                                                          *)
Take(frame) ==
  /\ reader' = IF frame = StopFrame THEN [Unread EXCEPT !.pc = "over"] ELSE Unread
  /\ IF upset THEN UNCHANGED <<out, taken>> ELSE out' = frame /\ taken' = taken + 1

Consumed == (tail + 1) % maxIndex

(* The process that acquires reads when it does not configure. *)
MayRead == reader.pc = "idle" /\ (ctl.pc = "idle" \/ "hasty" \in faults)

(* A grant asked for now is not cleared with the last one. *)
MayGrant == task # "INFORM" \/ "overlap" \in faults

(* DATADEV_IOCT_FRAME_POLL. *)
Poll ==
  /\ MayRead /\ partial = 0
  /\ tail # head
  /\ reader' = [reader EXCEPT !.pc = "frame", !.x = tail]
  /\ UNCHANGED <<world, dframes, isr, channel, control, mce, account, card>>

Content(i) == IF i \in Slots THEN slot[i] ELSE 0

ReadFrame ==
  /\ reader.pc = "frame"
  /\ reader' = [reader EXCEPT !.pc = "done", !.frame = Content(reader.x)]
  /\ UNCHANGED <<world, dframes, isr, channel, control, mce, account, card>>

(* DATADEV_IOCT_FRAME_CONSUME: data_tail_increment. *)
Consume ==
  /\ reader.pc = "done" /\ MayGrant
  /\ Take(reader.frame)
  /\ IF head = tail
     THEN UNCHANGED <<tail, partial, prio, informTail>>
     ELSE tail' = Consumed /\ partial' = 0 /\ RequestGrant(Consumed)
  /\ UNCHANGED <<world, head, maxIndex, dropped, dataMode, isr, task, chan,
                 control, mce, first, refused, upset, lost, card>>

(* data_read: data_copy_frame of a whole frame, or of one half and then    *)
(* the other.                                                              *)
CopyFrame ==
  /\ MayRead /\ MayGrant
  /\ tail # head
  /\ \/ /\ partial = 0 /\ "parts" \in faults
        /\ partial' = 1
        /\ reader' = [reader EXCEPT !.frame = Content(tail)]
        /\ RequestGrant(tail)
        /\ UNCHANGED <<tail, out, taken>>
     \/ /\ partial' = 0 /\ tail' = Consumed /\ RequestGrant(Consumed)
        /\ Take(IF partial = 1 /\ reader.frame # Content(tail) THEN 0
                ELSE Content(tail))
  /\ UNCHANGED <<world, head, maxIndex, dropped, dataMode, isr, task, chan,
                 control, mce, first, refused, upset, lost, card>>

-----------------------------------------------------------------------------
(* The MCE and the card.                                                   *)

Halt ==
  /\ running /\ running' = FALSE
  /\ UNCHANGED <<world, dframes, isr, channel, control, reader, written,
                 account, card>>

(* A frame for quiet transfer: written, or dropped. *)
Full == (chead + 1) % cn = ctail

QuietFrame ==
  /\ running /\ written < MaxFrames /\ enabled
  /\ written' = written + 1
  /\ IF Full
     THEN drops' = drops + 1 /\ UNCHANGED <<slot, chead>>
     ELSE /\ slot' = [i \in Slots |-> IF i = chead THEN written + 1 ELSE slot[i]]
          /\ chead' = (chead + 1) % cn
          /\ UNCHANGED drops
  /\ UNCHANGED <<world, dframes, isr, channel, control, reader, running,
                 account, enabled, cn, ctail, told, held, msgs>>

CardInform ==
  /\ enabled /\ msgs = <<>>
  /\ told # <<chead, drops>>
  /\ told' = <<chead, drops>>
  /\ msgs' = <<[type |-> "QTI", head |-> chead, drops |-> drops]>>
  /\ UNCHANGED <<world, dframes, isr, channel, control, reader, mce, account,
                 enabled, cn, chead, ctail, drops, held, slot>>

(* A frame the driver is notified of. *)
ClassicFrame ==
  /\ running /\ written < MaxFrames /\ ~enabled
  /\ held = 0 /\ msgs = <<>>
  /\ written' = written + 1 /\ held' = written + 1
  /\ msgs' = <<[type |-> "DA", head |-> 0, drops |-> 0]>>
  /\ UNCHANGED <<world, dframes, isr, channel, control, reader, running,
                 account, enabled, cn, chead, ctail, drops, told, slot>>

(* dsp_qt_command: what the card makes of a step of the configuration. *)
Execute(step, arg) ==
  /\ enabled' = (IF step = "DISABLE" THEN FALSE
                 ELSE IF step = "ENABLE" THEN TRUE ELSE enabled)
  /\ cn' = (IF step = "NUMBER" THEN arg ELSE cn)
  /\ ctail' = (IF step = "TAIL" THEN arg ELSE ctail)
  /\ chead' = (IF step = "HEAD" THEN arg ELSE chead)
  /\ drops' = (IF step = "DROPS" THEN 0 ELSE drops)
  /\ told' = (IF step = "ENABLE" THEN <<chead, drops>> ELSE told)

(* Older firmware knows no QTS; its answer that says so is not looked at.  *)
CardExec ==
  /\ chan # NoCmd /\ chan' = NoCmd
  /\ \/ /\ chan.cmd = "HST"
        /\ slot' = [i \in Slots |-> IF i = chan.arg THEN held ELSE slot[i]]
        /\ held' = 0
        /\ Increment
        /\ UNCHANGED <<enabled, cn, chead, ctail, drops, told, ctl>>
     \/ /\ chan.cmd = "GRANT"
        /\ ctail' = IF firmware = "quiet" THEN chan.arg ELSE ctail
        /\ UNCHANGED <<enabled, cn, chead, drops, told, held, slot, head,
                       dropped, ctl>>
     \/ /\ chan.cmd = "QTS"
        /\ IF firmware = "quiet" THEN Execute(QtSteps[ctl.step], chan.arg)
           ELSE UNCHANGED <<enabled, cn, chead, ctail, drops, told>>
        /\ ctl' = [ctl EXCEPT !.pc = "answered"]
        /\ UNCHANGED <<held, slot, head, dropped>>
  /\ UNCHANGED <<world, tail, partial, maxIndex, dataMode, isr, prio,
                 informTail, task, ready, reader, configs, mce, account, msgs>>

-----------------------------------------------------------------------------

Isr    == QtiHandler \/ QtiRest \/ NfyHandler
Reader == Poll \/ ReadFrame \/ Consume \/ CopyFrame

Next ==
  \/ TaskSend \/ TaskFail \/ TaskDone
  \/ SetDatasize \/ QtConfig \/ QtAnswered \/ Go \/ Empty \/ FakeStop
  \/ Isr \/ Reader
  \/ Halt \/ QuietFrame \/ CardInform \/ ClassicFrame \/ CardExec

Spec == Init /\ [][Next]_vars

(* Interrupts are served, the tasklet runs, the card answers and announces *)
(* its head, and the acquisition reads on.                                 *)
FairSpec ==
  /\ Spec
  /\ WF_vars(Isr) /\ WF_vars(Reader)
  /\ WF_vars(TaskSend) /\ WF_vars(TaskDone)
  /\ WF_vars(CardExec) /\ WF_vars(CardInform)

-----------------------------------------------------------------------------
TypeOK ==
  /\ dataMode \in {"quiet", "classic"} /\ partial \in {0, 1}
  /\ head \in Nat /\ tail \in Slots /\ maxIndex \in Sizes /\ dropped \in Nat
  /\ prio \subseteq {"INT", "INFORM"} /\ task \in {"none", "INT", "INFORM"}
  /\ chead \in Nat /\ ctail \in Slots /\ cn \in Sizes
  /\ enabled \in BOOLEAN /\ upset \in BOOLEAN /\ lost \in BOOLEAN

(***************************************************************************)
(* A frame that is read is whole and later than every frame read before    *)
(* it, also where the ring has overflowed, and the frames left out so far  *)
(* have all been counted as dropped, or refused without being counted.     *)
(* A new configuration makes this so whatever was done to the ring before. *)
(***************************************************************************)
FramesAccounted ==
  [][taken' = taken + 1 =>
       /\ out' > out
       /\ out' - first - taken' \in 0..(dropped + refused)]_vars

(***************************************************************************)
(* Once a frame has been read, the card learns of every slot given up, and *)
(* drops no frame for ever while there is room for it: only a grant that   *)
(* the bus refuses, or that is asked for as the last one is marked as      *)
(* sent, gets lost.  (Before that a grant of the last acquisition may have *)
(* come after the TAIL of the configuration.)                              *)
(***************************************************************************)
GrantsArrive ==
  (enabled /\ taken > 0 /\ ctail # tail /\ "overlap" \notin faults)
    ~> (~enabled \/ ctail = tail \/ lost \/ upset)
=============================================================================
