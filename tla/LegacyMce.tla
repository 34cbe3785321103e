----------------------------- MODULE LegacyMce -----------------------------
(***************************************************************************)
(* MCE commands in the legacy driver, driver_c6: the character device that *)
(* writes commands and reads replies (mce_ops.c), the transaction with the *)
(* MCE (mce_driver.c) and the channel to the PCI card that both it and the *)
(* driver's own DSP commands go through (dsp_driver.c).  An MCE command is *)
(* a DSP command CON that reserves the channel until the card notifies the *)
(* driver of a reply, which is in memory by then (quiet replies, RPQ) or   *)
(* is fetched by a DSP command HST (RP).  Interrupts are handled one after *)
(* the other, and interleave with timers, tasklets and processes.          *)
(* The card and the MCE are external.                                      *)
(***************************************************************************)
EXTENDS Naturals, Sequences, FiniteSets

CONSTANTS
  Users,     \* open files of the MCE device
  None,      \* no file
  MaxWrites, \* bound on MCE commands: none is begun when so many are taken
  MaxWaits,  \* bound on the driver's own DSP commands
  Together,  \* how many kinds of trouble a behaviour may have
  Faults     \* the kinds of trouble behaviours have, up to Together of them:
             \* slow: one timer outruns the card, the MCE or a handler;
             \* mute: the card or the MCE does not answer a command of the MCE;
             \* dead: the card does not answer a command of the driver's own;
             \* nak: the card answers ERR;
             \* refuse: the bus fails, or the channel is busy 10000 times;
             \* close: a file is closed while its command is outstanding;
             \* overlap: a DSP command of the driver's own is answered and the
             \*   next one made before the tasklet has marked the first as sent

ASSUME LegacyAssumption ==
  /\ Faults \subseteq {"slow", "mute", "dead", "nak", "refuse", "close",
                    "overlap"}
  /\ None \notin Users /\ {MaxWrites, MaxWaits, Together} \subseteq Nat

VARIABLES
  faults, quiet,        \* the trouble of this behaviour; quiet_rp
  busy, reserved, prio, \* DDAT_CMD, DDAT_RESERVE, DDAT_PRIORITY
  callback,             \* dev->callback
  reply,                \* dsp_reply_handler on its way: callback and message
  expired,              \* dsp_timeout between its unlock and its callback
  task,                 \* what dsp_priority_task has done, and not yet marked
  flags,                \* dev->local.flags: 0, CMD, REP
  waits,                \* DSP commands the driver has made
  mstate, hstTask,      \* mdat->state, hst_tasklet scheduled
  buffer,               \* the command whose reply is in buff.reply, or 0
  opsState, rep, commander, sem,  \* mce_ops_t
  pc, asleep, mine, got, \* the users: the command written, the reply read
  writes,               \* commands so far
  queue, irqs, executing, held, \* card and MCE, and the reply the card holds
  oops                  \* a NULL message has been copied

dsp   == <<busy, reserved, prio, callback>>
local == <<flags, waits>>
mce   == <<mstate, hstTask, buffer>>
ops   == <<opsState, rep, commander, sem>>
users == <<pc, mine, got, writes>>
card  == <<queue, irqs, executing, held>>
world == <<faults, quiet>>
vars  == <<faults, quiet, busy, reserved, prio, callback, reply,
           expired, task, flags, waits, mstate, hstTask, buffer,
           opsState, rep, commander, sem, pc, asleep, mine, got, writes, queue,
           irqs, executing, held, oops>>

NoReply == [cb |-> "none", cmd |-> "none", ack |-> TRUE]

Init ==
  /\ faults \in {F \in SUBSET Faults : Cardinality(F) <= Together}
  /\ quiet \in BOOLEAN
  /\ busy = FALSE /\ reserved = FALSE /\ prio = {} /\ callback = "none"
  /\ reply = NoReply /\ expired = FALSE /\ task = "none"
  /\ flags = "0" /\ waits = 0
  /\ mstate = "IDLE" /\ hstTask = FALSE
  /\ buffer = 0
  /\ opsState = "IDLE" /\ rep = 0 /\ commander = None /\ sem = None
  /\ pc = [u \in Users |-> "idle"] /\ asleep = {}
  /\ mine = [u \in Users |-> 0] /\ got = [u \in Users |-> 0] /\ writes = 0
  /\ queue = <<>> /\ irqs = <<>> /\ executing = 0 /\ held = 0
  /\ oops = FALSE

-----------------------------------------------------------------------------
(* The channel to the card (dsp_driver.c).                                 *)

(* dsp_send_command: refused while a command or a reservation is out, or   *)
(* before priority tasks are done.                                         *)
Free(priority) == ~busy /\ ~reserved /\ (prio = {} \/ priority)

SendDsp(cmd, id) ==
  /\ busy' = TRUE /\ callback' = cmd
  /\ queue' = Append(queue, [cmd |-> cmd, id |-> id])

Dropped_Busy == "refuse" \in faults \/ ~Free(TRUE)
Dropped == "refuse" \in faults /\ Free(TRUE)

(* dsp_priority_task: clear the card's reply flag, which takes no answer,  *)
(* or send the command of dsp_send_command_wait; what the bus refuses for  *)
(* another reason than being busy counts as done.                          *)
PriorityTask ==
  /\ task = "none"
  /\ \/ /\ "RPC" \in prio /\ ~busy
        /\ task' = "RPC"
        /\ UNCHANGED <<busy, callback, queue>>
     \/ /\ "RPC" \notin prio /\ "INT" \in prio /\ Free(TRUE)
        /\ SendDsp("WAIT", 0)
        /\ task' = "INT"
     \/ /\ "RPC" \notin prio /\ "INT" \in prio /\ Dropped
        /\ task' = "INT"
        /\ UNCHANGED <<busy, callback, queue>>
  /\ UNCHANGED <<world, reserved, prio, reply, expired, local, mce, ops, users,
                 asleep, irqs, executing, held, oops>>

PriorityDone ==
  /\ task # "none"
  /\ prio' = prio \ {task} /\ task' = "none"
  /\ UNCHANGED <<world, busy, reserved, callback, reply, expired,
                 local, mce, ops, users, asleep, card, oops>>

(* dsp_send_command_wait, one caller at a time, up to its sleep and after. *)
WaitStart ==
  /\ waits < MaxWaits
  /\ flags = "0"
  /\ task = "INT" => "overlap" \in faults
  /\ flags' = "CMD" /\ prio' = prio \cup {"INT"} /\ waits' = waits + 1
  /\ UNCHANGED <<world, busy, reserved, callback, reply, expired,
                 task, mce, ops, users, asleep, card, oops>>

WaitEnd ==
  /\ flags = "REP"
  /\ flags' = "0"
  /\ UNCHANGED <<world, dsp, reply, expired, task, waits, mce, ops, users,
                 asleep, card, oops>>

-----------------------------------------------------------------------------
(* mce_write_callback: a reply for the command in progress, if there is.   *)
WriteCallback(id) ==
  IF opsState = "CMD"
  THEN /\ opsState' = IF id = 0 THEN "ERR" ELSE "REP"
       /\ rep' = id
       /\ asleep' = {}
  ELSE UNCHANGED <<opsState, rep, asleep>>

(* mce_command_do_callback, whose callback is set while a transaction is   *)
(* on; id 0 stands for an error.                                           *)
DoCallback(id) ==
  /\ mstate' = "IDLE" /\ buffer' = 0
  /\ WriteCallback(id)

NoCallback == UNCHANGED <<mstate, buffer, opsState, rep, asleep>>

(* mce_CON_dsp_callback; err stands for a timeout, with no message. *)
ConFails_Reserved == UNCHANGED reserved
ConFails == reserved' = FALSE

ConCallback(err, msg) ==
  \/ mstate # "CON" /\ NoCallback /\ UNCHANGED reserved
  \/ /\ mstate = "CON"
     /\ IF err \/ (msg.cmd = "CON" /\ ~msg.ack) THEN DoCallback(0) /\ ConFails
        ELSE IF msg.cmd # "CON" THEN DoCallback(0) /\ UNCHANGED reserved
        ELSE /\ mstate' = "CONOK"
             /\ UNCHANGED <<buffer, opsState, rep, asleep, reserved>>

(* mce_HST_dsp_callback. *)
HstCallback(err, msg) ==
  /\ UNCHANGED reserved
  /\ IF mstate # "HST" THEN NoCallback
     ELSE IF err \/ msg.cmd # "HST" \/ ~msg.ack THEN DoCallback(0)
     ELSE DoCallback(buffer)

(* dsp_send_command_wait_callback copies the message before all else.      *)
WaitCallback(err) ==
  /\ NoCallback /\ UNCHANGED reserved
  /\ IF flags # "CMD" THEN UNCHANGED <<flags, oops>>
     ELSE IF err THEN oops' = TRUE /\ UNCHANGED flags
     ELSE flags' = "REP" /\ UNCHANGED oops

RunCallback(cb, err, msg) ==
  \/ cb = "CON"  /\ ConCallback(err, msg) /\ UNCHANGED <<flags, oops>>
  \/ cb = "HST"  /\ HstCallback(err, msg) /\ UNCHANGED <<flags, oops>>
  \/ cb = "WAIT" /\ WaitCallback(err)
  \/ cb = "none" /\ NoCallback /\ UNCHANGED <<reserved, flags, oops>>

-----------------------------------------------------------------------------
(* Interrupts.                                                             *)

IrqFree == reply = NoReply

(* dsp_reply_handler: the callback is looked up, run, and only then is the *)
(* command over.                                                           *)
ReplyStart ==
  /\ IrqFree /\ irqs # <<>> /\ Head(irqs).type = "REP"
  /\ reply' = [cb |-> IF busy THEN callback ELSE "late",
               cmd |-> Head(irqs).cmd, ack |-> Head(irqs).ack]
  /\ irqs' = Tail(irqs)
  /\ UNCHANGED <<world, dsp, expired, task, local, mce, ops, users, asleep,
                 queue, executing, held, oops>>

ReplyCallback ==
  /\ reply.cb \notin {"none", "late", "done"}
  /\ RunCallback(reply.cb, FALSE, reply)
  /\ reply' = [reply EXCEPT !.cb = "done"]
  /\ UNCHANGED <<world, busy, prio, callback, expired, task, waits,
                 hstTask, commander, sem, users, card>>

ReplyEnd ==
  /\ reply.cb \in {"late", "done"}
  /\ busy' = FALSE
  /\ reply' = NoReply
  /\ UNCHANGED <<world, reserved, prio, callback, expired, task,
                 local, mce, ops, users, asleep, card, oops>>

(* mce_NFY_RPQ_handler and mce_NFY_RP_handler. *)
Notified ==
  /\ IrqFree /\ irqs # <<>> /\ Head(irqs).type = "NFY"
  /\ irqs' = Tail(irqs)
  /\ \/ /\ mstate # "CONOK"
        /\ NoCallback
        /\ UNCHANGED <<reserved, prio, hstTask>>
     \/ /\ mstate = "CONOK" /\ quiet
        /\ DoCallback(buffer)
        /\ prio' = prio \cup {"RPC"}
        /\ reserved' = FALSE
        /\ UNCHANGED hstTask
     \/ /\ mstate = "CONOK" /\ ~quiet
        /\ mstate' = "NFY" /\ hstTask' = TRUE
        /\ reserved' = FALSE
        /\ UNCHANGED <<buffer, opsState, rep, asleep, prio>>
  /\ UNCHANGED <<world, busy, callback, reply, expired, task, local,
                 commander, sem, users, queue, executing, held,
                 oops>>

(* mce_do_HST_or_schedule, from the handler or its tasklet. *)
DoHst ==
  /\ hstTask
  /\ \/ /\ mstate # "NFY"
        /\ hstTask' = FALSE
        /\ NoCallback
        /\ UNCHANGED <<busy, callback, queue>>
     \/ /\ mstate = "NFY" /\ Free(FALSE)
        /\ SendDsp("HST", 0)
        /\ mstate' = "HST" /\ hstTask' = FALSE
        /\ UNCHANGED <<buffer, opsState, rep, asleep>>
     \/ /\ mstate = "NFY" /\ Free(FALSE) /\ "refuse" \in faults
        /\ DoCallback(0)
        /\ hstTask' = FALSE
        /\ UNCHANGED <<busy, callback, queue>>
  /\ UNCHANGED <<world, reserved, prio, reply, expired, task, local, 
                 commander, sem, users, irqs, executing, held, oops>>

-----------------------------------------------------------------------------
(* Timers.  Each is set anew with every command, and ignored when there is *)
(* none: it matters while busy, or mstate # "IDLE".  The card's runs 500   *)
(* ms and the MCE's a second from the sending: but for one that is too     *)
(* early ("slow", then "late"), the other side has by then answered what   *)
(* it is going to answer.                                                  *)

CardSilent == queue = <<>> /\ irqs = <<>> /\ reply = NoReply
MceSilent  == CardSilent /\ executing = 0 /\ ~expired /\ ~hstTask

Due(silent) ==
  \/ silent /\ UNCHANGED faults
  \/ "slow" \in faults /\ faults' = (faults \ {"slow"}) \cup {"late"}

(* dsp_timeout: the command is given up first; whatever is the callback    *)
(* when it comes to that is called.                                        *)
DspTimer ==
  /\ busy /\ ~expired
  /\ Due(CardSilent)
  /\ busy' = FALSE /\ expired' = TRUE
  /\ UNCHANGED <<quiet, reserved, prio, callback, reply, task, local, mce, ops,
                 users, asleep, card, oops>>

DspExpired ==
  /\ expired
  /\ expired' = FALSE
  /\ RunCallback(callback, TRUE, NoReply)
  /\ UNCHANGED <<world, busy, prio, callback, reply, task, waits,
                 hstTask, commander, sem, users, card>>

(* mce_send_command_timer *)
GiveUp_Silent ==
  /\ mstate' = "IDLE" /\ buffer' = 0 /\ reserved' = FALSE
  /\ UNCHANGED <<opsState, rep, asleep>>
GiveUp == DoCallback(0) /\ reserved' = FALSE

MceTimer ==
  /\ mstate # "IDLE"
  /\ Due(MceSilent /\ (mstate = "CON" => ~busy))
  /\ GiveUp
  /\ UNCHANGED <<quiet, busy, prio, callback, reply, expired, task,
                 local, hstTask, commander, sem, users, card, oops>>

-----------------------------------------------------------------------------
(* The device file (mce_ops.c), blocking, with MCEDEV_CLOSED_CHANNEL and   *)
(* MCEDEV_CLOSE_CLEANLY as the library sets them.                          *)

channel == <<busy, reserved, prio, callback, reply, expired, task,
             flags, waits, mstate, hstTask, buffer, queue, irqs,
             executing, held, oops>>

Call(u) ==
  /\ pc[u] = "idle"
  /\ \/ /\ writes < MaxWrites
        /\ pc' = [pc EXCEPT ![u] = "write"] /\ mine' = [mine EXCEPT ![u] = 0]
     \/ /\ pc' = [pc EXCEPT ![u] = "read"]
        /\ UNCHANGED mine
  /\ got' = [got EXCEPT ![u] = 0]
  /\ UNCHANGED <<world, channel, ops, asleep, writes>>

Goes(u, to) == pc' = [pc EXCEPT ![u] = to]

(* mce_write: once the device is idle, it is taken, with the next number.  *)
WriteTakes(u) ==
  /\ pc[u] = "write" /\ sem = None
  /\ IF opsState = "IDLE"
     THEN /\ opsState' = "CMD" /\ commander' = u /\ sem' = u /\ Goes(u, "send")
          /\ writes' = writes + 1
     ELSE Goes(u, "waitIdle") /\ UNCHANGED <<opsState, commander, sem, writes>>
  /\ UNCHANGED <<world, channel, rep, asleep, mine, got>>

(* mce_send_command, tried again while the channel is busy. *)
Send(u) ==
  /\ pc[u] = "send"
  /\ mstate = "IDLE" /\ Free(FALSE)
  /\ SendDsp("CON", writes)
  /\ reserved' = TRUE /\ mstate' = "CON"
  /\ sem' = None /\ Goes(u, "idle") /\ mine' = [mine EXCEPT ![u] = writes]
  /\ UNCHANGED <<world, prio, reply, expired, task, local, hstTask, buffer,
                 opsState, rep, commander, asleep, got, writes, irqs,
                 executing, held, oops>>

(* It has failed, or found the channel busy 10000 times, as it does when a *)
(* reservation is left that nobody will end: the device is idle again, and *)
(* nobody is told.                                                         *)
SendFails(u) ==
  /\ pc[u] = "send"
  /\ mstate # "IDLE" \/ reserved \/ "refuse" \in faults
  /\ opsState' = "IDLE" /\ sem' = None /\ Goes(u, "idle")
  /\ UNCHANGED <<world, channel, rep, commander, asleep, mine, got, writes>>

(* mce_read *)
Mine_Any(u) == TRUE
Mine(u) == commander = u

Woken_None == UNCHANGED asleep
Woken == asleep' = {}

ReadTakes(u) ==
  /\ pc[u] = "read" /\ sem = None
  /\ \/ /\ opsState = "IDLE" \/ ~Mine(u)
        /\ Goes(u, "idle")
        /\ UNCHANGED <<opsState, asleep, got>>
     \/ /\ opsState = "CMD" /\ Mine(u)
        /\ Goes(u, "waitReply")
        /\ UNCHANGED <<opsState, asleep, got>>
     \/ /\ opsState \in {"REP", "ERR"} /\ Mine(u)
        /\ got' = [got EXCEPT ![u] = IF opsState = "REP" THEN rep ELSE 0]
        /\ opsState' = "IDLE" /\ Woken
        /\ Goes(u, "idle")
  /\ UNCHANGED <<world, channel, rep, commander, sem, mine, writes>>

(* wait_event_interruptible: to look, and to sleep until woken. *)
Awaited(u) == IF pc[u] = "waitIdle" THEN opsState = "IDLE" ELSE opsState # "CMD"

Look(u) ==
  /\ pc[u] \in {"waitIdle", "waitReply"} /\ u \notin asleep
  /\ IF Awaited(u)
     THEN /\ Goes(u, IF pc[u] = "waitIdle" THEN "write" ELSE "read")
          /\ UNCHANGED asleep
     ELSE asleep' = asleep \cup {u} /\ UNCHANGED pc
  /\ UNCHANGED <<world, channel, ops, mine, got, writes>>

(* mce_release, of a process that is between calls or is killed in its     *)
(* sleep; the file stands for the next one opened.                         *)
Close(u) ==
  /\ "close" \in faults
  /\ pc[u] \in {"idle", "waitIdle", "waitReply"}
  /\ commander = u /\ opsState # "IDLE"
  /\ opsState' = "IDLE" /\ asleep' = {} /\ Goes(u, "idle")
  /\ mine' = [mine EXCEPT ![u] = 0] /\ got' = [got EXCEPT ![u] = 0]
  /\ UNCHANGED <<world, channel, rep, commander, sem, writes>>

-----------------------------------------------------------------------------
(* External: the card answers its commands in order, and passes a reply on *)
(* when the MCE has one.                                                   *)

Driver == <<dsp, reply, expired, task, local, mstate, hstTask, ops,
            users, asleep, oops>>

Rep(cmd, ack) == [type |-> "REP", cmd |-> cmd, ack |-> ack]

CardExec ==
  /\ queue # <<>>
  /\ queue' = Tail(queue)
  /\ LET c == Head(queue) IN
     \/ /\ irqs' = Append(irqs, Rep(c.cmd, TRUE))
        /\ executing' = IF c.cmd = "CON" THEN c.id ELSE executing
        /\ buffer' = IF c.cmd = "HST" THEN held ELSE buffer
        /\ held' = IF c.cmd = "HST" THEN 0 ELSE held
     \/ /\ "nak" \in faults
        /\ irqs' = Append(irqs, Rep(c.cmd, FALSE))
        /\ UNCHANGED <<executing, buffer, held>>
     \/ /\ (IF c.cmd = "WAIT" THEN "dead" ELSE "mute") \in faults
        /\ UNCHANGED <<irqs, executing, buffer, held>>
  /\ UNCHANGED <<world, Driver>>

MceReplies ==
  /\ executing # 0
  /\ executing' = 0
  /\ \/ /\ irqs' = Append(irqs, [type |-> "NFY", cmd |-> "NFY", ack |-> TRUE])
        /\ IF quiet THEN buffer' = executing /\ UNCHANGED held
                    ELSE held' = executing /\ UNCHANGED buffer
     \/ /\ "mute" \in faults
        /\ UNCHANGED <<irqs, buffer, held>>
  /\ UNCHANGED <<world, Driver, queue>>

-----------------------------------------------------------------------------
Interrupts == ReplyStart \/ ReplyCallback \/ ReplyEnd \/ Notified
Timers == DspTimer \/ DspExpired \/ MceTimer
Tasklets == PriorityTask \/ PriorityDone \/ DoHst
Card == CardExec \/ MceReplies
Calls(u) == WriteTakes(u) \/ Send(u) \/ SendFails(u) \/ ReadTakes(u) \/ Look(u)

Next ==
  /\ ~oops
  /\ \/ Interrupts \/ Timers \/ Tasklets \/ Card \/ WaitStart \/ WaitEnd
     \/ \E u \in Users : Call(u) \/ Calls(u) \/ Close(u)

Spec == Init /\ [][Next]_vars

(* Interrupts, timers and tasklets run, system calls return, and the card  *)
(* does what it does; nobody need call the driver.                         *)
FairSpec ==
  /\ Spec
  /\ WF_vars(~oops /\ (Interrupts \/ Timers)) /\ WF_vars(~oops /\ Tasklets)
  /\ WF_vars(~oops /\ Card)
  /\ \A u \in Users : WF_vars(~oops /\ Calls(u))

-----------------------------------------------------------------------------
Spared(F) ==
  /\ faults \cap F = {}
  /\ "slow" \in F => "late" \notin faults

(***************************************************************************)
(* The channel is reserved only while the MCE has a command to notify of,  *)
(* unless an answer can come late: however the transaction ends, the       *)
(* reservation ends with it (the many calls of dsp_unreserve).             *)
(***************************************************************************)
ReservedOnlyWaiting ==
  Spared({"slow"}) => (reserved => mstate \in {"CON", "CONOK"})

(***************************************************************************)
(* What a file reads is the reply to the command it wrote, and no other,   *)
(* unless an answer can come late or a file is closed on its command       *)
(* (mce_ops.c; the reply packet itself is checked by the library).         *)
(***************************************************************************)
OwnReply ==
  Spared({"slow", "close"}) => \A u \in Users : got[u] # 0 => got[u] = mine[u]

(***************************************************************************)
(* Nobody sleeps through what it waits for, unless a write can fail to     *)
(* send: that alone makes the device idle and wakes nobody (mce_write).    *)
(***************************************************************************)
NoMissedWakeup ==
  Spared({"slow", "close", "refuse"}) => \A u \in asleep : ~Awaited(u)

(***************************************************************************)
(* A caller in dsp_send_command_wait has its command requested, sent or    *)
(* answered, unless it can be dropped (see the faults): it never waits for *)
(* nothing.                                                                *)
(***************************************************************************)
RequestKept ==
  Spared({"slow", "mute", "dead", "refuse", "overlap"}) =>
    (flags = "CMD" => \/ "INT" \in prio
                      \/ busy /\ callback = "WAIT")

(***************************************************************************)
(* The callbacks are given no message after a timeout, and none of them    *)
(* reads it.                                                               *)
(***************************************************************************)
NoOops == ~oops

(***************************************************************************)
(* Whatever the card, the MCE, the bus and the closing of files do short   *)
(* of a crash, a command in progress ends, in a reply, in an error or in   *)
(* idleness.                                                               *)
(***************************************************************************)
CommandEnds == (opsState = "CMD") ~> (opsState # "CMD" \/ oops)
=============================================================================
