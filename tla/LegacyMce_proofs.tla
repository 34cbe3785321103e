-------------------------- MODULE LegacyMce_proofs --------------------------
(***************************************************************************)
(* The safety properties of LegacyMce, for any files, commands and kinds   *)
(* of trouble.  None is inductive alone.  A reservation is known to belong *)
(* to a transaction, and a reply to a command, by following one command    *)
(* through the channel (Channel), one transaction through its states       *)
(* (Transaction) and one file through the device (Device, Own); who sleeps *)
(* and who is woken then depends on where the device is (Sleepers, Kept).  *)
(***************************************************************************)
EXTENDS LegacyMce, SequenceTheorems, TLAPS

Cmds == [cmd : {"CON", "HST", "WAIT"}, id : Nat]
Irqs == [type : {"REP", "NFY"}, cmd : {"CON", "HST", "WAIT", "NFY"}, ack : BOOLEAN]

CardTypes ==
  /\ queue \in Seq(Cmds) /\ irqs \in Seq(Irqs)
  /\ executing \in Nat /\ held \in Nat /\ buffer \in Nat /\ writes \in Nat

ReplyTypes ==
  /\ callback \in {"none", "CON", "HST", "WAIT"}
  /\ reply \in [cb : {"none", "late", "done", "CON", "HST", "WAIT"},
                cmd : {"none", "CON", "HST", "WAIT", "NFY"}, ack : BOOLEAN]

StateTypes ==
  /\ task \in {"none", "RPC", "INT"} /\ flags \in {"0", "CMD", "REP"}
  /\ mstate \in {"IDLE", "CON", "CONOK", "NFY", "HST"}
  /\ opsState \in {"IDLE", "CMD", "REP", "ERR"} /\ rep \in Nat

FileTypes ==
  /\ pc \in [Users -> {"idle", "write", "waitIdle", "send", "read", "waitReply"}]
  /\ mine \in [Users -> Nat] /\ got \in [Users -> Nat]
  /\ asleep \subseteq Users
  /\ sem \in Users \cup {None} /\ commander \in Users \cup {None}

Types == CardTypes /\ ReplyTypes /\ StateTypes /\ FileTypes

LEMMA TypesInit == Init => Types
BY DEF Init, Types, CardTypes, ReplyTypes, StateTypes, FileTypes, NoReply

(* The actions one by one. *)
LEMMA Steps ==
  ASSUME [Next]_vars
  PROVE  \/ ReplyStart \/ ReplyCallback \/ ReplyEnd \/ Notified
         \/ DspTimer \/ DspExpired \/ MceTimer
         \/ PriorityTask \/ PriorityDone \/ DoHst \/ CardExec \/ MceReplies
         \/ WaitStart \/ WaitEnd \/ UNCHANGED vars
         \/ \E u \in Users : \/ Call(u) \/ WriteTakes(u) \/ Send(u) \/ SendFails(u)
                             \/ ReadTakes(u) \/ Look(u) \/ Close(u)
BY DEF Next, Interrupts, Timers, Tasklets, Card, Calls

-----------------------------------------------------------------------------
(* Types. *)

LEMMA Records ==
  /\ \A cmd \in {"CON", "HST", "WAIT"}, id \in Nat : [cmd |-> cmd, id |-> id] \in Cmds
  /\ \A cmd \in {"CON", "HST", "WAIT"}, ack \in BOOLEAN : Rep(cmd, ack) \in Irqs
  /\ [type |-> "NFY", cmd |-> "NFY", ack |-> TRUE] \in Irqs
  /\ \A c \in Cmds : c.cmd \in {"CON", "HST", "WAIT"} /\ c.id \in Nat
  /\ \A q \in Irqs : q.cmd \in {"CON", "HST", "WAIT", "NFY"} /\ q.ack \in BOOLEAN
BY DEF Cmds, Irqs, Rep

(* A command that is sent ends the queue. *)
LEMMA SendDspIs ==
  ASSUME CardTypes, NEW cmd \in {"CON", "HST", "WAIT"}, NEW id \in Nat, SendDsp(cmd, id)
  PROVE  /\ busy' /\ callback' = cmd
         /\ queue' = Append(queue, [cmd |-> cmd, id |-> id]) /\ queue' \in Seq(Cmds)
         /\ Len(queue') = Len(queue) + 1 /\ queue' # <<>>
         /\ queue = <<>> => queue'[1] = [cmd |-> cmd, id |-> id]
<1>1. [cmd |-> cmd, id |-> id] \in Cmds /\ queue \in Seq(Cmds)
  BY Records DEF CardTypes
<1> QED
  BY <1>1, AppendProperties DEF SendDsp

LEMMA CardTypesNext == Types /\ [Next]_vars => CardTypes'
<1> SUFFICES ASSUME Types, [Next]_vars PROVE CardTypes'
  OBVIOUS
<1>1. CardTypes
  BY DEF Types
<1>2. CASE ReplyStart \/ Notified
  <2>1. irqs' = Tail(irqs) /\ irqs # <<>> /\ UNCHANGED <<queue, executing, held, writes>>
    BY <1>2 DEF ReplyStart, Notified, users
  <2>2. irqs' \in Seq(Irqs)
    BY <1>1, <2>1, HeadTailProperties DEF CardTypes
  <2>3. buffer' = buffer \/ buffer' = 0
    BY <1>2 DEF ReplyStart, Notified, mce, DoCallback, NoCallback
  <2> QED
    BY <1>1, <2>1, <2>2, <2>3 DEF CardTypes
<1>3. CASE ReplyCallback \/ DspExpired
  <2>1. UNCHANGED <<queue, irqs, executing, held, writes>>
    BY <1>3 DEF ReplyCallback, DspExpired, card, users
  <2>2. buffer' = buffer \/ buffer' = 0
    BY <1>3 DEF ReplyCallback, DspExpired, RunCallback, ConCallback, HstCallback,
         WaitCallback, DoCallback, NoCallback
  <2> QED
    BY <1>1, <2>1, <2>2 DEF CardTypes
<1>4. CASE MceTimer
  BY <1>1, <1>4 DEF MceTimer, GiveUp, DoCallback, card, users, CardTypes
<1>5. CASE PriorityTask
  <2>1. UNCHANGED <<irqs, executing, held, writes, buffer>>
    BY <1>5 DEF PriorityTask, mce, users
  <2>2. queue' \in Seq(Cmds)
    BY <1>1, <1>5, SendDspIs DEF PriorityTask, CardTypes
  <2> QED
    BY <1>1, <2>1, <2>2 DEF CardTypes
<1>6. CASE DoHst
  <2>1. UNCHANGED <<irqs, executing, held, writes>>
    BY <1>6 DEF DoHst, users
  <2>2. queue' \in Seq(Cmds)
    BY <1>1, <1>6, SendDspIs DEF DoHst, CardTypes
  <2>3. buffer' = buffer \/ buffer' = 0
    BY <1>6 DEF DoHst, DoCallback, NoCallback
  <2> QED
    BY <1>1, <2>1, <2>2, <2>3 DEF CardTypes
<1>7. CASE CardExec
  <2>1. Head(queue) \in Cmds /\ queue' \in Seq(Cmds) /\ irqs \in Seq(Irqs)
    BY <1>1, <1>7, HeadTailProperties DEF CardExec, CardTypes
  <2>2. /\ Rep(Head(queue).cmd, TRUE) \in Irqs /\ Rep(Head(queue).cmd, FALSE) \in Irqs
        /\ Head(queue).id \in Nat
    BY <2>1, Records
  <2>3. \/ irqs' = irqs
        \/ irqs' = Append(irqs, Rep(Head(queue).cmd, TRUE))
        \/ irqs' = Append(irqs, Rep(Head(queue).cmd, FALSE))
    BY <1>7 DEF CardExec
  <2>4. irqs' \in Seq(Irqs)
    <3>1. \A q \in Irqs : Append(irqs, q) \in Seq(Irqs)
      BY <2>1, AppendProperties
    <3> QED
      BY <2>1, <2>2, <2>3, <3>1
  <2>5. /\ executing' = executing \/ executing' = Head(queue).id
        /\ buffer' = buffer \/ buffer' = held
        /\ held' = held \/ held' = 0
        /\ writes' = writes
    BY <1>7 DEF CardExec, Driver, users
  <2> QED
    BY <1>1, <2>1, <2>2, <2>4, <2>5 DEF CardTypes
<1>8. CASE MceReplies
  <2>1. irqs' = irqs \/ irqs' = Append(irqs, [type |-> "NFY", cmd |-> "NFY", ack |-> TRUE])
    BY <1>8 DEF MceReplies
  <2>2. irqs' \in Seq(Irqs)
    <3>1. [type |-> "NFY", cmd |-> "NFY", ack |-> TRUE] \in Irqs
      BY Records
    <3> QED
      BY <1>1, <2>1, <3>1, AppendProperties DEF CardTypes
  <2>3. /\ executing' = 0
        /\ buffer' = buffer \/ buffer' = executing
        /\ held' = held \/ held' = executing
        /\ writes' = writes /\ queue' = queue
    BY <1>8 DEF MceReplies, Driver, users
  <2> QED
    BY <1>1, <2>2, <2>3 DEF CardTypes
<1>9. ASSUME NEW u \in Users, Send(u) PROVE CardTypes'
  <2>1. UNCHANGED <<irqs, executing, held, writes, buffer>>
    BY <1>9 DEF Send
  <2>2. queue' \in Seq(Cmds)
    BY <1>1, <1>9, SendDspIs DEF Send, CardTypes
  <2> QED
    BY <1>1, <2>1, <2>2 DEF CardTypes
<1>10. CASE \/ ReplyEnd \/ DspTimer \/ PriorityDone \/ WaitStart \/ WaitEnd \/ UNCHANGED vars
            \/ \E u \in Users : \/ Call(u) \/ WriteTakes(u) \/ SendFails(u)
                             \/ ReadTakes(u) \/ Look(u) \/ Close(u)
  <2>1. UNCHANGED <<queue, irqs, executing, held, buffer>>
    BY <1>10 DEF ReplyEnd, DspTimer, PriorityDone, WaitStart, WaitEnd, vars, card, mce,
      Call, WriteTakes, SendFails, ReadTakes, Look, Close, channel
  <2>2. writes' = writes \/ writes' = writes + 1
    BY <1>10 DEF ReplyEnd, DspTimer, PriorityDone, WaitStart, WaitEnd, vars, users,
      Call, WriteTakes, SendFails, ReadTakes, Look, Close
  <2> QED
    BY <1>1, <2>1, <2>2 DEF CardTypes
<1> QED
  BY <1>2, <1>3, <1>4, <1>5, <1>6, <1>7, <1>8, <1>9, <1>10, Steps

LEMMA ReplyTypesNext == Types /\ [Next]_vars => ReplyTypes'
<1> SUFFICES ASSUME Types, [Next]_vars PROVE ReplyTypes'
  OBVIOUS
<1>1. CardTypes /\ ReplyTypes
  BY DEF Types
<1>2. CASE ReplyStart
  <2>1. Head(irqs) \in Irqs
    BY <1>1, <1>2, HeadTailProperties DEF ReplyStart, CardTypes
  <2>2. /\ reply' = [cb |-> IF busy THEN callback ELSE "late",
                     cmd |-> Head(irqs).cmd, ack |-> Head(irqs).ack]
        /\ callback' = callback
    BY <1>2 DEF ReplyStart, dsp
  <2> QED
    BY <1>1, <2>1, <2>2, Records DEF ReplyTypes
<1>3. CASE ReplyCallback \/ ReplyEnd
  <2>1. reply' = [reply EXCEPT !.cb = "done"] \/ reply' = NoReply
    BY <1>3 DEF ReplyCallback, ReplyEnd
  <2>2. callback' = callback
    BY <1>3 DEF ReplyCallback, ReplyEnd
  <2>3. CASE reply' = NoReply
    BY <1>1, <2>2, <2>3 DEF ReplyTypes, NoReply
  <2>4. CASE reply' = [reply EXCEPT !.cb = "done"]
    BY <1>1, <2>2, <2>4 DEF ReplyTypes
  <2> QED
    BY <2>1, <2>3, <2>4
<1>4. CASE \/ PriorityTask \/ DoHst \/ \E u \in Users : Send(u)
  <2>1. reply' = reply
    BY <1>4 DEF PriorityTask, DoHst, Send
  <2>2. callback' \in {callback, "CON", "HST", "WAIT"}
    BY <1>4 DEF PriorityTask, DoHst, Send, SendDsp
  <2> QED
    BY <1>1, <2>1, <2>2 DEF ReplyTypes
<1>5. CASE \/ Notified \/ DspTimer \/ DspExpired \/ MceTimer \/ PriorityDone
           \/ CardExec \/ MceReplies \/ WaitStart \/ WaitEnd \/ UNCHANGED vars
           \/ \E u \in Users : \/ Call(u) \/ WriteTakes(u) \/ SendFails(u)
                               \/ ReadTakes(u) \/ Look(u) \/ Close(u)
  <2>1. UNCHANGED <<reply, callback>>
    BY <1>5 DEF Notified, DspTimer, DspExpired, MceTimer, PriorityDone, CardExec,
      MceReplies, WaitStart, WaitEnd, vars, dsp, channel, Driver,
      Call, WriteTakes, SendFails, ReadTakes, Look, Close
  <2> QED
    BY <1>1, <2>1 DEF ReplyTypes
<1> QED
  BY <1>2, <1>3, <1>4, <1>5, Steps

LEMMA StateTypesNext == Types /\ [Next]_vars => StateTypes'
<1> SUFFICES ASSUME Types, [Next]_vars PROVE StateTypes'
  OBVIOUS
<1>1. StateTypes /\ buffer \in Nat
  BY DEF Types, CardTypes
<1>2. CASE ReplyCallback \/ DspExpired
  BY <1>1, <1>2 DEF ReplyCallback, DspExpired, RunCallback, ConCallback, HstCallback,
         WaitCallback, DoCallback, WriteCallback, NoCallback, StateTypes
<1>3. CASE Notified \/ MceTimer \/ DoHst
  <2>1. UNCHANGED <<task, flags>>
    BY <1>3 DEF Notified, MceTimer, DoHst, local
  <2>2. /\ mstate' \in {mstate, "IDLE", "NFY", "HST"}
        /\ opsState' \in {opsState, "ERR", "REP"}
        /\ rep' \in {rep, 0, buffer}
    BY <1>3 DEF Notified, MceTimer, GiveUp, DoHst, DoCallback, WriteCallback, NoCallback
  <2> QED
    BY <1>1, <2>1, <2>2 DEF StateTypes
<1>4. CASE PriorityTask \/ PriorityDone \/ WaitStart \/ WaitEnd
  BY <1>1, <1>4 DEF PriorityTask, PriorityDone, WaitStart, WaitEnd, StateTypes, local, ops, mce
<1>5. CASE ReplyStart \/ ReplyEnd \/ DspTimer \/ CardExec \/ MceReplies \/ UNCHANGED vars
  BY <1>1, <1>5 DEF ReplyStart, ReplyEnd, DspTimer, CardExec, MceReplies, vars, Driver,
         StateTypes, local, ops, mce
<1>6. ASSUME NEW u \in Users,
             \/ Call(u) \/ WriteTakes(u) \/ Send(u) \/ SendFails(u)
             \/ ReadTakes(u) \/ Look(u) \/ Close(u)
      PROVE  StateTypes'
  BY <1>1, <1>6 DEF Call, WriteTakes, Send, SendFails, ReadTakes, Look, Close, StateTypes,
         channel, local, ops
<1> QED
  BY <1>2, <1>3, <1>4, <1>5, <1>6, Steps

LEMMA FileTypesNext == Types /\ [Next]_vars => FileTypes'
<1> SUFFICES ASSUME Types, [Next]_vars PROVE FileTypes'
  OBVIOUS
<1>1. FileTypes /\ rep \in Nat /\ writes \in Nat
  BY DEF Types, CardTypes, StateTypes
<1>2. CASE ReplyCallback \/ DspExpired \/ Notified \/ MceTimer \/ DoHst
  <2>1. UNCHANGED <<pc, mine, got, sem, commander>>
    BY <1>2 DEF ReplyCallback, DspExpired, Notified, MceTimer, DoHst, users
  <2>2. asleep' = asleep \/ asleep' = {}
    BY <1>2 DEF ReplyCallback, DspExpired, Notified, MceTimer, DoHst, GiveUp, RunCallback,
         ConCallback, HstCallback, WaitCallback, DoCallback, WriteCallback, NoCallback
  <2> QED
    BY <1>1, <2>1, <2>2 DEF FileTypes
<1>3. CASE \/ ReplyStart \/ ReplyEnd \/ DspTimer \/ PriorityTask \/ PriorityDone
           \/ CardExec \/ MceReplies \/ WaitStart \/ WaitEnd \/ UNCHANGED vars
  <2>1. UNCHANGED <<pc, mine, got, asleep, sem, commander>>
    BY <1>3 DEF ReplyStart, ReplyEnd, DspTimer, PriorityTask, PriorityDone,
      CardExec, MceReplies, WaitStart, WaitEnd, vars, users, ops, Driver
  <2> QED
    BY <1>1, <2>1 DEF FileTypes
<1>4. ASSUME NEW u \in Users,
             \/ Call(u) \/ WriteTakes(u) \/ Send(u) \/ SendFails(u)
             \/ ReadTakes(u) \/ Look(u) \/ Close(u)
      PROVE  FileTypes'
  <2>1. \E to \in {"idle", "write", "waitIdle", "send", "read", "waitReply"} :
           pc' = [pc EXCEPT ![u] = to] \/ pc' = pc
    BY <1>4 DEF Call, WriteTakes, Send, SendFails, ReadTakes, Look, Close, Goes
  <2>2. pc' \in [Users -> {"idle", "write", "waitIdle", "send", "read", "waitReply"}]
    BY <1>1, <2>1 DEF FileTypes
  <2>3. \E n \in Nat : mine' = [mine EXCEPT ![u] = n] \/ mine' = mine
    BY <1>1, <1>4 DEF Call, WriteTakes, Send, SendFails, ReadTakes, Look, Close
  <2>4. \E n \in Nat : got' = [got EXCEPT ![u] = n] \/ got' = got
    BY <1>1, <1>4 DEF Call, WriteTakes, Send, SendFails, ReadTakes, Look, Close
  <2>5. mine' \in [Users -> Nat] /\ got' \in [Users -> Nat]
    BY <1>1, <2>3, <2>4 DEF FileTypes
  <2>6. asleep' \subseteq Users
    BY <1>1, <1>4 DEF Call, WriteTakes, Send, SendFails, ReadTakes, Look, Close, Woken, FileTypes
  <2>7. sem' \in Users \cup {None} /\ commander' \in Users \cup {None}
    BY <1>1, <1>4 DEF Call, WriteTakes, Send, SendFails, ReadTakes, Look, Close, ops, FileTypes
  <2> QED
    BY <2>2, <2>5, <2>6, <2>7 DEF FileTypes
<1> QED
  BY <1>2, <1>3, <1>4, Steps

LEMMA TypesNext == Types /\ [Next]_vars => Types'
BY CardTypesNext, ReplyTypesNext, StateTypesNext, FileTypesNext DEF Types

-----------------------------------------------------------------------------
(* Trouble only lessens, and a slow timer is noticed. *)
NoSlow == "slow" \notin faults /\ "late" \notin faults

LEMMA Spares ==
  /\ Spared({"slow"}) <=> NoSlow
  /\ Spared({"slow", "close"}) <=> NoSlow /\ "close" \notin faults
  /\ Spared({"slow", "close", "refuse"}) <=>
       NoSlow /\ "close" \notin faults /\ "refuse" \notin faults
  /\ Spared({"slow", "mute", "dead", "refuse", "overlap"}) <=>
       /\ NoSlow /\ "mute" \notin faults /\ "dead" \notin faults
       /\ "refuse" \notin faults /\ "overlap" \notin faults
BY DEF Spared, NoSlow

LEMMA FaultsNext ==
  ASSUME [Next]_vars
  PROVE  /\ quiet' = quiet
         /\ "close" \notin faults' => "close" \notin faults
         /\ NoSlow' => faults' = faults
<1>1. CASE DspTimer \/ MceTimer
  BY <1>1 DEF DspTimer, MceTimer, Due, NoSlow
<1>2. CASE \/ ReplyStart \/ ReplyCallback \/ ReplyEnd \/ Notified \/ DspExpired
           \/ PriorityTask \/ PriorityDone \/ DoHst \/ CardExec \/ MceReplies
           \/ WaitStart \/ WaitEnd \/ UNCHANGED vars
           \/ \E u \in Users : \/ Call(u) \/ WriteTakes(u) \/ Send(u) \/ SendFails(u)
                               \/ ReadTakes(u) \/ Look(u) \/ Close(u)
  <2>1. UNCHANGED <<faults, quiet>>
    BY <1>2 DEF ReplyStart, ReplyCallback, ReplyEnd, Notified, DspExpired, PriorityTask,
      PriorityDone, DoHst, CardExec, MceReplies, WaitStart, WaitEnd, vars, world,
      Call, WriteTakes, Send, SendFails, ReadTakes, Look, Close
  <2> QED
    BY <2>1
<1> QED
  BY <1>1, <1>2, Steps

(* A timer that is not slow finds nothing on its way. *)
LEMMA SilentTimers ==
  ASSUME NoSlow'
  PROVE  DspTimer \/ MceTimer => CardSilent
BY DEF DspTimer, MceTimer, Due, NoSlow, MceSilent

(* What a callback does. *)
LEMMA RunCallbackIs ==
  ASSUME NEW cb, NEW err \in BOOLEAN, NEW msg, RunCallback(cb, err, msg)
  PROVE  \/ NoCallback /\ UNCHANGED reserved
         \/ /\ cb = "CON" /\ mstate = "CON" /\ DoCallback(0)
            /\ \/ reserved' = FALSE
               \/ reserved' = reserved /\ ~err /\ msg.cmd # "CON"
         \/ /\ cb = "CON" /\ mstate = "CON" /\ ~err /\ msg.cmd = "CON" /\ msg.ack
            /\ mstate' = "CONOK"
            /\ UNCHANGED <<buffer, opsState, rep, asleep, reserved>>
         \/ /\ cb = "HST" /\ mstate = "HST" /\ UNCHANGED reserved
            /\ \/ DoCallback(0)
               \/ ~err /\ msg.cmd = "HST" /\ msg.ack /\ DoCallback(buffer)
<1>1. CASE cb = "CON" /\ ConCallback(err, msg)
  BY <1>1 DEF ConCallback, ConFails
<1>2. CASE cb = "HST" /\ HstCallback(err, msg)
  BY <1>2 DEF HstCallback
<1>3. CASE cb = "WAIT" /\ WaitCallback(err)
  BY <1>3 DEF WaitCallback
<1>4. CASE cb = "none" /\ NoCallback /\ UNCHANGED reserved
  BY <1>4
<1> QED
  BY <1>1, <1>2, <1>3, <1>4 DEF RunCallback

(* A transaction that has not heard of its reply holds the channel. *)
Reservation == mstate \in {"CON", "CONOK"} => reserved /\ callback = "CON"

LEMMA ReservationNext ==
  ASSUME Types, Reservation, [Next]_vars
  PROVE  Reservation'
<1>1. CASE ReplyCallback \/ DspExpired
  <2>1. /\ callback' = callback
        /\ \/ RunCallback(reply.cb, FALSE, reply)
           \/ RunCallback(callback, TRUE, NoReply)
    BY <1>1 DEF ReplyCallback, DspExpired
  <2>2. \/ UNCHANGED <<mstate, reserved>>
        \/ mstate' = "IDLE"
        \/ mstate = "CON" /\ UNCHANGED reserved
    BY <2>1, RunCallbackIs DEF DoCallback, NoCallback
  <2> QED
    BY <2>1, <2>2 DEF Reservation
<1>2. CASE Notified \/ MceTimer \/ DoHst
  BY <1>2 DEF Notified, MceTimer, DoHst, GiveUp, DoCallback, NoCallback, Reservation
<1>3. CASE PriorityTask
  BY <1>3 DEF PriorityTask, Free, SendDsp, mce, Reservation
<1>4. CASE \E u \in Users : Send(u)
  BY <1>4 DEF Send, SendDsp, Reservation
<1>5. CASE \/ ReplyStart \/ ReplyEnd \/ DspTimer \/ PriorityDone \/ CardExec \/ MceReplies
           \/ WaitStart \/ WaitEnd \/ UNCHANGED vars
           \/ \E u \in Users : \/ Call(u) \/ WriteTakes(u) \/ SendFails(u)
                               \/ ReadTakes(u) \/ Look(u) \/ Close(u)
  <2>1. UNCHANGED <<mstate, reserved, callback>>
    BY <1>5 DEF ReplyStart, ReplyEnd, DspTimer, PriorityDone, CardExec, MceReplies,
      WaitStart, WaitEnd, vars, dsp, mce, Driver, channel,
      Call, WriteTakes, SendFails, ReadTakes, Look, Close
  <2> QED
    BY <2>1 DEF Reservation
<1> QED
  BY <1>1, <1>2, <1>3, <1>4, <1>5, Steps

(* The DSP channel carries one command at a time: in the card's queue, in  *)
(* an interrupt or in its handler, and it is the one whose callback is set.*)
Channel ==
  NoSlow =>
    /\ busy => callback # "none"
    /\ queue # <<>> =>
         Len(queue) = 1 /\ busy /\ queue[1].cmd = callback /\ reply = NoReply
    /\ \A i \in 1..Len(irqs) : irqs[i].type = "REP" =>
         /\ queue = <<>> /\ busy /\ irqs[i].cmd = callback /\ reply = NoReply
         /\ \A j \in 1..Len(irqs) : irqs[j].type = "REP" => i = j
    /\ reply # NoReply =>
         /\ queue = <<>> /\ busy /\ reply.cmd = callback
         /\ reply.cb \in {callback, "done"}

LEMMA SendDspChannel ==
  ASSUME Types, Channel, NoSlow, NoSlow', ~busy,
         NEW cmd \in {"CON", "HST", "WAIT"}, NEW id \in Nat, SendDsp(cmd, id),
         UNCHANGED <<irqs, reply>>
  PROVE  Channel'
<1>1. queue = <<>> /\ reply = NoReply /\ \A i \in 1..Len(irqs) : irqs[i].type # "REP"
  BY DEF Channel
<1>2. /\ busy' /\ callback' = cmd /\ Len(queue') = Len(queue) + 1
      /\ queue'[1] = [cmd |-> cmd, id |-> id]
  BY <1>1, SendDspIs DEF Types
<1>3. Len(queue') = 1
  BY <1>1, <1>2
<1>4. queue'[1].cmd = cmd
  BY <1>2
<1> QED
  BY <1>1, <1>2, <1>3, <1>4 DEF Channel

LEMMA ChannelNext ==
  ASSUME Types, Channel, [Next]_vars
  PROVE  Channel'
<1> SUFFICES ASSUME NoSlow' PROVE Channel'
  BY DEF Channel
<1>0. NoSlow /\ faults' = faults
  BY FaultsNext DEF NoSlow
<1>1. CASE ReplyStart
  <2>1. /\ irqs # <<>> /\ Head(irqs).type = "REP" /\ irqs' = Tail(irqs)
        /\ UNCHANGED <<busy, callback, queue>>
        /\ reply' = [cb |-> IF busy THEN callback ELSE "late",
                     cmd |-> Head(irqs).cmd, ack |-> Head(irqs).ack]
    BY <1>1 DEF ReplyStart, dsp
  <2>2. /\ Len(irqs) \in Nat \ {0} /\ Head(irqs) = irqs[1]
        /\ Len(irqs') = Len(irqs) - 1
        /\ \A i \in 1..Len(irqs') : irqs'[i] = irqs[i + 1]
    BY <2>1, HeadTailProperties DEF Types, CardTypes
  <2>3. /\ busy /\ queue = <<>> /\ irqs[1].cmd = callback
        /\ \A i \in 1..Len(irqs) : irqs[i].type = "REP" => i = 1
    BY <1>0, <2>1, <2>2 DEF Channel
  <2>4. \A i \in 1..Len(irqs') : irqs'[i].type # "REP"
    BY <2>2, <2>3
  <2>5. reply'.cb = callback /\ reply'.cmd = callback
    BY <2>1, <2>2, <2>3
  <2> QED
    BY <1>0, <2>1, <2>3, <2>4, <2>5 DEF Channel
<1>2. CASE ReplyCallback
  <2>1. /\ UNCHANGED <<busy, callback, queue, irqs>> /\ reply # NoReply
        /\ reply' = [reply EXCEPT !.cb = "done"]
    BY <1>2 DEF ReplyCallback, card, NoReply
  <2>2. reply'.cmd = reply.cmd /\ reply'.cb = "done"
    BY <2>1 DEF Types, ReplyTypes
  <2> QED
    BY <1>0, <2>1, <2>2 DEF Channel
<1>3. CASE ReplyEnd
  <2>1. UNCHANGED <<callback, queue, irqs>> /\ reply # NoReply /\ reply' = NoReply /\ ~busy'
    BY <1>3 DEF ReplyEnd, card, NoReply
  <2> QED
    BY <1>0, <2>1 DEF Channel
<1>4. CASE Notified
  <2>1. /\ irqs # <<>> /\ irqs' = Tail(irqs) /\ UNCHANGED <<busy, callback, queue, reply>>
    BY <1>4 DEF Notified
  <2>2. /\ Len(irqs) \in Nat \ {0} /\ Len(irqs') = Len(irqs) - 1
        /\ \A i \in 1..Len(irqs') : irqs'[i] = irqs[i + 1]
    BY <2>1, HeadTailProperties DEF Types, CardTypes
  <2>3. ASSUME NEW i \in 1..Len(irqs'), irqs'[i].type = "REP"
        PROVE  /\ queue = <<>> /\ busy /\ irqs'[i].cmd = callback /\ reply = NoReply
               /\ \A j \in 1..Len(irqs') : irqs'[j].type = "REP" => i = j
    <3>1. i + 1 \in 1..Len(irqs) /\ \A j \in 1..Len(irqs') : j + 1 \in 1..Len(irqs)
      BY <2>2
    <3>2. ASSUME NEW j \in 1..Len(irqs'), irqs'[j].type = "REP" PROVE i = j
      <4>1. i + 1 = j + 1
        BY <1>0, <2>2, <2>3, <3>1, <3>2 DEF Channel
      <4> QED
        BY <4>1
    <3> QED
      BY <1>0, <2>2, <2>3, <3>1, <3>2 DEF Channel
  <2> QED
    BY <1>0, <2>1, <2>3 DEF Channel
<1>5. CASE DspTimer
  <2>1. /\ UNCHANGED <<callback, reply, queue, irqs>>
        /\ queue = <<>> /\ irqs = <<>> /\ reply = NoReply /\ ~busy'
    BY <1>5, SilentTimers DEF DspTimer, CardSilent, card
  <2> QED
    BY <1>0, <2>1 DEF Channel
<1>6. CASE PriorityTask
  <2>1. CASE UNCHANGED <<busy, callback, queue>>
    BY <1>0, <1>6, <2>1 DEF PriorityTask, Channel
  <2>2. CASE SendDsp("WAIT", 0) /\ ~busy
    BY <1>0, <1>6, <2>2, SendDspChannel DEF PriorityTask
  <2> QED
    BY <1>6, <2>1, <2>2 DEF PriorityTask, Free
<1>7. CASE DoHst
  <2>1. CASE UNCHANGED <<busy, callback, queue>>
    BY <1>0, <1>7, <2>1 DEF DoHst, Channel
  <2>2. CASE SendDsp("HST", 0) /\ ~busy
    BY <1>0, <1>7, <2>2, SendDspChannel DEF DoHst
  <2> QED
    BY <1>7, <2>1, <2>2 DEF DoHst, Free
<1>8. CASE \E u \in Users : Send(u)
  <2>1. /\ SendDsp("CON", writes) /\ ~busy /\ writes \in Nat /\ UNCHANGED <<irqs, reply>>
    BY <1>8 DEF Send, Free, Types, CardTypes
  <2> QED
    BY <1>0, <2>1, SendDspChannel
<1>9. CASE CardExec
  <2>1. /\ queue # <<>> /\ queue' = Tail(queue) /\ UNCHANGED <<busy, callback, reply>>
        /\ \/ irqs' = irqs
           \/ \E ack \in BOOLEAN : irqs' = Append(irqs, Rep(Head(queue).cmd, ack))
    BY <1>9 DEF CardExec, Driver, dsp
  <2>2. /\ Len(queue) = 1 /\ busy /\ queue[1].cmd = callback /\ reply = NoReply
        /\ \A i \in 1..Len(irqs) : irqs[i].type # "REP"
    BY <1>0, <2>1 DEF Channel
  <2>3. queue \in Seq(Cmds) /\ irqs \in Seq(Irqs)
    BY DEF Types, CardTypes
  <2>4. queue' = <<>> /\ Head(queue) = queue[1]
    <3>1. Len(queue') = 0 /\ queue' \in Seq(Cmds)
      BY <2>1, <2>2, <2>3, HeadTailProperties
    <3> QED
      BY <2>1, <2>2, <2>3, <3>1, EmptySeq
  <2>5. CASE irqs' = irqs
    BY <1>0, <2>1, <2>2, <2>4, <2>5 DEF Channel
  <2>6. ASSUME NEW ack \in BOOLEAN, irqs' = Append(irqs, Rep(Head(queue).cmd, ack))
        PROVE  Channel'
    <3>1. Rep(Head(queue).cmd, ack) \in Irqs
      <4>1. queue[1] \in Cmds
        BY <2>2, <2>3, ElementOfSeq
      <4>2. Head(queue).cmd \in {"CON", "HST", "WAIT"}
        BY <2>4, <4>1, Records
      <4> QED
        BY <4>2, Records
    <3>2. /\ Len(irqs') = Len(irqs) + 1 /\ Len(irqs) \in Nat
          /\ \A i \in 1..Len(irqs) : irqs'[i] = irqs[i]
          /\ irqs'[Len(irqs) + 1] = Rep(callback, ack)
      BY <2>2, <2>3, <2>4, <2>6, <3>1, AppendProperties
    <3>3. /\ \A i \in 1..Len(irqs') : irqs'[i].type = "REP" => i = Len(irqs')
          /\ irqs'[Len(irqs')].cmd = callback
      BY <2>2, <3>2 DEF Rep
    <3> QED
      BY <1>0, <2>1, <2>2, <2>4, <3>3 DEF Channel
  <2> QED
    BY <2>1, <2>5, <2>6
<1>10. CASE MceReplies
  <2>1. /\ UNCHANGED <<queue, busy, callback, reply>>
        /\ \/ irqs' = irqs
           \/ irqs' = Append(irqs, [type |-> "NFY", cmd |-> "NFY", ack |-> TRUE])
    BY <1>10 DEF MceReplies, Driver, dsp
  <2>2. CASE irqs' = irqs
    BY <1>0, <2>1, <2>2 DEF Channel
  <2>3. CASE irqs' = Append(irqs, [type |-> "NFY", cmd |-> "NFY", ack |-> TRUE])
    <3>1. irqs \in Seq(Irqs)
      BY DEF Types, CardTypes
    <3>2. /\ Len(irqs') = Len(irqs) + 1 /\ Len(irqs) \in Nat
          /\ \A i \in 1..Len(irqs) : irqs'[i] = irqs[i]
          /\ irqs'[Len(irqs) + 1].type = "NFY"
      BY <2>3, <3>1, Records, AppendProperties
    <3>3. \A i \in 1..Len(irqs') :
             irqs'[i].type = "REP" => i \in 1..Len(irqs) /\ irqs'[i] = irqs[i]
      BY <3>2
    <3> QED
      BY <1>0, <2>1, <3>3 DEF Channel
  <2> QED
    BY <2>1, <2>2, <2>3
<1>11. CASE \/ DspExpired \/ MceTimer \/ PriorityDone \/ WaitStart \/ WaitEnd
            \/ UNCHANGED vars
            \/ \E u \in Users : \/ Call(u) \/ WriteTakes(u) \/ SendFails(u)
                                \/ ReadTakes(u) \/ Look(u) \/ Close(u)
  <2>1. UNCHANGED <<queue, irqs, reply, busy, callback>>
    BY <1>11 DEF DspExpired, MceTimer, PriorityDone, WaitStart, WaitEnd, vars, dsp,
      card, channel, Call, WriteTakes, SendFails, ReadTakes, Look, Close
  <2> QED
    BY <1>0, <2>1 DEF Channel
<1> QED
  BY <1>1, <1>2, <1>3, <1>4, <1>5, <1>6, <1>7, <1>8, <1>9, <1>10, <1>11, Steps

-----------------------------------------------------------------------------
(* The reservation ends with the transaction. *)
(* Nor does the channel stay reserved without such a transaction. *)
Released == NoSlow => (reserved => mstate \in {"CON", "CONOK"})

LEMMA ReleasedNext ==
  ASSUME Types, Channel, Released, [Next]_vars
  PROVE  Released'
<1> SUFFICES ASSUME NoSlow' PROVE (reserved => mstate \in {"CON", "CONOK"})'
  BY DEF Released
<1>0. NoSlow /\ (reserved => mstate \in {"CON", "CONOK"})
  BY FaultsNext DEF NoSlow, Released
<1>1. CASE ReplyCallback
  <2>1. reply.cb # "none" /\ RunCallback(reply.cb, FALSE, reply)
    BY <1>1 DEF ReplyCallback
  <2>2. reply.cb = "CON" => reply.cmd = "CON"
    BY <1>0, <2>1 DEF Channel, NoReply
  <2>3. \/ UNCHANGED <<mstate, reserved>>
        \/ mstate = "CON" /\ mstate' = "IDLE" /\ reserved' = FALSE
        \/ mstate = "CON" /\ mstate' = "CONOK" /\ reserved' = reserved
        \/ mstate = "HST" /\ mstate' = "IDLE" /\ reserved' = reserved
    BY <2>1, <2>2, RunCallbackIs DEF DoCallback, NoCallback
  <2> QED
    BY <1>0, <2>3
<1>2. CASE DspExpired
  <2>1. RunCallback(callback, TRUE, NoReply)
    BY <1>2 DEF DspExpired
  <2>2. \/ UNCHANGED <<mstate, reserved>>
        \/ mstate = "CON" /\ mstate' = "IDLE" /\ reserved' = FALSE
        \/ mstate = "HST" /\ mstate' = "IDLE" /\ reserved' = reserved
    BY <2>1, RunCallbackIs DEF DoCallback, NoCallback
  <2> QED
    BY <1>0, <2>2
<1>3. CASE Notified
  BY <1>0, <1>3 DEF Notified, NoCallback
<1>4. CASE MceTimer
  BY <1>4 DEF MceTimer, GiveUp
<1>5. CASE DoHst
  <2>1. mstate \in {"CON", "CONOK"} => mstate' = mstate
    BY <1>5 DEF DoHst, NoCallback
  <2> QED
    BY <1>0, <1>5, <2>1 DEF DoHst
<1>6. CASE \E u \in Users : Send(u)
  BY <1>6 DEF Send
<1>7. CASE \/ ReplyStart \/ ReplyEnd \/ DspTimer \/ PriorityTask \/ PriorityDone
           \/ CardExec \/ MceReplies \/ WaitStart \/ WaitEnd \/ UNCHANGED vars
           \/ \E u \in Users : \/ Call(u) \/ WriteTakes(u) \/ SendFails(u)
                               \/ ReadTakes(u) \/ Look(u) \/ Close(u)
  <2>1. UNCHANGED <<mstate, reserved>>
    BY <1>7 DEF ReplyStart, ReplyEnd, DspTimer, PriorityTask, PriorityDone, CardExec,
      MceReplies, WaitStart, WaitEnd, vars, dsp, mce, Driver, channel,
      Call, WriteTakes, SendFails, ReadTakes, Look, Close
  <2> QED
    BY <1>0, <2>1
<1> QED
  BY <1>1, <1>2, <1>3, <1>4, <1>5, <1>6, <1>7, Steps

-----------------------------------------------------------------------------
(* The device file is in a command while the MCE is, and is taken while a  *)
(* command is being sent, unless a file is closed on its command.          *)
(* The device belongs to one file, from its write to the end of its read;  *)
(* a transaction runs only while the device waits for its end.             *)
Device ==
  "close" \notin faults =>
    /\ mstate # "IDLE" => opsState = "CMD" /\ sem = None
    /\ sem # None => opsState = "CMD" /\ commander = sem /\ pc[sem] = "send"
    /\ \A u \in Users : pc[u] = "send" => sem = u
    /\ opsState # "IDLE" => commander \in Users

LEMMA DeviceNext ==
  ASSUME Types, Device, [Next]_vars
  PROVE  Device'
<1> SUFFICES ASSUME "close" \notin faults' PROVE Device'
  BY DEF Device
<1>0. "close" \notin faults /\ None \notin Users /\ FileTypes
  BY FaultsNext, LegacyAssumption DEF Types
<1>1. CASE ReplyCallback \/ DspExpired
  <2>1. /\ UNCHANGED <<commander, sem, pc>>
        /\ \/ RunCallback(reply.cb, FALSE, reply)
           \/ RunCallback(callback, TRUE, NoReply)
    BY <1>1 DEF ReplyCallback, DspExpired, users
  <2>2. \/ UNCHANGED <<mstate, opsState>>
        \/ /\ mstate # "IDLE" /\ mstate' = "IDLE"
           /\ opsState = "CMD" => opsState' \in {"REP", "ERR"}
        \/ mstate # "IDLE" /\ opsState' = opsState
    BY <2>1, RunCallbackIs DEF DoCallback, WriteCallback, NoCallback
  <2> QED
    BY <1>0, <2>1, <2>2 DEF Device
<1>2. CASE Notified \/ MceTimer \/ DoHst
  <2>1. UNCHANGED <<commander, sem, pc>>
    BY <1>2 DEF Notified, MceTimer, DoHst, users
  <2>2. \/ UNCHANGED <<mstate, opsState>>
        \/ /\ mstate # "IDLE" /\ mstate' = "IDLE"
           /\ opsState = "CMD" => opsState' \in {"REP", "ERR"}
        \/ mstate # "IDLE" /\ opsState' = opsState
    BY <1>2 DEF Notified, MceTimer, DoHst, GiveUp, DoCallback, WriteCallback, NoCallback
  <2> QED
    BY <1>0, <2>1, <2>2 DEF Device
<1>3. ASSUME NEW u \in Users, WriteTakes(u) PROVE Device'
  <2>1. /\ UNCHANGED mstate /\ pc[u] = "write" /\ sem = None
        /\ \/ /\ opsState = "IDLE" /\ opsState' = "CMD" /\ commander' = u /\ sem' = u
              /\ pc' = [pc EXCEPT ![u] = "send"]
           \/ /\ UNCHANGED <<opsState, commander, sem>>
              /\ pc' = [pc EXCEPT ![u] = "waitIdle"]
    BY <1>3 DEF WriteTakes, channel, Goes
  <2> QED
    BY <1>0, <2>1 DEF Device, FileTypes
<1>4. ASSUME NEW u \in Users, Send(u) PROVE Device'
  <2>1. /\ mstate = "IDLE" /\ UNCHANGED <<opsState, commander>> /\ sem' = None
        /\ pc[u] = "send" /\ pc' = [pc EXCEPT ![u] = "idle"]
    BY <1>4 DEF Send, Goes
  <2> QED
    BY <1>0, <2>1 DEF Device, FileTypes
<1>5. ASSUME NEW u \in Users, SendFails(u) PROVE Device'
  <2>1. /\ UNCHANGED <<mstate, commander>> /\ opsState' = "IDLE" /\ sem' = None
        /\ pc[u] = "send" /\ pc' = [pc EXCEPT ![u] = "idle"]
    BY <1>5 DEF SendFails, channel, Goes
  <2> QED
    BY <1>0, <2>1 DEF Device, FileTypes
<1>6. ASSUME NEW u \in Users, Call(u) \/ ReadTakes(u) \/ Look(u) PROVE Device'
  <2>1. /\ UNCHANGED <<mstate, commander, sem>> /\ pc[u] # "send"
        /\ \/ pc' = pc
           \/ pc' = [pc EXCEPT ![u] = "idle"] \/ pc' = [pc EXCEPT ![u] = "write"]
           \/ pc' = [pc EXCEPT ![u] = "read"] \/ pc' = [pc EXCEPT ![u] = "waitReply"]
        /\ \/ opsState' = opsState
           \/ opsState \in {"REP", "ERR"} /\ opsState' = "IDLE"
    <3>1. CASE Call(u)
      BY <3>1 DEF Call, channel, ops
    <3>2. CASE ReadTakes(u)
      BY <3>2 DEF ReadTakes, channel, Goes
    <3>3. CASE Look(u)
      BY <3>3 DEF Look, channel, ops, Goes
    <3> QED
      BY <1>6, <3>1, <3>2, <3>3
  <2>2. \A v \in Users : pc'[v] = "send" <=> pc[v] = "send"
    BY <1>0, <2>1 DEF FileTypes
  <2> QED
    BY <1>0, <2>1, <2>2 DEF Device, FileTypes
<1>7. CASE \/ ReplyStart \/ ReplyEnd \/ DspTimer \/ PriorityTask \/ PriorityDone
           \/ CardExec \/ MceReplies \/ WaitStart \/ WaitEnd \/ UNCHANGED vars
  <2>1. UNCHANGED <<mstate, opsState, commander, sem, pc>>
    BY <1>7 DEF ReplyStart, ReplyEnd, DspTimer, PriorityTask, PriorityDone, CardExec,
      MceReplies, WaitStart, WaitEnd, vars, mce, ops, users, Driver
  <2> QED
    BY <1>0, <2>1 DEF Device
<1>8. ASSUME NEW u \in Users, Close(u) PROVE Device'
  BY <1>0, <1>8 DEF Close
<1> QED
  BY <1>1, <1>2, <1>3, <1>4, <1>5, <1>6, <1>7, <1>8, Steps

-----------------------------------------------------------------------------
(* Sleepers: who sleeps waits, in one of the two calls. *)
(* Nobody sleeps at a place without a queue, or on what is already so. *)
Sleepers ==
  NoSlow /\ "close" \notin faults /\ "refuse" \notin faults =>
    /\ \A u \in asleep : pc[u] \in {"waitIdle", "waitReply"}
    /\ \A u \in asleep : ~Awaited(u)

LEMMA SleepersNext ==
  ASSUME Types, Released, Device, Sleepers, [Next]_vars
  PROVE  Sleepers'
<1> SUFFICES ASSUME NoSlow', "close" \notin faults', "refuse" \notin faults'
             PROVE  Sleepers'
  BY DEF Sleepers
<1>0. /\ NoSlow /\ "close" \notin faults /\ "refuse" \notin faults /\ faults' = faults
      /\ \A v \in asleep : /\ v \in Users /\ pc[v] \in {"waitIdle", "waitReply"}
                           /\ ~Awaited(v)
  BY FaultsNext DEF Types, FileTypes, Sleepers, NoSlow
<1>1. CASE ReplyCallback \/ DspExpired
  <2>1. /\ pc' = pc
        /\ \/ RunCallback(reply.cb, FALSE, reply)
           \/ RunCallback(callback, TRUE, NoReply)
    BY <1>1 DEF ReplyCallback, DspExpired, users
  <2>2. asleep' = {} \/ UNCHANGED <<opsState, asleep>>
    BY <2>1, RunCallbackIs DEF DoCallback, WriteCallback, NoCallback
  <2> QED
    BY <1>0, <2>1, <2>2 DEF Sleepers, Awaited
<1>2. CASE Notified \/ MceTimer \/ DoHst
  <2>1. pc' = pc
    BY <1>2 DEF Notified, MceTimer, DoHst, users
  <2>2. asleep' = {} \/ UNCHANGED <<opsState, asleep>>
    BY <1>2 DEF Notified, MceTimer, DoHst, GiveUp, DoCallback, WriteCallback, NoCallback
  <2> QED
    BY <1>0, <2>1, <2>2 DEF Sleepers, Awaited
<1>3. ASSUME NEW u \in Users, Call(u) \/ Send(u) PROVE Sleepers'
  <2>1. /\ UNCHANGED <<opsState, asleep>> /\ pc[u] \in {"idle", "send"}
        /\ \E to \in {"idle", "write", "read"} : pc' = [pc EXCEPT ![u] = to]
    BY <1>3 DEF Call, Send, ops, Goes
  <2>2. \A v \in asleep : v # u
    BY <1>0, <2>1
  <2>3. \A v \in asleep : pc'[v] = pc[v]
    BY <1>0, <2>1, <2>2 DEF Types, FileTypes
  <2> QED
    BY <1>0, <2>1, <2>3 DEF Sleepers, Awaited
<1>4. ASSUME NEW u \in Users, WriteTakes(u) PROVE Sleepers'
  <2>1. /\ UNCHANGED asleep /\ pc[u] = "write"
        /\ \/ pc' = [pc EXCEPT ![u] = "send"] \/ pc' = [pc EXCEPT ![u] = "waitIdle"]
        /\ opsState' = opsState \/ (opsState = "IDLE" /\ opsState' = "CMD")
    <3>1. CASE opsState = "IDLE"
      BY <1>4, <3>1 DEF WriteTakes, Goes
    <3>2. CASE opsState # "IDLE"
      <4>1. UNCHANGED <<opsState, asleep>> /\ pc[u] = "write"
        BY <1>4, <3>2 DEF WriteTakes
      <4>2. pc' = [pc EXCEPT ![u] = "waitIdle"]
        BY <1>4, <3>2 DEF WriteTakes, Goes
      <4> QED
        BY <4>1, <4>2
    <3> QED
      BY <3>1, <3>2
  <2>2. \A v \in asleep : v # u
    BY <1>0, <2>1
  <2>3. \A v \in asleep : pc'[v] = pc[v]
    BY <1>0, <2>1, <2>2 DEF Types, FileTypes
  <2> QED
    BY <1>0, <2>1, <2>3 DEF Sleepers, Awaited
<1>5. ASSUME NEW u \in Users, SendFails(u) PROVE FALSE
  <2>1. pc[u] = "send" /\ (mstate # "IDLE" \/ reserved)
    BY <1>0, <1>5 DEF SendFails
  <2>2. sem = u /\ u # None
    BY <1>0, <2>1, LegacyAssumption DEF Device
  <2>3. mstate = "IDLE" /\ ~reserved
    BY <1>0, <2>2 DEF Device, Released
  <2> QED
    BY <2>1, <2>3
<1>6. ASSUME NEW u \in Users, ReadTakes(u) PROVE Sleepers'
  <2>1. /\ pc[u] = "read"
        /\ \E to \in {"idle", "waitReply"} : pc' = [pc EXCEPT ![u] = to]
        /\ asleep' = {} \/ UNCHANGED <<opsState, asleep>>
    BY <1>6 DEF ReadTakes, Goes, Woken
  <2>2. \A v \in asleep : v # u
    BY <1>0, <2>1
  <2>3. \A v \in asleep : pc'[v] = pc[v]
    BY <1>0, <2>1, <2>2 DEF Types, FileTypes
  <2> QED
    BY <1>0, <2>1, <2>3 DEF Sleepers, Awaited
<1>7. ASSUME NEW u \in Users, Look(u) PROVE Sleepers'
  <2>1. /\ pc[u] \in {"waitIdle", "waitReply"} /\ u \notin asleep /\ opsState' = opsState
        /\ \/ /\ ~Awaited(u) /\ asleep' = asleep \cup {u} /\ pc' = pc
           \/ /\ asleep' = asleep
              /\ \E to \in {"write", "read"} : pc' = [pc EXCEPT ![u] = to]
    BY <1>7 DEF Look, Goes, ops
  <2>2. \A v \in asleep : v # u
    BY <2>1
  <2>3. \A v \in asleep : pc'[v] = pc[v]
    BY <1>0, <2>1, <2>2 DEF Types, FileTypes
  <2> QED
    BY <1>0, <2>1, <2>3 DEF Sleepers, Awaited
<1>8. CASE \/ ReplyStart \/ ReplyEnd \/ DspTimer \/ PriorityTask \/ PriorityDone
           \/ CardExec \/ MceReplies \/ WaitStart \/ WaitEnd \/ UNCHANGED vars
  <2>1. UNCHANGED <<opsState, asleep, pc>>
    BY <1>8 DEF ReplyStart, ReplyEnd, DspTimer, PriorityTask, PriorityDone, CardExec,
      MceReplies, WaitStart, WaitEnd, vars, ops, users, Driver
  <2> QED
    BY <1>0, <2>1 DEF Sleepers, Awaited
<1>9. ASSUME NEW u \in Users, Close(u) PROVE FALSE
  BY <1>0, <1>9 DEF Close
<1> QED
  BY <1>1, <1>2, <1>3, <1>4, <1>5, <1>6, <1>7, <1>8, <1>9, Steps

-----------------------------------------------------------------------------
(* A command of the driver's own that nothing can drop: requested and not  *)
(* yet sent, or out and not yet answered.                                  *)
(* Every command that is sent is answered, and one request is made at a time. *)
Answered ==
  /\ NoSlow /\ "mute" \notin faults /\ "dead" \notin faults
  /\ "refuse" \notin faults /\ "overlap" \notin faults

(* Then no timer goes off, the answer to a command is on its way, and so   *)
(* is a request that somebody waits for.                                   *)
Kept ==
  Answered =>
    /\ ~expired
    /\ busy => \/ queue # <<>> \/ reply # NoReply
               \/ \E i \in 1..Len(irqs) : irqs[i].type = "REP"
    /\ flags = "CMD" => \/ "INT" \in prio /\ task # "INT"
                        \/ busy /\ callback = "WAIT" /\ reply.cb # "done"

LEMMA KeptNext ==
  ASSUME Types, Channel, Kept, [Next]_vars
  PROVE  Kept'
<1> SUFFICES ASSUME Answered' PROVE Kept'
  BY DEF Kept
<1>a. Answered /\ faults' = faults
  <2>1. NoSlow'
    BY DEF Answered
  <2>2. faults' = faults
    BY <2>1, FaultsNext
  <2> QED
    BY <2>2 DEF Answered, NoSlow
<1>0. /\ Answered /\ NoSlow /\ ~expired /\ faults' = faults
      /\ "mute" \notin faults /\ "dead" \notin faults /\ "refuse" \notin faults
      /\ "overlap" \notin faults
      /\ busy => \/ queue # <<>> \/ reply # NoReply
                 \/ \E i \in 1..Len(irqs) : irqs[i].type = "REP"
      /\ flags = "CMD" => \/ "INT" \in prio /\ task # "INT"
                          \/ busy /\ callback = "WAIT" /\ reply.cb # "done"
  BY <1>a DEF Answered, Kept
<1>1. CASE ReplyStart
  <2>1. /\ irqs # <<>> /\ Head(irqs).type = "REP"
        /\ UNCHANGED <<expired, busy, callback, flags, prio, task>>
        /\ reply' = [cb |-> IF busy THEN callback ELSE "late",
                     cmd |-> Head(irqs).cmd, ack |-> Head(irqs).ack]
    BY <1>1 DEF ReplyStart, dsp, local
  <2>2. 1 \in 1..Len(irqs) /\ Head(irqs) = irqs[1]
    BY <2>1, HeadTailProperties DEF Types, CardTypes
  <2>3. busy /\ callback # "none"
    BY <1>0, <2>1, <2>2 DEF Channel
  <2>4. reply'.cb = callback
    BY <2>1, <2>3
  <2>5. reply' # NoReply /\ reply'.cb # "done"
    BY <2>3, <2>4 DEF NoReply, Types, ReplyTypes
  <2> QED
    BY <1>0, <2>1, <2>5 DEF Kept
<1>2. CASE ReplyCallback
  <2>1. /\ UNCHANGED <<expired, busy, callback, prio, task, queue, irqs>>
        /\ reply.cb \notin {"none", "late", "done"}
        /\ RunCallback(reply.cb, FALSE, reply)
        /\ reply' = [reply EXCEPT !.cb = "done"]
    BY <1>2 DEF ReplyCallback, card
  <2>2. reply'.cb = "done"
    BY <2>1 DEF Types, ReplyTypes
  <2>3. reply' # NoReply
    BY <2>2 DEF NoReply
  <2>4. reply.cb = callback
    BY <1>0, <2>1 DEF Channel, NoReply
  <2>5. \/ flags' = flags /\ (reply.cb = "WAIT" => flags # "CMD")
        \/ flags' = "REP"
    BY <2>1 DEF RunCallback, WaitCallback
  <2> QED
    BY <1>0, <2>1, <2>2, <2>3, <2>4, <2>5 DEF Kept
<1>3. CASE ReplyEnd
  <2>1. /\ UNCHANGED <<expired, callback, prio, task, queue, irqs, flags>> /\ ~busy'
        /\ reply.cb \in {"late", "done"}
    BY <1>3 DEF ReplyEnd, card, local
  <2>2. reply.cb = "done"
    BY <1>0, <2>1 DEF Channel, NoReply, Types, ReplyTypes
  <2> QED
    BY <1>0, <2>1, <2>2 DEF Kept
<1>4. CASE Notified
  <2>1. /\ UNCHANGED <<expired, busy, callback, task, queue, reply, flags>>
        /\ irqs # <<>> /\ irqs' = Tail(irqs) /\ Head(irqs).type = "NFY"
        /\ prio \subseteq prio'
    BY <1>4 DEF Notified, local
  <2>2. /\ Len(irqs) \in Nat \ {0} /\ Len(irqs') = Len(irqs) - 1
        /\ Head(irqs) = irqs[1]
        /\ \A i \in 1..Len(irqs') : irqs'[i] = irqs[i + 1]
    BY <2>1, HeadTailProperties DEF Types, CardTypes
  <2>3. ASSUME NEW i \in 1..Len(irqs), irqs[i].type = "REP"
        PROVE  \E j \in 1..Len(irqs') : irqs'[j].type = "REP"
    <3>1. i # 1
      BY <2>1, <2>2, <2>3
    <3>2. i - 1 \in 1..Len(irqs') /\ irqs'[i - 1] = irqs[i]
      BY <2>2, <3>1
    <3> QED
      BY <2>3, <3>2
  <2> QED
    BY <1>0, <2>1, <2>3 DEF Kept
<1>5. CASE DspTimer
  <2>1. busy /\ queue = <<>> /\ irqs = <<>> /\ reply = NoReply
    BY <1>0, <1>5, SilentTimers DEF DspTimer, CardSilent, Answered
  <2> QED
    BY <1>0, <2>1
<1>6. CASE PriorityTask
  <2>1. /\ UNCHANGED <<expired, prio, irqs, reply, flags>> /\ task = "none"
        /\ \/ task' = "RPC" /\ UNCHANGED <<busy, callback, queue>>
           \/ task' = "INT" /\ ~busy /\ SendDsp("WAIT", 0)
    BY <1>0, <1>6 DEF PriorityTask, local, Free, Dropped
  <2>2. CASE task' = "RPC" /\ UNCHANGED <<busy, callback, queue>>
    BY <1>0, <2>1, <2>2 DEF Kept
  <2>3. CASE ~busy /\ SendDsp("WAIT", 0)
    <3>1. busy' /\ callback' = "WAIT" /\ queue' # <<>>
      BY <2>3, SendDspIs DEF Types
    <3>2. reply.cb # "done"
      BY <1>0, <2>3 DEF Channel, NoReply
    <3> QED
      BY <1>0, <2>1, <3>1, <3>2 DEF Kept
  <2> QED
    BY <2>1, <2>2, <2>3
<1>7. CASE PriorityDone
  <2>1. /\ UNCHANGED <<expired, busy, callback, queue, irqs, reply, flags>>
        /\ prio' = prio \ {task} /\ task' = "none"
    BY <1>7 DEF PriorityDone, local, card
  <2> QED
    BY <1>0, <2>1 DEF Kept
<1>8. CASE DoHst \/ \E u \in Users : Send(u)
  <2>1. /\ UNCHANGED <<expired, prio, task, irqs, reply, flags>>
        /\ \/ UNCHANGED <<busy, callback, queue>>
           \/ ~busy /\ SendDsp("HST", 0)
           \/ ~busy /\ SendDsp("CON", writes)
    BY <1>8 DEF DoHst, Send, Free, local
  <2>2. CASE UNCHANGED <<busy, callback, queue>>
    BY <1>0, <2>1, <2>2 DEF Kept
  <2>3. CASE ~busy /\ (SendDsp("HST", 0) \/ SendDsp("CON", writes))
    <3>1. queue' # <<>>
      BY <2>3, SendDspIs DEF Types, CardTypes
    <3> QED
      BY <1>0, <2>1, <2>3, <3>1 DEF Kept
  <2> QED
    BY <2>1, <2>2, <2>3
<1>9. CASE CardExec
  <2>1. /\ UNCHANGED <<expired, prio, task, busy, callback, reply, flags>>
        /\ queue # <<>>
        /\ \E ack \in BOOLEAN : irqs' = Append(irqs, Rep(Head(queue).cmd, ack))
    BY <1>0, <1>9 DEF CardExec, Driver, dsp, local
  <2>2. PICK ack \in BOOLEAN : irqs' = Append(irqs, Rep(Head(queue).cmd, ack))
    BY <2>1
  <2>3. Head(queue) \in Cmds /\ irqs \in Seq(Irqs)
    BY <2>1, HeadTailProperties DEF Types, CardTypes
  <2>4. Rep(Head(queue).cmd, ack) \in Irqs
    BY <2>3, Records
  <2>5. /\ Len(irqs') = Len(irqs) + 1 /\ Len(irqs) \in Nat
        /\ irqs'[Len(irqs) + 1] = Rep(Head(queue).cmd, ack)
    BY <2>2, <2>3, <2>4, AppendProperties
  <2>6. Len(irqs') \in 1..Len(irqs') /\ irqs'[Len(irqs')].type = "REP"
    BY <2>5 DEF Rep
  <2> QED
    BY <1>0, <2>1, <2>6 DEF Kept
<1>10. CASE MceReplies
  <2>1. /\ UNCHANGED <<expired, prio, task, busy, callback, reply, flags, queue>>
        /\ \/ irqs' = irqs
           \/ irqs' = Append(irqs, [type |-> "NFY", cmd |-> "NFY", ack |-> TRUE])
    BY <1>10 DEF MceReplies, Driver, dsp, local
  <2>2. irqs \in Seq(Irqs) /\ [type |-> "NFY", cmd |-> "NFY", ack |-> TRUE] \in Irqs
    BY Records DEF Types, CardTypes
  <2>3. ASSUME NEW i \in 1..Len(irqs)
        PROVE  i \in 1..Len(irqs') /\ irqs'[i] = irqs[i]
    BY <2>1, <2>2, AppendProperties
  <2> QED
    BY <1>0, <2>1, <2>3 DEF Kept
<1>11. CASE WaitStart
  <2>1. /\ UNCHANGED <<expired, busy, callback, queue, irqs, reply, task>>
        /\ task # "INT" /\ "INT" \in prio'
    BY <1>0, <1>11 DEF WaitStart, card
  <2> QED
    BY <1>0, <2>1 DEF Kept
<1>12. CASE DspExpired
  BY <1>0, <1>12 DEF DspExpired
<1>13. CASE \/ MceTimer \/ WaitEnd \/ UNCHANGED vars
            \/ \E u \in Users : \/ Call(u) \/ WriteTakes(u) \/ SendFails(u)
                                \/ ReadTakes(u) \/ Look(u) \/ Close(u)
  <2>1. /\ UNCHANGED <<expired, prio, task, busy, callback, reply, queue, irqs>>
        /\ flags' = flags \/ flags' = "0"
    BY <1>13 DEF MceTimer, WaitEnd, vars, dsp, local, card, channel,
      Call, WriteTakes, SendFails, ReadTakes, Look, Close
  <2> QED
    BY <1>0, <2>1 DEF Kept
<1> QED
  BY <1>1, <1>2, <1>3, <1>4, <1>5, <1>6, <1>7, <1>8, <1>9, <1>10, <1>11, <1>12,
     <1>13, Steps

-----------------------------------------------------------------------------
(* The transaction.  A reply of the MCE that is notified of after entry k  *)
(* of the interrupts is the one to the command in progress, and has come.  *)
(* The reply that the MCE has given is the one to the last command written; *)
(* what else is executed or announced is no later than it.                 *)
Arrived == IF quiet THEN buffer = writes ELSE held = writes

Fresh(k) ==
  /\ executing \in {0, writes}
  /\ \A j \in 1..Len(irqs) :
       k < j /\ irqs[j].type = "NFY" => executing = 0 /\ Arrived

(* The five ways the last command written is known to a transaction: by    *)
(* its CON, by the acceptance of it, by the notification of its reply, by  *)
(* the reply the card holds, and by the reply it has transferred.          *)
Sent ==
  mstate = "CON" =>
    /\ queue # <<>> => queue[1].id = writes
    /\ \A i \in 1..Len(irqs) : irqs[i].type = "REP" /\ irqs[i].ack => Fresh(i)
    /\ reply.cb = "CON" /\ reply.ack => Fresh(0)

Accepted == mstate = "CONOK" => Fresh(0) /\ queue = <<>>

Noticed ==
  mstate \in {"NFY", "HST"} =>
    /\ executing = 0 /\ ~quiet
    /\ queue # <<>> => queue[1].cmd # "CON"

Held ==
  /\ mstate = "NFY" => held = writes /\ (queue # <<>> => queue[1].cmd # "HST")
  /\ mstate = "HST" => (queue # <<>> /\ queue[1].cmd = "HST" => held = writes)

Fetched ==
  mstate = "HST" =>
    /\ \A i \in 1..Len(irqs) :
         irqs[i].type = "REP" /\ irqs[i].cmd = "HST" /\ irqs[i].ack => buffer = writes
    /\ reply.cb = "HST" /\ reply.ack => buffer = writes

Trans == Sent /\ Accepted /\ Noticed /\ Held /\ Fetched
Transaction == NoSlow /\ "close" \notin faults => Trans

transaction == <<mstate, queue, irqs, reply, executing, held, buffer, writes, quiet>>

LEMMA TransKept ==
  ASSUME Trans, UNCHANGED transaction
  PROVE  Trans'
BY DEF transaction, Trans, Sent, Accepted, Noticed, Held, Fetched, Fresh, Arrived

LEMMA IdleTrans ==
  ASSUME mstate = "IDLE"
  PROVE  Trans
BY DEF Trans, Sent, Accepted, Noticed, Held, Fetched

(* An interrupt taken brings the others one entry nearer. *)
LEMMA FreshTail ==
  ASSUME irqs \in Seq(Irqs), irqs # <<>>, irqs' = Tail(irqs),
         UNCHANGED <<executing, held, buffer, writes, quiet>>
  PROVE  /\ Fresh(0) => Fresh(0)'
         /\ \A k \in Nat : Fresh(k + 1) => Fresh(k)'
<1>1. /\ Len(irqs) \in Nat \ {0} /\ Len(irqs') = Len(irqs) - 1
      /\ \A i \in 1..Len(irqs') : irqs'[i] = irqs[i + 1] /\ i + 1 \in 1..Len(irqs)
  BY HeadTailProperties
<1>2. ASSUME NEW k \in Nat, NEW m \in Nat, m = k \/ m = k + 1, Fresh(m)
      PROVE  Fresh(k)'
  <2>1. ASSUME NEW j \in 1..Len(irqs'), k < j, irqs'[j].type = "NFY"
        PROVE  executing = 0 /\ Arrived
    <3>1. j + 1 \in 1..Len(irqs) /\ irqs[j + 1].type = "NFY"
      BY <1>1, <2>1
    <3>2. m < j + 1
      BY <1>1, <1>2, <2>1
    <3> QED
      BY <1>2, <3>1, <3>2 DEF Fresh
  <2>2. Arrived' <=> Arrived
    BY DEF Arrived
  <2> QED
    BY <1>2, <2>1, <2>2 DEF Fresh
<1> QED
  BY <1>2

LEMMA TransactionNext ==
  ASSUME Types, Reservation, Channel, Device, Transaction, [Next]_vars
  PROVE  Transaction'
<1> SUFFICES ASSUME NoSlow', "close" \notin faults' PROVE Trans'
  BY DEF Transaction
<1>0. /\ NoSlow /\ "close" \notin faults /\ Trans /\ quiet' = quiet
      /\ queue \in Seq(Cmds) /\ irqs \in Seq(Irqs)
  BY FaultsNext DEF NoSlow, Transaction, Types, CardTypes
<1>1. CASE mstate' = "IDLE"
  <2>1. mstate' = "IDLE" => Trans'
    BY DEF Trans, Sent, Accepted, Noticed, Held, Fetched
  <2> QED
    BY <1>1, <2>1
<1>2. CASE ReplyStart
  <2>1. /\ irqs # <<>> /\ irqs' = Tail(irqs) /\ Head(irqs).type = "REP"
        /\ UNCHANGED <<mstate, queue, executing, held, buffer, writes>>
        /\ reply' = [cb |-> IF busy THEN callback ELSE "late",
                     cmd |-> Head(irqs).cmd, ack |-> Head(irqs).ack]
    BY <1>2 DEF ReplyStart, mce, users
  <2>2. /\ Len(irqs) \in Nat \ {0} /\ Head(irqs) = irqs[1] /\ 1 \in 1..Len(irqs)
        /\ Len(irqs') = Len(irqs) - 1
        /\ \A i \in 1..Len(irqs') : irqs'[i] = irqs[i + 1]
    BY <1>0, <2>1, HeadTailProperties
  <2>3. /\ busy /\ queue = <<>> /\ irqs[1].cmd = callback
        /\ \A i \in 1..Len(irqs) : irqs[i].type = "REP" => i = 1
    BY <1>0, <2>1, <2>2 DEF Channel
  <2>4. \A i \in 1..Len(irqs') : irqs'[i].type # "REP"
    BY <2>2, <2>3
  <2>5. /\ reply'.cb = callback /\ reply'.cmd = callback
        /\ reply'.ack = irqs[1].ack
    BY <2>1, <2>2, <2>3
  <2>6. /\ Fresh(0) => Fresh(0)'
        /\ Fresh(1) => Fresh(0)'
    BY <1>0, <2>1, FreshTail
  <2>7. Sent'
    <3>1. mstate = "CON" /\ irqs[1].ack => Fresh(1)
      BY <1>0, <2>1, <2>2 DEF Trans, Sent
    <3> QED
      BY <2>1, <2>3, <2>4, <2>5, <2>6, <3>1 DEF Sent
  <2>8. Accepted'
    BY <1>0, <2>1, <2>6 DEF Trans, Accepted
  <2>9. Noticed' /\ Held'
    BY <1>0, <2>1 DEF Trans, Noticed, Held
  <2>10. Fetched'
    <3>1. mstate = "HST" /\ callback = "HST" /\ irqs[1].ack => buffer = writes
      BY <1>0, <2>1, <2>2, <2>3 DEF Trans, Fetched
    <3> QED
      BY <2>1, <2>4, <2>5, <3>1 DEF Fetched
  <2> QED
    BY <2>7, <2>8, <2>9, <2>10 DEF Trans
<1>3. CASE ReplyCallback /\ mstate' # "IDLE"
  <2>1. /\ UNCHANGED <<queue, irqs, executing, held, writes>>
        /\ reply.cb \notin {"none", "late", "done"}
        /\ RunCallback(reply.cb, FALSE, reply)
        /\ reply' = [reply EXCEPT !.cb = "done"]
    BY <1>3 DEF ReplyCallback, card, users
  <2>2. reply'.cb = "done"
    BY <2>1 DEF Types, ReplyTypes
  <2>3. \/ UNCHANGED <<mstate, buffer>>
        \/ /\ reply.cb = "CON" /\ mstate = "CON" /\ reply.ack
           /\ mstate' = "CONOK" /\ buffer' = buffer
    BY <1>3, <2>1, RunCallbackIs DEF DoCallback, NoCallback
  <2>4. \A k \in Nat : Fresh(k)' <=> Fresh(k)
    BY <1>0, <2>1, <2>3 DEF Fresh, Arrived
  <2>5. CASE UNCHANGED <<mstate, buffer>>
    <3>1. \A i \in 1..Len(irqs) : i \in Nat
      BY <1>0
    <3> QED
      BY <1>0, <2>1, <2>2, <2>4, <2>5, <3>1 DEF Trans, Sent, Accepted, Noticed, Held,
        Fetched
  <2>6. CASE reply.cb = "CON" /\ mstate = "CON" /\ reply.ack /\ mstate' = "CONOK"
    <3>1. queue = <<>>
      BY <1>0, <2>6 DEF Channel, NoReply
    <3>2. Fresh(0)'
      BY <1>0, <2>4, <2>6 DEF Trans, Sent
    <3> QED
      BY <2>1, <2>6, <3>1, <3>2 DEF Trans, Sent, Accepted, Noticed, Held, Fetched
  <2> QED
    BY <2>3, <2>5, <2>6
<1>4. CASE ReplyEnd
  <2>1. /\ UNCHANGED <<mstate, queue, irqs, executing, held, buffer, writes>>
        /\ reply' = NoReply
    BY <1>4 DEF ReplyEnd, card, mce, users
  <2>2. reply'.cb = "none"
    BY <2>1 DEF NoReply
  <2>3. \A k : Fresh(k)' <=> Fresh(k)
    BY <1>0, <2>1 DEF Fresh, Arrived
  <2> QED
    BY <1>0, <2>1, <2>2, <2>3 DEF Trans, Sent, Accepted, Noticed, Held, Fetched
<1>5. CASE Notified /\ mstate' # "IDLE"
  <2>1. /\ irqs # <<>> /\ irqs' = Tail(irqs) /\ Head(irqs).type = "NFY"
        /\ UNCHANGED <<queue, executing, held, writes, reply>>
        /\ \/ mstate # "CONOK" /\ UNCHANGED <<mstate, buffer>>
           \/ mstate = "CONOK" /\ ~quiet /\ mstate' = "NFY" /\ buffer' = buffer
    BY <1>5 DEF Notified, users, DoCallback, NoCallback
  <2>2. /\ Len(irqs) \in Nat \ {0} /\ Head(irqs) = irqs[1] /\ 1 \in 1..Len(irqs)
        /\ Len(irqs') = Len(irqs) - 1
        /\ \A i \in 1..Len(irqs') : irqs'[i] = irqs[i + 1] /\ i + 1 \in 1..Len(irqs)
    BY <1>0, <2>1, HeadTailProperties
  <2>3. /\ Fresh(0) => Fresh(0)'
        /\ \A k \in Nat : Fresh(k + 1) => Fresh(k)'
    BY <1>0, <2>1, FreshTail
  <2>4. CASE mstate # "CONOK" /\ UNCHANGED <<mstate, buffer>>
    <3>1. Sent'
      <4>1. ASSUME mstate = "CON", NEW i \in 1..Len(irqs'), irqs'[i].type = "REP",
                   irqs'[i].ack
            PROVE  Fresh(i)'
        <5>1. i + 1 \in 1..Len(irqs) /\ irqs[i + 1].type = "REP" /\ irqs[i + 1].ack
          BY <2>2, <4>1
        <5>2. Fresh(i + 1) /\ i \in Nat
          BY <1>0, <2>2, <4>1, <5>1 DEF Trans, Sent
        <5> QED
          BY <2>3, <5>2
      <4> QED
        BY <1>0, <2>1, <2>3, <2>4, <4>1 DEF Trans, Sent
    <3>2. Accepted' /\ Noticed' /\ Held'
      BY <1>0, <2>1, <2>4 DEF Trans, Accepted, Noticed, Held
    <3>3. Fetched'
      BY <1>0, <2>1, <2>2, <2>4 DEF Trans, Fetched
    <3> QED
      BY <3>1, <3>2, <3>3 DEF Trans
  <2>5. CASE mstate = "CONOK" /\ ~quiet /\ mstate' = "NFY" /\ buffer' = buffer
    <3>1. executing = 0 /\ held = writes /\ queue = <<>>
      <4>1. Fresh(0) /\ queue = <<>>
        BY <1>0, <2>5 DEF Trans, Accepted
      <4>2. executing = 0 /\ Arrived
        BY <2>1, <2>2, <4>1 DEF Fresh
      <4> QED
        BY <2>5, <4>1, <4>2 DEF Arrived
    <3> QED
      BY <1>0, <2>1, <2>5, <3>1 DEF Trans, Sent, Accepted, Noticed, Held, Fetched
  <2> QED
    BY <2>1, <2>4, <2>5
<1>6. CASE DoHst /\ mstate' # "IDLE"
  <2>1. /\ UNCHANGED <<irqs, executing, held, writes, reply, buffer>>
        /\ \/ UNCHANGED <<mstate, queue>>
           \/ mstate = "NFY" /\ ~busy /\ SendDsp("HST", 0) /\ mstate' = "HST"
    BY <1>6 DEF DoHst, Free, users, DoCallback, NoCallback
  <2>2. CASE UNCHANGED <<mstate, queue>>
    BY <1>0, <2>1, <2>2, TransKept DEF transaction
  <2>3. CASE mstate = "NFY" /\ ~busy /\ SendDsp("HST", 0) /\ mstate' = "HST"
    <3>1. queue = <<>> /\ reply = NoReply /\ \A i \in 1..Len(irqs) : irqs[i].type # "REP"
      BY <1>0, <2>3 DEF Channel
    <3>2. queue'[1] = [cmd |-> "HST", id |-> 0]
      BY <2>3, <3>1, SendDspIs DEF Types
    <3>3. queue'[1].cmd = "HST" /\ reply'.cb = "none"
      BY <2>1, <3>1, <3>2 DEF NoReply
    <3>4. executing = 0 /\ ~quiet /\ held = writes
      BY <1>0, <2>3 DEF Trans, Noticed, Held
    <3> QED
      BY <1>0, <2>1, <2>3, <3>1, <3>3, <3>4 DEF Trans, Sent, Accepted, Noticed, Held,
        Fetched
  <2> QED
    BY <2>1, <2>2, <2>3
<1>7. CASE PriorityTask
  <2>1. /\ UNCHANGED <<mstate, irqs, executing, held, writes, reply, buffer>>
        /\ \/ queue' = queue
           \/ ~busy /\ ~reserved /\ SendDsp("WAIT", 0)
    BY <1>7 DEF PriorityTask, Free, users, mce
  <2>2. CASE queue' = queue
    BY <1>0, <2>1, <2>2, TransKept DEF transaction
  <2>3. CASE ~busy /\ ~reserved /\ SendDsp("WAIT", 0)
    <3>1. queue = <<>>
      BY <1>0, <2>3 DEF Channel
    <3>2. queue'[1] = [cmd |-> "WAIT", id |-> 0]
      BY <2>3, <3>1, SendDspIs DEF Types
    <3>3. queue'[1].cmd = "WAIT"
      BY <3>2
    <3>4. mstate \notin {"CON", "CONOK"}
      BY <2>3 DEF Reservation
    <3> QED
      BY <1>0, <2>1, <3>3, <3>4 DEF Trans, Sent, Accepted, Noticed, Held, Fetched
  <2> QED
    BY <2>1, <2>2, <2>3
<1>8. CASE CardExec
  <2> DEFINE c == Head(queue)
  <2>1. /\ queue # <<>> /\ queue' = Tail(queue) /\ UNCHANGED <<mstate, reply, writes>>
        /\ \/ /\ irqs' = Append(irqs, Rep(c.cmd, TRUE))
              /\ executing' = IF c.cmd = "CON" THEN c.id ELSE executing
              /\ buffer' = IF c.cmd = "HST" THEN held ELSE buffer
              /\ held' = IF c.cmd = "HST" THEN 0 ELSE held
           \/ /\ irqs' = Append(irqs, Rep(c.cmd, FALSE))
              /\ UNCHANGED <<executing, buffer, held>>
           \/ UNCHANGED <<irqs, executing, buffer, held>>
    BY <1>8 DEF CardExec, Driver, users
  <2>2. /\ Len(queue) = 1 /\ busy /\ queue[1].cmd = callback /\ reply = NoReply
        /\ \A i \in 1..Len(irqs) : irqs[i].type # "REP"
    BY <1>0, <2>1 DEF Channel
  <2>3. queue' = <<>> /\ c = queue[1]
    <3>1. Len(queue') = 0 /\ queue' \in Seq(Cmds)
      BY <1>0, <2>1, <2>2, HeadTailProperties
    <3> QED
      BY <1>0, <2>1, <2>2, <3>1, EmptySeq
  <2>4. c.cmd \in {"CON", "HST", "WAIT"}
    <3>1. queue[1] \in Cmds
      BY <1>0, <2>2, ElementOfSeq
    <3> QED
      BY <2>3, <3>1, Records
  <2>5. mstate = "CON" => c.cmd = "CON" /\ c.id = writes
    BY <1>0, <2>1, <2>2, <2>3 DEF Trans, Sent, Reservation
  <2>6. mstate # "CONOK"
    BY <1>0, <2>1 DEF Trans, Accepted
  <2>7. /\ mstate \in {"NFY", "HST"} => executing = 0 /\ ~quiet /\ c.cmd # "CON"
        /\ mstate = "NFY" => held = writes /\ c.cmd # "HST"
        /\ mstate = "HST" => (c.cmd = "HST" => held = writes)
    BY <1>0, <2>1, <2>3 DEF Trans, Noticed, Held
  <2>8. reply.cb = "none"
    BY <2>2 DEF NoReply
  <2>9. ASSUME NEW ack \in BOOLEAN, irqs' = Append(irqs, Rep(c.cmd, ack)),
               NEW i \in 1..Len(irqs'), irqs'[i].type = "REP"
        PROVE  i = Len(irqs') /\ irqs'[i].ack = ack /\ irqs'[i].cmd = c.cmd
    <3>1. Rep(c.cmd, ack) \in Irqs
      BY <2>4, Records
    <3>2. /\ Len(irqs') = Len(irqs) + 1 /\ Len(irqs) \in Nat
          /\ \A j \in 1..Len(irqs) : irqs'[j] = irqs[j]
          /\ irqs'[Len(irqs) + 1] = Rep(c.cmd, ack)
      BY <1>0, <2>9, <3>1, AppendProperties
    <3>3. i = Len(irqs) + 1
      BY <2>2, <2>9, <3>2
    <3> QED
      BY <3>2, <3>3 DEF Rep
  <2>10. CASE /\ irqs' = Append(irqs, Rep(c.cmd, TRUE))
              /\ executing' = IF c.cmd = "CON" THEN c.id ELSE executing
              /\ buffer' = IF c.cmd = "HST" THEN held ELSE buffer
              /\ held' = IF c.cmd = "HST" THEN 0 ELSE held
    <3>1. Sent'
      <4>1. ASSUME mstate = "CON", NEW i \in 1..Len(irqs'), irqs'[i].type = "REP"
            PROVE  Fresh(i)'
        <5>1. i = Len(irqs')
          BY <2>9, <2>10, <4>1
        <5>2. executing' = writes'
          BY <2>1, <2>5, <2>10, <4>1
        <5>3. \A j \in 1..Len(irqs') : ~(i < j)
          BY <5>1
        <5> QED
          BY <5>2, <5>3 DEF Fresh
      <4> QED
        BY <2>1, <2>3, <2>8, <4>1 DEF Sent
    <3>2. Accepted' /\ Noticed'
      BY <2>1, <2>3, <2>6, <2>7, <2>10, <1>0 DEF Accepted, Noticed
    <3>3. Held'
      BY <2>1, <2>3, <2>7, <2>10 DEF Held
    <3>4. Fetched'
      <4>1. ASSUME mstate = "HST", NEW i \in 1..Len(irqs'), irqs'[i].type = "REP",
                   irqs'[i].cmd = "HST"
            PROVE  buffer' = writes
        <5>1. c.cmd = "HST"
          BY <2>9, <2>10, <4>1
        <5> QED
          BY <2>7, <2>10, <4>1, <5>1
      <4> QED
        BY <2>1, <2>8, <4>1 DEF Fetched
    <3> QED
      BY <3>1, <3>2, <3>3, <3>4 DEF Trans
  <2>11. CASE /\ irqs' = Append(irqs, Rep(c.cmd, FALSE))
              /\ UNCHANGED <<executing, buffer, held>>
    <3>1. \A i \in 1..Len(irqs') : ~(irqs'[i].type = "REP" /\ irqs'[i].ack)
      BY <2>9, <2>11
    <3> QED
      BY <1>0, <2>1, <2>3, <2>6, <2>7, <2>8, <2>11, <3>1 DEF Trans, Sent, Accepted,
        Noticed, Held, Fetched
  <2>12. CASE UNCHANGED <<irqs, executing, buffer, held>>
    BY <1>0, <2>1, <2>2, <2>3, <2>6, <2>7, <2>8, <2>12 DEF Trans, Sent, Accepted,
      Noticed, Held, Fetched
  <2> QED
    BY <2>1, <2>10, <2>11, <2>12
<1>9. CASE MceReplies
  <2> DEFINE nfy == [type |-> "NFY", cmd |-> "NFY", ack |-> TRUE]
  <2>1. /\ UNCHANGED <<mstate, reply, writes, queue>> /\ executing # 0 /\ executing' = 0
        /\ \/ /\ irqs' = Append(irqs, nfy)
              /\ IF quiet THEN buffer' = executing ELSE held' = executing
           \/ UNCHANGED <<irqs, buffer, held>>
    BY <1>9 DEF MceReplies, Driver, users
  <2>2. mstate \notin {"NFY", "HST"}
    BY <1>0, <2>1 DEF Trans, Noticed
  <2>3. irqs' = irqs \/ irqs' = Append(irqs, nfy)
    BY <2>1
  <2>4. nfy \in Irqs
    BY Records
  <2>5. /\ Len(irqs) \in Nat
        /\ \A i \in 1..Len(irqs) : irqs'[i] = irqs[i]
        /\ \A i \in 1..Len(irqs') : irqs'[i].type = "REP" => i \in 1..Len(irqs)
    <3>1. CASE irqs' = irqs
      BY <1>0, <3>1
    <3>2. CASE irqs' = Append(irqs, nfy)
      <4>1. /\ Len(irqs') = Len(irqs) + 1 /\ Len(irqs) \in Nat
            /\ \A j \in 1..Len(irqs) : irqs'[j] = irqs[j]
            /\ irqs'[Len(irqs) + 1].type = "NFY"
        BY <1>0, <2>4, <3>2, AppendProperties
      <4> QED
        BY <4>1
    <3> QED
      BY <2>3, <3>1, <3>2
  <2>6. ASSUME NEW k \in Nat, Fresh(k) PROVE Fresh(k)'
    <3>1. executing = writes /\ \A j \in 1..Len(irqs) : k < j => irqs[j].type # "NFY"
      BY <2>1, <2>6 DEF Fresh
    <3>2. CASE UNCHANGED <<irqs, buffer, held>>
      BY <2>1, <3>1, <3>2 DEF Fresh
    <3>3. CASE IF quiet THEN buffer' = executing ELSE held' = executing
      <4>1. Arrived'
        BY <1>0, <2>1, <3>1, <3>3 DEF Arrived
      <4> QED
        BY <2>1, <4>1 DEF Fresh
    <3> QED
      BY <2>1, <3>2, <3>3
  <2>7. Sent'
    <3>1. ASSUME mstate = "CON", NEW i \in 1..Len(irqs'), irqs'[i].type = "REP",
                 irqs'[i].ack
          PROVE  Fresh(i)'
      <4>1. Fresh(i) /\ i \in Nat
        BY <1>0, <2>5, <3>1 DEF Trans, Sent
      <4> QED
        BY <2>6, <4>1
    <3> QED
      BY <1>0, <2>1, <2>6, <3>1 DEF Trans, Sent
  <2>8. Accepted'
    BY <1>0, <2>1, <2>6 DEF Trans, Accepted
  <2> QED
    BY <2>1, <2>2, <2>7, <2>8 DEF Trans, Noticed, Held, Fetched
<1>10. ASSUME NEW u \in Users, Send(u) PROVE Trans'
  <2>1. /\ UNCHANGED <<irqs, executing, held, writes, reply, buffer>> /\ mstate' = "CON"
        /\ ~busy /\ SendDsp("CON", writes)
    BY <1>10 DEF Send, Free
  <2>2. queue = <<>> /\ reply = NoReply /\ \A i \in 1..Len(irqs) : irqs[i].type # "REP"
    BY <1>0, <2>1 DEF Channel
  <2>3. queue'[1] = [cmd |-> "CON", id |-> writes]
    BY <2>1, <2>2, SendDspIs DEF Types, CardTypes
  <2>4. queue'[1].id = writes /\ reply'.cb = "none"
    BY <2>1, <2>2, <2>3 DEF NoReply
  <2> QED
    BY <2>1, <2>2, <2>4 DEF Trans, Sent, Accepted, Noticed, Held, Fetched
<1>11. ASSUME NEW u \in Users, WriteTakes(u) PROVE Trans'
  <2>1. /\ UNCHANGED <<mstate, queue, irqs, reply, executing, held, buffer>>
        /\ opsState = "IDLE" \/ writes' = writes
    BY <1>11 DEF WriteTakes, channel
  <2>2. CASE opsState = "IDLE"
    <3>1. mstate' = "IDLE"
      BY <1>0, <2>1, <2>2 DEF Device
    <3> QED
      BY <1>1, <3>1
  <2>3. CASE writes' = writes
    BY <1>0, <2>1, <2>3, TransKept DEF transaction
  <2> QED
    BY <2>1, <2>2, <2>3
<1>12. CASE DspExpired \/ MceTimer
  <2>1. CASE MceTimer
    BY <1>1, <2>1 DEF MceTimer, GiveUp, DoCallback
  <2>2. CASE DspExpired
    <3>1. /\ RunCallback(callback, TRUE, NoReply)
          /\ UNCHANGED <<queue, irqs, reply, executing, held, writes>>
      BY <2>2 DEF DspExpired, card, users
    <3>2. mstate' = "IDLE" \/ UNCHANGED <<mstate, buffer>>
      BY <3>1, RunCallbackIs DEF DoCallback, NoCallback
    <3> QED
      BY <1>0, <1>1, <3>1, <3>2, TransKept DEF transaction
  <2> QED
    BY <1>12, <2>1, <2>2
<1>13. CASE \/ DspTimer \/ PriorityDone \/ WaitStart \/ WaitEnd \/ UNCHANGED vars
            \/ \E u \in Users : \/ Call(u) \/ SendFails(u)
                                \/ ReadTakes(u) \/ Look(u) \/ Close(u)
  <2>1. UNCHANGED <<mstate, queue, irqs, reply, executing, held, buffer, writes>>
    BY <1>13 DEF DspTimer, PriorityDone, WaitStart, WaitEnd, vars, mce, card, users,
      channel, Call, SendFails, ReadTakes, Look, Close
  <2> QED
    BY <1>0, <2>1, TransKept DEF transaction
<1> QED
  BY <1>1, <1>2, <1>3, <1>4, <1>5, <1>6, <1>7, <1>8, <1>9, <1>10, <1>11, <1>12,
     <1>13, Steps

-----------------------------------------------------------------------------
(* What is read is one's own: while the device has a command or its reply, *)
(* the file it is of has written no other since.                           *)
Calling == {"write", "waitIdle", "send"}

(* The file that has the device wrote the last command, its reply is the   *)
(* reply to that, and what a file has read is the reply to its own.        *)
Ours ==
  /\ opsState \in {"CMD", "REP"} /\ pc[commander] \notin Calling =>
       mine[commander] = writes
  /\ opsState = "REP" => rep = writes
  /\ \A u \in Users : pc[u] \in Calling => got[u] = 0
  /\ \A u \in Users : got[u] # 0 => got[u] = mine[u]

Own == NoSlow /\ "close" \notin faults => Ours

LEMMA OursKept ==
  ASSUME Ours, UNCHANGED <<commander, pc, mine, got, writes>>,
         \/ UNCHANGED <<opsState, rep>>
         \/ opsState = "CMD" /\ opsState' = "REP" /\ rep' = writes
         \/ opsState' \in {"IDLE", "ERR"}
  PROVE  Ours'
BY DEF Ours

LEMMA OwnNext ==
  ASSUME Types, Device, Transaction, Own, [Next]_vars
  PROVE  Own'
<1> SUFFICES ASSUME NoSlow', "close" \notin faults' PROVE Ours'
  BY DEF Own
<1>0. NoSlow /\ "close" \notin faults /\ Trans /\ Ours /\ FileTypes
  BY FaultsNext DEF NoSlow, Transaction, Own, Types
<1>1. CASE ReplyCallback \/ DspExpired
  <2>1. UNCHANGED <<commander, pc, mine, got, writes>>
    BY <1>1 DEF ReplyCallback, DspExpired, users
  <2>2. \/ UNCHANGED <<opsState, rep>>
        \/ opsState = "CMD" /\ opsState' = "REP" /\ rep' = writes
        \/ opsState' \in {"IDLE", "ERR"}
    <3>1. \/ RunCallback(reply.cb, FALSE, reply)
          \/ RunCallback(callback, TRUE, NoReply)
      BY <1>1 DEF ReplyCallback, DspExpired
    <3>2. \/ UNCHANGED <<opsState, rep>>
          \/ WriteCallback(0)
          \/ /\ reply.cb = "HST" /\ reply.ack /\ mstate = "HST"
             /\ WriteCallback(buffer)
      BY <3>1, RunCallbackIs DEF DoCallback, NoCallback
    <3>3. reply.cb = "HST" /\ reply.ack /\ mstate = "HST" => buffer = writes
      BY <1>0 DEF Trans, Fetched
    <3> QED
      BY <3>2, <3>3 DEF WriteCallback
  <2> QED
    BY <1>0, <2>1, <2>2, OursKept
<1>2. CASE Notified
  <2>1. /\ UNCHANGED <<commander, pc, mine, got, writes>>
        /\ irqs # <<>> /\ Head(irqs).type = "NFY"
        /\ \/ UNCHANGED <<opsState, rep>>
           \/ mstate = "CONOK" /\ quiet /\ WriteCallback(buffer)
    BY <1>2 DEF Notified, users, DoCallback, NoCallback
  <2>2. mstate = "CONOK" /\ quiet => buffer = writes
    <3>1. 1 \in 1..Len(irqs) /\ Head(irqs) = irqs[1]
      BY <2>1, HeadTailProperties DEF Types, CardTypes
    <3> QED
      BY <1>0, <2>1, <3>1 DEF Trans, Accepted, Fresh, Arrived
  <2>3. \/ UNCHANGED <<opsState, rep>>
        \/ opsState = "CMD" /\ opsState' = "REP" /\ rep' = writes
        \/ opsState' \in {"IDLE", "ERR"}
    BY <2>1, <2>2 DEF WriteCallback
  <2> QED
    BY <1>0, <2>1, <2>3, OursKept
<1>3. CASE MceTimer \/ DoHst
  <2>1. /\ UNCHANGED <<commander, pc, mine, got, writes>>
        /\ UNCHANGED <<opsState, rep>> \/ WriteCallback(0)
    BY <1>3 DEF MceTimer, DoHst, GiveUp, users, DoCallback, NoCallback
  <2>2. UNCHANGED <<opsState, rep>> \/ opsState' \in {"IDLE", "ERR"}
    BY <2>1 DEF WriteCallback
  <2> QED
    BY <1>0, <2>1, <2>2, OursKept
<1>4. ASSUME NEW u \in Users, Call(u) PROVE Ours'
  <2>1. /\ UNCHANGED <<opsState, rep, commander, writes>> /\ pc[u] = "idle"
        /\ \/ pc' = [pc EXCEPT ![u] = "write"] /\ mine' = [mine EXCEPT ![u] = 0]
           \/ pc' = [pc EXCEPT ![u] = "read"] /\ mine' = mine
        /\ got' = [got EXCEPT ![u] = 0]
    BY <1>4 DEF Call, ops
  <2>2. /\ \A v \in Users \ {u} : pc'[v] = pc[v] /\ mine'[v] = mine[v] /\ got'[v] = got[v]
        /\ got'[u] = 0
        /\ \/ pc'[u] = "write"
           \/ pc'[u] = "read" /\ mine'[u] = mine[u]
    BY <1>0, <2>1 DEF FileTypes
  <2>3. opsState \in {"CMD", "REP"} => commander \in Users
    BY <1>0 DEF Device
  <2>4. /\ \A v \in Users : pc'[v] \in Calling => got'[v] = 0
        /\ \A v \in Users : got'[v] # 0 => got'[v] = mine'[v]
    BY <1>0, <2>2 DEF Ours
  <2>5. opsState \in {"CMD", "REP"} /\ pc'[commander] \notin Calling =>
          mine'[commander] = writes
    BY <1>0, <2>1, <2>2, <2>3 DEF Ours, Calling
  <2> QED
    BY <1>0, <2>1, <2>4, <2>5 DEF Ours
<1>5. ASSUME NEW u \in Users, WriteTakes(u) PROVE Ours'
  <2>1. /\ UNCHANGED <<mine, got, rep>> /\ pc[u] = "write"
        /\ \/ /\ opsState' = "CMD" /\ commander' = u
              /\ pc' = [pc EXCEPT ![u] = "send"]
           \/ /\ UNCHANGED <<opsState, commander, writes>>
              /\ pc' = [pc EXCEPT ![u] = "waitIdle"]
    <3>1. CASE opsState = "IDLE"
      BY <1>5, <3>1 DEF WriteTakes, Goes
    <3>2. CASE opsState # "IDLE"
      BY <1>5, <3>2 DEF WriteTakes, Goes
    <3> QED
      BY <3>1, <3>2
  <2>2. /\ \A v \in Users \ {u} : pc'[v] = pc[v]
        /\ pc'[u] \in Calling
    BY <1>0, <2>1 DEF FileTypes, Calling
  <2>3. opsState \in {"CMD", "REP"} => commander \in Users
    BY <1>0 DEF Device
  <2>4. pc[u] \in Calling
    BY <2>1 DEF Calling
  <2>5. \A v \in Users : pc'[v] \in Calling => got[v] = 0
    BY <1>0, <2>2, <2>4 DEF Ours
  <2>6. CASE opsState' = "CMD" /\ commander' = u
    BY <1>0, <2>1, <2>2, <2>5, <2>6 DEF Ours
  <2>7. CASE UNCHANGED <<opsState, commander, writes>>
    BY <1>0, <2>1, <2>2, <2>3, <2>5, <2>7 DEF Ours
  <2> QED
    BY <2>1, <2>6, <2>7
<1>6. ASSUME NEW u \in Users, Send(u) PROVE Ours'
  <2>1. /\ UNCHANGED <<opsState, rep, commander, got, writes>> /\ pc[u] = "send"
        /\ pc' = [pc EXCEPT ![u] = "idle"] /\ mine' = [mine EXCEPT ![u] = writes]
    BY <1>6 DEF Send, Goes
  <2>2. /\ \A v \in Users \ {u} : pc'[v] = pc[v] /\ mine'[v] = mine[v]
        /\ pc'[u] \notin Calling /\ mine'[u] = writes
    BY <1>0, <2>1 DEF FileTypes, Calling
  <2>3. commander = u
    BY <1>0, <2>1, LegacyAssumption DEF Device
  <2>4. got[u] = 0
    BY <1>0, <2>1 DEF Ours, Calling
  <2>5. /\ \A v \in Users : pc'[v] \in Calling => got[v] = 0
        /\ \A v \in Users : got[v] # 0 => got[v] = mine'[v]
    BY <1>0, <2>2, <2>4 DEF Ours
  <2> QED
    BY <1>0, <2>1, <2>2, <2>3, <2>5 DEF Ours
<1>7. ASSUME NEW u \in Users, SendFails(u) PROVE Ours'
  <2>1. /\ UNCHANGED <<mine, got>> /\ opsState' = "IDLE"
        /\ pc' = [pc EXCEPT ![u] = "idle"]
    BY <1>7 DEF SendFails, Goes
  <2>2. \A v \in Users : pc'[v] \in Calling => pc[v] \in Calling
    BY <1>0, <2>1 DEF FileTypes, Calling
  <2> QED
    BY <1>0, <2>1, <2>2 DEF Ours
<1>8. ASSUME NEW u \in Users, ReadTakes(u) PROVE Ours'
  <2>1. /\ UNCHANGED <<rep, commander, mine, writes>> /\ pc[u] = "read"
        /\ pc' = [pc EXCEPT ![u] = "idle"] \/ pc' = [pc EXCEPT ![u] = "waitReply"]
        /\ \/ UNCHANGED <<opsState, got>>
           \/ /\ opsState' = "IDLE" /\ commander = u
              /\ got' = [got EXCEPT ![u] = IF opsState = "REP" THEN rep ELSE 0]
    BY <1>8 DEF ReadTakes, Goes, Mine
  <2>2. \A v \in Users : pc'[v] \in Calling <=> pc[v] \in Calling
    BY <1>0, <2>1 DEF FileTypes, Calling
  <2>3. CASE UNCHANGED <<opsState, got>>
    <3>1. opsState \in {"CMD", "REP"} => commander \in Users
      BY <1>0 DEF Device
    <3> QED
      BY <1>0, <2>1, <2>2, <2>3, <3>1 DEF Ours
  <2>4. CASE /\ opsState' = "IDLE" /\ commander = u
             /\ got' = [got EXCEPT ![u] = IF opsState = "REP" THEN rep ELSE 0]
    <3>1. pc[u] \notin Calling
      BY <2>1 DEF Calling
    <3>2. opsState = "REP" => rep = mine[u]
      BY <1>0, <2>4, <3>1 DEF Ours
    <3>3. /\ \A v \in Users \ {u} : got'[v] = got[v]
          /\ got'[u] = 0 \/ got'[u] = mine[u]
      BY <1>0, <2>4, <3>2 DEF FileTypes
    <3> QED
      BY <1>0, <2>1, <2>2, <2>4, <3>1, <3>3 DEF Ours
  <2> QED
    BY <2>1, <2>3, <2>4
<1>9. ASSUME NEW u \in Users, Look(u) PROVE Ours'
  <2>1. /\ UNCHANGED <<opsState, rep, commander, mine, got, writes>>
        /\ \/ pc' = pc
           \/ pc[u] = "waitIdle" /\ pc' = [pc EXCEPT ![u] = "write"]
           \/ pc[u] = "waitReply" /\ pc' = [pc EXCEPT ![u] = "read"]
    <3>1. CASE pc[u] = "waitIdle"
      BY <1>9, <3>1 DEF Look, Goes, ops
    <3>2. CASE pc[u] = "waitReply"
      BY <1>9, <3>2 DEF Look, Goes, ops
    <3> QED
      BY <1>9, <3>1, <3>2 DEF Look
  <2>2. \A v \in Users : pc'[v] \in Calling <=> pc[v] \in Calling
    BY <1>0, <2>1 DEF FileTypes, Calling
  <2>3. opsState \in {"CMD", "REP"} => commander \in Users
    BY <1>0 DEF Device
  <2> QED
    BY <1>0, <2>1, <2>2, <2>3 DEF Ours
<1>10. ASSUME NEW u \in Users, Close(u) PROVE FALSE
  BY <1>0, <1>10 DEF Close
<1>11. CASE \/ ReplyStart \/ ReplyEnd \/ DspTimer \/ PriorityTask \/ PriorityDone
            \/ CardExec \/ MceReplies \/ WaitStart \/ WaitEnd \/ UNCHANGED vars
  <2>1. UNCHANGED <<commander, pc, mine, got, writes, opsState, rep>>
    BY <1>11 DEF ReplyStart, ReplyEnd, DspTimer, PriorityTask, PriorityDone, CardExec,
      MceReplies, WaitStart, WaitEnd, vars, ops, users, Driver
  <2> QED
    BY <1>0, <2>1, OursKept
<1> QED
  BY <1>1, <1>2, <1>3, <1>4, <1>5, <1>6, <1>7, <1>8, <1>9, <1>10, <1>11, Steps

-----------------------------------------------------------------------------
(* The invariants together.                                                *)
Inv == /\ Types /\ Reservation /\ Channel /\ Released /\ Device
       /\ Sleepers /\ Kept /\ Transaction /\ Own

LEMMA InvInit == Init => Inv
<1> SUFFICES ASSUME Init PROVE Inv
  OBVIOUS
<1>1. Types
  BY TypesInit
<1>2. Reservation /\ Released /\ Transaction
  BY IdleTrans DEF Init, Reservation, Released, Transaction
<1>3. Channel /\ Kept
  BY DEF Init, Channel, Kept, NoReply
<1>4. Device
  BY LegacyAssumption DEF Init, Device
<1>5. Sleepers
  BY DEF Init, Sleepers
<1>6. Own
  BY DEF Init, Own, Ours, Calling
<1> QED
  BY <1>1, <1>2, <1>3, <1>4, <1>5, <1>6 DEF Inv

LEMMA InvNext == Inv /\ [Next]_vars => Inv'
<1> SUFFICES ASSUME Inv, [Next]_vars PROVE Inv'
  OBVIOUS
<1>1. /\ Types /\ Reservation /\ Channel /\ Released /\ Device
      /\ Sleepers /\ Kept /\ Transaction /\ Own
  BY DEF Inv
<1>2. Types' /\ Reservation' /\ Channel' /\ Released' /\ Device'
  BY <1>1, TypesNext, ReservationNext, ChannelNext, ReleasedNext, DeviceNext
<1>3. Sleepers' /\ Kept' /\ Transaction' /\ Own'
  BY <1>1, SleepersNext, KeptNext, TransactionNext, OwnNext
<1> QED
  BY <1>2, <1>3 DEF Inv

LEMMA InvHolds == Spec => []Inv
BY InvInit, InvNext, PTL DEF Spec

(* A reservation ends with its transaction, and leaves no other command    *)
(* waiting for the channel (the calls of dsp_unreserve), for any number of *)
(* files, commands and faults but late answers.                            *)
THEOREM NoReservationLeft == Spec => []ReservedOnlyWaiting
<1>1. Inv => ReservedOnlyWaiting
  BY Spares DEF Inv, Released, ReservedOnlyWaiting
<1> QED
  BY <1>1, InvHolds, PTL

(* What mce_read gives a file is the reply to the command it has written,  *)
(* for any number of files and commands, and whatever the card, the bus    *)
(* and the MCE fail to do in time.                                         *)
THEOREM ReadsAreOwn == Spec => []OwnReply
<1>1. Inv => OwnReply
  BY Spares DEF Inv, Own, Ours, OwnReply
<1> QED
  BY <1>1, InvHolds, PTL

(* Nobody asleep in mce_write or mce_read has what it waits for, for any   *)
(* number of files; a write that fails to send wakes nobody and is         *)
(* excepted.                                                               *)
THEOREM WokenInTime == Spec => []NoMissedWakeup
<1>1. Inv => NoMissedWakeup
  BY Spares DEF Inv, Sleepers, NoMissedWakeup
<1> QED
  BY <1>1, InvHolds, PTL

(* Who sleeps in dsp_send_command_wait has its command requested, or out,  *)
(* however the tasklet, the timers and the handler interleave.             *)
THEOREM RequestStays == Spec => []RequestKept
<1>1. Inv => RequestKept
  BY Spares DEF Inv, Kept, Answered, RequestKept
<1> QED
  BY <1>1, InvHolds, PTL

=============================================================================
