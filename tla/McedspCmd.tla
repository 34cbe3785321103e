------------------------------ MODULE McedspCmd ------------------------------
(***************************************************************************)
(* The command channels of the current PCI card driver,                    *)
(* driver_c7/dsp_driver.c: the DSP channel (dsp_state) and the MCE channel *)
(* (mce_state) of one card, shared by every process that holds the device  *)
(* open, by the grant tasklet, by the interrupt handler and by two kernel  *)
(* timers.                                                                 *)
(*                                                                         *)
(* Everything between DSP_LOCK and DSP_UNLOCK is one step; an access made  *)
(* outside the spinlock is a step of its own.  A process that sleeps in    *)
(* wait_event_interruptible is "asleep" until some code calls              *)
(* wake_up_interruptible, and only then looks at its condition again.      *)
(* The card and the MCE behind it are external: they answer the commands   *)
(* of a channel in the order they were given, at any time.                 *)
(***************************************************************************)
EXTENDS Naturals, Sequences, FiniteSets

CONSTANTS
  Procs,        \* processes that hold the device open
  Ops,          \* Ops[p]: the ioctls process p issues
  MaxCalls,     \* bound on the number of commands, grants included
  Disciplined,  \* callers collect one reply before they send again
  Faults        \* what may go wrong, a subset of Fault

Chan      == {"dsp", "mce"}
ChanState == {"IDLE", "CMD_SENT", "REP_RECD"}
SendOp    == {"COMMAND", "QUIET_COMMAND", "MCE_COMMAND", "SET_NFRAMES",
              "SET_DATASIZE", "RESET_DSP"}
GetOp     == {"GET_DSP_REPLY", "GET_MCE_REPLY"}

(* lost: the card never answers a command.  late: a timer expires although *)
(* the card still owes an answer.  slow: a timer expires while the answer  *)
(* waits for its reader.  torn: raw_send_data gives up although the card   *)
(* has the whole command.                                                  *)
Fault     == {"lost", "late", "slow", "torn"}

ASSUME ConstAssumption ==
  /\ Ops \in [Procs -> SUBSET (SendOp \cup GetOp)]
  /\ MaxCalls \in Nat
  /\ Disciplined \in BOOLEAN
  /\ Faults \subseteq Fault

VARIABLES
  enabled,  \* dsp->enabled
  state,    \* state["dsp"], state["mce"]: dsp->dsp_state, dsp->mce_state
  ignore,   \* DSP_IGNORE_DSP_REPLY is set in dsp->dsp_cmd_flags
  reply,    \* the command that dsp->reply, dsp->mce_reply answers
  timer,    \* dsp_timer, mce_timer: pending?
  firing,   \* the timer's handler has started and has not got the lock yet
  cmdBuf,   \* the MCE command in the DMA buffer, at reply_buffer_dma_virt+1024
  pc, call, last, asleep, \* where each process is, and its local variables
  calls,    \* number of commands so far: the source of their identities
  want,     \* want[p][ch]: the command whose reply p has yet to collect
  cur,      \* cur[ch]: the last command that took the channel
  sought,   \* sought[p]: the command that was out when p began to wait
  owed      \* owed[ch]: commands the card has not answered yet

driver == <<enabled, state, ignore, reply, timer, firing, cmdBuf>>
procs  == <<pc, call, last, asleep, sought>>
vars   == <<enabled, state, ignore, reply, timer, firing, cmdBuf, pc, call,
            last, asleep, calls, want, cur, sought, owed>>

-----------------------------------------------------------------------------
(* The flags of a command. *)

(* The channels that have to be idle before the command is sent, and the   *)
(* channels it leaves in CMD_SENT.                                         *)
Needs(op)   == IF op = "MCE_COMMAND" THEN Chan ELSE {"dsp"}
Expects(op) == IF op = "QUIET_COMMAND" THEN {} ELSE Needs(op)

(* Commands whose DSP reply is a hand-shake that nobody reads. *)
Ignores_MceOnly(op) == op = "MCE_COMMAND"
Ignores(op) == op \in {"MCE_COMMAND", "SET_NFRAMES", "GRANT"}

(* ioctls that collect the reply of their own command before they return;  *)
(* they block whatever the file's flags say.                               *)
Collects_NFrames(op) == op \in {"SET_DATASIZE", "RESET_DSP", "SET_NFRAMES"}
Collects(op) == op \in {"SET_DATASIZE", "RESET_DSP"}

(* The channel a caller collects a reply from, and the commands after      *)
(* which it does.                                                          *)
ReplyChan(op) == IF op \in {"MCE_COMMAND", "GET_MCE_REPLY"} THEN "mce" ELSE "dsp"
Answered(op)  == op \in {"COMMAND", "MCE_COMMAND", "SET_DATASIZE", "RESET_DSP"}

Busy_Unread(op) == \E ch \in Needs(op) : state[ch] = "REP_RECD"
Busy(op)  == \E ch \in Needs(op) : state[ch] # "IDLE"
Nothing   == [ch \in Chan |-> 0]
AllIdle   == [ch \in Chan |-> "IDLE"]
NoCall    == [op |-> "COMMAND", nonblock |-> FALSE, id |-> 0]
Wake_Senders == asleep' = [p \in Procs |-> asleep[p] /\ pc[p] = "getWait"]
WakeAll   == asleep' = [p \in Procs |-> FALSE]

(* del_timer stops a pending timer, not a handler that has started. *)
DelTimer_None(ch) == UNCHANGED timer
DelTimer(ch) == timer' = [timer EXCEPT ![ch] = FALSE]

(* The condition process p waits for in wait_event_interruptible. *)
WaitCond(p) ==
  IF pc[p] = "sendWait"
  THEN \E ch \in Needs(call[p].op) : state[ch] # last[p][ch]
  ELSE LET ch == ReplyChan(call[p].op) IN state[ch] # last[p][ch]

Waiting(p) == pc[p] \in {"sendWait", "getWait"}

Init ==
  /\ enabled = TRUE
  /\ state = [ch \in Chan |-> "IDLE"]
  /\ ignore = FALSE
  /\ reply = Nothing
  /\ timer = [ch \in Chan |-> FALSE]
  /\ firing = [ch \in Chan |-> FALSE]
  /\ cmdBuf = 0
  /\ pc = [p \in Procs |-> "user"]
  /\ call = [p \in Procs |-> NoCall]
  /\ last = [p \in Procs |-> AllIdle]
  /\ asleep = [p \in Procs |-> FALSE]
  /\ calls = 0
  /\ want = [p \in Procs |-> Nothing]
  /\ cur = Nothing
  /\ sought = [p \in Procs |-> 0]
  /\ owed = [ch \in Chan |-> <<>>]

-----------------------------------------------------------------------------
(* try_send_cmd under the lock, once the channels are idle. *)

(* The words reach the card: the channels are taken, the timers set. *)
SendOK(op, id) ==
  /\ state' = [ch \in Chan |->
                 IF ch \in Expects(op) THEN "CMD_SENT" ELSE state[ch]]
  /\ timer' = [ch \in Chan |-> ch \in Expects(op) \/ timer[ch]]
  /\ ignore' = Ignores(op)
  /\ cur' = [ch \in Chan |-> IF ch \in Expects(op) THEN id ELSE cur[ch]]
  /\ owed' = [ch \in Chan |->
                IF ch \notin Expects(op) THEN owed[ch]
                ELSE Append(owed[ch], IF ch = "mce" THEN 0 ELSE id)]
  /\ WakeAll

(* raw_send_data fails; a torn command was taken by the card all the same. *)
SendFail(op, id) ==
  /\ state' = [state EXCEPT !["dsp"] = "IDLE"]
  /\ \/ owed' = owed
     \/ /\ "torn" \in Faults /\ "dsp" \in Expects(op)
        /\ owed' = [owed EXCEPT !["dsp"] = Append(@, id)]
  /\ WakeAll
  /\ UNCHANGED <<timer, ignore, cur>>

(* An ioctl of p returns: its local variables are gone. *)
Leave(p) ==
  /\ pc' = [pc EXCEPT ![p] = "user"]
  /\ call' = [call EXCEPT ![p] = NoCall]
  /\ last' = [last EXCEPT ![p] = AllIdle]
  /\ sought' = [sought EXCEPT ![p] = 0]

(* It returns with an error.  A reset that fails after the      *)
(* hand-shake disables the card.  DSPIOCT_COMMAND turns every error into   *)
(* 1, which the library does not tell from success: it goes on to collect. *)
FailSend(p) ==
  /\ Leave(p)
  /\ enabled' = (enabled /\ call[p].op # "RESET_DSP")
  /\ want' = IF call[p].op = "COMMAND"
             THEN [want EXCEPT ![p]["dsp"] = call[p].id] ELSE want

FailGet(p) ==
  /\ Leave(p)
  /\ enabled' = (enabled /\ call[p].op # "RESET_DSP")

-----------------------------------------------------------------------------
(* The ioctls of a process, up to the first look at the channel. *)

BeginSend(p, op, nb, next) ==
  /\ pc[p] = "user"
  /\ op \in Ops[p]
  /\ calls < MaxCalls
  /\ Disciplined => want[p] = Nothing
  /\ calls' = calls + 1
  /\ call' = [call EXCEPT ![p] = [op |-> op, nonblock |-> nb, id |-> calls + 1]]
  /\ pc' = [pc EXCEPT ![p] = next]
  /\ UNCHANGED <<state, ignore, reply, timer, firing, last, asleep, want, cur,
                 sought>>

(* DSPIOCT_COMMAND, with and without DSP_EXPECT_DSP_REPLY, and             *)
(* DSPIOCT_SET_DATASIZE, whose command is sent without O_NONBLOCK.         *)
BeginCommand(p) ==
  /\ \/ \E nb \in BOOLEAN, op \in {"COMMAND", "QUIET_COMMAND"} :
          BeginSend(p, op, nb, "send")
     \/ BeginSend(p, "SET_DATASIZE", FALSE, "send")
  /\ UNCHANGED <<enabled, cmdBuf, owed>>

(* DSPIOCT_MCE_COMMAND: the command is copied to the shared DMA buffer     *)
(* before the channels are known to be idle.                               *)
BeginMceCommand(p) ==
  /\ \E nb \in BOOLEAN : BeginSend(p, "MCE_COMMAND", nb, "send")
  /\ cmdBuf' = calls + 1
  /\ UNCHANGED <<enabled, owed>>

(* DSPIOCT_SET_NFRAMES: refused with -ENODEV when the card is disabled. *)
BeginSetNFrames(p) ==
  /\ enabled
  /\ \E nb \in BOOLEAN : BeginSend(p, "SET_NFRAMES", nb, "send")
  /\ UNCHANGED <<enabled, cmdBuf, owed>>

(* DSPIOCT_RESET_DSP: the card forgets its commands, unless the vector     *)
(* command is refused because HCVR is blocked; the driver's channel states *)
(* stay as they are.                                                       *)
BeginReset(p) ==
  /\ BeginSend(p, "RESET_DSP", FALSE, "handshake")
  /\ owed' \in {owed, [ch \in Chan |-> <<>>]}
  /\ UNCHANGED <<enabled, cmdBuf>>

(* mcedsp_do_handshake, up to upload_rep_buffer. *)
Handshake(p) ==
  /\ pc[p] = "handshake"
  /\ \/ /\ pc' = [pc EXCEPT ![p] = "send"]
        /\ enabled' = TRUE
        /\ UNCHANGED <<call, last, sought>>
     \/ Leave(p) /\ UNCHANGED enabled
  /\ UNCHANGED <<state, ignore, reply, timer, firing, cmdBuf, asleep, calls,
                 want, cur, owed>>

(* try_send_cmd finds a channel busy. *)
SendBusy(p) ==
  /\ pc[p] = "send"
  /\ Busy(call[p].op)
  /\ IF call[p].nonblock
     THEN FailSend(p)
     ELSE /\ pc' = [pc EXCEPT ![p] = "sendWait"]
          /\ last' = [last EXCEPT ![p] = [ch \in Chan |->
                        IF ch \in Needs(call[p].op) THEN state[ch] ELSE @[ch]]]
          /\ UNCHANGED <<enabled, want, call, sought>>
  /\ UNCHANGED <<state, ignore, reply, timer, firing, cmdBuf, asleep, calls,
                 cur, owed>>

(* try_send_cmd finds the channels idle and writes the command. *)
Send(p) ==
  /\ pc[p] = "send"
  /\ ~Busy(call[p].op)
  /\ \/ /\ SendOK(call[p].op, call[p].id)
        /\ want' = IF Answered(call[p].op)
                   THEN [want EXCEPT ![p][ReplyChan(call[p].op)] = call[p].id]
                   ELSE want
        /\ IF Collects(call[p].op)
           THEN /\ pc' = [pc EXCEPT ![p] = "get"]
                /\ UNCHANGED <<call, last, sought>>
           ELSE Leave(p)
        /\ UNCHANGED enabled
     \/ SendFail(call[p].op, call[p].id) /\ FailSend(p)
  /\ UNCHANGED <<reply, firing, cmdBuf, calls>>

(* wait_event_interruptible: go on if the condition holds, else sleep. *)
Wait(p) ==
  /\ Waiting(p)
  /\ ~asleep[p]
  /\ IF WaitCond(p)
     THEN /\ pc' = [pc EXCEPT ![p] = IF @ = "sendWait" THEN "send" ELSE "get"]
          /\ UNCHANGED asleep
     ELSE asleep' = [asleep EXCEPT ![p] = TRUE] /\ UNCHANGED pc
  /\ UNCHANGED <<enabled, state, ignore, reply, timer, firing, cmdBuf, call,
                 last, calls, want, cur, sought, owed>>

(* A signal ends the wait, unless the condition holds: -ERESTARTSYS. *)
Signal(p) ==
  /\ Waiting(p)
  /\ ~WaitCond(p)
  /\ IF pc[p] = "sendWait" THEN FailSend(p)
     ELSE FailGet(p) /\ UNCHANGED want
  /\ asleep' = [asleep EXCEPT ![p] = FALSE]
  /\ UNCHANGED <<state, ignore, reply, timer, firing, cmdBuf, calls, cur, owed>>

-----------------------------------------------------------------------------
(* try_get_reply and try_get_mce_reply. *)

BeginGet(p) ==
  /\ pc[p] = "user"
  /\ \E nb \in BOOLEAN, op \in GetOp \cap Ops[p] :
       /\ Disciplined => want[p][ReplyChan(op)] # 0
       /\ call' = [call EXCEPT ![p] = [op |-> op, nonblock |-> nb, id |-> 0]]
  /\ pc' = [pc EXCEPT ![p] = "get"]
  /\ UNCHANGED <<driver, last, asleep, sought, calls, want, cur, owed>>

(* A reply is there: copy it, stop the timer, free the channel. *)
Collect(p) ==
  /\ pc[p] = "get"
  /\ LET ch == ReplyChan(call[p].op)
     IN /\ state[ch] = "REP_RECD"
        /\ state' = [state EXCEPT ![ch] = "IDLE"]
        /\ DelTimer(ch)
        /\ want' = [want EXCEPT ![p][ch] = 0]
  /\ Leave(p)
  /\ WakeAll
  /\ UNCHANGED <<enabled, ignore, reply, firing, cmdBuf, calls, cur, owed>>

(* No reply: -ENODATA on an idle channel; else -EAGAIN, or a wait for the  *)
(* state to differ from seen, what the look under the lock saw.            *)
NoReply(p, ch, seen) ==
  CASE state[ch] = "IDLE" ->
         FailGet(p) /\ want' = [want EXCEPT ![p][ch] = 0]
    [] state[ch] # "IDLE" /\ call[p].nonblock ->
         FailGet(p) /\ UNCHANGED want
    [] OTHER ->
         /\ pc' = [pc EXCEPT ![p] = "getWait"]
         /\ last' = [last EXCEPT ![p][ch] = seen]
         /\ sought' = [sought EXCEPT ![p] = IF @ = 0 THEN cur[ch] ELSE @]
         /\ UNCHANGED <<enabled, call, want>>

(* The first look, under the lock.  The DSP side decides on what it saw;   *)
(* the MCE side reads mce_state again after the unlock (GetRecheck).       *)
GetLook(p) ==
  /\ pc[p] = "get"
  /\ LET ch == ReplyChan(call[p].op)
     IN /\ state[ch] # "REP_RECD"
        /\ IF ch = "dsp" THEN NoReply(p, ch, state[ch])
           ELSE /\ pc' = [pc EXCEPT ![p] = "getCheck"]
                /\ last' = [last EXCEPT ![p][ch] = state[ch]]
                /\ UNCHANGED <<enabled, call, want, sought>>
  /\ UNCHANGED <<state, ignore, reply, timer, firing, cmdBuf, asleep, calls,
                 cur, owed>>

GetRecheck(p) ==
  /\ pc[p] = "getCheck"
  /\ NoReply(p, "mce", last[p]["mce"])
  /\ UNCHANGED <<state, ignore, reply, timer, firing, cmdBuf, asleep, calls,
                 cur, owed>>

-----------------------------------------------------------------------------
(* The grant tasklet: send_set_tail_inform without blocking.  Refused with *)
(* -EAGAIN when the channel is busy, which changes nothing here.           *)
GrantTask ==
  /\ enabled
  /\ calls < MaxCalls
  /\ ~Busy("GRANT")
  /\ calls' = calls + 1
  /\ SendOK("GRANT", calls + 1) \/ SendFail("GRANT", calls + 1)
  /\ UNCHANGED <<enabled, reply, firing, cmdBuf, pc, call, last, want, sought>>

(* The interrupt handler.  A disabled card's interrupts are not served. *)

(* A datagram on a channel nobody waits on resets the channel to idle. *)
Unexpected_TimerOnly(ch) ==
  timer' = [timer EXCEPT ![ch] = FALSE] /\ UNCHANGED <<reply, state>>

Unexpected(ch) ==
  /\ state' = [state EXCEPT ![ch] = "IDLE"]
  /\ UNCHANGED <<reply, timer>>

Record(ch, id) ==
  /\ reply' = [reply EXCEPT ![ch] = id]
  /\ state' = [state EXCEPT ![ch] = "REP_RECD"]
  /\ UNCHANGED timer

DspReply ==
  /\ enabled
  /\ owed["dsp"] # <<>>
  /\ owed' = [owed EXCEPT !["dsp"] = Tail(@)]
  /\ CASE state["dsp"] # "CMD_SENT" -> Unexpected("dsp")
       [] state["dsp"] = "CMD_SENT" /\ ignore ->
            /\ state' = [state EXCEPT !["dsp"] = "IDLE"]
            /\ DelTimer("dsp")
            /\ UNCHANGED reply
       [] OTHER -> Record("dsp", Head(owed["dsp"]))
  /\ WakeAll
  /\ UNCHANGED <<enabled, ignore, firing, cmdBuf, pc, call, last, calls, want,
                 cur, sought>>

MceReply ==
  /\ enabled
  /\ owed["mce"] # <<>>
  /\ Head(owed["mce"]) # 0
  /\ owed' = [owed EXCEPT !["mce"] = Tail(@)]
  /\ IF state["mce"] = "CMD_SENT" THEN Record("mce", Head(owed["mce"]))
     ELSE Unexpected("mce")
  /\ WakeAll
  /\ UNCHANGED <<enabled, ignore, firing, cmdBuf, pc, call, last, calls, want,
                 cur, sought>>

(* The card reads the posted MCE command from the DMA buffer. *)
FetchMce ==
  /\ \E i \in 1..Len(owed["mce"]) :
       /\ owed["mce"][i] = 0
       /\ \A j \in 1..(i-1) : owed["mce"][j] # 0
       /\ owed' = [owed EXCEPT !["mce"][i] = cmdBuf]
  /\ UNCHANGED <<driver, procs, calls, want, cur>>

(* The card drops a command, or holds an answer that nobody serves. *)
Lose(ch) ==
  /\ "lost" \in Faults \/ ~enabled
  /\ owed[ch] # <<>>
  /\ owed' = [owed EXCEPT ![ch] = Tail(@)]
  /\ UNCHANGED <<driver, procs, calls, want, cur>>

(* A timer expires: its handler starts, and waits for the lock. *)
Expire(ch) ==
  /\ timer[ch]
  /\ ~firing[ch]
  /\ owed[ch] # <<>> => "late" \in Faults
  /\ state[ch] = "REP_RECD" => "slow" \in Faults
  /\ timer' = [timer EXCEPT ![ch] = FALSE]
  /\ firing' = [firing EXCEPT ![ch] = TRUE]
  /\ UNCHANGED <<enabled, state, ignore, reply, cmdBuf, procs, calls, want,
                 cur, owed>>

(* mcedsp_dsp_timeout, mcedsp_mce_timeout. *)
Timeout(ch) ==
  /\ firing[ch]
  /\ firing' = [firing EXCEPT ![ch] = FALSE]
  /\ IF state[ch] = "IDLE" THEN UNCHANGED <<state, asleep>>
     ELSE state' = [state EXCEPT ![ch] = "IDLE"] /\ WakeAll
  /\ UNCHANGED <<enabled, ignore, reply, timer, cmdBuf, pc, call, last, calls,
                 want, cur, sought, owed>>

-----------------------------------------------------------------------------

Begin(p) ==
  \/ BeginCommand(p) \/ BeginMceCommand(p) \/ BeginSetNFrames(p)
  \/ BeginReset(p) \/ BeginGet(p)

(* What a process does inside a call, without help. *)
Step(p) ==
  \/ Handshake(p) \/ SendBusy(p) \/ Send(p) \/ Wait(p)
  \/ Collect(p) \/ GetLook(p) \/ GetRecheck(p)

Card == DspReply \/ MceReply \/ FetchMce \/ \E ch \in Chan : Lose(ch)

Next ==
  \/ \E p \in Procs : Begin(p) \/ Step(p) \/ Signal(p)
  \/ GrantTask
  \/ Card
  \/ \E ch \in Chan : Expire(ch) \/ Timeout(ch)

Spec == Init /\ [][Next]_vars

(* Kernel timers expire, their handlers run, and a process that can go on  *)
(* is scheduled.  Nothing is asked of the card.                            *)
FairSpec ==
  /\ Spec
  /\ \A ch \in Chan : WF_vars(Expire(ch)) /\ WF_vars(Timeout(ch))
  /\ \A p \in Procs : WF_vars(Step(p))

-----------------------------------------------------------------------------
PlaceOK(p) ==
  /\ pc[p] \in {"send", "sendWait"} => call[p].op \in SendOp
  /\ pc[p] = "handshake" => call[p].op = "RESET_DSP"
  /\ pc[p] \in {"get", "getWait"} =>
       call[p].op \in GetOp \cup {"SET_DATASIZE", "RESET_DSP"}
  /\ pc[p] = "getCheck" => call[p].op = "GET_MCE_REPLY"

(* The variables hold what their C types allow, and each place in a call   *)
(* is reached by the ioctls that have it.                                  *)
TypeOK ==
  /\ enabled \in BOOLEAN
  /\ state \in [Chan -> ChanState]
  /\ ignore \in BOOLEAN
  /\ reply \in [Chan -> Nat]
  /\ timer \in [Chan -> BOOLEAN]
  /\ firing \in [Chan -> BOOLEAN]
  /\ cmdBuf \in Nat
  /\ pc \in [Procs -> {"user", "handshake", "send", "sendWait", "get",
                       "getCheck", "getWait"}]
  /\ call \in [Procs -> [op : SendOp \cup GetOp, nonblock : BOOLEAN, id : Nat]]
  /\ last \in [Procs -> [Chan -> ChanState]]
  /\ asleep \in [Procs -> BOOLEAN]
  /\ calls \in Nat
  /\ want \in [Procs -> [Chan -> Nat]]
  /\ cur \in [Chan -> Nat]
  /\ sought \in [Procs -> Nat]
  /\ owed \in [Chan -> Seq(Nat)]
  /\ \A p \in Procs : PlaceOK(p)

(* A channel that is not idle has its timer pending or its timeout handler *)
(* on the way: whatever the card, the readers and late handlers do, the    *)
(* channel cannot stay taken for ever (the del_timer and mod_timer calls   *)
(* of try_send_cmd, the readers and the interrupt handler).                *)
TimerGuardsChannel ==
  \A ch \in Chan : state[ch] # "IDLE" => timer[ch] \/ firing[ch]

(* No process sleeps on a condition that has come true: every path that    *)
(* changes dsp_state or mce_state also calls wake_up_interruptible.        *)
NoMissedWakeup ==
  \A p \in Procs : asleep[p] => Waiting(p) /\ ~WaitCond(p)

(* When no timer outruns the card or a reader, an idle channel has no      *)
(* answer on the way and a taken one at most one: the next reply cannot be *)
(* that of an older command.                                               *)
NoStaleAnswer ==
  \A ch \in Chan :
    /\ Len(owed[ch]) <= 1
    /\ owed[ch] # <<>> => state[ch] = "CMD_SENT"

(* When no timer outruns the card or a reader, a timer runs, or its handler *)
(* is on the way, only for the command that holds the channel, which the   *)
(* card will not answer any more: no timeout hits a later command.         *)
NoStaleTimeout ==
  \A ch \in Chan :
    /\ timer[ch] => state[ch] # "IDLE" /\ ~firing[ch]
    /\ firing[ch] => state[ch] = "CMD_SENT" /\ owed[ch] = <<>>

(* A reader is handed the reply of the command it sent. *)
OwnReply ==
  [][\A p \in Procs : Collect(p) =>
       LET ch == ReplyChan(call[p].op) IN reply[ch] = want[p][ch]]_vars

(* The card executes the MCE command whose sender holds the channel, not   *)
(* one that another caller has copied over it in the shared buffer: so it  *)
(* is with one sender of MCE commands, and not with two, since the buffer  *)
(* is filled before the channel is taken (no run checks this one).         *)
CardReadsPosted == [][FetchMce => cmdBuf = cur["mce"]]_vars

(* try_get_reply: "If dsp_state goes idle, returns -ENODATA to indicate    *)
(* that no reply is forthcoming": a reader that slept through the end of   *)
(* the command it waited for does not come back with a later one's reply.  *)
IdleEndsWait ==
  [][\A p \in Procs : Collect(p) =>
       sought[p] \in {0, cur[ReplyChan(call[p].op)]}]_vars

(* Every channel becomes idle again, and every ioctl returns, though the   *)
(* card may never answer: timers and wake-ups are enough.                  *)
NothingStuck ==
  /\ \A ch \in Chan : state[ch] # "IDLE" ~> state[ch] = "IDLE"
  /\ \A p \in Procs : pc[p] # "user" ~> pc[p] = "user"
=============================================================================
