-------------------------- MODULE McedspCmd_proofs --------------------------
(* Theorems about McedspCmd, for any number of processes, any ioctls and   *)
(* any bound.                                                              *)
EXTENDS McedspCmd, SequenceTheorems, TLAPS

(* The flags of a command, as far as types are concerned. *)
LEMMA FlagTypes ==
  ASSUME NEW op
  PROVE  /\ Needs(op) \subseteq Chan /\ Needs(op) # {} /\ "dsp" \in Needs(op)
         /\ Expects(op) \subseteq Needs(op)
         /\ ReplyChan(op) \in Chan
BY DEF Needs, Expects, ReplyChan, Chan

LEMMA OwedTypes ==
  ASSUME NEW s \in Seq(Nat)
  PROVE  /\ \A n \in Nat : Append(s, n) \in Seq(Nat)
         /\ s # <<>> => Tail(s) \in Seq(Nat) /\ Head(s) \in Nat
         /\ \A i \in 1..Len(s), n \in Nat : [s EXCEPT ![i] = n] \in Seq(Nat)
<1>1. \A n \in Nat : Append(s, n) \in Seq(Nat)
  OBVIOUS
<1>2. s # <<>> => Tail(s) \in Seq(Nat) /\ Head(s) \in Nat
  OBVIOUS
<1>3. ASSUME NEW i \in 1..Len(s), NEW n \in Nat
      PROVE  [s EXCEPT ![i] = n] \in Seq(Nat)
  BY ExceptSeq
<1> QED
  BY <1>1, <1>2, <1>3

-----------------------------------------------------------------------------
(* Type correctness. *)

LEMMA PlaceUnchanged ==
  ASSUME TypeOK, UNCHANGED <<pc, call>>
  PROVE  \A q \in Procs : PlaceOK(q)'
BY DEF TypeOK, PlaceOK

LEMMA LeaveTypes ==
  ASSUME TypeOK, NEW p \in Procs, Leave(p)
  PROVE  /\ pc' \in [Procs -> {"user", "handshake", "send", "sendWait", "get",
                               "getCheck", "getWait"}]
         /\ call' \in [Procs -> [op : SendOp \cup GetOp, nonblock : BOOLEAN, id : Nat]]
         /\ last' \in [Procs -> [Chan -> ChanState]]
         /\ sought' \in [Procs -> Nat]
         /\ \A q \in Procs : PlaceOK(q)'
<1>1. /\ pc' \in [Procs -> {"user", "handshake", "send", "sendWait", "get",
                               "getCheck", "getWait"}]
      /\ call' \in [Procs -> [op : SendOp \cup GetOp, nonblock : BOOLEAN, id : Nat]]
      /\ last' \in [Procs -> [Chan -> ChanState]]
      /\ sought' \in [Procs -> Nat]
  BY DEF Leave, TypeOK, NoCall, AllIdle, ChanState, SendOp
<1>2. pc'[p] = "user" /\ \A q \in Procs \ {p} : pc'[q] = pc[q] /\ call'[q] = call[q]
  BY DEF Leave, TypeOK
<1>3. \A q \in Procs : PlaceOK(q)'
  BY <1>2 DEF TypeOK, PlaceOK
<1> QED
  BY <1>1, <1>3

LEMMA WantTypes ==
  ASSUME TypeOK, NEW p \in Procs, NEW ch \in Chan, NEW n \in Nat
  PROVE  [want EXCEPT ![p][ch] = n] \in [Procs -> [Chan -> Nat]]
BY DEF TypeOK

LEMMA FailTypes ==
  ASSUME TypeOK, NEW p \in Procs, FailSend(p) \/ (FailGet(p) /\ UNCHANGED want)
  PROVE  Leave(p) /\ enabled' \in BOOLEAN /\ want' \in [Procs -> [Chan -> Nat]]
<1>1. Leave(p) /\ enabled' \in BOOLEAN
  BY DEF FailSend, FailGet
<1>2. call[p].id \in Nat
  BY DEF TypeOK
<1>3. want' \in [Procs -> [Chan -> Nat]]
  <2>1. want \in [Procs -> [Chan -> Nat]] /\ "dsp" \in Chan
    BY DEF TypeOK, Chan
  <2>2. [want EXCEPT ![p]["dsp"] = call[p].id] \in [Procs -> [Chan -> Nat]]
    BY <1>2, <2>1, WantTypes
  <2>3. want' = want \/ want' = [want EXCEPT ![p]["dsp"] = call[p].id]
    BY DEF FailSend
  <2> QED
    BY <2>1, <2>2, <2>3
<1> QED
  BY <1>1, <1>3

(* A send changes the channels, and nothing that belongs to a process but  *)
(* its sleep.                                                              *)
LEMMA SendTypes ==
  ASSUME TypeOK, NEW op, NEW id \in Nat, SendOK(op, id) \/ SendFail(op, id)
  PROVE  /\ state' \in [Chan -> ChanState]
         /\ timer' \in [Chan -> BOOLEAN]
         /\ ignore' \in BOOLEAN
         /\ cur' \in [Chan -> Nat]
         /\ owed' \in [Chan -> Seq(Nat)]
         /\ asleep' \in [Procs -> BOOLEAN]
<1>1. CASE SendOK(op, id)
  <2>1. \A ch \in Chan : (IF ch \notin Expects(op) THEN owed[ch]
                ELSE Append(owed[ch], IF ch = "mce" THEN 0 ELSE id)) \in Seq(Nat)
    BY OwedTypes DEF TypeOK
  <2> QED
    BY <1>1, <2>1 DEF SendOK, TypeOK, ChanState, WakeAll, Ignores
<1>2. CASE SendFail(op, id)
  <2>1. Append(owed["dsp"], id) \in Seq(Nat)
    BY OwedTypes DEF TypeOK, Chan
  <2>2. owed' \in [Chan -> Seq(Nat)]
    BY <1>2, <2>1 DEF SendFail, TypeOK, Chan
  <2>3. state' \in [Chan -> ChanState]
    BY <1>2 DEF SendFail, TypeOK, ChanState
  <2>4. asleep' \in [Procs -> BOOLEAN]
    BY <1>2 DEF SendFail, WakeAll
  <2> QED
    BY <1>2, <2>2, <2>3, <2>4 DEF SendFail, TypeOK
<1> QED
  BY <1>1, <1>2

LEMMA TypeInit == Init => TypeOK
<1> SUFFICES ASSUME Init PROVE TypeOK
  OBVIOUS
<1>1. /\ Nothing \in [Chan -> Nat]
      /\ AllIdle \in [Chan -> ChanState]
      /\ NoCall \in [op : SendOp \cup GetOp, nonblock : BOOLEAN, id : Nat]
      /\ [ch \in Chan |-> <<>>] \in [Chan -> Seq(Nat)]
  BY DEF Nothing, AllIdle, NoCall, ChanState, SendOp
<1>2. \A p \in Procs : PlaceOK(p)
  BY DEF Init, PlaceOK
<1> QED
  BY <1>1, <1>2 DEF Init, TypeOK, ChanState

(* What the interrupt handler does to the channels. *)
LEMMA ReplyTypes ==
  ASSUME TypeOK, NEW ch \in Chan, NEW id \in Nat, Unexpected(ch) \/ Record(ch, id)
  PROVE  /\ state' \in [Chan -> ChanState] /\ timer' \in [Chan -> BOOLEAN]
         /\ reply' \in [Chan -> Nat]
<1>1. /\ state \in [Chan -> ChanState] /\ timer \in [Chan -> BOOLEAN]
      /\ reply \in [Chan -> Nat]
  BY DEF TypeOK
<1>2. CASE Unexpected(ch)
  BY <1>1, <1>2 DEF Unexpected, ChanState
<1>3. CASE Record(ch, id)
  BY <1>1, <1>3 DEF Record, ChanState
<1> QED
  BY <1>2, <1>3

LEMMA TypeNext == TypeOK /\ [Next]_vars => TypeOK'
<1> SUFFICES ASSUME TypeOK, [Next]_vars PROVE TypeOK'
  OBVIOUS
<1>1. ASSUME NEW p \in Procs, BeginCommand(p) \/ BeginMceCommand(p)
                             \/ BeginSetNFrames(p) \/ BeginReset(p)
      PROVE  TypeOK'
  <2>1. [ch \in Chan |-> <<>>] \in [Chan -> Seq(Nat)]
    OBVIOUS
  <2>2. PICK op \in SendOp, nb \in BOOLEAN, next \in {"send", "handshake"} :
          /\ BeginSend(p, op, nb, next)
          /\ next = "handshake" => op = "RESET_DSP"
    BY <1>1 DEF BeginCommand, BeginMceCommand, BeginSetNFrames, BeginReset, SendOp
  <2>3. /\ enabled' = enabled
        /\ cmdBuf' \in {cmdBuf, calls + 1}
        /\ owed' \in {owed, [ch \in Chan |-> <<>>]}
    BY <1>1 DEF BeginCommand, BeginMceCommand, BeginSetNFrames, BeginReset
  <2>4. \A q \in Procs : PlaceOK(q)'
    BY <2>2 DEF BeginSend, TypeOK, PlaceOK
  <2>5. calls + 1 \in Nat
    BY DEF TypeOK
  <2>6. /\ call' \in [Procs -> [op : SendOp \cup GetOp, nonblock : BOOLEAN, id : Nat]]
        /\ pc' \in [Procs -> {"user", "handshake", "send", "sendWait", "get",
                               "getCheck", "getWait"}]
    BY <2>2, <2>5 DEF BeginSend, TypeOK
  <2>7. owed' \in [Chan -> Seq(Nat)] /\ cmdBuf' \in Nat /\ enabled' \in BOOLEAN
    BY <2>1, <2>3, <2>5 DEF TypeOK
  <2> QED
    BY <2>2, <2>4, <2>5, <2>6, <2>7 DEF BeginSend, TypeOK
<1>2. ASSUME NEW p \in Procs, BeginGet(p) PROVE TypeOK'
  <2>1. \A q \in Procs : PlaceOK(q)'
    BY <1>2 DEF BeginGet, TypeOK, PlaceOK
  <2> QED
    BY <1>2, <2>1 DEF BeginGet, TypeOK, driver
<1>3. ASSUME NEW p \in Procs, Handshake(p) PROVE TypeOK'
  <2>1. CASE Leave(p)
    BY <1>3, <2>1, LeaveTypes DEF Handshake, TypeOK
  <2>2. CASE pc' = [pc EXCEPT ![p] = "send"] /\ UNCHANGED <<call, last, sought>>
    <3>1. \A q \in Procs : PlaceOK(q)'
      BY <1>3, <2>2 DEF Handshake, TypeOK, PlaceOK, SendOp
    <3> QED
      BY <1>3, <2>2, <3>1 DEF Handshake, TypeOK
  <2> QED
    BY <1>3, <2>1, <2>2 DEF Handshake
<1>4. ASSUME NEW p \in Procs, SendBusy(p) PROVE TypeOK'
  <2>1. CASE FailSend(p)
    BY <1>4, <2>1, LeaveTypes, FailTypes DEF SendBusy, TypeOK
  <2>2. CASE /\ pc' = [pc EXCEPT ![p] = "sendWait"]
             /\ last' = [last EXCEPT ![p] = [ch \in Chan |->
                        IF ch \in Needs(call[p].op) THEN state[ch] ELSE @[ch]]]
             /\ UNCHANGED <<enabled, want, call, sought>>
    <3>1. \A q \in Procs : PlaceOK(q)'
      BY <1>4, <2>2 DEF SendBusy, TypeOK, PlaceOK
    <3>2. last' \in [Procs -> [Chan -> ChanState]]
      BY <2>2 DEF TypeOK
    <3> QED
      BY <1>4, <2>2, <3>1, <3>2 DEF SendBusy, TypeOK
  <2> QED
    BY <1>4, <2>1, <2>2 DEF SendBusy
<1>5. ASSUME NEW p \in Procs, Send(p) PROVE TypeOK'
  <2>0. call[p].op \in SendOp /\ call[p].id \in Nat
    BY <1>5 DEF Send, TypeOK, PlaceOK
  <2>1. /\ state' \in [Chan -> ChanState] /\ timer' \in [Chan -> BOOLEAN]
        /\ ignore' \in BOOLEAN /\ cur' \in [Chan -> Nat]
        /\ owed' \in [Chan -> Seq(Nat)] /\ asleep' \in [Procs -> BOOLEAN]
    BY <1>5, <2>0, SendTypes DEF Send
  <2>2. CASE /\ SendFail(call[p].op, call[p].id) /\ FailSend(p)
    BY <1>5, <2>1, <2>2, LeaveTypes, FailTypes DEF Send, TypeOK
  <2>3. CASE /\ want' = IF Answered(call[p].op)
                   THEN [want EXCEPT ![p][ReplyChan(call[p].op)] = call[p].id]
                   ELSE want
             /\ IF Collects(call[p].op)
                THEN /\ pc' = [pc EXCEPT ![p] = "get"]
                     /\ UNCHANGED <<call, last, sought>>
                ELSE Leave(p)
             /\ UNCHANGED enabled
    <3>1. want' \in [Procs -> [Chan -> Nat]]
      BY <2>0, <2>3, WantTypes, FlagTypes DEF TypeOK
    <3>2. CASE Leave(p)
      BY <1>5, <2>1, <2>3, <3>1, <3>2, LeaveTypes DEF Send, TypeOK
    <3>3. CASE /\ Collects(call[p].op)
               /\ pc' = [pc EXCEPT ![p] = "get"]
               /\ UNCHANGED <<call, last, sought>>
      <4>1. \A q \in Procs : PlaceOK(q)'
        BY <3>3 DEF TypeOK, PlaceOK, Collects
      <4> QED
        BY <1>5, <2>1, <2>3, <3>1, <3>3, <4>1 DEF Send, TypeOK
    <3> QED
      BY <2>3, <3>2, <3>3
  <2> QED
    BY <1>5, <2>2, <2>3 DEF Send
<1>6. ASSUME NEW p \in Procs, Wait(p) PROVE TypeOK'
  <2>1. \A q \in Procs : PlaceOK(q)'
    BY <1>6 DEF Wait, Waiting, TypeOK, PlaceOK
  <2> QED
    BY <1>6, <2>1 DEF Wait, TypeOK
<1>7. ASSUME NEW p \in Procs, Signal(p) PROVE TypeOK'
  <2>1. Leave(p) /\ enabled' \in BOOLEAN /\ want' \in [Procs -> [Chan -> Nat]]
    BY <1>7, FailTypes DEF Signal
  <2> QED
    BY <1>7, <2>1, LeaveTypes DEF Signal, TypeOK
<1>8. ASSUME NEW p \in Procs, Collect(p) PROVE TypeOK'
  <2>1. Leave(p)
    BY <1>8 DEF Collect
  <2>2. state' \in [Chan -> ChanState] /\ timer' \in [Chan -> BOOLEAN]
    BY <1>8 DEF Collect, DelTimer, TypeOK, ChanState
  <2>3. want' \in [Procs -> [Chan -> Nat]]
    BY <1>8, WantTypes, FlagTypes DEF Collect
  <2>4. asleep' \in [Procs -> BOOLEAN]
    BY <1>8 DEF Collect, DelTimer, WakeAll
  <2> QED
    BY <1>8, <2>1, <2>2, <2>3, <2>4, LeaveTypes DEF Collect, DelTimer, TypeOK
<1>9. ASSUME NEW p \in Procs, NEW ch \in Chan, NEW seen \in ChanState,
             NoReply(p, ch, seen),
             call[p].op \in GetOp \cup {"SET_DATASIZE", "RESET_DSP"},
             UNCHANGED <<state, ignore, reply, timer, firing, cmdBuf, asleep,
                         calls, cur, owed>>
      PROVE  TypeOK'
  <2>1. CASE FailGet(p) /\ want' \in {want, [want EXCEPT ![p][ch] = 0]}
    <3>1. want' \in [Procs -> [Chan -> Nat]] /\ Leave(p) /\ enabled' \in BOOLEAN
      <4>1. want \in [Procs -> [Chan -> Nat]] /\ enabled \in BOOLEAN
        BY DEF TypeOK
      <4>2. [want EXCEPT ![p][ch] = 0] \in [Procs -> [Chan -> Nat]]
        BY WantTypes
      <4> QED
        BY <2>1, <4>1, <4>2 DEF FailGet
    <3> QED
      BY <1>9, <3>1, LeaveTypes DEF TypeOK
  <2>2. CASE /\ pc' = [pc EXCEPT ![p] = "getWait"]
             /\ last' = [last EXCEPT ![p][ch] = seen]
             /\ sought' = [sought EXCEPT ![p] = IF @ = 0 THEN cur[ch] ELSE @]
             /\ UNCHANGED <<enabled, call, want>>
    <3>1. \A q \in Procs : PlaceOK(q)'
      BY <1>9, <2>2 DEF TypeOK, PlaceOK
    <3>2. last' \in [Procs -> [Chan -> ChanState]] /\ sought' \in [Procs -> Nat]
      BY <1>9, <2>2 DEF TypeOK
    <3> QED
      BY <1>9, <2>2, <3>1, <3>2 DEF TypeOK
  <2> QED
    BY <1>9, <2>1, <2>2 DEF NoReply
<1>10. ASSUME NEW p \in Procs, GetLook(p) PROVE TypeOK'
  <2> DEFINE ch == ReplyChan(call[p].op)
  <2>1. call[p].op \in GetOp \cup {"SET_DATASIZE", "RESET_DSP"} /\ ch \in Chan
    BY <1>10, FlagTypes DEF GetLook, TypeOK, PlaceOK
  <2>2. state[ch] \in ChanState
    BY <2>1 DEF TypeOK
  <2>3. CASE NoReply(p, ch, state[ch])
    BY <1>9, <1>10, <2>1, <2>2, <2>3 DEF GetLook
  <2>4. CASE /\ ch # "dsp"
             /\ pc' = [pc EXCEPT ![p] = "getCheck"]
             /\ last' = [last EXCEPT ![p][ch] = state[ch]]
             /\ UNCHANGED <<enabled, call, want, sought>>
    <3>1. call[p].op = "GET_MCE_REPLY"
      BY <2>1, <2>4 DEF ReplyChan, GetOp
    <3>2. \A q \in Procs : PlaceOK(q)'
      BY <2>4, <3>1 DEF TypeOK, PlaceOK
    <3>3. last' \in [Procs -> [Chan -> ChanState]]
      BY <2>1, <2>2, <2>4 DEF TypeOK
    <3> QED
      BY <1>10, <2>4, <3>2, <3>3 DEF GetLook, TypeOK
  <2> QED
    BY <1>10, <2>3, <2>4 DEF GetLook
<1>11. ASSUME NEW p \in Procs, GetRecheck(p) PROVE TypeOK'
  <2>1. call[p].op \in GetOp /\ last[p]["mce"] \in ChanState
    BY <1>11 DEF GetRecheck, TypeOK, PlaceOK, Chan, GetOp
  <2> QED
    BY <1>9, <1>11, <2>1 DEF GetRecheck, Chan
<1>12. CASE GrantTask
  <2>1. calls + 1 \in Nat
    BY DEF TypeOK
  <2> QED
    BY <1>12, <2>1, SendTypes, PlaceUnchanged DEF GrantTask, TypeOK
<1>13. CASE DspReply
  <2>1. owed' \in [Chan -> Seq(Nat)] /\ Head(owed["dsp"]) \in Nat
    BY <1>13, OwedTypes DEF DspReply, DelTimer, TypeOK, Chan
  <2>2. /\ state' \in [Chan -> ChanState] /\ timer' \in [Chan -> BOOLEAN]
        /\ reply' \in [Chan -> Nat]
    <3>1. CASE Unexpected("dsp") \/ Record("dsp", Head(owed["dsp"]))
      BY <2>1, <3>1, ReplyTypes DEF Chan
    <3>2. CASE /\ state' = [state EXCEPT !["dsp"] = "IDLE"]
               /\ DelTimer("dsp")
               /\ UNCHANGED reply
      BY <3>2 DEF DelTimer, TypeOK, ChanState
    <3> QED
      BY <1>13, <3>1, <3>2 DEF DspReply
  <2>3. asleep' \in [Procs -> BOOLEAN]
    BY <1>13 DEF DspReply, WakeAll
  <2> QED
    BY <1>13, <2>1, <2>2, <2>3, PlaceUnchanged DEF DspReply, TypeOK
<1>14. CASE MceReply
  <2>1. owed' \in [Chan -> Seq(Nat)] /\ Head(owed["mce"]) \in Nat
    BY <1>14, OwedTypes DEF MceReply, TypeOK, Chan
  <2>2. /\ state' \in [Chan -> ChanState] /\ timer' \in [Chan -> BOOLEAN]
        /\ reply' \in [Chan -> Nat]
    BY <1>14, <2>1, ReplyTypes DEF MceReply, Chan
  <2>3. asleep' \in [Procs -> BOOLEAN]
    BY <1>14 DEF MceReply, WakeAll
  <2> QED
    BY <1>14, <2>1, <2>2, <2>3, PlaceUnchanged DEF MceReply, TypeOK
<1>15. CASE FetchMce
  <2>1. owed' \in [Chan -> Seq(Nat)]
    BY <1>15, OwedTypes DEF FetchMce, TypeOK, Chan
  <2> QED
    BY <1>15, <2>1, PlaceUnchanged DEF FetchMce, TypeOK, driver, procs
<1>16. ASSUME NEW ch \in Chan, Lose(ch) PROVE TypeOK'
  <2>1. owed' \in [Chan -> Seq(Nat)]
    BY <1>16, OwedTypes DEF Lose, TypeOK
  <2> QED
    BY <1>16, <2>1, PlaceUnchanged DEF Lose, TypeOK, driver, procs
<1>17. ASSUME NEW ch \in Chan, Expire(ch) PROVE TypeOK'
  BY <1>17, PlaceUnchanged DEF Expire, TypeOK, procs
<1>18. ASSUME NEW ch \in Chan, Timeout(ch) PROVE TypeOK'
  <2>1. state' \in [Chan -> ChanState]
    BY <1>18 DEF Timeout, TypeOK, ChanState
  <2>2. asleep' \in [Procs -> BOOLEAN]
    BY <1>18 DEF Timeout, TypeOK, WakeAll
  <2>3. firing' \in [Chan -> BOOLEAN]
    BY <1>18 DEF Timeout, TypeOK
  <2> QED
    BY <1>18, <2>1, <2>2, <2>3, PlaceUnchanged DEF Timeout, TypeOK
<1>19. CASE UNCHANGED vars
  BY <1>19, PlaceUnchanged DEF vars, TypeOK
<1> QED
  BY <1>1, <1>2, <1>3, <1>4, <1>5, <1>6, <1>7, <1>8, <1>10, <1>11, <1>12, <1>13,
     <1>14, <1>15, <1>16, <1>17, <1>18, <1>19 DEF Next, Begin, Step, Card

(* TypeOK holds in every reachable state. *)
THEOREM TypeCorrect == Spec => []TypeOK
BY TypeInit, TypeNext, PTL DEF Spec

-----------------------------------------------------------------------------
(* A taken channel always has a timer or a timeout handler behind it.      *)

(* Steps that touch neither the channels nor their timers. *)
LEMMA SameTimers ==
  ASSUME TimerGuardsChannel, UNCHANGED <<state, timer, firing>>
  PROVE  TimerGuardsChannel'
BY DEF TimerGuardsChannel

LEMMA SendTimers ==
  ASSUME TypeOK, TimerGuardsChannel, NEW op, NEW id, UNCHANGED firing,
         SendOK(op, id) \/ SendFail(op, id)
  PROVE  TimerGuardsChannel'
<1>1. CASE SendOK(op, id)
  BY <1>1 DEF SendOK, TimerGuardsChannel, TypeOK
<1>2. CASE SendFail(op, id)
  BY <1>2 DEF SendFail, TimerGuardsChannel, TypeOK
<1> QED
  BY <1>1, <1>2

LEMMA TimerNext == TypeOK /\ TimerGuardsChannel /\ [Next]_vars => TimerGuardsChannel'
<1> SUFFICES ASSUME TypeOK, TimerGuardsChannel, [Next]_vars
             PROVE  TimerGuardsChannel'
  OBVIOUS
<1>1. ASSUME NEW p \in Procs, Begin(p) \/ Signal(p) PROVE TimerGuardsChannel'
  BY <1>1, SameTimers DEF Begin, BeginCommand, BeginMceCommand, BeginSetNFrames,
     BeginReset, BeginSend, BeginGet, Signal, driver
<1>2. ASSUME NEW p \in Procs, Handshake(p) \/ SendBusy(p) \/ Wait(p)
                              \/ GetLook(p) \/ GetRecheck(p)
      PROVE  TimerGuardsChannel'
  BY <1>2, SameTimers DEF Handshake, SendBusy, Wait, GetLook, GetRecheck
<1>3. ASSUME NEW p \in Procs, Send(p) PROVE TimerGuardsChannel'
  BY <1>3, SendTimers DEF Send
<1>4. ASSUME NEW p \in Procs, Collect(p) PROVE TimerGuardsChannel'
  BY <1>4, FlagTypes DEF Collect, DelTimer, TimerGuardsChannel, TypeOK
<1>5. CASE GrantTask
  BY <1>5, SendTimers DEF GrantTask
<1>6. CASE DspReply
  BY <1>6 DEF DspReply, DelTimer, Unexpected, Record, TimerGuardsChannel, TypeOK, Chan
<1>7. CASE MceReply
  BY <1>7 DEF MceReply, Unexpected, Record, TimerGuardsChannel, TypeOK, Chan
<1>8. CASE FetchMce \/ \E ch \in Chan : Lose(ch)
  BY <1>8, SameTimers DEF FetchMce, Lose, driver
<1>9. ASSUME NEW ch \in Chan, Expire(ch) \/ Timeout(ch) PROVE TimerGuardsChannel'
  <2>1. /\ state \in [Chan -> ChanState]
        /\ timer \in [Chan -> BOOLEAN] /\ firing \in [Chan -> BOOLEAN]
    BY DEF TypeOK
  <2>2. CASE Expire(ch)
    BY <2>1, <2>2 DEF Expire, TimerGuardsChannel
  <2>3. CASE Timeout(ch)
    BY <2>1, <2>3 DEF Timeout, TimerGuardsChannel
  <2> QED
    BY <1>9, <2>2, <2>3
<1>10. CASE UNCHANGED vars
  BY <1>10, SameTimers DEF vars
<1> QED
  BY <1>1, <1>2, <1>3, <1>4, <1>5, <1>6, <1>7, <1>8, <1>9, <1>10
     DEF Next, Step, Card

(* Whatever processes, card and timers do, a channel that is taken will be *)
(* released: its timer is pending or the timeout handler is on its way     *)
(* (try_send_cmd, try_get_reply, the interrupt and timeout handlers).      *)
THEOREM TimerGuards == Spec => []TimerGuardsChannel
<1>1. Init => TimerGuardsChannel
  BY DEF Init, TimerGuardsChannel
<1> QED
  BY <1>1, TimerNext, TypeCorrect, PTL DEF Spec

-----------------------------------------------------------------------------
(* No wake-up is missed. *)

(* A step that wakes everybody leaves nobody asleep. *)
LEMMA AllAwake ==
  ASSUME WakeAll
  PROVE  NoMissedWakeup'
BY DEF WakeAll, NoMissedWakeup

(* A step of an awake process that leaves the channels alone. *)
LEMMA OwnStep ==
  ASSUME NoMissedWakeup, NEW p \in Procs, asleep'[p] = FALSE, state' = state,
         \A q \in Procs \ {p} : /\ asleep'[q] = asleep[q] /\ pc'[q] = pc[q]
                                /\ call'[q] = call[q] /\ last'[q] = last[q]
  PROVE  NoMissedWakeup'
BY DEF NoMissedWakeup, Waiting, WaitCond

LEMMA SameSleep ==
  ASSUME NoMissedWakeup, UNCHANGED <<state, asleep, pc, call, last>>
  PROVE  NoMissedWakeup'
BY DEF NoMissedWakeup, Waiting, WaitCond

LEMMA WakeNext == TypeOK /\ NoMissedWakeup /\ [Next]_vars => NoMissedWakeup'
<1> SUFFICES ASSUME TypeOK, NoMissedWakeup, [Next]_vars PROVE NoMissedWakeup'
  OBVIOUS
<1>0. \A p \in Procs : pc[p] \notin {"sendWait", "getWait"} => asleep[p] = FALSE
  BY DEF NoMissedWakeup, Waiting, TypeOK
<1>1. ASSUME NEW p \in Procs, Begin(p) PROVE NoMissedWakeup'
  <2>1. pc[p] = "user" /\ UNCHANGED <<state, asleep, last>>
    BY <1>1 DEF Begin, BeginCommand, BeginMceCommand, BeginSetNFrames, BeginReset,
       BeginSend, BeginGet, driver
  <2>2. \A q \in Procs \ {p} : pc'[q] = pc[q] /\ call'[q] = call[q]
    BY <1>1 DEF Begin, BeginCommand, BeginMceCommand, BeginSetNFrames, BeginReset,
       BeginSend, BeginGet, TypeOK
  <2> QED
    BY <1>0, <2>1, <2>2, OwnStep
<1>2. ASSUME NEW p \in Procs, Handshake(p) \/ SendBusy(p) \/ GetLook(p) \/ GetRecheck(p)
      PROVE  NoMissedWakeup'
  <2>1. /\ pc[p] \in {"handshake", "send", "get", "getCheck"}
        /\ UNCHANGED <<state, asleep>>
    BY <1>2 DEF Handshake, SendBusy, GetLook, GetRecheck
  <2>2. \A q \in Procs \ {p} : /\ pc'[q] = pc[q] /\ call'[q] = call[q]
                               /\ last'[q] = last[q]
    BY <1>2 DEF Handshake, SendBusy, GetLook, GetRecheck, NoReply, FailSend, FailGet,
       Leave, TypeOK
  <2> QED
    BY <1>0, <2>1, <2>2, OwnStep
<1>3. ASSUME NEW p \in Procs, Send(p) \/ Collect(p) PROVE NoMissedWakeup'
  BY <1>3, AllAwake DEF Send, SendOK, SendFail, Collect
<1>4. ASSUME NEW p \in Procs, Wait(p) PROVE NoMissedWakeup'
  <2>1. CASE WaitCond(p)
    <3>1. UNCHANGED <<state, asleep, call, last>> /\ asleep[p] = FALSE
      BY <1>4, <2>1 DEF Wait, TypeOK
    <3>2. \A q \in Procs \ {p} : pc'[q] = pc[q]
      BY <1>4, <2>1 DEF Wait, TypeOK
    <3> QED
      BY <3>1, <3>2, OwnStep
  <2>2. CASE ~WaitCond(p)
    <3>1. UNCHANGED <<state, pc, call, last>> /\ Waiting(p)
      BY <1>4, <2>2 DEF Wait
    <3>2. \A q \in Procs \ {p} : asleep'[q] = asleep[q]
      BY <1>4, <2>2 DEF Wait, TypeOK
    <3>3. Waiting(p)' /\ ~WaitCond(p)'
      BY <2>2, <3>1 DEF Waiting, WaitCond
    <3>4. ASSUME NEW q \in Procs \ {p}, asleep'[q] PROVE Waiting(q)' /\ ~WaitCond(q)'
      BY <3>1, <3>2, <3>4 DEF NoMissedWakeup, Waiting, WaitCond
    <3> QED
      BY <3>3, <3>4 DEF NoMissedWakeup
  <2> QED
    BY <2>1, <2>2
<1>5. ASSUME NEW p \in Procs, Signal(p) PROVE NoMissedWakeup'
  <2>1. state' = state /\ asleep'[p] = FALSE
    BY <1>5 DEF Signal, TypeOK
  <2>2. \A q \in Procs \ {p} : /\ asleep'[q] = asleep[q] /\ pc'[q] = pc[q]
                               /\ call'[q] = call[q] /\ last'[q] = last[q]
    BY <1>5 DEF Signal, FailSend, FailGet, Leave, TypeOK
  <2> QED
    BY <2>1, <2>2, OwnStep
<1>6. CASE GrantTask \/ DspReply \/ MceReply
  BY <1>6, AllAwake DEF GrantTask, SendOK, SendFail, DspReply, MceReply
<1>7. CASE FetchMce \/ \E ch \in Chan : Lose(ch) \/ Expire(ch)
  BY <1>7, SameSleep DEF FetchMce, Lose, Expire, driver, procs
<1>8. ASSUME NEW ch \in Chan, Timeout(ch) PROVE NoMissedWakeup'
  BY <1>8, AllAwake, SameSleep DEF Timeout
<1>9. CASE UNCHANGED vars
  BY <1>9, SameSleep DEF vars
<1> QED
  BY <1>1, <1>2, <1>3, <1>4, <1>5, <1>6, <1>7, <1>8, <1>9 DEF Next, Step, Card

(* No process sleeps in wait_event_interruptible on a condition that is    *)
(* already true: a wake-up goes with every change of dsp_state, mce_state. *)
THEOREM WakeUps == Spec => []NoMissedWakeup
<1>1. Init => NoMissedWakeup
  BY DEF Init, NoMissedWakeup
<1> QED
  BY <1>1, WakeNext, TypeCorrect, PTL DEF Spec

-----------------------------------------------------------------------------
(* Replies and timeouts reach the command they belong to, as long as no    *)
(* timer outruns the card or a reader and no command is torn.  Answers may *)
(* still be lost.                                                          *)
TimelyCard == Faults \cap {"late", "slow", "torn"} = {}
Fresh == NoStaleAnswer /\ NoStaleTimeout

LEMMA SameFresh ==
  ASSUME Fresh, UNCHANGED <<state, timer, firing, owed>>
  PROVE  Fresh'
BY DEF Fresh, NoStaleAnswer, NoStaleTimeout

LEMMA FreshIdle ==
  ASSUME TypeOK, Fresh, NEW ch \in Chan, state[ch] = "IDLE"
  PROVE  owed[ch] = <<>> /\ ~timer[ch] /\ ~firing[ch]
BY DEF Fresh, NoStaleAnswer, NoStaleTimeout, TypeOK

LEMMA AppendEmpty ==
  ASSUME NEW n \in Nat
  PROVE  Len(Append(<<>>, n)) = 1 /\ Append(<<>>, n) # <<>>
OBVIOUS

LEMMA TailShort ==
  ASSUME NEW s \in Seq(Nat), s # <<>>, Len(s) <= 1
  PROVE  Tail(s) = <<>>
OBVIOUS

LEMMA SendFresh ==
  ASSUME TimelyCard, TypeOK, Fresh, NEW op, NEW id \in Nat, UNCHANGED firing,
         \A ch \in Needs(op) : state[ch] = "IDLE",
         SendOK(op, id) \/ SendFail(op, id)
  PROVE  Fresh'
<1>1. CASE SendOK(op, id)
  <2>1. ASSUME NEW ch \in Chan, ch \in Expects(op)
        PROVE  /\ state'[ch] = "CMD_SENT" /\ timer'[ch] /\ ~firing'[ch]
               /\ Len(owed'[ch]) = 1
    <3>1. owed[ch] = <<>> /\ ~firing[ch]
      BY <2>1, FlagTypes, FreshIdle
    <3>2. Len(owed'[ch]) = 1
      BY <1>1, <2>1, <3>1, AppendEmpty DEF SendOK
    <3> QED
      BY <1>1, <2>1, <3>1, <3>2 DEF SendOK
  <2>2. ASSUME NEW ch \in Chan, ch \notin Expects(op)
        PROVE  state'[ch] = state[ch] /\ timer'[ch] = timer[ch] /\ owed'[ch] = owed[ch]
    BY <1>1, <2>2 DEF SendOK, TypeOK
  <2> DEFINE OK(ch) ==
           /\ Len(owed'[ch]) <= 1
           /\ owed'[ch] # <<>> => state'[ch] = "CMD_SENT"
           /\ timer'[ch] => state'[ch] # "IDLE" /\ ~firing'[ch]
           /\ firing'[ch] => state'[ch] = "CMD_SENT" /\ owed'[ch] = <<>>
  <2>3. ASSUME NEW ch \in Chan PROVE OK(ch)
    <3>1. CASE ch \in Expects(op)
      <4>1. state'[ch] = "CMD_SENT" /\ timer'[ch] /\ ~firing'[ch] /\ Len(owed'[ch]) = 1
        BY <2>1, <3>1
      <4>2. Len(owed'[ch]) <= 1
        BY <4>1
      <4> QED
        BY <4>1, <4>2, Zenon
    <3>2. CASE ch \notin Expects(op)
      BY <2>2, <3>2 DEF Fresh, NoStaleAnswer, NoStaleTimeout
    <3> QED
      BY <3>1, <3>2
  <2> QED
    BY <2>3 DEF Fresh, NoStaleAnswer, NoStaleTimeout
<1>2. CASE SendFail(op, id)
  <2>1. owed' = owed /\ UNCHANGED timer
    BY <1>2 DEF SendFail, TimelyCard
  <2>2. state' = state
    BY <1>2, FlagTypes DEF SendFail, TypeOK, Chan
  <2> QED
    BY <2>1, <2>2, SameFresh
<1> QED
  BY <1>1, <1>2

LEMMA FreshNext == TimelyCard /\ TypeOK /\ Fresh /\ [Next]_vars => Fresh'
<1> SUFFICES ASSUME TimelyCard, TypeOK, Fresh, [Next]_vars PROVE Fresh'
  OBVIOUS
<1>1. ASSUME NEW p \in Procs, Begin(p) PROVE Fresh'
  <2>1. UNCHANGED <<state, timer, firing>> /\ owed' \in {owed, [ch \in Chan |-> <<>>]}
    BY <1>1 DEF Begin, BeginCommand, BeginMceCommand, BeginSetNFrames, BeginReset,
       BeginSend, BeginGet, driver
  <2>2. \A ch \in Chan : owed'[ch] \in {owed[ch], <<>>}
    BY <2>1
  <2>3. Len(<<>>) <= 1
    OBVIOUS
  <2> QED
    BY <2>1, <2>2, <2>3 DEF Fresh, NoStaleAnswer, NoStaleTimeout
<1>2. ASSUME NEW p \in Procs, \/ Handshake(p) \/ SendBusy(p) \/ Wait(p) \/ GetLook(p)
                              \/ GetRecheck(p) \/ Signal(p)
      PROVE  Fresh'
  BY <1>2, SameFresh DEF Handshake, SendBusy, Wait, GetLook, GetRecheck, Signal
<1>3. ASSUME NEW p \in Procs, Send(p) PROVE Fresh'
  <2>1. call[p].id \in Nat
    BY DEF TypeOK
  <2> QED
    BY <1>3, <2>1, SendFresh DEF Send, Busy
<1>4. ASSUME NEW p \in Procs, Collect(p) PROVE Fresh'
  <2> DEFINE ch == ReplyChan(call[p].op)
  <2>1. ch \in Chan /\ state[ch] = "REP_RECD" /\ UNCHANGED <<firing, owed>>
        /\ state' = [state EXCEPT ![ch] = "IDLE"]
        /\ timer' = [timer EXCEPT ![ch] = FALSE]
    BY <1>4, FlagTypes DEF Collect, DelTimer
  <2>2. owed[ch] = <<>> /\ ~firing[ch]
    BY <2>1 DEF Fresh, NoStaleAnswer, NoStaleTimeout, TypeOK
  <2> QED
    BY <2>1, <2>2 DEF Fresh, NoStaleAnswer, NoStaleTimeout, TypeOK
<1>5. CASE GrantTask
  <2>1. calls + 1 \in Nat
    BY DEF TypeOK
  <2> QED
    BY <1>5, <2>1, SendFresh DEF GrantTask, Busy
<1>6. CASE DspReply
  <2>1. Tail(owed["dsp"]) = <<>> /\ state["dsp"] = "CMD_SENT" /\ ~firing["dsp"]
    BY <1>6, TailShort DEF DspReply, Fresh, NoStaleAnswer, NoStaleTimeout, TypeOK, Chan
  <2>2. owed' = [owed EXCEPT !["dsp"] = <<>>] /\ firing' = firing
    BY <1>6, <2>1 DEF DspReply
  <2>3. \/ /\ state' = [state EXCEPT !["dsp"] = "IDLE"]
           /\ timer' = [timer EXCEPT !["dsp"] = FALSE]
        \/ state' = [state EXCEPT !["dsp"] = "REP_RECD"] /\ timer' = timer
    BY <1>6, <2>1 DEF DspReply, DelTimer, Record
  <2>4. Len(<<>>) <= 1
    OBVIOUS
  <2> QED
    BY <2>1, <2>2, <2>3, <2>4 DEF Fresh, NoStaleAnswer, NoStaleTimeout, TypeOK, Chan
<1>7. CASE MceReply
  <2>1. Tail(owed["mce"]) = <<>> /\ state["mce"] = "CMD_SENT" /\ ~firing["mce"]
    BY <1>7, TailShort DEF MceReply, Fresh, NoStaleAnswer, NoStaleTimeout, TypeOK, Chan
  <2>2. owed' = [owed EXCEPT !["mce"] = <<>>] /\ UNCHANGED <<firing, timer>>
        /\ state' = [state EXCEPT !["mce"] = "REP_RECD"]
    BY <1>7, <2>1 DEF MceReply, Record
  <2>3. Len(<<>>) <= 1
    OBVIOUS
  <2> QED
    BY <2>1, <2>2, <2>3 DEF Fresh, NoStaleAnswer, NoStaleTimeout, TypeOK, Chan
<1>8. CASE FetchMce
  <2>1. PICK i \in 1..Len(owed["mce"]) : owed' = [owed EXCEPT !["mce"][i] = cmdBuf]
    BY <1>8 DEF FetchMce
  <2>2. owed["mce"] \in Seq(Nat) /\ cmdBuf \in Nat
    BY DEF TypeOK, Chan
  <2>3. [owed["mce"] EXCEPT ![i] = cmdBuf] \in Seq(Nat)
        /\ Len([owed["mce"] EXCEPT ![i] = cmdBuf]) = Len(owed["mce"])
    BY <2>2, ExceptSeq
  <2>4. \A ch \in Chan : Len(owed'[ch]) = Len(owed[ch]) /\ owed'[ch] \in Seq(Nat)
    BY <2>1, <2>3 DEF TypeOK
  <2>5. \A ch \in Chan : owed'[ch] = <<>> <=> owed[ch] = <<>>
    BY <2>4, EmptySeq DEF TypeOK
  <2> QED
    BY <1>8, <2>4, <2>5 DEF FetchMce, driver, Fresh, NoStaleAnswer, NoStaleTimeout
<1>9. ASSUME NEW ch \in Chan, Lose(ch) PROVE Fresh'
  <2>1. Tail(owed[ch]) = <<>> /\ owed' = [owed EXCEPT ![ch] = <<>>]
    BY <1>9, TailShort DEF Lose, Fresh, NoStaleAnswer, TypeOK
  <2>2. Len(<<>>) <= 1
    OBVIOUS
  <2> QED
    BY <1>9, <2>1, <2>2 DEF Lose, driver, Fresh, NoStaleAnswer, NoStaleTimeout, TypeOK
<1>10. ASSUME NEW ch \in Chan, Expire(ch) PROVE Fresh'
  <2>1. owed[ch] = <<>> /\ state[ch] = "CMD_SENT"
    BY <1>10 DEF Expire, TimelyCard, Fresh, NoStaleTimeout, TypeOK, ChanState
  <2> QED
    BY <1>10, <2>1 DEF Expire, Fresh, NoStaleAnswer, NoStaleTimeout, TypeOK
<1>11. ASSUME NEW ch \in Chan, Timeout(ch) PROVE Fresh'
  BY <1>11 DEF Timeout, Fresh, NoStaleAnswer, NoStaleTimeout, TypeOK
<1>12. CASE UNCHANGED vars
  BY <1>12, SameFresh DEF vars
<1> QED
  BY <1>1, <1>2, <1>3, <1>4, <1>5, <1>6, <1>7, <1>8, <1>9, <1>10, <1>11, <1>12
     DEF Next, Step, Card

LEMMA FreshInit == Init => Fresh
<1>1. Len(<<>>) <= 1
  OBVIOUS
<1> QED
  BY <1>1 DEF Init, Fresh, NoStaleAnswer, NoStaleTimeout, Chan

(* With a card that is on time, however many commands and processes, an    *)
(* idle channel has no answer under way: the reply that comes next answers *)
(* the command that holds the channel.                                     *)
THEOREM Answers == ASSUME TimelyCard PROVE Spec => []NoStaleAnswer
<1>1. Fresh => NoStaleAnswer
  BY DEF Fresh
<1>2. TypeOK /\ Fresh /\ [Next]_vars => Fresh'
  BY FreshNext
<1> QED
  BY <1>1, <1>2, FreshInit, TypeCorrect, PTL DEF Spec

(* With a card that is on time, a timeout handler only ever ends the       *)
(* command its timer was set for (del_timer, which does not wait for a     *)
(* handler that runs, is enough).                                          *)
THEOREM Timeouts == ASSUME TimelyCard PROVE Spec => []NoStaleTimeout
<1>1. Fresh => NoStaleTimeout
  BY DEF Fresh
<1>2. TypeOK /\ Fresh /\ [Next]_vars => Fresh'
  BY FreshNext
<1> QED
  BY <1>1, <1>2, FreshInit, TypeCorrect, PTL DEF Spec

-----------------------------------------------------------------------------
(* A reply is collected by who sent the command, and the card reads the    *)
(* MCE command whose sender holds the channel, when nothing outruns the    *)
(* card and each channel has one reader.  Who else uses the DSP channel    *)
(* (grants, the commands that go with an MCE command or a frame count)     *)
(* lets the driver ignore the answer.                                      *)

(* The ioctls whose callers collect from a channel. *)
Reads(ch) == IF ch = "dsp"
             THEN {"COMMAND", "SET_DATASIZE", "RESET_DSP", "GET_DSP_REPLY"}
             ELSE {"MCE_COMMAND", "GET_MCE_REPLY"}

OneReader ==
  \A ch \in Chan, p, q \in Procs :
    Ops[p] \cap Reads(ch) # {} /\ Ops[q] \cap Reads(ch) # {} => p = q

Sending == {"handshake", "send", "sendWait"}

(* A process has collected what it asked for before it sends, and the MCE  *)
(* command in the shared buffer is that of the process that is sending one. *)
Callers ==
  \A p \in Procs :
    /\ pc[p] # "user" => call[p].op \in Ops[p]
    /\ pc[p] \in Sending => want[p] = Nothing /\ call[p].id # 0
    /\ pc[p] \in Sending /\ call[p].op = "MCE_COMMAND" => cmdBuf = call[p].id
    /\ \A ch \in Chan : want[p][ch] # 0 => Ops[p] \cap Reads(ch) # {}

(* A taken channel whose answer is not ignored is one somebody collects from. *)
Holders ==
  \A ch \in Chan :
    state[ch] # "IDLE" /\ (ch = "dsp" => ~ignore) =>
      cur[ch] # 0 /\ \E p \in Procs : want[p][ch] = cur[ch]

(* What the card owes, what it has answered and what it reads belong to    *)
(* the command that took the channel.                                      *)
Replies ==
  /\ \A ch \in Chan : state[ch] = "REP_RECD" => reply[ch] = cur[ch]
  /\ state["dsp"] = "REP_RECD" => ~ignore
  /\ owed["dsp"] # <<>> => owed["dsp"][1] = cur["dsp"]
  /\ owed["mce"] # <<>> => owed["mce"][1] \in {0, cur["mce"]}
  /\ state["mce"] # "IDLE" => cmdBuf = cur["mce"]

OwnInv == Callers /\ Holders /\ Replies

LEMMA OwnInit == Init => OwnInv
BY DEF Init, OwnInv, Callers, Holders, Replies, Sending, Nothing, Chan, NoCall

LEMMA WantIs ==
  ASSUME TypeOK, NEW p \in Procs, NEW ch \in Chan, NEW id \in Nat,
         want' = [want EXCEPT ![p][ch] = id]
  PROVE  /\ want'[p][ch] = id
         /\ \A q \in Procs, c \in Chan : q # p \/ c # ch => want'[q][c] = want[q][c]
         /\ \A q \in Procs : q # p => want'[q] = want[q]
BY DEF TypeOK

(* Steps that keep what a part is about. *)
LEMMA SameHolders ==
  ASSUME Holders, UNCHANGED <<state, ignore, cur, want>>
  PROVE  Holders'
BY DEF Holders

LEMMA SameReplies ==
  ASSUME Replies, UNCHANGED <<state, reply, ignore, cur, owed, cmdBuf>>
  PROVE  Replies'
BY DEF Replies

LEMMA SameCallers ==
  ASSUME Callers, UNCHANGED <<pc, call, want, cmdBuf>>
  PROVE  Callers'
BY DEF Callers

(* A process that begins or goes on with a call, or leaves it. *)
LEMMA OneCaller ==
  ASSUME Callers, TypeOK, NEW p \in Procs, cmdBuf' = cmdBuf,
         \A q \in Procs : q # p =>
           pc'[q] = pc[q] /\ call'[q] = call[q] /\ want'[q] = want[q],
         pc'[p] # "user" => call'[p].op \in Ops[p],
         pc'[p] \in Sending => /\ want'[p] = Nothing /\ call'[p].id # 0
                               /\ call'[p].op = "MCE_COMMAND" => cmdBuf = call'[p].id,
         \A ch \in Chan : want'[p][ch] # 0 => Ops[p] \cap Reads(ch) # {}
  PROVE  Callers'
<1> SUFFICES ASSUME NEW q \in Procs
    PROVE  /\ pc'[q] # "user" => call'[q].op \in Ops[q]
           /\ pc'[q] \in Sending => want'[q] = Nothing /\ call'[q].id # 0
           /\ pc'[q] \in Sending /\ call'[q].op = "MCE_COMMAND" =>
                cmdBuf' = call'[q].id
           /\ \A ch \in Chan : want'[q][ch] # 0 => Ops[q] \cap Reads(ch) # {}
  BY DEF Callers
<1>1. CASE q = p
  BY <1>1
<1>2. CASE q # p
  BY <1>2 DEF Callers
<1> QED
  BY <1>1, <1>2

(* An ioctl that returns. *)
LEMMA LeaveIs ==
  ASSUME TypeOK, NEW p \in Procs, Leave(p)
  PROVE  /\ pc'[p] = "user"
         /\ \A q \in Procs : q # p => pc'[q] = pc[q] /\ call'[q] = call[q]
BY DEF Leave, TypeOK

(* Whoever sends wants nothing yet, so that nothing it does not hold a     *)
(* channel for is lost when its call fails.                                *)
LEMMA FailSendIs ==
  ASSUME OwnInv, TypeOK, NEW p \in Procs, pc[p] \in Sending, FailSend(p)
  PROVE  /\ \A q \in Procs : q # p => want'[q] = want[q]
         /\ \A ch \in Chan : want'[p][ch] # 0 => Ops[p] \cap Reads(ch) # {}
         /\ \A q \in Procs, ch \in Chan : want[q][ch] # 0 => want'[q][ch] = want[q][ch]
<1>1. want[p] = Nothing /\ call[p].op \in Ops[p]
  BY DEF OwnInv, Callers, Sending
<1>2. CASE call[p].op = "COMMAND"
  <2>1. want' = [want EXCEPT ![p]["dsp"] = call[p].id]
    BY <1>2 DEF FailSend
  <2>2. call[p].id \in Nat /\ "dsp" \in Chan
    BY DEF TypeOK, Chan
  <2>3. /\ \A q \in Procs, c \in Chan : q # p \/ c # "dsp" => want'[q][c] = want[q][c]
        /\ \A q \in Procs : q # p => want'[q] = want[q]
    BY <2>1, <2>2, WantIs
  <2>4. "COMMAND" \in Ops[p] \cap Reads("dsp")
    BY <1>1, <1>2 DEF Reads
  <2>5. \A ch \in Chan : want[p][ch] = 0
    BY <1>1 DEF Nothing
  <2>6. \A ch \in Chan : want'[p][ch] # 0 => ch = "dsp"
    BY <2>3, <2>5
  <2> QED
    BY <2>3, <2>4, <2>5, <2>6
<1>3. CASE call[p].op # "COMMAND"
  <2>1. want' = want
    BY <1>3 DEF FailSend
  <2> QED
    BY <2>1 DEF OwnInv, Callers
<1> QED
  BY <1>2, <1>3

(* What somebody wants stays wanted, and a channel is not taken. *)
LEMMA HoldersStay ==
  ASSUME Holders, UNCHANGED <<cur, ignore>>,
         \A ch \in Chan : state'[ch] # "IDLE" => state[ch] # "IDLE",
         \A q \in Procs, ch \in Chan :
           state'[ch] # "IDLE" /\ want[q][ch] # 0 => want'[q][ch] = want[q][ch]
  PROVE  Holders'
<1> SUFFICES ASSUME NEW ch \in Chan, state'[ch] # "IDLE", ch = "dsp" => ~ignore
             PROVE  cur[ch] # 0 /\ \E p \in Procs : want'[p][ch] = cur[ch]
  BY DEF Holders
<1>1. PICK p \in Procs : want[p][ch] = cur[ch] /\ cur[ch] # 0
  BY DEF Holders
<1>2. want'[p][ch] = want[p][ch]
  BY <1>1
<1> QED
  BY <1>1, <1>2

(* A command that is sent, or not, by a process or the tasklet. *)
LEMMA SendReplies ==
  ASSUME TimelyCard, TypeOK, Fresh, Replies, NEW op, NEW id \in Nat,
         UNCHANGED <<reply, cmdBuf>>,
         \A ch \in Needs(op) : state[ch] = "IDLE",
         op = "MCE_COMMAND" => cmdBuf = id,
         SendOK(op, id) \/ SendFail(op, id)
  PROVE  Replies'
<1>1. CASE SendOK(op, id)
  <2>1. "dsp" \in Needs(op) /\ state["dsp"] = "IDLE" /\ "dsp" \in Chan /\ "mce" \in Chan
    BY FlagTypes DEF Chan
  <2>2. state'["dsp"] # "REP_RECD"
    BY <1>1, <2>1 DEF SendOK
  <2>3. \A ch \in Chan : state'[ch] = "REP_RECD" =>
          state[ch] = "REP_RECD" /\ cur'[ch] = cur[ch]
    BY <1>1 DEF SendOK
  <2>4. owed'["dsp"] # <<>> => owed'["dsp"][1] = cur'["dsp"]
    <3>1. owed["dsp"] = <<>>
      BY <2>1, FreshIdle
    <3>2. CASE "dsp" \in Expects(op)
      <4>1. owed'["dsp"] = Append(<<>>, id) /\ cur'["dsp"] = id
        BY <1>1, <2>1, <3>1, <3>2 DEF SendOK
      <4> QED
        BY <4>1
    <3>3. CASE "dsp" \notin Expects(op)
      BY <1>1, <2>1, <3>1, <3>3 DEF SendOK
    <3> QED
      BY <3>2, <3>3
  <2>5. owed'["mce"] # <<>> => owed'["mce"][1] \in {0, cur'["mce"]}
    <3>1. CASE "mce" \in Expects(op)
      <4>1. owed["mce"] = <<>>
        BY <2>1, <3>1, FlagTypes, FreshIdle
      <4>2. owed'["mce"] = Append(<<>>, 0)
        BY <1>1, <2>1, <3>1, <4>1 DEF SendOK
      <4> QED
        BY <4>2
    <3>2. CASE "mce" \notin Expects(op)
      BY <1>1, <2>1, <3>2 DEF SendOK, Replies
    <3> QED
      BY <3>1, <3>2
  <2>6. state'["mce"] # "IDLE" => cmdBuf = cur'["mce"]
    <3>1. CASE "mce" \in Expects(op)
      <4>1. op = "MCE_COMMAND"
        BY <3>1 DEF Expects, Needs
      <4> QED
        BY <1>1, <2>1, <3>1, <4>1 DEF SendOK
    <3>2. CASE "mce" \notin Expects(op)
      BY <1>1, <2>1, <3>2 DEF SendOK, Replies
    <3> QED
      BY <3>1, <3>2
  <2>7. \A ch \in Chan : state'[ch] = "REP_RECD" => reply'[ch] = cur'[ch]
    BY <2>3 DEF Replies
  <2> QED
    BY <2>2, <2>4, <2>5, <2>6, <2>7 DEF Replies
<1>2. CASE SendFail(op, id)
  <2>1. UNCHANGED <<owed, ignore, cur>>
    BY <1>2 DEF SendFail, TimelyCard
  <2>2. state' = state
    BY <1>2, FlagTypes DEF SendFail, TypeOK, Chan
  <2> QED
    BY <2>1, <2>2, SameReplies
<1> QED
  BY <1>1, <1>2

(* The command that takes a channel is one that its sender collects, or    *)
(* one whose answer the driver ignores.                                    *)
LEMMA SendHolders ==
  ASSUME TypeOK, OwnInv, NEW p \in Procs, Send(p)
  PROVE  Holders'
<1> DEFINE op == call[p].op
           id == call[p].id
<1>1. /\ pc[p] = "send" /\ op \in SendOp /\ id \in Nat /\ id # 0
      /\ want[p] = Nothing
  BY DEF Send, TypeOK, PlaceOK, OwnInv, Callers, Sending
<1>2. CASE SendFail(op, id) /\ FailSend(p)
  <2>1. /\ UNCHANGED <<ignore, cur>>
        /\ \A ch \in Chan : state'[ch] # "IDLE" => state[ch] # "IDLE"
    BY <1>2 DEF SendFail, TypeOK
  <2> QED
    BY <1>1, <1>2, <2>1, HoldersStay, FailSendIs DEF OwnInv, Sending
<1>3. CASE /\ SendOK(op, id)
           /\ want' = IF Answered(op)
                      THEN [want EXCEPT ![p][ReplyChan(op)] = id] ELSE want
  <2> SUFFICES ASSUME NEW ch \in Chan, state'[ch] # "IDLE", ch = "dsp" => ~ignore'
               PROVE  cur'[ch] # 0 /\ \E q \in Procs : want'[q][ch] = cur'[ch]
    BY DEF Holders
  <2>1. CASE ch \in Expects(op)
    <3>1. Answered(op) /\ ReplyChan(op) = ch
      BY <1>1, <1>3, <2>1 DEF SendOK, Ignores, Answered, ReplyChan, Expects, Needs,
                              SendOp, Chan
    <3>2. want'[p][ch] = id
      <4>1. want' = [want EXCEPT ![p][ch] = id]
        BY <1>3, <3>1
      <4> QED
        BY <4>1 DEF TypeOK
    <3>3. cur'[ch] = id
      BY <1>3, <2>1 DEF SendOK
    <3> QED
      BY <1>1, <3>2, <3>3
  <2>2. CASE ch \notin Expects(op)
    <3>1. state'[ch] = state[ch] /\ cur'[ch] = cur[ch]
      BY <1>3, <2>2 DEF SendOK
    <3>2. ch # "dsp"
      <4>1. state["dsp"] = "IDLE"
        BY FlagTypes DEF Send, Busy
      <4> QED
        BY <3>1, <4>1
    <3>3. PICK q \in Procs : want[q][ch] = cur[ch] /\ cur[ch] # 0
      BY <3>1, <3>2 DEF OwnInv, Holders
    <3>4. want[p][ch] = 0
      BY <1>1 DEF Nothing
    <3>5. q # p
      BY <3>3, <3>4
    <3>6. want'[q] = want[q]
      BY <1>1, <1>3, <3>5, WantIs, FlagTypes
    <3> QED
      BY <3>1, <3>3, <3>6
  <2> QED
    BY <2>1, <2>2
<1> QED
  BY <1>2, <1>3 DEF Send

(* The tasklet's command is answered to nobody. *)
LEMMA GrantHolders ==
  ASSUME TypeOK, Holders, GrantTask
  PROVE  Holders'
<1>1. state["dsp"] = "IDLE" /\ want' = want
  BY FlagTypes DEF GrantTask, Busy
<1>2. CASE SendOK("GRANT", calls + 1)
  <2>1. ignore' /\ state'["mce"] = state["mce"] /\ cur'["mce"] = cur["mce"]
    BY <1>2 DEF SendOK, Ignores, Expects, Needs, Chan
  <2> QED
    BY <1>1, <2>1 DEF Holders, Chan
<1>3. CASE SendFail("GRANT", calls + 1)
  <2>1. /\ UNCHANGED <<ignore, cur>>
        /\ \A ch \in Chan : state'[ch] # "IDLE" => state[ch] # "IDLE"
    BY <1>3 DEF SendFail, TypeOK
  <2> QED
    BY <1>1, <2>1, HoldersStay
<1> QED
  BY <1>2, <1>3 DEF GrantTask

(* No reply for p: what it wants is forgotten on an idle channel only. *)
LEMMA NoReplyHolders ==
  ASSUME TypeOK, Holders, NEW p \in Procs, NEW ch \in Chan, NEW seen,
         UNCHANGED <<state, cur, ignore>>, NoReply(p, ch, seen)
  PROVE  Holders'
<1>1. CASE state[ch] = "IDLE"
  <2>1. want' = [want EXCEPT ![p][ch] = 0]
    BY <1>1 DEF NoReply
  <2>2. \A q \in Procs, c \in Chan : state[c] # "IDLE" => want'[q][c] = want[q][c]
    BY <1>1, <2>1, WantIs
  <2> QED
    BY <2>2, HoldersStay
<1>2. CASE state[ch] # "IDLE"
  BY <1>2, SameHolders DEF NoReply
<1> QED
  BY <1>1, <1>2

LEMMA HoldersNext ==
  ASSUME TypeOK, OwnInv, [Next]_vars
  PROVE  Holders'
<1>1. Holders
  BY DEF OwnInv
<1>2. ASSUME NEW p \in Procs, Begin(p) \/ Handshake(p) \/ Wait(p)
      PROVE  Holders'
  BY <1>1, <1>2, SameHolders
  DEF Begin, BeginCommand, BeginMceCommand, BeginSetNFrames, BeginReset, BeginSend,
      BeginGet, driver, Handshake, Wait
<1>3. ASSUME NEW p \in Procs, SendBusy(p) PROVE Holders'
  <2>1. UNCHANGED <<state, cur, ignore>> /\ pc[p] \in Sending
    BY <1>3 DEF SendBusy, Sending
  <2>2. CASE FailSend(p)
    BY <1>1, <2>1, <2>2, HoldersStay, FailSendIs
  <2>3. CASE want' = want
    BY <1>1, <2>1, <2>3, SameHolders
  <2> QED
    BY <1>3, <2>2, <2>3 DEF SendBusy
<1>4. ASSUME NEW p \in Procs, Signal(p) PROVE Holders'
  <2>1. UNCHANGED <<state, cur, ignore>>
    BY <1>4 DEF Signal
  <2>2. CASE pc[p] = "sendWait" /\ FailSend(p)
    BY <1>1, <2>1, <2>2, HoldersStay, FailSendIs DEF Sending
  <2>3. CASE want' = want
    BY <1>1, <2>1, <2>3, SameHolders
  <2> QED
    BY <1>4, <2>2, <2>3 DEF Signal
<1>5. ASSUME NEW p \in Procs, GetLook(p) PROVE Holders'
  <2>1. UNCHANGED <<state, cur, ignore>>
    BY <1>5 DEF GetLook
  <2>2. CASE NoReply(p, "dsp", state["dsp"])
    BY <1>1, <2>1, <2>2, NoReplyHolders DEF Chan
  <2>3. CASE want' = want
    BY <1>1, <2>1, <2>3, SameHolders
  <2> QED
    BY <1>5, <2>2, <2>3 DEF GetLook
<1>6. ASSUME NEW p \in Procs, GetRecheck(p) PROVE Holders'
  BY <1>1, <1>6, NoReplyHolders DEF GetRecheck, Chan
<1>7. ASSUME NEW p \in Procs, Collect(p) PROVE Holders'
  <2> DEFINE ch == ReplyChan(call[p].op)
  <2>1. /\ ch \in Chan /\ UNCHANGED <<cur, ignore>>
        /\ state' = [state EXCEPT ![ch] = "IDLE"]
        /\ want' = [want EXCEPT ![p][ch] = 0]
    BY <1>7, FlagTypes DEF Collect
  <2>2. \A c \in Chan : state'[c] # "IDLE" => state[c] # "IDLE" /\ c # ch
    BY <2>1 DEF TypeOK
  <2>3. \A q \in Procs, c \in Chan : c # ch => want'[q][c] = want[q][c]
    BY <2>1, WantIs
  <2> QED
    BY <1>1, <2>1, <2>2, <2>3, HoldersStay
<1>8. CASE DspReply \/ MceReply
  <2>1. /\ UNCHANGED <<cur, ignore, want>>
        /\ \A c \in Chan : state'[c] # "IDLE" => state[c] # "IDLE"
    <3>1. CASE DspReply
      BY <3>1 DEF DspReply, Unexpected, Record, TypeOK, Chan
    <3>2. CASE MceReply
      BY <3>2 DEF MceReply, Unexpected, Record, TypeOK, Chan
    <3> QED
      BY <1>8, <3>1, <3>2
  <2> QED
    BY <1>1, <2>1, HoldersStay
<1>9. CASE FetchMce \/ UNCHANGED vars \/ \E ch \in Chan : Lose(ch) \/ Expire(ch)
  BY <1>1, <1>9, SameHolders DEF FetchMce, Lose, Expire, driver, vars
<1>10. ASSUME NEW ch \in Chan, Timeout(ch) PROVE Holders'
  <2>1. /\ UNCHANGED <<cur, ignore, want>>
        /\ \A c \in Chan : state'[c] # "IDLE" => state[c] # "IDLE"
    BY <1>10 DEF Timeout, TypeOK
  <2> QED
    BY <1>1, <2>1, HoldersStay
<1> QED
  BY <1>1, <1>2, <1>3, <1>4, <1>5, <1>6, <1>7, <1>8, <1>9, <1>10, SendHolders,
     GrantHolders
  DEF Next, Step, Card

-----------------------------------------------------------------------------
(* A process that keeps to collecting first begins to send. *)
LEMMA BeginSendIs ==
  ASSUME Disciplined, TypeOK, Callers, NEW p \in Procs, NEW op, NEW nb,
         NEW next, BeginSend(p, op, nb, next)
  PROVE  /\ pc[p] = "user" /\ op \in Ops[p] /\ want[p] = Nothing /\ want' = want
         /\ call'[p].op = op /\ call'[p].id = calls + 1 /\ calls + 1 # 0
         /\ \A q \in Procs : q # p => pc'[q] = pc[q] /\ call'[q] = call[q]
         /\ \A ch \in Chan : want'[p][ch] # 0 => Ops[p] \cap Reads(ch) # {}
BY DEF BeginSend, TypeOK, Callers

(* The only sender of MCE commands. *)
LEMMA OneSender ==
  ASSUME OneReader, TypeOK, Callers, NEW p \in Procs, NEW q \in Procs, q # p,
         "MCE_COMMAND" \in Ops[p], pc[q] \in Sending
  PROVE  call[q].op # "MCE_COMMAND"
BY DEF OneReader, Callers, Reads, Chan, Sending

(* A step of p inside a call that does not return from it. *)
LEMMA SameCall ==
  ASSUME Callers, TypeOK, NEW p \in Procs, UNCHANGED <<cmdBuf, call, want>>,
         pc[p] # "user", \A q \in Procs : q # p => pc'[q] = pc[q],
         pc'[p] \in Sending => pc[p] \in Sending
  PROVE  Callers'
<1>1. call'[p].op \in Ops[p]
  BY DEF Callers
<1>2. pc'[p] \in Sending => /\ want'[p] = Nothing /\ call'[p].id # 0
                            /\ call'[p].op = "MCE_COMMAND" => cmdBuf = call'[p].id
  BY DEF Callers
<1>3. \A ch \in Chan : want'[p][ch] # 0 => Ops[p] \cap Reads(ch) # {}
  BY DEF Callers
<1> QED
  BY <1>1, <1>2, <1>3, OneCaller

LEMMA LeaveCallers ==
  ASSUME Callers, TypeOK, NEW p \in Procs, cmdBuf' = cmdBuf, Leave(p),
         \A q \in Procs : q # p => want'[q] = want[q],
         \A ch \in Chan : want'[p][ch] # 0 => Ops[p] \cap Reads(ch) # {}
  PROVE  Callers'
<1>1. pc'[p] = "user" /\ "user" \notin Sending
  BY LeaveIs DEF Sending
<1>2. \A q \in Procs : q # p => pc'[q] = pc[q] /\ call'[q] = call[q]
  BY LeaveIs
<1> QED
  BY <1>1, <1>2, OneCaller

LEMMA NoReplyCallers ==
  ASSUME TypeOK, Callers, NEW p \in Procs, NEW ch \in Chan, NEW seen,
         cmdBuf' = cmdBuf, pc[p] \in {"get", "getCheck"}, NoReply(p, ch, seen)
  PROVE  Callers'
<1>1. CASE Leave(p) /\ want' = [want EXCEPT ![p][ch] = 0]
  <2>1. /\ want'[p][ch] = 0
        /\ \A c \in Chan : c # ch => want'[p][c] = want[p][c]
        /\ \A q \in Procs : q # p => want'[q] = want[q]
    BY <1>1 DEF TypeOK
  <2>2. \A c \in Chan : want'[p][c] # 0 => Ops[p] \cap Reads(c) # {}
    BY <2>1 DEF Callers
  <2> QED
    BY <1>1, <2>1, <2>2, LeaveCallers
<1>2. CASE Leave(p) /\ want' = want
  <2>1. \A c \in Chan : want'[p][c] # 0 => Ops[p] \cap Reads(c) # {}
    BY <1>2 DEF Callers
  <2> QED
    BY <1>2, <2>1, LeaveCallers
<1>3. CASE pc' = [pc EXCEPT ![p] = "getWait"] /\ UNCHANGED <<call, want>>
  <2>1. pc'[p] = "getWait" /\ \A q \in Procs : q # p => pc'[q] = pc[q]
    BY <1>3 DEF TypeOK
  <2> QED
    BY <1>3, <2>1, SameCall DEF Sending
<1> QED
  BY <1>1, <1>2, <1>3 DEF NoReply, FailGet

LEMMA CallersNext ==
  ASSUME Disciplined, OneReader, TypeOK, OwnInv, [Next]_vars
  PROVE  Callers'
<1>1. Callers
  BY DEF OwnInv
<1>2. ASSUME NEW p \in Procs, Begin(p) PROVE Callers'
  <2>1. ASSUME NEW op, NEW nb, BeginSend(p, op, nb, "send"),
               op # "MCE_COMMAND", cmdBuf' = cmdBuf
        PROVE  Callers'
    BY <1>1, <2>1, BeginSendIs, OneCaller
  <2>2. CASE BeginReset(p)
    <3>1. BeginSend(p, "RESET_DSP", FALSE, "handshake") /\ cmdBuf' = cmdBuf
      BY <2>2 DEF BeginReset
    <3>2. /\ call'[p].op = "RESET_DSP" /\ "RESET_DSP" \in Ops[p]
          /\ call'[p].id # 0 /\ want[p] = Nothing /\ want' = want
          /\ \A q \in Procs : q # p => pc'[q] = pc[q] /\ call'[q] = call[q]
          /\ \A ch \in Chan : want'[p][ch] # 0 => Ops[p] \cap Reads(ch) # {}
      BY <1>1, <3>1, BeginSendIs
    <3> QED
      BY <1>1, <3>1, <3>2, OneCaller
  <2>3. CASE BeginMceCommand(p)
    <3>1. PICK nb \in BOOLEAN : BeginSend(p, "MCE_COMMAND", nb, "send")
      BY <2>3 DEF BeginMceCommand
    <3>2. /\ pc[p] = "user" /\ "MCE_COMMAND" \in Ops[p] /\ want[p] = Nothing
          /\ want' = want /\ call'[p].op = "MCE_COMMAND"
          /\ call'[p].id = calls + 1 /\ calls + 1 # 0
          /\ \A q \in Procs : q # p => pc'[q] = pc[q] /\ call'[q] = call[q]
          /\ \A ch \in Chan : want'[p][ch] # 0 => Ops[p] \cap Reads(ch) # {}
      BY <1>1, <3>1, BeginSendIs
    <3>3. cmdBuf' = calls + 1
      BY <2>3 DEF BeginMceCommand
    <3> SUFFICES ASSUME NEW q \in Procs
        PROVE  /\ pc'[q] # "user" => call'[q].op \in Ops[q]
               /\ pc'[q] \in Sending => want'[q] = Nothing /\ call'[q].id # 0
               /\ pc'[q] \in Sending /\ call'[q].op = "MCE_COMMAND" =>
                    cmdBuf' = call'[q].id
               /\ \A ch \in Chan : want'[q][ch] # 0 => Ops[q] \cap Reads(ch) # {}
      BY DEF Callers
    <3>4. CASE q = p
      BY <3>2, <3>3, <3>4
    <3>5. CASE q # p
      <4>1. pc[q] \in Sending => call[q].op # "MCE_COMMAND"
        BY <1>1, <3>2, <3>5, OneSender
      <4> QED
        BY <1>1, <3>2, <3>5, <4>1 DEF Callers
    <3> QED
      BY <3>4, <3>5
  <2>4. CASE BeginGet(p)
    <3>1. PICK nb \in BOOLEAN, op \in GetOp \cap Ops[p] :
            call' = [call EXCEPT ![p] = [op |-> op, nonblock |-> nb, id |-> 0]]
      BY <2>4 DEF BeginGet
    <3>2. /\ pc'[p] = "get" /\ call'[p].op \in Ops[p] /\ UNCHANGED <<want, cmdBuf>>
          /\ \A q \in Procs : q # p => pc'[q] = pc[q] /\ call'[q] = call[q]
      BY <2>4, <3>1 DEF BeginGet, driver, TypeOK
    <3>3. \A ch \in Chan : want'[p][ch] # 0 => Ops[p] \cap Reads(ch) # {}
      BY <1>1, <3>2 DEF Callers
    <3> QED
      BY <1>1, <3>2, <3>3, OneCaller DEF Sending
  <2> QED
    BY <1>2, <2>1, <2>2, <2>3, <2>4
    DEF Begin, BeginCommand, BeginSetNFrames
<1>3. ASSUME NEW p \in Procs, Handshake(p) PROVE Callers'
  <2>1. UNCHANGED <<want, cmdBuf>> /\ pc[p] = "handshake"
    BY <1>3 DEF Handshake
  <2>2. CASE Leave(p)
    <3>1. \A ch \in Chan : want'[p][ch] # 0 => Ops[p] \cap Reads(ch) # {}
      BY <1>1, <2>1 DEF Callers
    <3> QED
      BY <1>1, <2>1, <2>2, <3>1, LeaveCallers
  <2>3. CASE pc' = [pc EXCEPT ![p] = "send"] /\ call' = call
    <3>1. \A q \in Procs : q # p => pc'[q] = pc[q]
      BY <2>3 DEF TypeOK
    <3> QED
      BY <1>1, <2>1, <2>3, <3>1, SameCall DEF Sending
  <2> QED
    BY <1>3, <2>2, <2>3 DEF Handshake
<1>4. ASSUME NEW p \in Procs, SendBusy(p) \/ Signal(p) PROVE Callers'
  <2>1. cmdBuf' = cmdBuf /\ pc[p] \in Sending \cup {"getWait"}
    BY <1>4 DEF SendBusy, Signal, Waiting, Sending
  <2>2. CASE pc[p] \in Sending /\ FailSend(p)
    <3>1. Leave(p)
      BY <2>2 DEF FailSend
    <3> QED
      BY <1>1, <2>1, <2>2, <3>1, LeaveCallers, FailSendIs
  <2>3. CASE Leave(p) /\ want' = want
    <3>1. \A ch \in Chan : want'[p][ch] # 0 => Ops[p] \cap Reads(ch) # {}
      BY <1>1, <2>3 DEF Callers
    <3> QED
      BY <1>1, <2>1, <2>3, <3>1, LeaveCallers
  <2>4. CASE /\ pc[p] = "send" /\ pc' = [pc EXCEPT ![p] = "sendWait"]
             /\ UNCHANGED <<call, want>>
    <3>1. \A q \in Procs : q # p => pc'[q] = pc[q]
      BY <2>4 DEF TypeOK
    <3> QED
      BY <1>1, <2>1, <2>4, <3>1, SameCall DEF Sending
  <2> QED
    BY <1>4, <2>2, <2>3, <2>4 DEF SendBusy, Signal, FailGet, Sending
<1>5. ASSUME NEW p \in Procs, Wait(p) PROVE Callers'
  <2>1. /\ UNCHANGED <<cmdBuf, call, want>> /\ pc[p] # "user"
        /\ \A q \in Procs : q # p => pc'[q] = pc[q]
        /\ pc'[p] \in Sending => pc[p] \in Sending
    BY <1>5 DEF Wait, Waiting, Sending, TypeOK
  <2> QED
    BY <1>1, <2>1, SameCall
<1>6. ASSUME NEW p \in Procs, Send(p) PROVE Callers'
  <2> DEFINE op == call[p].op
             id == call[p].id
  <2>1. /\ cmdBuf' = cmdBuf /\ pc[p] \in Sending /\ op \in Ops[p] /\ id \in Nat
        /\ op \in SendOp
    BY <1>1, <1>6 DEF Send, Sending, Callers, TypeOK, PlaceOK
  <2>2. CASE FailSend(p)
    <3>1. Leave(p)
      BY <2>2 DEF FailSend
    <3> QED
      BY <1>1, <2>1, <2>2, <3>1, LeaveCallers, FailSendIs
  <2>3. CASE /\ want' = IF Answered(op)
                        THEN [want EXCEPT ![p][ReplyChan(op)] = id] ELSE want
             /\ \/ pc' = [pc EXCEPT ![p] = "get"] /\ call' = call
                \/ Leave(p)
    <3>1. \A q \in Procs : q # p => want'[q] = want[q]
      BY <2>3 DEF TypeOK
    <3>2. ASSUME NEW ch \in Chan, want'[p][ch] # 0
          PROVE  Ops[p] \cap Reads(ch) # {}
      <4>1. CASE want'[p][ch] = want[p][ch]
        BY <1>1, <3>2, <4>1 DEF Callers
      <4>2. CASE want'[p][ch] # want[p][ch]
        <5>1. Answered(op) /\ ch = ReplyChan(op)
          BY <2>3, <4>2 DEF TypeOK
        <5>2. op \in Reads(ch)
          BY <5>1 DEF Answered, ReplyChan, Reads
        <5> QED
          BY <2>1, <5>2
      <4> QED
        BY <4>1, <4>2
    <3>3. CASE Leave(p)
      BY <1>1, <2>1, <3>1, <3>2, <3>3, LeaveCallers
    <3>4. CASE pc' = [pc EXCEPT ![p] = "get"] /\ call' = call
      <4>1. /\ pc'[p] = "get" /\ call'[p].op \in Ops[p]
            /\ \A q \in Procs : q # p => pc'[q] = pc[q] /\ call'[q] = call[q]
        BY <2>1, <3>4 DEF TypeOK
      <4> QED
        BY <1>1, <2>1, <3>1, <3>2, <4>1, OneCaller DEF Sending
    <3> QED
      BY <2>3, <3>3, <3>4
  <2> QED
    BY <1>6, <2>2, <2>3 DEF Send
<1>7. ASSUME NEW p \in Procs, Collect(p) PROVE Callers'
  <2> DEFINE ch == ReplyChan(call[p].op)
  <2>1. Leave(p) /\ cmdBuf' = cmdBuf /\ want' = [want EXCEPT ![p][ch] = 0]
    BY <1>7 DEF Collect
  <2>2. /\ \A q \in Procs : q # p => want'[q] = want[q]
        /\ \A c \in Chan : want'[p][c] # 0 => want'[p][c] = want[p][c]
    BY <2>1 DEF TypeOK
  <2>3. \A c \in Chan : want'[p][c] # 0 => Ops[p] \cap Reads(c) # {}
    BY <1>1, <2>2 DEF Callers
  <2> QED
    BY <1>1, <2>1, <2>2, <2>3, LeaveCallers
<1>8. ASSUME NEW p \in Procs, GetLook(p) PROVE Callers'
  <2>1. cmdBuf' = cmdBuf /\ pc[p] = "get"
    BY <1>8 DEF GetLook
  <2>2. CASE NoReply(p, "dsp", state["dsp"])
    BY <1>1, <2>1, <2>2, NoReplyCallers DEF Chan
  <2>3. CASE pc' = [pc EXCEPT ![p] = "getCheck"] /\ UNCHANGED <<call, want>>
    <3>1. \A q \in Procs : q # p => pc'[q] = pc[q]
      BY <2>3 DEF TypeOK
    <3>2. pc'[p] = "getCheck"
      BY <2>3 DEF TypeOK
    <3> QED
      BY <1>1, <2>1, <2>3, <3>1, <3>2, SameCall DEF Sending
  <2> QED
    BY <1>8, <2>2, <2>3 DEF GetLook
<1>9. ASSUME NEW p \in Procs, GetRecheck(p) PROVE Callers'
  BY <1>1, <1>9, NoReplyCallers DEF GetRecheck, Chan
<1>10. CASE GrantTask \/ Card \/ (\E ch \in Chan : Expire(ch) \/ Timeout(ch))
            \/ UNCHANGED vars
  BY <1>1, <1>10, SameCallers
  DEF GrantTask, Card, DspReply, MceReply, FetchMce, Lose, Expire, Timeout, driver,
      procs, vars
<1> QED
  BY <1>2, <1>3, <1>4, <1>5, <1>6, <1>7, <1>8, <1>9, <1>10 DEF Next, Step

-----------------------------------------------------------------------------
(* The channel of an MCE command is idle when its only sender begins the next. *)
LEMMA BufferFree ==
  ASSUME Disciplined, OneReader, TypeOK, OwnInv, NEW p \in Procs, BeginMceCommand(p)
  PROVE  state["mce"] = "IDLE"
<1>1. "MCE_COMMAND" \in Ops[p] \cap Reads("mce") /\ want[p] = Nothing
  BY DEF BeginMceCommand, BeginSend, Reads
<1>2. ASSUME NEW q \in Procs, want[q]["mce"] # 0 PROVE FALSE
  <2>1. Ops[q] \cap Reads("mce") # {}
    BY <1>2 DEF OwnInv, Callers, Chan
  <2>2. q = p
    BY <1>1, <2>1 DEF OneReader, Chan
  <2> QED
    BY <1>1, <1>2, <2>2 DEF Nothing, Chan
<1> QED
  BY <1>2 DEF OwnInv, Holders, Chan

LEMMA RepliesNext ==
  ASSUME TimelyCard, Disciplined, OneReader, TypeOK, Fresh, OwnInv, [Next]_vars
  PROVE  Replies'
<1>1. Replies
  BY DEF OwnInv
<1>2. ASSUME NEW p \in Procs, Begin(p) PROVE Replies'
  <2>1. UNCHANGED <<state, reply, ignore, cur>>
    BY <1>2 DEF Begin, BeginCommand, BeginMceCommand, BeginSetNFrames, BeginReset,
       BeginSend, BeginGet, driver
  <2>2. CASE BeginReset(p)
    <3>1. cmdBuf' = cmdBuf /\ \A ch \in Chan : owed'[ch] \in {owed[ch], <<>>}
      BY <2>2 DEF BeginReset
    <3> QED
      BY <1>1, <2>1, <3>1 DEF Replies, Chan
  <2>3. CASE BeginMceCommand(p)
    BY <1>1, <2>1, <2>3, BufferFree DEF Replies, BeginMceCommand
  <2>4. CASE UNCHANGED <<cmdBuf, owed>>
    BY <1>1, <2>1, <2>4, SameReplies
  <2> QED
    BY <1>2, <2>2, <2>3, <2>4 DEF Begin, BeginCommand, BeginSetNFrames, BeginGet, driver
<1>3. ASSUME NEW p \in Procs, \/ Handshake(p) \/ SendBusy(p) \/ Wait(p) \/ GetLook(p)
                              \/ GetRecheck(p) \/ Signal(p)
      PROVE  Replies'
  BY <1>1, <1>3, SameReplies
  DEF Handshake, SendBusy, Wait, GetLook, GetRecheck, Signal
<1>4. ASSUME NEW p \in Procs, Send(p) PROVE Replies'
  <2>1. call[p].id \in Nat /\ (call[p].op = "MCE_COMMAND" => cmdBuf = call[p].id)
    BY <1>4 DEF TypeOK, Send, OwnInv, Callers, Sending
  <2> QED
    BY <1>1, <1>4, <2>1, SendReplies DEF Send, Busy
<1>5. CASE GrantTask
  <2>1. calls + 1 \in Nat
    BY DEF TypeOK
  <2> QED
    BY <1>1, <1>5, <2>1, SendReplies DEF GrantTask, Busy
<1>6. ASSUME NEW p \in Procs, Collect(p) PROVE Replies'
  <2> DEFINE ch == ReplyChan(call[p].op)
  <2>1. /\ ch \in Chan /\ UNCHANGED <<reply, ignore, cur, owed, cmdBuf>>
        /\ state' = [state EXCEPT ![ch] = "IDLE"]
    BY <1>6, FlagTypes DEF Collect
  <2>2. \A c \in Chan : state'[c] \in {state[c], "IDLE"}
    BY <2>1 DEF TypeOK
  <2> QED
    BY <1>1, <2>1, <2>2 DEF Replies, Chan
<1>7. CASE DspReply
  <2>1. /\ state["dsp"] = "CMD_SENT" /\ Tail(owed["dsp"]) = <<>>
        /\ Head(owed["dsp"]) = cur["dsp"]
    BY <1>1, <1>7, TailShort DEF DspReply, Fresh, NoStaleAnswer, TypeOK, Chan, Replies
  <2>2. /\ owed'["dsp"] = <<>> /\ owed'["mce"] = owed["mce"]
        /\ UNCHANGED <<ignore, cur, cmdBuf>>
        /\ state'["mce"] = state["mce"] /\ reply'["mce"] = reply["mce"]
    BY <1>7, <2>1 DEF DspReply, Record, TypeOK, Chan
  <2>3. \/ ignore /\ state'["dsp"] = "IDLE"
        \/ ~ignore /\ reply'["dsp"] = cur["dsp"]
    BY <1>7, <2>1 DEF DspReply, Record, TypeOK, Chan
  <2> QED
    BY <1>1, <2>2, <2>3 DEF Replies, Chan
<1>8. CASE MceReply
  <2>1. /\ state["mce"] = "CMD_SENT" /\ Tail(owed["mce"]) = <<>>
        /\ Head(owed["mce"]) = cur["mce"]
    BY <1>1, <1>8, TailShort DEF MceReply, Fresh, NoStaleAnswer, TypeOK, Chan, Replies
  <2>2. /\ owed'["mce"] = <<>> /\ owed'["dsp"] = owed["dsp"]
        /\ UNCHANGED <<ignore, cur, cmdBuf>>
        /\ state'["dsp"] = state["dsp"] /\ reply'["dsp"] = reply["dsp"]
        /\ reply'["mce"] = cur["mce"]
    BY <1>8, <2>1 DEF MceReply, Record, TypeOK, Chan
  <2> QED
    BY <1>1, <2>1, <2>2 DEF Replies, Chan
<1>9. CASE FetchMce
  <2>1. PICK i \in 1..Len(owed["mce"]) : owed' = [owed EXCEPT !["mce"][i] = cmdBuf]
    BY <1>9 DEF FetchMce
  <2>2. /\ owed["mce"] \in Seq(Nat) /\ cmdBuf \in Nat
        /\ UNCHANGED <<state, reply, ignore, cur, cmdBuf>>
    BY <1>9 DEF TypeOK, Chan, FetchMce, driver
  <2>3. i = 1 /\ owed["mce"] # <<>> /\ cmdBuf = cur["mce"]
    BY <1>1, <2>1, <2>2, EmptySeq DEF Fresh, NoStaleAnswer, Chan, Replies
  <2>4. owed'["mce"][1] = cmdBuf /\ owed'["dsp"] = owed["dsp"]
    BY <2>1, <2>2, <2>3 DEF TypeOK, Chan
  <2> QED
    BY <1>1, <2>2, <2>3, <2>4 DEF Replies
<1>10. ASSUME NEW ch \in Chan, Lose(ch) PROVE Replies'
  <2>1. Tail(owed[ch]) = <<>> /\ owed' = [owed EXCEPT ![ch] = <<>>]
    BY <1>10, TailShort DEF Lose, Fresh, NoStaleAnswer, TypeOK
  <2>2. /\ \A c \in Chan : owed'[c] \in {owed[c], <<>>}
        /\ UNCHANGED <<state, reply, ignore, cur, cmdBuf>>
    BY <1>10, <2>1 DEF Lose, driver, TypeOK
  <2> QED
    BY <1>1, <2>2 DEF Replies, Chan
<1>11. ASSUME NEW ch \in Chan, Timeout(ch) PROVE Replies'
  <2>1. /\ \A c \in Chan : state'[c] \in {state[c], "IDLE"}
        /\ UNCHANGED <<reply, ignore, cur, owed, cmdBuf>>
    BY <1>11 DEF Timeout, TypeOK
  <2> QED
    BY <1>1, <2>1 DEF Replies, Chan
<1>12. CASE (\E ch \in Chan : Expire(ch)) \/ UNCHANGED vars
  BY <1>1, <1>12, SameReplies DEF Expire, vars
<1> QED
  BY <1>2, <1>3, <1>4, <1>5, <1>6, <1>7, <1>8, <1>9, <1>10, <1>11, <1>12
  DEF Next, Step, Card

LEMMA OwnNext ==
  TimelyCard /\ Disciplined /\ OneReader
    => (TypeOK /\ Fresh /\ OwnInv /\ [Next]_vars => OwnInv')
BY HoldersNext, CallersNext, RepliesNext DEF OwnInv

(* A process collects only what it wants. *)
LEMMA CollectsOwn ==
  ASSUME OneReader, TypeOK, OwnInv, NEW p \in Procs, Collect(p)
  PROVE  reply[ReplyChan(call[p].op)] = want[p][ReplyChan(call[p].op)]
<1> DEFINE ch == ReplyChan(call[p].op)
<1>1. ch \in Chan /\ state[ch] = "REP_RECD" /\ pc[p] = "get"
  BY FlagTypes DEF Collect
<1>2. PICK q \in Procs : want[q][ch] = cur[ch] /\ cur[ch] # 0
  BY <1>1 DEF OwnInv, Holders, Replies
<1>3. call[p].op \in Ops[p] \cap Reads(ch)
  BY <1>1 DEF OwnInv, Callers, TypeOK, PlaceOK, GetOp, Reads, ReplyChan
<1>4. Ops[q] \cap Reads(ch) # {}
  BY <1>1, <1>2 DEF OwnInv, Callers
<1>5. q = p
  BY <1>1, <1>3, <1>4 DEF OneReader
<1>6. reply[ch] = cur[ch]
  BY <1>1 DEF OwnInv, Replies
<1> QED
  BY <1>2, <1>5, <1>6

(* Whoever collects a reply from the driver gets the one to the command it *)
(* has sent (try_send_cmd, the interrupt handler, try_get_reply), for any  *)
(* number of processes and commands, with answers lost, sends that fail,   *)
(* signals, resets of the card and grants between them.                    *)
THEOREM RepliesAreOwn ==
  ASSUME TimelyCard, Disciplined, OneReader
  PROVE  Spec => OwnReply
<1>1. TypeOK /\ Fresh /\ OwnInv /\ [Next]_vars => OwnInv'
  BY OwnNext
<1>2. TypeOK /\ Fresh /\ [Next]_vars => Fresh'
  BY FreshNext
<1>3. TypeOK /\ OwnInv =>
        \A p \in Procs : Collect(p) =>
          LET ch == ReplyChan(call[p].op) IN reply[ch] = want[p][ch]
  BY CollectsOwn
<1> QED
  BY <1>1, <1>2, <1>3, OwnInit, FreshInit, TypeCorrect, PTL DEF Spec, OwnReply
=============================================================================
