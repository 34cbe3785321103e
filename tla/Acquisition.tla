---------------------------- MODULE Acquisition ----------------------------
(***************************************************************************)
(* One process that takes data: mcedata_acq_create and mcedata_acq_go of   *)
(* mce_library/acq.c, the two loops that collect frames (copy_frames_mmap, *)
(* and the thread of data_thread.c) and the stores they hand each frame to *)
(* (multisync.c).  The frame buffer is the FIFO that McedspData implements *)
(* (FrameFifo); commands are single steps, with the outcomes MceCommand    *)
(* and McedspCmd leave them.  The MCE is external: on GO it sends ret_dat_s*)
(* frames, the last of them marked; a stop command ends it with a frame    *)
(* that is marked so.  Another process may send that command, or ask the   *)
(* driver for a stop (DSPIOCT_FAKE_STOPFRAME); it leaves ret_dat_s alone.  *)
(***************************************************************************)
EXTENDS Integers, Sequences, FiniteSets

CONSTANTS
  Asks,      \* the counts acquisitions ask for, besides leaving it to the MCE
  MaxWaits,  \* max_waits, from timeout_ms; 0 waits for ever
  Stores,    \* number of stores
  MaxGos     \* bound on the GO commands

Ask == -1  \* n_frames < 0: the count is read from the MCE
Trouble == {"command", "frames", "store", "others", "thread"}

ASSUME AcqAssumption ==
  /\ Asks \subseteq Nat \ {0}
  /\ MaxWaits \in Nat /\ Stores \in Nat /\ MaxGos \in Nat

VARIABLES
  faults,    \* the kinds of trouble of this behaviour
  threaded,  \* MCEDATA_THREAD is among the options
  stopping,  \* the stores' error callback stops those that fail
  pc,        \* where the process is
  ready, n, last, count, status,  \* fields of acq, and what the call asks for
  waits,     \* polls without a frame
  done,      \* the loop's exit, or "no"
  tstate,    \* data_thread_t.state
  stopped,   \* the stores the error callback has stopped
  ring,      \* frames not consumed
  exitFlag,  \* force_exit_on_poll
  retDatS,   \* the MCE's count of frames per GO
  mce,       \* the run of the MCE: its GO, frames sent and to send
  (* history *)
  gos,       \* GO commands so far
  clean,     \* no frames can be left from before
  whole,     \* the MCE was not stopped, and no frame of this GO was lost
  got,       \* the frames of this acquisition
  missed,    \* how many of them each store refused or was not handed
  failed     \* the stores that have failed

mode   == <<faults, threaded, stopping>>
acq    == <<ready, n, last, count, status>>
outer  == <<exitFlag, retDatS, mce>>
stores == <<stopped, missed, failed>>
hist   == <<gos, clean, whole>>
vars   == <<faults, threaded, stopping, pc, ready, n, last, count, status, waits, done,
            tstate, stopped, ring, exitFlag, retDatS, mce, gos, clean, whole,
            got, missed, failed>>

Store == 1..Stores
Idle  == [go |-> 0, sent |-> 0, of |-> 0, stop |-> FALSE]

Init ==
  /\ faults \in {F \in SUBSET Trouble : Cardinality(F) <= 2}
  /\ threaded \in BOOLEAN /\ stopping \in BOOLEAN
  /\ pc = "none"
  /\ ready = FALSE /\ n = 0 /\ last = 0 /\ count = 0 /\ status = "ok"
  /\ waits = 0 /\ done = "no" /\ tstate = "idle" /\ stopped = {}
  /\ ring = <<>> /\ exitFlag = FALSE /\ retDatS = 1 /\ mce = Idle
  /\ gos = 0 /\ clean = FALSE /\ whole = TRUE
  /\ got = <<>> /\ missed = [s \in Store |-> 0] /\ failed = {}

-----------------------------------------------------------------------------
(* mcedata_acq_create, for the first or a further acquisition: acq is      *)
(* zeroed; parameters are looked up and the driver's buffer is reset, and  *)
(* only if all goes well is acq ready.                                     *)
Create ==
  /\ pc \in {"none", "ready"} /\ gos < MaxGos
  /\ last' = 0 /\ n' = 0 /\ count' = 0 /\ status' = "ok"
  /\ stopped' = {} /\ failed' = {} /\ missed' = [s \in Store |-> 0]
  /\ got' = <<>> /\ whole' = TRUE
  /\ \/ /\ ready' = TRUE
        /\ ring' = <<>> /\ exitFlag' = FALSE
        /\ pc' = "ready"
        /\ clean' = (mce.go = 0)
     \/ /\ "command" \in faults
        /\ ready' = FALSE /\ pc' = "none" /\ clean' = FALSE
        /\ UNCHANGED <<ring, exitFlag>>
  /\ UNCHANGED <<mode, waits, done, tstate, retDatS, mce, gos>>

(* The return value of a call that failed; acq->status is left alone. *)
Fails == pc' = "ready"

(* mcedata_acq_go: the count, then DSPIOCT_SET_NFRAMES, which set_n_frames *)
(* sends in any case; ret_dat_s only if the last count was another one.    *)
DspOnly(c) == c = last

Go ==
  /\ pc = "ready" /\ ready /\ gos < MaxGos
  /\ \E a \in Asks \cup {Ask} :
       LET c == IF a = Ask THEN retDatS ELSE a IN
       \/ /\ n' = c
          /\ pc' = IF DspOnly(c) THEN "start" ELSE "retdat"
       \/ "command" \in faults /\ Fails /\ UNCHANGED n
  /\ UNCHANGED <<mode, ready, last, count, status, waits, done,
                 tstate, stores, ring, outer, hist, got>>

(* mcecmd_write_block of ret_dat_s; one that failed may have been executed.*)
Forgotten == -1

WriteRetDat ==
  /\ pc = "retdat"
  /\ \/ /\ retDatS' = n /\ last' = n /\ pc' = "start"
     \/ /\ "command" \in faults
        /\ retDatS' \in {n, retDatS}
        /\ last' = Forgotten
        /\ Fails
  /\ UNCHANGED <<mode, ready, n, count, status, waits, done, tstate,
                 stores, ring, exitFlag, mce, hist, got>>

(* mcecmd_start_application; the MCE may run although the call failed. *)
Running == [go |-> gos + 1, sent |-> 0, of |-> retDatS, stop |-> FALSE]

Start ==
  /\ pc = "start"
  /\ gos' = gos + 1
  /\ \/ /\ mce' = Running
        /\ pc' = IF threaded THEN "launch" ELSE "loop"
        /\ count' = 0 /\ waits' = 0 /\ done' = "no"
        /\ got' = <<>> /\ whole' = TRUE
        /\ clean' = (clean /\ mce.go = 0)
     \/ /\ "command" \in faults
        /\ mce' \in {Running, mce}
        /\ clean' = FALSE
        /\ Fails
        /\ UNCHANGED <<count, waits, done, got, whole>>
  /\ UNCHANGED <<mode, ready, n, last, status, tstate, stores, ring,
                 exitFlag, retDatS>>

-----------------------------------------------------------------------------
(* The stores.  multisync_post_frame hands the frame to each store in turn *)
(* that is not stopped, up to the first that fails; the error callback may *)
(* stop that one.  The loops only warn of the failure.                     *)

Serves_Stopped(s) == TRUE
Serves(s) == s \notin stopped

PostFrame(f) ==
  \E bad \in SUBSET {s \in Store : "store" \in faults /\ Serves(s)} :
    LET served(s) == Serves(s) /\ \A b \in bad : s < b
        breaks    == {b \in bad : \A x \in bad : b <= x}
    IN /\ missed' = [s \in Store |-> missed[s] + IF served(s) THEN 0 ELSE 1]
       /\ failed' = failed \cup breaks
       /\ stopped' = IF stopping THEN stopped \cup breaks ELSE stopped

-----------------------------------------------------------------------------
(* copy_frames_mmap.                                                       *)

Waited_Reset == 0
Waited == waits + 1

(* mcedata_poll_offset: a pending stop, no frame yet, or a frame. *)
Poll ==
  /\ pc = "loop" /\ done = "no"
  /\ \/ /\ exitFlag
        /\ exitFlag' = FALSE
        /\ done' = "kill"
        /\ UNCHANGED <<pc, waits>>
     \/ /\ ~exitFlag /\ ring = <<>>
        /\ waits' = IF MaxWaits = 0 THEN 0 ELSE Waited
        /\ done' = IF MaxWaits > 0 /\ waits' >= MaxWaits THEN "timeout" ELSE "no"
        /\ UNCHANGED <<pc, exitFlag>>
     \/ /\ ~exitFlag /\ ring # <<>>
        /\ pc' = "frame"
        /\ UNCHANGED <<waits, done, exitFlag>>
  /\ UNCHANGED <<mode, acq, tstate, stores, ring, retDatS, mce, hist,
                 got>>

(* The frame is sorted and stored where it lies; then the reasons to end,  *)
(* the later ones over the earlier; then it is given back to the driver.   *)
ExitOf_Unchecked(f, c) ==
  IF f.last THEN "last" ELSE IF f.stop THEN "stop"
  ELSE IF c >= n THEN "count" ELSE "no"
ExitOf(f, c) ==
  CASE ~f.bad /\ f.last -> "last"
    [] ~f.bad /\ f.stop /\ ~f.last -> "stop"
    [] OTHER -> IF c >= n THEN "count" ELSE "no"

Consumed_Kept == ring
Consumed == Tail(ring)

CopyFrame ==
  /\ pc = "frame"
  /\ LET f == Head(ring) IN
     /\ PostFrame(f)
     /\ got' = Append(got, [go |-> f.go, k |-> f.k])
     /\ count' = count + 1
     /\ done' = ExitOf(f, count + 1)
  /\ ring' = Consumed
  /\ waits' = 0
  /\ pc' = "loop"
  /\ UNCHANGED <<mode, ready, n, last, status, tstate, outer, hist>>

(* acq->status; the function itself returns 0. *)
Status ==
  CASE done \in {"count", "last"} -> "ok"
    [] done = "timeout" -> "timeout"
    [] done = "stop"    -> "stop"
    [] OTHER            -> "device"

Finish ==
  /\ pc = "loop" /\ done # "no"
  /\ status' = Status
  /\ clean' = (clean /\ Status \in {"ok", "stop"})
  /\ pc' = "ready" /\ waits' = 0 /\ done' = "no"
  /\ UNCHANGED <<mode, ready, n, last, count, tstate,
                 stores, ring, outer, gos, whole, got>>

-----------------------------------------------------------------------------
(* The thread: launcher, body, and the call that waits for it.             *)

Launch ==
  /\ pc = "launch"
  /\ tstate' = "launch"
  /\ \/ pc' = "wait" /\ UNCHANGED clean
     \/ "thread" \in faults /\ Fails /\ clean' = FALSE
  /\ UNCHANGED <<mode, acq, waits, done, stores, ring,
                 outer, gos, whole, got>>

(* malloc of the frame's copy. *)
ThreadNoMemory ==
  /\ pc = "wait" /\ tstate = "launch" /\ count = 0
  /\ "thread" \in faults
  /\ tstate' = "error"
  /\ UNCHANGED <<mode, pc, acq, waits, done, stores, ring, outer,
                 hist, got>>

(* read() consumes the frame; status bits and checksum are not looked at. *)
ThreadRead ==
  /\ pc = "wait" /\ tstate = "launch" /\ done = "no"
  /\ ring # <<>>
  /\ LET f == Head(ring) IN
     /\ PostFrame(f)
     /\ got' = Append(got, [go |-> f.go, k |-> f.k])
     /\ count' = count + 1
     /\ done' = IF count + 1 >= n THEN "count" ELSE "no"
  /\ ring' = Tail(ring)
  /\ UNCHANGED <<mode, pc, ready, n, last, status, waits, tstate,
                 outer, hist>>

(* A failed read, or the end of the device's data, is the end. *)
ThreadReadFails ==
  /\ pc = "wait" /\ tstate = "launch" /\ done = "no"
  /\ "thread" \in faults
  /\ done' \in {"read", "eof"}
  /\ UNCHANGED <<mode, pc, acq, waits, tstate, stores, ring, outer,
                 hist, got>>

ThreadEnds ==
  /\ pc = "wait" /\ tstate = "launch" /\ done # "no"
  /\ tstate' = "idle"
  /\ UNCHANGED <<mode, pc, acq, waits, done, stores, ring, outer,
                 hist, got>>

Waits ==
  /\ pc = "wait" /\ tstate = "idle"
  /\ pc' = "ready"
  /\ clean' = (clean /\ done = "count")
  /\ done' = "no"
  /\ UNCHANGED <<mode, acq, waits, tstate, stores, ring,
                 outer, gos, whole, got>>
-----------------------------------------------------------------------------
(* The MCE, the driver's buffer and other processes.                       *)

(* The MCE sends a frame; a stop command ends the run with this one.  The  *)
(* frame may be lost before the buffer, or be damaged, bits and all.       *)
Send ==
  /\ mce.go # 0
  /\ LET end == mce.sent + 1 = mce.of IN
     \E l \in BOOLEAN, bad \in BOOLEAN, lost \in BOOLEAN :
       /\ bad \/ lost => "frames" \in faults
       /\ bad \/ l = end \/ (l /\ mce.stop)
       /\ ring' = IF lost THEN ring ELSE
            Append(ring, [go |-> mce.go, k |-> mce.sent + 1, last |-> l,
                          stop |-> mce.stop, bad |-> bad])
       /\ whole' = (whole /\ ~lost /\ ~mce.stop)
       /\ mce' = IF end \/ mce.stop THEN Idle ELSE [mce EXCEPT !.sent = @ + 1]
  /\ UNCHANGED <<mode, pc, acq, waits, done, tstate, stores,
                 exitFlag, retDatS, gos, clean, got>>

Stop ==
  /\ "others" \in faults
  /\ mce.go # 0 /\ ~mce.stop
  /\ mce' = [mce EXCEPT !.stop = TRUE]
  /\ UNCHANGED <<mode, pc, acq, waits, done, tstate, stores,
                 ring, exitFlag, retDatS, hist, got>>

FakeStopframe ==
  /\ "others" \in faults
  /\ pc = "loop" /\ ~exitFlag
  /\ exitFlag' = TRUE
  /\ UNCHANGED <<mode, pc, acq, waits, done, tstate, stores,
                 ring, retDatS, mce, hist, got>>

-----------------------------------------------------------------------------
Loop   == Poll \/ CopyFrame \/ Finish
Thread == Launch \/ ThreadNoMemory \/ ThreadRead \/ ThreadReadFails
            \/ ThreadEnds \/ Waits

Next == Create \/ Go \/ WriteRetDat \/ Start \/ Loop \/ Thread
          \/ Send \/ Stop \/ FakeStopframe

Spec == Init /\ [][Next]_vars

(* The process runs while its calls last; nothing is asked of the MCE. *)
FairSpec == Spec /\ WF_vars(Loop)

-----------------------------------------------------------------------------
(* After acquisitions that ended well or were stopped, the frames of an    *)
(* acquisition are those of its own GO, in the order they were sent: none  *)
(* is left in the buffer by an end that came too early.                    *)
OwnFrames ==
  clean /\ pc \in {"loop", "frame", "wait"} =>
    /\ \A i \in DOMAIN got : got[i].go = gos
    /\ \A i, j \in DOMAIN got : i < j => got[i].k < got[j].k

(* mcedata_acq_go is to return 0 and leave the status 0.  The thread does  *)
(* so after any end, a failed read and the end of the device's data        *)
(* included: these two ends are left out.                                  *)
Succeeds ==
  \/ pc = "loop" /\ done # "no" /\ Status = "ok"
  \/ pc = "wait" /\ done \notin {"no", "read", "eof"}

(* With the loop and with the thread, an acquisition that succeeds has     *)
(* every frame asked for, once and in order, unless frames were lost on    *)
(* the way, the MCE was stopped or the thread's read() ended.              *)
CompleteHasAll ==
  Succeeds /\ clean /\ whole
    => [i \in DOMAIN got |-> got[i].k] = [i \in 1..n |-> i]

(* With a callback that stops the stores that fail, each of them costs the *)
(* stores behind it one frame, not more.                                   *)
FewMissed ==
  stopping => \A s \in Store \ failed :
                missed[s] <= Cardinality({t \in failed : t < s})

(* A time limit ends every acquisition of copy_frames_mmap, whatever       *)
(* becomes of its frames; the thread has none.                             *)
LoopEnds == pc \in {"loop", "frame"} ~> pc = "ready"
=============================================================================
