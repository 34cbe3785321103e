----------------------------- MODULE McedspLife -----------------------------
(***************************************************************************)
(* The life of one card in driver_c7/dsp_driver.c: mcedsp_probe takes      *)
(* memory, device, regions, registers and interrupt one after the other,   *)
(* mcedsp_remove gives them back, and is also what a failing probe calls.  *)
(* Interrupt handler, grant tasklet, timers and open files use what probe  *)
(* took, and the data lock belongs to the open files.                      *)
(*                                                                         *)
(* Of the command channel (McedspCmd) there is left whether a command is   *)
(* out, and its timer.  What the PCI core, the VFS and the card do is      *)
(* external: the module is not unloaded while a file is open, free_irq     *)
(* waits for the handler, tasklet_kill for the tasklet.                    *)
(***************************************************************************)


CONSTANTS
  Files,   \* open files of the device
  NoFile

ASSUME LifeAssumption == NoFile \notin Files

VARIABLES
  faults,    \* what may go wrong, chosen once.  early: probe fails before the
             \* interrupt is installed; late: in the hand-shake that follows;
             \* slow: handler or tasklet outlast the millisecond that
             \* mcedsp_remove sleeps
  core,      \* the place in mcedsp_probe or mcedsp_remove; "oops" when the
             \* kernel has stopped the thread that was there
  held,      \* what the kernel has given the driver
  ptr,       \* which of dsp->reg, dsp->reply_buffer_dma_virt are not NULL
  enabled,   \* dsp->enabled
  isr,       \* mcedsp_int_handler runs, and has seen enabled
  grantlet,  \* the grant tasklet: scheduled?, running?
  sent,      \* a command is out on the DSP channel
  timers,    \* the pending timers
  file,      \* what each file is doing
  dataLock,  \* dsp->data_lock
  owners     \* history: who took the data lock and still relies on it

lifeVars == <<faults, core, held, ptr, enabled, isr, grantlet, sent, timers,
              file, dataLock, owners>>
work == <<isr, grantlet, sent, timers>>
user == <<file, dataLock, owners>>

(* The steps of mcedsp_probe and of mcedsp_remove, in order. *)
Probing  == {"blocks", "reply", "device", "regions", "regs", "check", "irq",
             "shake", "upload", "collect"}
Removing == {"disable", "lower", "dspTimer", "mceTimer", "grantlet", "freeIrq",
             "freeReply", "freeBlocks", "unmap", "release"}
Resource == {"blocks", "reply", "device", "regions", "regs", "irq"}

InUse == {f \in Files : file[f] # "closed"}

(* Without "slow", what was in flight when enabled was cleared is over when *)
(* mcedsp_remove has slept.                                                 *)
Settled == ~isr /\ ~grantlet.due /\ ~grantlet.run

LifeTypeOK ==
  /\ faults \subseteq {"early", "late", "slow"}
  /\ core \in {"out", "up", "oops"} \cup Probing \cup Removing
  /\ held \subseteq Resource /\ ptr \subseteq {"reply", "regs"}
  /\ enabled \in BOOLEAN /\ sent \in BOOLEAN
  /\ isr \in BOOLEAN /\ grantlet \in [due : BOOLEAN, run : BOOLEAN]
  /\ timers \subseteq {"dsp", "mce"}
  /\ file \in [Files -> {"closed", "open", "ioctl"}]
  /\ dataLock \in Files \cup {NoFile}
  /\ owners \subseteq Files

LifeInit ==
  /\ faults \in SUBSET {"early", "late", "slow"}
  /\ core = "out" /\ held = {} /\ ptr = {} /\ enabled = FALSE
  /\ isr = FALSE /\ grantlet = [due |-> FALSE, run |-> FALSE] /\ sent = FALSE /\ timers = {}
  /\ file = [f \in Files |-> "closed"]
  /\ dataLock = NoFile /\ owners = {}

-----------------------------------------------------------------------------
(* mcedsp_probe.  A step that is refused goes to mcedsp_remove.            *)

(* The module is loaded, which clears dspdata, and the card found. *)
StartProbe ==
  /\ core = "out"
  /\ core' = "blocks"
  /\ ptr' = {} /\ enabled' = FALSE /\ sent' = FALSE /\ dataLock' = NoFile
  /\ UNCHANGED <<held, isr, grantlet, timers, file, owners>>

(* One resource is asked for: on to the next step, or to the removal.  The *)
(* buffer of frames is never refused: data_alloc returns 0 without blocks. *)
Take(r, next) ==
  /\ core = r
  /\ \/ /\ held' = held \cup {r}
        /\ ptr' = ptr \cup ({r} \cap {"reply", "regs"})
        /\ core' = next
     \/ /\ r # "blocks"
        /\ "early" \in faults
        /\ ptr' = ptr \ {r}
        /\ core' = "disable"
        /\ UNCHANGED held
  /\ UNCHANGED <<enabled, work, user>>

(* The registers are used to reset and check the card. *)
CheckCard ==
  /\ core = "check"
  /\ \/ core' = "irq"
     \/ "early" \in faults /\ core' = "disable"
  /\ UNCHANGED <<held, ptr, enabled, work, user>>

(* mcedsp_do_handshake: the card shakes hands, the driver is enabled ... *)
Handshake ==
  /\ core = "shake"
  /\ \/ enabled' = TRUE /\ core' = "upload"
     \/ "late" \in faults /\ core' = "disable" /\ UNCHANGED enabled
  /\ UNCHANGED <<held, ptr, work, user>>

(* ... and sends the card the address of its reply buffer. *)
UploadSend ==
  /\ core = "upload" /\ ~sent
  /\ sent' = TRUE /\ timers' = timers \cup {"dsp"}
  /\ core' = "collect"
  /\ UNCHANGED <<held, ptr, enabled, isr, grantlet, user>>

UploadDone ==
  /\ core = "collect"
  /\ \/ /\ sent' = FALSE /\ timers' = timers \ {"dsp"}
        /\ core' = "up"
        /\ UNCHANGED enabled
     \/ /\ "late" \in faults
        /\ enabled' = FALSE /\ core' = "disable"
        /\ UNCHANGED <<sent, timers>>
  /\ UNCHANGED <<held, ptr, isr, grantlet, user>>

Probe ==
  \/ StartProbe
  \/ Take("blocks", "reply") \/ Take("reply", "device")
  \/ Take("device", "regions") \/ Take("regions", "regs")
  \/ Take("regs", "check") \/ CheckCard \/ Take("irq", "shake")
  \/ Handshake \/ UploadSend \/ UploadDone

-----------------------------------------------------------------------------
(* mcedsp_remove.                                                          *)

(* The module is unloaded: no file is open. *)
StartRemove ==
  /\ core = "up"
  /\ InUse = {}
  /\ core' = "disable"
  /\ UNCHANGED <<held, ptr, enabled, work, user>>

Cleared == FALSE

Disable ==
  /\ core = "disable"
  /\ enabled' = Cleared
  /\ core' = "lower"
  /\ UNCHANGED <<held, ptr, work, user>>

(* The mode register is written, then mcedsp_remove sleeps. *)
Lower ==
  /\ core = "lower"
  /\ "regs" \in ptr
  /\ "slow" \in faults \/ Settled
  /\ core' = "dspTimer"
  /\ UNCHANGED <<held, ptr, enabled, work, user>>

(* dsp->reg is not tested first: when mcedsp_probe has failed before it    *)
(* mapped the registers, the write faults.  The thread is stopped there,   *)
(* and what the driver holds stays held.                                   *)
LowerFaults ==
  /\ core = "lower"
  /\ "regs" \notin ptr
  /\ core' = "oops"
  /\ UNCHANGED <<held, ptr, enabled, work, user>>

(* The machine is started again: only then is the memory free. *)
Reboot ==
  /\ core = "oops"
  /\ core' = "out" /\ held' = {}
  /\ UNCHANGED <<ptr, enabled, work, user>>

DelTimerSync(here, t, next) ==
  /\ core = here
  /\ timers' = timers \ {t}
  /\ core' = next
  /\ UNCHANGED <<held, ptr, enabled, isr, grantlet, sent, user>>

TaskletKill ==
  /\ core = "grantlet"
  /\ ~grantlet.due /\ ~grantlet.run
  /\ core' = "freeIrq"
  /\ UNCHANGED <<held, ptr, enabled, work, user>>

IsrGone_NoWait == TRUE
IsrGone == ~isr

FreeIrq ==
  /\ core = "freeIrq"
  /\ IsrGone
  /\ held' = held \ {"irq"}
  /\ core' = "freeReply"
  /\ UNCHANGED <<ptr, enabled, work, user>>

(* The pointers of what is freed are not cleared. *)
FreeReply ==
  /\ core = "freeReply"
  /\ held' = IF "reply" \in ptr THEN held \ {"reply"} ELSE held
  /\ core' = "freeBlocks"
  /\ UNCHANGED <<ptr, enabled, work, user>>

FreedBlocks_None == {}
FreedBlocks == {"blocks"}

DataFree ==
  /\ core = "freeBlocks"
  /\ held' = held \ FreedBlocks
  /\ core' = "unmap"
  /\ UNCHANGED <<ptr, enabled, work, user>>

Unmap ==
  /\ core = "unmap"
  /\ held' = IF "regs" \in ptr THEN held \ {"regs"} ELSE held
  /\ core' = "release"
  /\ UNCHANGED <<ptr, enabled, work, user>>

Release ==
  /\ core = "release"
  /\ held' = held \ {"device", "regions"}
  /\ core' = "out"
  /\ UNCHANGED <<ptr, enabled, work, user>>

Remove ==
  \/ StartRemove \/ Disable \/ Lower \/ LowerFaults
  \/ DelTimerSync("dspTimer", "dsp", "mceTimer")
  \/ DelTimerSync("mceTimer", "mce", "grantlet")
  \/ TaskletKill \/ FreeIrq \/ FreeReply \/ DataFree \/ Unmap \/ Release
-----------------------------------------------------------------------------
(* Interrupt handler, tasklet and timers.                                  *)

(* The line may be shared: the handler runs from request_irq on. *)
Interrupt ==
  /\ ~isr
  /\ "irq" \in held /\ enabled
  /\ isr' = TRUE
  /\ UNCHANGED <<core, held, ptr, enabled, grantlet, sent, timers, user>>

(* A reply leaves the channel taken; a new head may schedule the tasklet. *)
IsrServe ==
  /\ isr
  /\ isr' = FALSE
  /\ grantlet' \in {grantlet, [grantlet EXCEPT !.due = TRUE]}
  /\ UNCHANGED <<core, held, ptr, enabled, sent, timers, user>>

GrantStart ==
  /\ grantlet.due /\ ~grantlet.run
  /\ grantlet' = [due |-> FALSE, run |-> TRUE]
  /\ UNCHANGED <<core, held, ptr, enabled, isr, sent, timers, user>>

(* grant_task does not look at enabled. *)
GrantSend ==
  /\ grantlet.run
  /\ grantlet' = [grantlet EXCEPT !.run = FALSE]
  /\ IF sent THEN UNCHANGED <<sent, timers>>
     ELSE sent' = TRUE /\ timers' = timers \cup {"dsp"}
  /\ UNCHANGED <<core, held, ptr, enabled, isr, user>>

Timeout(t) ==
  /\ t \in timers
  /\ timers' = timers \ {t}
  /\ sent' = IF t = "dsp" THEN FALSE ELSE sent
  /\ UNCHANGED <<core, held, ptr, enabled, isr, grantlet, user>>

-----------------------------------------------------------------------------
(* Files.  The device is registered when the card has been probed.         *)

Open(f) ==
  /\ file[f] = "closed"
  /\ enabled /\ core = "up"
  /\ file' = [file EXCEPT ![f] = "open"]
  /\ UNCHANGED <<core, held, ptr, enabled, work, dataLock, owners>>

Ioctl(f) ==
  /\ file[f] = "open"
  /\ file' = [file EXCEPT ![f] = "ioctl"]
  /\ UNCHANGED <<core, held, ptr, enabled, work, dataLock, owners>>

(* A send that finds the channel free, a collection, a reset of the card   *)
(* (mcedsp_do_handshake again), or anything that changes nothing.  No      *)
(* ioctl looks at enabled.                                                 *)
IoctlEnd(f) ==
  /\ file[f] = "ioctl"
  /\ file' = [file EXCEPT ![f] = "open"]
  /\ \/ /\ ~sent /\ sent' = TRUE
        /\ \E ts \in {{"dsp"}, {"dsp", "mce"}} : timers' = timers \cup ts
        /\ UNCHANGED enabled
     \/ /\ sent /\ sent' = FALSE /\ timers' = timers \ {"dsp"}
        /\ UNCHANGED enabled
     \/ enabled' \in BOOLEAN /\ UNCHANGED <<sent, timers>>
     \/ UNCHANGED <<sent, timers, enabled>>
  /\ UNCHANGED <<core, held, ptr, isr, grantlet, dataLock, owners>>

(* data_lock_operation.  LOCK_RESET, of any file, does not take the lock.  *)
LockDown(f) ==
  /\ file[f] = "open"
  /\ dataLock = NoFile
  /\ dataLock' = f /\ owners' = owners \cup {f}
  /\ UNCHANGED <<core, held, ptr, enabled, work, file>>

Unlocked_Any(f) == NoFile
Unlocked(f) == IF dataLock = f THEN NoFile ELSE dataLock

LockUp(f) ==
  /\ file[f] = "open"
  /\ dataLock' = Unlocked(f) /\ owners' = owners \ {f}
  /\ UNCHANGED <<core, held, ptr, enabled, work, file>>

LockReset(f) ==
  /\ file[f] = "open"
  /\ dataLock' = NoFile /\ owners' = {}
  /\ UNCHANGED <<core, held, ptr, enabled, work, file>>

(* mcedsp_release. *)
Close(f) ==
  /\ file[f] = "open"
  /\ file' = [file EXCEPT ![f] = "closed"]
  /\ dataLock' = Unlocked(f) /\ owners' = owners \ {f}
  /\ UNCHANGED <<core, held, ptr, enabled, work>>

-----------------------------------------------------------------------------

LifeNext ==
  /\ UNCHANGED faults
  /\ \/ Probe \/ Remove \/ Reboot
     \/ Interrupt \/ IsrServe \/ GrantStart \/ GrantSend
     \/ \E t \in {"dsp", "mce"} : Timeout(t)
     \/ \E f \in Files :
          \/ Open(f) \/ Ioctl(f) \/ IoctlEnd(f)
          \/ LockDown(f) \/ LockUp(f) \/ LockReset(f) \/ Close(f)

LifeSpec == LifeInit /\ [][LifeNext]_lifeVars

-----------------------------------------------------------------------------
(* The interrupt handler never touches registers or reply buffer that are  *)
(* gone: mcedsp_remove frees the interrupt before it frees anything else.  *)
(* Nor does the grant tasklet, which writes to the registers, if it has    *)
(* run by the time mcedsp_remove has slept.                                *)
UsersCovered ==
  /\ isr => {"regs", "reply", "irq"} \subseteq held
  /\ grantlet.run /\ "slow" \notin faults => "regs" \in held

(* When mcedsp_remove has come to its end nothing of the card is left: no  *)
(* resource, no handler, and (unless the tasklet was late) no timer or     *)
(* tasklet that would run in a module that is unloaded.  It comes to its   *)
(* end after any probe that had mapped the registers, the failed ones      *)
(* included; after an earlier failure it faults, with all that was taken   *)
(* still held.                                                             *)
NothingLeft ==
  /\ core = "out" =>
       /\ held = {} /\ ~isr /\ ~enabled
       /\ "slow" \notin faults => timers = {} /\ Settled
  /\ core = "oops" => "early" \in faults /\ "regs" \notin held

(* mcedsp_remove uses the registers, frees the interrupt and releases the  *)
(* regions only if mcedsp_probe got that far.  The code does not see to    *)
(* that, and no run checks it.                                             *)
RemovesWhatWasTaken ==
  /\ core = "lower" => "regs" \in held
  /\ core = "freeIrq" => "irq" \in held
  /\ core = "freeReply" /\ "reply" \in ptr => "reply" \in held
  /\ core = "unmap" /\ "regs" \in ptr => "regs" \in held
  /\ core = "release" => {"device", "regions"} \subseteq held

(* "Now disable higher-level internal features": after tasklet_kill no     *)
(* timer and no tasklet is left to run.                                    *)
FeaturesDisabled ==
  core \in {"freeIrq", "freeReply", "freeBlocks", "unmap", "release"} =>
    timers = {} /\ ~grantlet.due /\ ~grantlet.run

(* The data lock belongs to the open file that took it, until that file    *)
(* gives it up, is closed, or someone resets the lock: no other file's     *)
(* LOCK_UP or release takes it away.                                       *)
LockKept ==
  /\ dataLock # NoFile => file[dataLock] # "closed"
  /\ owners = {dataLock} \ {NoFile}
=============================================================================
