# TLA+ models of the MCE Acquisition Software (MAS)

MAS drives the UBC Multi-Channel Electronics (MCE) through a PCI card whose DSP
relays commands to the MCE and writes data frames to host memory.  It is a set
of Linux drivers, a user library and applications.  The models cover what the
parts do to shared state: who may change it, in what order, and what goes wrong
when a call, an interrupt, a timer or an answer comes at a bad moment.

Contents: 1 the system, 2 the modules, 3 the runs, 4 where the code does not
keep what its comments say, 5 the proofs, 6 what is not modelled, 7 the plan.

## 1. The system

| Component | Source | State it keeps | Operations | Module |
| --- | --- | --- | --- | --- |
| Command channels | `driver_c7/dsp_driver.c` | `dsp_state`, `mce_state`, `dsp_cmd_flags`, `reply`, `mce_reply`, two timers, the DMA buffer with the MCE command, `enabled` | `DSPIOCT_COMMAND`, `MCE_COMMAND`, `GET_DSP_REPLY`, `GET_MCE_REPLY`, `RESET_DSP`; reply interrupts; timeouts | `McedspCmd` |
| Frame ring | same | `dframes`: `head_index`, `tail_index`, `last_grant`, `n_frames`, `force_exit`; the grant tasklet | `DSPIOCT_SET_DATASIZE`, `SET_NFRAMES`, `EMPTY`, `FAKE_STOPFRAME`, `FRAME_POLL`, `FRAME_CONSUME`; buffer-information interrupts | `McedspData`, `FrameFifo` |
| Frame memory | same | `dframes.blocks`, `frame_size`, `data_size` | `data_alloc`, the division into frames, the offset of a frame | `FrameLayout` |
| Device lifecycle | same | resources of the card, `enabled`, `data_lock` | probe, remove, open, release, the data lock | `McedspLife` |
| MCE commanding | `mce_library/cmd.c`, `packet.c`, `virtual.c`, `manip.c` | none between calls | send with retries; range, banked, manipulated and virtual parameters | `MceCommand` |
| Acquisition | `mce_library/acq.c`, `data.c`, `data_thread.c`, `multisync.c` | `mce_acq_t`, the stores | create, GO, the two frame loops and their exits, the fan-out to stores | `Acquisition` |
| Frame sorting | `mce_library/frame_manip.c` | one frame and its copy | `sort_columns` | `FrameSort` |
| Storage | `mce_library/files.c`, `dirfile.c` | open files, counts, channel buffers | init, post-frame, flush, cleanup | `FrameDirfile` |
| DSP library | `mce_library/dsp_library.c` | none | command, then collect the reply | `McedspCmd` |
| Log client, log server | `mce_library/socks.c`, `libmaslog.c`, `applications/maslog` | receive buffers per client | connect, receive, cut into lines, log | `LogServer` |
| Legacy driver, commands | `driver_c6/dsp_driver.c`, `mce_driver.c`, `mce_ops.c` | two layered channels, the reservation, priority requests, the state of the device | write, read, release; reply and notification interrupts; timers; the priority tasklet | `LegacyMce` |
| Legacy driver, frames | `driver_c6/data.c`, `data_qt.c`, `data_ops.c` | its own ring, the data mode, pending grants | `SET_DATASIZE`, `QT_CONFIG`, `EMPTY`, `FAKE_STOPFRAME`, poll, consume, `read()`; QTI and NFY interrupts | `LegacyRing` |
| Configuration | `mce_library/config.c`, `context.c`, `cmdtree.c` | tables | lookups | - |
| Tools, bindings, data | the other applications, `python`, `swig`, `config2`, `scripts` | none of interest | wrappers of the library | - |

**Interaction.**  Processes call the library, which issues ioctls on one device
per card.  All processes share the card's two channels and one wait queue.  The
card interrupts with datagrams: a DSP reply, an MCE reply, or the new head of
the frame ring.  The last one may schedule the grant tasklet, which is itself
a user of the DSP channel.  Timers (`HZ/2` and `HZ`) free a channel whose
answer does not come.  An acquisition configures the ring, sends GO as an MCE
command, and then polls, reads in place, sorts, hands the frame to its stores
and consumes it.  The legacy driver has the same job with an older card: an MCE
command takes several DSP commands, and the card notifies the driver of each
reply and, with old firmware, of each frame.  Every library call may print to
the log server over a socket.

**What is hard.**  In the current driver everything shared lives under one
spinlock, but several steps look at it outside: the second look of
`try_get_mce_reply`, the sanity check of a new head, the building of the
`SET_DATA_MULTI` command, the copy of an MCE command to DMA memory.  A command,
its answer, its reader, its timer and a timeout handler that has started but not
got the lock race with each other.  A card may answer late or never.  A grant
may be refused.  Driver and card each keep indices of the same ring and learn of
each other's by messages.  The legacy driver calls back after it has released
its lock, keeps one flag per priority request, and touches its ring without a
lock.  The library's calls are sequences of commands any of which may fail, and
an acquisition has six ways to end.

**What makes each component correct.**

* Channels: a reader gets the reply of its own command; no channel stays taken
  and no call stays blocked; no timeout and no answer affects a later command.
* Ring: frames come out once, in order and unaltered; a full card is let go on.
* Memory: frames do not overlap or cross blocks; card and reader agree where a
  frame is; the search for a block ends.
* Lifecycle: handler and tasklet use nothing that was given back, a removal
  leaves nothing behind, and the data lock stays with the file that took it.
* Commanding: a call changes the words of its range and no others, in whatever
  pieces it is sent, whatever is sent again and wherever it fails.
* Acquisition: it ends, with its own frames, and with all of them if it says so;
  a store that fails costs the others little.
* Sorting and storage: every sample gets to the file of its card, column and
  row; no accepted frame is lost, repeated or put with another interval's.
* Log: a line that is printed and shown is logged once, in order, under its
  client's name.
* Legacy driver: the reservation ends with the transaction, a reply goes to the
  file that wrote the command, no request is lost, no caller waits for nothing;
  each frame read is later than the last, and those left out are counted.

`PROJECT.json` lists the components with their status, and under `hazards` the
lines where these things bite, with the properties that cover them and what they
leave out.

## 2. The modules

### `McedspCmd`: the command channels

The two channels of one card, shared by the processes `Procs`, the grant
tasklet, the interrupt handler and two timers.

*Grain.*  What runs between `DSP_LOCK` and `DSP_UNLOCK` is one step.  An access
outside is a step of its own: the copy of the MCE command (`BeginMceCommand`
fills `cmdBuf`, `Send` comes later), the second look of `try_get_mce_reply`
(`GetLook`, then `GetRecheck`), and the conditions of
`wait_event_interruptible` (`Wait`).  A process that sleeps is `asleep` until
a step calls `wake_up_interruptible` (`WakeAll`); only then does it look again.

*Variables.*  `state`, `ignore`, `reply`, `enabled` and `cmdBuf` are the
driver's.  `timer` says that a timer is pending and `firing` that its handler
has started and waits for the lock: `del_timer` stops the first, not the second.
`pc`, `call` and `last` are a process's place in an ioctl and its locals.
`owed[ch]` is the card: the commands it still has to answer, 0 for a posted MCE
command not yet fetched from the buffer.  `calls`, `cur`, `want` and `sought`
are history: the identity of commands, the last command on a channel, the
command whose reply a process is to collect, the one it began to wait for.  No
guard of the code reads them; `want` also states the callers' discipline.

*Actions.*

| Action | Code |
| --- | --- |
| `BeginCommand`, `BeginMceCommand`, `BeginSetNFrames`, `BeginReset` | `mcedsp_ioctl` up to `try_send_cmd` or the hand-shake |
| `Handshake` | `mcedsp_do_handshake` up to `upload_rep_buffer`, which then sends and collects |
| `SendBusy`, `Send` | the two ways through `try_send_cmd`; `SendOK` and `SendFail` are the outcomes of `raw_send_data` |
| `Wait`, `Signal` | `wait_event_interruptible`, and its end by a signal |
| `BeginGet`, `GetLook`, `GetRecheck`, `Collect` | `try_get_reply`, `try_get_mce_reply` |
| `GrantTask` | `grant_task` as a user of the DSP channel |
| `DspReply`, `MceReply` | the reply cases of `mcedsp_int_handler` |
| `Expire`, `Timeout` | a timer expires; `mcedsp_dsp_timeout`, `mcedsp_mce_timeout` |
| `FetchMce`, `Lose` | the card (external) |

An `MCE_COMMAND` in `want` after its `Send` and a `COMMAND` even after a failed
one are the library's: `mcedsp_send_command_c7` collects unless the ioctl's
result is negative.

*Assumptions about the card.*  It answers the commands of a channel in order, at
any time.  `Faults` names what else may happen, so that each property can be
stated where it holds: `lost` (no answer), `late` (a timer expires while the
card still owes an answer), `slow` (a timer expires while the answer waits for
its reader), `torn` (`raw_send_data` gives up although the card has the whole
command).  Processes may be signalled and sends may fail in every run.
`Disciplined` says that a caller collects a reply before it sends again and does
not collect what it did not send, as the library's functions do; without it
anything goes.

### `McedspData` and `FrameFifo`: the frame ring

The card writes slots of a ring and announces its head (`infos`); the interrupt
handler stores it in three steps (`IsrCheck` without the lock, `IsrUpdate` with
it, `IsrSchedule` after it); the tasklet tells the card the tail in two
(`GrantTask`, `GrantSend`); the acquisition polls, reads in place and consumes;
`SetDatasize` and `SetNFrames` configure, and `Go` follows `SetNFrames` as in
`mcedata_acq_go`.  The channel that carries the commands is abstracted to the
one command the card has not executed, `chan`.

A behaviour has either no fault or all those of the instance (`faults`, chosen
by `Init`): `busy`, a send finds the channel taken by other commands, and
`lost`, the card drops a command.  Order is claimed with them, progress without
them (section 4 says why).

Assumptions about the card, which is external: it refuses a frame that would
make its head meet its tail, announces its head after it has moved and again
while it refuses frames, and takes `SET_DATA_MULTI` as a reset of both indices
(the comment at `set_transfer_params_multi` says so).  `Orderly` restricts
configuration to the time between acquisitions, when nothing is in flight between
driver and card (`Quiet`).  The data lock and the library's order of calls keep it
between acquisitions; that nothing is in flight, the driver (1297-1305) does not
see to.  Without `Orderly` configuration comes at any moment.

`FrameFifo` is what the ring promises: frames come out once each, unaltered and
in order; a configuration drops what is left.  `McedspData!Fifo` instantiates it
with the frames between the driver's tail and the card's head, and
`ImplementsFifo` is the refinement.

### `FrameLayout`: the frame memory

`data_alloc` block by block, the division of the blocks, the command to the card
built in two unlocked steps from the driver's fields, its sending, and the offset
that `FRAME_POLL` computes.  Any number of processes configure at the same time
(`Configurers`).  `own` and `told` are history: whether the division is still the
one that a process made, and whether the card's last command was of that process.
Announcements are abstracted to a head that jumps to any slot of the ring
(`Inform`); their order is `McedspData`'s subject.  The kill switch makes a poll
return without an offset and is left out.  The card finds a frame by the blocks
it was told of (`CardPlace`).

### `McedspLife`: probe, remove, files

`mcedsp_probe` and `mcedsp_remove` step by step (`core` is the place in them),
with what the kernel has handed out (`held`) and which pointers are set (`ptr`);
the interrupt handler in two steps, the grant tasklet in two, two timers; two
files that open, issue ioctls, take and give up the data lock, and close.  A
probe that fails calls the removal with whatever it has.  If it has not mapped the
registers, the removal writes to a null pointer (907) and the thread stops there
with all that was taken (`LowerFaults`, after which `core` is `oops` until the
machine is started again, `Reboot`).  Of the command channel
there is left whether a command is out (`sent`).  Faults, any set of them:
`early` and `late`, a probe that fails before or after the interrupt is
installed; `slow`, a handler or a tasklet that outlasts the millisecond removal
sleeps.  External: the module is not unloaded while a file is open; `free_irq`
waits for the handler, `tasklet_kill` for the tasklet.

### `MceCommand`, `MCMceCommand`: calls of the library

A call on a range becomes pieces of real parameters (`Pieces`, `Banked`), each
piece commands of one card after the other; a write that does not begin at 0
first reads the words before it (`ReadLead`) and writes them back; a reply that
does not match its command makes the command be sent again (`Retried`), executed or
not.  One command with its reply is one step (`Send`), whose outcomes are those the
channels leave it: not sent, no answer, refused, executed and answered, an answer
that is damaged or does not match.  A late answer that passes for that of the same
command is not among them.  The MCE is a
memory of words per card and parameter.  A word is named by where it comes from,
and carries whether `op_xor` was applied to it, so that a word in the wrong place
or manipulated twice shows.  `MCMceCommand` has the parameters and the calls.

### `Acquisition`: one process that takes data

`mcedata_acq_create`, `mcedata_acq_go` with `set_n_frames`, the loop
`copy_frames_mmap` with all its exits (`ExitOf`: a stop, the last frame, the
count, a kill, a time limit, an error), the thread of `data_thread.c` with the
call that waits for it, and `multisync`'s fan-out to the stores.  The frame
buffer is a FIFO, which is what `McedspData` implements; commands are steps with
an outcome.  External: on GO the MCE sends the frames it was told, the last one
marked; a stop ends it with a marked frame.  `Trouble` has five kinds, at most
two in a behaviour: failing commands, lost or damaged frames, failing stores,
other processes that stop the acquisition, a thread that cannot work.

### `FrameSort` and `FrameDirfile`: from frame to file

`FrameSort` is `sort_columns`, one readout card per step; samples are named by
card, row and column, so that a misplaced or lost one shows.  `FrameDirfile`
extends it: each frame is sorted (`SortNext`), then posted.  Four kinds of store:
a directory with a file per channel (`dirfile`), a sequence of them
(`dirfileseq`), a file of whole frames (`flatfile`), a sequence of them
(`fileseq`).  Channels are buffered: a sample is appended to each (`With`), the
buffers are looked at once a period, written when they are half full, and all of
them at a flush, a switch and the end.  Faults: a directory that cannot be made,
files that cannot be opened.

### `LegacyMce`: commands in the legacy driver

The device (`mce_ops.c`: write, read, release, all blocking), the transaction
(`mce_driver.c`: CON, notification, HST or a quiet reply, and its timer) and the
channel (`dsp_driver.c`: one command with its callback and its timer, the
reservation, the priority tasklet, `dsp_send_command_wait`).

*Grain.*  The driver releases its locks before it calls back, so the reply
handler is three steps (`ReplyStart`, `ReplyCallback`, `ReplyEnd`), a timeout of
the channel two (`DspTimer`, `DspExpired`), the tasklet two (`PriorityTask`,
`PriorityDone`); interrupts exclude each other, and interleave with timers,
tasklet and processes.

*Faults*, one kind in a behaviour: `slow` (one timer outruns the card, the MCE
or a handler), `mute` and `dead` (no answer to the MCE's command, or to the
driver's own), `nak` (the card answers ERR), `refuse` (the bus fails), `close` (a
file is closed on its command), `overlap` (a second own command is made before
the tasklet has marked the first as sent).  A property that names faults is
stated for behaviours without them (`Spared`); section 4 says what happens with
them.

### `LegacyRing`: frames in the legacy driver

Both ways frames come: with quiet transfers the card writes the ring by itself
and announces its head (`QtiHandler`); without, it notifies the driver of each
frame (`NfyHandler`), which answers with the address of the slot at the head and
advances it when the card has answered (`Increment`).  Frames are mapped and
given up (`Poll`, `ReadFrame`, `Consume`) or copied by `read()` (`CopyFrame`);
either asks for a grant, which the priority tasklet sends (`TaskSend`,
`TaskDone`).  A configuration is a series of commands by way of the same tasklet
(`QtSteps`, the ones that matter to the ring), the first of which disables
quiet transfers, whereupon the ring is reset.  The card is that of
`fake_mce/dsp_state.c`.

`first`, `out`, `taken`, `refused`, `upset` and `lost` are history: what became
of the frames since the last reset.  `upset` says that the ring was moved from
outside (EMPTY, the fake stop, the torn test of a new head, a grant of a former
division that comes too late); until the next reset nothing is claimed then.
Faults, one kind in a behaviour, are `fail`, `torn`, `empty`, `stop`, `parts`,
`overlap` and `hasty`, explained at the constant.

### `LogServer`: log server and clients

The server is one thread: it selects, accepts at most one connection, receives
once from each readable client (in any number of bytes), and then goes through
its slots (`turn`), cutting one line at a time off what a slot has received
(`LogLine`) until it keeps the rest and looks at the slot's flags (`EndTurn`).  A
byte is known by its client, line and place.  Clients connect, print and close
between any two of these steps.  Slots are taken over by later clients; a client
for whom there is no slot is `refused`.  Fault `cut`: a send is partial or a
connection breaks, once.  A receive that then fails counts all the room as
received, whatever is there (`Stale`); a client whose slot is full is `dropped`
unread.  The first byte of a line is its level, which `log_string` compares with
the server's and does not print.  The server's own level is fixed, so that all that
matters is whether a line is of a level that is shown (`shown`).  What is left of an
overlong line begins with the byte that was kept, which may pass for any level
(`ShownAs`).  `log` has the text that is printed.

### `MCMcedspCmd`, `MCMceCommand` and the modules `*_proofs`

Which process issues which ioctls, and which parameters and calls there are, in
TLC's runs.  `McedspCmd_proofs`, `McedspData_proofs`, `MceCommand_proofs`,
`LegacyMce_proofs`, `LegacyRing_proofs` and `LogServer_proofs` each extend the
module of their name and hold its theorems.  Two hold those of two modules:
`McedspDevice_proofs` extends `FrameLayout` and `McedspLife`, and
`FramesToDisk_proofs` extends `Acquisition` and `FrameDirfile` (this is why the
parts of the second one's specification have names of their own, `LifeInit`,
`LifeNext`, `LifeSpec` and `DirInit`, `DirNext`, `DirSpec`).  Section 5 says what
they prove.

## 3. What the runs check

| Run | Instance | Shows |
| --- | --- | --- |
| `cmd_faults` | a DSP user, and an MCE user who also resets the card; 2 commands; no discipline; `late`, `slow`, `torn`; fairness | a taken channel has a timer or a timeout under way; no sleeper misses its event; every channel becomes idle again and every ioctl returns |
| `cmd_replies` | one process per channel, disciplined; 4 commands; `lost` | types; no answer and no timeout outlives its command; replies reach the caller they belong to |
| `data_fifo` | rings of 2 and 4 slots, 5 frames, 2 configurations between acquisitions, refused grants and lost commands; fairness | order of the four indices; the FIFO; without faults, a full card is let go on and every frame is delivered |
| `data_mixed` | rings of 1 and 2 slots, 1 frame (EMPTY makes it come again), configuration, EMPTY and the kill switch at any time | the tail stays in the ring |
| `layout` | 0 to 4 blocks of 12 units, aligned to 2, sizes from 0 to more than a block, 2 configurers at any moment, 2 configurations, commands that may fail | the search for a block ends; frames do not overlap; card and reader agree where a frame is once the card has the command of the present division |
| `life` | one card, 2 files, every set of faults; unbounded | handler and tasklet are covered; a removal leaves nothing, or faults after a probe that mapped no registers; the data lock is kept |
| `mce_calls` | one process, 2 calls of 82 possible ones on two cards; blocks of 5 words, banks of 2, each command failing, retried once | a write and a read are exact, also when an executed command is sent again; cards change in order |
| `acq` | counts 1, 2 or the MCE's, 2 GOs, 2 stores, a limit of 2 waits; two kinds of trouble; fairness | own frames only; all of them on success, with either loop; a failed store costs one frame; the loop without a thread ends |
| `dirfile` | 5 sets of cards, 2 rows, 2 columns, files of 1, 2 and 5 frames, 8 frames, flushes anywhere | no buffer overflows; samples are where their channel says; each file has one interval's frames |
| `legacy_mce` | 2 users with a command each, 2 own commands, seven faults, one at a time; fairness | the reservation ends; own replies; no missed wake-up; no request is dropped; every command ends |
| `legacy_ring` | rings of 1 to 3 slots, 4 frames (3 in behaviours with trouble), 3 configurations, six faults, one at a time; fairness | each frame read is later than the last and those left out are counted, whatever happened before the last configuration; grants arrive |
| `log_server` | 3 clients, 2 slots, buffers of 3 bytes, a line each of 2 or 4 bytes and its end, shown or not, one cut; fairness | nothing shown is lost, of a line that fills the buffer up to its last byte; lines have their client's name; everything sent is received, or dropped with its connection |

**Bounds.**  Two processes suffice for the races of the channels: every step
touches one process and one channel, and a race is between the owner of a channel
and one other user (the tasklet is a third).  Two commands are enough for a late
answer or timeout to meet a later command; four in `cmd_replies` let each process
send twice, with grants between them.  A ring of 4 slots with 5 frames wraps,
fills and is granted several times, and a second configuration finds indices that
are not 0 (but no old announcement or grant: `Orderly` excludes it; those are in
`data_mixed`).  A quarter of 4 is 1, so the threshold of the tasklet is exercised
on both sides.  The sizes of `layout` (0, below a block aligned and not, a block,
more) hold every case of alignment and division, and with two configurers there
is every race between two configurations.  `life` has no bound: a second file is
the one that does not own the data lock.  In `mce_calls` ranges begin and end
before, at and after each boundary (split 2, activation 4, the ends of two maps),
and a second call meets what the first one left.  In `acq` a second GO meets the
frames, the remembered count and the stores of the first.  In `dirfile` intervals
of 1, 2 and 5 frames against periods of the buffers and 8 frames let a flush, a
period and a switch fall in every order.  In `legacy_mce` one write per file is
enough for a reply to reach the wrong file, and a second own command for a stale
request.  In `legacy_ring` the third configuration follows an acquisition that
went wrong, 1 is a division that is refused, three frames overfill rings of 2 and
3, and the fourth lets a grant of a former division open a smaller ring to the
card.  In `log_server` a line of 2 bytes fits into a buffer and one of 4 is cut
in it, and the third client takes over a slot.  `MaxCalls`, `MaxFrames`,
`MaxFaulty`, `MaxConfigs`, `MaxInfos`, `MaxGos`, `MaxWrites`, `MaxWaits` (of
`LegacyMce`) and `MaxLines` cap counters and are the only bounds in guards.

**Deadlock.**  Runs with `CHECK_DEADLOCK FALSE` are those in which the system
may stop: when the bound on commands, configurations, calls or lines is used up
and nobody has anything more to collect.  `life`, `data_fifo` and `data_mixed`
check it.

**Fairness.**  `McedspCmd!FairSpec` asks that timers expire, that their handlers
run, and that a process that can go on inside a call is scheduled, which is what
the kernel provides.  Nothing is asked of the card and no process has to call
anything.  Since the number of commands is bounded, a process that others keep from
the channel for ever is not seen.  `McedspData!FairSpec` asks that interrupts are served, tasklets run,
the acquisition polls (it does every millisecond), a configurer goes on, and that
the card executes commands and announces its head; without the last two no card
would deliver anything.  The MCE and new configurations are not fair.
`Acquisition!FairSpec` asks only that the loop runs on: that it ends although the
MCE sends nothing is its time limit's work.  `LegacyMce!FairSpec` asks for
interrupts, timers, tasklet, the card and the calls in progress; nobody need
begin one.  `LegacyRing!FairSpec` asks the same of interrupts, tasklet, card and
reader.  `LogServer!FairSpec` asks that the server's loop goes on.

## 4. Where the code does not keep what its comments say

None of these has a run of its own; each was met while modelling and is shown by
TLC with the change named in the last column.

| Where | What the code does | To see it |
| --- | --- | --- |
| `driver_c7/dsp_driver.c:1099` | a reader whose command timed out, and who runs again only after another command was sent, returns that command's reply; the comment (1087) promises `-ENODATA` | `McedspCmd!IdleEndsWait` in `MC_cmd_faults.cfg` |
| `driver_c7/dsp_driver.c:1065` | the DMA buffer of MCE commands is written before the channel is owned, so a second sender replaces the first one's command; the comment (1055) speaks of use during acquisitions | `CardReadsPosted` as a property in `MC_cmd_replies.cfg` with `Ops <- MceOps` |
| `driver_c7/dsp_driver.c:1243` | `DSPIOCT_COMMAND` turns every error into 1, which the library (`dsp_library.c:137`) takes for success; it goes on to collect, and may get another process's reply | `OwnReply` in `MC_cmd_replies.cfg` with `Ops <- DspOps` |
| `driver_c7/dsp_driver.c:426,449` | a grant refused with `-EAGAIN` is not sent again, and `last_grant` says that it was: the card stays full although all frames are consumed | `CardUnblocked` without `faults = {}` |
| `driver_c7/dsp_driver.c:874` | a probe that fails before the interrupt is installed frees an interrupt, writes registers and releases regions it never had; before the registers are mapped the write at 907 goes through a null pointer, and what was taken stays taken | `McedspLife!RemovesWhatWasTaken` as an invariant, and the action `LowerFaults` (fault `early`) |
| `driver_c7/dsp_driver.c:921` | timers and tasklet can be started again after they were stopped, if handler or tasklet outlast the sleep | `McedspLife!FeaturesDisabled` (fault `slow`) |
| `mce_library/frame_manip.c:83` | `sort_columns` counts cards instead of looking for the highest: with a gap in their numbers, cards are dropped; `acq.c:238` allows any mask | `FrameSort!Sorted` in `MC_dirfile.cfg` |
| `mce_library/cmd.c:453` | a read of several cards manipulates the words of the first only, and a banked read leaves the cards' halves one behind the other, as with `rca servo_rst_col0` (`config2/components/cards/rc:168`) | `ReadExact` with `Calls <- CardReads` and the parameters `bankedBoth`, `flippedBoth` |
| `mce_library/cmd.c:222` | the comment (201) means the retry for commands that were transferred in part; it is made for every reply that does not match (`packet.c:57-78`), so that a GO, a stop or a reset that the MCE has executed may be executed twice | `MceCommand!Send` with the outcome `<<"mismatch", TRUE>>` |
| `mce_library/cmd.c:385` | two processes that write single words of one parameter undo each other's writes | `MceCommand!ChangesInRange` with two processes and `Calls <- Elements` |
| `mce_library/acq.c:169` | GO waits for its thread to become idle; a thread that finds no memory ends in an error state, and GO never returns | `Acquisition`: `ThreadNoMemory`, after which `pc = "wait"` for ever |
| `mce_library/data_thread.c:104-116`, `acq.c:162-183` | a thread whose `read()` fails or meets the end of the data becomes idle as after the last frame; GO returns 0 and leaves the status 0 with frames missing | `CompleteHasAll` with `done # "no"` for the thread in `Succeeds` |
| `mce_library/dirfile.c:636-638`, `files.c:103-105` | the count is compared and advanced, and the new number taken from the advanced one: with an interval of one frame the file or directory 0 stays empty, and every frame is in the one numbered after it | `FramesCut` without `interval > 1` |
| `mce_library/dirfile.c:449,629` | a directory sequence does not notice that a directory could not be set up, accepts the frames that follow and loses them, and a channel without a file is never emptied | `FramesCut` and `RoomForSample` without the restriction to open files |
| `driver_c6/dsp_driver.c:621` | after a timeout of a command of the driver's own the callback copies a message that is NULL | `LegacyMce!NoOops` with `Faults = {"dead"}` |
| `driver_c6/dsp_driver.c:727-740` | the tasklet clears its request after the command was sent: a request made in between is lost, and its caller waits for nothing, or the card never hears of a slot | `RequestKept` and `GrantsArrive` without the exception for `overlap` |
| `driver_c6/mce_ops.c:323` | a write that fails to send makes the device idle and wakes nobody | `LegacyMce!NoMissedWakeup` without the exception for `refuse`, with `MaxWrites = 2` |
| `driver_c6/data.c:154` | the test of a new head reads the tail twice while the reader moves it: a sound head counts as "buffer trashed", and the reader is set on slots that it has read | `FramesAccounted` without the change of `upset` in `QtiRest` (fault `torn`) |
| `driver_c6/data.c:226,253` | the fake stop moves the head by two without the modulus, EMPTY moves the indices without the card: stale or foreign frames are read until the next configuration | `FramesAccounted` without the change of `upset` in `FakeStop`, `Empty` |
| `driver_c6/data_qt.c:103`, `dsp_driver.c:719` | a grant of the last division that still waits is sent after the new TAIL, because the configuration's commands go first: the card may be told a slot outside its ring, and overwrites frames or stays full | `FramesAccounted` without `Overtaken`, `GrantsArrive` without `taken > 0` |
| `driver_c6/mce_driver.c:587` | a frame whose notification is refused because the channel is busy is lost without being counted | `FramesAccounted` without `refused` |
| `mce_library/socks.c:378,390` | a receive that fails adds all the room to `recv_idx`, and a slot that is given up keeps it: the slot stays full, a receive with no room reads as the end of the connection, and every later client of the slot is closed unread | `LogServer`: the phase `dropped`; `NothingLost` without `~cut` |
| `applications/maslog/logger.c:283-287` | of a message that fills the buffer the last byte is kept as the first of the next, where `log_string` (117) reads it as a level: it is not printed, and the level may suppress what follows | `NothingLost` without the bound `b.at < MaxMsg` in `Due` |
| `driver_c6/data.c:268,277` | a division that is refused stays set, and the same size is accepted the next time | `SetDatasize`, first disjunct |

## 5. What is proved

`McedspCmd_proofs` proves, for any set of processes, any assignment of ioctls,
any bound on calls, with or without discipline:

* `TypeCorrect`: `Spec => []TypeOK`.  Besides types it holds which ioctls can be
  at which place of a call (`PlaceOK`); `TypeOK` is inductive.
* `TimerGuards`: `Spec => []TimerGuardsChannel`, whatever faults there are.  It is
  inductive with `TypeOK`: the steps that stop a timer (`Collect` and the ignored
  reply) free the channel in the same step, and `Expire` starts the handler.
* `WakeUps`: `Spec => []NoMissedWakeup`, whatever faults there are.  Inductive with
  `TypeOK`: a step that changes `state` wakes everybody, and every other step
  leaves the sleepers' conditions alone.
* `Answers` and `Timeouts`: if `Faults` has none of `late`, `slow` and `torn`
  (`TimelyCard`), then `Spec => []NoStaleAnswer` and `Spec => []NoStaleTimeout`.
  Neither is inductive alone.  That a timeout hits its own command needs that
  the card owes nothing when a timer expires, and that an idle channel owes
  nothing needs that a timeout never frees a channel whose answer is still to
  come.  Their conjunction `Fresh` is inductive with `TypeOK`.

The assumption `TimelyCard` is needed: a late answer is an answer on an idle
channel, by definition.  It says that 0.5 s and 1 s are enough for the card and
for a reader, which the code relies on and does not enforce.

* `RepliesAreOwn`: `Spec => []OwnReply` if besides `TimelyCard` callers collect
  before they send again (`Disciplined`) and no two processes collect from one
  channel (`OneReader`).  `OwnInv` is inductive with `TypeOK` and `Fresh`: who sends has
  collected what it asked for before, and the shared buffer has its command
  (`Callers`); a taken channel is one somebody waits for, unless the answer is to be
  ignored (`Holders`); what the card owes, answers and reads belongs to the command
  that holds the channel (`Replies`).  The rows of
  section 4 about `dsp_driver.c:1099` and `1243` are what happens without them.

`McedspDevice_proofs` proves of `McedspLife`, for any set of files and every set of
faults:

* `Covered`: `LifeSpec => []UsersCovered`.
* `Cleaned`: `LifeSpec => []NothingLeft`: what a removal leaves if it comes to its
  end, and that it does after every probe that had mapped the registers.
* `LockOwned`: `LifeSpec => []LockKept`.

All three rest on `LifeInv`, which says what is held at each place of probe and
removal (`Taken`, `GivenBack`), that no file is open anywhere but at `up`
(`FilesOpen`), that nothing new starts once the driver is disabled (`Started`),
and that what was in flight then is over when the removal has slept (`Quieted`).
None of the three is inductive alone: the handler is covered because the
interrupt is taken last and given back first, and the lock has no owner when the
card is probed again because no file outlives it.  `Quieted` is claimed only of
behaviours without `slow`, as are the parts of `UsersCovered` and `NothingLeft`
that depend on it.  The only assumption is that `NoFile` is no file.

`McedspData_proofs`, for rings of any size, any bounds and sets of faults:

* `Types`, and `TailStays`: `Spec => []TailInRange`, with EMPTY, configurations
  and the kill switch at any time.  `RangeInv` adds what a grant, a configuration
  and an interrupt have in hand at each place.
* `RingStays`: `Spec => []RingOrder`, if the ring is configured between
  acquisitions (`Orderly`) and nobody issues EMPTY (`~Empties`).  The order of
  four indices around a ring is not inductive: an interrupt that is under way, a
  grant that was taken and not sent, an announcement that the driver has not
  heard of and a configuration that has told the card only half each need their
  own bound (`Indices`, `Tails`, `Heads`, `Configuring`, `Unsynced`, `Reading`).
  The lemmas are about distances modulo the size of the ring.
* `FramesInOrder`: `Spec => ImplementsFifo`, the refinement of `FrameFifo`, under
  the same assumptions: each step is a put, a get, a flush or a stutter.

Both assumptions are what the ring rests on in the code as well: `data.c` moves
the indices without asking the card (section 6).

`McedspDevice_proofs` of `FrameLayout`, for any blocks, alignment, data sizes and
configurations:

* `PollEnds`: `Spec => []SearchEnds`, and `LaidOut`: `Spec => []FramesApart`.  By
  `Division` the driver's numbers are those of some data size, whoever configures;
  the rest is arithmetic of quotients.
* `CardAgrees`: `Spec => []SamePlace`, for any number of configurers.  `Telling`
  says that the parameters on their way are those of the present division as long as
  nobody else has divided the memory anew (`own`), and that the card has those of the
  present division once it took them from the process that made it (`told`).  It
  claims nothing after a command that failed or that another division has overtaken,
  because the driver goes on with its new division while the card has the old one.

`MceCommand_proofs`, for any parameters, calls and processes:

* `WritesAreExact`: `Spec => []WriteExact`, for descriptions in which a word has
  one name (`WellDescribed`: maps do not overlap, no card is named twice).  What
  `FlattenSeq` concatenates is found with a least counterexample (`FlattenIs`);
  from it, `PiecesAre`: the ranges made of a call are disjoint, each leads every
  index to the cell that it names, and together they lead all.  `CallInv` is
  inductive: of each process, the ranges left (`PlanIs`), the buffer manipulated
  where the range served is (`BufferIs`), the words before the range as they are
  in the memory (`LeadIs`), and what the memory has got so far (`WrittenIs`).
  A command may have been executed before it is sent again: then what it writes is
  in the memory already.  Another process's command ends `alone`, and nothing is
  claimed after it.
* `ReadsAreExact`: `Spec => []ReadExact`, where what is read of banked,
  manipulated or mapped words is on one card (`ReadsOneCard`; section 4 shows
  what happens on several).  `ReadInv` adds to `CallInv` that a read has brought
  all words but those of the ranges left.
* `CardsComeInOrder`: `Spec => []CardsInOrder`, where a write to several cards is
  not banked and stays within the parameter (`WritesByCard`; banked, the cards
  get their lower halves in order and then the upper ones).  `OrderInv` adds that
  cards before the one served have all words and those after it none, and
  `FreshInv` that a word of a call was not in the memory before it, so that a
  changed word shows that its card was served.

TLC evaluates the three hypotheses on the instance of `MC_mce_calls`.

`FramesToDisk_proofs` of `Acquisition`, for any counts, limits, stores and number of
GOs:

* `FramesAreOwn`: `Spec => []OwnFrames`, `CompleteIsAll`: `Spec =>
  []CompleteHasAll`, `FewAreMissed`: `Spec => []FewMissed`.  `Run` follows the
  frames of the present GO: those taken, those in the buffer and those the MCE
  has still to send are its own, in order and none twice; `Between` says that
  nothing is left when a clean GO begins; `Complete` that none is missing while
  none was lost.  Success is that GO returns 0 with status 0, from either loop; a
  thread whose read() failed or met the end of the data is left out, since the
  code reports success for it too.

`FramesToDisk_proofs` of `FrameDirfile`, for any cards, rows, columns, headers,
intervals and number of frames:

* `RoomStaysLeft`: `DirSpec => []RoomForSample`.  A buffer is bounded by the frames
  since the last look at it (`Room`); the bound survives flushes and switches at
  any place.
* `SamplesAreOwn`: `DirSpec => []OwnSamples`.  `Sorting` says how far the sorter's
  three loops are, in digits of the mixed radix cards, rows, columns.  A gap in the
  cards' numbers is excepted in the property (section 4).
* `FramesAreCut`: `DirSpec => []FramesCut`.  `Switching` says at which frame the
  present file began, which makes its number that of the frame's interval (one
  more where the interval is one frame, as the code has it); `IsCut` that what a
  file and its buffers have together is its interval's frames.  Files that cannot
  be opened are excepted in the property (section 4).

`LegacyMce_proofs`, for any files and commands and every set of faults:

* `NoReservationLeft`: `Spec => []ReservedOnlyWaiting`, `ReadsAreOwn`:
  `Spec => []OwnReply`, `WokenInTime`: `Spec => []NoMissedWakeup`, `RequestStays`:
  `Spec => []RequestKept`.  The faults in whose presence a property fails are
  excepted in the property itself (`Spared`).  `Inv` follows one command through
  the DSP channel (`Channel`, `Reservation`, `Released`), one transaction through
  its states and its two interrupts (`Transaction`), and one file through the
  device (`Device`, `Own`, `Sleepers`, `Kept`); none of the four is inductive
  alone.

`LegacyRing_proofs`, for any sizes of the ring, bounds and sets of faults, with
quiet transfers and without:

* `TypesHold`: `Spec => []TypeOK`.
* `FramesStayAccounted`: `Spec => FramesAccounted`, of each step that reads a frame: it
  is later than all read since the last reset, and the frames left out up to it have
  been counted.  That it is later rests on the order of the slots: along the ring
  from the reader to the card's head the frames rise, and those read are before them,
  also after the card has dropped some.  `RingInv` excepts the rings
  moved from outside with one predicate, `upset`, which only a configuration takes
  back; everything else is claimed of all faults alike.  Nothing runs while the
  card is being configured, and until the new settings are complete the ring is as
  it was reset (`Fresh`) and the card has heard just the parameters sent so far, so
  that neither a frame nor a grant of the former division can follow.  From then on
  the ring is `Still` or it flows.  With quiet transfers `Flow` relates four
  indices, the driver's and the card's head and tail: what the card has announced
  and the driver has not heard of (`Heads`, `Messages`), which slot holds which
  frame or lost one (`Frames`), and which slots were granted but not yet taken
  notice of (`Grants`).  Without them (`ClassicFlow`) there is one head, and it
  moves when the card has answered.  Both say what is in the ring with `Window`s,
  the slots between two indices, and the lemmas are about distances around it.

The assumption is that the sizes of a ring are positive, that there is a largest, and
that one is larger than 1.

`LogServer_proofs`, for any clients, slots, lengths and numbers of lines, and receive
buffers of at least two bytes:

* `NothingIsLost`: `Spec => []NothingLost`, and `LinesAreOwn`: `Spec => []OwnLines`.
  What a client sends is one stream, its name and then its lines, in which a position
  is a line and a place.  `Piece` says of a buffer or a wire that it has the bytes of
  a stream between two positions, each once and in order, and `InLog` that the file
  has nothing of the client's but bytes before a position, in order and once, and all
  of those that it owes (`Owed`: of a line that is shown, what comes before the last
  byte of a full buffer).  `Whole` is inductive: for each
  client there are two positions, one where the file ends and its slot begins and one
  where the slot ends and its wire begins (`Followed`), and a slot that nobody has is
  empty (`SlotIs`), so that the first thing read from a client is its name, whatever
  name was left there.  What is printed next begins with the first byte of a line or
  with a byte that was kept (`Starts`); in the first case the level is the line's own
  and its due bytes are printed, in the second nothing of it is due (`LogOwes`).  As
  the properties do, it claims nothing after a cut send or a
  broken connection, nor of clients that were refused.  That a buffer has two bytes
  is needed: of a full buffer one byte is kept, which would fill a buffer of one byte
  for ever.

**Only model-checked.**  The seven liveness properties (`NothingStuck`,
`CardUnblocked`, `FramesDelivered`, `LoopEnds`, `CommandEnds`, `GrantsArrive`,
`AllReceived`): their proof needs fairness and `ENABLED`, which are out of the
prover's reach.  All other properties of the runs have theorems.

## 6. What is not modelled

* In the current driver: `DSPIOCT_RESET_MCE`, `RESET_SOFT`, the raw register
  ioctls and the queries, which change no state of the driver; the hand-shake
  lines between handler and card and the size checks of a datagram (the card is
  assumed to follow the protocol); failures of `kmalloc`, which return before any
  state changes; `mcedsp_mmap`; several cards, which share nothing but the list
  they are in; a device that is unbound while files are open.
* In the ring, frames larger than a block (`n_frames` becomes 0): `FrameLayout`
  has them, the division in the interrupt handler does not.  In `FrameLayout`, a
  reset of the card, which makes it forget its parameters; and nothing is claimed
  once two configurers have left the card with the parameters of one and the driver
  with the other's, which they can, since the command is built and sent after the
  unlock.
* In `McedspCmd` the ways in which `raw_send_data` fails are one (`SendFail`), and
  the grant tasklet's look at `enabled` and its send (421-441) are one step: a grant
  that looked before a reset of the card disabled the driver and is sent after it is
  left out.  In `McedspLife` the first steps of the probe, up to the first resource,
  are one (`StartProbe`).
* After EMPTY the driver's indices and the card's disagree and frames are
  consumed again; nothing but the tail's range is claimed then.
* In commanding: a late answer that passes for that of the command sent after it; the
  check of a whole block (`mcecmd_write_block_check`) and the
  lookup of parameters in the configuration.
* In acquisition: the callback for single rows and frames (`rambuff`), and
  `MCETHREAD_STOP`, which nobody sets.
* In storage: decimation, and writes that fail after a file was opened, which
  the code does not notice.
* In the legacy driver: non-blocking files, the ioctls that reset card or MCE,
  readers that ignore the data lock, the lock itself, a division into 0 slots.
  A wait in `dsp_send_command_wait` that a signal ends (659-662), which clears its
  flags while the request stays.  `mce_release` reads what it has just freed
  (`mce_ops.c:402-409`); it is modelled as if the values were still there.  Readers do
  not sleep: `data.c:111` wakes them before it moves the head (118), so that a
  blocking `read()` may sleep on although the last frame is there.
* In the log: the server's own commands, those that set its level among them.
* Some properties except the faults with which the code breaks them; the hazards in
  `PROJECT.json` say where, and section 4 what happens.
* Configuration files, the command line tools, ramps and servos (single
  processes that call the library), the Jam player (third-party), the bindings,
  scripts and tables.

`PROJECT.json` gives each component's status.

## 7. The plan

1. Composition: `McedspCmd` and `McedspData` meet in `chan` and the grant; a
   module that instantiates both replaces the fault `busy` by the channel's real
   state.
2. The data lock of the legacy driver and its leech readers; the non-blocking
   paths of its device files.
