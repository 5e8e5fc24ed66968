# TLA+ models and proofs of the MT7927 Wi-Fi driver

These modules model the concurrency of the Linux driver under `src/src/mt76`:
the MT7927/MT7925 PCIe driver (`mt7925/`), the code it shares with MT7921
(`mt792x_*`, `mt76_connac_*`) and the mt76 core. TLC checks them on small
instances; TLAPS proves the main safety properties for all values of the
constants. Line numbers below are relative to `src/src/mt76` unless said otherwise.

## 1. Inventory of the system

Built by `src/Makefile`: the mt76 core (mmio, dma, mac80211, tx, agg-rx, mcu, wed,
scan, channel, pci, ...), mt76-connac-lib, mt792x-lib, mt7921, mt7925-common with
`mt7927.ko`, and the Bluetooth modules btusb and btmtk. Everything else under
`src/src` (other mt76 chips, USB/SDIO back ends, other Bluetooth drivers) is
vendored upstream code that is not built.

| Component | State it keeps | Operations | Hard behaviour | Correct when |
|---|---|---|---|---|
| Runtime PM (`mt76_connac.h`, `mt76_connac_mac.c`, `mt792x_mac.c`, `mt792x_core.c`) | `MT76_STATE_PM`, `pm.wake.count`, `pm.enable`, parked frames, ownership register | `pm_ref/unref`, `ps_work`, `wake_work`, `mac_work`, `mutex_acquire/release`, `queue_skb` | five contexts, two works that cancel each other, failing handshakes, wait with a timeout | nobody uses a sleeping chip; no frame or queue is forgotten; a quiet chip sleeps |
| Block-ack reordering (`agg-rx.c`) | `head`, slots, `started`, `stopped`, the RCU pointer, `reorder_work` | file a frame, release, BAR, `reorder_work`, start, stop | lost, repeated, late frames; wrap of sequence numbers; stop against poller and work | in order, at most once, nothing stuck |
| Transmit rings (`dma.c`) | `head`, `tail`, `queued`, entries, hardware indices | add, kick, clean, flush, reset | two cleaners, producer without the cleaner's lock, stale index, reset | FIFO, exactly once, hardware never reads a freed buffer |
| Transmit tokens (`tx.c`, `mt7925/mac.c`) | idr, `token_count`, `blocked` | consume, release, tx-free event, reset | decision under a lock, executed after it; reset | pool never empty under the worker, no token lost, a blocked queue opens again |
| Remain on channel (`mt7925/main.c`) | `MT76_STATE_ROC`, token, grant flag, timer, work | request, grant, timeout, abort, expiry, suspend, removal of a station | grant against timer against abort; a synchronous cancel under the mutex the work wants | every request ends, every callback returns |
| MCU transport (`mcu.c`, `mt7925/mcu.c`) | sequence number, `res_q`, `MT76_MCU_RESET` | send, wait, parse, event | late answers, timeout, reset during the wait | answer belongs to the command; sender returns |
| Interrupts and NAPI (`mt792x_dma.c`, `mmio.c`) | `irqmask`, NAPI states, enable register | handler, tasklet, poll, complete | masking against new interrupts, sleeping chip | no ring with work is left unscheduled |
| Receive rings (`dma.c`) | indices, buffers, fragment head | fill, dequeue, fragments, reset | exhaustion, frames over several descriptors | no buffer lost or delivered twice |
| Transmit scheduling (`tx.c`, `util.c`) | pending lists, `tx_offchannel`, ac lists, worker bits | enqueue, schedule, burst, power-save release | queue blocked in the middle, lost wake-up of the worker | no frame stranded |
| Transmit status (`tx.c`, `mt7925/mac.c`, `mac80211.c`) | packet-id idr of each station, `wcid_list`, `cb->flags`, `dev->wcid` | add, report, DMA done, expire, flush, removal of a station | two halves in either order, lost and late reports, ids and indices used again | each frame given back once, by whoever comes last; no id forgotten |
| Recovery, suspend, resume (`mt7925/mac.c`, `pci_mac.c`, `pci.c`) | `hw_full_reset`, `fw_assert`, `suspended`, `hif_idle` | `mac_reset_work`, `mac_reset`, suspend, resume | every step can fail; races with all of the above | either everything runs again or nothing is left half-way |
| Firmware download (`mt76_connac_mcu.c`) | patch semaphore, `FW_N9_RDY` | semaphore, patch, regions, start | failure at each step | semaphore always given back |
| Probe (`mt7925/pci.c`) | CB_INFRA remap, reset bits, ownership | probe, remove | order of register writes | unwinding frees all |
| Scan, regd, channel contexts, stations, MLO links | tables of links and wcids, `scan_event_list` | mac80211 callbacks | serialised by the wiphy mutex | tables agree with mac80211 |
| Formats, debugfs, EEPROM, SAR, core dump, Bluetooth, scripts, `src-legacy`, `tests` | - | - | little or no concurrency | - |

How they interact: mac80211 callbacks take `dev.mutex` through
`mt792x_mutex_acquire`, which wakes the chip; they send commands through the MCU
transport, whose answers come through a receive ring, NAPI and `res_q`. Frames go
from mac80211 through `mt792x_tx` (parked while the chip sleeps), the tx worker,
tokens and a transmit ring to the hardware, and come back as tx-free events. Received
frames pass the reordering buffer. A command that times out or a failed handshake
queues `reset_work` on the ordered workqueue that also runs `ps_work` and `wake_work`.

`PROJECT.json` lists the components with their status, and the hazards with the line
where each bites and the properties that cover it.

## 2. Modules

| Module | Models | State and actions |
|---|---|---|
| `PowerSave` | runtime PM | one `ctx` per transmit caller and poller, one `task` per mutex user, `wq` for the work that the ordered queue runs. An action per critical section: `PmRef`, `PmUnref`, `ParkFrame`, `Ps*` for the steps of `ps_work` (mutex test, token test, test-and-set under the lock, SET_OWN, cancelling mac_work), `Wake*` for those of `wake_work` (CLR_OWN, re-initialisation, clearing the bit, handing out frames), `Task*` for a user of `dev.mutex`; `mac_work` runs from `TaskStart` on, before it has the mutex |
| `DeviceLease` | abstract specification of `PowerSave` | `Enter`, `Leave`, `Doze`, `Handshake`, `Rouse` |
| `MCPowerSave` | instances of `PowerSave` for TLC | symmetry set |
| `PowerSaveProofs` | proofs about `PowerSave` | - |
| `AggRx` | one reordering session | `NapiLook` reads the session pointer without the lock; the other `Napi*` actions are one critical section each; `WorkRelease` and `WorkFinish` are `reorder_work` inside and outside the lock; `Stop*` are the three steps of a stop |
| `TxRing` | one descriptor ring | `Add` and `Kick` by the producer, `Fetch` by the hardware, `CleanLock` to `CleanUnlock` the statements of the clean-up loop, interleaved; `Reset*` the flush and re-initialisation |
| `FrameFifo` | abstract specification of `TxRing`: the frames that wait and their order of arrival | `Put`, `Take`, `Complete` |
| `TxToken` | the token pool and `blocked` | the tx worker (`Worker*`), the handlers of tx-free events (`Free*`), `Reset*` |
| `TxSchedule` | how frames reach that worker; it extends `TxToken`, and every step of it is a step of `TxToken` or leaves its variables alone | a caller of `mt76_tx` in four steps (`QueueFrame`, `ListStation`, `ScheduleWorker`, `WakeUp`), the worker thread with its two bits (`WorkerBegin` to `WorkerSleep`) around `Splice`, `NextStation`, `Queue*`, `Relist`, then the queue of mac80211 (`Txq*`); `Reset*` |
| `TxStatus` | packet ids and status of frames, stations that come and go | the worker (`Tx*`), the handlers of tx-free events and reports (`TxFree`, `TxsLook`, then `TxsHit` or `TxsMiss`), `Check` (mac_work), `Add` to `CleanupDone` for a station or link (`CleanupFlush` with `status_lock`, then `IdrDestroy` without), `Reset*`; `Report` hands one frame to mac80211 after the unlock |
| `Roc` | remain on channel | the mac80211 callback (`call`), `roc_work` (`Work*`), `TimerFires`, the grant handler (`GrantEvent`, `GrantArm`), the firmware (`FwGrant`) |
| `IrqNapi` | interrupts, tasklet, NAPI and wake_work | `Interrupt`; the tasklet in four steps (`TaskletRead`, `TaskletAck`, `TaskletMask`, `TaskletSchedule`); a poll as `PollStart`, then `PollRefused`, or `PollDrain` and `PollComplete`, or `PollBudget`; `Wake*` for the steps of wake_work |
| `McuTransport` | commands to the firmware, and the reset | a thread in a command goes `Begin`, `LockMcu`, `Send` (the number and the unlocked tests), `Queue`, then `Check`, `Wake`, `Take` around the loop of `mt76_mcu_skb_send_and_get_msg`, `Unlock`; `Op*` a callback with `dev.mutex`; `HintCall` scan_work, which sends one command after the other without it (`mt7925_regd_change`); `Work*`, `RefuseReset`, `MarkReset` to `ResetOwn` and `LoadEnd` the steps of `mac_reset_work` and `mac_reset`; `FwAnswer`, `RxEvent` the way of an answer |
| `Recovery` | suspend, resume and `mac_reset_work` | `Suspend*` and `Unwind*`, `Resume*` for the steps of the two callbacks and their error paths; `ResetTest` and `ResetQueue` for who asks for a reset, since the tests of `mt792x_reset` and its `queue_work` are two steps; `ResetBegin` to `ResetEnd` for the work; `HifEvent` the firmware |
| `Scan` | hardware scans; it extends `Recovery`, whose resets end them | `HwScan`, `FwScan`, `HwScanOk` or `HwScanFail` for a request, `ScanDone` and `ScanWork` for its end, `CancelScan` and `CancelEnd`; `Recovery*` for the steps of `Recovery`, of which `RecoveryAbort` looks at the scan; `TestAndClear` the test of the bit in three contexts, and `Complete` the report, a step of its own |
| `TxProofs` | proofs about `TxToken`, `TxSchedule` and `TxStatus` | - |
| `RecoveryProofs` | proofs about `Recovery` and `Scan` | - |
| `RocProofs`, `TxRingProofs`, `AggRxProofs`, `IrqNapiProofs`, `McuTransportProofs` | proofs about the module they are named after | - |

An operator named as a mutation ("Mutant:" comments) is used by no specification: it
is what a plausible slip would make of the action after it, kept to show that the
properties notice.

Abstractions common to all: payloads and formats are dropped, time is dropped (an
armed timer may fire, a wait with a timeout may give up, at any moment), a critical
section is one step, and everything read or written outside of a lock is a step of
its own. Two-valued state is written with strings ("yes"/"no") rather than with
Boolean variables.

Particular ones:

- `PowerSave`: the ring set-up is `dma` = ready, lost or failed. A mutex user whose
  wait timed out is "blind": the code lets it go on, and nothing is claimed about it.
- `AggRx`: a frame is the number the originator gave it; what travels is that number
  modulo `SnMod`. How long a frame waited is abstracted to an arbitrary set of
  `expired` frames. Assumed of the originator: it stays less than half the sequence
  space ahead, and the window divides the sequence space (a size that does not is
  listed as a hazard).
- `TxRing`: the tx worker and the pollers are kept out of a reset, which is what
  `mac_reset` and the power-management references do; the DMA engine stops when told.
- `TxToken`: the worker is the only taker of tokens (station mode).
- `TxSchedule`: the order of the lists is left open (they are sets), one queue stands for
  all those of mac80211, and `pm_ref` succeeds, `PowerSave` having the refusal. All data queues share
  `q_tx[0]`; `phy->offchannel` and `q->stopped` are never set by this driver. `dropped`
  records the stations of the one place (`tx.c:673`, an `&&`) where a stopped worker takes a
  station off the list that still has frames in one of its queues. `ResetFlush`
  (`mt76_txq_schedule_all`) is one step. MT7927 itself returns `-EOPNOTSUPP` from
  `mac_reset`; the resets modelled are those of MT7925, which the same driver serves.
- `TxStatus`: a critical section of `status_lock` is one step. When a frame is overdue is left
  open, and so is whether the chip reports at all. Each station is added once and each frame sent
  once; frames that ask for no status are left out. The grace period is `synchronize_net` of
  mac80211 (external). Reports in the receive rings are lost in a reset. `raced` records
  stations removed while the worker was past its look at `dev->wcid`, or in whose place it found another
  one: such a frame may be added behind the flush, and `idr_destroy` (`mac80211.c:1717`), which comes after the
  unlock, then wipes its id without giving it back (`Forgotten`). `idr_destroy` is one step although it can run beside
  an `idr_alloc` of that worker, and the clean-up happens once: for a station's own link the code comes through it twice
  (`mt7925/main.c:1231`, then `mac80211.c:1617`), and the second could only give back what such a worker adds in between. The removal of the whole device is not modelled.
- `Recovery`: `mishaps` records what went wrong: a reset "raced" when it was
  queued although suspend had flushed (the tests came before `suspended` was set, or the
  flushed reset itself cleared it, `mt7925/mac.c:1335`), a suspend was "abandoned" after it
  had asked the firmware to suspend, the chip is "unowned" when resume could not wake it. The receive NAPIs
  go by one name. `napi_enable` of an enabled NAPI (a BUG) is not modelled. A restore
  that waits for `hif_resumed` can only time out. Suspend goes on when `fw_pmctrl` skips its
  handshake because tokens are in flight (`mt76_connac.h:400`). A handshake that fails asks
  for a reset itself (`HandshakeFails`), which is only heard when a flushed reset has cleared `suspended`. `MaxTries` stands for
  ten, and the proofs have any number; the result of `mt792x_wpdma_reset` is dropped by the code, and here.
- `Scan`: the sequence numbers of scans are not compared, as in the driver. Between the clearing of
  `MT76_HW_SCANNING` and the report anybody may act; when a scan command fails just then (`mt7925/mcu.c:3107` clears the
  bit without a report), the report comes after its scan and may end the next one: `overtaken` records the time until
  it is through. What
  connection loss after a reset sends to the firmware is the `command` of `Recovery`.
- `Roc`: a command to the firmware is one step and fails only before it is sent; a
  failure after that ends in a reset. The firmware may grant late or never, and its
  events may be handled late.
- `IrqNapi`: what the rings hold is reduced to "something" (`work`), the sources to the
  ones that differ in how they are masked. `napi_complete` and what the poll does next
  (unmask, or queue wake_work) are one step: it only adds to the mask or the queue. The
  device is neither removed nor reset, and handshakes succeed.
- `McuTransport`: every message carries its `age`, the commands numbered since its own.
  The code has no such field; it only exists for the properties to say whose answer was accepted,
  and stops counting at a whole round of numbers. A command is its kind (does the
  answer name it, or not). What an accepted answer reports, and what fails
  in an attempt besides commands, is left open. Suspend is not modelled. Who may send without
  `dev.mutex` is a constant (`Hints`): scan_work, when the firmware lacks 11D and a scan reports a country
  (`mt7925/main.c:1405`, `regd.c:245`), and the reset thread itself when its attempts are over. So a command can be
  under way, and one message even between the test of `MT76_MCU_RESET` and the ring, when a reset sets the flag. What
  a message does to a ring that is being rebuilt is not modelled: `mt76_dma_queue_reset` forgets its slot and leaves
  `q->queued`, so that its buffer is lost and the count stays one too high. `MaxHeld` bounds the commands and answers under way.

## 3. Runs

| Run | Bounds | Shows |
|---|---|---|
| `powersave_safety` | two transmit callers, worker, receive NAPI, a configuration thread and the watchdog, one access category, one token, handshakes that may fail | no frame and no queue forgotten (`FlowHasWake`), refinement of `DeviceLease` |
| `powersave_liveness` | one transmit caller, one mutex user, handshakes succeed, no watchdog | parked frames leave, mutex users proceed, a quiet device sleeps |
| `powersave_deadlock` | one caller and the watchdog | *violation*: see 5 |
| `aggrx` | window 3, sequence space 15, numbers 12 to 16 (over the wrap), block-ack requests up to 4 ahead (more than the window), two sessions | order, window, timer, quiet after a stop, no frame wrongly discarded, none stuck |
| `txring` | five descriptors, frames of one or two, two cleaners and a reset | index and count invariants, refinement of `FrameFifo`, completion |
| `txtoken` | pool of three, headroom two, one handler, two stations with two queues each, one caller, up to two frames waiting, one reset | headroom, ownership, unblocking; every frame is listed, the worker is never left asleep with work, the backlog drains |
| `txstatus` | two frames, two stations over one index, two packet ids, one reset | a frame is given back once and in the end, unless `idr_destroy` forgets it; ids are where checks find them; who gets whose report |
| `irqnapi` | one receive ring and the command rings | no arrival without somebody who will look at it; a ring that holds something is drained, however often the chip dozes |
| `mcutransport` | one callback, scan_work without `dev.mutex`, and the reset, numbers 1 and 2 (so that they wrap after two commands), two attempts, two messages under way, both chips | whose answer is accepted; inside a reset no command but those of scan_work, and one message of them at most in the rings; every callback returns even if the firmware is dead |
| `roc` | two token values (so that they wrap), up to two links | requests end, grants are not lost, callbacks return |
| `scan_recovery` | two works and a thread that ask for resets, one attempt, one event of the firmware under way, both chips | what is up at rest and while suspended, when the DMA engine may be stopped, who owes mac80211 the end of a scan; callbacks return and scans end |
| `recovery_hang` | one thread that asks, MT7925 | *violation*: see 5 |

Types are not run: every model has its type invariant, and it is proved.

The bounds are chosen at the smallest values at which the interesting cases occur: two
contexts of each kind that can race with itself, a sequence space and a ring that wrap,
a pool whose limit is reached, a second session, a reset at any moment. Deadlock is
checked except in `aggrx` (the originator's numbers end), `txtoken` (the
queue stays blocked after a reset, see 5), `txstatus` (all frames are back), `roc` (the
removal of a station can hang, see 5), `mcutransport` (the system is at rest when nobody calls)
and `scan_recovery` and `recovery_hang` (suspend disables the
transmit NAPI and waits for the receive ones, a raced reset the other way round; see 5).

Larger instances were run by hand, without errors: `TxSchedule` with a pool of four,
a headroom of three and two handlers (0.9 million states), and with a backlog of three
(3.5 million, invariants); `Scan` with two attempts and one event (0.75 million states).

The instances of `mcutransport` and `scan_recovery` are small because their liveness properties are costly. More
threads, attempts, numbers and events are left to the proofs, which give their safety properties for every number
of them. A reset has two attempts in `mcutransport` and `recovery_hang`, one in `scan_recovery`.

Fairness. Works, threads, softirqs and timers that can run do run (weak fairness).
Strong fairness is assumed where something enabled again and again must be served:
the first-in first-out workqueue, the mutex (the kernel hands it to the first
waiter), a cleaner of a ring that keeps getting interrupts, a tx-free event for each
frame the firmware holds, a `reorder_work` that finds frames waiting too long, a NAPI
that runs again and again and some time finds the chip awake (the chip stays awake for
`pm.idle_timeout`, many times longer than a softirq waits). In `McuTransport` some thread
inside of a command takes its next step or reaches its deadline, a thread that waits for a mutex again and again gets it, and nobody sends commands for ever.
In `Recovery` and `Scan` the two callbacks and the work run; `flush_work` and the beginning of `reset_work`
are strongly fair, since the ordered queue is first-in first-out; the firmware ends every
scan it has begun, unless it is reset. In `TxSchedule` the worker thread, some caller and the
poller run; resets owe nothing. In `TxStatus` the worker, the handlers, the hand-over and the reset run, the chip frees
the frames it holds, and `mac_work` comes when every frame that waits is overdue; the chip
owes no report. mac80211, userspace and the firmware's grants owe nothing.

## 4. Proofs

`PowerSaveProofs` (TLAPS, any number of contexts, queues and tasks). The ownership
invariants are not inductive. `IInv` adds:
`CountInv` (the counter counts the contexts inside, by the cardinality theorems),
`OwnershipInv` (what each program counter of the workqueue knows about the PM bit, the
owner and the rings) and `MutexInv` (a task past its `cancel_delayed_work_sync` cannot
meet a `ps_work` that is past the mutex test). The heart of the argument is `PsLock`:
the test of the count and the setting of the bit are one critical section, so no reference can
be taken in between. `FlowInv`, for frames and queues, is independent of it and gives `FlowSafe`. From
`IInv` every step is shown to be a step of `DeviceLease` or a stutter. `SleepIsNotForgotten` names everybody who may keep
an awake device from sleeping and will arm `ps_work` on leaving; none of them can be left out, since a `ps_work` that was
skipped is not armed again by itself (`mt792x_mac.c:377`). `MutexUsersAreServed` is what safety
can say about progress under `dev.mutex`: a holder that waits for the chip always has a wake-up or a
reset on its way (`ServedInv` follows it through the queue and the steps of `wake_work`), and a `ps_work`
that waits for `mac_work`, and so blocks that wake-up, meets no holder past its
`cancel_delayed_work_sync` (`MutexInv`). While the holder is still in that cancel, the works
can block each other, as section 5 tells.

`RocProofs`: `RocInv` joins the type invariant, `RocIsWatched`,
`WaiterIsNotForgotten` and two facts that make them inductive: who holds `dev.mutex` at
which program counter (so that `roc_work` cannot abort while a callback waits for its
grant), and that a grant which has been noticed has also armed the timer, or its timer has
done its work and cleared the bit. The first of the two, as an equivalence (`CallerHolds`), also gives
`RemovalIsTheOnlyDeadlock`: the one who waits, for `dev.mutex` or for `roc_work`, waits for the other, and the
other does not wait, unless a station is being removed.

`TxRingProofs` (any ring size, frame length, number of cleaners and resets): seen from
`tail`, the index a cleaner stops at, `dma_idx`, `cpu_idx` and `head` keep their order
(`OrderInv`), which is what lets a cleaner work with an old `dma_idx`. `CleanInv` says that
one context at most holds `cleanup_lock` and what a reset knows at each step; when its
flush ends, the ring is empty, and only therefore may `mt76_dma_queue_reset` leave
`queued` alone. The lemmas about `Dist`, `Succ` and `Plus` are linear arithmetic. `RingImplementsFifo`
proves the refinement of `FrameFifo`. Its mapping is an order, not a sequence: a frame is ahead of another
when its slot is nearer to `tail` (`Ahead`), or when a cleaner has it in hand (`InHand`). `FifoInv` says that
each frame in the ring has one slot, and what a cleaner has in hand has none; moving `tail` changes every distance by one
and the order of none.
`RingOrdersFrames` says that the order is total, so that which frame is next is never open.

`TxProofs` joins the transmit side. *Tokens* (any pool, headroom, number of handlers and resets): a
handler that has decided to unblock the queue can do so late, and lets the worker take one token more than
the limit. `HeadroomInv` counts: tokens in use plus undone decisions never exceed the limit plus the
number of handlers, and stay below that while the queue is open. Hence the pool suffices if there
are fewer handlers than `MT76_TOKEN_FREE_THR`, which is the module's assumption.
`BlockedQueuesOpen` adds that a reset is the only way to lose the unblocking.
*Scheduling* (any number of stations, callers and frames): `ScheduleImplementsTokens` carries all that over,
since each step of `TxSchedule` is one of `TxToken` or none. `PlaceInv` says of each
queue with frames that its station is listed, or that the worker has it at hand and has not
passed that queue, or that a caller is about to list it, or that it was dropped. `RunnerInv`
says that there is a runner (the bit is set, or a caller is on its way to set it), or nothing to do, or
the queue is stopped; and that whoever set the bit of a sleeping worker is about to wake it.
*Status* (any number of frames, stations, indices, ids and resets): `FrameInv` ties where a frame is to its flags (an
id: no report yet; a token: not DMA_DONE; handed over: neither), so that the one who sets
the second flag is the only one to hand it over. `AccountInv` is the converse, and gives
`NoFrameIsLeaked`: a frame without its token and without its id has been handed over, or was added to a raced station and wiped with it. `WorkerInv` says what a worker past its look at the table still
knows: its station is there or its grace period waits, or the race was recorded; this makes
`WatchInv` inductive. `CreditInv` follows a report from its frame to the handler: if the frame
has lost its id, somebody gave it up or took its report; `StationInv` (an index belongs to one
station at a time) makes the id the frame's own otherwise.

`AggRxProofs` (any traffic and number of sessions, any sequence space and any window that divides it; the code
takes `buf_size` as it comes, `mt7925/main.c:1300`, and with another window `agg-rx.c:227` can discard a frame that is no
duplicate): `BufferedHasTimer` and
`StoppedIsQuiet` depend on the control only: every release leaves a buffer with no more
occupied slots than before (`Releases`), and `StopInv` says what a stop has achieved
after each step. For order and window, `OrderInv` bounds how far the head, the originator and the frame in the poller's
hand are apart, so that comparing numbers modulo `SnMod` is comparing frames (`SnOrder`);
`RunsTo` says what a run of releases gives and leaves, and `Moves` what a whole critical section does.
`OnlyDuplicatesAreDiscarded` needs the history: `DuplicateInv` says that the head has passed only what was
released, or what something released later than it passed, so that a frame behind the head, or in an occupied slot,
was not the first. `NoBufferedFrameIsLost` goes step by step: what leaves a slot is
handed up, except when the session is shut down.

`IrqNapiProofs` (any set of rings and sources, and with requests of the firmware to be polled, which the
run leaves out): `NothingIsStranded`. `PendingInv` follows an arrival that the
last look of a poll has missed through the status register, the tasklet and the missed bit of NAPI;
`EnableInv` says that the enable register is behind the mask only while the tasklet is
due.

`McuTransportProofs` (any number of callbacks, kinds of commands, range of numbers, bound
on messages): `AcceptedIsOwn` is not inductive, since it says nothing of messages still under way.
`PlacedAt` says that the number of a message, seen from `msg_seq` on the circle of
numbers, tells its age as long as the age is below a round; `LocksInv`, who holds which mutex at
which step, makes the sender that waits the one that was numbered last. An
accepted answer has the last number, so that its age is 0 or at least a round. `AtMostOneMessageSlips` follows from
`LocksInv` too: callbacks and a reset hold `dev.mutex`, so that only a sender without it can have a command under way, and `mcu.mutex`
lets one sender at a time past the test of the flag. Read the other way, it gives `NoMutexIsLeftLocked`: whoever holds a mutex is still inside of what
gives it back, and who takes both nests them in one order.

`RecoveryProofs` (any chips, callers and number of attempts): the callbacks and the work exclude each
other unless a reset raced (`AloneInv`); `UpInv` follows the parts that are up through the
stages of both, and of the attempts, which leave `MT76_RESET` and a try behind (`BitInv`);
`HifInv` says which answers of the firmware can still come, so that a stale one is never
taken for the one waited for; `ScanInv` says who owes mac80211 an answer (the bit,
or one context that has cleared it), and adds that a request is open while its command is on its way.
`NapiIsNotDisabledTwice` rests on `NapiInv`, which says between which steps NAPI is down. Both its exceptions are
needed (TLC violates it with either left out): the reset that raced, and the chip that could not be woken, which is the
run `recovery_hang`.

Assumptions: only the named `ASSUME`s of the modules. Every invariant and action property that a run
checks, and both refinements, are proved. Left to TLC is what the provers cannot do: liveness
(`ParkedFrameLeaves`, `MutexUserProceeds`, `QuietDeviceSleeps` and the last properties of the other
runs) and `ENABLED`. Freedom from deadlock is therefore proved where it matters as a statement of
who waits for whom: `MutexUsersAreServed`, `RemovalIsTheOnlyDeadlock`, `NoMutexIsLeftLocked`,
`NapiIsNotDisabledTwice`; and what liveness rests on as a statement of who will act next: `SleepIsNotForgotten`,
`FlowSafe`, `BufferedFramesAreTimed`, `RequestsAreWatched`, `NoWakeUpIsLost`, `NothingIsStranded`, `NoFrameIsLeaked`.

## 5. What the violation runs show

- `powersave_deadlock`: `ps_work` tests `mutex_is_locked()` without holding anything;
  the chip can be put to sleep under a holder of `dev.mutex` (comment at
  `mt792x_mac.c:364`). When the holder is `mac_work`, the two works wait for each other. The same
  circle closes through a configuration callback that holds `dev.mutex` and cancels `ps_work`, while `ps_work` waits for a
  `mac_work` that has started and waits for the mutex.
- `recovery_hang`: suspend succeeds and leaves NAPI disabled; resume cannot take ownership
  of the chip (`mt7925/pci.c:763`), skips the code that enables NAPI, and asks for a recovery. That begins with
  `napi_disable`, which waits until somebody enables it: the recovery never ends.

What contradicts no document is part of a property instead, as the exception it names:

- `mt7925_mac_link_sta_remove` runs under `dev.mutex` and waits for `roc_work`, which
  may be waiting for `dev.mutex` (`TeardownStuck` in `Roc`; `CallReturns` says that it is
  the only callback that can hang).
- A reset that finds the data queue blocked leaves it blocked (`mt7925/pci_mac.c:56`,
  `mt7925/mac.c:1171`): `UnblockedUnlessReset`, `BacklogDrains`.
- A station with frames in one of its queues is forgotten when the worker is stopped at it
  (`tx.c:673`), until its next frame: `dropped` in `PendingIsListed`, `BacklogDrains`.
- A reset that was asked for before suspend set `suspended` and queued after its flush runs beside it
  (`mt792x_mac.c`, `mt7925/pci.c:675`), and can block it: "raced" in the properties of `Recovery`.
- A link is removed without a grace period (`mt792x_core.c:179`), and the worker only
  asks whether the index is somebody's (`tx.c:132`): an id can outlive its station, or `idr_destroy`
  (`mac80211.c:1717`) wipes it, and its frame is never given back while the station stays on `wcid_list`: `raced` in
  `IdsAreWatched`, `Forgotten` in `FrameIsGiven`.
- A command of scan_work can be under way when a reset sets `MT76_MCU_RESET`, and one message of it can enter the
  rings behind the flag (`dma.c:610`): `OneMessageSlips`.
- A scan command that fails while another context is about to report lets that report end the next scan
  (`mt7925/mcu.c:3107`): `overtaken` in `ScanIsAnsweredOnce`.
- Ids are used again at once after a frame was given up on (`tx.c:199`): a late report is
  credited to the next frame with that id; and `status.sta` is looked up by an index that
  may be another station's by then (`tx.c:67`): `ReportIsOwn`.

Another disagreement was noted, without a run: `mt7925_change_vif_links` (`mt7925/main.c:2076`) calls
`mt7925_set_mlo_roc` with a request that may still be in force, against the `WARN_ON_ONCE` at
`mt7925/main.c:583`.

## 6. Plan

Done, in this order: runtime PM, reordering, rings, tokens, remain on channel, interrupts, commands; then
scheduling (as a refinement of tokens), recovery with suspend and resume, scans, transmit status; and the
proofs of each.

Left, should the project go on:

1. The composition of `TxToken`'s count with the token test of `PowerSave` (`mt76_connac.h:400`), for which
   `PowerSave` has one token now.
2. `mt76_release_buffered_frames` as a second taker of tokens (access-point mode).
3. Several descriptors per received frame (`rx_head`), and a failing allocation in the fill.
4. `mt792x_stop` and `start` beside the works of `PowerSave`.
5. The tables of MLO links in `mt7925/main.c`.

## 7. Not modelled

Data formats (TXD, RXD, TLVs, rates, EEPROM, SAR, firmware images), debugfs, tracing,
WED/NPU/USB/SDIO/testmode back ends, other chips, the Bluetooth modules, the legacy probe
driver, the test modules and the scripts: no state of their own, not built, or not
concurrent. Most of the lines under `src/src` are of this kind, which is why the models map a
small share of them.

Receive rings have one context at a time (the poller, or a reset that has disabled it),
firmware download and probe are sequences of one thread; what of them concurs with other
parts is in `IrqNapi`, `McuTransport` and `Recovery`. Block-ack requests look up
`wcid->aggr` (`agg-rx.c:137`) without the redirection to the primary link's station that
data frames get (line 176), so that on an MLO link they may miss the session; `AggRx` has
one station and cannot show it. What each component leaves out is in the notes of `PROJECT.json`.
