----------------------------- MODULE PowerSave -----------------------------
(***************************************************************************)
(* Runtime power management of the connac driver: who owns the device.     *)
(*                                                                         *)
(* The MT76_STATE_PM bit says that the firmware owns the chip.  It is set  *)
(* by ps_work, cleared by wake_work, and read by every context that wants  *)
(* to touch a register:                                                    *)
(*   - transmit callers, the tx worker and the NAPI pollers take a         *)
(*     reference (pm.wake.count) and back off when the bit is set;         *)
(*   - configuration callbacks and the mac_work watchdog take dev.mutex,   *)
(*     cancel ps_work and wait for wake_work to clear the bit.             *)
(*                                                                         *)
(* ps_work, wake_work and reset_work run on one ordered workqueue, so wq   *)
(* holds the program counter of the single work that is running.           *)
(* mac_work runs on the workqueue of mac80211, concurrently with them.     *)
(*                                                                         *)
(* Time is abstracted: a timer that is armed may fire at any moment, and   *)
(* a wait with a timeout may give up at any moment.                        *)
(***************************************************************************)
EXTENDS Naturals, FiniteSets

CONSTANTS
  Xmitters,   \* concurrent callers of mt792x_tx
  Pollers,    \* the tx worker and the NAPI pollers
  TxWorker,   \* the poller that hands frames to the hardware
  RxNapi,     \* the poller that reaps the tx-free events
  ACs,        \* access categories, one parking slot each (pm.tx_q)
  Tasks,      \* threads that take dev.mutex
  MacTask,    \* the mac_work watchdog, or NoTask when it is left out
  NoTask,
  MaxTokens,  \* bound on the frames the hardware holds
  MayFail     \* whether ownership handshakes and DMA resets may fail

Ctx == Xmitters \cup Pollers

ASSUME PowerSaveAssumption ==
  /\ Xmitters \cap Pollers = {}
  /\ IsFiniteSet(Ctx)
  /\ {TxWorker, RxNapi} \subseteq Pollers
  /\ NoTask \notin Tasks
  /\ Ctx \cap Tasks = {}
  /\ MacTask \in Tasks \cup {NoTask}
  /\ MaxTokens \in Nat
  /\ MayFail \in BOOLEAN

VARIABLES
  pmState,     \* "doze" when MT76_STATE_PM is set, "awake" when it is clear
  wakeCount,   \* pm.wake.count
  runtimePm,   \* pm.enable
  owner,       \* what PCIE_LPCR_HOST_OWN_SYNC would read
  dma,         \* the ring set-up of the WFDMA block: ready, lost in the
               \* doze, or still lost because its re-initialisation failed
  tokenCount,  \* dev.token_count
  ctx,         \* where each transmit caller and poller is
  scheduled,   \* pollers that are scheduled to run
  parked,      \* access categories with a parked frame (pm.tx_q[].skb)
  txQueues,    \* the mac80211 queues: running or stopped
  works,       \* the works that are pending
  wq,          \* program counter of the work running on dev.wq
  mutex,       \* holder of dev.mutex
  task         \* where each mutex user is

vars == <<pmState, wakeCount, runtimePm, owner, dma, tokenCount, ctx,
          scheduled, parked, txQueues, works, wq, mutex, task>>

devVars  == <<owner, dma>>
ctxVars  == <<wakeCount, tokenCount, ctx, scheduled>>
taskVars == <<mutex, task, runtimePm>>
txVars   == <<parked, txQueues>>

Works == {"ps_work", "wake_work", "mac_work", "reset_work"}
PsRunning   == {"ps_gate", "ps_token", "ps_lock", "ps_own", "ps_mac"}
WakeRunning == {"wake_own", "wake_dma", "wake_clear", "wake_deq", "wake_done"}

Init ==
  /\ pmState = "awake" /\ wakeCount = 0 /\ runtimePm = "on"
  /\ owner = "driver" /\ dma = "ready"
  /\ tokenCount = 0
  /\ ctx = [c \in Ctx |-> "idle"] /\ scheduled = {}
  /\ parked = {} /\ txQueues = "running"
  /\ works = {"ps_work", "mac_work"} /\ wq = "idle"
  /\ mutex = NoTask /\ task = [t \in Tasks |-> "idle"]

(***************************************************************************)
(* mt76_connac_power_save_sched: with runtime PM enabled and the chip      *)
(* awake, drop the pending watchdog and arm ps_work.                       *)
(***************************************************************************)
PowerSaveSched ==
  works' = IF runtimePm = "on" /\ pmState = "awake"
           THEN (works \ {"mac_work"}) \cup {"ps_work"}
           ELSE works

Arm(work)    == works' = works \cup {work}
Disarm(work) == works' = works \ {work}

-----------------------------------------------------------------------------
(* Reference holders: mt792x_tx, mt792x_tx_worker, mt792x_poll_tx/rx.      *)

\* An interrupt, mac80211 or a timer asks a poller to run.
Schedule(p) ==
  /\ p \notin scheduled
  /\ scheduled' = scheduled \cup {p}
  /\ UNCHANGED <<pmState, devVars, wakeCount, tokenCount, ctx, txVars, works, wq, taskVars>>

\* mt76_connac_pm_ref succeeds: the bit is tested and the count is raised
\* under pm.wake.lock.
PmRef(c) ==
  /\ ctx[c] = "idle" /\ pmState = "awake"
  /\ wakeCount' = wakeCount + 1
  /\ ctx' = [ctx EXCEPT ![c] = "in"]

StartXmit(x) ==
  /\ txQueues = "running"
  /\ \/ PmRef(x)
     \/ /\ ctx[x] = "idle" /\ pmState = "doze"
        /\ ctx' = [ctx EXCEPT ![x] = "refused"]
        /\ UNCHANGED wakeCount
  /\ UNCHANGED <<pmState, devVars, tokenCount, scheduled, txVars, works, wq, taskVars>>

\* Mutant: the frame is parked and the queues stopped, nobody wakes the chip.
ParkFrameUnannounced(x, ac) ==
  /\ ctx[x] = "refused"
  /\ ctx' = [ctx EXCEPT ![x] = "idle"]
  /\ parked' = parked \cup {ac}
  /\ txQueues' = "stopped"
  /\ UNCHANGED <<pmState, devVars, wakeCount, tokenCount, scheduled, works, wq, taskVars>>

\* mt76_connac_pm_queue_skb: one frame per access category is parked, a
\* second one is freed.
ParkFrame(x, ac) ==
  /\ ctx[x] = "refused"
  /\ ctx' = [ctx EXCEPT ![x] = "idle"]
  /\ \/ /\ ac \notin parked
        /\ parked' = parked \cup {ac}
        /\ txQueues' = "stopped"
        /\ Arm("wake_work")
     \/ /\ ac \in parked
        /\ UNCHANGED <<txVars, works>>
  /\ UNCHANGED <<pmState, devVars, wakeCount, tokenCount, scheduled, wq, taskVars>>

\* A poller runs: with the chip asleep it only asks for a wake-up.
StartPoll(p) ==
  /\ p \in scheduled
  /\ scheduled' = scheduled \ {p}
  /\ \/ PmRef(p) /\ UNCHANGED works
     \/ /\ ctx[p] = "idle" /\ pmState = "doze"
        /\ Arm("wake_work")
        /\ UNCHANGED <<wakeCount, ctx>>
  /\ UNCHANGED <<pmState, devVars, tokenCount, txVars, wq, taskVars>>

\* What a referenced poller does to the token count: the tx worker hands a
\* frame to the hardware, the rx poller reaps a tx-free event.
UseDevice(p) ==
  /\ ctx[p] = "in"
  /\ \/ p = TxWorker /\ tokenCount < MaxTokens /\ tokenCount' = tokenCount + 1
     \/ p = RxNapi   /\ tokenCount > 0         /\ tokenCount' = tokenCount - 1
  /\ UNCHANGED <<pmState, devVars, wakeCount, ctx, scheduled, txVars, works, wq, taskVars>>

\* Mutant: the last reference goes without arming ps_work.
PmUnrefUnarmed(c) ==
  /\ ctx[c] = "in"
  /\ ctx' = [ctx EXCEPT ![c] = "idle"]
  /\ wakeCount' = wakeCount - 1
  /\ scheduled' = IF c \in Xmitters THEN scheduled \cup {TxWorker} ELSE scheduled
  /\ UNCHANGED <<pmState, devVars, tokenCount, txVars, works, wq, taskVars>>

\* mt76_connac_pm_unref; the device is taken to be MT76_STATE_MCU_RUNNING.
\* A transmit caller has queued its frame and wakes the tx worker.
PmUnref(c) ==
  /\ ctx[c] = "in"
  /\ ctx' = [ctx EXCEPT ![c] = "idle"]
  /\ wakeCount' = wakeCount - 1
  /\ IF wakeCount = 1 THEN PowerSaveSched ELSE UNCHANGED works
  /\ scheduled' = IF c \in Xmitters THEN scheduled \cup {TxWorker} ELSE scheduled
  /\ UNCHANGED <<pmState, devVars, tokenCount, txVars, wq, taskVars>>

-----------------------------------------------------------------------------
(* ps_work: mt792x_pm_power_save_work and mt792x_mcu_fw_pmctrl.            *)

StartPsWork ==
  /\ wq = "idle" /\ "ps_work" \in works
  /\ Disarm("ps_work")
  /\ wq' = "ps_gate"
  /\ UNCHANGED <<pmState, devVars, ctxVars, txVars, taskVars>>

\* Scanning, a crashed firmware, a held dev.mutex or recent activity: try
\* again later.
PsRetry ==
  /\ wq = "ps_gate"
  /\ Arm("ps_work")
  /\ wq' = "idle"
  /\ UNCHANGED <<pmState, devVars, ctxVars, txVars, taskVars>>

PsGate ==
  /\ wq = "ps_gate"
  /\ mutex = NoTask
  /\ wq' = "ps_token"
  /\ UNCHANGED <<pmState, devVars, ctxVars, txVars, works, taskVars>>

\* mt76_connac_skip_fw_pmctrl, first test: read without any lock.
PsToken ==
  /\ wq = "ps_token"
  /\ wq' = IF tokenCount # 0 THEN "ps_mac" ELSE "ps_lock"
  /\ UNCHANGED <<pmState, devVars, ctxVars, txVars, works, taskVars>>

\* Mutant: the count is not tested again under the lock.
PsLockUncounted ==
  /\ wq = "ps_lock"
  /\ IF pmState = "doze"
     THEN wq' = "ps_mac" /\ UNCHANGED pmState
     ELSE wq' = "ps_own" /\ pmState' = "doze"
  /\ UNCHANGED <<devVars, ctxVars, txVars, works, taskVars>>

\* Second test, under pm.wake.lock: the bit is set only with no reference.
PsLock ==
  /\ wq = "ps_lock"
  /\ IF wakeCount # 0 \/ pmState = "doze"
     THEN wq' = "ps_mac" /\ UNCHANGED pmState
     ELSE wq' = "ps_own" /\ pmState' = "doze"
  /\ UNCHANGED <<devVars, ctxVars, txVars, works, taskVars>>

\* mt792xe_mcu_fw_pmctrl: SET_OWN.  The firmware may then power the WFDMA
\* block down.  When it does not answer the bit is cleared again, a reset is
\* asked for and ps_work is armed for another try.
PsOwn ==
  /\ wq = "ps_own"
  /\ dma' \in {dma, "lost"}
  /\ \/ /\ owner' = "firmware"
        /\ wq' = "ps_mac"
        /\ UNCHANGED <<pmState, works>>
     \/ /\ MayFail
        /\ owner' \in {"driver", "firmware"}
        /\ pmState' = "awake"
        /\ works' = works \cup {"reset_work", "ps_work"}
        /\ wq' = "idle"
  /\ UNCHANGED <<ctxVars, txVars, taskVars>>

\* fw_pmctrl returned 0, also when it was skipped:
\* cancel_delayed_work_sync(mac_work) waits for a running watchdog, also for
\* one that waits for dev.mutex, and ps_work is not armed again.
PsCancelMac ==
  /\ wq = "ps_mac"
  /\ MacTask # NoTask => task[MacTask] = "idle"
  /\ Disarm("mac_work")
  /\ wq' = "idle"
  /\ UNCHANGED <<pmState, devVars, ctxVars, txVars, taskVars>>

-----------------------------------------------------------------------------
(* wake_work: mt792x_pm_wake_work and mt792x_mcu_drv_pmctrl.               *)

StartWakeWork ==
  /\ wq = "idle" /\ "wake_work" \in works
  /\ Disarm("wake_work")
  /\ wq' = "wake_own"
  /\ UNCHANGED <<pmState, devVars, ctxVars, txVars, taskVars>>

\* Mutant: a failed wake-up asks for no reset.
WakeOwnNoReset ==
  /\ wq = "wake_own"
  /\ \/ pmState = "awake" /\ wq' = "wake_deq" /\ UNCHANGED owner
     \/ pmState = "doze" /\ owner' = "driver" /\ wq' = "wake_dma"
     \/ MayFail /\ pmState = "doze" /\ wq' = "wake_done" /\ UNCHANGED owner
  /\ UNCHANGED <<pmState, dma, ctxVars, txVars, works, taskVars>>

\* With the bit clear there is nothing to take back; otherwise CLR_OWN.  When
\* the firmware does not answer the bit stays set and a reset is asked for.
WakeOwn ==
  /\ wq = "wake_own"
  /\ \/ pmState = "awake" /\ wq' = "wake_deq" /\ UNCHANGED <<owner, works>>
     \/ pmState = "doze" /\ owner' = "driver" /\ wq' = "wake_dma" /\ UNCHANGED works
     \/ /\ MayFail
        /\ pmState = "doze" /\ Arm("reset_work") /\ wq' = "wake_done"
        /\ UNCHANGED owner
  /\ UNCHANGED <<pmState, dma, ctxVars, txVars, taskVars>>

\* mt792x_wpdma_reinit_cond; its result is not looked at.
WakeDma ==
  /\ wq = "wake_dma"
  /\ \/ dma' = "ready"
     \/ MayFail /\ dma # "ready" /\ dma' = "failed"
  /\ wq' = "wake_clear"
  /\ UNCHANGED <<pmState, owner, ctxVars, txVars, works, taskVars>>

WakeClear ==
  /\ wq = "wake_clear"
  /\ pmState' = "awake"
  /\ wq' = "wake_deq"
  /\ UNCHANGED <<devVars, ctxVars, txVars, works, taskVars>>

\* Every poller is scheduled, the parked frames go to mt76_tx, the MCU rings
\* are reaped and the watchdog is armed.
WakeDequeue ==
  /\ wq = "wake_deq"
  /\ scheduled' = Pollers
  /\ parked' = {}
  /\ Arm("mac_work")
  /\ wq' = "wake_done"
  /\ UNCHANGED <<pmState, devVars, wakeCount, tokenCount, ctx, txQueues, taskVars>>

\* ieee80211_wake_queues and wake_up(pm.wait), whatever became of the wake-up.
WakeDone ==
  /\ wq = "wake_done"
  /\ txQueues' = "running"
  /\ wq' = "idle"
  /\ UNCHANGED <<pmState, devVars, ctxVars, parked, works, taskVars>>

-----------------------------------------------------------------------------
(* mt76_connac_mutex_acquire / _release and mt76_connac_pm_wake.           *)

Goto(t, s) == task' = [task EXCEPT ![t] = s]

\* The watchdog is due: mac_work runs and asks for dev.mutex.
TaskStart(t) ==
  /\ t = MacTask /\ task[t] = "idle" /\ "mac_work" \in works
  /\ Disarm("mac_work")
  /\ Goto(t, "want")
  /\ UNCHANGED <<pmState, devVars, ctxVars, txVars, wq, mutex, runtimePm>>

\* The watchdog or a configuration callback gets the mutex.  The debugfs knob
\* turns runtime PM off before it wakes the chip.
TaskLock(t) ==
  /\ mutex = NoTask
  /\ mutex' = t
  /\ Goto(t, "cancel")
  /\ \/ t = MacTask /\ task[t] = "want" /\ UNCHANGED runtimePm
     \/ t # MacTask /\ task[t] = "idle" /\ runtimePm' \in {runtimePm, "off"}
  /\ UNCHANGED <<pmState, devVars, ctxVars, txVars, works, wq>>

\* cancel_delayed_work_sync(ps_work): waits while ps_work is running.
TaskCancelPs(t) ==
  /\ task[t] = "cancel"
  /\ wq \notin PsRunning
  /\ Disarm("ps_work")
  /\ Goto(t, "test")
  /\ UNCHANGED <<pmState, devVars, ctxVars, txVars, wq, mutex, runtimePm>>

\* Mutant: the caller waits but nobody queues wake_work.
TaskTestPmUnqueued(t) ==
  /\ task[t] = "test"
  /\ Goto(t, IF pmState = "awake" THEN "access" ELSE "wait")
  /\ UNCHANGED <<pmState, devVars, ctxVars, txVars, works, wq, mutex, runtimePm>>

TaskTestPm(t) ==
  /\ task[t] = "test"
  /\ \/ pmState = "awake" /\ Goto(t, "access") /\ UNCHANGED works
     \/ pmState = "doze" /\ Goto(t, "wait") /\ Arm("wake_work")
  /\ UNCHANGED <<pmState, devVars, ctxVars, txVars, wq, mutex, runtimePm>>

TaskWoken(t) ==
  /\ task[t] = "wait" /\ pmState = "awake"
  /\ Goto(t, "access")
  /\ UNCHANGED <<pmState, devVars, ctxVars, txVars, works, wq, mutex, runtimePm>>

\* pm_wake gives up after three seconds; mutex_acquire ignores that and the
\* caller goes on without a device.
TaskTimeout(t) ==
  /\ task[t] = "wait" /\ pmState = "doze"
  /\ Goto(t, "blind")
  /\ txQueues' = "running"
  /\ UNCHANGED <<pmState, devVars, ctxVars, parked, works, wq, mutex, runtimePm>>

\* mt7925_set_runtime_pm and the sniffer callback write pm.enable.
TaskSetRuntimePm(t) ==
  /\ task[t] \in {"access", "blind"} /\ t # MacTask
  /\ runtimePm' \in {"on", "off"}
  /\ UNCHANGED <<pmState, devVars, ctxVars, txVars, works, wq, mutex, task>>

\* mac_work arms itself again after it has released the mutex.
TaskRelease(t) ==
  /\ task[t] \in {"access", "blind"}
  /\ mutex' = NoTask
  /\ Goto(t, "idle")
  /\ \/ t # MacTask /\ PowerSaveSched
     \/ /\ t = MacTask
        /\ works' = works \cup {"mac_work"} \cup
             (IF runtimePm = "on" /\ pmState = "awake" THEN {"ps_work"} ELSE {})
  /\ UNCHANGED <<pmState, devVars, ctxVars, txVars, wq, runtimePm>>

-----------------------------------------------------------------------------
CtxNext ==
  \/ \E p \in Pollers : Schedule(p) \/ StartPoll(p) \/ UseDevice(p)
  \/ \E x \in Xmitters : StartXmit(x) \/ \E ac \in ACs : ParkFrame(x, ac)
  \/ \E c \in Ctx : PmUnref(c)

WorkNext ==
  \/ StartPsWork \/ PsRetry \/ PsGate \/ PsToken \/ PsLock \/ PsOwn \/ PsCancelMac
  \/ StartWakeWork \/ WakeOwn \/ WakeDma \/ WakeClear \/ WakeDequeue \/ WakeDone

TaskNext(t) ==
  \/ TaskStart(t) \/ TaskLock(t) \/ TaskCancelPs(t) \/ TaskTestPm(t) \/ TaskWoken(t)
  \/ TaskTimeout(t) \/ TaskSetRuntimePm(t) \/ TaskRelease(t)

Next == CtxNext \/ WorkNext \/ \E t \in Tasks : TaskNext(t)

Spec == Init /\ [][Next]_vars

(***************************************************************************)
(* Fairness: kernel works, softirqs and threads that can run do run.  The  *)
(* environment (Schedule, StartXmit, TaskLock) and the timeout owe         *)
(* nothing.  dev.wq is first-in first-out, so a work that stays queued is  *)
(* started although the others keep queueing themselves (strong fairness), *)
(* and ps_work, which retries for ever, finds a moment without activity.   *)
(***************************************************************************)
Fairness ==
  /\ \A p \in Pollers : WF_vars(StartPoll(p))
  /\ \A x \in Xmitters : WF_vars(\E ac \in ACs : ParkFrame(x, ac))
  /\ \A c \in Ctx : WF_vars(PmUnref(c))
  /\ SF_vars(StartPsWork) /\ SF_vars(StartWakeWork) /\ SF_vars(PsGate)
  /\ WF_vars(PsRetry) /\ WF_vars(PsToken) /\ WF_vars(PsLock) /\ WF_vars(PsOwn)
  /\ WF_vars(PsCancelMac)
  /\ WF_vars(WakeOwn) /\ WF_vars(WakeDma) /\ WF_vars(WakeClear)
  /\ WF_vars(WakeDequeue) /\ WF_vars(WakeDone)
  /\ SF_vars(\E t \in Tasks : t = MacTask /\ TaskLock(t))
  /\ \A t \in Tasks : /\ SF_vars(TaskCancelPs(t))
                      /\ WF_vars(TaskTestPm(t))
                      /\ WF_vars(TaskWoken(t))
                      /\ WF_vars(TaskRelease(t))

FairSpec == Spec /\ Fairness
-----------------------------------------------------------------------------
(* Properties.                                                             *)

TypeOK ==
  /\ pmState \in {"awake", "doze"} /\ wakeCount \in Nat
  /\ runtimePm \in {"on", "off"}
  /\ owner \in {"driver", "firmware"} /\ dma \in {"ready", "lost", "failed"}
  /\ tokenCount \in 0 .. MaxTokens
  /\ ctx \in [Ctx -> {"idle", "in", "refused"}]
  /\ scheduled \subseteq Pollers
  /\ parked \subseteq ACs /\ txQueues \in {"running", "stopped"}
  /\ works \subseteq Works
  /\ wq \in {"idle"} \cup PsRunning \cup WakeRunning
  /\ mutex \in Tasks \cup {NoTask}
  /\ task \in [Tasks -> {"idle", "want", "cancel", "test", "wait", "access", "blind"}]

\* The driver owns the chip and its rings are set up, or a failed handshake
\* has asked for a reset, or the re-initialisation failed (an error that the
\* code drops).
Usable ==
  \/ owner = "driver" /\ dma = "ready"
  \/ "reset_work" \in works
  \/ dma = "failed"

Referenced == {c \in Ctx : ctx[c] = "in"}
Accessing  == {t \in Tasks : task[t] = "access"}

\* A transmit caller or poller that holds a reference never meets a sleeping
\* chip: MT76_STATE_PM is clear, the driver owns the device and its DMA rings
\* are valid (pm_ref against skip_fw_pmctrl, and CLR_OWN and re-initialisation
\* before the bit is cleared).
RefHolderOwnsDevice == Referenced # {} => pmState = "awake" /\ Usable

\* A holder of dev.mutex whose mutex_acquire did not time out owns the device
\* for as long as it holds the mutex, although references taken and dropped
\* meanwhile arm ps_work again (mutex_is_locked and cancel_delayed_work_sync).
MutexHolderOwnsDevice == Accessing # {} => pmState = "awake" /\ Usable

\* wake_work reaps rings and hands out parked frames without a reference; the
\* ordered workqueue keeps ps_work from putting the chip to sleep meanwhile.
WakeWorkOwnsDevice == wq = "wake_deq" => pmState = "awake" /\ Usable

\* A parked frame always has a wake_work on its way that will hand it out, or
\* the failed wake-up has asked for a reset: a transmit caller refused just
\* before wake_work finished does not strand its frame.
ParkedHasWake ==
  parked # {} => \/ works \cap {"wake_work", "reset_work"} # {}
                 \/ wq \in WakeRunning \ {"wake_done"}

\* Stopped mac80211 queues always have a wake_work on its way to restart them.
StoppedHasWake ==
  txQueues = "stopped" => "wake_work" \in works \/ wq \in WakeRunning

\* No parked frame and no stopped queue is forgotten, however a refused caller,
\* a wake-up that fails and the next trip to sleep interleave.
FlowHasWake == ParkedHasWake /\ StoppedHasWake

\* Runtime power management implements the lease of DeviceLease.
Lease == INSTANCE DeviceLease WITH
           Users  <- Ctx \cup Tasks,
           state  <- pmState,
           chip   <- IF Usable THEN "usable" ELSE "lost",
           users  <- Referenced \cup Accessing
LeaseSpec == Lease!Spec

\* A frame parked while the chip sleeps is eventually handed to mt76_tx.
ParkedFrameLeaves == \A ac \in ACs : ac \in parked ~> ac \notin parked

\* Whoever takes dev.mutex eventually gets the device, or gives up waiting.
MutexUserProceeds ==
  \A t \in Tasks : task[t] = "cancel" ~> task[t] \in {"access", "blind"}

\* Nobody uses the device and nobody is about to.
Quiet ==
  /\ \A c \in Ctx : ctx[c] = "idle"
  /\ scheduled = {} /\ tokenCount = 0
  /\ mutex = NoTask /\ runtimePm = "on"

\* A device that stays quiet with runtime PM enabled goes to sleep and stays
\* asleep: no skipped, cancelled or refused attempt loses the ps_work timer.
QuietDeviceSleeps == <>[]Quiet => <>[](pmState = "doze")

\* "if mt76 mutex is held we should not put the device to sleep since we are
\* currently accessing device register map" (mt792x_mac.c): the chip is put
\* to sleep only while nobody holds dev.mutex.
PsWorkYieldsToMutexHolder ==
  [][pmState = "awake" /\ pmState' = "doze" => mutex = NoTask]_vars
============================================================================
