------------------------------ MODULE IrqNapi ------------------------------
(***************************************************************************)
(* Interrupts, the irq tasklet and NAPI (mt792x_dma.c, mmio.c): how a ring *)
(* that the hardware has filled comes to be polled.                        *)
(*                                                                         *)
(* The handler turns the interrupts off and schedules the tasklet, which   *)
(* acknowledges the sources, masks those that are going to be polled and   *)
(* schedules their NAPI.  A poll that is done unmasks its source and       *)
(* schedules the tasklet again, which writes the mask to the register.  A  *)
(* poll that finds the chip asleep gives up and queues wake_work.          *)
(*                                                                         *)
(* The two transmit sources share one NAPI; the tasklet masks only the one *)
(* of the command rings; what they reap is in TxRing.  Handshakes succeed  *)
(* here (PowerSave models their failures), and the device is neither       *)
(* removed nor reset.                                                      *)
(***************************************************************************)
EXTENDS Naturals, FiniteSets

CONSTANTS
  Rx,      \* the receive rings
  McuTx,   \* the completion of command rings
  DataTx,  \* the completions of data rings, a set
  McuCmd,  \* MT_INT_MCU_CMD, as a set of at most one source
  Data     \* the ring that MT_MCU_CMD_WAKE_RX_PCIE asks to be polled

Tx      == {McuTx} \cup DataTx
Src     == Rx \cup Tx \cup McuCmd
Masking == Rx \cup {McuTx}   \* what the tasklet masks
Napis   == Rx \cup {McuTx}   \* tx_napi goes by the name of McuTx

ASSUME IrqNapiAssumption ==
  /\ McuTx \notin Rx \cup DataTx \cup McuCmd
  /\ Rx \cap (DataTx \cup McuCmd) = {} /\ DataTx \cap McuCmd = {}
  /\ Data \in Rx

VARIABLES
  work,     \* receive rings that hold something
  sta,      \* MT_WFDMA0_HOST_INT_STA
  ena,      \* the interrupt enable register
  irqmask,  \* mmio.irqmask
  irq,      \* the tasklet: pc, and intr, the sources it has read
  tasklet,  \* whether the tasklet is scheduled
  napi,     \* each NAPI: "idle", "sched", "refused", "poll" or "done"
  missed,   \* NAPIs scheduled again while they are polled
  pm,       \* MT76_STATE_PM: "awake" or "doze"
  wake,     \* the running wake_work: "idle", "own", "init", "clear", "sched"
  wakeWork  \* whether wake_work is queued

vars    == <<work, sta, ena, irqmask, irq, tasklet, napi, missed, pm, wake, wakeWork>>
napiVars == <<napi, missed>>
pmVars  == <<pm, wake, wakeWork>>

NapiOf(s) == IF s \in DataTx THEN McuTx ELSE s

Init ==
  /\ work = {} /\ sta = {} /\ ena = Src /\ irqmask = Src
  /\ irq = [pc |-> "idle", intr |-> {}] /\ tasklet = "no"
  /\ napi = [n \in Napis |-> "idle"] /\ missed = {}
  /\ pm = "awake" /\ wake = "idle" /\ wakeWork = "no"

\* napi_schedule on each NAPI of the set.
NapiSchedule(set) ==
  /\ napi' = [n \in Napis |-> IF n \in set /\ napi[n] = "idle" THEN "sched" ELSE napi[n]]
  /\ missed' = missed \cup {n \in set : napi[n] \in {"refused", "poll", "done"}}

-----------------------------------------------------------------------------
(* The hardware, the handler and the tasklet.                              *)

\* The hardware completes something, masked or not, asleep or not.
Arrive(s) ==
  /\ work' = work \cup ({s} \cap Rx)
  /\ sta' = sta \cup {s}
  /\ UNCHANGED <<ena, irqmask, irq, tasklet, napiVars, pmVars>>

\* mt792x_irq_handler.
Interrupt ==
  /\ sta \cap ena # {}
  /\ ena' = {} /\ tasklet' = "yes"
  /\ UNCHANGED <<work, sta, irqmask, irq, napiVars, pmVars>>

\* mt792x_irq_tasklet: turn the interrupts off, read the status.
TaskletRead ==
  /\ irq.pc = "idle" /\ tasklet = "yes"
  /\ tasklet' = "no" /\ ena' = {}
  /\ irq' = [pc |-> "ack", intr |-> sta \cap irqmask]
  /\ UNCHANGED <<work, sta, irqmask, napiVars, pmVars>>

\* What was read is acknowledged; the firmware may ask for a poll of Data.
TaskletAck ==
  /\ irq.pc = "ack"
  /\ sta' = sta \ irq.intr
  /\ \E asked \in {{}, {Data}} :
       /\ asked # {} => irq.intr \cap McuCmd # {}
       /\ irq' = [pc |-> "mask", intr |-> irq.intr \cup asked]
  /\ UNCHANGED <<work, ena, irqmask, tasklet, napiVars, pmVars>>

\* mt76_set_irq_mask under irq_lock.
TaskletMask ==
  /\ irq.pc = "mask"
  /\ irqmask' = irqmask \ (irq.intr \cap Masking)
  /\ ena' = irqmask'
  /\ irq' = [irq EXCEPT !.pc = "sched"]
  /\ UNCHANGED <<work, sta, tasklet, napiVars, pmVars>>

TaskletSchedule ==
  /\ irq.pc = "sched"
  /\ NapiSchedule({NapiOf(s) : s \in irq.intr \ McuCmd})
  /\ irq' = [pc |-> "idle", intr |-> {}]
  /\ UNCHANGED <<work, sta, ena, irqmask, tasklet, pmVars>>

-----------------------------------------------------------------------------
(* mt792x_poll_rx, mt76_dma_rx_poll and mt792x_poll_tx.                    *)

\* mt76_connac_pm_ref.
PollStart(n) ==
  /\ napi[n] = "sched"
  /\ napi' = [napi EXCEPT ![n] = IF pm = "awake" THEN "poll" ELSE "refused"]
  /\ UNCHANGED <<work, sta, ena, irqmask, irq, tasklet, missed, pmVars>>

\* Mutant: the poll that is refused does not ask for the chip.
PollRefusedQuiet(n) ==
  /\ napi[n] = "refused"
  /\ napi' = [napi EXCEPT ![n] = IF n \in missed THEN "sched" ELSE "idle"]
  /\ missed' = missed \ {n}
  /\ UNCHANGED <<work, sta, ena, irqmask, irq, tasklet, pmVars>>

\* The poll that is refused completes, masked, and asks for the chip.
PollRefused(n) ==
  /\ napi[n] = "refused"
  /\ napi' = [napi EXCEPT ![n] = IF n \in missed THEN "sched" ELSE "idle"]
  /\ missed' = missed \ {n}
  /\ wakeWork' = "yes"
  /\ UNCHANGED <<work, sta, ena, irqmask, irq, tasklet, pm, wake>>

\* The ring is emptied.
PollDrain(n) ==
  /\ napi[n] = "poll"
  /\ work' = work \ {n}
  /\ napi' = [napi EXCEPT ![n] = "done"]
  /\ UNCHANGED <<sta, ena, irqmask, irq, tasklet, missed, pmVars>>

\* The budget is used up: NAPI stays scheduled.
PollBudget(n) ==
  /\ n \in Rx
  /\ napi[n] = "poll" /\ n \in work
  /\ napi' = [napi EXCEPT ![n] = "sched"] /\ missed' = missed \ {n}
  /\ UNCHANGED <<work, sta, ena, irqmask, irq, tasklet, pmVars>>

\* Mutant: the source is unmasked, the register is left to the next interrupt.
PollCompleteLazy(n) ==
  /\ napi[n] = "done"
  /\ missed' = missed \ {n}
  /\ IF n \in missed
       THEN napi' = [napi EXCEPT ![n] = "sched"] /\ UNCHANGED irqmask
       ELSE /\ napi' = [napi EXCEPT ![n] = "idle"]
            /\ irqmask' = irqmask \cup (IF n = McuTx THEN Tx ELSE {n})
  /\ UNCHANGED <<work, sta, ena, irq, tasklet, pmVars>>

\* napi_complete fails when the NAPI was scheduled again; otherwise
\* mt76_connac_irq_enable unmasks and schedules the tasklet.
PollComplete(n) ==
  /\ napi[n] = "done"
  /\ missed' = missed \ {n}
  /\ IF n \in missed
       THEN napi' = [napi EXCEPT ![n] = "sched"] /\ UNCHANGED <<irqmask, tasklet>>
       ELSE /\ napi' = [napi EXCEPT ![n] = "idle"]
            /\ irqmask' = irqmask \cup (IF n = McuTx THEN Tx ELSE {n})
            /\ tasklet' = "yes"
  /\ UNCHANGED <<work, sta, ena, irq, pmVars>>

-----------------------------------------------------------------------------
(* Sleep and wake_work.                                                    *)

\* ps_work: not while a poll holds a reference, nor while wake_work runs.
Doze ==
  /\ pm = "awake" /\ wake = "idle"
  /\ \A n \in Napis : napi[n] \notin {"poll", "done"}
  /\ pm' = "doze"
  /\ UNCHANGED <<work, sta, ena, irqmask, irq, tasklet, napiVars, wake, wakeWork>>

\* Somebody else wants the chip: mt76_connac_pm_wake, mt76_connac_pm_queue_skb.
PmWake ==
  /\ pm = "doze" /\ wakeWork' = "yes"
  /\ UNCHANGED <<work, sta, ena, irqmask, irq, tasklet, napiVars, pm, wake>>

WakeStart ==
  /\ wake = "idle" /\ wakeWork = "yes"
  /\ wakeWork' = "no" /\ wake' = "own"
  /\ UNCHANGED <<work, sta, ena, irqmask, irq, tasklet, napiVars, pm>>

\* mt792x_mcu_drv_pmctrl: nothing to do when the chip is awake; the rings are
\* set up again when the sleep was deep.
WakeOwn ==
  /\ wake = "own"
  /\ \/ pm = "awake" /\ wake' = "sched" /\ UNCHANGED ena
     \/ pm = "doze"  /\ wake' = "clear" /\ UNCHANGED ena
     \/ pm = "doze"  /\ wake' = "init"  /\ ena' = {}
  /\ UNCHANGED <<work, sta, irqmask, irq, tasklet, napiVars, pm, wakeWork>>

\* mt792x_wpdma_reset and mt792x_dma_enable: empty rings, everything unmasked.
WakeInit ==
  /\ wake = "init"
  /\ work' = {} /\ irqmask' = Src /\ tasklet' = "yes"
  /\ wake' = "clear"
  /\ UNCHANGED <<sta, ena, irq, napiVars, pm, wakeWork>>

WakeClear ==
  /\ wake = "clear"
  /\ pm' = "awake" /\ wake' = "sched"
  /\ UNCHANGED <<work, sta, ena, irqmask, irq, tasklet, napiVars, wakeWork>>

\* The receive NAPIs are scheduled; the command rings are reaped, tx_napi is
\* not scheduled.
WakeSchedule ==
  /\ wake = "sched"
  /\ NapiSchedule(Rx)
  /\ wake' = "idle"
  /\ UNCHANGED <<work, sta, ena, irqmask, irq, tasklet, pm, wakeWork>>

-----------------------------------------------------------------------------
TaskletNext == TaskletRead \/ TaskletAck \/ TaskletMask \/ TaskletSchedule
PollNext(n) == PollStart(n) \/ PollRefused(n) \/ PollDrain(n) \/ PollBudget(n) \/ PollComplete(n)
WakeNext    == WakeStart \/ WakeOwn \/ WakeInit \/ WakeClear \/ WakeSchedule

Next ==
  \/ \E s \in Src : Arrive(s)
  \/ Interrupt \/ TaskletNext \/ Doze \/ PmWake \/ WakeNext
  \/ \E n \in Napis : PollNext(n)

Spec == Init /\ [][Next]_vars

\* Interrupts are delivered, softirqs and wake_work run; a budget is not used
\* up for ever, and a NAPI that runs again and again, while the chip wakes and
\* dozes, runs some time while the chip is awake.
Fairness ==
  /\ WF_vars(Interrupt) /\ WF_vars(TaskletNext) /\ WF_vars(WakeNext)
  /\ \A n \in Rx : /\ WF_vars(PollNext(n))
                   /\ SF_vars(PollStart(n) /\ pm = "awake")
                   /\ SF_vars(PollRefused(n) /\ pm = "awake")
                   /\ SF_vars(PollDrain(n))

FairSpec == Spec /\ Fairness
-----------------------------------------------------------------------------
TypeOK ==
  /\ work \subseteq Rx
  /\ sta \subseteq Src /\ ena \subseteq Src /\ irqmask \subseteq Src
  /\ irq \in [pc : {"idle", "ack", "mask", "sched"}, intr : SUBSET Src]
  /\ tasklet \in {"yes", "no"} /\ wakeWork \in {"yes", "no"}
  /\ napi \in [Napis -> {"idle", "sched", "refused", "poll", "done"}] /\ missed \subseteq Napis
  /\ pm \in {"awake", "doze"} /\ wake \in {"idle", "own", "init", "clear", "sched"}

WakeComing == wakeWork = "yes" \/ wake # "idle"

\* NAPI q runs, is scheduled, or is about to be by the tasklet or wake_work.
PollComing(q) == napi[q] # "idle" \/ q \in irq.intr \/ WakeComing

\* A masked receive source always has somebody who will unmask it: a poll that
\* found the chip asleep and gave up, an interrupt taken at the moment the mask
\* is changed, or a wake-up in between never leave it masked for good.
MaskedHasUnmasker == \A q \in Rx : q \notin irqmask => PollComing(q)

\* What arrives in a receive ring is noticed: it will be polled, or its status
\* bit is set, unmasked, and enabled now or by a tasklet on its way.
ArrivalIsNoticed ==
  \A q \in Rx \cap work :
    \/ PollComing(q)
    \/ q \in sta /\ q \in irqmask /\ (q \in ena \/ tasklet = "yes" \/ irq.pc # "idle")

\* Nothing that arrives is stranded, neither behind a mask that nobody lifts nor
\* behind an interrupt that nobody takes.
NoArrivalIsStranded == MaskedHasUnmasker /\ ArrivalIsNoticed

\* Every receive ring is drained again and again, however often the chip dozes.
RingIsDrained == \A q \in Rx : q \in work ~> q \notin work
============================================================================
