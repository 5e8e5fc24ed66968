-------------------------- MODULE PowerSaveProofs --------------------------
(***************************************************************************)
(* Proofs about PowerSave: type correctness, the exclusion between users   *)
(* of the device and its sleep, the refinement of DeviceLease, and that    *)
(* neither a holder of dev.mutex nor the way to sleep is forgotten, for    *)
(* any number of transmit callers, pollers and mutex users.                *)
(*                                                                         *)
(* The exclusion is not inductive by itself.  OwnershipInv adds what each  *)
(* program counter of the workqueue knows about the PM bit and the owner,  *)
(* CountInv that pm.wake.count counts the references, and MutexInv that    *)
(* past its cancel_delayed_work_sync a mutex holder meets no ps_work that  *)
(* already went through the mutex test.  ServedInv follows the wake-up a   *)
(* holder waits for through the queue and the steps of wake_work.          *)
(***************************************************************************)
EXTENDS PowerSave, FiniteSetTheorems, TLAPS

CountInv == wakeCount = Cardinality(Referenced)

OwnershipInv ==
  /\ Referenced # {} => pmState = "awake"
  /\ pmState = "awake" => Usable
  /\ wq = "ps_own" => pmState = "doze"
  /\ wq \in {"wake_dma", "wake_clear"} => pmState = "doze" /\ owner = "driver"
  /\ wq = "wake_clear" => dma \in {"ready", "failed"}
  /\ wq = "wake_deq" => pmState = "awake"

MutexInv ==
  /\ mutex # NoTask => mutex \in Tasks /\ task[mutex] \notin {"idle", "want"}
  /\ \A t \in Tasks :
       /\ task[t] \notin {"idle", "want"} => mutex = t
       /\ task[t] \in {"test", "wait", "access", "blind"} =>
            wq \notin {"ps_token", "ps_lock", "ps_own", "ps_mac"}
       /\ task[t] = "access" => pmState = "awake"

IInv == TypeOK /\ CountInv /\ OwnershipInv /\ MutexInv

-----------------------------------------------------------------------------
LEMMA ReferencedFinite == IsFiniteSet(Referenced)
<1>1. Referenced \in SUBSET Ctx
  BY DEF Referenced
<1> QED
  BY <1>1, PowerSaveAssumption, FS_Subset

\* Entering and leaving "in" adds and removes one reference.
LEMMA Enters ==
  ASSUME TypeOK, NEW c \in Ctx, ctx' = [ctx EXCEPT ![c] = "in"], ctx[c] # "in"
  PROVE  /\ Referenced' = Referenced \cup {c}
         /\ Cardinality(Referenced') = Cardinality(Referenced) + 1
<1>1. Referenced' = Referenced \cup {c}
  BY DEF TypeOK, Referenced
<1>2. c \notin Referenced
  BY DEF Referenced
<1> QED
  BY <1>1, <1>2, ReferencedFinite, FS_AddElement

LEMMA Leaves ==
  ASSUME TypeOK, NEW c \in Ctx, ctx' = [ctx EXCEPT ![c] = "idle"], ctx[c] = "in"
  PROVE  /\ Referenced' = Referenced \ {c}
         /\ Cardinality(Referenced') = Cardinality(Referenced) - 1
<1>1. Referenced' = Referenced \ {c}
  BY DEF TypeOK, Referenced
<1>2. c \in Referenced
  BY DEF Referenced
<1> QED
  BY <1>1, <1>2, ReferencedFinite, FS_RemoveElement

LEMMA Moves ==
  ASSUME TypeOK, NEW c \in Ctx, NEW s, ctx' = [ctx EXCEPT ![c] = s],
         s # "in", ctx[c] # "in"
  PROVE  Referenced' = Referenced
  BY DEF TypeOK, Referenced

LEMMA PollersAreCtx == Pollers \subseteq Ctx /\ Xmitters \subseteq Ctx
  BY PowerSaveAssumption DEF Ctx

-----------------------------------------------------------------------------
(* Type correctness.                                                       *)

LEMMA TypeInit == Init => TypeOK
  BY PowerSaveAssumption DEF Init, TypeOK, Works, PsRunning, WakeRunning

\* The count stays a natural number only because it counts the references.
LEMMA TypeStep == TypeOK /\ CountInv /\ [Next]_vars => TypeOK'
<1> SUFFICES ASSUME TypeOK, CountInv, [Next]_vars PROVE TypeOK'
  OBVIOUS
<1> USE DEF TypeOK, Works, Arm, Disarm, Goto
<1>1. ASSUME NEW p \in Pollers, Schedule(p) PROVE TypeOK'
  BY <1>1 DEF Schedule, devVars, taskVars, txVars
<1>2. ASSUME NEW x \in Xmitters, StartXmit(x) PROVE TypeOK'
  BY <1>2, PollersAreCtx DEF StartXmit, PmRef, devVars, taskVars, txVars
<1>3. ASSUME NEW x \in Xmitters, NEW ac \in ACs, ParkFrame(x, ac) PROVE TypeOK'
  BY <1>3, PollersAreCtx DEF ParkFrame, devVars, taskVars, txVars
<1>4. ASSUME NEW p \in Pollers, StartPoll(p) PROVE TypeOK'
  <2>1. CASE PmRef(p)
    <3>1. ctx' \in [Ctx -> {"idle", "in", "refused"}] /\ wakeCount' \in Nat
      BY <2>1, PollersAreCtx DEF PmRef
    <3>2. works' \subseteq Works /\ scheduled' \subseteq Pollers
      BY <1>4 DEF StartPoll
    <3> QED
      BY <1>4, <3>1, <3>2 DEF StartPoll, devVars, taskVars, txVars
  <2>2. CASE ~PmRef(p)
    BY <1>4, <2>2, PollersAreCtx DEF StartPoll, devVars, taskVars, txVars
  <2> QED
    BY <2>1, <2>2
<1>5. ASSUME NEW p \in Pollers, UseDevice(p) PROVE TypeOK'
  BY <1>5, PowerSaveAssumption DEF UseDevice, devVars, taskVars, txVars
<1>6. ASSUME NEW c \in Ctx, PmUnref(c) PROVE TypeOK'
  <2>1. wakeCount' \in Nat
    <3>1. Referenced # {}
      BY <1>6 DEF PmUnref, Referenced
    <3>2. wakeCount # 0
      BY <3>1, ReferencedFinite, FS_EmptySet DEF CountInv
    <3> QED
      BY <1>6, <3>2 DEF PmUnref
  <2>2. ctx' \in [Ctx -> {"idle", "in", "refused"}]
    BY <1>6 DEF PmUnref
  <2>3. works' \subseteq Works /\ scheduled' \subseteq Pollers
    BY <1>6, PowerSaveAssumption DEF PmUnref, PowerSaveSched
  <2> QED
    BY <1>6, <2>1, <2>2, <2>3 DEF PmUnref, devVars, taskVars, txVars
<1>7. CASE WorkNext
  <2> USE DEF devVars, ctxVars, taskVars, txVars, PsRunning, WakeRunning
  <2>1. CASE StartPsWork \/ PsRetry \/ PsGate \/ PsToken \/ PsLock
    BY <2>1 DEF StartPsWork, PsRetry, PsGate, PsToken, PsLock
  <2>2. CASE PsOwn \/ PsCancelMac
    BY <2>2 DEF PsOwn, PsCancelMac
  <2>3. CASE StartWakeWork \/ WakeOwn \/ WakeDma
    BY <2>3 DEF StartWakeWork, WakeOwn, WakeDma
  <2>4. CASE WakeClear \/ WakeDequeue \/ WakeDone
    BY <2>4 DEF WakeClear, WakeDequeue, WakeDone
  <2> QED
    BY <1>7, <2>1, <2>2, <2>3, <2>4 DEF WorkNext
<1>8. ASSUME NEW t \in Tasks, TaskNext(t) PROVE TypeOK'
  <2> USE DEF devVars, ctxVars, txVars
  <2>1. CASE TaskStart(t) \/ TaskLock(t) \/ TaskSetRuntimePm(t)
    BY <2>1 DEF TaskStart, TaskLock, TaskSetRuntimePm
  <2>2. CASE TaskCancelPs(t) \/ TaskTestPm(t)
    BY <2>2 DEF TaskCancelPs, TaskTestPm
  <2>3. CASE TaskWoken(t) \/ TaskTimeout(t)
    BY <2>3 DEF TaskWoken, TaskTimeout
  <2>4. CASE TaskRelease(t)
    BY <2>4 DEF TaskRelease, PowerSaveSched
  <2> QED
    BY <1>8, <2>1, <2>2, <2>3, <2>4 DEF TaskNext
<1>9. CASE UNCHANGED vars
  BY <1>9 DEF vars
<1> QED
  BY <1>1, <1>2, <1>3, <1>4, <1>5, <1>6, <1>7, <1>8, <1>9 DEF Next, CtxNext

-----------------------------------------------------------------------------
(* What each group of steps leaves alone.                                  *)

ResetStays == "reset_work" \in works => "reset_work" \in works'

\* Callers and pollers touch neither the PM bit, the chip nor the mutex.
LEMMA CtxFrame ==
  ASSUME CtxNext
  PROVE  UNCHANGED <<pmState, owner, dma, wq, mutex, task>> /\ ResetStays
<1> USE DEF ResetStays, Arm, devVars, taskVars, txVars
<1>1. ASSUME NEW p \in Pollers, Schedule(p) \/ UseDevice(p)
      PROVE  UNCHANGED <<pmState, owner, dma, wq, mutex, task>> /\ ResetStays
  BY <1>1 DEF Schedule, UseDevice
<1>2. ASSUME NEW p \in Pollers, StartPoll(p)
      PROVE  UNCHANGED <<pmState, owner, dma, wq, mutex, task>> /\ ResetStays
  BY <1>2 DEF StartPoll
<1>3. ASSUME NEW x \in Xmitters, StartXmit(x)
      PROVE  UNCHANGED <<pmState, owner, dma, wq, mutex, task>> /\ ResetStays
  BY <1>3 DEF StartXmit
<1>4. ASSUME NEW x \in Xmitters, NEW ac \in ACs, ParkFrame(x, ac)
      PROVE  UNCHANGED <<pmState, owner, dma, wq, mutex, task>> /\ ResetStays
  BY <1>4 DEF ParkFrame
<1>5. ASSUME NEW c \in Ctx, PmUnref(c)
      PROVE  UNCHANGED <<pmState, owner, dma, wq, mutex, task>> /\ ResetStays
  BY <1>5 DEF PmUnref, PowerSaveSched
<1> QED
  BY <1>1, <1>2, <1>3, <1>4, <1>5 DEF CtxNext

\* The works take no reference and hold no mutex.
LEMMA WorkFrame ==
  ASSUME WorkNext
  PROVE  UNCHANGED <<wakeCount, ctx, mutex, task>>
<1> USE DEF ctxVars, taskVars
<1>1. CASE StartPsWork \/ PsRetry \/ PsGate \/ PsToken \/ PsLock \/ PsOwn \/ PsCancelMac
  BY <1>1 DEF StartPsWork, PsRetry, PsGate, PsToken, PsLock, PsOwn, PsCancelMac
<1>2. CASE StartWakeWork \/ WakeOwn \/ WakeDma \/ WakeClear \/ WakeDequeue \/ WakeDone
  BY <1>2 DEF StartWakeWork, WakeOwn, WakeDma, WakeClear, WakeDequeue, WakeDone
<1> QED
  BY <1>1, <1>2 DEF WorkNext

\* A mutex user changes neither the PM bit nor the chip by itself.
LEMMA TaskFrame ==
  ASSUME NEW t \in Tasks, TaskNext(t)
  PROVE  UNCHANGED <<pmState, owner, dma, wakeCount, ctx, wq>> /\ ResetStays
<1> USE DEF ResetStays, Arm, Disarm, devVars, ctxVars
<1>1. CASE TaskStart(t) \/ TaskLock(t) \/ TaskCancelPs(t) \/ TaskTestPm(t)
  BY <1>1 DEF TaskStart, TaskLock, TaskCancelPs, TaskTestPm
<1>2. CASE TaskWoken(t) \/ TaskTimeout(t) \/ TaskSetRuntimePm(t)
  BY <1>2 DEF TaskWoken, TaskTimeout, TaskSetRuntimePm
<1>3. CASE TaskRelease(t)
  BY <1>3 DEF TaskRelease, PowerSaveSched
<1> QED
  BY <1>1, <1>2, <1>3 DEF TaskNext

-----------------------------------------------------------------------------
(* pm.wake.count counts the references.                                    *)

\* A step of a caller or poller enters, leaves or keeps the set of references.
LEMMA CtxSteps ==
  ASSUME TypeOK, CtxNext
  PROVE  \/ \E c \in Ctx : PmRef(c) /\ Referenced' = Referenced \cup {c}
         \/ \E c \in Ctx : PmUnref(c) /\ Referenced' = Referenced \ {c}
         \/ UNCHANGED wakeCount /\ Referenced' = Referenced
<1> DEFINE Goal ==
       \/ \E c \in Ctx : PmRef(c) /\ Referenced' = Referenced \cup {c}
       \/ \E c \in Ctx : PmUnref(c) /\ Referenced' = Referenced \ {c}
       \/ UNCHANGED wakeCount /\ Referenced' = Referenced
<1>1. ASSUME NEW p \in Pollers, Schedule(p) \/ UseDevice(p) PROVE Goal
  BY <1>1 DEF Schedule, UseDevice, Referenced
<1>2. ASSUME NEW c \in Ctx, PmRef(c) PROVE Goal
  BY <1>2, Enters DEF PmRef
<1>3. ASSUME NEW p \in Pollers, StartPoll(p) PROVE Goal
  <2>1. CASE PmRef(p)
    BY <1>2, <2>1, PollersAreCtx
  <2>2. CASE ~PmRef(p)
    BY <1>3, <2>2 DEF StartPoll, Referenced
  <2> QED
    BY <2>1, <2>2
<1>4. ASSUME NEW x \in Xmitters, StartXmit(x) PROVE Goal
  <2>1. CASE PmRef(x)
    BY <1>2, <2>1, PollersAreCtx
  <2>2. CASE ~PmRef(x)
    <3>1. Referenced' = Referenced
      BY <1>4, <2>2, Moves, PollersAreCtx DEF StartXmit
    <3> QED
      BY <1>4, <2>2, <3>1 DEF StartXmit
  <2> QED
    BY <2>1, <2>2
<1>5. ASSUME NEW x \in Xmitters, NEW ac \in ACs, ParkFrame(x, ac) PROVE Goal
  <2>1. Referenced' = Referenced
    BY <1>5, Moves, PollersAreCtx DEF ParkFrame
  <2> QED
    BY <1>5, <2>1 DEF ParkFrame
<1>6. ASSUME NEW c \in Ctx, PmUnref(c) PROVE Goal
  BY <1>6, Leaves DEF PmUnref
<1> HIDE DEF Goal
<1>7. Goal
  BY <1>1, <1>3, <1>4, <1>5, <1>6 DEF CtxNext
<1> QED
  BY <1>7 DEF Goal

LEMMA CountStep == TypeOK /\ CountInv /\ [Next]_vars => CountInv'
<1> SUFFICES ASSUME TypeOK, CountInv, [Next]_vars PROVE CountInv'
  OBVIOUS
<1>1. CASE CtxNext
  <2>1. ASSUME NEW c \in Ctx, PmRef(c) PROVE CountInv'
    BY <2>1, Enters DEF PmRef, CountInv
  <2>2. ASSUME NEW c \in Ctx, PmUnref(c) PROVE CountInv'
    BY <2>2, Leaves DEF PmUnref, CountInv
  <2> QED
    BY <1>1, <2>1, <2>2, CtxSteps DEF CountInv
<1>2. CASE UNCHANGED <<wakeCount, ctx>>
  BY <1>2 DEF CountInv, Referenced
<1> QED
  BY <1>1, <1>2, WorkFrame, TaskFrame DEF Next, vars

-----------------------------------------------------------------------------
(* The sleeping chip has no users.                                         *)

LEMMA NoReference == ASSUME TypeOK, CountInv, wakeCount = 0 PROVE Referenced = {}
  BY ReferencedFinite, FS_EmptySet DEF CountInv

\* A chip that stays usable: nothing touched it and no reset was withdrawn.
LEMMA UsableStays == ASSUME Usable, UNCHANGED <<owner, dma>>, ResetStays PROVE Usable'
  BY DEF Usable, ResetStays

LEMMA WorkKeepsReference == ASSUME WorkNext PROVE Referenced' = Referenced
  BY WorkFrame DEF Referenced

LEMMA OwnershipStep == TypeOK /\ CountInv /\ OwnershipInv /\ [Next]_vars => OwnershipInv'
<1> SUFFICES ASSUME TypeOK, CountInv, OwnershipInv, [Next]_vars PROVE OwnershipInv'
  OBVIOUS
<1>1. CASE CtxNext
  <2>1. UNCHANGED <<pmState, owner, dma, wq>> /\ ResetStays
    BY <1>1, CtxFrame
  <2>2. Referenced' # {} => pmState = "awake"
    <3>1. ASSUME NEW c \in Ctx, PmRef(c) PROVE pmState = "awake"
      BY <3>1 DEF PmRef
    <3> QED
      BY <1>1, <3>1, CtxSteps DEF OwnershipInv
  <2>3. pmState' = "awake" => Usable'
    BY <2>1, UsableStays DEF OwnershipInv
  <2> QED
    BY <2>1, <2>2, <2>3 DEF OwnershipInv
<1>2. CASE WorkNext
  <2>1. Referenced' = Referenced
    BY <1>2, WorkKeepsReference
  <2> USE DEF OwnershipInv, Usable, Arm, Disarm, devVars, PsRunning, WakeRunning
  <2>2. CASE StartPsWork \/ PsRetry \/ PsGate \/ PsToken \/ PsCancelMac
    BY <2>1, <2>2 DEF StartPsWork, PsRetry, PsGate, PsToken, PsCancelMac
  <2>3. CASE PsLock
    <3>1. wakeCount = 0 => Referenced = {}
      BY NoReference
    <3> QED
      BY <2>1, <2>3, <3>1 DEF PsLock
  <2>4. CASE PsOwn
    BY <2>1, <2>4 DEF PsOwn
  <2>5. CASE StartWakeWork \/ WakeOwn \/ WakeDma \/ WakeClear
    BY <2>1, <2>5 DEF StartWakeWork, WakeOwn, WakeDma, WakeClear
  <2>6. CASE WakeDequeue \/ WakeDone
    BY <2>1, <2>6 DEF WakeDequeue, WakeDone
  <2> QED
    BY <1>2, <2>2, <2>3, <2>4, <2>5, <2>6 DEF WorkNext
<1>3. CASE UNCHANGED <<pmState, owner, dma, wq, ctx>> /\ ResetStays
  <2>1. Referenced' = Referenced
    BY <1>3 DEF Referenced
  <2> QED
    BY <1>3, <2>1, UsableStays DEF OwnershipInv
<1>4. ASSUME NEW t \in Tasks, TaskNext(t) PROVE OwnershipInv'
  BY <1>3, <1>4, TaskFrame
<1>5. CASE UNCHANGED vars
  BY <1>3, <1>5 DEF vars, ResetStays
<1> QED
  BY <1>1, <1>2, <1>4, <1>5 DEF Next

-----------------------------------------------------------------------------
(* A mutex user that cancelled ps_work keeps the device.                   *)

LEMMA MutexStep == TypeOK /\ MutexInv /\ [Next]_vars => MutexInv'
<1> SUFFICES ASSUME TypeOK, MutexInv, [Next]_vars PROVE MutexInv'
  OBVIOUS
<1>1. CASE UNCHANGED <<pmState, wq, mutex, task>>
  BY <1>1 DEF MutexInv
<1>2. CASE WorkNext
  <2>1. UNCHANGED <<mutex, task>>
    BY <1>2, WorkFrame
  <2> USE DEF MutexInv
  <2>2. CASE StartPsWork \/ PsRetry \/ PsToken \/ PsCancelMac
    BY <2>1, <2>2 DEF StartPsWork, PsRetry, PsToken, PsCancelMac
  <2>3. CASE PsGate
    <3>1. \A t \in Tasks : task[t] \in {"idle", "want"}
      BY <2>3, PowerSaveAssumption DEF PsGate
    <3> QED
      BY <2>1, <3>1
  <2>4. CASE PsLock \/ PsOwn
    BY <2>1, <2>4 DEF PsLock, PsOwn
  <2>5. CASE StartWakeWork \/ WakeOwn \/ WakeDma \/ WakeClear \/ WakeDequeue \/ WakeDone
    BY <2>1, <2>5 DEF StartWakeWork, WakeOwn, WakeDma, WakeClear, WakeDequeue, WakeDone
  <2> QED
    BY <1>2, <2>2, <2>3, <2>4, <2>5 DEF WorkNext
<1>3. ASSUME NEW t \in Tasks, TaskNext(t) PROVE MutexInv'
  <2>1. UNCHANGED <<pmState, wq>>
    BY <1>3, TaskFrame
  <2> USE DEF MutexInv, Goto, TypeOK
  <2>1a. CASE TaskStart(t)
    BY <2>1, <2>1a DEF TaskStart
  <2>2. CASE TaskLock(t)
    <3>1. \A u \in Tasks : task[u] \in {"idle", "want"}
      BY <2>2, PowerSaveAssumption DEF TaskLock
    <3> QED
      BY <2>1, <2>2, <3>1 DEF TaskLock
  <2>3. CASE TaskCancelPs(t)
    BY <2>1, <2>3 DEF TaskCancelPs, PsRunning
  <2>4. CASE TaskTestPm(t)
    BY <2>1, <2>4 DEF TaskTestPm
  <2>5. CASE TaskWoken(t) \/ TaskTimeout(t) \/ TaskSetRuntimePm(t)
    BY <2>1, <2>5 DEF TaskWoken, TaskTimeout, TaskSetRuntimePm
  <2>6. CASE TaskRelease(t)
    <3>1. \A u \in Tasks \ {t} : task[u] \in {"idle", "want"}
      BY <2>6 DEF TaskRelease
    <3> QED
      BY <2>1, <2>6, <3>1 DEF TaskRelease
  <2> QED
    BY <1>3, <2>1a, <2>2, <2>3, <2>4, <2>5, <2>6 DEF TaskNext
<1>4. CASE CtxNext
  BY <1>1, <1>4, CtxFrame
<1>5. CASE UNCHANGED vars
  BY <1>1, <1>5 DEF vars
<1> QED
  BY <1>2, <1>3, <1>4, <1>5 DEF Next

-----------------------------------------------------------------------------
LEMMA IInvInit == Init => IInv
<1> SUFFICES ASSUME Init PROVE IInv
  OBVIOUS
<1>1. TypeOK
  BY TypeInit
<1>2. Referenced = {}
  BY DEF Init, Referenced
<1>3. CountInv
  BY <1>2, FS_EmptySet DEF CountInv, Init
<1>4. OwnershipInv
  BY <1>2 DEF OwnershipInv, Usable, Init
<1>5. MutexInv
  BY DEF MutexInv, Init
<1> QED
  BY <1>1, <1>3, <1>4, <1>5 DEF IInv

\* The inductive invariant holds in every reachable state.
THEOREM Invariance == Spec => []IInv
<1>1. IInv /\ [Next]_vars => IInv'
  BY TypeStep, CountStep, OwnershipStep, MutexStep DEF IInv
<1> QED
  BY IInvInit, <1>1, PTL DEF Spec

\* Every variable keeps its type; pm.wake.count in particular never goes
\* below zero, because every mt76_connac_pm_unref follows a successful ref.
THEOREM TypeCorrect == Spec => []TypeOK
<1>1. IInv => TypeOK
  BY DEF IInv
<1> QED
  BY <1>1, Invariance, PTL

\* A reference holder never meets a sleeping chip, for any number of callers
\* and pollers.
THEOREM RefHolderSafe == Spec => []RefHolderOwnsDevice
<1>1. IInv => RefHolderOwnsDevice
  BY DEF IInv, OwnershipInv, RefHolderOwnsDevice
<1> QED
  BY <1>1, Invariance, PTL

\* A mutex user that was not timed out owns the device until it releases the
\* mutex, for any number of mutex users.
THEOREM MutexHolderSafe == Spec => []MutexHolderOwnsDevice
<1>1. IInv => MutexHolderOwnsDevice
  BY DEF IInv, OwnershipInv, MutexInv, MutexHolderOwnsDevice, Accessing
<1> QED
  BY <1>1, Invariance, PTL

\* wake_work hands out frames and reaps rings on a chip that the driver owns.
THEOREM WakeWorkSafe == Spec => []WakeWorkOwnsDevice
<1>1. IInv => WakeWorkOwnsDevice
  BY DEF IInv, OwnershipInv, WakeWorkOwnsDevice
<1> QED
  BY <1>1, Invariance, PTL

-----------------------------------------------------------------------------
(* Parked frames and stopped queues.                                       *)

LEMMA FlowStep == FlowHasWake /\ [Next]_vars => FlowHasWake'
<1> SUFFICES ASSUME FlowHasWake, [Next]_vars PROVE FlowHasWake'
  OBVIOUS
<1> USE DEF FlowHasWake, ParkedHasWake, StoppedHasWake, WakeRunning
\* A step that withdraws neither a wake-up nor a reset keeps the invariant.
<1>1. CASE /\ UNCHANGED <<parked, txQueues, wq>>
           /\ \A w \in {"wake_work", "reset_work"} : w \in works => w \in works'
  BY <1>1
<1>2. CASE CtxNext
  <2> USE DEF Arm, taskVars, txVars
  <2>1. ASSUME NEW p \in Pollers, Schedule(p) \/ StartPoll(p) \/ UseDevice(p) PROVE FlowHasWake'
    BY <1>1, <2>1 DEF Schedule, StartPoll, UseDevice
  <2>2. ASSUME NEW x \in Xmitters, StartXmit(x) PROVE FlowHasWake'
    BY <1>1, <2>2 DEF StartXmit
  <2>3. ASSUME NEW x \in Xmitters, NEW ac \in ACs, ParkFrame(x, ac) PROVE FlowHasWake'
    BY <2>3 DEF ParkFrame
  <2>4. ASSUME NEW c \in Ctx, PmUnref(c) PROVE FlowHasWake'
    BY <1>1, <2>4 DEF PmUnref, PowerSaveSched
  <2> QED
    BY <1>2, <2>1, <2>2, <2>3, <2>4 DEF CtxNext
<1>3. CASE WorkNext
  <2> USE DEF Arm, Disarm, txVars
  <2>1. CASE StartPsWork \/ PsRetry \/ PsGate \/ PsToken \/ PsLock \/ PsOwn \/ PsCancelMac
    BY <2>1 DEF StartPsWork, PsRetry, PsGate, PsToken, PsLock, PsOwn, PsCancelMac
  <2>2. CASE StartWakeWork \/ WakeOwn \/ WakeDma \/ WakeClear
    BY <2>2 DEF StartWakeWork, WakeOwn, WakeDma, WakeClear
  <2>3. CASE WakeDequeue \/ WakeDone
    BY <2>3 DEF WakeDequeue, WakeDone
  <2> QED
    BY <1>3, <2>1, <2>2, <2>3 DEF WorkNext
<1>4. ASSUME NEW t \in Tasks, TaskNext(t) PROVE FlowHasWake'
  <2> USE DEF Arm, Disarm, txVars
  <2>1. CASE \/ TaskStart(t) \/ TaskLock(t) \/ TaskCancelPs(t) \/ TaskTestPm(t)
             \/ TaskWoken(t) \/ TaskSetRuntimePm(t)
    BY <1>1, <2>1 DEF TaskStart, TaskLock, TaskCancelPs, TaskTestPm, TaskWoken, TaskSetRuntimePm
  <2>2. CASE TaskTimeout(t)
    BY <2>2 DEF TaskTimeout
  <2>3. CASE TaskRelease(t)
    BY <1>1, <2>3 DEF TaskRelease, PowerSaveSched
  <2> QED
    BY <1>4, <2>1, <2>2, <2>3 DEF TaskNext
<1>5. CASE UNCHANGED vars
  BY <1>1, <1>5 DEF vars
<1> QED
  BY <1>2, <1>3, <1>4, <1>5 DEF Next

\* No interleaving of a refused caller with wake_work strands a parked frame,
\* and mac80211 queues that were stopped for one are always about to be
\* restarted.
THEOREM FlowSafe == Spec => []FlowHasWake
<1>1. Init => FlowHasWake
  BY DEF Init, FlowHasWake, ParkedHasWake, StoppedHasWake
<1> QED
  BY <1>1, FlowStep, PTL DEF Spec

-----------------------------------------------------------------------------
(* Nobody who holds dev.mutex is forgotten.                                *)

\* Somebody will wake the chip, or has been asked to reset it.
WakeOnItsWay ==
  \/ pmState = "awake"
  \/ works \cap {"wake_work", "reset_work"} # {}
  \/ wq \in {"wake_own", "wake_dma", "wake_clear"}

ServedInv == \A t \in Tasks : task[t] = "wait" => WakeOnItsWay

\* ps_work waits for a mac_work that is running.
PsWorkWaits == wq = "ps_mac" /\ MacTask # NoTask /\ task[MacTask] # "idle"

\* dev.mutex has a holder that has not returned; one that waits for the chip
\* has a wake-up on its way; and the ordered queue, on which that wake-up runs,
\* is blocked by a ps_work that waits for mac_work only while no holder is past
\* its cancel_delayed_work_sync.
MutexUserIsServed ==
  /\ mutex # NoTask => task[mutex] \notin {"idle", "want"}
  /\ \A t \in Tasks : task[t] = "wait" => WakeOnItsWay
  /\ PsWorkWaits => \A t \in Tasks : task[t] \in {"idle", "want", "cancel"}

LEMMA ServedStep == TypeOK /\ MutexInv /\ ServedInv /\ [Next]_vars => ServedInv'
<1> SUFFICES ASSUME TypeOK, MutexInv, ServedInv, [Next]_vars PROVE ServedInv'
  OBVIOUS
<1> USE DEF ServedInv
\* A step that withdraws neither a wake-up nor a reset keeps the invariant.
<1>1. ASSUME UNCHANGED <<pmState, wq, task>>,
             \A w \in {"wake_work", "reset_work"} : w \in works => w \in works'
      PROVE  ServedInv'
  BY <1>1 DEF WakeOnItsWay
<1>2. CASE CtxNext
  <2>1. UNCHANGED <<pmState, wq, task>>
    BY <1>2, CtxFrame
  <2>2. \A w \in {"wake_work", "reset_work"} : w \in works => w \in works'
    <3> USE DEF Arm, txVars
    <3>1. ASSUME NEW p \in Pollers, Schedule(p) \/ StartPoll(p) \/ UseDevice(p)
          PROVE  works \subseteq works'
      BY <3>1 DEF Schedule, StartPoll, UseDevice
    <3>2. ASSUME NEW x \in Xmitters, StartXmit(x) PROVE works \subseteq works'
      BY <3>2 DEF StartXmit
    <3>3. ASSUME NEW x \in Xmitters, NEW ac \in ACs, ParkFrame(x, ac)
          PROVE  works \subseteq works'
      BY <3>3 DEF ParkFrame
    <3>4. ASSUME NEW c \in Ctx, PmUnref(c) PROVE works \ {"mac_work"} \subseteq works'
      BY <3>4 DEF PmUnref, PowerSaveSched
    <3> QED
      BY <1>2, <3>1, <3>2, <3>3, <3>4 DEF CtxNext
  <2> QED
    BY <1>1, <2>1, <2>2
<1>3. CASE WorkNext
  <2>1. task' = task
    BY <1>3, WorkFrame
  <2>2. SUFFICES ASSUME NEW t \in Tasks, task[t] = "wait" PROVE WakeOnItsWay'
    BY <2>1
  <2>3. WakeOnItsWay /\ wq \notin {"ps_token", "ps_lock", "ps_own", "ps_mac"}
    BY <2>2 DEF MutexInv
  <2> USE DEF WakeOnItsWay, Arm, Disarm
  <2>4. CASE StartPsWork \/ PsRetry \/ PsGate \/ PsToken \/ PsLock \/ PsOwn \/ PsCancelMac
    BY <2>3, <2>4
       DEF StartPsWork, PsRetry, PsGate, PsToken, PsLock, PsOwn, PsCancelMac
  <2>5. CASE StartWakeWork \/ WakeOwn \/ WakeDma \/ WakeClear
    BY <2>3, <2>5 DEF StartWakeWork, WakeOwn, WakeDma, WakeClear
  <2>6. CASE WakeDequeue \/ WakeDone
    BY <2>3, <2>6 DEF WakeDequeue, WakeDone
  <2> QED
    BY <1>3, <2>4, <2>5, <2>6 DEF WorkNext
<1>4. ASSUME NEW t \in Tasks, TaskNext(t) PROVE ServedInv'
  <2> USE DEF Arm, Disarm, Goto, TypeOK, WakeOnItsWay
  <2>1. CASE TaskStart(t) \/ TaskLock(t) \/ TaskCancelPs(t)
    BY <2>1 DEF TaskStart, TaskLock, TaskCancelPs
  <2>2. CASE TaskTestPm(t)
    BY <2>2 DEF TaskTestPm
  <2>3. CASE TaskWoken(t) \/ TaskTimeout(t) \/ TaskSetRuntimePm(t)
    BY <2>3 DEF TaskWoken, TaskTimeout, TaskSetRuntimePm
  <2>4. CASE TaskRelease(t)
    BY <2>4 DEF TaskRelease, PowerSaveSched
  <2> QED
    BY <1>4, <2>1, <2>2, <2>3, <2>4 DEF TaskNext
<1>5. CASE UNCHANGED vars
  BY <1>1, <1>5 DEF vars
<1> QED
  BY <1>2, <1>3, <1>4, <1>5 DEF Next

\* Whoever has got dev.mutex and waits for the chip (mt76_connac_pm_wake) is
\* never left without a wake-up, nor behind a ps_work that waits for mac_work
\* (mt792x_pm_power_save_work): the works can only block each other while the
\* holder of the mutex is still in its cancel_delayed_work_sync.
THEOREM MutexUsersAreServed == Spec => []MutexUserIsServed
<1>1. Init => ServedInv
  BY DEF Init, ServedInv
<1>2. IInv /\ ServedInv /\ [Next]_vars => ServedInv'
  BY ServedStep DEF IInv
<1>3. IInv /\ ServedInv => MutexUserIsServed
  <2> SUFFICES ASSUME IInv, ServedInv PROVE MutexUserIsServed
    OBVIOUS
  <2>1. ASSUME PsWorkWaits, NEW t \in Tasks PROVE task[t] \in {"idle", "want", "cancel"}
    BY <2>1 DEF PsWorkWaits, IInv, TypeOK, MutexInv
  <2> QED
    BY <2>1 DEF MutexUserIsServed, ServedInv, IInv, MutexInv
<1> QED
  BY <1>1, <1>2, <1>3, Invariance, PTL DEF Spec

-----------------------------------------------------------------------------
(* Going to sleep is not forgotten.                                        *)

\* ps_work is armed or has not come to a decision yet, or wake_work is about to
\* schedule the pollers, who arm it when they leave.
SleepOnItsWay == "ps_work" \in works \/ wq \in {"ps_gate", "ps_token", "ps_lock", "wake_deq"}

\* Whose leaving arms ps_work: a reference, a poller that will take one, a
\* tx-free event of the firmware, which schedules one, or a holder of dev.mutex.
SomebodyWillArm == Referenced # {} \/ scheduled # {} \/ tokenCount > 0 \/ mutex # NoTask

\* A device that is awake with runtime PM enabled has its way to sleep, or
\* somebody who will arm it.
AwakeDeviceWillSleep ==
  runtimePm = "on" /\ pmState = "awake" => SleepOnItsWay \/ SomebodyWillArm

\* A step after which the same is on its way, or the same people are there,
\* keeps the property.
LEMMA SleepKept ==
  ASSUME AwakeDeviceWillSleep,
         runtimePm' = "on" /\ pmState' = "awake" => runtimePm = "on" /\ pmState = "awake",
         SleepOnItsWay => SleepOnItsWay', SomebodyWillArm => SomebodyWillArm'
  PROVE  AwakeDeviceWillSleep'
  BY DEF AwakeDeviceWillSleep

LEMMA SleepCtx ==
  ASSUME TypeOK, CountInv, AwakeDeviceWillSleep, CtxNext
  PROVE  AwakeDeviceWillSleep'
<1>1. UNCHANGED <<pmState, runtimePm, wq, mutex>>
  BY CtxFrame DEF CtxNext, Schedule, StartPoll, UseDevice, StartXmit, ParkFrame, PmUnref, taskVars
<1> USE DEF SomebodyWillArm, SleepOnItsWay, Arm
<1>2. ASSUME NEW p \in Pollers, Schedule(p) PROVE AwakeDeviceWillSleep'
  <2>1. Referenced' = Referenced
    BY <1>2 DEF Schedule, Referenced
  <2> QED
    BY <1>1, <1>2, <2>1, SleepKept DEF Schedule
<1>3. ASSUME NEW p \in Pollers, StartPoll(p) PROVE AwakeDeviceWillSleep'
  <2>1. CASE PmRef(p)
    <3>1. Referenced' # {}
      BY <2>1, PollersAreCtx DEF PmRef, Referenced, TypeOK
    <3> QED
      BY <3>1 DEF AwakeDeviceWillSleep
  <2>2. CASE pmState = "doze"
    BY <1>1, <2>2 DEF AwakeDeviceWillSleep
  <2> QED
    BY <1>3, <2>1, <2>2 DEF StartPoll
<1>4. ASSUME NEW p \in Pollers, UseDevice(p) PROVE AwakeDeviceWillSleep'
  <2>1. p \in Referenced'
    BY <1>4, PollersAreCtx DEF UseDevice, Referenced
  <2> QED
    BY <2>1 DEF AwakeDeviceWillSleep
<1>5. ASSUME NEW x \in Xmitters, StartXmit(x) PROVE AwakeDeviceWillSleep'
  <2>1. CASE PmRef(x)
    <3>1. Referenced' # {}
      BY <2>1, PollersAreCtx DEF PmRef, Referenced, TypeOK
    <3> QED
      BY <3>1 DEF AwakeDeviceWillSleep
  <2>2. CASE pmState = "doze"
    BY <1>1, <2>2 DEF AwakeDeviceWillSleep
  <2> QED
    BY <1>5, <2>1, <2>2 DEF StartXmit
<1>6. ASSUME NEW x \in Xmitters, NEW ac \in ACs, ParkFrame(x, ac) PROVE AwakeDeviceWillSleep'
  <2>1. Referenced' = Referenced
    BY <1>6, PollersAreCtx DEF ParkFrame, Referenced, TypeOK
  <2>2. works \subseteq works' /\ UNCHANGED <<tokenCount, scheduled>>
    BY <1>6 DEF ParkFrame, txVars
  <2> QED
    BY <1>1, <2>1, <2>2, SleepKept
\* The last one arms ps_work; before it, another reference is left.
<1>7. ASSUME NEW c \in Ctx, PmUnref(c) PROVE AwakeDeviceWillSleep'
  <2>1. CASE wakeCount = 1
    BY <1>1, <1>7, <2>1 DEF PmUnref, PowerSaveSched, AwakeDeviceWillSleep
  <2>2. CASE wakeCount # 1
    <3>1. Cardinality(Referenced') = Cardinality(Referenced) - 1
      BY <1>7, Leaves DEF PmUnref
    <3>2. Cardinality(Referenced') # 0
      BY <2>2, <3>1 DEF CountInv, TypeOK
    <3>3. Referenced' # {}
      BY <3>2, FS_EmptySet
    <3> QED
      BY <3>3 DEF AwakeDeviceWillSleep
  <2> QED
    BY <2>1, <2>2
<1> QED
  BY <1>2, <1>3, <1>4, <1>5, <1>6, <1>7 DEF CtxNext

LEMMA SleepWork ==
  ASSUME TypeOK, CountInv, AwakeDeviceWillSleep, WorkNext
  PROVE  AwakeDeviceWillSleep'
<1>1. Referenced' = Referenced /\ UNCHANGED <<runtimePm, mutex, tokenCount>>
  BY WorkKeepsReference, WorkFrame
     DEF WorkNext, StartPsWork, PsRetry, PsGate, PsToken, PsLock, PsOwn, PsCancelMac,
         StartWakeWork, WakeOwn, WakeDma, WakeClear, WakeDequeue, WakeDone, taskVars, ctxVars
<1> USE DEF AwakeDeviceWillSleep, SleepOnItsWay, SomebodyWillArm, Arm, Disarm, ctxVars
<1>2. CASE StartPsWork \/ PsRetry \/ PsGate
  BY <1>1, <1>2 DEF StartPsWork, PsRetry, PsGate
<1>3. CASE PsToken
  BY <1>1, <1>3 DEF PsToken, TypeOK
<1>4. CASE PsLock
  <2>1. wakeCount # 0 => Referenced # {}
    BY FS_EmptySet DEF CountInv
  <2> QED
    BY <1>1, <1>4, <2>1 DEF PsLock
<1>5. CASE PsOwn \/ PsCancelMac
  BY <1>1, <1>5 DEF PsOwn, PsCancelMac
<1>6. CASE StartWakeWork \/ WakeOwn \/ WakeDma \/ WakeClear
  BY <1>1, <1>6 DEF StartWakeWork, WakeOwn, WakeDma, WakeClear
<1>7. CASE WakeDequeue
  <2>1. scheduled' # {}
    BY <1>7, PowerSaveAssumption DEF WakeDequeue
  <2> QED
    BY <2>1
<1>8. CASE WakeDone
  BY <1>1, <1>8 DEF WakeDone
<1> QED
  BY <1>2, <1>3, <1>4, <1>5, <1>6, <1>7, <1>8 DEF WorkNext

LEMMA SleepTask ==
  ASSUME TypeOK, MutexInv, AwakeDeviceWillSleep, NEW t \in Tasks, TaskNext(t)
  PROVE  AwakeDeviceWillSleep'
<1>1. Referenced' = Referenced /\ UNCHANGED <<pmState, wq, tokenCount, scheduled>>
  BY TaskFrame
     DEF TaskNext, TaskStart, TaskLock, TaskCancelPs, TaskTestPm, TaskWoken, TaskTimeout,
         TaskSetRuntimePm, TaskRelease, ctxVars, Referenced
<1> USE DEF AwakeDeviceWillSleep, SleepOnItsWay, SomebodyWillArm, Arm, Disarm
<1>2. CASE TaskStart(t)
  BY <1>1, <1>2 DEF TaskStart
<1>3. CASE TaskRelease(t)
  BY <1>1, <1>3 DEF TaskRelease, PowerSaveSched
\* In all others the mutex is held afterwards.
<1>4. CASE \/ TaskLock(t) \/ TaskCancelPs(t) \/ TaskTestPm(t) \/ TaskWoken(t)
           \/ TaskTimeout(t) \/ TaskSetRuntimePm(t)
  <2>1. mutex' = t
    BY <1>4 DEF TaskLock, TaskCancelPs, TaskTestPm, TaskWoken, TaskTimeout, TaskSetRuntimePm, MutexInv
  <2> QED
    BY <2>1, PowerSaveAssumption
<1> QED
  BY <1>2, <1>3, <1>4 DEF TaskNext

\* Runtime power management never forgets to go to sleep: a ps_work that was
\* skipped, cancelled or refused (mt792x_pm_power_save_work arms itself only when
\* fw_pmctrl fails) leaves somebody behind who arms it again.
THEOREM SleepIsNotForgotten == Spec => []AwakeDeviceWillSleep
<1>1. Init => AwakeDeviceWillSleep
  BY DEF Init, AwakeDeviceWillSleep, SleepOnItsWay
<1>2. IInv /\ AwakeDeviceWillSleep /\ [Next]_vars => AwakeDeviceWillSleep'
  <2> SUFFICES ASSUME IInv, AwakeDeviceWillSleep, [Next]_vars PROVE AwakeDeviceWillSleep'
    OBVIOUS
  <2>1. CASE UNCHANGED vars
    BY <2>1 DEF vars, AwakeDeviceWillSleep, SleepOnItsWay, SomebodyWillArm, Referenced
  <2> QED
    BY <2>1, SleepCtx, SleepWork, SleepTask DEF IInv, Next
<1> QED
  BY <1>1, <1>2, Invariance, PTL DEF Spec

-----------------------------------------------------------------------------
(* The refinement of DeviceLease: every step enters, leaves, dozes, rouses *)
(* or changes nothing that the lease can see.                              *)

chipState == IF Usable THEN "usable" ELSE "lost"
leaseUsers == Referenced \cup Accessing

\* Only the works of dev.wq ask for a reset.
LEMMA ResetNotAsked ==
  ASSUME CtxNext \/ \E t \in Tasks : TaskNext(t), "reset_work" \in works'
  PROVE  "reset_work" \in works
<1> USE DEF Arm, Disarm, taskVars, txVars
<1>1. CASE CtxNext
  <2>1. ASSUME NEW p \in Pollers, Schedule(p) \/ StartPoll(p) \/ UseDevice(p)
        PROVE  "reset_work" \in works
    BY <2>1 DEF Schedule, StartPoll, UseDevice
  <2>2. ASSUME NEW x \in Xmitters, StartXmit(x) PROVE "reset_work" \in works
    BY <2>2 DEF StartXmit
  <2>3. ASSUME NEW x \in Xmitters, NEW ac \in ACs, ParkFrame(x, ac) PROVE "reset_work" \in works
    BY <2>3 DEF ParkFrame
  <2>4. ASSUME NEW c \in Ctx, PmUnref(c) PROVE "reset_work" \in works
    BY <2>4 DEF PmUnref, PowerSaveSched
  <2> QED
    BY <1>1, <2>1, <2>2, <2>3, <2>4 DEF CtxNext
<1>2. ASSUME NEW t \in Tasks, TaskNext(t) PROVE "reset_work" \in works
  <2>1. CASE TaskStart(t) \/ TaskLock(t) \/ TaskCancelPs(t) \/ TaskTestPm(t) \/ TaskWoken(t)
    BY <2>1 DEF TaskStart, TaskLock, TaskCancelPs, TaskTestPm, TaskWoken
  <2>2. CASE TaskTimeout(t) \/ TaskSetRuntimePm(t) \/ TaskRelease(t)
    BY <2>2 DEF TaskTimeout, TaskSetRuntimePm, TaskRelease, PowerSaveSched
  <2> QED
    BY <1>2, <2>1, <2>2 DEF TaskNext
<1> QED
  BY <1>1, <1>2

\* A mutex user enters an awake device, leaves it or does neither.
LEMMA TaskSteps ==
  ASSUME TypeOK, NEW t \in Tasks, TaskNext(t)
  PROVE  \/ Accessing' = Accessing
         \/ Accessing' = Accessing \cup {t} /\ pmState = "awake"
         \/ Accessing' = Accessing \ {t}
<1> USE DEF TypeOK, Accessing, Goto
<1>1. CASE TaskStart(t) \/ TaskLock(t) \/ TaskCancelPs(t) \/ TaskTimeout(t)
  BY <1>1 DEF TaskStart, TaskLock, TaskCancelPs, TaskTimeout
<1>2. CASE TaskTestPm(t) \/ TaskWoken(t)
  BY <1>2 DEF TaskTestPm, TaskWoken
<1>3. CASE TaskSetRuntimePm(t) \/ TaskRelease(t)
  BY <1>3 DEF TaskSetRuntimePm, TaskRelease
<1> QED
  BY <1>1, <1>2, <1>3 DEF TaskNext

LEMMA LeaseInit == Init => Lease!Init
<1> SUFFICES ASSUME Init PROVE Lease!Init
  OBVIOUS
<1>1. Referenced = {} /\ Accessing = {}
  BY DEF Init, Referenced, Accessing
<1>2. Usable
  BY DEF Init, Usable
<1> QED
  BY <1>1, <1>2 DEF Init, Lease!Init

LEMMA LeaseStep == IInv /\ [Next]_vars => [Lease!Next]_(Lease!leaseVars)
<1> SUFFICES ASSUME IInv, [Next]_vars PROVE [Lease!Next]_(Lease!leaseVars)
  OBVIOUS
<1> USE DEF IInv
<1>awake. pmState = "awake" => Usable
  BY DEF OwnershipInv
\* The four kinds of visible step.
<1>enter. ASSUME NEW u \in Ctx \cup Tasks, pmState = "awake", UNCHANGED pmState, Usable',
                 leaseUsers' = leaseUsers \cup {u}
          PROVE  Lease!Next
  BY <1>enter, <1>awake DEF Lease!Next, Lease!Enter, leaseUsers
<1>leave. ASSUME NEW u \in Ctx \cup Tasks, UNCHANGED pmState, chipState' = chipState,
                 leaseUsers' = leaseUsers \ {u}
          PROVE  Lease!Next
  BY <1>leave DEF Lease!Next, Lease!Leave, leaseUsers, chipState
<1>hand. ASSUME pmState = "doze", UNCHANGED pmState, leaseUsers' = leaseUsers PROVE Lease!Next
  BY <1>hand DEF Lease!Next, Lease!Handshake, leaseUsers
<1>rouse. ASSUME pmState = "doze", pmState' = "awake", Usable', leaseUsers' = leaseUsers
          PROVE  Lease!Next
  BY <1>rouse DEF Lease!Next, Lease!Rouse, leaseUsers
<1>stutter. ASSUME UNCHANGED pmState, chipState' = chipState, leaseUsers' = leaseUsers
            PROVE  UNCHANGED Lease!leaseVars
  BY <1>stutter DEF Lease!leaseVars, leaseUsers, chipState
<1>1. CASE CtxNext
  <2>1. UNCHANGED <<pmState, owner, dma, task>> /\ ResetStays
    BY <1>1, CtxFrame
  <2>2. Accessing' = Accessing
    BY <2>1 DEF Accessing
  <2>3. Accessing \cap Ctx = {}
    BY PowerSaveAssumption DEF Accessing
  <2>4. chipState' = chipState
    <3>1. pmState = "awake" => Usable /\ Usable'
      BY <2>1, <1>awake, UsableStays
    <3>2. "reset_work" \in works' => "reset_work" \in works
      BY <1>1, ResetNotAsked
    <3> QED
      BY <2>1, <3>2 DEF chipState, Usable, ResetStays
  <2>5. ASSUME NEW c \in Ctx, PmRef(c), Referenced' = Referenced \cup {c} PROVE Lease!Next
    <3>1. pmState = "awake" /\ Usable'
      BY <2>1, <2>5, <1>awake, UsableStays DEF PmRef
    <3> QED
      BY <2>1, <2>2, <2>5, <3>1, <1>enter DEF leaseUsers
  <2>6. ASSUME NEW c \in Ctx, PmUnref(c), Referenced' = Referenced \ {c} PROVE Lease!Next
    <3>1. leaseUsers' = leaseUsers \ {c}
      BY <2>2, <2>3, <2>6 DEF leaseUsers
    <3> QED
      BY <2>1, <2>4, <3>1, <1>leave
  <2>7. CASE Referenced' = Referenced
    BY <2>1, <2>2, <2>4, <2>7, <1>stutter DEF leaseUsers
  <2> QED
    BY <1>1, <2>5, <2>6, <2>7, CtxSteps
<1>2. CASE WorkNext
  <2>1. leaseUsers' = leaseUsers
    BY <1>2, WorkFrame DEF leaseUsers, Referenced, Accessing
  <2> USE DEF Arm, Disarm, devVars, PsRunning, WakeRunning
  <2>2. CASE StartPsWork \/ PsRetry \/ PsGate \/ PsToken \/ PsCancelMac
    <3>1. UNCHANGED <<pmState, owner, dma>> /\ ("reset_work" \in works' <=> "reset_work" \in works)
      BY <2>2 DEF StartPsWork, PsRetry, PsGate, PsToken, PsCancelMac
    <3> QED
      BY <2>1, <3>1, <1>stutter DEF chipState, Usable
  <2>3. CASE PsLock
    <3>1. chipState' = chipState
      BY <2>3 DEF PsLock, chipState, Usable
    <3>2. CASE UNCHANGED pmState
      BY <2>1, <3>1, <3>2, <1>stutter
    <3>3. CASE wakeCount = 0 /\ pmState' = "doze"
      <4>1. leaseUsers = {}
        BY <2>3, <3>3, NoReference DEF MutexInv, leaseUsers, Accessing, PsLock
      <4> QED
        BY <2>1, <3>1, <3>3, <4>1 DEF Lease!Next, Lease!Doze, leaseUsers, chipState
    <3> QED
      BY <2>3, <3>2, <3>3 DEF PsLock
  <2>4. CASE PsOwn
    <3>1. pmState = "doze"
      BY <2>4 DEF PsOwn, OwnershipInv
    <3>2. CASE UNCHANGED pmState
      BY <2>1, <3>1, <3>2, <1>hand
    <3>3. CASE pmState' = "awake" /\ "reset_work" \in works'
      BY <2>1, <3>1, <3>3, <1>rouse DEF Usable
    <3> QED
      BY <2>4, <3>2, <3>3 DEF PsOwn
  <2>5. CASE WakeOwn
    <3>1. UNCHANGED pmState
      BY <2>5 DEF WakeOwn
    <3>2. CASE pmState = "doze"
      BY <2>1, <3>1, <3>2, <1>hand
    <3>3. CASE pmState = "awake"
      <4>1. chipState' = chipState
        BY <2>5, <3>3 DEF WakeOwn, chipState, Usable
      <4> QED
        BY <2>1, <3>1, <4>1, <1>stutter
    <3> QED
      BY <3>2, <3>3 DEF TypeOK
  <2>6. CASE WakeDma
    <3>1. pmState = "doze" /\ UNCHANGED pmState
      BY <2>6 DEF WakeDma, OwnershipInv
    <3> QED
      BY <2>1, <3>1, <1>hand
  <2>7. CASE WakeClear
    <3>1. pmState = "doze" /\ pmState' = "awake" /\ Usable'
      BY <2>7 DEF WakeClear, OwnershipInv, Usable
    <3> QED
      BY <2>1, <3>1, <1>rouse
  <2>8. CASE StartWakeWork \/ WakeDequeue \/ WakeDone
    <3>1. UNCHANGED <<pmState, owner, dma>> /\ ("reset_work" \in works' <=> "reset_work" \in works)
      BY <2>8 DEF StartWakeWork, WakeDequeue, WakeDone
    <3> QED
      BY <2>1, <3>1, <1>stutter DEF chipState, Usable
  <2> QED
    BY <1>2, <2>2, <2>3, <2>4, <2>5, <2>6, <2>7, <2>8 DEF WorkNext
<1>3. ASSUME NEW t \in Tasks, TaskNext(t) PROVE [Lease!Next]_(Lease!leaseVars)
  <2>1. UNCHANGED <<pmState, owner, dma, ctx>> /\ ResetStays
    BY <1>3, TaskFrame
  <2>2. Referenced' = Referenced /\ t \notin Referenced
    BY <2>1, PowerSaveAssumption DEF Referenced
  <2>3. chipState' = chipState
    BY <1>3, <2>1, ResetNotAsked DEF chipState, Usable, ResetStays
  <2>4. CASE Accessing' = Accessing
    BY <2>1, <2>2, <2>3, <2>4, <1>stutter DEF leaseUsers
  <2>5. CASE Accessing' = Accessing \cup {t} /\ pmState = "awake"
    <3>1. Usable'
      BY <2>1, <2>5, <1>awake, UsableStays
    <3> QED
      BY <2>1, <2>2, <2>5, <3>1, <1>enter DEF leaseUsers
  <2>6. CASE Accessing' = Accessing \ {t}
    <3>1. leaseUsers' = leaseUsers \ {t}
      BY <2>2, <2>6 DEF leaseUsers
    <3> QED
      BY <2>1, <2>3, <3>1, <1>leave
  <2> QED
    BY <1>3, <2>4, <2>5, <2>6, TaskSteps
<1>4. CASE UNCHANGED vars
  <2>1. leaseUsers' = leaseUsers /\ chipState' = chipState /\ UNCHANGED pmState
    BY <1>4 DEF vars, leaseUsers, Referenced, Accessing, chipState, Usable
  <2> QED
    BY <2>1, <1>stutter
<1> QED
  BY <1>1, <1>2, <1>3, <1>4 DEF Next

\* Power management, with its works, locks and timers, implements the lease:
\* it dozes only without users and wakes only onto a usable chip.
THEOREM ImplementsLease == Spec => LeaseSpec
<1>1. Init => Lease!Init
  BY LeaseInit
<1>2. IInv /\ [Next]_vars => [Lease!Next]_(Lease!leaseVars)
  BY LeaseStep
<1> QED
  BY <1>1, <1>2, Invariance, PTL DEF Spec, LeaseSpec, Lease!Spec
============================================================================
