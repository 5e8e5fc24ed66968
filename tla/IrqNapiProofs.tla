--------------------------- MODULE IrqNapiProofs ---------------------------
(***************************************************************************)
(* Proofs about IrqNapi, for any set of rings and sources: type            *)
(* correctness, a masked source always has somebody who will unmask it,    *)
(* and an arrival is always noticed.                                       *)
(*                                                                         *)
(* The last one is not inductive: a poll has already passed an arrival     *)
(* that comes between its last look at the ring and napi_complete.         *)
(* PendingInv follows such an arrival from the status register through the *)
(* tasklet into the missed bit of the NAPI; EnableInv says that the enable *)
(* register is behind the mask only while the tasklet is due.              *)
(***************************************************************************)
EXTENDS IrqNapi, TLAPS

\* The tasklet keeps what it has read only while it runs, and only a NAPI that
\* runs can be missed.
RunningInv ==
  /\ irq.pc = "idle" => irq.intr = {}
  /\ \A n \in Napis : n \in missed => napi[n] \notin {"idle", "sched"}

EnableInv ==
  irq.pc \in {"idle", "sched"} /\ tasklet = "no" /\ wake # "init" => irqmask \subseteq ena

PendingInv ==
  \A q \in Rx \cap work :
    \/ q \in sta \cup irq.intr \cup missed
    \/ napi[q] \notin {"idle", "done"}
    \/ WakeComing

IrqInv == TypeOK /\ RunningInv /\ EnableInv /\ MaskedHasUnmasker /\ PendingInv

-----------------------------------------------------------------------------
LEMMA IrqInit == Init => IrqInv
  BY DEF Init, IrqInv, TypeOK, RunningInv, EnableInv, MaskedHasUnmasker, PendingInv, Src

\* What napi_schedule does to one NAPI: it runs, or runs again.
LEMMA Scheduled ==
  ASSUME TypeOK, NEW set \in SUBSET Napis, NapiSchedule(set)
  PROVE  /\ napi' \in [Napis -> {"idle", "sched", "refused", "poll", "done"}]
         /\ missed' \subseteq Napis
         /\ \A n \in Napis :
              /\ napi'[n] = IF n \in set /\ napi[n] = "idle" THEN "sched" ELSE napi[n]
              /\ n \in missed' <=>
                   n \in missed \/ (n \in set /\ napi[n] \in {"refused", "poll", "done"})
  BY DEF NapiSchedule, TypeOK

\* What the tasklet has read are sources of these NAPIs.
LEMMA SourcesOfNapis ==
  ASSUME TypeOK
  PROVE  /\ {NapiOf(s) : s \in irq.intr \ McuCmd} \in SUBSET Napis
         /\ \A q \in Rx \cap irq.intr : q \in {NapiOf(s) : s \in irq.intr \ McuCmd}
<1>1. \A s \in irq.intr \ McuCmd : NapiOf(s) \in Napis
  BY DEF TypeOK, NapiOf, Napis, Src, Tx
<1>2. \A q \in Rx \cap irq.intr : q \in irq.intr \ McuCmd /\ NapiOf(q) = q
  BY IrqNapiAssumption DEF NapiOf
<1> QED
  BY <1>1, <1>2

LEMMA ReceiveNapis == Rx \subseteq Napis /\ Rx \subseteq Src /\ Rx \subseteq Masking
  BY DEF Napis, Src, Masking

LEMMA TypeStep == TypeOK /\ [Next]_vars => TypeOK'
<1> SUFFICES ASSUME TypeOK, [Next]_vars PROVE TypeOK'
  OBVIOUS
<1>1. CASE (\E s \in Src : Arrive(s)) \/ Interrupt \/ Doze \/ PmWake
  BY <1>1 DEF TypeOK, Arrive, Interrupt, Doze, PmWake, pmVars, napiVars
<1>2. CASE TaskletRead
  BY <1>2 DEF TypeOK, TaskletRead, pmVars, napiVars
<1>3. CASE TaskletAck
  <2>1. irq'.pc = "mask" /\ irq'.intr \subseteq Src
    BY <1>3, IrqNapiAssumption DEF TypeOK, TaskletAck, Src
  <2>2. irq' \in [pc : {"idle", "ack", "mask", "sched"}, intr : SUBSET Src]
    BY <1>3, <2>1 DEF TaskletAck
  <2> QED
    BY <1>3, <2>2 DEF TypeOK, TaskletAck, pmVars, napiVars
<1>4. CASE TaskletMask
  BY <1>4 DEF TypeOK, TaskletMask, pmVars, napiVars
<1>5. CASE TaskletSchedule
  BY <1>5, Scheduled, SourcesOfNapis DEF TypeOK, TaskletSchedule, pmVars
<1>6. CASE WakeNext
  <2>1. CASE WakeSchedule
    BY <2>1, Scheduled, ReceiveNapis DEF TypeOK, WakeSchedule
  <2>2. CASE WakeStart \/ WakeOwn \/ WakeInit \/ WakeClear
    BY <2>2 DEF TypeOK, WakeStart, WakeOwn, WakeInit, WakeClear, napiVars
  <2> QED
    BY <1>6, <2>1, <2>2 DEF WakeNext
<1>7. ASSUME NEW n \in Napis, PollNext(n) PROVE TypeOK'
  <2>1. CASE PollStart(n) \/ PollRefused(n) \/ PollDrain(n) \/ PollBudget(n)
    BY <2>1 DEF TypeOK, PollStart, PollRefused, PollDrain, PollBudget, pmVars
  <2>2. CASE PollComplete(n)
    <3>1. (IF n = McuTx THEN Tx ELSE {n}) \subseteq Src
      BY DEF Napis, Src, Tx
    <3> QED
      BY <2>2, <3>1 DEF TypeOK, PollComplete, pmVars
  <2> QED
    BY <1>7, <2>1, <2>2 DEF PollNext
<1>8. CASE UNCHANGED vars
  BY <1>8 DEF TypeOK, vars
<1> QED
  BY <1>1, <1>2, <1>3, <1>4, <1>5, <1>6, <1>7, <1>8 DEF Next, TaskletNext

-----------------------------------------------------------------------------
(* The steps of the hardware, the handler, the tasklet and wake_work.      *)

LEMMA BackgroundStep ==
  ASSUME IrqInv, TypeOK',
         (\E s \in Src : Arrive(s)) \/ Interrupt \/ TaskletNext \/ Doze \/ PmWake \/ WakeNext
  PROVE  IrqInv'
<1> USE ReceiveNapis
       DEF IrqInv, TypeOK, RunningInv, EnableInv, MaskedHasUnmasker, PendingInv, PollComing,
           WakeComing, pmVars, napiVars
<1>1. CASE (\E s \in Src : Arrive(s)) \/ Interrupt \/ Doze \/ PmWake
  BY <1>1 DEF Arrive, Interrupt, Doze, PmWake
<1>2. CASE TaskletRead
  BY <1>2 DEF TaskletRead
<1>3. CASE TaskletAck
  <2>1. irq'.pc = "mask" /\ irq.intr \subseteq irq'.intr /\ sta \subseteq sta' \cup irq'.intr
    BY <1>3 DEF TaskletAck
  <2> QED
    BY <1>3, <2>1 DEF TaskletAck
<1>4. CASE TaskletMask
  BY <1>4 DEF TaskletMask
<1>5. CASE TaskletSchedule
  BY <1>5, Scheduled, SourcesOfNapis DEF TaskletSchedule
<1>6. CASE WakeSchedule
  BY <1>6, Scheduled DEF WakeSchedule
<1>7. CASE WakeStart \/ WakeOwn \/ WakeInit \/ WakeClear
  BY <1>7 DEF WakeStart, WakeOwn, WakeInit, WakeClear
<1> QED
  BY <1>1, <1>2, <1>3, <1>4, <1>5, <1>6, <1>7 DEF TaskletNext, WakeNext

\* The steps of a poll.
LEMMA PollStep ==
  ASSUME IrqInv, TypeOK', NEW n \in Napis, PollNext(n)
  PROVE  IrqInv'
<1> USE ReceiveNapis
       DEF IrqInv, TypeOK, RunningInv, EnableInv, MaskedHasUnmasker, PendingInv, PollComing,
           WakeComing, pmVars
<1>1. CASE PollStart(n)
  BY <1>1 DEF PollStart
<1>2. CASE PollRefused(n)
  BY <1>2 DEF PollRefused
<1>3. CASE PollDrain(n)
  BY <1>3 DEF PollDrain
<1>4. CASE PollBudget(n)
  BY <1>4 DEF PollBudget
<1>5. CASE PollComplete(n)
  <2>1. \A q \in Rx : q = n => q \in (IF n = McuTx THEN Tx ELSE {n})
    BY IrqNapiAssumption
  <2> QED
    BY <1>5, <2>1 DEF PollComplete
<1> QED
  BY <1>1, <1>2, <1>3, <1>4, <1>5 DEF PollNext

LEMMA IrqStep == IrqInv /\ [Next]_vars => IrqInv'
<1> SUFFICES ASSUME IrqInv, [Next]_vars PROVE IrqInv'
  OBVIOUS
<1>1. TypeOK'
  BY TypeStep DEF IrqInv
<1>2. CASE Next
  BY <1>1, <1>2, BackgroundStep, PollStep DEF Next
<1>3. CASE UNCHANGED vars
  BY <1>3 DEF vars, IrqInv, TypeOK, RunningInv, EnableInv, MaskedHasUnmasker, PendingInv,
              PollComing, WakeComing
<1> QED
  BY <1>2, <1>3

\* The inductive invariant of interrupts and polls holds in every reachable state.
THEOREM IrqNapiInvariance == Spec => []IrqInv
  BY IrqInit, IrqStep, PTL DEF Spec

\* Every variable keeps its type: no source is taken for a NAPI.
THEOREM IrqNapiTypeCorrect == Spec => []TypeOK
<1>1. IrqInv => TypeOK
  BY DEF IrqInv
<1> QED
  BY <1>1, IrqNapiInvariance, PTL

\* A receive source that the tasklet has masked is always about to be unmasked,
\* although a poll that finds the chip asleep completes without doing so
\* (mt792x_poll_rx).
THEOREM MaskedSourcesComeBack == Spec => []MaskedHasUnmasker
<1>1. IrqInv => MaskedHasUnmasker
  BY DEF IrqInv
<1> QED
  BY <1>1, IrqNapiInvariance, PTL

\* No arrival is lost between the last look of a poll at its ring and the
\* unmasking of its source (mt76_dma_rx_poll, mt792x_rx_poll_complete).
THEOREM ArrivalsAreNoticed == Spec => []ArrivalIsNoticed
<1>1. IrqInv => ArrivalIsNoticed
  <2> SUFFICES ASSUME IrqInv, NEW q \in Rx \cap work, ~PollComing(q)
               PROVE  /\ q \in sta /\ q \in irqmask
                      /\ q \in ena \/ tasklet = "yes" \/ irq.pc # "idle"
    BY DEF ArrivalIsNoticed
  <2> USE ReceiveNapis DEF IrqInv, PollComing
  <2>1. q \in irqmask
    BY DEF MaskedHasUnmasker
  <2>2. q \in sta
    BY DEF PendingInv, RunningInv
  <2>3. irq.pc = "idle" /\ tasklet = "no" => q \in ena
    BY <2>1 DEF EnableInv, WakeComing
  <2> QED
    BY <2>1, <2>2, <2>3 DEF TypeOK
<1> QED
  BY <1>1, IrqNapiInvariance, PTL

\* Nothing that arrives in a receive ring is stranded, for any number of rings.
THEOREM NothingIsStranded == Spec => []NoArrivalIsStranded
  BY MaskedSourcesComeBack, ArrivalsAreNoticed, PTL DEF NoArrivalIsStranded
=============================================================================
