---------------------------- MODULE TxRingProofs ----------------------------
(***************************************************************************)
(* Proofs about TxRing, for any size of the ring, any number of cleaners   *)
(* and any number of resets: type correctness, the indices agree with the  *)
(* count, exactly the slots between them are occupied, and the hardware    *)
(* never has to fetch a descriptor that was freed.                         *)
(*                                                                         *)
(* Seen from tail, the indices keep their order: the one a cleaner stops   *)
(* at, what the hardware has fetched, what it was told of, head.  OrderInv *)
(* says so; CleanInv says that at most one context holds cleanup_lock and  *)
(* what a reset knows at each of its steps.                                *)
(*                                                                         *)
(* And the ring implements FrameFifo: a frame is in one slot (FifoInv), so *)
(* that its distance from tail is its place in the queue.  Moving tail by  *)
(* one changes every distance by one and the order of none (Ahead).        *)
(***************************************************************************)
EXTENDS TxRing, TLAPS

CleanInv ==
  /\ \A c, d \in AllCleaners : clean[c].pc # "idle" /\ clean[d].pc # "idle" => c = d
  /\ \A c \in AllCleaners : clean[c].pc = "advance" => queued > 0
  /\ \A c \in Cleaners : clean[c].pc # "idle" => reset = "no" /\ clean[c].last # -1
  /\ clean[Resetter].pc # "idle" => reset = "flush" /\ clean[Resetter].last = -1
  /\ clean[Resetter].pc # "reread"
  /\ reset # "no" => producer = "off"
  /\ reset \notin {"no", "flush"} => queued = 0 /\ \A i \in Slots : entry[i] = None

OrderInv ==
  reset = "no" =>
    /\ Dist(tail, dmaIdx) <= Dist(tail, cpuIdx)
    /\ Dist(tail, cpuIdx) <= queued
    /\ \A c \in Cleaners :
         clean[c].pc # "idle" =>
           /\ Dist(tail, clean[c].last) <= Dist(tail, dmaIdx)
           /\ clean[c].pc = "advance" => clean[c].last # tail

RingInv == TypeOK /\ CleanInv /\ CountersAgree /\ OccupiedBetweenTailAndHead /\ OrderInv

-----------------------------------------------------------------------------
(* Distances on the ring.                                                  *)

LEMMA DistRange ==
  ASSUME NEW i \in Slots, NEW j \in Slots
  PROVE  /\ Dist(i, j) \in Slots /\ Dist(i, j) \in Nat /\ Dist(i, j) < NDesc
         /\ (Dist(i, j) = 0 <=> i = j)
  BY TxRingAssumption DEF Slots, Dist

\* The slot after tail is one nearer to every other slot.
LEMMA SuccNearer ==
  ASSUME NEW i \in Slots
  PROVE  /\ Succ(i) \in Slots
         /\ \A j \in Slots : Dist(Succ(i), j) = IF j = i THEN NDesc - 1 ELSE Dist(i, j) - 1
  BY TxRingAssumption DEF Slots, Dist, Succ

\* The slot after an index is one further away, unless that closes the ring.
LEMMA SuccFurther ==
  ASSUME NEW i \in Slots, NEW j \in Slots, Dist(i, j) < NDesc - 1
  PROVE  Succ(j) \in Slots /\ Dist(i, Succ(j)) = Dist(i, j) + 1
  BY TxRingAssumption DEF Slots, Dist, Succ

LEMMA PlusFurther ==
  ASSUME NEW i \in Slots, NEW j \in Slots, NEW k \in Nat, Dist(i, j) + k < NDesc
  PROVE  Plus(j, k) \in Slots /\ Dist(i, Plus(j, k)) = Dist(i, j) + k
  BY TxRingAssumption DEF Slots, Dist, Plus

\* What lies within k slots behind j lies between there and the end.
LEMMA BehindHead ==
  ASSUME NEW t \in Slots, NEW h \in Slots, NEW k \in Nat, Dist(t, h) + k < NDesc, NEW i \in Slots
  PROVE  Dist(t, i) < Dist(t, h) + k <=> Dist(t, i) < Dist(t, h) \/ Dist(h, i) < k
  BY TxRingAssumption DEF Slots, Dist

\* What lies between two indices that are in order lies before the second.
LEMMA BetweenIndices ==
  ASSUME NEW t \in Slots, NEW d \in Slots, NEW c \in Slots, NEW i \in Slots,
         Dist(t, d) <= Dist(t, c), Dist(d, i) < Dist(d, c)
  PROVE  Dist(t, i) < Dist(t, c) /\ Dist(t, d) <= Dist(t, i)
  BY TxRingAssumption DEF Slots, Dist

-----------------------------------------------------------------------------
LEMMA RingInit == Init => RingInv
<1> SUFFICES ASSUME Init PROVE RingInv
  OBVIOUS
<1>1. 0 \in Slots /\ Dist(0, 0) = 0
  BY TxRingAssumption DEF Slots, Dist
<1>2. \A i \in Slots : ~(Dist(0, i) < 0)
  BY <1>1, DistRange
<1>3. TypeOK
  BY <1>1, TxRingAssumption DEF Init, TypeOK, Idle
<1>4. CleanInv /\ OrderInv
  BY <1>1 DEF Init, CleanInv, OrderInv, Idle, AllCleaners
<1> QED
  BY <1>1, <1>2, <1>3, <1>4, TxRingAssumption
     DEF Init, RingInv, CountersAgree, OccupiedBetweenTailAndHead

LEMMA RegistersInSlots ==
  ASSUME TypeOK
  PROVE  head \in Slots /\ tail \in Slots /\ cpuIdx \in Slots /\ dmaIdx \in Slots
  BY DEF TypeOK

-----------------------------------------------------------------------------
(* The producer and the hardware.                                          *)

LEMMA AddStep ==
  ASSUME RingInv, NEW f \in Frames, NEW k \in 1 .. MaxDescs, Add(f, k)
  PROVE  RingInv'
<1> USE DEF RingInv
<1>1. k \in Nat /\ k >= 1
  BY TxRingAssumption
<1>2. /\ head \in Slots /\ tail \in Slots /\ queued \in Nat /\ NDesc \in Nat
      /\ reset = "no" /\ queued = Dist(tail, head) /\ queued + k < NDesc - 1
  BY RegistersInSlots, TxRingAssumption DEF Add, CleanInv, CountersAgree, TypeOK
<1>3. /\ head' \in Slots /\ head' = Plus(head, k) /\ Dist(tail, head') = queued + k
      /\ queued' = queued + k
  BY <1>1, <1>2, PlusFurther DEF Add
<1>4. \A i \in Slots : entry'[i] = IF Dist(head, i) < k - 1 THEN Part
                                   ELSE IF Dist(head, i) = k - 1 THEN f ELSE entry[i]
  BY DEF Add
<1>5. entry' \in [Slots -> Frames \cup {None, Part}]
  BY DEF Add, TypeOK
<1>6. UNCHANGED <<tail, cpuIdx, dmaIdx, dmaOn, clean, reset>> /\ producer' = "adding"
  BY DEF Add
<1>7. TypeOK'
  BY <1>1, <1>2, <1>3, <1>5, <1>6 DEF TypeOK
<1>8. CleanInv' /\ CountersAgree' /\ OrderInv'
  <2>1. Dist(tail, cpuIdx) \in Nat
    BY RegistersInSlots, DistRange
  <2> QED
    BY <1>1, <1>2, <1>3, <1>6, <2>1 DEF CleanInv, CountersAgree, OrderInv, Dist
<1>9. OccupiedBetweenTailAndHead'
  <2> SUFFICES ASSUME NEW i \in Slots
               PROVE  entry'[i] # None <=>
                        /\ Dist(tail, i) < queued + k
                        /\ i = tail => \A c \in AllCleaners : clean[c].pc # "advance"
    BY <1>3, <1>6 DEF OccupiedBetweenTailAndHead, Dist
  <2>1. Dist(tail, i) < queued + k <=> Dist(tail, i) < queued \/ Dist(head, i) < k
    BY <1>1, <1>2, BehindHead
  <2>2. Dist(head, i) \in Nat /\ Dist(tail, i) \in Nat
    BY <1>2, DistRange
  <2>3. entry'[i] # None <=> entry[i] # None \/ Dist(head, i) < k
    BY <1>1, <1>4, <2>2, TxRingAssumption
  <2>4. entry[i] # None <=> /\ Dist(tail, i) < queued
                            /\ i = tail => \A c \in AllCleaners : clean[c].pc # "advance"
    BY <1>2 DEF OccupiedBetweenTailAndHead
  <2>5. Dist(head, i) < k /\ i = tail => queued = 0
    <3> SUFFICES ASSUME Dist(head, tail) < k PROVE queued = 0
      OBVIOUS
    <3> QED
      BY <1>1, <1>2, TxRingAssumption DEF Dist, Slots
  <2>6. queued = 0 => \A c \in AllCleaners : clean[c].pc # "advance"
    BY DEF CleanInv
  <2> QED
    BY <2>1, <2>3, <2>4, <2>5, <2>6
<1> QED
  BY <1>7, <1>8, <1>9

LEMMA HardwareStep ==
  ASSUME RingInv, Kick \/ Fetch
  PROVE  RingInv'
<1> USE DEF RingInv
<1>1. /\ head \in Slots /\ tail \in Slots /\ cpuIdx \in Slots /\ dmaIdx \in Slots
      /\ Dist(tail, dmaIdx) \in Nat /\ Dist(tail, cpuIdx) \in Nat
  BY RegistersInSlots, DistRange
<1>2. CASE Kick
  <2>1. reset = "no" /\ queued = Dist(tail, head)
    BY <1>2 DEF Kick, CleanInv, CountersAgree
  <2>2. /\ cpuIdx' = head /\ producer' = "idle"
        /\ UNCHANGED <<head, tail, queued, entry, dmaIdx, dmaOn, clean, reset>>
    BY <1>2 DEF Kick
  <2>3. TypeOK' /\ CleanInv' /\ CountersAgree' /\ OccupiedBetweenTailAndHead'
    BY <1>1, <2>1, <2>2
       DEF TypeOK, CleanInv, CountersAgree, OccupiedBetweenTailAndHead, Dist
  <2>4. Dist(tail, dmaIdx) <= queued
    BY <1>1, <2>1 DEF OrderInv, TypeOK
  <2>5. OrderInv'
    <3>1. /\ Dist(tail, dmaIdx) <= Dist(tail, head) /\ Dist(tail, head) <= queued
          /\ \A c \in Cleaners :
               clean[c].pc # "idle" =>
                 /\ Dist(tail, clean[c].last) <= Dist(tail, dmaIdx)
                 /\ clean[c].pc = "advance" => clean[c].last # tail
      BY <1>1, <2>1, <2>4 DEF OrderInv, TypeOK
    <3> QED
      BY <2>2, <3>1, Zenon DEF OrderInv, Dist
  <2> QED
    BY <2>3, <2>5
<1>3. CASE Fetch
  <2>1. /\ dmaIdx' = Succ(dmaIdx) /\ dmaIdx # cpuIdx
        /\ UNCHANGED <<head, tail, queued, entry, cpuIdx, dmaOn, producer, clean, reset>>
    BY <1>3 DEF Fetch
  <2>2. Succ(dmaIdx) \in Slots
    BY <1>1, SuccNearer
  <2>3. TypeOK' /\ CleanInv' /\ CountersAgree' /\ OccupiedBetweenTailAndHead'
    BY <1>1, <2>1, <2>2
       DEF TypeOK, CleanInv, CountersAgree, OccupiedBetweenTailAndHead, Dist
  <2>4. ASSUME reset = "no"
        PROVE  Dist(tail, Succ(dmaIdx)) = Dist(tail, dmaIdx) + 1
               /\ Dist(tail, dmaIdx) < Dist(tail, cpuIdx)
    <3>1. Dist(tail, dmaIdx) <= Dist(tail, cpuIdx)
      BY <2>4 DEF OrderInv
    <3>2. Dist(tail, dmaIdx) # Dist(tail, cpuIdx) /\ Dist(tail, cpuIdx) < NDesc
      BY <1>1, <2>1, TxRingAssumption DEF Dist, Slots
    <3> QED
      BY <1>1, <3>1, <3>2, SuccFurther, TxRingAssumption
  <2>5. OrderInv'
    <3> SUFFICES ASSUME reset = "no"
                 PROVE  /\ Dist(tail, Succ(dmaIdx)) <= Dist(tail, cpuIdx)
                        /\ \A c \in Cleaners : clean[c].pc # "idle" =>
                             Dist(tail, clean[c].last) <= Dist(tail, Succ(dmaIdx))
      BY <2>1 DEF OrderInv, Dist
    <3>1. \A c \in Cleaners : clean[c].pc # "idle" =>
            clean[c].last \in Slots /\ Dist(tail, clean[c].last) <= Dist(tail, dmaIdx)
      BY DEF OrderInv, CleanInv, TypeOK, AllCleaners
    <3>2. \A j \in Slots : Dist(tail, j) \in Nat
      BY <1>1, DistRange
    <3> QED
      BY <1>1, <2>4, <3>1, <3>2
  <2> QED
    BY <2>3, <2>5
<1> QED
  BY <1>2, <1>3

-----------------------------------------------------------------------------
(* mt76_dma_tx_cleanup.                                                    *)

\* What is common to the steps of the holder of cleanup_lock.
LEMMA Holder ==
  ASSUME RingInv, NEW c \in AllCleaners, clean[c].pc # "idle"
  PROVE  /\ \A d \in AllCleaners \ {c} : clean[d].pc = "idle"
         /\ reset \in {"no", "flush"} /\ queued = Dist(tail, head)
         /\ reset = "no" => c \in Cleaners /\ clean[c].last \in Slots
         /\ c \in Cleaners => reset = "no"
         /\ c = Resetter => reset = "flush" /\ clean[c].last = -1
<1>1. reset \in {"no", "flush"}
  BY DEF RingInv, CleanInv, AllCleaners
<1> QED
  BY <1>1, TxRingAssumption DEF RingInv, CleanInv, CountersAgree, TypeOK, AllCleaners

LEMMA LockStep ==
  ASSUME RingInv, (\E c \in Cleaners : CleanLock(c)) \/ FlushLock
  PROVE  RingInv'
<1> USE DEF RingInv
<1>1. \A d \in AllCleaners : clean[d].pc = "idle"
  BY DEF CleanLock, FlushLock, Locked
<1>2. PICK c \in AllCleaners, last \in Slots \cup {-1} :
        /\ clean' = [clean EXCEPT ![c] = [pc |-> "loop", last |-> last, held |-> None]]
        /\ c \in Cleaners => reset = "no" /\ last = dmaIdx
        /\ c = Resetter => reset = "flush" /\ last = -1
  <2>1. Cleaners \subseteq AllCleaners /\ Resetter \in AllCleaners /\ dmaIdx \in Slots
    BY RegistersInSlots DEF AllCleaners
  <2> QED
    BY <2>1, TxRingAssumption DEF CleanLock, FlushLock
<1>3. UNCHANGED <<head, tail, queued, entry, cpuIdx, dmaIdx, dmaOn, producer, reset>>
  BY DEF CleanLock, FlushLock
<1>4. TypeOK'
  BY <1>2, <1>3 DEF TypeOK
<1>5. CleanInv'
  <2>1. -1 \notin Slots
    BY TxRingAssumption DEF Slots
  <2> QED
    BY <1>1, <1>2, <1>3, <2>1, RegistersInSlots, TxRingAssumption
       DEF CleanInv, TypeOK, AllCleaners
<1>6. CountersAgree'
  BY <1>3 DEF CountersAgree, Dist
<1>7. OccupiedBetweenTailAndHead'
  <2>1. \A d \in AllCleaners : clean'[d].pc # "advance"
    BY <1>1, <1>2 DEF TypeOK
  <2> QED
    BY <1>1, <1>3, <2>1 DEF OccupiedBetweenTailAndHead, Dist
<1>8. OrderInv'
  <2>1. \A d \in Cleaners : clean'[d].pc # "idle" =>
          clean'[d].last = dmaIdx /\ clean'[d].pc = "loop"
    BY <1>1, <1>2, TxRingAssumption DEF TypeOK, AllCleaners
  <2>2. Dist(tail, dmaIdx) <= Dist(tail, dmaIdx)
    BY RegistersInSlots, DistRange
  <2> QED
    BY <1>3, <2>1, <2>2 DEF OrderInv, Dist
<1> QED
  BY <1>4, <1>5, <1>6, <1>7, <1>8

LEMMA EntryStep ==
  ASSUME RingInv, NEW c \in AllCleaners, CleanEntry(c)
  PROVE  RingInv'
<1> USE DEF RingInv
<1>1. /\ clean[c].pc = "loop" /\ queued > 0 /\ tail # clean[c].last
      /\ clean' = [clean EXCEPT
           ![c] = [pc |-> "advance", last |-> clean[c].last, held |-> entry[tail]]]
      /\ entry' = [entry EXCEPT ![tail] = None]
      /\ UNCHANGED <<head, tail, queued, cpuIdx, dmaIdx, dmaOn, producer, reset>>
  BY DEF CleanEntry, More
<1>2. /\ \A d \in AllCleaners \ {c} : clean[d].pc = "idle"
      /\ reset \in {"no", "flush"} /\ queued = Dist(tail, head)
      /\ c \in Cleaners => reset = "no"
      /\ c = Resetter => reset = "flush" /\ clean[c].last = -1
  BY <1>1, Holder
<1>3. TypeOK'
  BY <1>1, RegistersInSlots DEF TypeOK
<1>4. CleanInv'
  BY <1>1, <1>2, TxRingAssumption DEF CleanInv, TypeOK, AllCleaners
<1>5. CountersAgree'
  BY <1>1 DEF CountersAgree, Dist
<1>6. OccupiedBetweenTailAndHead'
  <2>1. clean'[c].pc = "advance" /\ \A d \in AllCleaners : clean[d].pc # "advance"
    BY <1>1, <1>2 DEF TypeOK
  <2>2. \A i \in Slots : entry'[i] = IF i = tail THEN None ELSE entry[i]
    BY <1>1 DEF TypeOK
  <2> QED
    BY <1>1, <1>2, <2>1, <2>2 DEF OccupiedBetweenTailAndHead, Dist
<1>7. OrderInv'
  <2>1. \A d \in Cleaners :
          /\ clean'[d].last = clean[d].last
          /\ clean'[d].pc # "idle" => clean[d].pc # "idle"
          /\ clean'[d].pc = "advance" => clean[d].last # tail
    BY <1>1, <1>2 DEF TypeOK, AllCleaners
  <2> QED
    BY <1>1, <2>1 DEF OrderInv, Dist
<1> QED
  BY <1>3, <1>4, <1>5, <1>6, <1>7

LEMMA AdvanceStep ==
  ASSUME RingInv, NEW c \in AllCleaners, CleanAdvance(c)
  PROVE  RingInv'
<1> USE DEF RingInv
<1> DEFINE pc == IF Succ(tail) = clean[c].last THEN "reread" ELSE "loop"
<1>1. /\ clean[c].pc = "advance" /\ tail' = Succ(tail) /\ queued' = queued - 1
      /\ clean' = [clean EXCEPT ![c] = [pc |-> pc, last |-> clean[c].last, held |-> None]]
      /\ UNCHANGED <<head, entry, cpuIdx, dmaIdx, dmaOn, producer, reset>>
  BY DEF CleanAdvance
<1>2. /\ \A d \in AllCleaners \ {c} : clean[d].pc = "idle"
      /\ reset \in {"no", "flush"} /\ queued = Dist(tail, head)
      /\ reset = "no" => c \in Cleaners /\ clean[c].last \in Slots
      /\ c \in Cleaners => reset = "no"
      /\ c = Resetter => reset = "flush" /\ clean[c].last = -1
  BY <1>1, Holder
<1>3. /\ head \in Slots /\ tail \in Slots /\ cpuIdx \in Slots /\ dmaIdx \in Slots
      /\ queued \in 1 .. NDesc /\ queued < NDesc - 1 /\ NDesc \in Nat
  BY <1>1, RegistersInSlots, TxRingAssumption DEF TypeOK, CleanInv, CountersAgree
<1>4. /\ Succ(tail) \in Slots
      /\ \A j \in Slots :
           Dist(Succ(tail), j) = IF j = tail THEN NDesc - 1 ELSE Dist(tail, j) - 1
  BY <1>3, SuccNearer
<1>5. pc \in {"loop", "reread"}
  OBVIOUS
<1>6. TypeOK'
  BY <1>1, <1>3, <1>4, <1>5 DEF TypeOK
<1>7. CleanInv'
  <2>1. c = Resetter => pc # "reread"
    BY <1>2, <1>4, TxRingAssumption DEF Slots
  <2> QED
    BY <1>1, <1>2, <1>5, <2>1, TxRingAssumption DEF CleanInv, TypeOK, AllCleaners
<1>8. Dist(Succ(tail), head) = queued - 1
  <2>1. head # tail
    BY <1>2, <1>3, DistRange
  <2> QED
    BY <1>2, <1>3, <1>4, <2>1
<1>9. CountersAgree'
  BY <1>1, <1>2, <1>3, <1>8 DEF CountersAgree, Dist
<1>10. OccupiedBetweenTailAndHead'
  <2>1. \A d \in AllCleaners : clean'[d].pc # "advance"
    BY <1>1, <1>2, <1>5 DEF TypeOK
  <2>2. ASSUME NEW i \in Slots
        PROVE  entry[i] # None <=> Dist(Succ(tail), i) < queued - 1
    <3>1. entry[i] # None <=> Dist(tail, i) < queued /\ i # tail
      BY <1>1, <1>2 DEF OccupiedBetweenTailAndHead
    <3>2. Dist(tail, i) \in Nat
      BY <1>3, DistRange
    <3> QED
      BY <1>3, <1>4, <3>1, <3>2
  <2> QED
    BY <1>1, <2>1, <2>2 DEF OccupiedBetweenTailAndHead, Dist
<1>11. OrderInv'
  <2> SUFFICES ASSUME reset = "no"
               PROVE  /\ Dist(Succ(tail), dmaIdx) <= Dist(Succ(tail), cpuIdx)
                      /\ Dist(Succ(tail), cpuIdx) <= queued - 1
                      /\ Dist(Succ(tail), clean[c].last) <= Dist(Succ(tail), dmaIdx)
    <3>1. \A d \in Cleaners : clean'[d].pc # "idle" =>
            d = c /\ clean'[d].last = clean[c].last /\ clean'[d].pc # "advance"
      BY <1>1, <1>2, <1>5 DEF TypeOK, AllCleaners
    <3> QED
      BY <1>1, <3>1 DEF OrderInv, Dist
  <2>1. /\ c \in Cleaners /\ clean[c].last \in Slots /\ clean[c].last # tail
        /\ Dist(tail, clean[c].last) <= Dist(tail, dmaIdx)
        /\ Dist(tail, dmaIdx) <= Dist(tail, cpuIdx) /\ Dist(tail, cpuIdx) <= queued
    BY <1>1, <1>2 DEF OrderInv
  <2>2. /\ Dist(tail, clean[c].last) \in Nat /\ Dist(tail, dmaIdx) \in Nat
        /\ Dist(tail, cpuIdx) \in Nat /\ Dist(tail, clean[c].last) # 0
    BY <1>3, <2>1, DistRange
  <2>3. dmaIdx # tail /\ cpuIdx # tail
    BY <1>3, <2>1, <2>2, DistRange
  <2> QED
    BY <1>3, <1>4, <2>1, <2>2, <2>3
<1> QED
  BY <1>6, <1>7, <1>9, <1>10, <1>11

LEMMA RereadUnlockStep ==
  ASSUME RingInv, NEW c \in AllCleaners, CleanReread(c) \/ CleanUnlock(c)
  PROVE  RingInv'
<1> USE DEF RingInv
<1>1. clean[c].pc \in {"loop", "reread"}
  BY DEF CleanReread, CleanUnlock
<1>2. /\ \A d \in AllCleaners \ {c} : clean[d].pc = "idle"
      /\ reset \in {"no", "flush"} /\ queued = Dist(tail, head)
      /\ c \in Cleaners => reset = "no"
      /\ c = Resetter => reset = "flush" /\ clean[c].last = -1
  BY <1>1, Holder
<1>3. UNCHANGED <<head, tail, queued, entry, cpuIdx, dmaIdx, dmaOn, producer>>
  BY DEF CleanReread, CleanUnlock
<1>4. \A d \in AllCleaners : clean[d].pc # "advance"
  BY <1>1, <1>2
<1>5. CASE CleanReread(c)
  <2>1. /\ clean' = [clean EXCEPT ![c] = [pc |-> "loop", last |-> dmaIdx, held |-> None]]
        /\ clean[c].pc = "reread" /\ reset' = reset
    BY <1>5 DEF CleanReread
  <2>2. c \in Cleaners /\ reset = "no" /\ dmaIdx \in Slots
    BY <1>2, <2>1, RegistersInSlots DEF CleanInv, AllCleaners
  <2>3. TypeOK' /\ CountersAgree'
    BY <1>3, <2>1, <2>2 DEF TypeOK, CountersAgree, Dist
  <2>4. \A d \in AllCleaners : clean'[d].pc # "advance"
    BY <1>2, <2>1 DEF TypeOK
  <2>5. OccupiedBetweenTailAndHead'
    BY <1>3, <1>4, <2>1, <2>4 DEF OccupiedBetweenTailAndHead, Dist
  <2>6. CleanInv'
    <3>1. -1 \notin Slots
      BY TxRingAssumption DEF Slots
    <3> QED
      BY <1>2, <1>3, <2>1, <2>2, <3>1, TxRingAssumption DEF CleanInv, TypeOK, AllCleaners
  <2>7. OrderInv'
    <3>1. \A d \in Cleaners : clean'[d].pc # "idle" => clean'[d].last = dmaIdx
      BY <1>2, <2>1 DEF TypeOK, AllCleaners
    <3>2. Dist(tail, dmaIdx) <= Dist(tail, dmaIdx)
      BY RegistersInSlots, DistRange
    <3>3. \A d \in Cleaners : clean'[d].pc # "advance"
      BY <2>4 DEF AllCleaners
    <3> QED
      BY <1>3, <2>1, <3>1, <3>2, <3>3 DEF OrderInv, Dist
  <2> QED
    BY <2>3, <2>5, <2>6, <2>7
<1>6. CASE CleanUnlock(c)
  <2>1. /\ clean' = [clean EXCEPT ![c] = Idle]
        /\ clean[c].pc = "loop" /\ ~(queued > 0 /\ tail # clean[c].last)
        /\ reset' = IF c = Resetter THEN "sync" ELSE reset
    BY <1>6 DEF CleanUnlock, More
  <2>2. \A d \in AllCleaners : clean'[d].pc = "idle"
    BY <1>2, <2>1 DEF TypeOK, Idle
  <2>3. TypeOK'
    BY <1>2, <1>3, <2>1, TxRingAssumption DEF TypeOK, Idle, Slots
  <2>4. CASE c \in Cleaners
    <3>1. reset' = reset /\ reset = "no"
      BY <1>2, <2>1, <2>4, TxRingAssumption
    <3>2. CleanInv' /\ CountersAgree' /\ OrderInv'
      BY <1>3, <2>2, <3>1 DEF CleanInv, CountersAgree, OrderInv, AllCleaners, Dist
    <3>3. OccupiedBetweenTailAndHead'
      BY <1>3, <1>4, <2>2, <3>1 DEF OccupiedBetweenTailAndHead, Dist
    <3> QED
      BY <2>3, <3>2, <3>3
  <2>5. CASE c = Resetter
    <3>1. reset' = "sync" /\ reset = "flush" /\ clean[c].last = -1
      BY <1>2, <2>1, <2>5
    <3>2. queued = 0
      BY <2>1, <3>1, RegistersInSlots, TxRingAssumption DEF TypeOK, Slots
    <3>3. \A i \in Slots : entry[i] = None
      BY <3>1, <3>2, RegistersInSlots, DistRange DEF OccupiedBetweenTailAndHead
    <3>4. CleanInv' /\ CountersAgree' /\ OrderInv'
      BY <1>3, <2>2, <3>1, <3>2, <3>3 DEF CleanInv, CountersAgree, OrderInv, AllCleaners
    <3>5. OccupiedBetweenTailAndHead'
      BY <3>1 DEF OccupiedBetweenTailAndHead
    <3> QED
      BY <2>3, <3>4, <3>5
  <2> QED
    BY <2>4, <2>5 DEF AllCleaners
<1> QED
  BY <1>5, <1>6

-----------------------------------------------------------------------------
(* The reset.                                                              *)

LEMMA ResetStep ==
  ASSUME RingInv, ResetBegin \/ ResetSync \/ ResetKick \/ ResetDisable \/ ResetQueue
  PROVE  RingInv'
<1> USE DEF RingInv
<1>1. CASE ResetBegin
  <2>1. /\ reset = "no" /\ reset' = "flush" /\ producer' = "off"
        /\ \A d \in AllCleaners : clean[d].pc = "idle"
        /\ UNCHANGED <<head, tail, queued, entry, cpuIdx, dmaIdx, dmaOn, clean>>
    BY <1>1 DEF ResetBegin, Locked
  <2> QED
    BY <2>1 DEF TypeOK, CleanInv, CountersAgree, OccupiedBetweenTailAndHead, OrderInv, Dist,
                AllCleaners
<1>2. CASE ResetSync \/ ResetKick \/ ResetDisable
  <2>1. /\ reset \notin {"no", "flush"} /\ reset' \in {"kick", "disable", "regs"}
        /\ UNCHANGED <<queued, entry, producer, clean>>
    BY <1>2 DEF ResetSync, ResetKick, ResetDisable
  <2>2. TypeOK'
    BY <1>2, <2>1 DEF TypeOK, ResetSync, ResetKick, ResetDisable
  <2> QED
    BY <2>1, <2>2 DEF CleanInv, CountersAgree, OccupiedBetweenTailAndHead, OrderInv
<1>3. CASE ResetQueue
  <2>1. /\ reset = "regs" /\ reset' = "no" /\ producer' = "idle" /\ dmaOn' = "yes"
        /\ head' = 0 /\ tail' = 0 /\ cpuIdx' = 0 /\ dmaIdx' = 0
        /\ UNCHANGED <<queued, entry, clean>>
    BY <1>3 DEF ResetQueue
  <2>2. /\ queued = 0 /\ \A i \in Slots : entry[i] = None
        /\ \A d \in AllCleaners : clean[d].pc = "idle"
    BY <2>1 DEF CleanInv, AllCleaners
  <2>3. 0 \in Slots /\ Dist(0, 0) = 0 /\ NDesc \in Nat
    BY TxRingAssumption DEF Slots, Dist
  <2>4. TypeOK' /\ CleanInv'
    BY <2>1, <2>2, <2>3 DEF TypeOK, CleanInv, AllCleaners
  <2>5. CountersAgree' /\ OrderInv'
    BY <2>1, <2>2, <2>3 DEF CountersAgree, OrderInv, Dist, AllCleaners
  <2>6. OccupiedBetweenTailAndHead'
    <3>1. \A i \in Slots : ~(Dist(0, i) < 0)
      BY <2>3, DistRange
    <3> QED
      BY <2>1, <2>2, <3>1 DEF OccupiedBetweenTailAndHead, Dist
  <2> QED
    BY <2>4, <2>5, <2>6
<1> QED
  BY <1>1, <1>2, <1>3

LEMMA RingStep == RingInv /\ [Next]_vars => RingInv'
<1> SUFFICES ASSUME RingInv, [Next]_vars PROVE RingInv'
  OBVIOUS
<1>1. CASE ProducerNext \/ Fetch
  BY <1>1, AddStep, HardwareStep DEF ProducerNext
<1>2. CASE ResetNext
  BY <1>2, ResetStep, LockStep DEF ResetNext
<1>3. CASE \E c \in Cleaners : CleanLock(c)
  BY <1>3, LockStep
<1>4. CASE \E c \in AllCleaners : CleanerNext(c)
  BY <1>4, EntryStep, AdvanceStep, RereadUnlockStep DEF CleanerNext
<1>5. CASE UNCHANGED vars
  BY <1>5 DEF vars, RingInv, TypeOK, CleanInv, CountersAgree, OccupiedBetweenTailAndHead,
              OrderInv, Dist
<1> QED
  BY <1>1, <1>2, <1>3, <1>4, <1>5 DEF Next

\* The inductive invariant of a transmit ring holds in every reachable state.
THEOREM RingInvariance == Spec => []RingInv
  BY RingInit, RingStep, PTL DEF Spec

\* Every variable keeps its type: no index leaves the ring, queued never
\* becomes negative.
THEOREM RingTypeCorrect == Spec => []TypeOK
<1>1. RingInv => TypeOK
  BY DEF RingInv
<1> QED
  BY <1>1, RingInvariance, PTL

\* head, tail and queued agree at every moment, over resets as well, head never
\* catches up with tail, and exactly the slots between them are in use: no buffer
\* is leaked and none is freed twice (mt76_dma_tx_cleanup_idx, mt76_dma_queue_reset).
THEOREM RingConsistency == Spec => []RingIsConsistent
<1>1. RingInv => RingIsConsistent
  BY DEF RingInv, RingIsConsistent
<1> QED
  BY <1>1, RingInvariance, PTL

\* The hardware never fetches a descriptor that a cleaner has freed, whatever
\* dma_idx the cleaner works with, except while a reset flushes the ring.
THEOREM RingFetchesLive == Spec => []HardwareFetchesLive
<1>1. RingInv => HardwareFetchesLive
  <2> SUFFICES ASSUME RingInv, reset = "no" PROVE HardwareFetchesLive
    BY DEF HardwareFetchesLive
  <2> USE DEF RingInv
  <2>1. /\ tail \in Slots /\ dmaIdx \in Slots /\ cpuIdx \in Slots
        /\ Dist(tail, dmaIdx) <= Dist(tail, cpuIdx) /\ Dist(tail, cpuIdx) <= queued
        /\ queued \in Nat
    BY RegistersInSlots DEF OrderInv, TypeOK
  <2>2. ASSUME NEW i \in Slots, Dist(dmaIdx, i) < Dist(dmaIdx, cpuIdx)
        PROVE  entry[i] # None
    <3>1. /\ Dist(tail, i) < Dist(tail, cpuIdx) /\ Dist(tail, dmaIdx) <= Dist(tail, i)
          /\ Dist(tail, i) \in Nat /\ Dist(tail, cpuIdx) \in Nat /\ Dist(tail, dmaIdx) \in Nat
      BY <2>1, <2>2, BetweenIndices, DistRange
    <3>2. ASSUME NEW c \in AllCleaners, clean[c].pc = "advance" PROVE i # tail
      <4>1. /\ c \in Cleaners /\ clean[c].last \in Slots /\ clean[c].last # tail
            /\ Dist(tail, clean[c].last) <= Dist(tail, dmaIdx)
        BY <3>2, Holder DEF OrderInv
      <4>2. Dist(tail, clean[c].last) \in Nat /\ Dist(tail, clean[c].last) # 0
        BY <2>1, <4>1, DistRange
      <4>3. Dist(tail, i) # 0
        BY <3>1, <4>1, <4>2
      <4> QED
        BY <2>1, <4>3, DistRange
    <3>3. Dist(tail, i) < queued
      BY <2>1, <3>1
    <3> QED
      BY <3>2, <3>3 DEF OccupiedBetweenTailAndHead
  <2> QED
    BY <2>1, <2>2 DEF HardwareFetchesLive
<1> QED
  BY <1>1, RingInvariance, PTL
-----------------------------------------------------------------------------
(* The ring implements FrameFifo.                                          *)

\* A frame is in one slot, and in no slot once a cleaner has taken it.
FifoInv ==
  /\ \A i, j \in Slots : entry[i] \in Frames /\ entry[i] = entry[j] => i = j
  /\ \A c \in AllCleaners :
       /\ clean[c].pc # "advance" => clean[c].held = None
       /\ clean[c].held \in Frames => \A i \in Slots : entry[i] # clean[c].held

LEMMA FifoInit == Init => FifoInv
  BY TxRingAssumption DEF Init, FifoInv, Idle, AllCleaners

\* The frames of the ring, slot by slot.
LEMMA InRingIs ==
  ASSUME TypeOK
  PROVE  \A f : f \in InRing <=> f \in Frames /\ \E i \in Slots : entry[i] = f
  BY TxRingAssumption DEF TypeOK, InRing

\* The frame in the hand of the cleaner that holds the lock is the one in hand.
LEMMA HandIs ==
  ASSUME RingInv, FifoInv, NEW c \in AllCleaners, clean[c].pc # "idle"
  PROVE  /\ clean[c].held \in Frames => Held = {clean[c].held} /\ InHand = clean[c].held
         /\ clean[c].held \notin Frames => Held = {} /\ InHand = None
<1>1. \A d \in AllCleaners \ {c} : clean[d].held = None
  BY Holder DEF FifoInv
<1>2. clean[c].held \in Frames \cup {None, Part}
  BY DEF RingInv, TypeOK
<1>3. Held = {clean[c].held} \ {None, Part}
  BY <1>1 DEF Held
<1>4. ASSUME clean[c].held \in Frames PROVE Held = {clean[c].held} /\ InHand = clean[c].held
  <2>1. Held = {clean[c].held}
    BY <1>3, <1>4, TxRingAssumption
  <2> QED
    BY <2>1 DEF InHand
<1>5. ASSUME clean[c].held \notin Frames PROVE Held = {} /\ InHand = None
  BY <1>2, <1>3, <1>5 DEF InHand
<1> QED
  BY <1>4, <1>5

\* Two slots with the same distance from a third are the same.
LEMMA DistOwn ==
  ASSUME NEW t \in Slots, NEW i \in Slots, NEW j \in Slots, Dist(t, i) = Dist(t, j)
  PROVE  i = j
  BY TxRingAssumption DEF Slots, Dist

\* Steps that neither touch slots nor hands are not seen.
LEMMA Unseen ==
  ASSUME tail' = tail, entry' = entry, Held' = Held
  PROVE  UNCHANGED <<InRing, Ahead, InHand>>
<1>1. InRing' = InRing
  BY DEF InRing
<1>2. Ahead' = Ahead
  BY <1>1 DEF Ahead, Dist
<1>3. InHand' = InHand
  BY DEF InHand
<1> QED
  BY <1>1, <1>2, <1>3

\* The producer puts one frame behind all others.
LEMMA AddPuts ==
  ASSUME RingInv, FifoInv, NEW f \in Frames, NEW k \in 1 .. MaxDescs, Add(f, k)
  PROVE  FifoInv' /\ Fifo!Put(f)
<1> DEFINE q == Plus(head, k - 1)
<1>1. k \in Nat /\ k >= 1 /\ k - 1 \in Nat
  BY TxRingAssumption
<1>2. /\ head \in Slots /\ tail \in Slots /\ queued \in Nat /\ NDesc \in Nat
      /\ reset = "no" /\ queued = Dist(tail, head) /\ queued + k < NDesc - 1
  BY RegistersInSlots, TxRingAssumption DEF RingInv, Add, CleanInv, CountersAgree, TypeOK
<1>3. q \in Slots /\ Dist(tail, q) = queued + k - 1
  BY <1>1, <1>2, PlusFurther
<1>4. Dist(head, q) = k - 1
  <2>1. Dist(head, head) = 0
    BY <1>2, DistRange
  <2> QED
    BY <1>1, <1>2, <2>1, PlusFurther
<1> HIDE DEF q
<1>5. /\ tail' = tail /\ clean' = clean /\ f \notin InRing \cup Held
      /\ \A i \in Slots : entry'[i] = IF Dist(head, i) < k - 1 THEN Part
                                      ELSE IF Dist(head, i) = k - 1 THEN f ELSE entry[i]
  BY DEF Add
<1>6. entry'[q] = f
  BY <1>1, <1>3, <1>4, <1>5
<1>7. ASSUME NEW i \in Slots
      PROVE  /\ entry[i] \in Frames => entry'[i] = entry[i] /\ i # q /\ Dist(tail, i) < queued
             /\ entry'[i] \in Frames => i = q \/ entry'[i] = entry[i]
  <2>1. Dist(head, i) \in Nat /\ Dist(tail, i) \in Nat
    BY <1>2, DistRange
  <2>2. Dist(tail, i) < queued + k <=> Dist(tail, i) < queued \/ Dist(head, i) < k
    BY <1>1, <1>2, BehindHead
  <2>3. ASSUME entry[i] \in Frames
        PROVE  entry'[i] = entry[i] /\ i # q /\ Dist(tail, i) < queued
    <3>1. Dist(tail, i) < queued
      BY <1>2, <2>3, TxRingAssumption DEF RingInv, OccupiedBetweenTailAndHead
    <3>2. ~(Dist(head, i) < k)
      BY <1>2, <1>1, <3>1, TxRingAssumption DEF Slots, Dist
    <3> QED
      BY <1>1, <1>4, <1>5, <2>1, <3>1, <3>2
  <2>4. ASSUME entry'[i] \in Frames, i # q PROVE entry'[i] = entry[i]
    <3>1. Dist(head, i) # k - 1
      BY <1>2, <1>3, <1>4, <2>4, DistOwn
    <3> QED
      BY <1>5, <2>4, <3>1, TxRingAssumption
  <2> QED
    BY <2>3, <2>4
<1>8. \A i \in Slots : entry[i] # f
  BY <1>5, InRingIs DEF RingInv
<1>9. TypeOK'
  BY AddStep DEF RingInv
<1>10. FifoInv'
  <2>1. ASSUME NEW i \in Slots, NEW j \in Slots, entry'[i] \in Frames, entry'[i] = entry'[j]
        PROVE  i = j
    BY <1>6, <1>7, <1>8, <2>1 DEF FifoInv
  <2>2. ASSUME NEW c \in AllCleaners, clean[c].held \in Frames, NEW i \in Slots
        PROVE  entry'[i] # clean[c].held
    <3>1. clean[c].held # f
      BY <1>5, <2>2, TxRingAssumption DEF Held
    <3> QED
      BY <1>6, <1>7, <2>2, <3>1 DEF FifoInv
  <2> QED
    BY <1>5, <2>1, <2>2 DEF FifoInv
<1>11. InRing' = InRing \cup {f}
  <2>1. \A g : g \in InRing <=> g \in Frames /\ \E i \in Slots : entry[i] = g
    BY InRingIs DEF RingInv
  <2>2. \A g : g \in InRing' <=> g \in Frames /\ \E i \in Slots : entry'[i] = g
    BY <1>9, TxRingAssumption DEF TypeOK, InRing
  <2> QED
    BY <1>3, <1>6, <1>7, <2>1, <2>2
<1>12. Ahead' = Ahead \cup (InRing \X {f})
  <2>1. \A i \in Slots : Dist(tail, i) \in Nat
    BY <1>2, DistRange
  <2>2. ASSUME NEW p \in Ahead' PROVE p \in Ahead \cup (InRing \X {f})
    <3>1. PICK i \in Slots, j \in Slots :
            /\ p = <<entry'[i], entry'[j]>> /\ entry'[i] \in InRing' /\ entry'[j] \in InRing'
            /\ Dist(tail, i) < Dist(tail, j)
      BY <1>5, <2>2 DEF Ahead, Dist
    <3>2. entry'[i] \in Frames /\ entry'[j] \in Frames
      BY <1>9, <3>1, TxRingAssumption DEF TypeOK, InRing
    <3>3. i # q
      BY <1>1, <1>2, <1>3, <1>7, <2>1, <3>1, <3>2
    <3>4. entry'[i] = entry[i] /\ entry[i] \in InRing
      BY <1>7, <3>2, <3>3, InRingIs DEF RingInv
    <3>5. CASE j = q
      BY <1>6, <3>1, <3>4, <3>5
    <3>6. CASE j # q
      <4>1. entry'[j] = entry[j] /\ entry[j] \in InRing
        BY <1>7, <3>2, <3>6, InRingIs DEF RingInv
      <4> QED
        BY <3>1, <3>4, <4>1 DEF Ahead
    <3> QED
      BY <3>5, <3>6
  <2>3. ASSUME NEW p \in Ahead PROVE p \in Ahead'
    <3>1. PICK i \in Slots, j \in Slots :
            /\ p = <<entry[i], entry[j]>> /\ entry[i] \in InRing /\ entry[j] \in InRing
            /\ Dist(tail, i) < Dist(tail, j)
      BY <2>3 DEF Ahead
    <3>2. entry'[i] = entry[i] /\ entry'[j] = entry[j]
      BY <1>7, <3>1, InRingIs DEF RingInv
    <3>3. Dist(tail', i) < Dist(tail', j)
      BY <1>5, <3>1
    <3> QED
      BY <1>11, <3>1, <3>2, <3>3 DEF Ahead
  <2>4. ASSUME NEW g \in InRing PROVE <<g, f>> \in Ahead'
    <3>1. PICK i \in Slots : entry[i] = g /\ g \in Frames
      BY InRingIs DEF RingInv
    <3>2. entry'[i] = g /\ Dist(tail, i) < queued
      BY <1>7, <3>1
    <3>3. Dist(tail', i) < Dist(tail', q)
      BY <1>1, <1>2, <1>3, <1>5, <2>1, <3>2
    <3> QED
      BY <1>3, <1>6, <1>11, <3>2, <3>3 DEF Ahead
  <2> QED
    BY <2>2, <2>3, <2>4
<1>13. InHand' = InHand /\ InHand # f
  <2>1. Held' = Held
    BY <1>5 DEF Held
  <2>2. InHand \in Held \cup {None}
    BY DEF InHand
  <2> QED
    BY <1>5, <2>1, <2>2, TxRingAssumption DEF InHand
<1> QED
  BY <1>5, <1>10, <1>11, <1>12, <1>13 DEF Fifo!Put

\* A cleaner takes the entry at tail.
LEMMA EntryTakes ==
  ASSUME RingInv, FifoInv, NEW c \in AllCleaners, CleanEntry(c)
  PROVE  /\ FifoInv'
         /\ \/ \E f \in Frames : Fifo!Take(f)
            \/ UNCHANGED <<InRing, Ahead, InHand>>
<1> DEFINE f == entry[tail]
<1>1. /\ clean[c].pc = "loop" /\ tail' = tail
      /\ clean' = [clean EXCEPT ![c] = [pc |-> "advance", last |-> clean[c].last, held |-> f]]
      /\ entry' = [entry EXCEPT ![tail] = None]
  BY DEF CleanEntry
<1>2. TypeOK /\ tail \in Slots /\ f \in Frames \cup {None, Part} /\ RingInv'
  BY RegistersInSlots, EntryStep DEF RingInv, TypeOK
<1> HIDE DEF f
<1>3. /\ \A i \in Slots : entry'[i] = IF i = tail THEN None ELSE entry[i]
      /\ clean'[c].held = f /\ clean'[c].pc = "advance"
      /\ \A d \in AllCleaners \ {c} : clean'[d] = clean[d]
  BY <1>1, <1>2 DEF TypeOK
<1>4. \A d \in AllCleaners : clean[d].held = None
  <2>1. \A d \in AllCleaners : clean[d].pc # "advance"
    BY <1>1, Holder
  <2> QED
    BY <2>1 DEF FifoInv
<1>5. FifoInv'
  <2>1. \A i \in Slots : entry[i] = f /\ f \in Frames => i = tail
    BY <1>2 DEF FifoInv, f
  <2>2. ASSUME NEW i \in Slots, NEW j \in Slots, entry'[i] \in Frames, entry'[i] = entry'[j]
        PROVE  i = j
    BY <1>3, <2>2, TxRingAssumption DEF FifoInv
  <2>3. ASSUME NEW d \in AllCleaners
        PROVE  /\ clean'[d].pc # "advance" => clean'[d].held = None
               /\ clean'[d].held \in Frames => \A i \in Slots : entry'[i] # clean'[d].held
    BY <1>3, <1>4, <2>1, TxRingAssumption
  <2> QED
    BY <2>2, <2>3 DEF FifoInv
<1>6. Held = {} /\ InHand = None
  BY <1>4 DEF Held, InHand
<1>7. Held' = {f} \ {None, Part}
  BY <1>3, <1>4 DEF Held
<1>8. CASE f \in Frames
  <2>1. InHand' = f
    BY <1>7, <1>8, TxRingAssumption DEF InHand
  <2>2. \A g : g \in InRing <=> g \in Frames /\ \E i \in Slots : entry[i] = g
    BY <1>2, InRingIs
  <2>3. \A g : g \in InRing' <=> g \in Frames /\ \E i \in Slots : entry'[i] = g
    BY <1>2, TxRingAssumption DEF RingInv, TypeOK, InRing
  <2>4. \A i \in Slots : entry[i] = f => i = tail
    BY <1>2, <1>8 DEF FifoInv, f
  <2>5. InRing' = InRing \ {f}
    BY <1>3, <2>2, <2>3, <2>4, TxRingAssumption DEF f
  <2>6. f \in InRing /\ \A g \in InRing : <<g, f>> \notin Ahead
    <3>1. f \in InRing
      BY <1>2, <1>8, <2>2 DEF f
    <3>2. ASSUME NEW g \in InRing, <<g, f>> \in Ahead PROVE FALSE
      <4>1. PICK i \in Slots, j \in Slots : entry[j] = f /\ Dist(tail, i) < Dist(tail, j)
        BY <3>2 DEF Ahead
      <4>2. Dist(tail, j) = 0 /\ Dist(tail, i) \in Nat
        BY <1>2, <2>4, <4>1, DistRange
      <4> QED
        BY <4>1, <4>2
    <3> QED
      BY <3>1, <3>2
  <2>7. Ahead' = {p \in Ahead : f \notin {p[1], p[2]}}
    <3>1. ASSUME NEW p \in Ahead' PROVE p \in Ahead /\ f \notin {p[1], p[2]}
      <4>1. PICK i \in Slots, j \in Slots :
              /\ p = <<entry'[i], entry'[j]>> /\ entry'[i] \in InRing' /\ entry'[j] \in InRing'
              /\ Dist(tail, i) < Dist(tail, j)
        BY <1>1, <3>1 DEF Ahead, Dist
      <4>2. /\ entry'[i] = entry[i] /\ entry'[j] = entry[j]
            /\ entry[i] \in InRing \ {f} /\ entry[j] \in InRing \ {f}
        BY <1>3, <2>3, <2>5, <4>1, TxRingAssumption
      <4> QED
        BY <4>1, <4>2 DEF Ahead
    <3>2. ASSUME NEW p \in Ahead, f \notin {p[1], p[2]} PROVE p \in Ahead'
      <4>1. PICK i \in Slots, j \in Slots :
              /\ p = <<entry[i], entry[j]>> /\ entry[i] \in InRing /\ entry[j] \in InRing
              /\ Dist(tail, i) < Dist(tail, j)
        BY <3>2 DEF Ahead
      <4>2. entry[i] # f /\ entry[j] # f
        BY <3>2, <4>1
      <4>3. entry'[i] = entry[i] /\ entry'[j] = entry[j] /\ Dist(tail', i) < Dist(tail', j)
        BY <1>1, <1>3, <4>1, <4>2 DEF f
      <4> QED
        BY <2>5, <4>1, <4>2, <4>3 DEF Ahead
    <3> QED
      BY <3>1, <3>2
  <2>8. Fifo!Take(f)
    BY <1>6, <2>1, <2>5, <2>6, <2>7 DEF Fifo!Take, Fifo!Oldest
  <2> QED
    BY <1>5, <1>8, <2>8
<1>9. CASE f \notin Frames
  <2>1. Held' = {} /\ InHand' = None
    BY <1>2, <1>7, <1>9 DEF InHand
  <2>2. \A g : g \in InRing <=> g \in Frames /\ \E i \in Slots : entry[i] = g
    BY <1>2, InRingIs
  <2>3. \A g : g \in InRing' <=> g \in Frames /\ \E i \in Slots : entry'[i] = g
    BY <1>2, TxRingAssumption DEF RingInv, TypeOK, InRing
  <2>4. \A i \in Slots : entry[i] \in Frames \/ entry'[i] \in Frames => entry'[i] = entry[i]
    BY <1>3, <1>9, TxRingAssumption DEF f
  <2>5. InRing' = InRing
    BY <2>2, <2>3, <2>4
  <2>6. Ahead' = Ahead
    <3>1. ASSUME NEW p \in InRing \X InRing, NEW i \in Slots, NEW j \in Slots
          PROVE  entry'[i] = p[1] /\ entry'[j] = p[2] <=> entry[i] = p[1] /\ entry[j] = p[2]
      BY <2>2, <2>4
    <3> QED
      BY <1>1, <2>5, <3>1 DEF Ahead, Dist
  <2> QED
    BY <1>5, <1>6, <2>1, <2>5, <2>6
<1> QED
  BY <1>8, <1>9

\* tail moves on over the slot that was emptied, and the frame is handed back.
LEMMA AdvanceCompletes ==
  ASSUME RingInv, FifoInv, NEW c \in AllCleaners, CleanAdvance(c)
  PROVE  /\ FifoInv'
         /\ Fifo!Complete \/ UNCHANGED <<InRing, Ahead, InHand>>
<1>1. /\ clean[c].pc = "advance" /\ tail' = Succ(tail) /\ entry' = entry
      /\ clean' = [clean EXCEPT ![c] =
           [pc |-> IF Succ(tail) = clean[c].last THEN "reread" ELSE "loop",
            last |-> clean[c].last, held |-> None]]
  BY DEF CleanAdvance
<1>2. tail \in Slots /\ TypeOK
  BY RegistersInSlots DEF RingInv
<1>3. entry[tail] = None
  BY <1>1, <1>2, Holder DEF RingInv, OccupiedBetweenTailAndHead
<1>4. /\ clean'[c].held = None
      /\ \A d \in AllCleaners \ {c} : clean'[d] = clean[d] /\ clean[d].held = None
  BY <1>1, <1>2, Holder DEF TypeOK, FifoInv
<1>5. FifoInv'
  BY <1>1, <1>4, TxRingAssumption DEF FifoInv
<1>6. InRing' = InRing
  BY <1>1 DEF InRing
<1>7. Ahead' = Ahead
  <2>1. \A j \in Slots :
          Dist(Succ(tail), j) = IF j = tail THEN NDesc - 1 ELSE Dist(tail, j) - 1
    BY <1>2, SuccNearer
  <2>2. None \notin InRing
    BY DEF InRing
  <2>3. ASSUME NEW i \in Slots, NEW j \in Slots, entry[i] \in InRing, entry[j] \in InRing
        PROVE  Dist(Succ(tail), i) < Dist(Succ(tail), j) <=> Dist(tail, i) < Dist(tail, j)
    <3>1. i # tail /\ j # tail
      BY <1>3, <2>2, <2>3
    <3>2. Dist(tail, i) \in Nat /\ Dist(tail, j) \in Nat
      BY <1>2, DistRange
    <3> QED
      BY <2>1, <3>1, <3>2
  <2>4. Ahead' = {p \in InRing \X InRing :
                    \E i, j \in Slots : /\ entry[i] = p[1] /\ entry[j] = p[2]
                                        /\ Dist(Succ(tail), i) < Dist(Succ(tail), j)}
    BY <1>1, <1>6 DEF Ahead, Dist
  <2>5. \A p \in InRing \X InRing : p[1] \in InRing /\ p[2] \in InRing
    OBVIOUS
  <2> QED
    BY <2>3, <2>4, <2>5 DEF Ahead
<1>8. Held' = {} /\ InHand' = None
  BY <1>4 DEF Held, InHand
<1>9. CASE clean[c].held \in Frames
  <2>1. InHand # None
    BY <1>1, <1>9, HandIs, TxRingAssumption
  <2> QED
    BY <1>5, <1>6, <1>7, <1>8, <2>1 DEF Fifo!Complete
<1>10. CASE clean[c].held \notin Frames
  <2>1. InHand = None
    BY <1>1, <1>10, HandIs
  <2> QED
    BY <1>5, <1>6, <1>7, <1>8, <2>1
<1> QED
  BY <1>9, <1>10

\* All other steps of the ring are stutters.
LEMMA LockUnseen ==
  ASSUME RingInv, FifoInv,
         \/ \E c \in Cleaners : CleanLock(c)
         \/ FlushLock
         \/ \E c \in AllCleaners : CleanReread(c) \/ CleanUnlock(c)
  PROVE  FifoInv' /\ UNCHANGED <<InRing, Ahead, InHand>>
<1>1. PICK c \in AllCleaners : /\ clean[c].pc # "advance"
                               /\ tail' = tail /\ entry' = entry
                               /\ \E last \in Slots \cup {-1}, pc \in {"idle", "loop"} :
                                    clean' = [clean EXCEPT ![c] =
                                                [pc |-> pc, last |-> last, held |-> None]]
  <2>1. dmaIdx \in Slots /\ 0 \in Slots /\ -1 \in Slots \cup {-1}
    BY RegistersInSlots, TxRingAssumption DEF RingInv, Slots
  <2>2. CASE (\E c \in Cleaners : CleanLock(c)) \/ FlushLock
    <3>1. Cleaners \subseteq AllCleaners /\ Resetter \in AllCleaners
      BY DEF AllCleaners
    <3> QED
      BY <2>1, <2>2, <3>1 DEF CleanLock, FlushLock, Locked
  <2>3. CASE \E c \in AllCleaners : CleanReread(c) \/ CleanUnlock(c)
    BY <2>1, <2>3 DEF CleanReread, CleanUnlock, Idle
  <2> QED
    BY <2>2, <2>3
<1>2. \A d \in AllCleaners : clean'[d].held = clean[d].held
                             /\ (clean'[d].pc = "advance" => clean[d].pc = "advance")
  BY <1>1 DEF RingInv, TypeOK, FifoInv
<1>3. Held' = Held
  BY <1>2 DEF Held
<1>4. FifoInv'
  <2>1. ASSUME NEW d \in AllCleaners, clean'[d].pc # "advance" PROVE clean'[d].held = None
    BY <1>1, <2>1 DEF RingInv, TypeOK, FifoInv
  <2> QED
    BY <1>1, <1>2, <2>1 DEF FifoInv
<1> QED
  BY <1>1, <1>3, <1>4, Unseen

LEMMA OtherUnseen ==
  ASSUME RingInv, FifoInv,
         Kick \/ Fetch \/ ResetBegin \/ ResetKick \/ ResetDisable \/ UNCHANGED vars
  PROVE  FifoInv' /\ UNCHANGED <<InRing, Ahead, InHand>>
<1>1. tail' = tail /\ entry' = entry /\ clean' = clean
  BY DEF Kick, Fetch, ResetBegin, ResetKick, ResetDisable, vars
<1>2. Held' = Held
  BY <1>1 DEF Held
<1>3. FifoInv'
  BY <1>1 DEF FifoInv
<1> QED
  BY <1>1, <1>2, <1>3, Unseen

\* A reset moves tail only when the ring is empty.
LEMMA ResetUnseen ==
  ASSUME RingInv, FifoInv, ResetSync \/ ResetQueue
  PROVE  FifoInv' /\ UNCHANGED <<InRing, Ahead, InHand>>
<1>1. entry' = entry /\ clean' = clean /\ reset \notin {"no", "flush"}
  BY DEF ResetSync, ResetQueue
<1>2. InRing = {} /\ InRing' = {}
  BY <1>1 DEF RingInv, CleanInv, InRing
<1>3. Ahead = {} /\ Ahead' = {}
  BY <1>2 DEF Ahead
<1>4. InHand' = InHand
  BY <1>1 DEF InHand, Held
<1>5. FifoInv'
  BY <1>1 DEF FifoInv
<1> QED
  BY <1>2, <1>3, <1>4, <1>5

LEMMA FifoStep ==
  RingInv /\ FifoInv /\ [Next]_vars => FifoInv' /\ [Fifo!Next]_(Fifo!fifoVars)
<1> SUFFICES ASSUME RingInv, FifoInv, [Next]_vars
             PROVE  FifoInv' /\ [Fifo!Next]_(Fifo!fifoVars)
  OBVIOUS
<1>1. ASSUME FifoInv', UNCHANGED <<InRing, Ahead, InHand>>
      PROVE  FifoInv' /\ [Fifo!Next]_(Fifo!fifoVars)
  BY <1>1 DEF Fifo!fifoVars
<1>2. CASE \E f \in Frames, k \in 1 .. MaxDescs : Add(f, k)
  BY <1>2, AddPuts DEF Fifo!Next
<1>3. CASE \E c \in AllCleaners : CleanEntry(c)
  BY <1>1, <1>3, EntryTakes DEF Fifo!Next
<1>4. CASE \E c \in AllCleaners : CleanAdvance(c)
  BY <1>1, <1>4, AdvanceCompletes DEF Fifo!Next
<1>5. CASE \/ \E c \in Cleaners : CleanLock(c)
           \/ FlushLock
           \/ \E c \in AllCleaners : CleanReread(c) \/ CleanUnlock(c)
  BY <1>1, <1>5, LockUnseen
<1>6. CASE Kick \/ Fetch \/ ResetBegin \/ ResetKick \/ ResetDisable \/ UNCHANGED vars
  BY <1>1, <1>6, OtherUnseen
<1>7. CASE ResetSync \/ ResetQueue
  BY <1>1, <1>7, ResetUnseen
<1> QED
  BY <1>2, <1>3, <1>4, <1>5, <1>6, <1>7 DEF Next, ProducerNext, ResetNext, CleanerNext

LEMMA FifoInvariance == Spec => []FifoInv
<1>1. RingInv /\ FifoInv /\ [Next]_vars => FifoInv'
  BY FifoStep
<1> QED
  BY <1>1, FifoInit, RingInvariance, PTL DEF Spec

\* The ring, its cleaners and its resets implement a queue: frames are completed
\* in the order in which they were queued, one at a time and each once, whatever
\* dma_idx a cleaner works with and wherever the indices wrap
\* (mt76_dma_tx_cleanup, mt76_dma_queue_reset).
THEOREM RingImplementsFifo == Spec => FifoSpec
<1>1. Init => Fifo!Init
  <2> SUFFICES ASSUME Init PROVE Fifo!Init
    OBVIOUS
  <2>1. InRing = {} /\ Held = {}
    BY DEF Init, InRing, Held, Idle
  <2> QED
    BY <2>1 DEF Fifo!Init, Ahead, InHand
<1>2. RingInv /\ FifoInv /\ [Next]_vars => [Fifo!Next]_(Fifo!fifoVars)
  BY FifoStep
<1> QED
  BY <1>1, <1>2, RingInvariance, FifoInvariance, PTL DEF Spec, FifoSpec, Fifo!Spec

\* Which frame mt76_dma_tx_cleanup completes next is never open: of two frames
\* in the ring exactly one is ahead.
THEOREM RingOrdersFrames == Spec => []Fifo!QueueOrder
<1>1. RingInv /\ FifoInv => Fifo!QueueOrder
  <2> SUFFICES ASSUME RingInv, FifoInv, NEW f \in InRing, NEW g \in InRing, f # g
               PROVE  <<f, g>> \in Ahead <=> <<g, f>> \notin Ahead
    BY DEF Fifo!QueueOrder
  <2>1. PICK i \in Slots, j \in Slots : /\ entry[i] = f /\ entry[j] = g
                                        /\ f \in Frames /\ g \in Frames
    BY InRingIs DEF RingInv
  <2>2. \A l \in Slots : (entry[l] = f => l = i) /\ (entry[l] = g => l = j)
    BY <2>1 DEF FifoInv
  <2>3. tail \in Slots /\ Dist(tail, i) # Dist(tail, j)
        /\ Dist(tail, i) \in Nat /\ Dist(tail, j) \in Nat
    BY <2>1, RegistersInSlots, DistOwn, DistRange DEF RingInv
  <2>4. <<f, g>> \in Ahead <=> Dist(tail, i) < Dist(tail, j)
    BY <2>1, <2>2 DEF Ahead
  <2>5. <<g, f>> \in Ahead <=> Dist(tail, j) < Dist(tail, i)
    BY <2>1, <2>2 DEF Ahead
  <2> QED
    BY <2>3, <2>4, <2>5
<1> QED
  BY <1>1, RingInvariance, FifoInvariance, PTL
=============================================================================
