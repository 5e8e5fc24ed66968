------------------------------- MODULE TxRing -------------------------------
(***************************************************************************)
(* A transmit descriptor ring of dma.c and the contexts that share it.     *)
(*                                                                         *)
(* The producer (the tx worker; other callers are serialised with it by    *)
(* q->lock) adds frames at head and kicks the hardware with cpu_idx.  The  *)
(* hardware fetches descriptors up to cpu_idx and shows its progress in    *)
(* dma_idx.  Cleaners (the tx worker when the ring is nearly full, NAPI)   *)
(* free entries from tail up to a dma_idx they have read before; they hold *)
(* cleanup_lock throughout, but tail and queued change under q->lock and   *)
(* are read outside of it.  A reset flushes the ring, whatever the         *)
(* hardware has fetched, and starts it again from index 0.                 *)
(***************************************************************************)
EXTENDS Integers

CONSTANTS
  NDesc,     \* q->ndesc
  Frames,    \* frames under way
  MaxDescs,  \* descriptors one frame takes at most
  Cleaners,  \* contexts that call mt76_dma_tx_cleanup without flush
  Resetter,  \* the context that calls it with flush
  None,      \* an empty entry
  Part       \* an entry that holds buffers of a frame but not its last one

ASSUME TxRingAssumption ==
  /\ NDesc \in Nat /\ NDesc >= 2
  /\ MaxDescs \in Nat
  /\ Resetter \notin Cleaners
  /\ None \notin Frames /\ Part \notin Frames /\ None # Part

VARIABLES
  head, tail, queued,  \* of struct mt76_queue
  entry,               \* q->entry: what each slot holds
  cpuIdx, dmaIdx,      \* the registers of the ring
  dmaOn,               \* whether the hardware fetches
  producer,            \* "idle", "adding" before it has kicked, "off"
  clean,               \* where each cleaner is
  reset                \* mt792x_wpdma_reset: the next thing it does

vars == <<head, tail, queued, entry, cpuIdx, dmaIdx, dmaOn, producer, clean, reset>>

Slots == 0 .. NDesc - 1
AllCleaners == Cleaners \cup {Resetter}

Succ(i)    == IF i = NDesc - 1 THEN 0 ELSE i + 1
Plus(i, d) == IF i + d < NDesc THEN i + d ELSE i + d - NDesc
Dist(i, j) == IF i <= j THEN j - i ELSE j - i + NDesc

Idle == [pc |-> "idle", last |-> 0, held |-> None]

Init ==
  /\ head = 0 /\ tail = 0 /\ queued = 0
  /\ entry = [i \in Slots |-> None]
  /\ cpuIdx = 0 /\ dmaIdx = 0 /\ dmaOn = "yes"
  /\ producer = "idle"
  /\ clean = [c \in AllCleaners |-> Idle]
  /\ reset = "no"

Held     == {clean[c].held : c \in AllCleaners} \ {None, Part}
InRing   == {entry[i] : i \in Slots} \ {None, Part}

-----------------------------------------------------------------------------
(* The producer and the hardware.                                          *)

\* Mutant: the room that is asked for forgets the slot that stays empty.
AddFull(f, k) ==
  /\ producer # "off"
  /\ f \notin InRing \cup Held
  /\ queued + k <= NDesc
  /\ entry' = [i \in Slots |-> IF Dist(head, i) < k - 1 THEN Part
                               ELSE IF Dist(head, i) = k - 1 THEN f ELSE entry[i]]
  /\ head' = Plus(head, k) /\ queued' = queued + k
  /\ producer' = "adding"
  /\ UNCHANGED <<tail, cpuIdx, dmaIdx, dmaOn, clean, reset>>

\* mt76_dma_tx_queue_skb and mt76_dma_add_buf under q->lock: a frame of k
\* descriptors, two buffers in each; the skb goes with the last one.
Add(f, k) ==
  /\ producer # "off"
  /\ f \notin InRing \cup Held
  /\ queued + k < NDesc - 1
  /\ entry' = [i \in Slots |-> IF Dist(head, i) < k - 1 THEN Part
                               ELSE IF Dist(head, i) = k - 1 THEN f ELSE entry[i]]
  /\ head' = Plus(head, k) /\ queued' = queued + k
  /\ producer' = "adding"
  /\ UNCHANGED <<tail, cpuIdx, dmaIdx, dmaOn, clean, reset>>

\* Mutant: the burst ends without a kick.
KickNot ==
  /\ producer = "adding"
  /\ producer' = "idle"
  /\ UNCHANGED <<head, tail, queued, entry, cpuIdx, dmaIdx, dmaOn, clean, reset>>

\* mt76_dma_kick_queue, at the end of a burst.
Kick ==
  /\ producer = "adding"
  /\ cpuIdx' = head
  /\ producer' = "idle"
  /\ UNCHANGED <<head, tail, queued, entry, dmaIdx, dmaOn, clean, reset>>

\* The hardware is done with one descriptor.
Fetch ==
  /\ dmaOn = "yes" /\ dmaIdx # cpuIdx
  /\ dmaIdx' = Succ(dmaIdx)
  /\ UNCHANGED <<head, tail, queued, entry, cpuIdx, dmaOn, producer, clean, reset>>

-----------------------------------------------------------------------------
(* mt76_dma_tx_cleanup.                                                    *)

Locked == \E c \in AllCleaners : clean[c].pc # "idle"

\* Mutant: without cleanup_lock.
CleanLockNot(c) ==
  /\ reset = "no"
  /\ clean[c].pc = "idle"
  /\ clean' = [clean EXCEPT ![c] = [pc |-> "loop", last |-> dmaIdx, held |-> None]]
  /\ UNCHANGED <<head, tail, queued, entry, cpuIdx, dmaIdx, dmaOn, producer, reset>>

\* Mutant: the wrong register is read.
CleanLockCpu(c) ==
  /\ reset = "no"
  /\ ~Locked
  /\ clean' = [clean EXCEPT ![c] = [pc |-> "loop", last |-> cpuIdx, held |-> None]]
  /\ UNCHANGED <<head, tail, queued, entry, cpuIdx, dmaIdx, dmaOn, producer, reset>>

\* Take cleanup_lock and read dma_idx.
CleanLock(c) ==
  /\ reset = "no"
  /\ ~Locked
  /\ clean' = [clean EXCEPT ![c] = [pc |-> "loop", last |-> dmaIdx, held |-> None]]
  /\ UNCHANGED <<head, tail, queued, entry, cpuIdx, dmaIdx, dmaOn, producer, reset>>

\* With flush no index stops the loop.
FlushLock ==
  /\ reset = "flush"
  /\ ~Locked
  /\ clean' = [clean EXCEPT ![Resetter] = [pc |-> "loop", last |-> -1, held |-> None]]
  /\ UNCHANGED <<head, tail, queued, entry, cpuIdx, dmaIdx, dmaOn, producer, reset>>

More(c) == queued > 0 /\ tail # clean[c].last

\* mt76_dma_tx_cleanup_idx: unmap the entry, copy and clear it.
CleanEntry(c) ==
  /\ clean[c].pc = "loop" /\ More(c)
  /\ clean' = [clean EXCEPT ![c] = [pc |-> "advance", last |-> clean[c].last, held |-> entry[tail]]]
  /\ entry' = [entry EXCEPT ![tail] = None]
  /\ UNCHANGED <<head, tail, queued, cpuIdx, dmaIdx, dmaOn, producer, reset>>

\* mt76_queue_tx_complete: hand the frame back, then move tail on under
\* q->lock.
CleanAdvance(c) ==
  /\ clean[c].pc = "advance"
  /\ tail' = Succ(tail) /\ queued' = queued - 1
  /\ clean' = [clean EXCEPT ![c] =
       [pc |-> IF Succ(tail) = clean[c].last THEN "reread" ELSE "loop",
        last |-> clean[c].last, held |-> None]]
  /\ UNCHANGED <<head, entry, cpuIdx, dmaIdx, dmaOn, producer, reset>>

\* The index was reached: look how far the hardware is by now.
CleanReread(c) ==
  /\ clean[c].pc = "reread"
  /\ clean' = [clean EXCEPT ![c] = [pc |-> "loop", last |-> dmaIdx, held |-> None]]
  /\ UNCHANGED <<head, tail, queued, entry, cpuIdx, dmaIdx, dmaOn, producer, reset>>

CleanUnlock(c) ==
  /\ clean[c].pc = "loop" /\ ~More(c)
  /\ clean' = [clean EXCEPT ![c] = Idle]
  /\ reset' = IF c = Resetter THEN "sync" ELSE reset
  /\ UNCHANGED <<head, tail, queued, entry, cpuIdx, dmaIdx, dmaOn, producer>>

-----------------------------------------------------------------------------
(* mt792x_wpdma_reset, with a DMA engine that stops when it is told to.    *)

\* The tx worker and the pollers are kept out: disabled by mac_reset, or
\* refused a reference while the chip is being woken up.
ResetBegin ==
  /\ reset = "no" /\ producer = "idle" /\ ~Locked
  /\ producer' = "off" /\ reset' = "flush"
  /\ UNCHANGED <<head, tail, queued, entry, cpuIdx, dmaIdx, dmaOn, clean>>

\* The end of the flush: mt76_dma_sync_idx and a kick, while the hardware may
\* still fetch.
ResetSync ==
  /\ reset = "sync"
  /\ head' = dmaIdx /\ tail' = dmaIdx
  /\ reset' = "kick"
  /\ UNCHANGED <<queued, entry, cpuIdx, dmaIdx, dmaOn, producer, clean>>

ResetKick ==
  /\ reset = "kick"
  /\ cpuIdx' = head
  /\ reset' = "disable"
  /\ UNCHANGED <<head, tail, queued, entry, dmaIdx, dmaOn, producer, clean>>

ResetDisable ==
  /\ reset = "disable"
  /\ dmaOn' = "no"
  /\ reset' = "regs"
  /\ UNCHANGED <<head, tail, queued, entry, cpuIdx, dmaIdx, producer, clean>>

\* mt76_dma_queue_reset clears both registers and reads head and tail back;
\* mt792x_dma_enable lets the hardware run, the caller lets the others in.
ResetQueue ==
  /\ reset = "regs"
  /\ cpuIdx' = 0 /\ dmaIdx' = 0
  /\ head' = 0 /\ tail' = 0
  /\ dmaOn' = "yes" /\ producer' = "idle" /\ reset' = "no"
  /\ UNCHANGED <<queued, entry, clean>>

-----------------------------------------------------------------------------
ProducerNext == Kick \/ \E f \in Frames, k \in 1 .. MaxDescs : Add(f, k)
CleanerNext(c) == CleanEntry(c) \/ CleanAdvance(c) \/ CleanReread(c) \/ CleanUnlock(c)
ResetNext == ResetBegin \/ FlushLock \/ ResetSync \/ ResetKick \/ ResetDisable \/ ResetQueue

Next ==
  \/ ProducerNext \/ Fetch \/ ResetNext
  \/ \E c \in Cleaners : CleanLock(c)
  \/ \E c \in AllCleaners : CleanerNext(c)

Spec == Init /\ [][Next]_vars

\* A burst ends with its kick, the hardware makes progress, an interrupt or a
\* tx-free event brings a cleaner after the hardware has, and whoever holds
\* cleanup_lock or has begun a reset goes on.
Fairness ==
  /\ WF_vars(Kick) /\ WF_vars(Fetch)
  /\ SF_vars(\E c \in Cleaners : CleanLock(c))
  /\ WF_vars(\E c \in AllCleaners : CleanerNext(c))
  /\ WF_vars(FlushLock \/ ResetSync \/ ResetKick \/ ResetDisable \/ ResetQueue)

FairSpec == Spec /\ Fairness
-----------------------------------------------------------------------------
TypeOK ==
  /\ {head, tail, cpuIdx, dmaIdx} \subseteq Slots
  /\ queued \in 0 .. NDesc
  /\ entry \in [Slots -> Frames \cup {None, Part}]
  /\ dmaOn \in {"yes", "no"}
  /\ producer \in {"idle", "adding", "off"}
  /\ clean \in [AllCleaners -> [pc : {"idle", "loop", "advance", "reread"},
                                last : Slots \cup {-1},
                                held : Frames \cup {None, Part}]]
  /\ reset \in {"no", "flush", "sync", "kick", "disable", "regs"}

\* head, tail and queued agree, although a reset rebuilds the first two from a
\* register and leaves the third alone; queued never lets head meet tail.
CountersAgree ==
  /\ reset \in {"no", "flush"} => queued = Dist(tail, head)
  /\ queued < NDesc - 1

\* Exactly the slots from tail to head are occupied, except for the one that a
\* cleaner is just freeing: no buffer is forgotten and none is freed twice.
OccupiedBetweenTailAndHead ==
  reset \in {"no", "flush"} =>
    \A i \in Slots :
      entry[i] # None <=>
        /\ Dist(tail, i) < queued
        /\ i = tail => \A c \in AllCleaners : clean[c].pc # "advance"

\* The producer, the cleaners and resets, which share the indices under
\* different locks, leave indices, count and slots in agreement.
RingIsConsistent == CountersAgree /\ OccupiedBetweenTailAndHead

\* What the hardware still has to fetch is there: no descriptor it was told
\* about has been freed (mt76_dma_kick_queue against mt76_dma_tx_cleanup).
\* While a reset flushes the ring this does not hold.
HardwareFetchesLive ==
  reset = "no" =>
    /\ \A i \in Slots : Dist(dmaIdx, i) < Dist(dmaIdx, cpuIdx) => entry[i] # None
    /\ Dist(tail, dmaIdx) <= Dist(tail, cpuIdx)

\* The order of the frames in the ring, as tail will come across them.
Ahead ==
  {p \in InRing \X InRing :
     \E i, j \in Slots : entry[i] = p[1] /\ entry[j] = p[2] /\ Dist(tail, i) < Dist(tail, j)}

InHand == IF Held = {} THEN None ELSE CHOOSE f \in Held : TRUE

\* The ring implements the queue of FrameFifo: a cleaner that works with an
\* old dma_idx, a second cleaner, a wrap-around or a reset never reorder,
\* lose or repeat a frame.
Fifo == INSTANCE FrameFifo WITH waiting <- InRing, before <- Ahead, hand <- InHand
FifoSpec == Fifo!Spec

\* Every queued frame is completed.
QueuedFrameCompletes == \A f \in Frames : f \in InRing ~> f \notin InRing
============================================================================
