---------------------------- MODULE AggRxProofs ----------------------------
(***************************************************************************)
(* Proofs about AggRx, for any traffic, any window that divides the        *)
(* sequence space (AggRxAssumption; the code does not check that), and any *)
(* number of sessions.                                                     *)
(*                                                                         *)
(* First the control: frames never wait in the buffer without              *)
(* reorder_work, and a session that was stopped stays quiet.  Releasing    *)
(* empties slots and fills none (Releases), so no release can create a     *)
(* frame without a timer; StopInv says what mt76_rx_aggr_stop has achieved *)
(* after each of its steps, so that neither a poller with an old pointer   *)
(* nor a work that is already past the lock arms the timer again.          *)
(*                                                                         *)
(* Then the numbers: every buffered frame lies in the window ahead of the  *)
(* head, in the slot of its number, and frames are released in the order   *)
(* of their numbers.  OrderInv bounds how far head, originator and the     *)
(* frame in the poller's hand are apart, which makes the comparison of     *)
(* their numbers on the air that of the MSDUs (SnOrder); RunsTo says what  *)
(* a release leaves and gives, and Moves what a whole critical section     *)
(* does to the head, to the buffer and to the list of released frames.     *)
(*                                                                         *)
(* And what is thrown away: the head passes a number only when its frame or*)
(* a later one was released (DuplicateInv), so that a frame behind the head*)
(* is worth nothing, and a release gives every frame that it takes out.    *)
(***************************************************************************)
EXTENDS AggRx, NaturalsInduction, WellFoundedInduction, TLAPS

\* The fields of a session; what the head and a frame are does not matter.
IsTid(t) ==
  /\ t \in [head : {t.head}, buf : {t.buf}, started : {t.started}, stopped : {t.stopped}]
  /\ t.buf = [s \in Slots |-> t.buf[s]]

Occupied(t) == {s \in Slots : t.buf[s] # None}

StopInv ==
  /\ stopping \in {"no", "shutdown", "cancel"}
  /\ timer \in {"idle", "armed"} /\ work \in {"idle", "rearm", "done"}
  /\ aggr = "live" => stopping = "no"
  /\ stopping = "cancel" \/ (aggr = "none" /\ stopping = "no") => tid.stopped = "yes"
  /\ tid.stopped = "yes" => Occupied(tid) = {}

\* BufferedHasTimer, slot by slot.
TimerInv == Occupied(tid) # {} => timer = "armed" \/ work = "rearm"

AggInv == IsTid(tid) /\ StopInv /\ TimerInv /\ StoppedIsQuiet

-----------------------------------------------------------------------------
(* Releasing.                                                              *)

\* What every release leaves: a session like the one before, with nothing in
\* slots that were empty.
Releases(t, r) ==
  /\ IsTid(r.tid) /\ r.tid.stopped = t.stopped /\ r.tid.started = t.started
  /\ Occupied(r.tid) \subseteq Occupied(t)

LEMMA ReleaseNReleases ==
  ASSUME NEW t, IsTid(t), NEW k
  PROVE  Releases(t, ReleaseN(t, k))
<1> DEFINE buf == [s \in Slots |-> IF (s - Slot(t.head)) % Size < k THEN None ELSE t.buf[s]]
           left == [t EXCEPT !.head = @ + k,
                             !.buf = [s \in Slots |->
                               IF (s - Slot(t.head)) % Size < k THEN None ELSE @[s]]]
<1>1. ReleaseN(t, k).tid = left
  BY DEF ReleaseN
<1>2. left.buf = buf /\ left.started = t.started /\ left.stopped = t.stopped /\ IsTid(left)
  BY DEF IsTid
<1>3. Occupied(left) \subseteq Occupied(t)
  BY <1>2 DEF Occupied
<1> QED
  BY <1>1, <1>2, <1>3 DEF Releases

LEMMA ReleaseHeadReleases ==
  ASSUME NEW t, IsTid(t)
  PROVE  Releases(t, ReleaseHead(t))
  BY ReleaseNReleases DEF ReleaseHead

LEMMA CheckReleaseReleases ==
  ASSUME NEW t, IsTid(t), NEW expired
  PROVE  Releases(t, CheckRelease(t, expired))
  BY ReleaseNReleases DEF ReleaseHead, ReleaseTo, CheckRelease

\* The session with its head one further, and marked as started.
LEMMA StartedTid ==
  ASSUME IsTid(tid)
  PROVE  /\ LET t == [tid EXCEPT !.started = "yes"]
            IN  IsTid(t) /\ t.stopped = tid.stopped /\ Occupied(t) = Occupied(tid)
         /\ LET t == [tid EXCEPT !.head = @ + 1, !.started = "yes"]
            IN  IsTid(t) /\ t.stopped = tid.stopped /\ Occupied(t) = Occupied(tid)
  BY DEF IsTid, Occupied

-----------------------------------------------------------------------------
LEMMA AggInit == Init => AggInv
  BY DEF Init, AggInv, IsTid, StopInv, TimerInv, Occupied, NewTid, StoppedIsQuiet

\* A step that only releases frames of a live session keeps the invariant.
LEMMA ReleaseOnly ==
  ASSUME AggInv, NEW t, IsTid(t), t.stopped = tid.stopped, Occupied(t) \subseteq Occupied(tid),
         NEW r, Releases(t, r), tid' = r.tid, UNCHANGED <<aggr, timer, work, stopping>>
  PROVE  AggInv'
<1>1. IsTid(tid') /\ tid'.stopped = tid.stopped /\ Occupied(tid') \subseteq Occupied(tid)
  BY DEF Releases
<1>2. IsTid(tid)' /\ Occupied(tid)' = Occupied(tid')
  BY <1>1 DEF IsTid, Occupied
<1> QED
  BY <1>1, <1>2 DEF AggInv, StopInv, TimerInv, StoppedIsQuiet

\* Filing a frame may drop it, or puts it in an empty slot and arms the timer.
LEMMA Files ==
  ASSUME NEW n, NEW r, IsTid(r.tid), FileFrame(n, r)
  PROVE  /\ IsTid(tid') /\ tid'.stopped = r.tid.stopped
         /\ \/ timer' = timer /\ Occupied(tid') = Occupied(r.tid)
            \/ timer' = "armed"
<1>1. CASE tid' = r.tid /\ UNCHANGED timer
  BY <1>1
<1>2. CASE timer' = "armed" /\ tid' = ReleaseHead([r.tid EXCEPT !.buf[Slot(n)] = n]).tid
  <2> DEFINE t == [r.tid EXCEPT !.buf[Slot(n)] = n]
  <2>1. IsTid(t) /\ t.stopped = r.tid.stopped
    BY DEF IsTid
  <2>2. Releases(t, ReleaseHead(t))
    BY <2>1, ReleaseHeadReleases
  <2> QED
    BY <1>2, <2>1, <2>2 DEF Releases
<1> QED
  BY <1>1, <1>2 DEF FileFrame

LEMMA NapiStep ==
  ASSUME AggInv, NapiNext
  PROVE  AggInv'
<1>1. IsTid(tid)
  BY DEF AggInv
<1>2. CASE (\E n \in Msdus : NapiLook(n)) \/ NapiLookBar \/ NapiBypass \/ NapiDiscard
  BY <1>2 DEF NapiLook, NapiLookBar, NapiBypass, NapiDiscard,
              AggInv, IsTid, StopInv, TimerInv, Occupied, StoppedIsQuiet
<1>3. CASE NapiInOrder
  <2> DEFINE t == [tid EXCEPT !.head = @ + 1, !.started = "yes"]
  <2>1. tid' = ReleaseHead(t).tid /\ UNCHANGED <<aggr, timer, work, stopping>>
    BY <1>3 DEF NapiInOrder
  <2>2. IsTid(t) /\ t.stopped = tid.stopped /\ Occupied(t) = Occupied(tid)
    BY <1>1, StartedTid
  <2>3. Releases(t, ReleaseHead(t))
    BY <2>2, ReleaseHeadReleases
  <2> QED
    BY <2>1, <2>2, <2>3, ReleaseOnly
<1>4. CASE NapiStore
  <2> DEFINE n == napi.msdu
             t == [tid EXCEPT !.started = "yes"]
             r == IF SnLess(Sn(n), Sn(t.head + Size))
                  THEN [tid |-> t, frames |-> <<>>]
                  ELSE ReleaseN(t, Behind(t, SnSub(Sn(n), Size - 1)))
  <2>1. FileFrame(n, r) /\ tid.stopped # "yes" /\ UNCHANGED <<aggr, work, stopping>>
    BY <1>4 DEF NapiStore, SawStopped
  <2>2. IsTid(t) /\ t.stopped = tid.stopped /\ Occupied(t) = Occupied(tid)
    BY <1>1, StartedTid
  <2>3. IsTid(r.tid) /\ r.tid.stopped = tid.stopped /\ Occupied(r.tid) \subseteq Occupied(tid)
    BY <2>2, ReleaseNReleases DEF Releases
  <2> HIDE DEF r, t, n
  <2>4. /\ IsTid(tid') /\ tid'.stopped = tid.stopped
        /\ \/ timer' = timer /\ Occupied(tid') \subseteq Occupied(tid)
           \/ timer' = "armed"
    BY <2>1, <2>3, Files
  <2>5. IsTid(tid)' /\ Occupied(tid)' = Occupied(tid')
    BY <2>4 DEF IsTid, Occupied
  <2> QED
    BY <2>1, <2>4, <2>5 DEF AggInv, StopInv, TimerInv, StoppedIsQuiet
<1>5. CASE NapiBar
  <2>1. UNCHANGED <<aggr, timer, work, stopping>>
    BY <1>5 DEF NapiBar
  <2>2. CASE tid' = tid
    BY <2>1, <2>2 DEF AggInv, IsTid, StopInv, TimerInv, Occupied, StoppedIsQuiet
  <2>3. CASE tid' = ReleaseTo(tid, Sn(napi.msdu)).tid
    <3>1. Releases(tid, ReleaseTo(tid, Sn(napi.msdu)))
      BY <1>1, ReleaseNReleases DEF ReleaseTo
    <3> QED
      BY <1>1, <2>1, <2>3, <3>1, ReleaseOnly
  <2> QED
    BY <1>5, <2>2, <2>3 DEF NapiBar
<1> QED
  BY <1>2, <1>3, <1>4, <1>5 DEF NapiNext

LEMMA WorkStep ==
  ASSUME AggInv, WorkNext
  PROVE  AggInv'
<1>1. CASE WorkFinish
  BY <1>1 DEF WorkFinish, AggInv, IsTid, StopInv, TimerInv, Occupied, StoppedIsQuiet
<1>2. ASSUME NEW expired \in SUBSET Buffered, WorkRelease(expired) PROVE AggInv'
  <2> DEFINE r == CheckRelease(tid, expired)
  <2>1. /\ timer = "armed" /\ timer' = "idle" /\ tid' = r.tid
        /\ work' = IF \A s \in Slots : r.tid.buf[s] = None THEN "done" ELSE "rearm"
        /\ UNCHANGED <<aggr, stopping>>
    BY <1>2 DEF WorkRelease
  <2>2. Releases(tid, r)
    BY CheckReleaseReleases DEF AggInv
  <2> HIDE DEF r
  <2>3. IsTid(tid') /\ tid'.stopped = tid.stopped /\ Occupied(tid') \subseteq Occupied(tid)
    BY <2>1, <2>2 DEF Releases
  <2>4. IsTid(tid)' /\ Occupied(tid)' = Occupied(tid')
    BY <2>3 DEF IsTid, Occupied
  <2>5. Occupied(tid') # {} => work' = "rearm"
    BY <2>1 DEF Occupied
  <2> QED
    BY <2>1, <2>3, <2>4, <2>5 DEF AggInv, StopInv, TimerInv, StoppedIsQuiet
<1> QED
  BY <1>1, <1>2 DEF WorkNext

LEMMA SessionStep ==
  ASSUME AggInv, Advance \/ StopNext \/ \E n \in Msdus : Start(n)
  PROVE  AggInv'
<1> USE DEF AggInv, StopInv, TimerInv, Occupied, StoppedIsQuiet
<1>1. CASE Advance \/ StopUnpublish \/ StopCancel
  BY <1>1 DEF Advance, StopUnpublish, StopCancel, IsTid
<1>2. CASE StopShutdown
  <2>1. /\ tid'.stopped = "yes" /\ tid'.buf = [s \in Slots |-> None] /\ IsTid(tid)'
        /\ stopping = "shutdown" /\ stopping' = "cancel" /\ UNCHANGED <<aggr, timer, work>>
    BY <1>2 DEF StopShutdown, IsTid
  <2> QED
    BY <2>1
<1>3. CASE \E n \in Msdus : Start(n)
  BY <1>3 DEF Start, NewTid, IsTid
<1> QED
  BY <1>1, <1>2, <1>3 DEF StopNext

LEMMA AggStep == AggInv /\ [Next]_vars => AggInv'
<1> SUFFICES ASSUME AggInv, [Next]_vars PROVE AggInv'
  OBVIOUS
<1>1. CASE UNCHANGED vars
  BY <1>1 DEF vars, AggInv, IsTid, StopInv, TimerInv, Occupied, StoppedIsQuiet
<1> QED
  BY <1>1, NapiStep, WorkStep, SessionStep DEF Next

\* The inductive invariant of a reordering session holds in every reachable
\* state.
THEOREM AggInvariance == Spec => []AggInv
  BY AggInit, AggStep, PTL DEF Spec

\* Frames in the buffer always have a reorder_work that is queued or about to
\* queue itself, although it decides so under tid->lock and acts outside of it
\* (mt76_rx_aggr_reorder_work).
THEOREM BufferedFramesAreTimed == Spec => []BufferedHasTimer
<1>1. AggInv => BufferedHasTimer
  BY DEF AggInv, TimerInv, Occupied, BufferedHasTimer, Buffered
<1> QED
  BY <1>1, AggInvariance, PTL

\* After mt76_rx_aggr_stop nothing is queued and nothing runs on the session,
\* whatever a poller with an old pointer does.
THEOREM StoppedSessionsAreQuiet == Spec => []StoppedIsQuiet
<1>1. AggInv => StoppedIsQuiet
  BY DEF AggInv
<1> QED
  BY <1>1, AggInvariance, PTL

-----------------------------------------------------------------------------
(* Arithmetic: remainders, slots, and numbers on the air.                  *)

\* Integer division.
LEMMA ModRange ==
  ASSUME NEW M \in Nat, M > 0, NEW x \in Int
  PROVE  x % M \in 0 .. M - 1 /\ x \div M \in Int /\ x = M * (x \div M) + (x % M)
  BY SMT

\* Two remainders that differ by a multiple of M are equal.
LEMMA SameRemainder ==
  ASSUME NEW M \in Nat, M > 0, NEW k \in Int, NEW r \in 0 .. M - 1, NEW s \in 0 .. M - 1,
         r = s + M * k
  PROVE  r = s
<1>1. CASE k >= 1
  BY <1>1, SMT
<1>2. CASE k <= -1
  BY <1>2, SMT
<1> QED
  BY <1>1, <1>2, SMT

\* The remainder is the one number of the range that makes up the division.
LEMMA Remainder ==
  ASSUME NEW M \in Nat, M > 0, NEW x \in Int, NEW q \in Int, NEW r \in 0 .. M - 1,
         x = M * q + r
  PROVE  x % M = r
<1>1. x % M \in 0 .. M - 1 /\ x \div M \in Int /\ x = M * (x \div M) + (x % M)
  BY ModRange
<1>2. x % M = r + M * (q - (x \div M))
  BY <1>1, SMT
<1> QED
  BY <1>1, <1>2, SameRemainder

\* Taking a remainder first changes no remainder of a difference.
LEMMA RemainderOfDifference ==
  ASSUME NEW M \in Nat, M > 0, NEW a \in Int, NEW b \in Int
  PROVE  ((a % M) - (b % M)) % M = (a - b) % M /\ ((a % M) - b) % M = (a - b) % M
         /\ (a - (b % M)) % M = (a - b) % M
<1> DEFINE q == (a - b) \div M
           r == (a - b) % M
<1>1. /\ a % M \in Int /\ a \div M \in Int /\ a = M * (a \div M) + (a % M)
      /\ b % M \in Int /\ b \div M \in Int /\ b = M * (b \div M) + (b % M)
      /\ r \in 0 .. M - 1 /\ q \in Int /\ a - b = M * q + r
  BY ModRange
<1> HIDE DEF q, r
<1> DEFINE k1 == q - (a \div M) + (b \div M)
           k2 == q - (a \div M)
           k3 == q + (b \div M)
<1>2. k1 \in Int /\ k2 \in Int /\ k3 \in Int
  BY <1>1
<1>3. (a % M) - (b % M) = M * k1 + r /\ (a % M) - b = M * k2 + r /\ a - (b % M) = M * k3 + r
  BY <1>1, SMT
<1> HIDE DEF k1, k2, k3
<1> DEFINE d1 == (a % M) - (b % M)
           d2 == (a % M) - b
           d3 == a - (b % M)
<1>4. d1 \in Int /\ d2 \in Int /\ d3 \in Int
  BY <1>1
<1>5. d1 = M * k1 + r /\ d2 = M * k2 + r /\ d3 = M * k3 + r /\ r \in 0 .. M - 1
  BY <1>1, <1>3
<1> HIDE DEF d1, d2, d3
<1>6. d1 % M = r
  BY <1>2, <1>4, <1>5, Remainder
<1>7. d2 % M = r
  BY <1>2, <1>4, <1>5, Remainder
<1>8. d3 % M = r
  BY <1>2, <1>4, <1>5, Remainder
<1> QED
  BY <1>6, <1>7, <1>8 DEF r, d1, d2, d3

\* Remainders of numbers within one modulus of zero.
LEMMA SmallRemainder ==
  ASSUME NEW M \in Nat, M > 0, NEW x \in Int
  PROVE  /\ x \in 0 .. M - 1 => x % M = x
         /\ x \in 1 - M .. -1 => x % M = x + M
<1>1. CASE x \in 0 .. M - 1
  <2>1. x = M * 0 + x
    BY <1>1, SMT
  <2>2. x % M = x
    BY <1>1, <2>1, Remainder
  <2> QED
    BY <1>1, <2>2, SMT
<1>2. CASE x \in 1 - M .. -1
  <2>1. x = M * (-1) + (x + M) /\ x + M \in 0 .. M - 1
    BY <1>2, SMT
  <2>2. x % M = x + M
    BY <2>1, Remainder
  <2> QED
    BY <1>2, <2>2, SMT
<1> QED
  BY <1>1, <1>2

\* Multiplication distributes.
LEMMA Distribute ==
  ASSUME NEW M \in Int, NEW a \in Int, NEW b \in Int
  PROVE  M * (a + b) = M * a + M * b
  BY SMT

\* What is assumed of the constants.
LEMMA Numbers ==
  /\ SnMod \in Nat /\ Size \in Nat /\ Gap \in Nat /\ FirstMsdu \in Nat /\ MaxMsdu \in Nat
  /\ MaxSessions \in Nat /\ Size > 0 /\ SnMod > 0 /\ 2 * (Gap + Size) < SnMod
  /\ SnMod % Size = 0 /\ FirstMsdu <= MaxMsdu
  BY AggRxAssumption

\* The slot of an MSDU depends on its number on the air only because the window
\* divides the sequence space.
LEMMA SlotIsRemainder ==
  ASSUME NEW n \in Int
  PROVE  Slot(n) = n % Size /\ Slot(n) \in Slots
<1> DEFINE c == SnMod \div Size
           q == n \div SnMod
           p == Sn(n) \div Size
           r == Sn(n) % Size
<1>1. c \in Int /\ SnMod = Size * c
  BY Numbers, ModRange
<1>2. Sn(n) \in Int /\ q \in Int /\ n = SnMod * q + Sn(n)
  BY Numbers, ModRange DEF Sn
<1>3. p \in Int /\ r \in 0 .. Size - 1 /\ Sn(n) = Size * p + r
  BY <1>2, Numbers, ModRange
<1> HIDE DEF c, q, p, r
<1>4. SnMod * q = Size * (c * q)
  BY <1>1, <1>2, Numbers, SMT
<1>5. c * q \in Int
  BY <1>1, <1>2, SMT
<1> DEFINE k == c * q + p
<1>6. n = Size * k + r /\ k \in Int
  <2>1. Size * k = Size * (c * q) + Size * p
    BY <1>3, <1>5, Numbers, Distribute
  <2> QED
    BY <1>2, <1>3, <1>4, <1>5, <2>1, Numbers
<1> HIDE DEF k
<1>7. Size \in Nat /\ Size > 0 /\ r \in 0 .. Size - 1
  BY <1>3, Numbers
<1>8. n % Size = r
  BY <1>6, <1>7, Remainder
<1> QED
  BY <1>7, <1>8 DEF Slot, Slots, r

\* How far apart two MSDUs of one window are can be told from their slots.
LEMMA SlotDistance ==
  ASSUME NEW a \in Int, NEW b \in Int, a \in b .. b + Size - 1
  PROVE  (Slot(a) - Slot(b)) % Size = a - b
<1>1. Slot(a) = a % Size /\ Slot(b) = b % Size
  BY SlotIsRemainder
<1>2. ((a % Size) - (b % Size)) % Size = (a - b) % Size
  BY RemainderOfDifference, Numbers
<1> QED
  BY <1>1, <1>2, SmallRemainder, Numbers

\* Two MSDUs of one window do not share a slot.
LEMMA SlotIsOwn ==
  ASSUME NEW b \in Int, NEW a1 \in b .. b + Size - 1, NEW a2 \in b .. b + Size - 1,
         Slot(a1) = Slot(a2)
  PROVE  a1 = a2
  BY SlotDistance, Numbers

\* While less than half of the sequence space lies between two MSDUs, the
\* comparison of their numbers on the air is that of the MSDUs.
LEMMA SnOrder ==
  ASSUME NEW a \in Int, NEW b \in Int, 2 * (a - b) < SnMod, 2 * (b - a) < SnMod
  PROVE  /\ SnLess(Sn(a), Sn(b)) <=> a < b
         /\ Sn(a) = Sn(b) <=> a = b
         /\ a >= b => SnSub(Sn(a), Sn(b)) = a - b
<1>1. SnSub(Sn(a), Sn(b)) = (a - b) % SnMod
  BY RemainderOfDifference, Numbers DEF SnSub, Sn
<1>2. CASE a >= b
  <2>1. SnSub(Sn(a), Sn(b)) = a - b
    BY <1>1, <1>2, SmallRemainder, Numbers
  <2>2. a - b <= SnMod \div 2
    BY <1>2, Numbers, SMT
  <2>3. ~SnLess(Sn(a), Sn(b))
    BY <2>1, <2>2, <1>2, Numbers, SMT DEF SnLess
  <2>4. Sn(a) = Sn(b) => a - b = 0
    <3> HAVE Sn(a) = Sn(b)
    <3>1. Sn(a) \in Int
      BY ModRange, Numbers DEF Sn
    <3>2. SnSub(Sn(a), Sn(b)) = 0 % SnMod
      BY <3>1 DEF SnSub
    <3> QED
      BY <2>1, <3>2, SmallRemainder, Numbers
  <2> QED
    BY <1>2, <2>1, <2>3, <2>4
<1>3. CASE a < b
  <2>1. SnSub(Sn(a), Sn(b)) = a - b + SnMod
    BY <1>1, <1>3, SmallRemainder, Numbers
  <2>2. a - b + SnMod > SnMod \div 2
    BY <1>3, Numbers, SMT
  <2>3. SnLess(Sn(a), Sn(b))
    BY <2>1, <2>2, <1>3, Numbers, SMT DEF SnLess
  <2>4. Sn(a) # Sn(b)
    <3> SUFFICES ASSUME Sn(a) = Sn(b) PROVE FALSE
      OBVIOUS
    <3>1. Sn(a) \in Int
      BY ModRange, Numbers DEF Sn
    <3>2. SnSub(Sn(a), Sn(b)) = 0 % SnMod
      BY <3>1 DEF SnSub
    <3> QED
      BY <2>1, <3>2, <1>3, SmallRemainder, Numbers
  <2> QED
    BY <1>3, <2>3, <2>4
<1> QED
  BY <1>2, <1>3

\* Subtracting on the air.
LEMMA SnOfDifference ==
  ASSUME NEW n \in Int, NEW d \in Int
  PROVE  SnSub(Sn(n), d) = Sn(n - d)
  BY RemainderOfDifference, Numbers DEF SnSub, Sn

-----------------------------------------------------------------------------
(* The buffer, and what releasing does to it.                              *)

\* The type of a session.
TidType(t) ==
  t \in [head : Nat, buf : [Slots -> Msdus \cup {None}], started : {"no", "yes"},
         stopped : {"no", "yes"}]

\* The frames that wait in a session.
Waiting(t) == {t.buf[s] : s \in Slots} \ {None}

\* Every frame lies within the window, in the slot of its number.
InWindow(t) ==
  /\ TidType(t)
  /\ \A s \in Slots : t.buf[s] # None =>
       t.buf[s] \in t.head .. t.head + Size - 1 /\ Slot(t.buf[s]) = s

\* The frame that the head waits for is not there.
HeadMissing(t) == t.buf[Slot(t.head)] = None

\* A list of MSDUs, and their order.
Given(f) == {f[i] : i \in DOMAIN f} \ {None}

Ordered(f) ==
  /\ f \in Seq(Msdus \cup {-1, None})
  /\ \A i, j \in DOMAIN f : i < j /\ f[i] # None /\ f[j] # None => f[i] < f[j]

\* What a slot of the window holds.
LEMMA WindowSlot ==
  ASSUME NEW t, InWindow(t), NEW j \in 0 .. Size - 1, t.buf[Slot(t.head + j)] # None
  PROVE  t.buf[Slot(t.head + j)] = t.head + j
<1> DEFINE s == Slot(t.head + j)
<1>1. t.head \in Int /\ t.head + j \in t.head .. t.head + Size - 1 /\ Size \in Nat
  BY Numbers DEF InWindow, TidType
<1>2. s \in Slots
  BY <1>1, SlotIsRemainder
<1>3. t.buf[s] \in t.head .. t.head + Size - 1 /\ Slot(t.buf[s]) = Slot(t.head + j)
  BY <1>2 DEF InWindow
<1> QED
  BY <1>1, <1>3, SlotIsOwn

\* What waits lies at the head or further on.
LEMMA WaitingAhead ==
  ASSUME NEW t, InWindow(t), NEW m \in Waiting(t)
  PROVE  m \in Nat /\ t.head \in Nat /\ m >= t.head
<1>1. PICK s \in Slots : t.buf[s] = m /\ m # None
  BY DEF Waiting
<1>2. t.head \in Nat /\ m \in t.head .. t.head + Size - 1
  BY <1>1 DEF InWindow, TidType
<1> QED
  BY <1>2, Numbers

\* A release of k numbers, field by field, ...
LEMMA ReleaseNTid ==
  ASSUME NEW t, TidType(t), NEW k \in Nat
  PROVE  LET u == ReleaseN(t, k).tid
         IN  /\ TidType(u)
             /\ u.head = t.head + k /\ u.started = t.started /\ u.stopped = t.stopped
             /\ \A s \in Slots : u.buf[s] = IF (s - Slot(t.head)) % Size < k
                                            THEN None ELSE t.buf[s]
<1> DEFINE buf == [s \in Slots |-> IF (s - Slot(t.head)) % Size < k THEN None ELSE t.buf[s]]
           u == [head |-> t.head + k, buf |-> buf, started |-> t.started, stopped |-> t.stopped]
<1>1. ReleaseN(t, k).tid = u
  BY DEF ReleaseN, TidType
<1>2. buf \in [Slots -> Msdus \cup {None}]
  BY DEF TidType
<1>3. t.head + k \in Nat
  BY DEF TidType
<1>4. TidType(u)
  BY <1>2, <1>3 DEF TidType
<1> QED
  BY <1>1, <1>4

\* ... keeps the window ...
LEMMA ReleaseNWindow ==
  ASSUME NEW t, InWindow(t), NEW k \in Nat
  PROVE  InWindow(ReleaseN(t, k).tid)
<1> DEFINE u == ReleaseN(t, k).tid
<1>1. /\ TidType(u) /\ u.head = t.head + k
      /\ \A s \in Slots : u.buf[s] = IF (s - Slot(t.head)) % Size < k THEN None ELSE t.buf[s]
  BY ReleaseNTid DEF InWindow
<1> HIDE DEF u
<1>2. ASSUME NEW s \in Slots, u.buf[s] # None
      PROVE  u.buf[s] \in u.head .. u.head + Size - 1 /\ Slot(u.buf[s]) = s
  <2>1. u.buf[s] = t.buf[s] /\ ~((s - Slot(t.head)) % Size < k)
    BY <1>1, <1>2
  <2>2. t.head \in Nat /\ t.buf[s] \in t.head .. t.head + Size - 1 /\ Slot(t.buf[s]) = s
    BY <1>2, <2>1 DEF InWindow, TidType
  <2>3. (s - Slot(t.head)) % Size = t.buf[s] - t.head
    BY <2>2, SlotDistance, Numbers
  <2> QED
    BY <1>1, <2>1, <2>2, <2>3, Numbers
<1> QED
  BY <1>1, <1>2 DEF InWindow, u

\* ... and gives frames of the window, in order.
LEMMA ReleaseNFrames ==
  ASSUME NEW t, InWindow(t), NEW k \in Nat
  PROVE  LET f == ReleaseN(t, k).frames
         IN  Ordered(f) /\ Given(f) \subseteq Waiting(t) \cap (t.head .. t.head + k - 1)
<1> DEFINE n == IF k < Size THEN k ELSE Size
           f == [i \in 1 .. n |-> t.buf[Slot(t.head + i - 1)]]
<1>1. ReleaseN(t, k).frames = f
  BY DEF ReleaseN
<1>2. n \in Nat /\ n <= k /\ n <= Size /\ Size \in Nat
  BY Numbers
<1>3. t.head \in Nat
  BY DEF InWindow, TidType
<1>4. ASSUME NEW i \in 1 .. n
      PROVE  /\ f[i] \in Msdus \cup {None}
             /\ f[i] # None => f[i] = t.head + i - 1 /\ f[i] \in Waiting(t)
  <2> DEFINE s == Slot(t.head + i - 1)
  <2>1. i - 1 \in 0 .. Size - 1 /\ t.head + (i - 1) = t.head + i - 1 /\ t.head + i - 1 \in Int
    BY <1>2, <1>3
  <2>2. s \in Slots
    BY <2>1, SlotIsRemainder
  <2>3. t.buf[s] \in Msdus \cup {None}
    BY <2>2 DEF InWindow, TidType
  <2>4. t.buf[s] # None => t.buf[s] = t.head + i - 1
    <3>1. t.buf[Slot(t.head + (i - 1))] # None => t.buf[Slot(t.head + (i - 1))] = t.head + (i - 1)
      BY <2>1, WindowSlot
    <3> QED
      BY <3>1, <2>1
  <2> QED
    BY <2>2, <2>3, <2>4 DEF Waiting
<1>5. DOMAIN f = 1 .. n
  OBVIOUS
<1> HIDE DEF n
<1>6. f \in Seq(Msdus \cup {-1, None})
  <2>1. \A i \in 1 .. n : f[i] \in Msdus \cup {-1, None}
    BY <1>4
  <2> QED
    BY <1>2, <2>1
<1> HIDE DEF f
<1>7. Ordered(f)
  BY <1>2, <1>3, <1>4, <1>5, <1>6 DEF Ordered
<1>8. Given(f) \subseteq Waiting(t) \cap (t.head .. t.head + k - 1)
  BY <1>2, <1>3, <1>4, <1>5 DEF Given
<1> QED
  BY <1>1, <1>7, <1>8

\* What a release takes out of the buffer, it gives.
LEMMA ReleaseNKeeps ==
  ASSUME NEW t, InWindow(t), NEW k \in Nat
  PROVE  LET r == ReleaseN(t, k)
         IN  Waiting(t) \subseteq Waiting(r.tid) \cup Given(r.frames)
<1> DEFINE n == IF k < Size THEN k ELSE Size
           f == [i \in 1 .. n |-> t.buf[Slot(t.head + i - 1)]]
           u == ReleaseN(t, k).tid
<1>1. ReleaseN(t, k).frames = f
  BY DEF ReleaseN
<1>2. \A s \in Slots : u.buf[s] = IF (s - Slot(t.head)) % Size < k THEN None ELSE t.buf[s]
  BY ReleaseNTid DEF InWindow
<1> HIDE DEF u
<1>3. SUFFICES ASSUME NEW s \in Slots, t.buf[s] # None
               PROVE  t.buf[s] \in Waiting(u) \cup Given(f)
  BY <1>1 DEF Waiting, u
<1> DEFINE m == t.buf[s]
           i == m - t.head + 1
<1>4. t.head \in Nat /\ m \in t.head .. t.head + Size - 1 /\ Slot(m) = s /\ Size \in Nat
  BY <1>3, Numbers DEF InWindow, TidType
<1>5. (s - Slot(t.head)) % Size = m - t.head
  BY <1>4, SlotDistance
<1>6. CASE m - t.head < k
  <2>1. i \in 1 .. n /\ t.head + i - 1 = m
    BY <1>4, <1>6
  <2>2. f[i] = m
    BY <1>4, <2>1
  <2> QED
    BY <1>3, <2>1, <2>2 DEF Given
<1>7. CASE ~(m - t.head < k)
  <2>1. u.buf[s] = m
    BY <1>2, <1>5, <1>7
  <2> QED
    BY <1>3, <2>1 DEF Waiting
<1> QED
  BY <1>6, <1>7

\* A set of numbers has a least one.
LEMMA FirstNumber ==
  ASSUME NEW S \in SUBSET Nat, S # {}
  PROVE  \E m \in S : \A n \in S : m <= n
<1>1. PICK x \in S : \A y \in S : ~(<<y, x>> \in OpToRel(<, Nat))
  BY NatLessThanWellFounded, WFMin
<1>2. \A y \in S : <<y, x>> \in Nat \X Nat /\ ~(y < x)
  BY <1>1 DEF OpToRel
<1>3. \A y \in S : x <= y
  <2> SUFFICES ASSUME NEW y \in S PROVE x <= y
    OBVIOUS
  <2>1. x \in Nat /\ y \in Nat /\ ~(y < x)
    BY <1>2
  <2> QED
    BY <2>1
<1> QED
  BY <1>3

\* The loop of mt76_rx_aggr_release_head ends within the window.
LEMMA RunEnds ==
  ASSUME NEW t, NEW d \in Nat
  PROVE  /\ Run(t, d) \in 0 .. Size
         /\ \A i \in 0 .. Run(t, d) - 1 : Waits(t, d + i)
         /\ ~Waits(t, d + Run(t, d))
<1> DEFINE S == {k \in Nat : ~Waits(t, d + k)}
           IsRun(k) == (\A i \in 0 .. k - 1 : Waits(t, d + i)) /\ ~Waits(t, d + k)
<1>1. Size \in S
  BY Numbers DEF Waits
<1>2. PICK k \in S : \A n \in S : k <= n
  BY <1>1, FirstNumber
<1>3. k \in 0 .. Size
  BY <1>1, <1>2, Numbers
<1>4. IsRun(k)
  <2>1. ASSUME NEW i \in 0 .. k - 1 PROVE Waits(t, d + i)
    BY <1>2, <2>1
  <2> QED
    BY <1>2, <2>1
<1>5. Run(t, d) = CHOOSE n \in 0 .. Size : IsRun(n)
  BY DEF Run
<1>6. Run(t, d) \in 0 .. Size /\ IsRun(Run(t, d))
  BY <1>3, <1>4, <1>5
<1> QED
  BY <1>6

\* A release up to d numbers behind the head, and of the run behind that.
RunsTo(t, d, r) ==
  /\ InWindow(r.tid) /\ HeadMissing(r.tid)
  /\ r.tid.started = t.started /\ r.tid.stopped = t.stopped
  /\ Waiting(r.tid) \subseteq Waiting(t)
  /\ Waiting(t) \subseteq Waiting(r.tid) \cup Given(r.frames)
  /\ \/ r.tid.head = t.head + d
     \/ r.tid.head > t.head + d /\ r.tid.head - 1 \in Waiting(t)
  /\ Ordered(r.frames)
  /\ Given(r.frames) \subseteq Waiting(t) \cap (t.head .. r.tid.head - 1)

\* A release and the run behind it end in front of a missing frame.
LEMMA ReleaseRuns ==
  ASSUME NEW t, InWindow(t), NEW d \in Nat
  PROVE  RunsTo(t, d, ReleaseN(t, d + Run(t, d)))
<1> DEFINE run == Run(t, d)
           k == d + run
           r == ReleaseN(t, k)
           u == r.tid
<1>1. run \in 0 .. Size /\ (\A i \in 0 .. run - 1 : Waits(t, d + i)) /\ ~Waits(t, k)
  BY RunEnds
<1> HIDE DEF run
<1>2. k \in Nat /\ Size \in Nat /\ t.head \in Nat
  BY <1>1, Numbers DEF InWindow, TidType
<1> HIDE DEF k
<1>3. InWindow(u)
  BY <1>2, ReleaseNWindow
<1>4. Ordered(r.frames)
  BY <1>2, ReleaseNFrames
<1>12. Given(r.frames) \subseteq Waiting(t) \cap (t.head .. t.head + k - 1)
  BY <1>2, ReleaseNFrames
<1>13. Waiting(t) \subseteq Waiting(u) \cup Given(r.frames)
  BY <1>2, ReleaseNKeeps
<1>5. /\ u.head = t.head + k /\ u.started = t.started /\ u.stopped = t.stopped
      /\ \A s \in Slots : u.buf[s] = IF (s - Slot(t.head)) % Size < k THEN None ELSE t.buf[s]
  BY <1>2, ReleaseNTid DEF InWindow
<1> HIDE DEF r
<1>6. Waiting(u) \subseteq Waiting(t)
  BY <1>5 DEF Waiting
<1>7. HeadMissing(u)
  <2> DEFINE s == Slot(t.head + k)
  <2>1. s \in Slots
    BY <1>2, SlotIsRemainder
  <2>2. CASE k < Size
    <3>1. t.buf[s] = None
      BY <1>1, <2>2 DEF Waits
    <3> QED
      BY <1>5, <2>1, <3>1 DEF HeadMissing
  <2>3. CASE k >= Size
    <3>1. (s - Slot(t.head)) % Size < Size
      <4>1. s - Slot(t.head) \in Int
        BY <1>2, <2>1, SlotIsRemainder DEF Slots
      <4> QED
        BY <4>1, ModRange, Numbers
    <3>2. (s - Slot(t.head)) % Size \in Int
      <4>1. s - Slot(t.head) \in Int
        BY <1>2, <2>1, SlotIsRemainder DEF Slots
      <4> QED
        BY <4>1, ModRange, Numbers
    <3>3. (s - Slot(t.head)) % Size < k
      BY <1>2, <2>3, <3>1, <3>2
    <3> QED
      BY <1>5, <2>1, <3>3 DEF HeadMissing
  <2> QED
    BY <1>2, <2>2, <2>3
<1>8. k = d \/ (k > d /\ t.head + k - 1 \in Waiting(t))
  <2>1. CASE run = 0
    BY <2>1 DEF k
  <2>2. CASE run > 0
    <3>1. run - 1 \in 0 .. run - 1 /\ d + (run - 1) = k - 1 /\ k > d
      BY <1>1, <1>2, <2>2 DEF k
    <3>2. Waits(t, k - 1)
      BY <1>1, <3>1
    <3>3. k - 1 \in 0 .. Size - 1 /\ t.buf[Slot(t.head + (k - 1))] # None
      BY <1>2, <3>1, <3>2 DEF Waits
    <3>4. t.buf[Slot(t.head + (k - 1))] = t.head + (k - 1)
      BY <3>3, WindowSlot
    <3>5. Slot(t.head + (k - 1)) \in Slots
      BY <1>2, SlotIsRemainder
    <3>6. t.head + (k - 1) \in Waiting(t)
      BY <3>3, <3>4, <3>5 DEF Waiting
    <3>7. t.head + (k - 1) = t.head + k - 1
      BY <1>2
    <3> QED
      BY <3>1, <3>6, <3>7
  <2> QED
    BY <1>1, <2>1, <2>2
<1>9. u.head = t.head + d \/ (u.head > t.head + d /\ u.head - 1 \in Waiting(t))
  BY <1>2, <1>5, <1>8
<1>10. Given(r.frames) \subseteq Waiting(t) \cap (t.head .. u.head - 1)
  <2>1. u.head = t.head + k
    BY <1>5
  <2> QED
    BY <1>2, <1>12, <2>1
<1>11. RunsTo(t, d, r)
  BY <1>3, <1>4, <1>5, <1>6, <1>7, <1>9, <1>10, <1>13 DEF RunsTo
<1> QED
  BY <1>11 DEF r, k, run

-----------------------------------------------------------------------------
(* Lists of released frames.                                               *)

\* The last MSDU of an ordered list is the greatest of its MSDUs.
LEMMA LatestIsGiven ==
  ASSUME NEW f, Ordered(f), Given(f) # {}
  PROVE  Latest(f) \in Given(f) /\ \A m \in Given(f) : m <= Latest(f)
<1> DEFINE D == {i \in DOMAIN f : f[i] # None}
           B == {Len(f) - i : i \in D}
           IsLast(i) == f[i] # None /\ \A j \in DOMAIN f : f[j] # None => j <= i
<1>1. DOMAIN f = 1 .. Len(f) /\ Len(f) \in Nat
  BY DEF Ordered
<1>2. D # {} /\ D \subseteq 1 .. Len(f)
  BY <1>1 DEF Given
<1>3. B # {} /\ B \in SUBSET Nat
  BY <1>1, <1>2
<1>4. PICK m \in B : \A n \in B : m <= n
  BY <1>3, FirstNumber
<1>5. PICK i \in D : m = Len(f) - i
  BY <1>4
<1>6. ASSUME NEW j \in DOMAIN f, f[j] # None PROVE j <= i
  <2>1. j \in D /\ m <= Len(f) - j
    BY <1>4, <1>6
  <2> QED
    BY <1>1, <1>2, <1>5, <2>1
<1>7. i \in DOMAIN f /\ IsLast(i)
  BY <1>5, <1>6
<1>8. Latest(f) = f[CHOOSE n \in DOMAIN f : IsLast(n)]
  BY DEF Latest
<1>9. PICK n \in DOMAIN f : IsLast(n) /\ Latest(f) = f[n]
  BY <1>7, <1>8
<1>10. ASSUME NEW x \in Given(f) PROVE x <= Latest(f)
  <2>1. PICK j \in DOMAIN f : f[j] = x /\ x # None
    BY DEF Given
  <2>2. j <= n /\ f[n] # None
    BY <1>9, <2>1
  <2>3. j < n => f[j] < f[n]
    BY <2>1, <2>2 DEF Ordered
  <2>4. f[j] \in Int /\ f[n] \in Int
    <3>1. f[j] \in Msdus \cup {-1, None} /\ f[n] \in Msdus \cup {-1, None}
      BY DEF Ordered
    <3> QED
      BY <2>1, <2>2, <3>1, Numbers DEF Msdus
  <2> QED
    BY <1>1, <1>9, <2>1, <2>2, <2>3, <2>4
<1> QED
  BY <1>9, <1>10 DEF Given

\* Lists that follow each other.
LEMMA AppendOrdered ==
  ASSUME NEW f, NEW g, Ordered(f), Ordered(g), \A m \in Given(f), n \in Given(g) : m < n
  PROVE  Ordered(f \o g) /\ Given(f \o g) = Given(f) \cup Given(g)
<1> DEFINE h == f \o g
<1>1. /\ f \in Seq(Msdus \cup {-1, None}) /\ g \in Seq(Msdus \cup {-1, None})
      /\ DOMAIN f = 1 .. Len(f) /\ DOMAIN g = 1 .. Len(g) /\ Len(f) \in Nat /\ Len(g) \in Nat
  BY DEF Ordered
<1>2. /\ h \in Seq(Msdus \cup {-1, None}) /\ DOMAIN h = 1 .. Len(f) + Len(g)
      /\ \A i \in 1 .. Len(f) + Len(g) : h[i] = IF i <= Len(f) THEN f[i] ELSE g[i - Len(f)]
  BY <1>1
<1> HIDE DEF h
<1>3. ASSUME NEW i \in DOMAIN h, NEW j \in DOMAIN h, i < j, h[i] # None, h[j] # None
      PROVE  h[i] < h[j]
  <2>1. CASE j <= Len(f)
    <3>1. i \in DOMAIN f /\ j \in DOMAIN f /\ h[i] = f[i] /\ h[j] = f[j]
      BY <1>1, <1>2, <1>3, <2>1
    <3> QED
      BY <1>3, <3>1 DEF Ordered
  <2>2. CASE i > Len(f)
    <3>1. /\ i - Len(f) \in DOMAIN g /\ j - Len(f) \in DOMAIN g /\ i - Len(f) < j - Len(f)
          /\ h[i] = g[i - Len(f)] /\ h[j] = g[j - Len(f)]
      BY <1>1, <1>2, <1>3, <2>2
    <3> QED
      BY <1>3, <3>1 DEF Ordered
  <2>3. CASE i <= Len(f) /\ j > Len(f)
    <3>1. i \in DOMAIN f /\ j - Len(f) \in DOMAIN g /\ h[i] = f[i] /\ h[j] = g[j - Len(f)]
      BY <1>1, <1>2, <1>3, <2>3
    <3>2. h[i] \in Given(f) /\ h[j] \in Given(g)
      BY <1>3, <3>1 DEF Given
    <3> QED
      BY <3>2
  <2> QED
    BY <1>1, <1>2, <2>1, <2>2, <2>3
<1>4. Given(h) \subseteq Given(f) \cup Given(g)
  <2> SUFFICES ASSUME NEW i \in DOMAIN h, h[i] # None PROVE h[i] \in Given(f) \cup Given(g)
    BY DEF Given
  <2>1. CASE i <= Len(f)
    BY <1>1, <1>2, <2>1 DEF Given
  <2>2. CASE i > Len(f)
    <3>1. i - Len(f) \in DOMAIN g /\ h[i] = g[i - Len(f)]
      BY <1>1, <1>2, <2>2
    <3> QED
      BY <3>1 DEF Given
  <2> QED
    BY <1>1, <1>2, <2>1, <2>2
<1>5. Given(f) \subseteq Given(h)
  <2> SUFFICES ASSUME NEW i \in DOMAIN f, f[i] # None PROVE f[i] \in Given(h)
    BY DEF Given
  <2>1. i \in DOMAIN h /\ h[i] = f[i]
    BY <1>1, <1>2
  <2> QED
    BY <2>1 DEF Given
<1>6. Given(g) \subseteq Given(h)
  <2> SUFFICES ASSUME NEW i \in DOMAIN g, g[i] # None PROVE g[i] \in Given(h)
    BY DEF Given
  <2>1. Len(f) + i \in DOMAIN h /\ h[Len(f) + i] = g[i]
    BY <1>1, <1>2
  <2> QED
    BY <2>1 DEF Given
<1>7. Ordered(h)
  BY <1>2, <1>3 DEF Ordered
<1>8. Given(h) = Given(f) \cup Given(g)
  BY <1>4, <1>5, <1>6
<1> QED
  BY <1>7, <1>8 DEF h

\* A list of one MSDU, and an empty one.
LEMMA OneOrdered ==
  ASSUME NEW m \in Msdus \cup {-1}
  PROVE  Ordered(<<m>>) /\ Given(<<m>>) = {m}
<1>1. m # None
  BY AggRxAssumption DEF Msdus
<1>2. <<m>> \in Seq(Msdus \cup {-1, None}) /\ DOMAIN <<m>> = 1 .. 1 /\ <<m>>[1] = m
  OBVIOUS
<1>3. Given(<<m>>) = {m}
  BY <1>1, <1>2 DEF Given
<1>4. Ordered(<<m>>)
  BY <1>2 DEF Ordered
<1> QED
  BY <1>3, <1>4

LEMMA NoneOrdered == Ordered(<<>>) /\ Given(<<>>) = {}
<1>1. <<>> \in Seq(Msdus \cup {-1, None}) /\ DOMAIN <<>> = {}
  OBVIOUS
<1> QED
  BY <1>1 DEF Ordered, Given
-----------------------------------------------------------------------------
(* The inductive invariant of the numbers, in three parts.                 *)

\* The buffer, and how far the head and the originator are apart.
WindowInv ==
  /\ base \in Msdus /\ heard \in Nat /\ first \in Nat
  /\ aggr \in {"none", "live"} /\ session \in 0 .. MaxSessions
  /\ InWindow(tid) /\ HeadMissing(tid)
  /\ \A m \in Waiting(tid) : m < heard
  /\ base <= tid.head + Gap /\ tid.head <= base + Size /\ heard <= base + Size

\* The frame or block-ack request in the hand of the poller.
NapiInv ==
  /\ napi \in [pc : {"idle", "data", "bar"}, msdu : Msdus, saw : 0 .. MaxSessions]
  /\ napi.saw <= session
  /\ napi.pc = "data" => napi.msdu < heard
  /\ napi.pc = "bar" => napi.msdu <= base
  /\ napi.pc # "idle" => heard <= napi.msdu + Size
  /\ napi.pc # "idle" /\ napi.saw = session => tid.head <= napi.msdu + Size

\* What was released.
OutInv ==
  /\ Ordered(out) /\ Given(out) # {}
  /\ \A m \in Given(out) : m < tid.head /\ m < heard

OrderInv == WindowInv /\ NapiInv /\ OutInv

\* A critical section that moves the head on and releases a list: it loses no
\* frame of the buffer, and the head moves on behind a frame that is released,
\* or not beyond what the originator has done with.
Moves(list) ==
  /\ InWindow(tid') /\ HeadMissing(tid')
  /\ \A m \in Waiting(tid') : m < heard
  /\ Waiting(tid) \subseteq Waiting(tid') \cup Given(list)
  /\ tid.head <= tid'.head
  /\ tid'.started = tid.started \/ tid.head < heard
  /\ \/ tid'.head = tid.head
     \/ tid'.head - 1 \in Given(list)
     \/ tid'.head <= base /\ napi'.pc = "idle"
  /\ Ordered(list)
  /\ \A m \in Given(list) : tid.head <= m /\ m < tid'.head /\ m < heard
  /\ HandUp(list)
  /\ base' = base /\ heard' = heard /\ first' = first /\ aggr' = aggr /\ session' = session
  /\ napi' = napi \/ NapiDone

\* The list that a critical section hands up goes on in order.
LEMMA HandsUp ==
  ASSUME OrderInv, NEW list, Moves(list)
  PROVE  OutInv' /\ Given(out') = {Latest(out)} \cup Given(list)
<1> DEFINE l == Latest(out)
<1>1. /\ Ordered(out) /\ Given(out) # {} /\ \A m \in Given(out) : m < tid.head /\ m < heard
      /\ Given(out) \subseteq Msdus \cup {-1}
  <2>1. Ordered(out) /\ Given(out) # {} /\ \A m \in Given(out) : m < tid.head /\ m < heard
    BY DEF OrderInv, OutInv
  <2>2. out \in Seq(Msdus \cup {-1, None})
    BY <2>1 DEF Ordered
  <2>3. \A i \in DOMAIN out : out[i] \in Msdus \cup {-1, None}
    BY <2>2
  <2> QED
    BY <2>1, <2>3 DEF Given
<1>2. l \in Msdus \cup {-1} /\ l < tid.head /\ l < heard
  BY <1>1, LatestIsGiven
<1>3. /\ Ordered(list) /\ \A m \in Given(list) : tid.head <= m /\ m < tid'.head /\ m < heard
      /\ heard' = heard /\ tid.head <= tid'.head /\ out' = <<l>> \o list
      /\ tid.head \in Nat /\ tid'.head \in Nat
      /\ Given(list) \subseteq Int
  <2>1. Ordered(list) /\ InWindow(tid) /\ InWindow(tid')
    BY DEF Moves, OrderInv, WindowInv
  <2>2. list \in Seq(Msdus \cup {-1, None})
    BY <2>1 DEF Ordered
  <2>3. \A i \in DOMAIN list : list[i] \in Msdus \cup {-1, None}
    BY <2>2
  <2>4. Given(list) \subseteq Int
    BY <2>3, Numbers DEF Given, Msdus
  <2>5. tid.head \in Nat /\ tid'.head \in Nat
    BY <2>1 DEF InWindow, TidType
  <2> QED
    BY <2>4, <2>5 DEF Moves, HandUp
<1> HIDE DEF l
<1>4. Ordered(<<l>>) /\ Given(<<l>>) = {l} /\ l \in Int
  BY <1>2, OneOrdered, Numbers DEF Msdus
<1>5. \A m \in Given(<<l>>), n \in Given(list) : m < n
  BY <1>2, <1>3, <1>4
<1>6. Ordered(out') /\ Given(out') = {l} \cup Given(list)
  BY <1>3, <1>4, <1>5, AppendOrdered
<1>7. \A m \in Given(out') : m < tid'.head /\ m < heard'
  BY <1>2, <1>3, <1>4, <1>6
<1>8. OutInv'
  BY <1>6, <1>7 DEF OutInv, Ordered, Given
<1> QED
  BY <1>6, <1>8 DEF l

\* Such a critical section keeps the invariant.
LEMMA MovesKeeps ==
  ASSUME OrderInv, NEW list, Moves(list)
  PROVE  OrderInv'
<1> DEFINE now == tid'
<1>1. /\ tid.head \in Nat /\ now.head \in Nat /\ Size \in Nat /\ Gap \in Nat /\ base \in Nat
      /\ heard \in Nat
  BY Numbers DEF Moves, OrderInv, WindowInv, InWindow, TidType, Msdus
<1>4. now.head = tid.head \/ now.head <= heard \/ (now.head <= base /\ napi'.pc = "idle")
  <2>1. now.head - 1 \in Given(list) => now.head - 1 < heard
    BY DEF Moves
  <2> QED
    BY <1>1, <2>1 DEF Moves
<1>2. WindowInv'
  <2>1. now.head <= base + Size /\ base <= now.head + Gap
    BY <1>1, <1>4 DEF Moves, OrderInv, WindowInv
  <2>2. InWindow(tid)' /\ HeadMissing(tid)' /\ (\A m \in Waiting(tid) : m < heard)'
    BY DEF Moves, InWindow, TidType, HeadMissing, Waiting
  <2> QED
    BY <2>1, <2>2 DEF Moves, OrderInv, WindowInv
<1>3. NapiInv'
  <2>1. CASE NapiDone
    BY <2>1 DEF NapiDone, Moves, OrderInv, NapiInv
  <2>2. CASE napi' = napi
    <3>1. napi.pc # "idle" /\ napi.saw = session => now.head <= napi.msdu + Size
      BY <1>1, <1>4, <2>2, Numbers DEF Moves, OrderInv, NapiInv, Msdus
    <3> QED
      BY <2>2, <3>1 DEF Moves, OrderInv, NapiInv
  <2> QED
    BY <2>1, <2>2 DEF Moves
<1> QED
  BY <1>2, <1>3, HandsUp DEF OrderInv

-----------------------------------------------------------------------------
(* The actions keep the invariant.                                         *)

LEMMA OrderInit == Init => OrderInv
<1> SUFFICES ASSUME Init PROVE OrderInv
  OBVIOUS
<1> USE Numbers
<1>1. FirstMsdu \in Msdus /\ -1 \in Int
  BY DEF Msdus
<1>2. WindowInv
  <2>1. /\ tid.head = FirstMsdu /\ tid.buf = [s \in Slots |-> None]
        /\ tid.started = "no" /\ tid.stopped = "yes"
        /\ tid \in [head : {FirstMsdu}, buf : {[s \in Slots |-> None]}, started : {"no"},
                    stopped : {"yes"}]
    BY DEF Init, NewTid
  <2>2. TidType(tid)
    BY <2>1 DEF TidType
  <2>3. InWindow(tid) /\ Waiting(tid) = {}
    BY <2>1, <2>2 DEF InWindow, Waiting
  <2>4. HeadMissing(tid)
    BY <2>1, SlotIsRemainder DEF HeadMissing
  <2> QED
    BY <1>1, <2>1, <2>3, <2>4 DEF Init, WindowInv
<1>3. NapiInv
  BY <1>1 DEF Init, NapiInv
<1>4. OutInv
  <2>1. Ordered(<<-1>>) /\ Given(<<-1>>) = {-1}
    BY OneOrdered
  <2>2. out = <<-1>> /\ tid.head = FirstMsdu /\ heard = FirstMsdu
    BY DEF Init, NewTid
  <2> QED
    BY <2>1, <2>2 DEF OutInv
<1> QED
  BY <1>2, <1>3, <1>4 DEF OrderInv

\* Steps that leave the buffer, the head and the list alone.
LEMMA QuietStep ==
  ASSUME OrderInv, tid' = tid, out' = out, base' = base, heard' = heard, first' = first,
         aggr' \in {"none", "live"}, session' = session, napi' = napi \/ NapiDone
  PROVE  OrderInv'
<1>1. WindowInv'
  BY DEF OrderInv, WindowInv, InWindow, TidType, HeadMissing, Waiting
<1>2. NapiInv'
  BY DEF OrderInv, NapiInv, NapiDone
<1>3. OutInv'
  BY DEF OrderInv, OutInv, Ordered, Given
<1> QED
  BY <1>1, <1>2, <1>3 DEF OrderInv

LEMMA AdvanceOrder ==
  ASSUME OrderInv, Advance
  PROVE  OrderInv'
<1>1. /\ base' = base + 1 /\ base < MaxMsdu /\ base < tid.head + Gap
      /\ tid' = tid /\ out' = out /\ heard' = heard /\ first' = first /\ aggr' = aggr
      /\ session' = session /\ napi' = napi
  BY DEF Advance
<1>2. base \in Nat /\ tid.head \in Nat /\ heard \in Nat
  BY Numbers DEF OrderInv, WindowInv, InWindow, TidType, Msdus
<1>3. base' \in Msdus
  BY <1>1, Numbers DEF OrderInv, WindowInv, Msdus
<1>4. /\ base' <= tid.head + Gap /\ tid.head <= base' + Size /\ heard <= base' + Size
      /\ \A m \in Msdus : m <= base => m <= base'
  BY <1>1, <1>2, Numbers DEF OrderInv, WindowInv, Msdus
<1>5. InWindow(tid)' /\ HeadMissing(tid)' /\ (\A m \in Waiting(tid) : m < heard)'
  BY <1>1 DEF OrderInv, WindowInv, InWindow, TidType, HeadMissing, Waiting
<1>6. WindowInv'
  BY <1>1, <1>3, <1>4, <1>5 DEF OrderInv, WindowInv
<1>7. NapiInv'
  BY <1>1, <1>4 DEF OrderInv, NapiInv
<1>8. OutInv'
  BY <1>1 DEF OrderInv, OutInv, Ordered, Given
<1> QED
  BY <1>6, <1>7, <1>8 DEF OrderInv

LEMMA LookOrder ==
  ASSUME OrderInv, (\E n \in Msdus : NapiLook(n)) \/ NapiLookBar
  PROVE  OrderInv'
<1>1. PICK n \in Msdus :
        /\ \/ /\ napi' = [pc |-> "data", msdu |-> n, saw |-> session]
              /\ heard' = IF n < heard THEN heard ELSE n + 1
           \/ /\ napi' = [pc |-> "bar", msdu |-> n, saw |-> session]
              /\ heard' = heard /\ n = base
        /\ n \in base .. base + Size - 1
        /\ tid' = tid /\ out' = out /\ base' = base /\ first' = first /\ aggr' = aggr
        /\ session' = session
  <2>1. CASE NapiLookBar
    <3>1. base \in Msdus /\ base \in base .. base + Size - 1
      BY Numbers DEF OrderInv, WindowInv, Msdus
    <3> QED
      BY <2>1, <3>1 DEF NapiLookBar
  <2>2. CASE \E n \in Msdus : NapiLook(n)
    BY <2>2 DEF NapiLook
  <2> QED
    BY <2>1, <2>2
<1>2. base \in Nat /\ tid.head \in Nat /\ heard \in Nat /\ n \in Nat
  BY Numbers DEF OrderInv, WindowInv, InWindow, TidType, Msdus
<1>3. heard <= heard' /\ heard' \in Nat /\ heard' <= base + Size /\ heard' <= n + Size
  BY <1>1, <1>2, Numbers DEF OrderInv, WindowInv
<1>4. napi'.pc = "data" => n < heard'
  BY <1>1, <1>2
<1>5. tid.head <= n + Size
  BY <1>1, <1>2, Numbers DEF OrderInv, WindowInv
<1>6. InWindow(tid)' /\ HeadMissing(tid)'
  BY <1>1 DEF OrderInv, WindowInv, InWindow, TidType, HeadMissing
<1>7. (\A m \in Waiting(tid) : m < heard)'
  <2>1. Waiting(tid) \subseteq Nat
    BY Numbers DEF OrderInv, WindowInv, InWindow, TidType, Waiting, Msdus
  <2> QED
    BY <1>1, <1>2, <1>3, <2>1 DEF OrderInv, WindowInv, Waiting
<1>8. WindowInv'
  BY <1>1, <1>3, <1>6, <1>7 DEF OrderInv, WindowInv
<1>9. NapiInv'
  <2>1. session \in 0 .. MaxSessions
    BY DEF OrderInv, WindowInv
  <2>2. session <= session
    BY <2>1, Numbers
  <2>3. napi'.pc = "bar" => n <= base
    BY <1>1, <1>2
  <2>4. /\ napi' \in [pc : {"idle", "data", "bar"}, msdu : Msdus, saw : 0 .. MaxSessions]
        /\ napi'.msdu = n /\ napi'.saw = session
    BY <1>1, <2>1
  <2> QED
    BY <1>1, <1>3, <1>4, <1>5, <2>2, <2>3, <2>4 DEF NapiInv
<1>10. OutInv'
  <2>1. \A m \in Given(out) : m \in Int
    <3>1. out \in Seq(Msdus \cup {-1, None})
      BY DEF OrderInv, OutInv, Ordered
    <3>2. \A i \in DOMAIN out : out[i] \in Msdus \cup {-1, None}
      BY <3>1
    <3> QED
      BY <3>2, Numbers DEF Given, Msdus
  <2>2. \A m \in Given(out) : m < heard'
    BY <1>2, <1>3, <2>1 DEF OrderInv, OutInv
  <2> QED
    BY <1>1, <2>2 DEF OrderInv, OutInv, Ordered, Given
<1> QED
  BY <1>8, <1>9, <1>10 DEF OrderInv

\* Where a frame that the poller holds for the current session lies.
LEMMA NapiNear ==
  ASSUME OrderInv, napi.pc # "idle", ~SawStopped
  PROVE  /\ napi.msdu \in Nat /\ tid.head \in Nat /\ base \in Nat /\ heard \in Nat
         /\ tid.head <= napi.msdu + Size /\ napi.msdu <= tid.head + Gap + Size - 1
         /\ heard <= base + Size
         /\ napi.pc = "data" => napi.msdu < heard
         /\ napi.pc = "bar" => napi.msdu <= base
<1>1. napi.saw = session
  BY DEF SawStopped
<1>2. /\ napi.msdu \in Nat /\ tid.head \in Nat /\ base \in Nat /\ heard \in Nat
  BY Numbers DEF OrderInv, WindowInv, NapiInv, InWindow, TidType, Msdus
<1>3. napi.msdu <= base + Size - 1
  <2>1. CASE napi.pc = "data"
    BY <1>2, <2>1, Numbers DEF OrderInv, WindowInv, NapiInv
  <2>2. CASE napi.pc = "bar"
    BY <1>2, <2>2, Numbers DEF OrderInv, WindowInv, NapiInv
  <2> QED
    BY <2>1, <2>2 DEF OrderInv, NapiInv
<1>4. base <= tid.head + Gap /\ heard <= base + Size
  BY DEF OrderInv, WindowInv
<1>5. napi.msdu <= tid.head + Gap + Size - 1
  BY <1>2, <1>3, <1>4, Numbers
<1> QED
  BY <1>1, <1>2, <1>4, <1>5 DEF OrderInv, NapiInv

\* How far the head is behind a number that is near enough.
LEMMA BehindIs ==
  ASSUME NEW t, t.head \in Nat, NEW n \in Nat, n <= t.head + Gap + Size, t.head <= n + Size
  PROVE  Behind(t, Sn(n)) = IF t.head < n THEN n - t.head ELSE 0
<1>1. 2 * (n - t.head) < SnMod /\ 2 * (t.head - n) < SnMod
  BY Numbers
<1>2. SnLess(Sn(t.head), Sn(n)) <=> t.head < n
  BY <1>1, SnOrder
<1>3. n >= t.head => SnSub(Sn(n), Sn(t.head)) = n - t.head
  BY <1>1, SnOrder
<1>4. CASE t.head < n
  BY <1>2, <1>3, <1>4 DEF Behind
<1>5. CASE ~(t.head < n)
  BY <1>2, <1>5 DEF Behind
<1> QED
  BY <1>4, <1>5

\* A release for the poller or for reorder_work.
LEMMA RunsMoves ==
  ASSUME OrderInv, NEW d \in Nat, NEW r, RunsTo(tid, d, r), tid' = r.tid, HandUp(r.frames),
         d = 0 \/ tid.head + d \in Waiting(tid) \/ (tid.head + d <= base /\ napi'.pc = "idle"),
         base' = base, heard' = heard, first' = first, aggr' = aggr, session' = session,
         napi' = napi \/ NapiDone
  PROVE  Moves(r.frames)
<1>1. /\ tid.head \in Nat /\ r.tid.head \in Nat /\ heard \in Nat
      /\ Waiting(tid) \subseteq Nat /\ \A m \in Waiting(tid) : m < heard
  BY Numbers DEF OrderInv, WindowInv, InWindow, TidType, Waiting, Msdus, RunsTo
<1>2. /\ InWindow(tid') /\ HeadMissing(tid') /\ \A m \in Waiting(tid') : m < heard
      /\ tid'.started = tid.started
  BY <1>1 DEF RunsTo
<1>3. tid.head <= tid'.head
  BY <1>1 DEF RunsTo
<1>4. Waiting(tid) \subseteq Waiting(tid') \cup Given(r.frames)
  BY DEF RunsTo
<1>5. Ordered(r.frames) /\ \A m \in Given(r.frames) : tid.head <= m /\ m < tid'.head /\ m < heard
  BY <1>1 DEF RunsTo
<1>6. \/ tid'.head = tid.head
      \/ tid'.head - 1 \in Given(r.frames)
      \/ tid'.head <= base /\ napi'.pc = "idle"
  <2>1. CASE r.tid.head = tid.head + d
    <3>1. tid.head + d \notin Waiting(tid) \/ d = 0
      <4> SUFFICES ASSUME tid.head + d \in Waiting(tid) PROVE FALSE
        OBVIOUS
      <4>1. tid.head + d \in Waiting(tid')
        <5>1. tid.head + d \notin Given(r.frames)
          BY <1>1, <1>5, <2>1
        <5> QED
          BY <1>4, <5>1
      <4>2. PICK s \in Slots : tid'.buf[s] = tid'.head /\ tid'.head # None
        BY <2>1, <4>1 DEF Waiting
      <4>3. Slot(tid'.head) = s
        BY <1>2, <4>2 DEF InWindow
      <4> QED
        BY <1>2, <4>2, <4>3 DEF HeadMissing
    <3> QED
      BY <1>1, <2>1, <3>1
  <2>2. CASE r.tid.head - 1 \in Waiting(tid)
    <3>1. tid'.head - 1 \notin Waiting(tid')
      BY <1>2, WaitingAhead
    <3> QED
      BY <1>4, <2>2, <3>1
  <2> QED
    BY <2>1, <2>2 DEF RunsTo
<1> QED
  BY <1>2, <1>3, <1>4, <1>5, <1>6 DEF Moves

LEMMA BarMoves ==
  ASSUME OrderInv, NapiBar, ~SawStopped
  PROVE  \E list : Moves(list)
<1> DEFINE n == napi.msdu
           d == Behind(tid, Sn(n))
           r == ReleaseN(tid, d + Run(tid, d))
<1>1. /\ n \in Nat /\ tid.head \in Nat /\ base \in Nat /\ n <= base
      /\ n <= tid.head + Gap + Size /\ tid.head <= n + Size
  BY NapiNear, Numbers DEF NapiBar
<1>2. d = IF tid.head < n THEN n - tid.head ELSE 0
  BY <1>1, BehindIs
<1>3. d \in Nat /\ (d = 0 \/ tid.head + d <= base)
  BY <1>1, <1>2
<1>4. tid' = r.tid /\ HandUp(r.frames)
  BY DEF NapiBar, ReleaseTo
<1>5. RunsTo(tid, d, r)
  BY <1>3, ReleaseRuns DEF OrderInv, WindowInv
<1> HIDE DEF d, r
<1>6. /\ base' = base /\ heard' = heard /\ first' = first /\ aggr' = aggr
      /\ session' = session /\ NapiDone
  BY DEF NapiBar
<1>7. napi'.pc = "idle"
  BY <1>6 DEF NapiDone, OrderInv, NapiInv
<1>8. Moves(r.frames)
  BY <1>3, <1>4, <1>5, <1>6, <1>7, RunsMoves
<1> QED
  BY <1>8

LEMMA WorkMoves ==
  ASSUME OrderInv, NEW expired \in SUBSET Buffered, WorkRelease(expired)
  PROVE  \E list : Moves(list)
<1> DEFINE late == CHOOSE m \in expired : \A n \in expired : n <= m
           d == IF expired = {} THEN 0 ELSE Behind(tid, Sn(late))
           r == ReleaseN(tid, d + Run(tid, d))
<1>1. CheckRelease(tid, expired) = r
  <2>1. CASE expired = {}
    <3>1. \A m \in 0 .. Size : 0 + m = m
      BY Numbers
    <3>2. 0 + Run(tid, 0) = Run(tid, 0)
      BY <3>1, RunEnds
    <3> QED
      BY <2>1, <3>2 DEF CheckRelease, ReleaseHead
  <2>2. CASE expired # {}
    BY <2>2 DEF CheckRelease, ReleaseTo
  <2> QED
    BY <2>1, <2>2
<1>2. d \in Nat /\ (d = 0 \/ tid.head + d \in Waiting(tid))
  <2>1. CASE expired = {}
    BY <2>1
  <2>2. CASE expired # {}
    <3>1. late \in Waiting(tid)
      <4>1. expired \subseteq Waiting(tid) /\ Waiting(tid) \subseteq Msdus
        BY DEF Buffered, Waiting, OrderInv, WindowInv, InWindow, TidType
      <4>2. \E m \in expired : \A n \in expired : n <= m
        <5> DEFINE B == {MaxMsdu - m : m \in expired}
        <5>1. B # {} /\ B \in SUBSET Nat
          BY <2>2, <4>1, Numbers DEF Msdus
        <5>2. PICK b \in B : \A n \in B : b <= n
          BY <5>1, FirstNumber
        <5>3. PICK m \in expired : b = MaxMsdu - m
          BY <5>2
        <5>4. ASSUME NEW n \in expired PROVE n <= m
          <6>1. b <= MaxMsdu - n /\ m \in Int /\ n \in Int
            BY <5>2, <4>1, Numbers DEF Msdus
          <6> QED
            BY <5>3, <6>1, Numbers
        <5> QED
          BY <5>4
      <4> QED
        BY <4>1, <4>2
    <3>2. PICK s \in Slots : late = tid.buf[s] /\ tid.buf[s] # None
      BY <3>1 DEF Waiting
    <3>3. /\ tid.head \in Nat /\ late \in tid.head .. tid.head + Size - 1
          /\ late < heard /\ heard \in Nat
      BY <3>1, <3>2 DEF OrderInv, WindowInv, InWindow, TidType
    <3>4. late \in Nat /\ late <= tid.head + Gap + Size /\ tid.head <= late + Size
      BY <3>3, Numbers
    <3> HIDE DEF late
    <3>5. Behind(tid, Sn(late)) = IF tid.head < late THEN late - tid.head ELSE 0
      BY <3>3, <3>4, BehindIs
    <3>6. d = late - tid.head /\ tid.head + d = late /\ d \in Nat
      BY <2>2, <3>3, <3>4, <3>5
    <3> QED
      BY <3>1, <3>6
  <2> QED
    BY <2>1, <2>2
<1> HIDE DEF d
<1>3. RunsTo(tid, d, r)
  BY <1>2, ReleaseRuns DEF OrderInv, WindowInv
<1>4. /\ tid' = r.tid /\ HandUp(r.frames) /\ base' = base /\ heard' = heard /\ first' = first
      /\ aggr' = aggr /\ session' = session /\ napi' = napi
  BY <1>1 DEF WorkRelease
<1> HIDE DEF r
<1>5. Moves(r.frames)
  BY <1>2, <1>3, <1>4, RunsMoves
<1> QED
  BY <1>5

\* The session record when fields of it are changed.
LEMMA TidFields ==
  ASSUME NEW t, TidType(t)
  PROVE  t \in [head : {t.head}, buf : {t.buf}, started : {t.started}, stopped : {t.stopped}]
  BY DEF TidType

\* The session with its head one further, and marked as started.
LEMMA AheadTid ==
  ASSUME NEW t, TidType(t)
  PROVE  LET u == [t EXCEPT !.head = @ + 1, !.started = "yes"]
         IN  /\ TidType(u) /\ u.head = t.head + 1 /\ u.buf = t.buf
             /\ u.stopped = t.stopped
<1> DEFINE u == [t EXCEPT !.head = @ + 1, !.started = "yes"]
<1>1. t \in [head : {t.head}, buf : {t.buf}, started : {t.started}, stopped : {t.stopped}]
  BY TidFields
<1>2. /\ u \in [head : {u.head}, buf : {u.buf}, started : {u.started}, stopped : {u.stopped}]
      /\ u.head = t.head + 1 /\ u.buf = t.buf /\ u.started = "yes" /\ u.stopped = t.stopped
  BY <1>1
<1> HIDE DEF u
<1>3. u.head \in Nat /\ u.buf \in [Slots -> Msdus \cup {None}] /\ u.stopped \in {"no", "yes"}
  BY <1>2 DEF TidType
<1>4. TidType(u)
  BY <1>2, <1>3 DEF TidType
<1> QED
  BY <1>2, <1>4 DEF u

LEMMA StartedType ==
  ASSUME NEW t, TidType(t)
  PROVE  LET u == [t EXCEPT !.started = "yes"]
         IN  TidType(u) /\ u.head = t.head /\ u.buf = t.buf /\ u.stopped = t.stopped
  BY DEF TidType

LEMMA FiledType ==
  ASSUME NEW t, TidType(t), NEW s \in Slots, NEW n \in Msdus
  PROVE  LET u == [t EXCEPT !.buf[s] = n]
         IN  /\ TidType(u) /\ u.head = t.head
             /\ \A q \in Slots : u.buf[q] = IF q = s THEN n ELSE t.buf[q]
  BY DEF TidType

LEMMA InOrderMoves ==
  ASSUME OrderInv, NapiInOrder
  PROVE  \E list : Moves(list) /\ napi.msdu \in Given(list)
<1> DEFINE n == napi.msdu
           t == [tid EXCEPT !.head = @ + 1, !.started = "yes"]
           r == ReleaseN(t, 0 + Run(t, 0))
<1>1. napi.pc = "data" /\ ~SawStopped /\ Sn(n) = Sn(tid.head)
  BY DEF NapiInOrder
<1>2. /\ n \in Nat /\ tid.head \in Nat /\ heard \in Nat /\ n < heard
      /\ n <= tid.head + Gap + Size - 1 /\ tid.head <= n + Size
  BY <1>1, NapiNear
<1>3. n = tid.head
  <2>1. 2 * (n - tid.head) < SnMod /\ 2 * (tid.head - n) < SnMod
    BY <1>2, Numbers
  <2> QED
    BY <1>1, <1>2, <2>1, SnOrder
<1>4. TidType(tid) /\ HeadMissing(tid) /\ InWindow(tid)
  BY DEF OrderInv, WindowInv, InWindow
<1>5. t.head = tid.head + 1 /\ t.buf = tid.buf
  BY <1>4, AheadTid
<1>6. TidType(t) /\ Waiting(t) = Waiting(tid)
  BY <1>4, <1>5, AheadTid DEF Waiting
<1>7. InWindow(t)
  <2>1. ASSUME NEW s \in Slots, t.buf[s] # None
        PROVE  t.buf[s] \in t.head .. t.head + Size - 1 /\ Slot(t.buf[s]) = s
    <3>1. t.buf[s] = tid.buf[s]
      BY <1>5
    <3>2. tid.buf[s] \in tid.head .. tid.head + Size - 1 /\ Slot(tid.buf[s]) = s
      BY <1>4, <2>1, <3>1 DEF InWindow
    <3>3. tid.buf[s] # tid.head
      BY <1>4, <2>1, <3>1, <3>2 DEF HeadMissing
    <3>4. tid.buf[s] \in Nat /\ Size \in Nat
      BY <1>2, <3>2, Numbers
    <3>5. tid.buf[s] \in tid.head + 1 .. tid.head + 1 + Size - 1
      BY <1>2, <3>2, <3>3, <3>4
    <3> QED
      BY <1>5, <3>1, <3>2, <3>5
  <2> QED
    BY <1>6, <2>1 DEF InWindow
<1> HIDE DEF t
<1>8. RunsTo(t, 0, r)
  BY <1>7, ReleaseRuns
<1>9. r = ReleaseHead(t)
  <2>1. Run(t, 0) \in 0 .. Size
    BY RunEnds
  <2>2. 0 + Run(t, 0) = Run(t, 0)
    BY <2>1, Numbers
  <2> QED
    BY <2>2 DEF ReleaseHead
<1>10. /\ tid' = r.tid /\ HandUp(<<n>> \o r.frames) /\ base' = base /\ heard' = heard
       /\ first' = first /\ aggr' = aggr /\ session' = session /\ NapiDone
  BY <1>9 DEF NapiInOrder, t
<1> HIDE DEF r
<1>11. /\ Ordered(r.frames) /\ Given(r.frames) \subseteq Waiting(tid)
       /\ Given(r.frames) \subseteq t.head .. r.tid.head - 1 /\ r.tid.head \in Nat
       /\ Waiting(tid) \subseteq Nat /\ \A m \in Waiting(tid) : m < heard
       /\ InWindow(r.tid) /\ HeadMissing(r.tid) /\ Waiting(r.tid) \subseteq Waiting(tid)
       /\ Waiting(tid) \subseteq Waiting(r.tid) \cup Given(r.frames)
       /\ \/ r.tid.head = t.head + 0
          \/ r.tid.head > t.head + 0 /\ r.tid.head - 1 \in Waiting(tid)
  <2>1. Waiting(tid) \subseteq Nat
    BY <1>4, Numbers DEF TidType, Waiting, Msdus
  <2>2. \A m \in Waiting(tid) : m < heard
    BY DEF OrderInv, WindowInv
  <2>3. r.tid.head \in Nat
    BY <1>8 DEF RunsTo, InWindow, TidType
  <2> QED
    BY <1>6, <1>8, <2>1, <2>2, <2>3 DEF RunsTo
<1>12. Ordered(<<n>>) /\ Given(<<n>>) = {n}
  <2>1. n \in Msdus
    BY DEF OrderInv, NapiInv
  <2> QED
    BY <2>1, OneOrdered
<1>13. \A a \in Given(<<n>>), b \in Given(r.frames) : a < b
  BY <1>2, <1>3, <1>5, <1>11, <1>12
<1> DEFINE list == <<n>> \o r.frames
<1>14. Ordered(list) /\ Given(list) = {n} \cup Given(r.frames)
  BY <1>11, <1>12, <1>13, AppendOrdered
<1> HIDE DEF list
<1>15. \A m \in Given(list) : tid.head <= m /\ m < r.tid.head /\ m < heard
  BY <1>2, <1>3, <1>5, <1>11, <1>14
<1>16. tid.head <= r.tid.head /\ r.tid.head - 1 \in Given(list)
  <2>1. CASE r.tid.head = t.head + 0
    BY <1>2, <1>3, <1>5, <1>14, <2>1
  <2>2. CASE r.tid.head > t.head + 0 /\ r.tid.head - 1 \in Waiting(tid)
    <3>1. r.tid.head - 1 \notin Waiting(r.tid)
      BY <1>11, WaitingAhead
    <3> QED
      BY <1>2, <1>5, <1>11, <1>14, <2>2, <3>1
  <2> QED
    BY <1>11, <2>1, <2>2
<1>17. Moves(list) /\ n \in Given(list)
  BY <1>2, <1>3, <1>10, <1>11, <1>14, <1>15, <1>16 DEF Moves, list
<1> QED
  BY <1>17

\* NapiStore makes room: the frame lies in the window that begins at r's head.
HasRoom(n, r) ==
  /\ InWindow(r.tid) /\ Waiting(r.tid) \subseteq Waiting(tid)
  /\ Waiting(tid) \subseteq Waiting(r.tid) \cup Given(r.frames)
  /\ tid.head <= r.tid.head /\ r.tid.head <= n /\ n <= r.tid.head + Size - 1
  /\ r.tid.head = tid.head \/ r.tid.head = n - (Size - 1)
  /\ HeadMissing(r.tid) \/ r.tid.buf[Slot(n)] = None
  /\ Ordered(r.frames) /\ Given(r.frames) \subseteq Waiting(tid) \cap (tid.head .. r.tid.head - 1)

\* NapiStore when the frame lies in the window already ...
LEMMA RoomAlready ==
  ASSUME NEW t, InWindow(t), HeadMissing(t), t.head = tid.head, Waiting(t) = Waiting(tid),
         NEW n \in Nat, tid.head < n, n < tid.head + Size,
         NEW r, r.tid = t, r.frames = <<>>
  PROVE  HasRoom(n, r)
<1>1. t.head \in Nat
  BY DEF InWindow, TidType
<1>2. n <= t.head + Size - 1 /\ t.head <= n /\ tid.head <= t.head
  BY <1>1, Numbers
<1> QED
  BY <1>2, NoneOrdered DEF HasRoom

\* ... and when it lies beyond.
LEMMA RoomMade ==
  ASSUME NEW t, InWindow(t), t.head = tid.head, Waiting(t) = Waiting(tid),
         NEW n \in Nat, NEW d \in Nat, d > 0, d = n - (Size - 1) - tid.head,
         NEW r, r = ReleaseN(t, d)
  PROVE  HasRoom(n, r)
<1>1. t.head \in Nat /\ TidType(t)
  BY DEF InWindow, TidType
<1>2. InWindow(r.tid) /\ Ordered(r.frames)
  BY ReleaseNWindow, ReleaseNFrames
<1>3. Given(r.frames) \subseteq Waiting(t) \cap (t.head .. t.head + d - 1)
  BY ReleaseNFrames
<1>4. /\ r.tid.head = t.head + d
      /\ \A s \in Slots : r.tid.buf[s] # None => r.tid.buf[s] = t.buf[s]
  BY <1>1, ReleaseNTid
<1>5. r.tid.head = n - (Size - 1) /\ r.tid.head \in Nat
  BY <1>1, <1>4, Numbers
<1>6. Waiting(r.tid) \subseteq Waiting(tid)
  BY <1>4 DEF Waiting
<1>7. r.tid.buf[Slot(n)] = None
  <2> SUFFICES ASSUME r.tid.buf[Slot(n)] # None PROVE FALSE
    OBVIOUS
  <2> DEFINE m == r.tid.buf[Slot(n)]
  <2>1. Slot(n) \in Slots
    BY SlotIsRemainder
  <2>2. m \in r.tid.head .. r.tid.head + Size - 1 /\ Slot(m) = Slot(n)
    BY <1>2, <2>1 DEF InWindow
  <2>3. n \in r.tid.head .. r.tid.head + Size - 1
    BY <1>5, Numbers
  <2>4. m = n
    BY <1>5, <2>2, <2>3, SlotIsOwn
  <2>5. t.buf[Slot(n)] = n
    BY <1>4, <2>1, <2>4
  <2>6. n # None
    BY AggRxAssumption
  <2>7. n \in t.head .. t.head + Size - 1
    BY <2>1, <2>5, <2>6 DEF InWindow
  <2> QED
    BY <1>1, <2>7, Numbers
<1>8. Given(r.frames) \subseteq Waiting(tid) \cap (tid.head .. r.tid.head - 1)
  BY <1>1, <1>3, <1>4
<1>9. tid.head <= r.tid.head /\ r.tid.head <= n /\ n <= r.tid.head + Size - 1
  BY <1>1, <1>5, Numbers
<1>10. Waiting(tid) \subseteq Waiting(r.tid) \cup Given(r.frames)
  BY ReleaseNKeeps
<1> QED
  BY <1>2, <1>5, <1>6, <1>7, <1>8, <1>9, <1>10 DEF HasRoom

\* Dropping the frame, or filing it and running on from the head.
LEMMA FileMoves ==
  ASSUME OrderInv, NEW n, n = napi.msdu, napi.pc = "data", ~SawStopped,
         NEW r, HasRoom(n, r), FileFrame(n, r),
         base' = base, heard' = heard, first' = first, aggr' = aggr, session' = session,
         NapiDone
  PROVE  \E list : Moves(list) /\ (n \in Given(list) \/ n \in Waiting(tid'))
<1>1. /\ n \in Nat /\ tid.head \in Nat /\ heard \in Nat /\ n < heard
      /\ base \in Nat /\ heard <= base + Size
  BY NapiNear
<1>2. /\ InWindow(r.tid) /\ r.tid.head \in Nat
      /\ Waiting(r.tid) \subseteq Waiting(tid)
      /\ Waiting(tid) \subseteq Waiting(r.tid) \cup Given(r.frames)
      /\ tid.head <= r.tid.head /\ r.tid.head <= n /\ n <= r.tid.head + Size - 1
      /\ HeadMissing(r.tid) \/ r.tid.buf[Slot(n)] = None
      /\ Ordered(r.frames) /\ Given(r.frames) \subseteq Waiting(tid)
      /\ Given(r.frames) \subseteq tid.head .. r.tid.head - 1
  BY DEF HasRoom, InWindow, TidType
<1>6. r.tid.head = tid.head \/ (r.tid.head <= base /\ napi'.pc = "idle")
  <2>1. r.tid.head = tid.head \/ r.tid.head = n - (Size - 1)
    BY DEF HasRoom
  <2>2. napi'.pc = "idle"
    BY DEF NapiDone, OrderInv, NapiInv
  <2> QED
    BY <1>1, <2>1, <2>2, Numbers
<1>7. tid.head < heard
  BY <1>1, <1>2
<1>3. Waiting(tid) \subseteq Nat /\ \A m \in Waiting(tid) : m < heard
  <2>1. TidType(tid)
    BY DEF OrderInv, WindowInv, InWindow
  <2>2. Waiting(tid) \subseteq Nat
    BY <2>1, Numbers DEF TidType, Waiting, Msdus
  <2> QED
    BY <2>2 DEF OrderInv, WindowInv
<1>4. CASE r.tid.buf[Slot(n)] # None /\ tid' = r.tid /\ HandUp(r.frames)
  <2>1. HeadMissing(tid') /\ InWindow(tid') /\ \A m \in Waiting(tid') : m < heard
    BY <1>2, <1>3, <1>4
  <2>2. tid.head <= tid'.head /\ (tid'.head = tid.head \/ (tid'.head <= base /\ napi'.pc = "idle"))
    BY <1>2, <1>4, <1>6
  <2>3. \A m \in Given(r.frames) : tid.head <= m /\ m < tid'.head /\ m < heard
    BY <1>1, <1>2, <1>3, <1>4
  <2>4. Moves(r.frames)
    BY <1>2, <1>4, <1>7, <2>1, <2>2, <2>3 DEF Moves
  <2>5. n \in Waiting(r.tid)
    <3>1. n \in r.tid.head .. r.tid.head + Size - 1 /\ Slot(n) \in Slots
      BY <1>1, <1>2, SlotIsRemainder, Numbers
    <3>2. /\ r.tid.buf[Slot(n)] \in r.tid.head .. r.tid.head + Size - 1
          /\ Slot(r.tid.buf[Slot(n)]) = Slot(n)
      BY <1>2, <1>4, <3>1 DEF InWindow
    <3>3. r.tid.buf[Slot(n)] = n
      BY <1>2, <3>1, <3>2, SlotIsOwn
    <3> QED
      BY <1>4, <3>1, <3>3 DEF Waiting
  <2> QED
    BY <1>4, <2>4, <2>5
<1>5. CASE /\ r.tid.buf[Slot(n)] = None
           /\ LET q == ReleaseHead([r.tid EXCEPT !.buf[Slot(n)] = n])
              IN  tid' = q.tid /\ HandUp(r.frames \o q.frames)
  <2> DEFINE t == [r.tid EXCEPT !.buf[Slot(n)] = n]
             q == ReleaseN(t, 0 + Run(t, 0))
             list == r.frames \o q.frames
  <2>1. n \in Msdus /\ Slot(n) \in Slots /\ TidType(r.tid)
    BY <1>1, <1>2, SlotIsRemainder DEF OrderInv, NapiInv, InWindow
  <2>2. /\ TidType(t) /\ t.head = r.tid.head
        /\ \A s \in Slots : t.buf[s] = IF s = Slot(n) THEN n ELSE r.tid.buf[s]
    BY <2>1, FiledType
  <2>3. q = ReleaseHead(t)
    <3>1. Run(t, 0) \in 0 .. Size
      BY RunEnds
    <3>2. 0 + Run(t, 0) = Run(t, 0)
      BY <3>1, Numbers
    <3> QED
      BY <3>2 DEF ReleaseHead
  <2>4. tid' = q.tid /\ HandUp(list)
    BY <1>5, <2>3
  <2> HIDE DEF t
  <2>5. InWindow(t)
    <3>1. n \in t.head .. t.head + Size - 1
      BY <1>1, <1>2, <2>2, Numbers
    <3>2. ASSUME NEW s \in Slots, t.buf[s] # None
          PROVE  t.buf[s] \in t.head .. t.head + Size - 1 /\ Slot(t.buf[s]) = s
      <4>1. CASE s = Slot(n)
        BY <2>2, <3>1, <4>1
      <4>2. CASE s # Slot(n)
        BY <1>2, <2>2, <3>2, <4>2 DEF InWindow
      <4> QED
        BY <4>1, <4>2
    <3> QED
      BY <2>2, <3>2 DEF InWindow
  <2>6. Waiting(t) \subseteq Waiting(tid) \cup {n}
    <3>1. Waiting(t) \subseteq Waiting(r.tid) \cup {n}
      BY <2>2 DEF Waiting
    <3> QED
      BY <1>2, <3>1
  <2>7. RunsTo(t, 0, q)
    BY <2>5, ReleaseRuns
  <2> HIDE DEF q
  <2>8. /\ InWindow(q.tid) /\ HeadMissing(q.tid) /\ Waiting(q.tid) \subseteq Waiting(t)
        /\ \/ q.tid.head = t.head + 0
           \/ q.tid.head > t.head + 0 /\ q.tid.head - 1 \in Waiting(t)
        /\ Ordered(q.frames) /\ Given(q.frames) \subseteq Waiting(t)
        /\ Given(q.frames) \subseteq t.head .. q.tid.head - 1 /\ q.tid.head \in Nat
        /\ Waiting(t) \subseteq Waiting(q.tid) \cup Given(q.frames)
    <3>1. InWindow(q.tid)
      BY <2>7 DEF RunsTo
    <3>2. q.tid.head \in Nat
      BY <3>1 DEF InWindow, TidType
    <3> QED
      BY <2>7, <3>2 DEF RunsTo
  <2>9. \A m \in Waiting(t) : m \in Nat /\ m < heard
    BY <1>1, <1>3, <2>6
  <2>10. r.tid.head <= q.tid.head /\ q.tid.head <= heard /\ tid.head <= q.tid.head
    BY <1>1, <1>2, <2>2, <2>8, <2>9
  <2>11. \A a \in Given(r.frames), b \in Given(q.frames) : a < b
    BY <1>1, <1>2, <2>2, <2>8
  <2>12. Ordered(list) /\ Given(list) = Given(r.frames) \cup Given(q.frames)
    BY <1>2, <2>8, <2>11, AppendOrdered
  <2> HIDE DEF list
  <2>13. ASSUME NEW m \in Given(list)
         PROVE  tid.head <= m /\ m < q.tid.head /\ m < heard
    <3>1. CASE m \in Given(r.frames)
      BY <1>1, <1>2, <1>3, <2>8, <2>10, <3>1
    <3>2. CASE m \in Given(q.frames)
      BY <1>1, <1>2, <2>2, <2>8, <2>9, <3>2
    <3> QED
      BY <2>12, <3>1, <3>2
  <2>14. Waiting(tid) \cup {n} \subseteq Waiting(q.tid) \cup Given(list)
    <3>1. Waiting(r.tid) \cup {n} \subseteq Waiting(t)
      <4>1. n # None /\ t.buf[Slot(n)] = n
        BY <1>1, <2>1, <2>2, AggRxAssumption
      <4>2. ASSUME NEW s \in Slots, r.tid.buf[s] # None PROVE t.buf[s] = r.tid.buf[s]
        BY <1>5, <2>2, <4>2
      <4> QED
        BY <2>1, <4>1, <4>2 DEF Waiting
    <3> QED
      BY <1>2, <2>8, <2>12, <3>1
  <2>15. \/ q.tid.head = tid.head
         \/ q.tid.head - 1 \in Given(list)
         \/ q.tid.head <= base /\ napi'.pc = "idle"
    <3>1. CASE q.tid.head = t.head + 0
      BY <1>2, <1>6, <2>2, <3>1
    <3>2. CASE q.tid.head - 1 \in Waiting(t)
      <4>1. q.tid.head - 1 \notin Waiting(q.tid)
        BY <2>8, WaitingAhead
      <4> QED
        BY <2>8, <2>12, <3>2, <4>1
    <3> QED
      BY <2>8, <3>1, <3>2
  <2>16. Moves(list)
    BY <1>7, <2>4, <2>8, <2>9, <2>10, <2>12, <2>13, <2>14, <2>15 DEF Moves
  <2>17. n \in Given(list) \/ n \in Waiting(tid')
    BY <2>4, <2>14
  <2> QED
    BY <2>16, <2>17
<1> QED
  BY <1>4, <1>5 DEF FileFrame

LEMMA StoreMoves ==
  ASSUME OrderInv, NapiStore
  PROVE  \E list : Moves(list) /\ (napi.msdu \in Given(list) \/ napi.msdu \in Waiting(tid'))
<1> DEFINE n == napi.msdu
           t == [tid EXCEPT !.started = "yes"]
           near == [tid |-> t, frames |-> <<>>]
           far == ReleaseN(t, Behind(t, SnSub(Sn(n), Size - 1)))
           r == IF SnLess(Sn(n), Sn(t.head + Size)) THEN near ELSE far
<1>1. /\ FileFrame(n, r) /\ napi.pc = "data" /\ ~SawStopped /\ ~Old(n) /\ Sn(n) # Sn(tid.head)
      /\ base' = base /\ heard' = heard /\ first' = first /\ aggr' = aggr /\ session' = session
      /\ NapiDone
  BY DEF NapiStore
<1>2. near.tid = t /\ near.frames = <<>>
  OBVIOUS
<1>3. InWindow(tid) /\ HeadMissing(tid) /\ TidType(tid)
  BY DEF OrderInv, WindowInv, InWindow
<1>4. TidType(t) /\ t.head = tid.head /\ t.buf = tid.buf
  BY <1>3, StartedType
<1> HIDE DEF r, near, far, t
<1>5. InWindow(t) /\ HeadMissing(t) /\ Waiting(t) = Waiting(tid)
  BY <1>3, <1>4 DEF InWindow, HeadMissing, Waiting
<1>6. /\ n \in Nat /\ tid.head \in Nat /\ n <= tid.head + Gap + Size - 1 /\ tid.head <= n + Size
  BY <1>1, NapiNear
<1> HIDE DEF n
<1>7. n > tid.head
  <2>1. 2 * (n - tid.head) < SnMod /\ 2 * (tid.head - n) < SnMod
    BY <1>6, Numbers
  <2>2. ~(n < tid.head) /\ n # tid.head
    BY <1>1, <1>6, <2>1, SnOrder DEF Old
  <2> QED
    BY <1>6, <2>2
<1>8. SnLess(Sn(n), Sn(t.head + Size)) <=> n < tid.head + Size
  <2>1. 2 * (n - (tid.head + Size)) < SnMod /\ 2 * ((tid.head + Size) - n) < SnMod
    BY <1>6, <1>7, Numbers
  <2>2. tid.head + Size \in Int /\ n \in Int
    BY <1>6, Numbers
  <2> QED
    BY <1>4, <2>1, <2>2, SnOrder
<1>9. HasRoom(n, r)
  <2>1. CASE n < tid.head + Size
    <3>1. r = near
      BY <1>8, <2>1 DEF r
    <3> QED
      BY <1>2, <1>4, <1>5, <1>6, <1>7, <2>1, <3>1, RoomAlready
  <2>2. CASE ~(n < tid.head + Size)
    <3> DEFINE d == n - (Size - 1) - tid.head
    <3>1. /\ n - (Size - 1) \in Nat /\ d \in Nat /\ d > 0 /\ tid.head < n - (Size - 1)
          /\ n - (Size - 1) <= tid.head + Gap + Size /\ tid.head <= n - (Size - 1) + Size
      BY <1>6, <2>2, Numbers
    <3>2. SnSub(Sn(n), Size - 1) = Sn(n - (Size - 1))
      BY <1>6, SnOfDifference, Numbers
    <3>3. Behind(t, Sn(n - (Size - 1))) = n - (Size - 1) - t.head
      BY <1>4, <1>6, <3>1, BehindIs
    <3>4. far = ReleaseN(t, d)
      BY <1>4, <3>2, <3>3 DEF far
    <3>5. r = far
      BY <1>8, <2>2 DEF r
    <3> HIDE DEF d
    <3>6. d = n - (Size - 1) - tid.head
      BY DEF d
    <3> QED
      BY <1>4, <1>5, <1>6, <3>1, <3>4, <3>5, <3>6, RoomMade
  <2> QED
    BY <2>1, <2>2
<1>10. n = napi.msdu
  BY DEF n
<1> QED
  BY <1>1, <1>9, <1>10, FileMoves

LEMMA ShutdownOrder ==
  ASSUME OrderInv, StopShutdown
  PROVE  OrderInv'
<1> DEFINE empty == [s \in Slots |-> None]
           t == [tid EXCEPT !.stopped = "yes", !.buf = empty]
<1>1. /\ tid' = t /\ out' = out /\ base' = base /\ heard' = heard /\ first' = first
      /\ aggr' = aggr /\ session' = session /\ napi' = napi
  BY DEF StopShutdown
<1>2. TidType(tid)
  BY DEF OrderInv, WindowInv, InWindow
<1>3. /\ t \in [head : {t.head}, buf : {t.buf}, started : {t.started}, stopped : {t.stopped}]
      /\ t.head = tid.head /\ t.buf = empty /\ t.started = tid.started /\ t.stopped = "yes"
  <2> HIDE DEF empty
  <2>1. tid \in [head : {tid.head}, buf : {tid.buf}, started : {tid.started},
                 stopped : {tid.stopped}]
    BY <1>2, TidFields
  <2> QED
    BY <2>1
<1> HIDE DEF t
<1>4. t.head \in Nat /\ t.started \in {"no", "yes"} /\ empty \in [Slots -> Msdus \cup {None}]
  BY <1>2, <1>3 DEF TidType
<1>5. TidType(t)
  BY <1>3, <1>4 DEF TidType
<1>6. InWindow(t) /\ Waiting(t) = {}
  BY <1>3, <1>5 DEF InWindow, Waiting
<1>7. HeadMissing(t)
  BY <1>3, <1>4, SlotIsRemainder DEF HeadMissing
<1>8. WindowInv'
  <2>1. InWindow(tid)' /\ HeadMissing(tid)' /\ Waiting(tid)' = {}
    BY <1>1, <1>6, <1>7 DEF InWindow, TidType, HeadMissing, Waiting
  <2> QED
    BY <1>1, <1>3, <2>1 DEF OrderInv, WindowInv
<1>9. NapiInv' /\ OutInv'
  BY <1>1, <1>3 DEF OrderInv, NapiInv, OutInv, Ordered, Given
<1> QED
  BY <1>8, <1>9 DEF OrderInv

LEMMA StartOrder ==
  ASSUME OrderInv, NEW ssn \in Msdus, Start(ssn)
  PROVE  OrderInv'
<1> DEFINE t == NewTid(ssn)
<1>1. /\ tid' = t /\ out' = out /\ base' = base /\ heard' = heard /\ first' = ssn
      /\ aggr' = "live" /\ session' = session + 1 /\ session < MaxSessions /\ napi' = napi
      /\ ssn >= base /\ ssn >= heard /\ ssn <= base + Size
  BY DEF Start
<1>2. /\ ssn \in Nat /\ base \in Nat /\ heard \in Nat /\ session \in 0 .. MaxSessions
      /\ napi.saw \in 0 .. MaxSessions /\ napi.saw <= session /\ tid.head \in Nat
  BY Numbers DEF OrderInv, WindowInv, NapiInv, Msdus, InWindow, TidType
<1>3. TidType(t) /\ t.head = ssn /\ t.buf = [s \in Slots |-> None]
  BY <1>2 DEF TidType, NewTid
<1> HIDE DEF t
<1>4. InWindow(t) /\ Waiting(t) = {}
  BY <1>3 DEF InWindow, Waiting
<1>5. HeadMissing(t)
  BY <1>2, <1>3, SlotIsRemainder DEF HeadMissing
<1>6. InWindow(tid)' /\ HeadMissing(tid)' /\ Waiting(tid)' = {} /\ tid'.head = ssn
  BY <1>1, <1>3, <1>4, <1>5 DEF InWindow, TidType, HeadMissing, Waiting
<1>7. /\ session' \in 0 .. MaxSessions /\ napi.saw <= session' /\ napi.saw # session'
      /\ base <= ssn + Gap
  BY <1>1, <1>2, Numbers
<1>8. WindowInv'
  BY <1>1, <1>2, <1>6, <1>7 DEF OrderInv, WindowInv
<1>9. NapiInv'
  BY <1>1, <1>7 DEF OrderInv, NapiInv
<1>10. OutInv'
  <2>1. \A m \in Given(out) : m \in Int
    <3>1. out \in Seq(Msdus \cup {-1, None})
      BY DEF OrderInv, OutInv, Ordered
    <3>2. \A i \in DOMAIN out : out[i] \in Msdus \cup {-1, None}
      BY <3>1
    <3> QED
      BY <3>2, Numbers DEF Given, Msdus
  <2>2. \A m \in Given(out) : m < ssn /\ m < heard
    BY <1>1, <1>2, <2>1 DEF OrderInv, OutInv
  <2> QED
    BY <1>1, <1>6, <2>2 DEF OrderInv, OutInv, Ordered, Given
<1> QED
  BY <1>8, <1>9, <1>10 DEF OrderInv

LEMMA OrderStep == OrderInv /\ [Next]_vars => OrderInv'
<1> SUFFICES ASSUME OrderInv, [Next]_vars PROVE OrderInv'
  OBVIOUS
<1>1. CASE UNCHANGED vars
  BY <1>1, QuietStep DEF vars, OrderInv, WindowInv
<1>2. CASE NapiBypass \/ NapiDiscard
  BY <1>2, QuietStep DEF NapiBypass, NapiDiscard, OrderInv, WindowInv
<1>3. CASE WorkFinish \/ StopUnpublish \/ StopCancel
  BY <1>3, QuietStep DEF WorkFinish, StopUnpublish, StopCancel, OrderInv, WindowInv
<1>4. CASE (\E n \in Msdus : NapiLook(n)) \/ NapiLookBar
  BY <1>4, LookOrder
<1>5. CASE \E n \in Msdus : Start(n)
  BY <1>5, StartOrder
<1>6. CASE \E expired \in SUBSET Buffered : WorkRelease(expired)
  BY <1>6, WorkMoves, MovesKeeps
<1>7. CASE NapiBar
  <2>1. CASE SawStopped
    BY <1>7, <2>1, QuietStep DEF NapiBar, OrderInv, WindowInv
  <2> QED
    BY <1>7, <2>1, BarMoves, MovesKeeps
<1>8. CASE NapiInOrder
  BY <1>8, InOrderMoves, MovesKeeps
<1>9. CASE NapiStore
  BY <1>9, StoreMoves, MovesKeeps
<1> QED
  BY <1>1, <1>2, <1>3, <1>4, <1>5, <1>6, <1>7, <1>8, <1>9, AdvanceOrder, ShutdownOrder
     DEF Next, NapiNext, WorkNext, StopNext

-----------------------------------------------------------------------------
\* The inductive invariant of the numbers holds in every reachable state.
THEOREM OrderInvariance == Spec => []OrderInv
  BY OrderInit, OrderStep, PTL DEF Spec

\* Every variable keeps its type.
THEOREM AggTypes == Spec => []TypeOK
<1>1. AggInv /\ OrderInv => TypeOK
  <2> SUFFICES ASSUME AggInv, OrderInv PROVE TypeOK
    OBVIOUS
  <2>1. TidType(tid) /\ out \in Seq(Msdus \cup {-1, None})
    BY DEF OrderInv, WindowInv, OutInv, InWindow, Ordered
  <2>2. napi \in [pc : {"idle", "data", "bar"}, msdu : Nat, saw : 0 .. MaxSessions]
    BY Numbers DEF OrderInv, NapiInv, Msdus
  <2> QED
    BY <2>1, <2>2 DEF TypeOK, AggInv, StopInv, OrderInv, WindowInv, TidType
<1> QED
  BY <1>1, AggInvariance, OrderInvariance, PTL

\* A buffered frame lies inside the window ahead of the head, in the slot of
\* its number, wherever the sequence numbers wrap, for a window that divides them.
THEOREM FramesKeepTheirWindow == Spec => []BufferedInWindow
<1>1. OrderInv => BufferedInWindow
  <2> SUFFICES ASSUME OrderInv, NEW s \in Slots, tid.buf[s] # None
               PROVE  /\ tid.buf[s] \in tid.head + 1 .. tid.head + Size - 1
                      /\ Slot(tid.buf[s]) = s
    BY DEF BufferedInWindow
  <2>1. InWindow(tid) /\ HeadMissing(tid) /\ tid.head \in Nat
    BY DEF OrderInv, WindowInv, InWindow, TidType
  <2>2. tid.buf[s] \in tid.head .. tid.head + Size - 1 /\ Slot(tid.buf[s]) = s
    BY <2>1 DEF InWindow
  <2>3. tid.buf[s] # tid.head
    BY <2>1, <2>2 DEF HeadMissing
  <2> QED
    BY <2>1, <2>2, <2>3, Numbers
<1> QED
  BY <1>1, OrderInvariance, PTL

\* Frames leave the buffer in the order of their numbers and each at most once,
\* across losses, repetitions, block-ack requests, time-outs and sessions, for a
\* window that divides the sequence space.
THEOREM FramesLeaveInOrder == Spec => []ReleasedInOrder
<1>1. OrderInv => ReleasedInOrder
  BY DEF OrderInv, OutInv, Ordered, ReleasedInOrder
<1> QED
  BY <1>1, OrderInvariance, PTL

-----------------------------------------------------------------------------
(* Nothing is lost, and nothing but duplicates is thrown away.             *)

\* Whatever of the session the head has passed, and the originator may still
\* send, was released, or something later was.  Once the session has begun, no
\* frame from before it arrives any more.
DuplicateInv ==
  /\ first <= tid.head
  /\ tid.started = "yes" => first < heard
  /\ napi.pc = "data" /\ napi.saw = session /\ napi.msdu < first => heard <= first
  /\ \A n \in base .. tid.head - 1 : n >= first => n <= Latest(out)

LEMMA DuplicateInit == Init => DuplicateInv
  BY Numbers DEF Init, NewTid, DuplicateInv

\* The numbers that the invariant is about.
LEMMA OrderTypes ==
  ASSUME OrderInv
  PROVE  /\ base \in Nat /\ heard \in Nat /\ first \in Nat /\ tid.head \in Nat
         /\ napi.msdu \in Nat /\ Latest(out) \in Int
         /\ Given(out) \subseteq Int /\ InWindow(tid)
<1>1. Given(out) \subseteq Int /\ Ordered(out) /\ Given(out) # {}
  <2>1. out \in Seq(Msdus \cup {-1, None}) /\ Ordered(out) /\ Given(out) # {}
    BY DEF OrderInv, OutInv, Ordered
  <2>2. \A i \in DOMAIN out : out[i] \in Msdus \cup {-1, None}
    BY <2>1
  <2> QED
    BY <2>1, <2>2, Numbers DEF Given, Msdus
<1>2. Latest(out) \in Int
  BY <1>1, LatestIsGiven
<1> QED
  BY <1>1, <1>2, Numbers DEF OrderInv, WindowInv, NapiInv, InWindow, TidType, Msdus

\* A critical section that releases keeps it.
LEMMA MovesDuplicate ==
  ASSUME OrderInv, DuplicateInv, NEW list, Moves(list)
  PROVE  DuplicateInv'
<1>1. OrderInv' /\ Given(out') = {Latest(out)} \cup Given(list)
  BY HandsUp, MovesKeeps
<1>2. \A m \in Given(out') : m \in Int /\ m <= Latest(out')
  <2>1. Ordered(out') /\ Given(out') # {}
    BY <1>1 DEF OrderInv, OutInv, Ordered, Given
  <2>2. Given(out') \subseteq Int
    <3>1. out' \in Seq(Msdus \cup {-1, None})
      BY <2>1 DEF Ordered
    <3>2. \A i \in DOMAIN out' : out'[i] \in Msdus \cup {-1, None}
      BY <3>1
    <3> QED
      BY <3>2, Numbers DEF Given, Msdus
  <2> QED
    BY <2>1, <2>2, LatestIsGiven
<1>3. /\ base \in Nat /\ heard \in Nat /\ first \in Nat /\ tid.head \in Nat
      /\ Latest(out) \in Int
  BY OrderTypes
<1>4. /\ tid'.head \in Nat /\ tid.head <= tid'.head
      /\ tid'.started = tid.started \/ tid.head < heard
      /\ \/ tid'.head = tid.head
         \/ tid'.head - 1 \in Given(list)
         \/ tid'.head <= base
      /\ base' = base /\ heard' = heard /\ first' = first /\ session' = session
      /\ napi' = napi \/ NapiDone
  BY DEF Moves, InWindow, TidType
<1>5. Latest(out') \in Int /\ Latest(out) <= Latest(out')
  <2>1. Latest(out') \in Given(out')
    <3>1. Ordered(out') /\ Given(out') # {}
      BY <1>1 DEF OrderInv, OutInv, Ordered, Given
    <3> QED
      BY <3>1, LatestIsGiven
  <2> QED
    BY <1>1, <1>2, <2>1
<1>6. ASSUME NEW n \in base .. tid'.head - 1, n >= first
      PROVE  n <= Latest(out')
  <2>1. CASE tid'.head = tid.head
    BY <1>3, <1>5, <1>6, <2>1 DEF DuplicateInv
  <2>2. CASE tid'.head - 1 \in Given(list)
    BY <1>1, <1>2, <1>3, <1>4, <1>5, <2>2
  <2>3. CASE tid'.head <= base
    BY <1>3, <1>4, <2>3
  <2> QED
    BY <1>4, <2>1, <2>2, <2>3
<1>7. first <= tid'.head /\ (tid'.started = "yes" => first < heard)
  BY <1>3, <1>4 DEF DuplicateInv
<1>8. napi'.pc = "data" => napi' = napi
  BY <1>4 DEF NapiDone, OrderInv, NapiInv
<1> QED
  BY <1>4, <1>6, <1>7, <1>8 DEF DuplicateInv

\* The other steps keep it.
LEMMA LookDuplicate ==
  ASSUME OrderInv, DuplicateInv, (\E n \in Msdus : NapiLook(n)) \/ NapiLookBar
  PROVE  DuplicateInv'
<1>1. base \in Nat /\ heard \in Nat /\ first \in Nat
  BY OrderTypes
<1>2. CASE NapiLookBar
  BY <1>2 DEF NapiLookBar, DuplicateInv, Latest
<1>3. CASE \E n \in Msdus : NapiLook(n)
  <2>1. PICK n \in Msdus : NapiLook(n)
    BY <1>3
  <2>2. n \in Nat
    BY Numbers DEF Msdus
  <2>3. /\ heard' = (IF n < heard THEN heard ELSE n + 1)
        /\ n < first => heard <= first
        /\ napi'.msdu = n
        /\ base' = base /\ first' = first /\ tid' = tid /\ out' = out
    BY <2>1 DEF NapiLook
  <2>4. heard <= heard' /\ (n < first => heard' <= first) /\ heard' \in Nat
    BY <1>1, <2>2, <2>3
  <2>5. first < heard => first < heard'
    BY <1>1, <2>4
  <2> QED
    BY <2>3, <2>4, <2>5 DEF DuplicateInv
<1> QED
  BY <1>2, <1>3

LEMMA QuietDuplicate ==
  ASSUME OrderInv, DuplicateInv,
         \/ NapiBypass \/ NapiDiscard \/ WorkFinish \/ StopUnpublish \/ StopCancel
         \/ NapiBar /\ SawStopped
         \/ UNCHANGED vars
  PROVE  DuplicateInv'
<1>1. /\ tid' = tid /\ out' = out /\ base' = base /\ heard' = heard /\ first' = first
      /\ session' = session /\ (napi' = napi \/ NapiDone)
  BY DEF NapiBypass, NapiDiscard, WorkFinish, StopUnpublish, StopCancel, NapiBar, vars
<1>2. napi'.pc = "data" => napi' = napi
  BY <1>1 DEF NapiDone, OrderInv, NapiInv
<1> QED
  BY <1>1, <1>2 DEF DuplicateInv

LEMMA SessionDuplicate ==
  ASSUME OrderInv, DuplicateInv, Advance \/ StopShutdown \/ \E n \in Msdus : Start(n)
  PROVE  DuplicateInv'
<1>1. base \in Nat /\ heard \in Nat /\ first \in Nat /\ tid.head \in Nat
  BY OrderTypes
<1>2. CASE Advance
  <2>1. /\ base' = base + 1 /\ heard' = heard /\ first' = first /\ session' = session
        /\ tid' = tid /\ out' = out /\ napi' = napi
    BY <1>2 DEF Advance
  <2>2. base + 1 .. tid.head - 1 \subseteq base .. tid.head - 1
    BY <1>1
  <2> QED
    BY <2>1, <2>2 DEF DuplicateInv
<1>3. CASE StopShutdown
  <2> DEFINE empty == [s \in Slots |-> None]
  <2>1. /\ tid' = [tid EXCEPT !.stopped = "yes", !.buf = empty]
        /\ base' = base /\ heard' = heard /\ first' = first /\ session' = session
        /\ out' = out /\ napi' = napi
    BY <1>3 DEF StopShutdown
  <2> HIDE DEF empty
  <2>2. tid'.head = tid.head /\ tid'.started = tid.started
    <3>1. tid \in [head : {tid.head}, buf : {tid.buf}, started : {tid.started},
                   stopped : {tid.stopped}]
      BY TidFields DEF OrderInv, WindowInv, InWindow
    <3> QED
      BY <2>1, <3>1
  <2> QED
    BY <2>1, <2>2 DEF DuplicateInv
<1>4. CASE \E n \in Msdus : Start(n)
  <2>1. PICK n \in Msdus : Start(n)
    BY <1>4
  <2>2. /\ first' = n /\ tid'.head = n /\ tid'.started = "no" /\ session' = session + 1
        /\ base' = base /\ napi' = napi /\ n \in Nat
    BY <2>1, Numbers DEF Start, NewTid, Msdus
  <2>3. napi.saw # session'
    BY <2>2, Numbers DEF OrderInv, WindowInv, NapiInv
  <2>4. \A m \in base .. n - 1 : ~(m >= n)
    BY <1>1, <2>2
  <2>5. n <= n
    BY <2>2
  <2> QED
    BY <2>2, <2>3, <2>4, <2>5 DEF DuplicateInv
<1> QED
  BY <1>2, <1>3, <1>4

LEMMA DuplicateStep == OrderInv /\ DuplicateInv /\ [Next]_vars => DuplicateInv'
<1> SUFFICES ASSUME OrderInv, DuplicateInv, [Next]_vars PROVE DuplicateInv'
  OBVIOUS
<1>1. CASE Advance \/ StopNext \/ (\E n \in Msdus : Start(n)) \/ WorkFinish \/ UNCHANGED vars
  BY <1>1, SessionDuplicate, QuietDuplicate DEF StopNext
<1>2. CASE \E expired \in SUBSET Buffered : WorkRelease(expired)
  BY <1>2, WorkMoves, MovesDuplicate
<1>3. CASE (\E n \in Msdus : NapiLook(n)) \/ NapiLookBar \/ NapiBypass \/ NapiDiscard
  BY <1>3, LookDuplicate, QuietDuplicate
<1>4. CASE NapiInOrder \/ NapiStore
  BY <1>4, InOrderMoves, StoreMoves, MovesDuplicate
<1>5. CASE NapiBar
  BY <1>5, BarMoves, MovesDuplicate, QuietDuplicate
<1> QED
  BY <1>1, <1>2, <1>3, <1>4, <1>5 DEF Next, NapiNext, WorkNext

\* What the head has passed was released, or something later was, in every
\* reachable state.
THEOREM DuplicateInvariance == Spec => []DuplicateInv
  BY OrderInvariance, DuplicateInit, DuplicateStep, PTL DEF Spec

\* What the poller's critical section leaves of the frame in its hand.
LEMMA NotThrownAway ==
  ASSUME OrderInv, DuplicateInv, napi.pc = "data", ~SawStopped, tid.started = "yes",
         napi.msdu \in base .. MaxMsdu, NapiBypass \/ NapiDiscard \/ NapiInOrder \/ NapiStore
  PROVE  napi.msdu <= Latest(out') \/ \E s \in Slots : tid'.buf[s] = napi.msdu
<1> DEFINE n == napi.msdu
<1>1. base \in Nat /\ heard \in Nat /\ first \in Nat /\ tid.head \in Nat /\ n \in Nat
  BY OrderTypes
<1>2. CASE NapiBypass
  BY <1>2 DEF NapiBypass
<1>3. CASE NapiDiscard
  <2>1. Old(n) /\ out' = out
    BY <1>3 DEF NapiDiscard
  <2>2. tid.head <= n + Size /\ n <= tid.head + Gap + Size - 1
    BY NapiNear
  <2>3. 2 * (n - tid.head) < SnMod /\ 2 * (tid.head - n) < SnMod
    BY <1>1, <2>2, Numbers
  <2>4. n < tid.head
    BY <1>1, <2>1, <2>3, SnOrder DEF Old
  <2>5. n >= first
    BY <1>1 DEF DuplicateInv, SawStopped
  <2>6. n \in base .. tid.head - 1
    BY <1>1, <2>4
  <2> QED
    BY <2>1, <2>5, <2>6 DEF DuplicateInv
<1>4. CASE NapiInOrder \/ NapiStore
  <2>1. PICK list : Moves(list) /\ (n \in Given(list) \/ n \in Waiting(tid'))
    BY <1>4, InOrderMoves, StoreMoves
  <2>2. CASE n \in Given(list)
    <3>1. OutInv' /\ n \in Given(out')
      BY <2>1, <2>2, HandsUp
    <3>2. Ordered(out') /\ Given(out') # {}
      BY <3>1 DEF OutInv, Ordered, Given
    <3> QED
      BY <3>1, <3>2, LatestIsGiven
  <2>3. CASE n \in Waiting(tid')
    BY <2>3 DEF Waiting
  <2> QED
    BY <2>1, <2>2, <2>3
<1> QED
  BY <1>2, <1>3, <1>4

\* The poller's steps that let go of a frame.
LEMMA LetsGo ==
  ASSUME [Next]_vars, napi.pc = "data", napi'.pc = "idle"
  PROVE  NapiBypass \/ NapiDiscard \/ NapiInOrder \/ NapiStore
<1>1. ~((\E n \in Msdus : NapiLook(n)) \/ NapiLookBar \/ NapiBar)
  BY DEF NapiLook, NapiLookBar, NapiBar
<1>2. ~(Advance \/ StopNext \/ WorkNext \/ (\E n \in Msdus : Start(n)) \/ UNCHANGED vars)
  BY DEF Advance, StopNext, StopUnpublish, StopShutdown, StopCancel, WorkNext, WorkFinish,
         WorkRelease, Start, vars
<1> QED
  BY <1>1, <1>2 DEF Next, NapiNext

\* With a window that divides the sequence space, a frame of the originator's window
\* is thrown away only when it, or a later one, was released before, or the buffer
\* holds it already: neither the wrap of the numbers, nor room that is made, nor a
\* head moved on by a time-out or a block-ack request ever costs a frame that could
\* still be used.  With another window mt76_rx_aggr_reorder can take two numbers for
\* one slot, and discard a frame that is no duplicate.
THEOREM OnlyDuplicatesAreDiscarded == Spec => DiscardedOnlyDuplicates
<1>1. OrderInv /\ DuplicateInv /\ [Next]_vars =>
        [/\ napi.pc = "data" /\ napi'.pc = "idle" /\ ~SawStopped
         /\ tid.started = "yes" /\ napi.msdu \in base .. MaxMsdu
         => \/ napi.msdu <= Latest(out')
            \/ \E s \in Slots : tid'.buf[s] = napi.msdu]_vars
  BY NotThrownAway, LetsGo
<1> QED
  BY <1>1, OrderInvariance, DuplicateInvariance, PTL DEF Spec, DiscardedOnlyDuplicates

\* What is buffered stays in the buffer until it is handed up, except when the
\* session is shut down.
BufferedFramesAreKept ==
  [][~(stopping = "shutdown" /\ stopping' = "cancel") =>
       \A m \in Buffered : m \in Buffered' \/ m \in Given(out')]_vars

LEMMA KeepsFrames ==
  ASSUME AggInv, OrderInv, [Next]_vars, ~(stopping = "shutdown" /\ stopping' = "cancel"),
         NEW m \in Buffered
  PROVE  m \in Buffered' \/ m \in Given(out')
<1>1. Buffered = Waiting(tid) /\ Buffered' = Waiting(tid')
  BY DEF Buffered, Waiting
<1>2. ASSUME NEW list, Moves(list) PROVE m \in Waiting(tid') \/ m \in Given(out')
  BY <1>1, <1>2, HandsUp DEF Moves
<1>3. CASE tid' = tid
  BY <1>1, <1>3
<1>4. CASE \E n \in Msdus : Start(n)
  <2>1. tid.stopped = "yes"
    BY <1>4 DEF Start, AggInv, StopInv
  <2>2. Occupied(tid) = {}
    BY <2>1 DEF AggInv, StopInv
  <2> QED
    BY <2>2 DEF Occupied, Buffered
<1>5. CASE \E expired \in SUBSET Buffered : WorkRelease(expired)
  BY <1>1, <1>2, <1>5, WorkMoves
<1>6. CASE NapiInOrder \/ NapiStore
  BY <1>1, <1>2, <1>6, InOrderMoves, StoreMoves
<1>7. CASE NapiBar
  BY <1>1, <1>2, <1>3, <1>7, BarMoves DEF NapiBar
<1>8. CASE (\E n \in Msdus : NapiLook(n)) \/ NapiLookBar \/ NapiBypass \/ NapiDiscard
  BY <1>3, <1>8 DEF NapiLook, NapiLookBar, NapiBypass, NapiDiscard
<1>9. CASE Advance \/ WorkFinish \/ StopUnpublish \/ StopCancel \/ UNCHANGED vars
  BY <1>3, <1>9 DEF Advance, WorkFinish, StopUnpublish, StopCancel, vars
<1>10. CASE StopShutdown
  BY <1>10 DEF StopShutdown
<1> QED
  BY <1>4, <1>5, <1>6, <1>7, <1>8, <1>9, <1>10 DEF Next, NapiNext, WorkNext, StopNext

\* No release loop, time-out or block-ack request loses a frame of the buffer:
\* every slot that mt76_aggr_release empties is handed up.
THEOREM NoBufferedFrameIsLost == Spec => BufferedFramesAreKept
<1>1. AggInv /\ OrderInv /\ [Next]_vars =>
        [~(stopping = "shutdown" /\ stopping' = "cancel") =>
           \A m \in Buffered : m \in Buffered' \/ m \in Given(out')]_vars
  BY KeepsFrames
<1> QED
  BY <1>1, AggInvariance, OrderInvariance, PTL DEF Spec, BufferedFramesAreKept
=============================================================================
