------------------------------- MODULE AggRx -------------------------------
(***************************************************************************)
(* The receive reordering buffer of one block-ack session (agg-rx.c).      *)
(*                                                                         *)
(* Three contexts share the buffer under tid->lock: the NAPI poller that   *)
(* files frames, the delayed reorder_work that gives up waiting for lost   *)
(* ones, and the configuration thread that starts and stops the session.   *)
(* The poller reads the session pointer before it takes the lock.          *)
(*                                                                         *)
(* An MSDU is the number n = 0, 1, 2 ... the originator gives it; on the   *)
(* air it carries n modulo SnMod.  tid->head only ever moves by            *)
(* ieee80211_sn_inc, so it is kept as the count of those increments and    *)
(* read modulo SnMod.  tid->nframes is the number of occupied slots.       *)
(***************************************************************************)
EXTENDS Integers, Sequences, SequencesExt

CONSTANTS
  SnMod,        \* IEEE80211_SN_MODULO
  Size,         \* tid->size, the negotiated window
  Gap,          \* how far the originator gets ahead of the head unheard
  FirstMsdu,    \* first MSDU that is sent: any, sequence numbers run on
  MaxMsdu,      \* bound: the last MSDU that is sent
  MaxSessions,  \* bound: the sessions that are started
  None

\* The code divides sequence numbers by the window size, so the window has to
\* divide the sequence space; sn_less tells old from new only while less than
\* half of the space lies between a frame and the head.
ASSUME AggRxAssumption ==
  /\ {SnMod, Size, Gap, FirstMsdu, MaxMsdu, MaxSessions} \subseteq Nat
  /\ Size > 0 /\ 2 * (Gap + Size) < SnMod
  /\ SnMod % Size = 0
  /\ FirstMsdu <= MaxMsdu
  /\ None \notin Int

VARIABLES
  base,     \* first MSDU the originator may still send
  heard,    \* no MSDU from here on was heard yet
  first,    \* first MSDU of the session
  aggr,     \* wcid->aggr[tidno]: is a session published
  session,  \* how many sessions were started; names the current struct
  tid,      \* the session struct: head, buf, started, stopped
  timer,    \* reorder_work: "idle", or "armed" when it is queued
  work,     \* reorder_work running: "idle", or "rearm" / "done" once it has
            \* left the lock with and without frames to wait for
  stopping, \* mt76_rx_aggr_stop: "no", "shutdown", "cancel"
  napi,     \* the poller: the frame it holds and the session it looked up
  out       \* history: the last MSDU released before, then the slots that the
            \* latest critical section released, None where one was empty

vars == <<base, heard, first, aggr, session, tid, timer, work, stopping, napi, out>>

Msdus == FirstMsdu .. MaxMsdu
Slots == 0 .. Size - 1

Sn(n)        == n % SnMod
SnSub(a, b)  == (a - b) % SnMod
SnLess(a, b) == SnSub(a, b) > SnMod \div 2
Slot(n)      == Sn(n) % Size

NewTid(ssn) == [head |-> ssn, buf |-> [s \in Slots |-> None], started |-> "no",
                stopped |-> "no"]

Init ==
  /\ base = FirstMsdu /\ heard = FirstMsdu /\ first = FirstMsdu
  /\ aggr = "none" /\ session = 0
  /\ tid = [NewTid(FirstMsdu) EXCEPT !.stopped = "yes"]
  /\ timer = "idle" /\ work = "idle" /\ stopping = "no"
  /\ napi = [pc |-> "idle", msdu |-> FirstMsdu, saw |-> 0]
  /\ out = <<-1>>

Buffered == {tid.buf[s] : s \in Slots} \ {None}

(***************************************************************************)
(* The release loops.  Releasing k sequence numbers from the head empties  *)
(* their slots and appends what was in them to the list of frames.  An     *)
(* empty slot adds nothing to the list; it is kept here as a None.         *)
(***************************************************************************)
ReleaseN(t, k) ==
  [tid    |-> [t EXCEPT !.head = @ + k,
                        !.buf = [s \in Slots |->
                          IF (s - Slot(t.head)) % Size < k THEN None ELSE @[s]]],
   frames |-> [i \in 1 .. (IF k < Size THEN k ELSE Size) |->
                t.buf[Slot(t.head + i - 1)]]]

\* mt76_rx_aggr_release_frames(sn): how far the head is behind sn.
Behind(t, sn) == IF SnLess(Sn(t.head), sn) THEN SnSub(sn, Sn(t.head)) ELSE 0

\* mt76_rx_aggr_release_head, after d numbers were released: the run of slots
\* from there on that are occupied, and not emptied by that release.
Waits(t, i) == i < Size /\ t.buf[Slot(t.head + i)] # None

Run(t, d) ==
  CHOOSE k \in 0 .. Size : (\A i \in 0 .. k - 1 : Waits(t, d + i)) /\ ~Waits(t, d + k)

ReleaseTo(t, sn) == LET d == Behind(t, sn) IN ReleaseN(t, d + Run(t, d))
ReleaseHead(t)   == ReleaseN(t, Run(t, 0))

\* The last MSDU of a list that has one.
Latest(list) ==
  list[CHOOSE i \in DOMAIN list :
         list[i] # None /\ \A j \in DOMAIN list : list[j] # None => j <= i]

HandUp(frames) == out' = <<Latest(out)>> \o frames

-----------------------------------------------------------------------------
(* The originator, and the poller that hears it.                           *)

\* The originator gives up on a frame or has it acknowledged.
Advance ==
  /\ base < MaxMsdu /\ base < tid.head + Gap
  /\ base' = base + 1
  /\ UNCHANGED <<heard, first, aggr, session, tid, timer, work, stopping, napi, out>>

\* A frame of the originator's window arrives, for the first time or again;
\* what was sent before the session began is not sent again once it goes on.
\* mt76_rx_aggr_reorder reads wcid->aggr before it takes tid->lock.
NapiLook(n) ==
  /\ napi.pc = "idle"
  /\ n \in base .. base + Size - 1
  /\ aggr = "live"
  /\ napi' = [pc |-> "data", msdu |-> n, saw |-> session]
  /\ n < first => heard <= first
  /\ heard' = IF n < heard THEN heard ELSE n + 1
  /\ UNCHANGED <<base, first, aggr, session, tid, timer, work, stopping, out>>

\* A block-ack request says where the originator's window starts.
NapiLookBar ==
  /\ napi.pc = "idle"
  /\ aggr = "live"
  /\ napi' = [pc |-> "bar", msdu |-> base, saw |-> session]
  /\ UNCHANGED <<base, heard, first, aggr, session, tid, timer, work, stopping, out>>

\* tid->stopped of the struct that the poller looked up: a struct that was
\* replaced has been stopped before.
SawStopped == napi.saw # session \/ tid.stopped = "yes"

NapiDone == napi' = [napi EXCEPT !.pc = "idle"]

Old(n) == SnLess(Sn(n), Sn(tid.head))

\* The session has ended, or its first frame is still to come: the frame is
\* handed up as it is, outside the order of the session.
NapiBypass ==
  /\ napi.pc = "data"
  /\ SawStopped \/ (tid.started = "no" /\ Old(napi.msdu))
  /\ NapiDone
  /\ UNCHANGED <<base, heard, first, aggr, session, tid, timer, work, stopping, out>>

\* Older than the head: a duplicate, or given up already.
NapiDiscard ==
  /\ napi.pc = "data" /\ ~SawStopped
  /\ tid.started = "yes" /\ Old(napi.msdu)
  /\ NapiDone
  /\ UNCHANGED <<base, heard, first, aggr, session, tid, timer, work, stopping, out>>

\* Mutant: what was waiting behind the frame stays in the buffer.
NapiInOrderAlone ==
  /\ napi.pc = "data" /\ ~SawStopped
  /\ Sn(napi.msdu) = Sn(tid.head)
  /\ tid' = [tid EXCEPT !.head = @ + 1, !.started = "yes"]
  /\ HandUp(<<napi.msdu>>)
  /\ NapiDone
  /\ UNCHANGED <<base, heard, first, aggr, session, timer, work, stopping>>

\* The frame that the head waits for, and what was waiting behind it.
NapiInOrder ==
  /\ napi.pc = "data" /\ ~SawStopped
  /\ Sn(napi.msdu) = Sn(tid.head)
  /\ LET r == ReleaseHead([tid EXCEPT !.head = @ + 1, !.started = "yes"])
     IN  tid' = r.tid /\ HandUp(<<napi.msdu>> \o r.frames)
  /\ NapiDone
  /\ UNCHANGED <<base, heard, first, aggr, session, timer, work, stopping>>

\* What NapiStore does once the window starts at the head of r: drop or file.
FileFrame(n, r) ==
  \/ /\ r.tid.buf[Slot(n)] # None
     /\ tid' = r.tid /\ HandUp(r.frames)
     /\ UNCHANGED timer
  \/ /\ r.tid.buf[Slot(n)] = None
     /\ LET q == ReleaseHead([r.tid EXCEPT !.buf[Slot(n)] = n])
        IN  tid' = q.tid /\ HandUp(r.frames \o q.frames)
     /\ timer' = "armed"

\* Mutant: a frame beyond the window makes one slot too little room.
NapiStoreShortRoom ==
  /\ napi.pc = "data" /\ ~SawStopped
  /\ ~Old(napi.msdu) /\ Sn(napi.msdu) # Sn(tid.head)
  /\ LET n == napi.msdu
         t == [tid EXCEPT !.started = "yes"]
     IN  FileFrame(n, IF SnLess(Sn(n), Sn(t.head + Size))
                      THEN [tid |-> t, frames |-> <<>>]
                      ELSE ReleaseN(t, Behind(t, SnSub(Sn(n), Size))))
  /\ NapiDone
  /\ UNCHANGED <<base, heard, first, aggr, session, work, stopping>>

\* A later frame: make room when it lies beyond the window, drop it when its
\* slot is in use, file it otherwise and arm reorder_work.
NapiStore ==
  /\ napi.pc = "data" /\ ~SawStopped
  /\ ~Old(napi.msdu) /\ Sn(napi.msdu) # Sn(tid.head)
  /\ LET n == napi.msdu
         t == [tid EXCEPT !.started = "yes"]
     IN  FileFrame(n, IF SnLess(Sn(n), Sn(t.head + Size))
                      THEN [tid |-> t, frames |-> <<>>]
                      ELSE ReleaseN(t, Behind(t, SnSub(Sn(n), Size - 1))))
  /\ NapiDone
  /\ UNCHANGED <<base, heard, first, aggr, session, work, stopping>>

\* mt76_rx_aggr_check_ctl.
NapiBar ==
  /\ napi.pc = "bar"
  /\ IF SawStopped
     THEN UNCHANGED <<tid, out>>
     ELSE LET r == ReleaseTo(tid, Sn(napi.msdu))
          IN  tid' = r.tid /\ HandUp(r.frames)
  /\ NapiDone
  /\ UNCHANGED <<base, heard, first, aggr, session, timer, work, stopping>>

-----------------------------------------------------------------------------
(* mt76_rx_aggr_reorder_work.                                              *)

\* Mutant: no frame has ever waited too long.
CheckReleasePatient(t, expired) == ReleaseHead(t)

\* mt76_rx_aggr_check_release under the lock: the head runs on, and jumps to
\* the latest frame that has waited too long and runs on from there.
CheckRelease(t, expired) ==
  IF expired = {}
  THEN ReleaseHead(t)
  ELSE ReleaseTo(t, Sn(CHOOSE m \in expired : \A n \in expired : n <= m))

WorkRelease(expired) ==
  /\ timer = "armed" /\ work = "idle"
  /\ timer' = "idle"
  /\ LET r == CheckRelease(tid, expired)
     IN  /\ tid' = r.tid /\ HandUp(r.frames)
         /\ work' = IF \A s \in Slots : r.tid.buf[s] = None THEN "done" ELSE "rearm"
  /\ UNCHANGED <<base, heard, first, aggr, session, stopping, napi>>

\* Mutant: the work does not queue itself again.
WorkFinishOnce ==
  /\ work # "idle"
  /\ work' = "idle"
  /\ UNCHANGED <<base, heard, first, aggr, session, tid, timer, stopping, napi, out>>

\* Outside the lock it queues itself again when frames were left.
WorkFinish ==
  /\ work # "idle"
  /\ work' = "idle"
  /\ timer' = IF work = "rearm" THEN "armed" ELSE timer
  /\ UNCHANGED <<base, heard, first, aggr, session, tid, stopping, napi, out>>

-----------------------------------------------------------------------------
(* mt76_rx_aggr_start and mt76_rx_aggr_stop, under dev.mutex.              *)

\* The session starts with the next MSDU that the originator sends for the
\* first time; those before it may still be under way.
Start(ssn) ==
  /\ aggr = "none" /\ stopping = "no"
  /\ session < MaxSessions
  /\ ssn >= base /\ ssn >= heard /\ ssn <= base + Size
  /\ aggr' = "live" /\ session' = session + 1
  /\ tid' = NewTid(ssn) /\ first' = ssn
  /\ UNCHANGED <<base, heard, timer, work, stopping, napi, out>>

StopUnpublish ==
  /\ aggr = "live"
  /\ aggr' = "none" /\ stopping' = "shutdown"
  /\ UNCHANGED <<base, heard, first, session, tid, timer, work, napi, out>>

\* mt76_rx_aggr_shutdown: what is still buffered is freed.
StopShutdown ==
  /\ stopping = "shutdown"
  /\ tid' = [tid EXCEPT !.stopped = "yes", !.buf = [s \in Slots |-> None]]
  /\ stopping' = "cancel"
  /\ UNCHANGED <<base, heard, first, aggr, session, timer, work, napi, out>>

\* Mutant: cancel_delayed_work does not wait for a running work.
StopCancelAsync ==
  /\ stopping = "cancel"
  /\ timer' = "idle" /\ stopping' = "no"
  /\ UNCHANGED <<base, heard, first, aggr, session, tid, work, napi, out>>

\* cancel_delayed_work_sync waits for a running work, then kfree_rcu.
StopCancel ==
  /\ stopping = "cancel"
  /\ work = "idle"
  /\ timer' = "idle" /\ stopping' = "no"
  /\ UNCHANGED <<base, heard, first, aggr, session, tid, work, napi, out>>

-----------------------------------------------------------------------------
NapiNext ==
  \/ \E n \in Msdus : NapiLook(n)
  \/ NapiLookBar \/ NapiBypass \/ NapiDiscard \/ NapiInOrder \/ NapiStore \/ NapiBar
WorkNext == WorkFinish \/ \E expired \in SUBSET Buffered : WorkRelease(expired)
StopNext == StopUnpublish \/ StopShutdown \/ StopCancel

Next == Advance \/ NapiNext \/ WorkNext \/ StopNext \/ \E n \in Msdus : Start(n)

Spec == Init /\ [][Next]_vars

\* The work runs when it is due, and of the frames that stay buffered some
\* have waited too long by then; the poller and a stop that has begun go on.
Fairness ==
  /\ WF_vars(WorkFinish)
  /\ SF_vars(\E expired \in SUBSET Buffered : expired # {} /\ WorkRelease(expired))
  /\ WF_vars(StopShutdown) /\ WF_vars(StopCancel)

FairSpec == Spec /\ Fairness
-----------------------------------------------------------------------------
TypeOK ==
  /\ base \in Msdus /\ {heard, first} \subseteq Nat
  /\ aggr \in {"none", "live"} /\ session \in 0 .. MaxSessions
  /\ tid \in [head : Nat, buf : [Slots -> Msdus \cup {None}],
              started : {"no", "yes"}, stopped : {"no", "yes"}]
  /\ timer \in {"idle", "armed"} /\ work \in {"idle", "rearm", "done"}
  /\ stopping \in {"no", "shutdown", "cancel"}
  /\ napi \in [pc : {"idle", "data", "bar"}, msdu : Nat, saw : 0 .. MaxSessions]
  /\ out \in Seq(Msdus \cup {-1, None})

\* Whatever is lost, late or sent again, and whenever reorder_work gives up
\* waiting, frames leave the buffer in the order of their numbers and each at
\* most once (mt76_rx_aggr_release_frames, _release_head, _check_release).
ReleasedInOrder ==
  \A i, j \in DOMAIN out : i < j /\ out[i] # None /\ out[j] # None => out[i] < out[j]

\* A buffered frame lies inside the window ahead of the head, in the slot of
\* its number: modular comparison and wrap-around never misfile a frame.
BufferedInWindow ==
  \A s \in Slots : tid.buf[s] # None =>
    /\ tid.buf[s] \in tid.head + 1 .. tid.head + Size - 1
    /\ Slot(tid.buf[s]) = s

\* A frame of the originator's window is thrown away only when it, or a later
\* one, was released before, or when the buffer holds it already.
DiscardedOnlyDuplicates ==
  [][/\ napi.pc = "data" /\ napi'.pc = "idle" /\ ~SawStopped
     /\ tid.started = "yes" /\ napi.msdu \in base .. MaxMsdu
     => \/ napi.msdu <= Latest(out')
        \/ \E s \in Slots : tid'.buf[s] = napi.msdu]_vars

\* As long as frames wait in the buffer, reorder_work is queued or is about to
\* queue itself: the last frames of a burst are not stuck behind a lost one.
BufferedHasTimer == Buffered # {} => timer = "armed" \/ work = "rearm"

\* Once mt76_rx_aggr_stop has returned, nothing is queued and nothing runs on
\* the struct that is about to be freed.
StoppedIsQuiet == aggr = "none" /\ stopping = "no" => timer = "idle" /\ work = "idle"

\* No frame stays in the buffer for ever, with or without further traffic.
BufferedFrameLeaves == \A s \in Slots : tid.buf[s] # None ~> tid.buf[s] = None
============================================================================
