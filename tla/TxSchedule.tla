---------------------------- MODULE TxSchedule ----------------------------
(***************************************************************************)
(* Transmit scheduling (tx.c, util.c): how frames reach the tx worker of   *)
(* TxToken.  mt76_tx puts a frame into one of two queues of its station,   *)
(* lists the station in phy->tx_list and schedules the worker; mac80211    *)
(* keeps frames in queues of its own (txq) and only schedules the worker.  *)
(* The worker thread runs while MT76_WORKER_SCHEDULED is set: it takes     *)
(* over tx_list, sends what the two queues of each station hold, then the  *)
(* frames of mac80211, and stops wherever the data queue is blocked or the *)
(* device is being reset.                                                  *)
(*                                                                         *)
(* Every action takes a step of TxToken or leaves its variables alone.     *)
(* The order of the lists is left open.  The queue of mac80211 stands for  *)
(* all of them, and mt76_connac_pm_ref does not fail (see PowerSave).      *)
(***************************************************************************)
EXTENDS TxToken

CONSTANTS
  Stas,        \* stations, the wcid of the device
  Senders,     \* callers of mt76_tx and mt76_wake_tx_queue
  None         \* no station

ASSUME TxScheduleAssumption == None \notin Stas

VARIABLES
  frames,      \* wcid->tx_offchannel and wcid->tx_pending of each station
  txq,         \* frames in mac80211's queue, and whether mac80211 offers it
  txList,      \* stations in phy->tx_list
  spliced,     \* stations in the list that the worker has taken over
  cur,         \* the station that the worker has taken off that list
  stage,       \* where the worker thread is
  ret,         \* ret of mt76_txq_schedule_pending
  sender,      \* each sender: what it does next, for which station
  waking,      \* who has set MT76_WORKER_SCHEDULED and goes on to wake the worker
  reset,       \* the reset: "no", "marked" (MT76_RESET) or "flushed"
  dropped      \* stations whose frames the worker has left unlisted

placeVars == <<frames, txq, txList, spliced, dropped>>
threadVars == <<cur, stage, ret>>
callVars  == <<sender, waking, reset>>
tvars     == <<vars, placeVars, threadVars, callVars>>

Queues == {"off", "pend"}
Idle   == [pc |-> "idle", sta |-> None]

TInit ==
  /\ Init
  /\ frames = [sta \in Stas |-> [q \in Queues |-> 0]]
  /\ txq = [frames |-> 0, listed |-> "no"]
  /\ txList = {} /\ spliced = {} /\ cur = None /\ stage = "asleep" /\ ret = "ok"
  /\ sender = [s \in Senders |-> Idle] /\ waking = {}
  /\ reset = "no" /\ dropped = {}

HasFrames(sta) == \E q \in Queues : frames[sta][q] > 0

Stopped == blocked = "yes" \/ reset # "no"

-----------------------------------------------------------------------------
(* mt76_tx and mt76_wake_tx_queue.                                         *)

QueueFrame(s, sta, q) ==
  /\ sender[s] = Idle /\ s \notin waking
  /\ Enqueue
  /\ frames' = [frames EXCEPT ![sta][q] = @ + 1]
  /\ sender' = [sender EXCEPT ![s] = [pc |-> "list", sta |-> sta]]
  /\ UNCHANGED <<txq, txList, spliced, dropped, threadVars, waking, reset>>

\* Mutant: a station counts as listed while the worker looks at it.
ListStationOnce(s) ==
  /\ sender[s].pc = "list"
  /\ LET sta == sender[s].sta
     IN  /\ txList' = IF sta \in spliced \cup {cur} THEN txList ELSE txList \cup {sta}
         /\ dropped' = dropped \ {sta}
  /\ sender' = [sender EXCEPT ![s] = [pc |-> "schedule", sta |-> None]]
  /\ UNCHANGED <<vars, frames, txq, spliced, threadVars, waking, reset>>

\* Under tx_lock: the station is listed unless it is in one of the two lists.
ListStation(s) ==
  /\ sender[s].pc = "list"
  /\ LET sta == sender[s].sta
     IN  /\ txList' = IF sta \in spliced THEN txList ELSE txList \cup {sta}
         /\ dropped' = dropped \ {sta}
  /\ sender' = [sender EXCEPT ![s] = [pc |-> "schedule", sta |-> None]]
  /\ UNCHANGED <<vars, frames, txq, spliced, threadVars, waking, reset>>

\* mac80211 queues a frame, offers the queue and calls mt76_wake_tx_queue.
WakeTxQueue(s) ==
  /\ sender[s] = Idle /\ s \notin waking
  /\ Enqueue
  /\ txq' = [frames |-> txq.frames + 1, listed |-> "yes"]
  /\ sender' = [sender EXCEPT ![s] = [pc |-> "schedule", sta |-> None]]
  /\ UNCHANGED <<frames, txList, spliced, dropped, threadVars, waking, reset>>

\* mt76_worker_schedule: test_and_set_bit; only who sets the bit goes on.
ScheduleWorker(s) ==
  /\ sender[s].pc = "schedule"
  /\ Schedule
  /\ sender' = [sender EXCEPT ![s] = Idle]
  /\ waking' = IF scheduled = "no" THEN waking \cup {s} ELSE waking
  /\ UNCHANGED <<placeVars, threadVars, reset>>

\* Its second half: wake_up_process, without effect on a worker that runs.
WakeUp(c) ==
  /\ c \in waking
  /\ waking' = waking \ {c}
  /\ stage' = IF stage = "asleep" THEN "ready" ELSE stage
  /\ UNCHANGED <<vars, placeVars, cur, ret, sender, reset>>

-----------------------------------------------------------------------------
(* The worker thread: __mt76_worker_fn, mt76_txq_schedule_all.             *)

\* test_and_clear_bit of MT76_WORKER_SCHEDULED, after the thread has declared
\* itself asleep; then fn runs.
WorkerBegin ==
  /\ stage = "ready"
  /\ WorkerRun
  /\ stage' = "splice" /\ ret' = "ok"
  /\ UNCHANGED <<placeVars, cur, callVars>>

WorkerSleep ==
  /\ stage = "ready" /\ scheduled = "no"
  /\ stage' = "asleep"
  /\ UNCHANGED <<vars, placeVars, cur, ret, callVars>>

\* mt76_txq_schedule_pending goes on to a station of the list, if there is one.
\* After a stop it only looks whether the station has to be listed again.
NextStation(list, r) ==
  \/ /\ list = {}
     /\ spliced' = {} /\ cur' = None /\ stage' = "txqs"
  \/ \E sta \in list :
       /\ spliced' = list \ {sta} /\ cur' = sta
       /\ stage' = IF r = "ok" THEN "off" ELSE "relist"

Splice ==
  /\ stage = "splice"
  /\ NextStation(txList, "ok")
  /\ txList' = {}
  /\ UNCHANGED <<vars, frames, txq, dropped, ret, callVars>>

\* mt76_txq_schedule_pending_wcid, under the lock of the queue.
QueueEmpty ==
  /\ stage \in Queues /\ worker = "check" /\ frames[cur][stage] = 0
  /\ stage' = IF stage = "off" THEN "pend" ELSE "relist"
  /\ UNCHANGED <<vars, placeVars, cur, ret, callVars>>

QueueStopped ==
  /\ stage \in Queues /\ worker = "check" /\ frames[cur][stage] > 0 /\ Stopped
  /\ stage' = "relist" /\ ret' = "stopped"
  /\ UNCHANGED <<vars, placeVars, cur, callVars>>

QueueUnlink ==
  /\ stage \in Queues /\ frames[cur][stage] > 0 /\ reset = "no"
  /\ WorkerCheck
  /\ frames' = [frames EXCEPT ![cur][stage] = @ - 1]
  /\ UNCHANGED <<txq, txList, spliced, dropped, threadVars, callVars>>

\* __mt76_tx_queue_skb, for a frame of a station or of mac80211.
SendFrame ==
  /\ WorkerSend
  /\ UNCHANGED <<placeVars, threadVars, callVars>>

\* Back under tx_lock.  A station that is not listed again although it has
\* frames is remembered in dropped.
Relist ==
  /\ stage = "relist"
  /\ IF \A q \in Queues : frames[cur][q] > 0
     THEN txList' = txList \cup {cur} /\ dropped' = dropped \ {cur}
     ELSE /\ txList' = txList
          /\ dropped' = IF ret = "stopped" /\ HasFrames(cur) /\ cur \notin txList
                        THEN dropped \cup {cur} ELSE dropped
  /\ NextStation(spliced, ret)
  /\ UNCHANGED <<vars, frames, txq, ret, callVars>>

\* mt76_txq_schedule_list: the next frame of mac80211.
TxqDequeue ==
  /\ stage = "txqs" /\ txq.listed = "yes" /\ txq.frames > 0 /\ reset = "no"
  /\ WorkerCheck
  /\ txq' = [txq EXCEPT !.frames = @ - 1]
  /\ UNCHANGED <<frames, txList, spliced, dropped, threadVars, callVars>>

\* During a reset the queue is taken, but not given back.
TxqNotReturned ==
  /\ stage = "txqs" /\ worker = "check" /\ reset # "no" /\ txq.listed = "yes"
  /\ txq' = [txq EXCEPT !.listed = "no"]
  /\ UNCHANGED <<vars, frames, txList, spliced, dropped, threadVars, callVars>>

\* No frame was sent in a round: fn returns.
TxqsDone ==
  /\ stage = "txqs"
  /\ txq.listed = "no" \/ txq.frames = 0 \/ blocked = "yes"
  /\ WorkerDone
  /\ stage' = "done"
  /\ UNCHANGED <<placeVars, cur, ret, callVars>>

\* Mutant: MT76_WORKER_SCHEDULED is cleared when fn is done.
WorkerEndsLate ==
  /\ stage = "done" /\ stage' = "ready"
  /\ scheduled' = "no"
  /\ UNCHANGED <<tokens, tokenCount, blocked, backlog, worker, fw, handler, resets>>
  /\ UNCHANGED <<placeVars, cur, ret, callVars>>

\* MT76_WORKER_RUNNING is cleared, and the thread declares itself asleep.
WorkerEnds ==
  /\ stage = "done" /\ stage' = "ready"
  /\ UNCHANGED <<vars, placeVars, cur, ret, callVars>>

-----------------------------------------------------------------------------
(* tx-free events and resets.                                              *)

FreeBegin(h, ids) ==
  /\ h \notin waking
  /\ FreeEvent(h, ids)
  /\ UNCHANGED <<placeVars, threadVars, callVars>>

FreeOne(h, id) == FreeToken(h, id) /\ UNCHANGED <<placeVars, threadVars, callVars>>

FreeEnd(h) ==
  /\ FreeDone(h)
  /\ waking' = IF scheduled = "no" THEN waking \cup {h} ELSE waking
  /\ UNCHANGED <<placeVars, threadVars, sender, reset>>

ResetMark ==
  /\ reset = "no" /\ resets < MaxResets
  /\ reset' = "marked"
  /\ UNCHANGED <<vars, placeVars, threadVars, sender, waking>>

\* mt76_txq_schedule_all of mt7925e_mac_reset, while the worker may be in it
\* too: nothing can be sent, and the lists are gone through all the same.
ResetFlush ==
  /\ reset = "marked" /\ reset' = "flushed"
  /\ txList' = {sta \in txList : \A q \in Queues : frames[sta][q] > 0}
  /\ dropped' = dropped \cup {sta \in txList \ txList' : HasFrames(sta)}
  /\ txq' = [txq EXCEPT !.listed = "no"]
  /\ UNCHANGED <<vars, frames, spliced, threadVars, sender, waking>>

\* mt76_worker_disable waits until the thread tests for being parked.
ResetDisable ==
  /\ reset = "flushed" /\ stage \in {"ready", "asleep"}
  /\ waking \cap Handlers = {}
  /\ ResetPark
  /\ stage' = "parked"
  /\ UNCHANGED <<placeVars, cur, ret, callVars>>

\* mt7925_tx_token_put ... mt76_worker_enable.
ResetEnable ==
  /\ stage = "parked"
  /\ ResetTokens
  /\ stage' = "ready" /\ reset' = "no"
  /\ UNCHANGED <<placeVars, cur, ret, sender, waking>>

-----------------------------------------------------------------------------
ThreadNext ==
  \/ WorkerBegin \/ WorkerSleep \/ Splice
  \/ QueueEmpty \/ QueueStopped \/ QueueUnlink \/ SendFrame \/ Relist
  \/ TxqDequeue \/ TxqNotReturned \/ TxqsDone \/ WorkerEnds

NewFrame(s) == WakeTxQueue(s) \/ \E sta \in Stas, q \in Queues : QueueFrame(s, sta, q)

SenderNext(s) == ListStation(s) \/ ScheduleWorker(s) \/ WakeUp(s)

NapiNext(h) == FreeEnd(h) \/ WakeUp(h) \/ \E id \in Ids : FreeOne(h, id)

ResetNext == ResetFlush \/ ResetDisable \/ ResetEnable

TNext ==
  \/ ThreadNext \/ ResetMark \/ ResetNext
  \/ \E s \in Senders : NewFrame(s) \/ SenderNext(s)
  \/ \E h \in Handlers : NapiNext(h) \/ \E ids \in SUBSET fw : FreeBegin(h, ids)

TSpec == TInit /\ [][TNext]_tvars

\* The worker thread runs, and so does some sender and some NAPI context that
\* has something to do; the firmware reports frames while it has any.
TFairness ==
  /\ WF_tvars(ThreadNext)
  /\ WF_tvars(\E s \in Senders : SenderNext(s))
  /\ WF_tvars(\E h \in Handlers : NapiNext(h) \/ \E ids \in SUBSET fw : FreeBegin(h, ids))

TFairSpec == TSpec /\ TFairness
-----------------------------------------------------------------------------
\* Frames of a station are never forgotten: it is listed, the worker is at it,
\* or who queued them is about to list it (mt76_tx, mt76_txq_schedule_pending).
\* The code breaks this in one place, which the worker's own step records: when
\* the data queue stops it, a station with frames in one queue only is dropped.
PendingIsListed ==
  \A sta \in Stas : HasFrames(sta) =>
    \/ sta \in txList \cup spliced \cup dropped \cup {cur}
    \/ \E s \in Senders : sender[s] = [pc |-> "list", sta |-> sta]

\* A worker that does not run with work before it and the queue open will be
\* run: its bit is set, or a caller is about to set it, and whoever set the bit
\* of a sleeping thread is about to wake it (mt76_worker_schedule against
\* __mt76_worker_fn: each tests the other's bit after it has set its own).
OpenWorkHasRunner ==
  /\ stage \in {"asleep", "ready", "done"} /\ ~Stopped
     /\ \/ txq.listed = "yes" /\ txq.frames > 0
        \/ \E sta \in txList : HasFrames(sta)
       => scheduled = "yes" \/ \E s \in Senders : sender[s].pc \in {"list", "schedule"}
  /\ stage = "asleep" /\ scheduled = "yes" => waking # {}

\* The worker does not stand still with frames to send, however often the queue
\* was blocked and unblocked, unless it dropped a station or there is a reset.
BacklogDrains ==
  backlog = MaxBacklog ~> backlog < MaxBacklog \/ dropped # {} \/ reset # "no" \/ resets > 0
============================================================================
