------------------------------ MODULE TxStatus ------------------------------
(***************************************************************************)
(* Transmit status (tx.c, mt7925/mac.c, mac80211.c).  A frame whose fate   *)
(* mac80211 wants to know gets a packet id from the idr of its station     *)
(* (wcid).  It is given back when two things have happened, in any order:  *)
(* the chip has freed its token (DMA_DONE), and its report (TXS), which    *)
(* names an index and an id, was found in the idr, or has been given up    *)
(* for.  The periodic check gives up on a frame that has been DMA_DONE for *)
(* too long, a removed station and a reset on every frame.                 *)
(*                                                                         *)
(* A critical section of status_lock is a step, and so is handing one      *)
(* frame to mac80211, which comes after the unlock.  How long ago a frame  *)
(* was DMA_DONE is left open, as is what a report says.  The chip may lose *)
(* and delay reports.                                                      *)
(***************************************************************************)
EXTENDS Integers

CONSTANTS
  Skbs,          \* frames, each sent once
  Wcids,         \* stations and links (struct mt76_wcid), each added once
  Nobody,        \* no station, or no frame
  WtblSize,      \* size of dev->wcid
  LastPid,       \* packet ids are 1 .. LastPid (MT_PACKET_ID_FIRST ... )
  MaxRecoveries  \* bound on resets

ASSUME TxStatusAssumption ==
  /\ Nobody \notin Skbs \cup Wcids
  /\ WtblSize \in Nat \ {0} /\ LastPid \in Nat \ {0} /\ MaxRecoveries \in Nat

VARIABLES
  link,        \* each station: how far it is added or removed, and wcid->idx
  table,       \* dev->wcid
  mask,        \* dev->wcid_mask
  pktid,       \* frames in the idr of their station
  wcidList,    \* dev->wcid_list
  cb,          \* each frame: its station, its mt76_tx_cb, and what became of it
  sending,     \* the tx worker and the frame it is about to send
  chip,        \* frames the firmware holds (they have a token)
  txs,         \* frames whose report is under way
  reader,      \* the handler of reports, the report and the station it looked up
  done,        \* frames that each context will hand over once it has unlocked
  given,       \* frames that mac80211 has got back
  recovery,    \* the reset
  recoveries,
  raced        \* stations removed without the worker noticing

frameVars == <<pktid, wcidList, cb, done>>
svars == <<link, table, mask, frameVars, sending, chip, txs, reader, given,
           recovery, recoveries, raced>>

Indices == 0 .. WtblSize - 1
Pids    == 1 .. LastPid
NoPid   == 0

Lowest(S) == {i \in S : \A j \in S : i <= j}

Contexts == {"txs", "free", "check", "admin"}

Unsent == [wcid |-> Nobody, idx |-> 0, pid |-> NoPid, flags |-> {}, by |-> Nobody, sta |-> Nobody]

NoSend == [pc |-> "idle", skb |-> Nobody, wcid |-> Nobody, late |-> "no"]
NoRead == [skb |-> Nobody, wcid |-> Nobody]

SInit ==
  /\ link = [w \in Wcids |-> [at |-> "absent", idx |-> 0]]
  /\ table = [i \in Indices |-> Nobody] /\ mask = {}
  /\ pktid = {} /\ wcidList = {}
  /\ cb = [f \in Skbs |-> Unsent]
  /\ sending = NoSend /\ reader = NoRead
  /\ chip = {} /\ txs = {} /\ given = {}
  /\ done = [c \in Contexts |-> {}]
  /\ recovery = "no" /\ recoveries = 0 /\ raced = {}

IdsOf(w) == {f \in pktid : cb[f].wcid = w}

\* Nobody is between the locking and the unlocking of dev.mutex.
MutexFree == recovery = "no" /\ \A w \in Wcids : link[w].at \notin {"bare", "flushed", "wiped"}

-----------------------------------------------------------------------------
(* Giving frames up or back, under status_lock.                            *)

\* Mutant: the frames are handed over without a look at DMA_DONE.
SettleAtOnce(c, W, F, flags, by) ==
  /\ pktid' = pktid \ F
  /\ wcidList' = wcidList \ {w \in W : IdsOf(w) \subseteq F}
  /\ cb' = [f \in Skbs |->
             IF f \in F THEN [cb[f] EXCEPT !.flags = @ \cup flags, !.by = by] ELSE cb[f]]
  /\ done' = [done EXCEPT ![c] = @ \cup F]

\* Frames leave the idr of the stations W with a TXS_DONE (and by for whose
\* report it was, or TXS_FAILED); an emptied station leaves wcid_list, and
\* who is DMA_DONE already will be handed over by context c.
Settle(c, W, F, flags, by) ==
  /\ pktid' = pktid \ F
  /\ wcidList' = wcidList \ {w \in W : IdsOf(w) \subseteq F}
  /\ cb' = [f \in Skbs |->
             IF f \in F THEN [cb[f] EXCEPT !.flags = @ \cup flags, !.by = by] ELSE cb[f]]
  /\ done' = [done EXCEPT ![c] = @ \cup {f \in F : "dma" \in cb[f].flags}]

GiveUp(c, W, F) == Settle(c, W, F, {"txs", "failed"}, Nobody)

\* Mutant: a frame is taken off the idr when its token is freed.
CompleteForgets(c, f) ==
  /\ chip' = chip \ {f} /\ pktid' = pktid \ {f} /\ wcidList' = wcidList
  /\ cb' = [cb EXCEPT ![f].flags = @ \cup {"dma"}]
  /\ done' = [done EXCEPT ![c] = @ \cup {f}]

\* __mt76_tx_complete_skb
Complete(c, f) ==
  /\ chip' = chip \ {f}
  /\ cb' = [cb EXCEPT ![f].flags = @ \cup {"dma"}]
  /\ done' = IF cb[f].pid = NoPid \/ "txs" \in cb[f].flags
             THEN [done EXCEPT ![c] = @ \cup {f}] ELSE done
  /\ UNCHANGED <<pktid, wcidList>>

\* mt76_tx_status_unlock: ieee80211_tx_status_ext, for the station that the
\* index of the frame now stands for.
Report(c, f) ==
  /\ f \in done[c]
  /\ done' = [done EXCEPT ![c] = @ \ {f}]
  /\ given' = given \cup {f}
  /\ cb' = [cb EXCEPT ![f].sta = table[cb[f].idx]]
  /\ UNCHANGED <<link, table, mask, pktid, wcidList, sending, chip, txs, reader,
                 recovery, recoveries, raced>>

-----------------------------------------------------------------------------
(* The tx worker, which runs in an RCU read-side section.                  *)

\* It takes a frame of a station from the lists of mt76 or mac80211.
TxPick(f, w) ==
  /\ sending = NoSend /\ recovery = "no"
  /\ cb[f] = Unsent /\ f \notin given
  /\ link[w].at \notin {"absent", "gone"}
  /\ sending' = [pc |-> "pick", skb |-> f, wcid |-> w,
                late |-> IF link[w].at = "live" THEN "no" ELSE "yes"]
  /\ UNCHANGED <<link, table, mask, frameVars, chip, txs, reader, given,
                 recovery, recoveries, raced>>

\* The frame cannot be sent (mt76_dma_tx_queue_skb fails before or in the
\* driver's tx_prepare_skb).
TxRefuse ==
  /\ sending.pc = "pick"
  /\ given' = given \cup {sending.skb} /\ sending' = NoSend
  /\ UNCHANGED <<link, table, mask, frameVars, chip, txs, reader,
                 recovery, recoveries, raced>>

\* The frame goes to the chip with its id, if it has got one.
Send(f, pid) ==
  /\ cb' = [cb EXCEPT ![f] = [Unsent EXCEPT !.wcid = sending.wcid, !.pid = pid,
                                            !.idx = link[sending.wcid].idx]]
  /\ chip' = chip \cup {f} /\ sending' = NoSend
  /\ txs' = IF pid = NoPid THEN txs ELSE txs \cup {f}

\* mt76_tx_status_skb_add looks whether somebody has the index.
TxUnknown ==
  /\ sending.pc = "pick" /\ table[link[sending.wcid].idx] = Nobody
  /\ Send(sending.skb, NoPid)
  /\ UNCHANGED <<link, table, mask, pktid, wcidList, done, reader, given,
                 recovery, recoveries, raced>>

TxCheck ==
  /\ sending.pc = "pick"
  /\ LET found == table[link[sending.wcid].idx]
     IN  /\ found # Nobody
         /\ raced' = IF found = sending.wcid THEN raced ELSE raced \cup {sending.wcid}
  /\ sending' = [sending EXCEPT !.pc = "add"]
  /\ UNCHANGED <<link, table, mask, frameVars, chip, txs, reader, given, recovery, recoveries>>

\* idr_alloc, which takes the lowest id (or fails: all are in use, or there is
\* no memory), and the list.
TxAdd ==
  /\ sending.pc = "add"
  /\ LET f    == sending.skb
         free == Pids \ {cb[g].pid : g \in IdsOf(sending.wcid)}
     IN  \/ Send(f, NoPid) /\ UNCHANGED <<pktid, wcidList>>
         \/ /\ \E pid \in Lowest(free) : Send(f, pid)
            /\ pktid' = pktid \cup {f}
            /\ wcidList' = wcidList \cup {sending.wcid}
  /\ UNCHANGED <<link, table, mask, done, reader, given, recovery, recoveries, raced>>

-----------------------------------------------------------------------------
(* Events of the chip.                                                     *)

\* mt7925_mac_tx_free, for one frame.
TxFree(f) ==
  /\ f \in chip /\ done["free"] = {} /\ recovery \in {"no", "stopping"}
  /\ Complete("free", f)
  /\ UNCHANGED <<link, table, mask, sending, txs, reader, given, recovery, recoveries, raced>>

\* The chip has nothing to report, or the report is lost.
TxsLost(f) ==
  /\ txs' = txs \ {f} /\ f \in txs
  /\ UNCHANGED <<link, table, mask, frameVars, sending, chip, reader, given,
                 recovery, recoveries, raced>>

\* mt7925_mac_add_txs looks the index up.
TxsLook(f) ==
  /\ f \in txs /\ reader = NoRead /\ done["txs"] = {} /\ recovery \in {"no", "stopping"}
  /\ txs' = txs \ {f}
  /\ LET w == table[cb[f].idx]
     IN  reader' = IF w = Nobody THEN NoRead ELSE [skb |-> f, wcid |-> w]
  /\ UNCHANGED <<link, table, mask, frameVars, sending, chip, given,
                 recovery, recoveries, raced>>

\* mt7925_mac_add_txs_skb: mt76_tx_status_skb_get finds the id,
TxsHit(f) ==
  /\ reader # NoRead /\ f \in IdsOf(reader.wcid) /\ cb[f].pid = cb[reader.skb].pid
  /\ Settle("txs", {reader.wcid}, {f}, {"txs"}, reader.skb)
  /\ reader' = NoRead
  /\ UNCHANGED <<link, table, mask, sending, chip, txs, given, recovery, recoveries, raced>>

\* or does not, and gives up on some of the station that are overdue.
TxsMiss(F) ==
  /\ reader # NoRead
  /\ \A f \in IdsOf(reader.wcid) : cb[f].pid # cb[reader.skb].pid
  /\ F \subseteq {f \in IdsOf(reader.wcid) : "dma" \in cb[f].flags}
  /\ GiveUp("txs", {reader.wcid}, F)
  /\ reader' = NoRead
  /\ UNCHANGED <<link, table, mask, sending, chip, txs, given, recovery, recoveries, raced>>

-----------------------------------------------------------------------------
(* mac_work: mt76_tx_status_check without flush.                           *)

Waiting == {f \in pktid : cb[f].wcid \in wcidList}
Overdue == {f \in Waiting : "dma" \in cb[f].flags}

Check(F) ==
  /\ done["check"] = {} /\ recovery = "no"
  /\ F \subseteq Overdue
  /\ GiveUp("check", wcidList, F)
  /\ UNCHANGED <<link, table, mask, sending, chip, txs, reader, given,
                 recovery, recoveries, raced>>

-----------------------------------------------------------------------------
(* Stations and links come and go, under dev.mutex.                        *)

\* mt76_sta_add, mt7925_mac_link_sta_add: the lowest free index.
Add(w) ==
  /\ MutexFree /\ link[w].at = "absent"
  /\ \E i \in Lowest(Indices \ mask) :
       /\ link' = [link EXCEPT ![w] = [at |-> "live", idx |-> i]]
       /\ mask' = mask \cup {i}
       /\ table' = [table EXCEPT ![i] = w]
  /\ UNCHANGED <<frameVars, sending, chip, txs, reader, given, recovery, recoveries, raced>>

\* Mutant: the station stays in dev->wcid while the grace period runs.
PreRcuRemoveStays(w) ==
  /\ MutexFree /\ link[w].at = "live"
  /\ link' = [link EXCEPT ![w].at = "hidden"]
  /\ UNCHANGED <<table, mask, frameVars, sending, chip, txs, reader, given, recovery,
                 recoveries, raced>>

\* mt76_sta_pre_rcu_remove
PreRcuRemove(w) ==
  /\ MutexFree /\ link[w].at = "live"
  /\ link' = [link EXCEPT ![w].at = "hidden"]
  /\ table' = [table EXCEPT ![link[w].idx] = Nobody]
  /\ UNCHANGED <<mask, frameVars, sending, chip, txs, reader, given, recovery, recoveries, raced>>

\* synchronize_net of mac80211 waits for who may have seen the station.
GracePeriod(w) ==
  /\ link[w].at = "hidden"
  /\ sending.wcid # w \/ sending.late = "yes"
  /\ reader.wcid # w
  /\ link' = [link EXCEPT ![w].at = "quiet"]
  /\ UNCHANGED <<table, mask, frameVars, sending, chip, txs, reader, given,
                 recovery, recoveries, raced>>

\* A link, or the station of an interface, is removed without a grace period
\* (mt792x_mac_link_bss_remove); the worker may be past its look at the table.
LinkBssRemove(w) ==
  /\ MutexFree /\ link[w].at = "live"
  /\ link' = [link EXCEPT ![w].at = "bare"]
  /\ table' = [table EXCEPT ![link[w].idx] = Nobody]
  /\ raced' = IF sending.pc = "add" /\ sending.wcid = w THEN raced \cup {w} ELSE raced
  /\ UNCHANGED <<mask, frameVars, sending, chip, txs, reader, given, recovery, recoveries>>

\* Mutant: the idr is destroyed without the flush.
FlushNothing(w) ==
  /\ link[w].at = "bare" \/ (link[w].at = "quiet" /\ MutexFree)
  /\ GiveUp("admin", {w}, {})
  /\ link' = [link EXCEPT ![w].at = "flushed"]
  /\ UNCHANGED <<table, mask, sending, chip, txs, reader, given, recovery, recoveries, raced>>

\* mt76_wcid_cleanup first flushes the idr,
CleanupFlush(w) ==
  /\ link[w].at = "bare" \/ (link[w].at = "quiet" /\ MutexFree)
  /\ GiveUp("admin", {w}, IdsOf(w))
  /\ link' = [link EXCEPT ![w].at = "flushed"]
  /\ UNCHANGED <<table, mask, sending, chip, txs, reader, given, recovery, recoveries, raced>>

\* and hands the frames over.  Then, without status_lock, idr_destroy forgets
\* the ids that the worker has added behind the flush; it knows nothing of
\* frames, and nothing of wcid_list.
IdrDestroy(w) ==
  /\ link[w].at = "flushed" /\ done["admin"] = {}
  /\ link' = [link EXCEPT ![w].at = "wiped"]
  /\ pktid' = pktid \ IdsOf(w)
  /\ UNCHANGED <<table, mask, wcidList, cb, done, sending, chip, txs, reader, given,
                 recovery, recoveries, raced>>

\* The station leaves the lists of the worker; its index is free again.
CleanupDone(w) ==
  /\ link[w].at = "wiped"
  /\ link' = [link EXCEPT ![w].at = "gone"]
  /\ mask' = mask \ {link[w].idx}
  /\ UNCHANGED <<table, frameVars, sending, chip, txs, reader, given,
                 recovery, recoveries, raced>>

-----------------------------------------------------------------------------
(* A reset: mt7925_mac_reset_work, mt7925e_mac_reset.                      *)

ResetStart ==
  /\ MutexFree /\ recoveries < MaxRecoveries /\ done["check"] = {}
  /\ recovery' = "stopping" /\ recoveries' = recoveries + 1
  /\ UNCHANGED <<link, table, mask, frameVars, sending, chip, txs, reader, given, raced>>

\* The worker and the pollers are stopped.
ResetStopped ==
  /\ recovery = "stopping"
  /\ sending = NoSend /\ reader = NoRead /\ done["txs"] = {} /\ done["free"] = {}
  /\ recovery' = "tokens"
  /\ UNCHANGED <<link, table, mask, frameVars, sending, chip, txs, reader, given,
                 recoveries, raced>>

\* mt7925_tx_token_put, one frame.
ResetToken(f) ==
  /\ recovery = "tokens" /\ f \in chip /\ done["admin"] = {}
  /\ Complete("admin", f)
  /\ UNCHANGED <<link, table, mask, sending, txs, reader, given, recovery, recoveries, raced>>

\* The receive rings lose what they hold; mt76_tx_status_check with flush at
\* the end of mt792x_dma_reset.
ResetFlushed ==
  /\ recovery = "tokens" /\ chip = {} /\ done["admin"] = {}
  /\ txs' = {}
  /\ GiveUp("admin", wcidList, Waiting)
  /\ recovery' = "flushed"
  /\ UNCHANGED <<link, table, mask, sending, chip, reader, given, recoveries, raced>>

\* Or mt792x_wfsys_reset or mt792x_dma_disable fails before that.
ResetFails ==
  /\ recovery = "tokens" /\ chip = {} /\ done["admin"] = {}
  /\ txs' = {}
  /\ recovery' = "flushed"
  /\ UNCHANGED <<link, table, mask, frameVars, sending, chip, reader, given, recoveries, raced>>

ResetEnds ==
  /\ recovery = "flushed" /\ done["admin"] = {}
  /\ recovery' = "no"
  /\ UNCHANGED <<link, table, mask, frameVars, sending, chip, txs, reader, given,
                 recoveries, raced>>

-----------------------------------------------------------------------------
TxNext == TxRefuse \/ TxUnknown \/ TxCheck \/ TxAdd
ReaderNext == (\E f \in pktid : TxsHit(f)) \/ \E F \in SUBSET Overdue : TxsMiss(F)
StationNext(w) ==
  \/ Add(w) \/ PreRcuRemove(w) \/ GracePeriod(w) \/ LinkBssRemove(w)
  \/ CleanupFlush(w) \/ IdrDestroy(w) \/ CleanupDone(w)
RecoveryNext == ResetStopped \/ (\E f \in chip : ResetToken(f)) \/ ResetFlushed \/ ResetFails \/ ResetEnds
Reports == \E c \in Contexts, f \in Skbs : Report(c, f)

SNext ==
  \/ \E f \in Skbs, w \in Wcids : TxPick(f, w)
  \/ TxNext \/ ReaderNext \/ Reports
  \/ \E f \in Skbs : TxFree(f) \/ TxsLost(f) \/ TxsLook(f)
  \/ \E F \in SUBSET Overdue : Check(F)
  \/ \E w \in Wcids : StationNext(w)
  \/ ResetStart \/ RecoveryNext

SSpec == SInit /\ [][SNext]_svars

\* Threads and handlers run; the chip frees the frames it holds, and mac_work
\* comes when all frames that wait are overdue.
SFairness ==
  /\ WF_svars(TxNext) /\ WF_svars(ReaderNext) /\ WF_svars(Reports) /\ WF_svars(RecoveryNext)
  /\ WF_svars(\E f \in chip : TxFree(f))
  /\ WF_svars(Check(Overdue))

SFairSpec == SSpec /\ SFairness
-----------------------------------------------------------------------------
STypeOK ==
  /\ link \in [Wcids -> [at : {"absent", "live", "hidden", "quiet", "bare", "flushed", "wiped",
                               "gone"},
                         idx : Indices]]
  /\ table \in [Indices -> Wcids \cup {Nobody}] /\ mask \subseteq Indices
  /\ pktid \subseteq Skbs /\ wcidList \subseteq Wcids
  /\ cb \in [Skbs -> [wcid : Wcids \cup {Nobody}, idx : Indices, pid : 0 .. LastPid,
                      flags : SUBSET {"dma", "txs", "failed"},
                      by : Skbs \cup {Nobody}, sta : Wcids \cup {Nobody}]]
  /\ sending \in [pc : {"idle", "pick", "add"}, skb : Skbs \cup {Nobody},
                 wcid : Wcids \cup {Nobody}, late : {"no", "yes"}]
  /\ reader \in [skb : Skbs \cup {Nobody}, wcid : Wcids \cup {Nobody}]
  /\ chip \subseteq Skbs /\ txs \subseteq Skbs /\ given \subseteq Skbs
  /\ done \in [Contexts -> SUBSET Skbs]
  /\ recovery \in {"no", "stopping", "tokens", "flushed"}
  /\ recoveries \in 0 .. MaxRecoveries /\ raced \subseteq Wcids

\* A frame that is on its way to mac80211 or there is nowhere else: no id leads
\* to it, the chip does not hold it, and one context hands it over once
\* (__mt76_tx_status_skb_done, whichever of report, time-out, flush and freed
\* token comes last).
GivenIsGone ==
  \A f \in Skbs :
    /\ f \in given => f \notin pktid \cup chip
    /\ \A c \in Contexts : f \in done[c] =>
         f \notin pktid \cup chip \cup given /\ \A d \in Contexts \ {c} : f \notin done[d]

\* A station whose frames have ids is on wcid_list, where checks and flushes
\* find it, and one without ids is not, neither is a removed one: unless the
\* worker was past its look at the table when a link was removed, or found
\* another station in place of the one it had (tx.c:131 only looks for
\* somebody).  Then idr_destroy can leave it there without ids, and the worker
\* can give it ids when it is gone.
IdsAreWatched ==
  \A w \in Wcids :
    /\ IdsOf(w) # {} => w \in wcidList
    /\ w \notin raced => /\ w \in wcidList => IdsOf(w) # {}
                         /\ link[w].at = "gone" => IdsOf(w) = {}

\* A report is credited to its own frame, unless that has been given up on, or
\* closed by the wrong report itself: ids are used again at once.  A frame is
\* credited to its own station, unless that is gone: so are indices.
ReportIsOwn ==
  \A f \in Skbs :
    /\ \A g \in Skbs \ {f} : cb[f].by = g =>
         "failed" \in cb[g].flags \/ cb[g].by \notin {g, Nobody} \/ cb[g].wcid \in raced
    /\ f \in given /\ cb[f].sta \notin {cb[f].wcid, Nobody} => link[cb[f].wcid].at = "gone"

\* The id of the frame was destroyed behind the flush: nobody gives up on it,
\* and no report finds it.
Forgotten(f) ==
  /\ cb[f].pid # NoPid /\ f \notin pktid /\ "txs" \notin cb[f].flags
  /\ cb[f].wcid \in raced

\* Every frame that was sent goes back to mac80211 in the end, with its report
\* lost or late, its station removed, or a reset in between; only idr_destroy
\* loses frames, and only of a station that the worker was still adding to
\* (mt76_wcid_cleanup).
FrameIsGiven == \A f \in Skbs : f \in chip ~> f \in given \/ Forgotten(f)
============================================================================
