-------------------------------- MODULE Scan --------------------------------
(***************************************************************************)
(* Hardware scans (mt7925/mcu.c, mt7925/main.c) beside system sleep and    *)
(* error recovery.  mac80211 asks for a scan under dev->mutex and then     *)
(* waits for ieee80211_scan_completed, which three contexts call: scan_work*)
(* for an event of the firmware, the cancelling thread, and reset_work,    *)
(* which holds no lock then.  Whoever clears MT76_HW_SCANNING reports, in  *)
(* a step of its own.                                                      *)
(***************************************************************************)
EXTENDS Recovery

CONSTANT MaxEvents  \* bound: events of the firmware that scan_work has not seen

ASSUME ScanAssumption == MaxEvents \in Nat

VARIABLES
  request,   \* mac80211: "none", "asked", "answered" before the call returned, "waiting"
  scanning,  \* MT76_HW_SCANNING
  op,        \* the thread that holds dev->mutex: "none", "scan" or "cancel"
  fwScan,    \* whether the firmware scans
  events,    \* SCAN_DONE events in the rings and in scan_event_list
  reporting, \* who has cleared the bit and has not reported yet
  overtaken  \* history: a scan command failed while somebody was reporting, and it
             \* has not come to a rest since, with the bit clear and all reported

bitVars  == <<scanning, reporting>>
scanVars == <<request, bitVars, op, fwScan, events, overtaken>>
vars     == <<rvars, scanVars>>

ScanInit ==
  /\ Init
  /\ request = "none" /\ scanning = "no" /\ op = "none"
  /\ fwScan = "no" /\ events = 0
  /\ reporting = {} /\ overtaken = "no"

MutexFree == op = "none" /\ work \notin {"rx", "tx", "dma", "own", "load"}

Reporters == {"scan_work", "cancel", "reset_work"}

\* Mutant: the bit is cleared and the end reported, whatever the bit was.
ClearAlways(r) == scanning' = "no" /\ reporting' = reporting \cup {r}

\* test_and_clear_bit of MT76_HW_SCANNING
TestAndClear(r) ==
  /\ scanning' = "no"
  /\ reporting' = IF scanning = "yes" THEN reporting \cup {r} ELSE reporting

\* ieee80211_scan_completed
Complete(r) ==
  /\ r \in reporting /\ reporting' = reporting \ {r}
  /\ request' = IF request = "asked" THEN "answered"
                ELSE IF request = "waiting" THEN "none" ELSE request
  /\ overtaken' = IF reporting' = {} /\ scanning = "no" THEN "no" ELSE overtaken
  /\ UNCHANGED <<rvars, scanning, op, fwScan, events>>

-----------------------------------------------------------------------------
\* mt7925_hw_scan up to the command.
HwScan ==
  /\ pm = "on" /\ request = "none" /\ scanning = "no" /\ MutexFree
  /\ scanning' = "yes" /\ request' = "asked" /\ op' = "scan"
  /\ UNCHANGED <<rvars, reporting, fwScan, events, overtaken>>

\* The firmware takes the command; a scan that still runs is replaced.
FwScan ==
  /\ op = "scan" /\ fwScan = "no" /\ "dma" \in up
  /\ fwScan' = "yes"
  /\ UNCHANGED <<rvars, request, bitVars, op, events, overtaken>>

\* The command is answered.
HwScanOk ==
  /\ op = "scan" /\ fwScan = "yes" /\ RxAlive
  /\ request' = IF request = "asked" THEN "waiting" ELSE "none"
  /\ op' = "none"
  /\ UNCHANGED <<rvars, bitVars, fwScan, events, overtaken>>

\* The command timed out; the thread has asked for a reset (ResetTest).
HwScanFail ==
  /\ op = "scan"
  /\ scanning' = "no" /\ request' = "none" /\ op' = "none"
  /\ overtaken' = IF reporting = {} THEN "no" ELSE "yes"
  /\ UNCHANGED <<rvars, reporting, fwScan, events>>

\* The firmware is done.
ScanDone ==
  /\ fwScan = "yes" /\ RxAlive /\ events < MaxEvents
  /\ fwScan' = "no" /\ events' = events + 1
  /\ UNCHANGED <<rvars, request, bitVars, op, overtaken>>

\* mt7925_scan_work with one event.  The sequence number is not compared.
ScanWork ==
  /\ events > 0 /\ "scan_work" \notin reporting
  /\ events' = events - 1 /\ TestAndClear("scan_work")
  /\ UNCHANGED <<rvars, request, op, fwScan, overtaken>>

\* mt7925_cancel_hw_scan: reported before the firmware is told.
CancelScan ==
  /\ pm = "on" /\ request = "waiting" /\ MutexFree
  /\ TestAndClear("cancel") /\ op' = "cancel"
  /\ UNCHANGED <<rvars, request, fwScan, events, overtaken>>

\* The command is answered, or times out and the firmware goes on.
CancelEnd ==
  /\ op = "cancel" /\ "cancel" \notin reporting
  /\ op' = "none"
  /\ fwScan' \in {fwScan, "no"}
  /\ UNCHANGED <<rvars, request, bitVars, events, overtaken>>

-----------------------------------------------------------------------------
(* Sleep and recovery.                                                     *)

\* mac80211 has cancelled its scan.
SleepBegin ==
  /\ request = "none" /\ op = "none"
  /\ SuspendBegin
  /\ UNCHANGED scanVars

\* reset_work locks dev->mutex.
RecoveryAttempt ==
  /\ op = "none"
  /\ ResetAttempt
  /\ UNCHANGED scanVars

\* The chip is reset: the firmware forgets the scan.
RecoveryDma ==
  /\ ResetDma
  /\ fwScan' = "no"
  /\ UNCHANGED <<request, bitVars, op, events, overtaken>>

\* Mutant: the scan is forgotten.
RecoveryAbortQuiet ==
  /\ ResetAbort
  /\ UNCHANGED scanVars

RecoveryAbort ==
  /\ ResetAbort
  /\ TestAndClear("reset_work")
  /\ UNCHANGED <<request, op, fwScan, events, overtaken>>

\* The steps that need no lock; the end comes after the report.
RecoveryFree ==
  /\ ResetFree /\ "reset_work" \notin reporting
  /\ UNCHANGED scanVars

RecoveryStep ==
  /\ \/ \E c \in Callers : ResetTest(c) \/ ResetQueue(c)
     \/ SuspendNext \/ ResumeBegin \/ ResumeNext \/ HifEvent
     \/ ResetRx \/ ResetTx \/ ResetOwn \/ ResetLoad
  /\ UNCHANGED scanVars

ScanNext ==
  \/ HwScan \/ FwScan \/ HwScanOk \/ HwScanFail \/ ScanDone \/ ScanWork
  \/ CancelScan \/ CancelEnd
  \/ \E r \in Reporters : Complete(r)
  \/ SleepBegin \/ RecoveryAttempt \/ RecoveryDma \/ RecoveryAbort \/ RecoveryFree
  \/ RecoveryStep

ScanSpec == ScanInit /\ [][ScanNext]_vars

\* The fairness of Recovery, and the firmware ends every scan.
ScanFairness ==
  /\ WF_vars((SuspendNext \/ ResumeNext) /\ UNCHANGED scanVars)
  /\ SF_vars(SuspendFlush /\ UNCHANGED scanVars) /\ SF_vars(ResetBegin /\ UNCHANGED scanVars)
  /\ WF_vars(\/ RecoveryAttempt \/ RecoveryDma \/ RecoveryAbort \/ Complete("reset_work")
             \/ (ResetRx \/ ResetTx \/ ResetOwn \/ ResetLoad) /\ UNCHANGED scanVars
             \/ RecoveryFree)
  /\ WF_vars((\E c \in Works : ResetQueue(c)) /\ UNCHANGED scanVars)
  /\ WF_vars(HwScanOk \/ HwScanFail \/ Complete("cancel") \/ CancelEnd)
  /\ WF_vars(ScanDone) /\ WF_vars(ScanWork \/ Complete("scan_work"))

FairScanSpec == ScanSpec /\ ScanFairness
-----------------------------------------------------------------------------
ScanTypeOK ==
  /\ request \in {"none", "asked", "answered", "waiting"}
  /\ scanning \in {"yes", "no"}
  /\ op \in {"none", "scan", "cancel"}
  /\ fwScan \in {"yes", "no"}
  /\ events \in 0 .. MaxEvents
  /\ reporting \subseteq Reporters /\ overtaken \in {"yes", "no"}

\* While mac80211 has a request without an answer, the bit is set or one context
\* that has cleared it is about to report, and otherwise neither: mac80211 is
\* never told twice that a scan is over, and never left without somebody who
\* will tell it (mt7925_mcu_hw_scan, mt7925_scan_work, mt7925_mcu_cancel_hw_scan,
\* mt7925_mac_reset_work).  Only a scan command that fails between the clearing
\* and the report lets that report come after its scan, where it can end the
\* next one.
ScanIsAnsweredOnce ==
  overtaken = "no" =>
    /\ request \in {"asked", "waiting"} <=> scanning = "yes" \/ reporting # {}
    /\ scanning = "yes" => reporting = {}
    /\ \A r, q \in reporting : r = q

\* mac80211 is told of the end of every scan, also when the scan dies with the
\* firmware: again and again no scan is waited for.
ScanEnds == []<>(request # "waiting")
============================================================================
