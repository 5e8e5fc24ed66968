------------------------------ MODULE Recovery ------------------------------
(***************************************************************************)
(* System sleep and error recovery (mt7925/pci.c, mt7925/pci_mac.c,        *)
(* mt7925/mac.c): the suspend and resume callbacks and reset_work take the *)
(* same parts of the device down and up again: the interrupts, the DMA     *)
(* engine, the tx worker and NAPI.  The callbacks keep reset_work away by  *)
(* setting pm->suspended, which mt792x_reset looks at, and by flushing it. *)
(*                                                                         *)
(* Every handshake and every wait may fail.  Both kinds of receive NAPI go *)
(* by one name, as they are always switched together.  napi_disable of a   *)
(* NAPI that is disabled already waits until somebody enables it.          *)
(***************************************************************************)
EXTENDS Naturals

CONSTANTS
  Chips,    \* the chips the driver runs on: a subset of {"mt7925", "mt7927"}
  Works,    \* works of the ordered mt76.wq that may ask for a reset
  Threads,  \* threads that may ask for a reset because a command timed out
  MaxTries  \* how often reset_work tries (10)

ASSUME RecoveryAssumption ==
  /\ Chips \subseteq {"mt7925", "mt7927"}
  /\ Works \subseteq {"ps_work", "coredump_work"} /\ Works \cap Threads = {}
  /\ MaxTries \in Nat

VARIABLES
  chip,       \* dev->mt76.rev
  pm,         \* how far the suspend or resume callback is; "on" and "off": neither runs
  suspended,  \* pm->suspended
  hif,        \* the firmware's host interface
  hifIdle,    \* dev->hif_idle
  hifResumed, \* dev->hif_resumed
  up,         \* the parts that are up
  resetBit,   \* MT76_RESET
  work,       \* how far reset_work is; hw_full_reset is set unless it is "idle"
  pending,    \* whether reset_work is queued
  tries,      \* i in mt7925_mac_reset_work
  verdict,    \* how the last recovery ended
  caller,     \* "passed": the tests of mt792x_reset are done, queue_work is not
  mishaps     \* history: what has gone wrong so far

pmVars   == <<pm, suspended>>
hifVars  == <<hif, hifIdle, hifResumed>>
upVars   == <<up, resetBit>>
workVars == <<work, pending, tries, verdict>>
rvars    == <<chip, pmVars, hifVars, upVars, workVars, caller, mishaps>>

Napis   == {"rx_napi", "tx_napi"}
Parts   == {"irq", "dma", "worker"} \cup Napis
Callers == Works \cup Threads

\* Events reach the driver.
RxAlive == {"irq", "dma", "rx_napi"} \subseteq up

Init ==
  /\ chip \in Chips
  /\ pm = "on" /\ suspended = "no"
  /\ hif = "running" /\ hifIdle = "no" /\ hifResumed = "no"
  /\ up = Parts /\ resetBit = "no"
  /\ work = "idle" /\ pending = "no" /\ tries = 0 /\ verdict = "ok"
  /\ caller = [c \in Callers |-> "idle"]
  /\ mishaps = {}

-----------------------------------------------------------------------------
(* mt792x_reset.                                                           *)

\* hw_full_reset and suspended are read without a lock; the works of mt76.wq
\* run one at a time.
MayReset == work = "idle" /\ suspended = "no"

ResetTest(c) ==
  /\ caller[c] = "idle" /\ MayReset
  /\ c \in Threads => pm = "on"
  /\ c \in Works => \A d \in Works : caller[d] = "idle"
  /\ caller' = [caller EXCEPT ![c] = "passed"]
  /\ UNCHANGED <<chip, pmVars, hifVars, upVars, workVars, mishaps>>

\* "raced": the callbacks count on reset_work to stay away once they have
\* flushed it.  Either the test came before pm->suspended was set, or the reset
\* that was flushed has cleared it (ResetEnd).
ResetQueue(c) ==
  /\ caller[c] = "passed"
  /\ caller' = [caller EXCEPT ![c] = "idle"]
  /\ pending' = "yes"
  /\ mishaps' = IF pm \in {"on", "flush"} THEN mishaps ELSE mishaps \cup {"raced"}
  /\ UNCHANGED <<chip, pmVars, hifVars, upVars, work, tries, verdict>>

-----------------------------------------------------------------------------
(* mt7925_pci_suspend.                                                     *)

\* User space is frozen and mac80211 suspended: no command is waited for.
SuspendBegin ==
  /\ pm = "on" /\ \A c \in Threads : caller[c] = "idle"
  /\ pm' = "flush" /\ suspended' = "yes" /\ hifResumed' = "no"
  /\ UNCHANGED <<chip, hif, hifIdle, upVars, workVars, caller, mishaps>>

\* Mutant: reset_work is not flushed.
SuspendFlushNot ==
  /\ pm = "flush" /\ pm' = "cancel"
  /\ UNCHANGED <<chip, suspended, hifVars, upVars, workVars, caller, mishaps>>

SuspendFlush ==
  /\ pm = "flush" /\ work = "idle" /\ pending = "no"
  /\ pm' = "cancel"
  /\ UNCHANGED <<chip, suspended, hifVars, upVars, workVars, caller, mishaps>>

\* ps_work and wake_work are cancelled; one that runs is waited for.
SuspendCancel ==
  /\ pm = "cancel" /\ \A c \in Works \cap {"ps_work"} : caller[c] = "idle"
  /\ pm' = "own"
  /\ UNCHANGED <<chip, suspended, hifVars, upVars, workVars, caller, mishaps>>

\* drv_pmctrl or fw_pmctrl fails and asks for a reset itself, which is heard
\* only when the reset that was flushed has cleared pm->suspended.
HandshakeFails(how) ==
  \/ ~MayReset /\ mishaps' = mishaps \cup how /\ UNCHANGED pending
  \/ MayReset /\ mishaps' = mishaps \cup how \cup {"raced"} /\ pending' = "yes"

\* drv_pmctrl, and the command to suspend the host interface, not waited for.
SuspendOwn ==
  /\ pm = "own"
  /\ \/ /\ pm' = "idle" /\ hif' = IF "dma" \in up THEN "suspending" ELSE hif
        /\ UNCHANGED <<pending, mishaps>>
     \/ pm' = "unwind" /\ HandshakeFails({}) /\ UNCHANGED hif
  /\ UNCHANGED <<chip, suspended, hifIdle, hifResumed, upVars, work, tries, verdict, caller>>

\* wait_event_timeout for hif_idle.
SuspendWait ==
  /\ pm = "idle"
  /\ IF hifIdle = "yes"
     THEN pm' = "tx" /\ UNCHANGED mishaps
     ELSE pm' = "unwind" /\ mishaps' = mishaps \cup {"abandoned"}
  /\ UNCHANGED <<chip, suspended, hifVars, upVars, workVars, caller>>

SuspendTx ==
  /\ pm = "tx" /\ "tx_napi" \in up
  /\ up' = up \ {"tx_napi", "worker"}
  /\ pm' = "rx"
  /\ UNCHANGED <<chip, suspended, hifVars, resetBit, workVars, caller, mishaps>>

SuspendRx ==
  /\ pm = "rx" /\ "rx_napi" \in up
  /\ up' = up \ {"rx_napi", "dma", "irq"}
  /\ pm' = "fwown"
  /\ UNCHANGED <<chip, suspended, hifVars, resetBit, workVars, caller, mishaps>>

SuspendFwOwn ==
  /\ pm = "fwown"
  /\ \/ pm' = "off" /\ UNCHANGED <<pending, mishaps>>
     \/ pm' = "restore" /\ HandshakeFails({"abandoned"})
  /\ UNCHANGED <<chip, suspended, hifVars, upVars, work, tries, verdict, caller>>

\* Mutant: the restore path forgets NAPI.
SuspendRestoreNothing ==
  /\ pm = "restore"
  /\ pm' = "unwind"
  /\ UNCHANGED <<chip, suspended, hifVars, upVars, workVars, caller, mishaps>>

\* restore_napi: only NAPI comes back.  However the wait for hif_resumed ends,
\* err is negative.
SuspendRestore ==
  /\ pm = "restore"
  /\ up' = up \cup Napis
  /\ hif' = IF "dma" \in up THEN "resuming" ELSE hif
  /\ pm' = "unwind"
  /\ UNCHANGED <<chip, suspended, hifIdle, hifResumed, resetBit, workVars, caller, mishaps>>

\* Mutant: the error is lost on the way.
UnwindQuiet ==
  /\ pm = "unwind"
  /\ pm' = "on" /\ suspended' = "no"
  /\ UNCHANGED <<chip, hifVars, upVars, workVars, caller, mishaps>>

\* restore_suspend with an error, and the end of a resume that failed or has
\* to restore a hibernated chip: a reset is asked for.
Unwind ==
  /\ pm = "unwind"
  /\ pm' = "on" /\ suspended' = "no"
  /\ pending' = IF work = "idle" THEN "yes" ELSE pending
  /\ UNCHANGED <<chip, hifVars, upVars, work, tries, verdict, caller, mishaps>>

-----------------------------------------------------------------------------
(* _mt7925_pci_resume.                                                     *)

\* Mutant: hif_idle keeps what the last suspend has set.
ResumeBeginStale ==
  /\ pm = "off"
  /\ \/ pm' = "up" /\ UNCHANGED <<pending, mishaps>>
     \/ pm' = "unwind" /\ HandshakeFails({"unowned"})
  /\ UNCHANGED <<chip, suspended, hifVars, upVars, work, tries, verdict, caller>>

\* drv_pmctrl; when it fails, nothing is brought up.
ResumeBegin ==
  /\ pm = "off"
  /\ hifIdle' = "no"
  /\ \/ pm' = "up" /\ UNCHANGED <<pending, mishaps>>
     \/ pm' = "unwind" /\ HandshakeFails({"unowned"})
  /\ UNCHANGED <<chip, suspended, hif, hifResumed, upVars, work, tries, verdict, caller>>

\* Interrupts, DMA, worker and NAPI; then the command to resume, or the reset
\* that follows hibernation.
ResumeUp ==
  /\ pm = "up"
  /\ up' = Parts
  /\ \/ pm' = "rwait" /\ hif' = "resuming"
     \/ pm' = "unwind" /\ UNCHANGED hif
  /\ UNCHANGED <<chip, suspended, hifIdle, hifResumed, resetBit, workVars, caller, mishaps>>

ResumeWait ==
  /\ pm = "rwait"
  /\ pm' = IF hifResumed = "yes" THEN "resumed" ELSE "unwind"
  /\ UNCHANGED <<chip, suspended, hifVars, upVars, workVars, caller, mishaps>>

ResumeEnd ==
  /\ pm = "resumed"
  /\ pm' = "on" /\ suspended' = "no"
  /\ UNCHANGED <<chip, hifVars, upVars, workVars, caller, mishaps>>

\* mt7925_mcu_handle_hif_ctrl_basic.
HifEvent ==
  /\ RxAlive
  /\ \/ hif = "suspending" /\ hif' = "suspended" /\ hifIdle' = "yes" /\ UNCHANGED hifResumed
     \/ hif = "resuming" /\ hif' = "running" /\ hifResumed' = "yes" /\ UNCHANGED hifIdle
  /\ UNCHANGED <<chip, pmVars, upVars, workVars, caller, mishaps>>

-----------------------------------------------------------------------------
(* mt7925_mac_reset_work and mt7925e_mac_reset.                            *)

\* mt76.wq is ordered: reset_work runs when the other works do not.
ResetBegin ==
  /\ work = "idle" /\ pending = "yes" /\ \A c \in Works : caller[c] = "idle"
  /\ work' = "attempt" /\ pending' = "no" /\ tries' = 0
  /\ UNCHANGED <<chip, pmVars, hifVars, upVars, verdict, caller, mishaps>>

\* MT7927 is refused.
ResetAttempt ==
  /\ work = "attempt" /\ tries < MaxTries
  /\ IF chip = "mt7927"
     THEN tries' = tries + 1 /\ UNCHANGED <<upVars, work>>
     ELSE /\ up' = up \ {"irq", "worker"} /\ resetBit' = "yes"
          /\ work' = "rx" /\ UNCHANGED tries
  /\ UNCHANGED <<chip, pmVars, hifVars, pending, verdict, caller, mishaps>>

ResetRx ==
  /\ work = "rx" /\ "rx_napi" \in up
  /\ up' = up \ {"rx_napi"}
  /\ work' = "tx"
  /\ UNCHANGED <<chip, pmVars, hifVars, resetBit, pending, tries, verdict, caller, mishaps>>

ResetTx ==
  /\ work = "tx" /\ "tx_napi" \in up
  /\ up' = up \ {"tx_napi"}
  /\ work' = "dma"
  /\ UNCHANGED <<chip, pmVars, hifVars, resetBit, pending, tries, verdict, caller, mishaps>>

\* The result of mt792x_wpdma_reset is dropped: the engine may stay off.
ResetDma ==
  /\ work = "dma"
  /\ \E on \in {{"dma"}, {}} : up' = (up \ {"dma"}) \cup on \cup Napis \cup {"irq"}
  /\ hif' = "running"
  /\ work' = "own"
  /\ UNCHANGED <<chip, pmVars, hifIdle, hifResumed, resetBit, pending, tries, verdict,
                 caller, mishaps>>

\* When fw_pmctrl fails, mac_reset returns at once.
ResetOwn ==
  /\ work = "own"
  /\ \/ work' = "load" /\ UNCHANGED tries
     \/ work' = "attempt" /\ tries' = tries + 1
  /\ UNCHANGED <<chip, pmVars, hifVars, upVars, pending, verdict, caller, mishaps>>

\* The firmware is loaded and configured over the DMA engine; any error leads
\* to "out", which success reaches too.
ResetLoad ==
  /\ work = "load"
  /\ up' = up \cup {"worker"} /\ resetBit' = "no"
  /\ \/ "dma" \in up /\ work' = "abort" /\ verdict' = "ok" /\ UNCHANGED tries
     \/ work' = "attempt" /\ tries' = tries + 1 /\ UNCHANGED verdict
  /\ UNCHANGED <<chip, pmVars, hifVars, pending, caller, mishaps>>

ResetGiveUp ==
  /\ work = "attempt" /\ tries = MaxTries
  /\ work' = "abort" /\ verdict' = "failed"
  /\ UNCHANGED <<chip, pmVars, hifVars, upVars, pending, tries, caller, mishaps>>

\* A scan is reported aborted (see Scan).
ResetAbort ==
  /\ work = "abort" /\ work' = "end"
  /\ UNCHANGED <<chip, pmVars, hifVars, upVars, pending, tries, verdict, caller, mishaps>>

ResetEnd ==
  /\ work = "end" /\ work' = "idle"
  /\ suspended' = "no"
  /\ UNCHANGED <<chip, pm, hifVars, upVars, pending, tries, verdict, caller, mishaps>>

-----------------------------------------------------------------------------
SuspendNext ==
  \/ SuspendFlush \/ SuspendCancel \/ SuspendOwn \/ SuspendWait \/ SuspendTx
  \/ SuspendRx \/ SuspendFwOwn \/ SuspendRestore \/ Unwind

ResumeNext == ResumeUp \/ ResumeWait \/ ResumeEnd

\* The steps of a reset that need, or not, dev->mutex.
ResetHeld == ResetRx \/ ResetTx \/ ResetDma \/ ResetOwn \/ ResetLoad
ResetFree == ResetBegin \/ ResetGiveUp \/ ResetEnd

Quiet ==
  \/ \E c \in Callers : ResetTest(c) \/ ResetQueue(c)
  \/ SuspendNext \/ ResumeBegin \/ ResumeNext \/ HifEvent
  \/ ResetHeld \/ ResetFree

Next == SuspendBegin \/ ResetAttempt \/ ResetAbort \/ Quiet

Spec == Init /\ [][Next]_rvars

\* Threads and works run on, mt76.wq runs its works in the order they were
\* queued, and flush_work waits for one run of reset_work only.  Nobody has to
\* suspend, to resume or to ask for a reset.
Fairness ==
  /\ WF_rvars(SuspendNext) /\ SF_rvars(SuspendFlush) /\ WF_rvars(ResumeNext)
  /\ SF_rvars(ResetBegin) /\ WF_rvars(ResetFree \/ ResetAttempt \/ ResetHeld \/ ResetAbort)
  /\ \A c \in Callers : WF_rvars(ResetQueue(c))

FairSpec == Spec /\ Fairness
-----------------------------------------------------------------------------
PmStages == {"on", "flush", "cancel", "own", "idle", "tx", "rx", "fwown", "off",
             "restore", "unwind", "up", "rwait", "resumed"}

TypeOK ==
  /\ chip \in {"mt7925", "mt7927"}
  /\ pm \in PmStages /\ suspended \in {"yes", "no"}
  /\ hif \in {"running", "suspending", "suspended", "resuming"}
  /\ hifIdle \in {"yes", "no"} /\ hifResumed \in {"yes", "no"}
  /\ up \subseteq Parts /\ resetBit \in {"yes", "no"}
  /\ work \in {"idle", "attempt", "rx", "tx", "dma", "own", "load", "abort", "end"}
  /\ pending \in {"yes", "no"} /\ tries \in 0 .. MaxTries
  /\ verdict \in {"ok", "failed"}
  /\ caller \in [Callers -> {"idle", "passed"}]
  /\ mishaps \subseteq {"raced", "abandoned", "unowned"}

\* Once the callbacks and reset_work are through, the whole device is up again,
\* whatever failed on the way: a callback that leaves parts down has asked for
\* the reset that brings them up.  Not when all attempts of the last reset
\* failed, as they do on MT7927, and not when a reset overtook a suspend.
OperationalAtRest ==
  pm = "on" /\ work = "idle" /\ pending = "no" /\ verdict = "ok" /\ "raced" \notin mishaps
  => up = Parts /\ resetBit = "no" /\ suspended = "no"

\* A device that was suspended stays quiet: nothing is up and no reset comes in
\* between, unless one was queued after reset_work was flushed (ResetQueue).
SuspendedIsQuiet ==
  pm = "off" /\ "raced" \notin mishaps => up = {} /\ work = "idle" /\ pending = "no"

\* The engine is stopped only when the firmware's host interface is idle now;
\* hif_idle tells that as long as no suspend was abandoned, since only a resume
\* clears it.
HifIdleIsFresh ==
  pm \in {"tx", "rx", "fwown"} /\ mishaps \cap {"raced", "abandoned"} = {}
  => hif = "suspended"

\* The callbacks return, again and again, unless a reset overtook them or an
\* earlier resume could not wake the chip.
PmReturns ==
  []<>(pm \in {"on", "off"} \/ mishaps \cap {"raced", "unowned"} # {})

\* reset_work comes to its end ("system error recovery", mt7925/mac.c).
ResetEnds == work # "idle" ~> work = "idle"
============================================================================
