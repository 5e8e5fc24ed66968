--------------------------- MODULE RecoveryProofs ---------------------------
(***************************************************************************)
(* Proofs about Recovery and Scan, for any set of chips and callers and    *)
(* any number of attempts: what is up when nothing runs, while the device  *)
(* is suspended and when the DMA engine is stopped, that NAPI is never     *)
(* disabled twice, and that one context at a time owes mac80211 the end of *)
(* its scan.                                                               *)
(*                                                                         *)
(* None of them is inductive.  AloneInv says that the callbacks and        *)
(* reset_work exclude each other unless a reset raced; UpInv follows the   *)
(* parts through the stages of both, and NapiInv says between which steps  *)
(* NAPI is down; BitInv ties MT76_RESET to the attempts that set it and    *)
(* leaves them a try; HifInv says who can still set hif_idle.  ScanInv     *)
(* adds that a request is open while its command is under way.             *)
(***************************************************************************)
EXTENDS Scan, TLAPS

NotRaced == "raced" \notin mishaps

AloneInv == NotRaced /\ pm \notin {"on", "flush"} => work = "idle" /\ pending = "no"

BitInv ==
  /\ resetBit = "yes" =>
       verdict = "failed" \/ work \in {"attempt", "rx", "tx", "dma", "own", "load"}
  /\ work \in {"rx", "tx", "dma", "own", "load"} => tries < MaxTries
  /\ pm = "on" => suspended = "no"

\* The parts while reset_work runs, while nothing runs, and in a callback.
UpInv ==
  /\ NotRaced /\ work \in {"own", "load"} => Napis \cup {"irq"} \subseteq up
  /\ NotRaced /\ work \in {"abort", "end"} /\ verdict = "ok" => up = Parts
  /\ NotRaced /\ pm \in {"on", "flush", "cancel", "own", "idle", "tx"}
       /\ work = "idle" /\ pending = "no" /\ verdict = "ok" => up = Parts
  /\ NotRaced /\ pm = "rx" => up \cap {"tx_napi", "worker"} = {}
  /\ NotRaced /\ pm \in {"fwown", "off", "up"} => up = {}
  /\ NotRaced /\ pm \in {"rwait", "resumed"} => up = Parts

HifInv ==
  mishaps \cap {"raced", "abandoned"} = {} =>
    /\ hifIdle = "yes" => hif = "suspended" /\ pm \in {"idle", "tx", "rx", "fwown", "off"}
    /\ hif = "suspending" => pm = "idle"
    /\ pm \in {"tx", "rx", "fwown"} => hifIdle = "yes"

RecInv == TypeOK /\ AloneInv /\ BitInv /\ UpInv /\ HifInv

-----------------------------------------------------------------------------
LEMMA RecInit == Init => RecInv
  BY RecoveryAssumption
  DEF Init, RecInv, TypeOK, AloneInv, BitInv, UpInv, HifInv, NotRaced, PmStages

LEMMA RecStep == RecInv /\ [Next]_rvars => RecInv'
<1> SUFFICES ASSUME RecInv, [Next]_rvars PROVE RecInv'
  OBVIOUS
<1> USE DEF pmVars, hifVars, upVars, workVars, Parts, Napis
<1>0. TypeOK /\ AloneInv /\ BitInv /\ UpInv /\ HifInv /\ MaxTries \in Nat
  BY RecoveryAssumption DEF RecInv
<1>1. ASSUME NEW c \in Callers, ResetTest(c) PROVE RecInv'
  <2>1. TypeOK'
    BY <1>0, <1>1 DEF TypeOK, PmStages, ResetTest, MayReset
  <2>2. AloneInv' /\ BitInv'
    BY <1>0, <1>1 DEF TypeOK, AloneInv, BitInv, NotRaced, ResetTest, MayReset
  <2>3. UpInv'
    BY <1>0, <1>1 DEF TypeOK, AloneInv, UpInv, NotRaced, ResetTest, MayReset
  <2>4. HifInv'
    BY <1>0, <1>1 DEF TypeOK, AloneInv, HifInv, ResetTest, MayReset
  <2> QED
    BY <2>1, <2>2, <2>3, <2>4 DEF RecInv
<1>2. ASSUME NEW c \in Callers, ResetQueue(c) PROVE RecInv'
  <2>1. TypeOK'
    BY <1>0, <1>2 DEF TypeOK, PmStages, ResetQueue
  <2>2. AloneInv' /\ BitInv'
    BY <1>0, <1>2 DEF TypeOK, AloneInv, BitInv, NotRaced, ResetQueue
  <2>3. UpInv'
    BY <1>0, <1>2 DEF TypeOK, AloneInv, UpInv, NotRaced, ResetQueue
  <2>4. HifInv'
    BY <1>0, <1>2 DEF TypeOK, AloneInv, HifInv, ResetQueue
  <2> QED
    BY <2>1, <2>2, <2>3, <2>4 DEF RecInv
<1>3. CASE SuspendBegin
  <2>1. TypeOK'
    BY <1>0, <1>3 DEF TypeOK, PmStages, SuspendBegin
  <2>2. AloneInv' /\ BitInv'
    BY <1>0, <1>3 DEF TypeOK, AloneInv, BitInv, NotRaced, SuspendBegin
  <2>3. UpInv'
    BY <1>0, <1>3 DEF TypeOK, AloneInv, UpInv, NotRaced, SuspendBegin
  <2>4. HifInv'
    BY <1>0, <1>3 DEF TypeOK, AloneInv, HifInv, SuspendBegin
  <2> QED
    BY <2>1, <2>2, <2>3, <2>4 DEF RecInv
<1>4. CASE SuspendFlush
  <2>1. TypeOK'
    BY <1>0, <1>4 DEF TypeOK, PmStages, SuspendFlush
  <2>2. AloneInv' /\ BitInv'
    BY <1>0, <1>4 DEF TypeOK, AloneInv, BitInv, NotRaced, SuspendFlush
  <2>3. UpInv'
    BY <1>0, <1>4 DEF TypeOK, AloneInv, UpInv, NotRaced, SuspendFlush
  <2>4. HifInv'
    BY <1>0, <1>4 DEF TypeOK, AloneInv, HifInv, SuspendFlush
  <2> QED
    BY <2>1, <2>2, <2>3, <2>4 DEF RecInv
<1>5. CASE SuspendCancel
  <2>1. TypeOK'
    BY <1>0, <1>5 DEF TypeOK, PmStages, SuspendCancel
  <2>2. AloneInv' /\ BitInv'
    BY <1>0, <1>5 DEF TypeOK, AloneInv, BitInv, NotRaced, SuspendCancel
  <2>3. UpInv'
    BY <1>0, <1>5 DEF TypeOK, AloneInv, UpInv, NotRaced, SuspendCancel
  <2>4. HifInv'
    BY <1>0, <1>5 DEF TypeOK, AloneInv, HifInv, SuspendCancel
  <2> QED
    BY <2>1, <2>2, <2>3, <2>4 DEF RecInv
<1>6. CASE SuspendOwn
  <2>1. TypeOK'
    <3>1. mishaps' \subseteq {"raced", "abandoned", "unowned"} /\ pending' \in {"yes", "no"}
      BY <1>0, <1>6 DEF TypeOK, SuspendOwn, HandshakeFails
    <3>2. pm' \in PmStages /\ hif' \in {"running", "suspending", "suspended", "resuming"}
      BY <1>0, <1>6 DEF TypeOK, PmStages, SuspendOwn
    <3> QED
      BY <1>0, <1>6, <3>1, <3>2 DEF TypeOK, SuspendOwn
  <2>2. AloneInv' /\ BitInv'
    BY <1>0, <1>6 DEF TypeOK, AloneInv, BitInv, NotRaced, SuspendOwn, HandshakeFails
  <2>3. UpInv'
    BY <1>0, <1>6 DEF TypeOK, AloneInv, UpInv, NotRaced, SuspendOwn, HandshakeFails
  <2>4. HifInv'
    BY <1>0, <1>6 DEF TypeOK, AloneInv, HifInv, SuspendOwn, HandshakeFails
  <2> QED
    BY <2>1, <2>2, <2>3, <2>4 DEF RecInv
<1>7. CASE SuspendWait
  <2>1. TypeOK'
    <3>1. mishaps' \subseteq {"raced", "abandoned", "unowned"}
      BY <1>0, <1>7 DEF TypeOK, PmStages, SuspendWait
    <3>2. pm' \in PmStages
      BY <1>0, <1>7 DEF TypeOK, PmStages, SuspendWait
    <3> QED
      BY <1>0, <1>7, <3>1, <3>2 DEF TypeOK, SuspendWait
  <2>2. AloneInv' /\ BitInv'
    BY <1>0, <1>7 DEF TypeOK, AloneInv, BitInv, NotRaced, SuspendWait
  <2>3. UpInv'
    BY <1>0, <1>7 DEF TypeOK, AloneInv, UpInv, NotRaced, SuspendWait
  <2>4. HifInv'
    BY <1>0, <1>7 DEF TypeOK, AloneInv, HifInv, SuspendWait
  <2> QED
    BY <2>1, <2>2, <2>3, <2>4 DEF RecInv
<1>8. CASE SuspendTx
  <2>1. TypeOK'
    BY <1>0, <1>8 DEF TypeOK, PmStages, SuspendTx
  <2>2. AloneInv' /\ BitInv'
    BY <1>0, <1>8 DEF TypeOK, AloneInv, BitInv, NotRaced, SuspendTx
  <2>3. UpInv'
    BY <1>0, <1>8 DEF TypeOK, AloneInv, UpInv, NotRaced, SuspendTx
  <2>4. HifInv'
    BY <1>0, <1>8 DEF TypeOK, AloneInv, HifInv, SuspendTx
  <2> QED
    BY <2>1, <2>2, <2>3, <2>4 DEF RecInv
<1>9. CASE SuspendRx
  <2>1. TypeOK'
    BY <1>0, <1>9 DEF TypeOK, PmStages, SuspendRx
  <2>2. AloneInv' /\ BitInv'
    BY <1>0, <1>9 DEF TypeOK, AloneInv, BitInv, NotRaced, SuspendRx
  <2>3. UpInv'
    BY <1>0, <1>9 DEF TypeOK, AloneInv, UpInv, NotRaced, SuspendRx
  <2>4. HifInv'
    BY <1>0, <1>9 DEF TypeOK, AloneInv, HifInv, SuspendRx
  <2> QED
    BY <2>1, <2>2, <2>3, <2>4 DEF RecInv
<1>10. CASE SuspendFwOwn
  <2>1. TypeOK'
    <3>1. mishaps' \subseteq {"raced", "abandoned", "unowned"}
      BY <1>0, <1>10 DEF TypeOK, PmStages, SuspendFwOwn, HandshakeFails
    <3>2. pm' \in PmStages
      BY <1>0, <1>10 DEF TypeOK, PmStages, SuspendFwOwn, HandshakeFails
    <3> QED
      BY <1>0, <1>10, <3>1, <3>2 DEF TypeOK, SuspendFwOwn, HandshakeFails
  <2>2. AloneInv' /\ BitInv'
    BY <1>0, <1>10 DEF TypeOK, AloneInv, BitInv, NotRaced, SuspendFwOwn, HandshakeFails
  <2>3. UpInv'
    BY <1>0, <1>10 DEF TypeOK, AloneInv, UpInv, NotRaced, SuspendFwOwn, HandshakeFails
  <2>4. HifInv'
    BY <1>0, <1>10 DEF TypeOK, AloneInv, HifInv, SuspendFwOwn, HandshakeFails
  <2> QED
    BY <2>1, <2>2, <2>3, <2>4 DEF RecInv
<1>11. CASE SuspendRestore
  <2>1. TypeOK'
    BY <1>0, <1>11 DEF TypeOK, PmStages, SuspendRestore
  <2>2. AloneInv' /\ BitInv'
    BY <1>0, <1>11 DEF TypeOK, AloneInv, BitInv, NotRaced, SuspendRestore
  <2>3. UpInv'
    BY <1>0, <1>11 DEF TypeOK, AloneInv, UpInv, NotRaced, SuspendRestore
  <2>4. HifInv'
    BY <1>0, <1>11 DEF TypeOK, AloneInv, HifInv, SuspendRestore
  <2> QED
    BY <2>1, <2>2, <2>3, <2>4 DEF RecInv
<1>12. CASE Unwind
  <2>1. TypeOK'
    BY <1>0, <1>12 DEF TypeOK, PmStages, Unwind
  <2>2. AloneInv' /\ BitInv'
    BY <1>0, <1>12 DEF TypeOK, AloneInv, BitInv, NotRaced, Unwind
  <2>3. UpInv'
    BY <1>0, <1>12 DEF TypeOK, AloneInv, UpInv, NotRaced, Unwind
  <2>4. HifInv'
    BY <1>0, <1>12 DEF TypeOK, AloneInv, HifInv, Unwind
  <2> QED
    BY <2>1, <2>2, <2>3, <2>4 DEF RecInv
<1>13. CASE ResumeBegin
  <2>1. TypeOK'
    <3>1. mishaps' \subseteq {"raced", "abandoned", "unowned"}
      BY <1>0, <1>13 DEF TypeOK, PmStages, ResumeBegin, HandshakeFails
    <3>2. pm' \in PmStages
      BY <1>0, <1>13 DEF TypeOK, PmStages, ResumeBegin, HandshakeFails
    <3> QED
      BY <1>0, <1>13, <3>1, <3>2 DEF TypeOK, ResumeBegin, HandshakeFails
  <2>2. AloneInv' /\ BitInv'
    BY <1>0, <1>13 DEF TypeOK, AloneInv, BitInv, NotRaced, ResumeBegin, HandshakeFails
  <2>3. UpInv'
    BY <1>0, <1>13 DEF TypeOK, AloneInv, UpInv, NotRaced, ResumeBegin, HandshakeFails
  <2>4. HifInv'
    BY <1>0, <1>13 DEF TypeOK, AloneInv, HifInv, ResumeBegin, HandshakeFails
  <2> QED
    BY <2>1, <2>2, <2>3, <2>4 DEF RecInv
<1>14. CASE ResumeUp
  <2>1. TypeOK'
    BY <1>0, <1>14 DEF TypeOK, PmStages, ResumeUp
  <2>2. AloneInv' /\ BitInv'
    BY <1>0, <1>14 DEF TypeOK, AloneInv, BitInv, NotRaced, ResumeUp
  <2>3. UpInv'
    BY <1>0, <1>14 DEF TypeOK, AloneInv, UpInv, NotRaced, ResumeUp
  <2>4. HifInv'
    BY <1>0, <1>14 DEF TypeOK, AloneInv, HifInv, ResumeUp
  <2> QED
    BY <2>1, <2>2, <2>3, <2>4 DEF RecInv
<1>15. CASE ResumeWait
  <2>1. TypeOK'
    BY <1>0, <1>15 DEF TypeOK, PmStages, ResumeWait
  <2>2. AloneInv' /\ BitInv'
    BY <1>0, <1>15 DEF TypeOK, AloneInv, BitInv, NotRaced, ResumeWait
  <2>3. UpInv'
    BY <1>0, <1>15 DEF TypeOK, AloneInv, UpInv, NotRaced, ResumeWait
  <2>4. HifInv'
    BY <1>0, <1>15 DEF TypeOK, AloneInv, HifInv, ResumeWait
  <2> QED
    BY <2>1, <2>2, <2>3, <2>4 DEF RecInv
<1>16. CASE ResumeEnd
  <2>1. TypeOK'
    BY <1>0, <1>16 DEF TypeOK, PmStages, ResumeEnd
  <2>2. AloneInv' /\ BitInv'
    BY <1>0, <1>16 DEF TypeOK, AloneInv, BitInv, NotRaced, ResumeEnd
  <2>3. UpInv'
    BY <1>0, <1>16 DEF TypeOK, AloneInv, UpInv, NotRaced, ResumeEnd
  <2>4. HifInv'
    BY <1>0, <1>16 DEF TypeOK, AloneInv, HifInv, ResumeEnd
  <2> QED
    BY <2>1, <2>2, <2>3, <2>4 DEF RecInv
<1>17. CASE HifEvent
  <2>1. TypeOK'
    BY <1>0, <1>17 DEF TypeOK, PmStages, HifEvent, RxAlive
  <2>2. AloneInv' /\ BitInv'
    BY <1>0, <1>17 DEF TypeOK, AloneInv, BitInv, NotRaced, HifEvent, RxAlive
  <2>3. UpInv'
    BY <1>0, <1>17 DEF TypeOK, AloneInv, UpInv, NotRaced, HifEvent, RxAlive
  <2>4. HifInv'
    BY <1>0, <1>17 DEF TypeOK, AloneInv, HifInv, HifEvent, RxAlive
  <2> QED
    BY <2>1, <2>2, <2>3, <2>4 DEF RecInv
<1>18. CASE ResetBegin
  <2>1. TypeOK'
    BY <1>0, <1>18 DEF TypeOK, PmStages, ResetBegin
  <2>2. AloneInv' /\ BitInv'
    BY <1>0, <1>18 DEF TypeOK, AloneInv, BitInv, NotRaced, ResetBegin
  <2>3. UpInv'
    BY <1>0, <1>18 DEF TypeOK, AloneInv, UpInv, NotRaced, ResetBegin
  <2>4. HifInv'
    BY <1>0, <1>18 DEF TypeOK, AloneInv, HifInv, ResetBegin
  <2> QED
    BY <2>1, <2>2, <2>3, <2>4 DEF RecInv
<1>19. CASE ResetAttempt
  <2>1. TypeOK'
    <3>1. up' \subseteq Parts /\ resetBit' \in {"yes", "no"}
      BY <1>0, <1>19 DEF TypeOK, PmStages, ResetAttempt
    <3>2. tries' \in 0 .. MaxTries
      BY <1>0, <1>19 DEF TypeOK, PmStages, ResetAttempt
    <3> QED
      BY <1>0, <1>19, <3>1, <3>2 DEF TypeOK, ResetAttempt
  <2>2. AloneInv' /\ BitInv'
    BY <1>0, <1>19 DEF TypeOK, AloneInv, BitInv, NotRaced, ResetAttempt
  <2>3. UpInv'
    BY <1>0, <1>19 DEF TypeOK, AloneInv, UpInv, NotRaced, ResetAttempt
  <2>4. HifInv'
    BY <1>0, <1>19 DEF TypeOK, AloneInv, HifInv, ResetAttempt
  <2> QED
    BY <2>1, <2>2, <2>3, <2>4 DEF RecInv
<1>20. CASE ResetRx
  <2>1. TypeOK'
    BY <1>0, <1>20 DEF TypeOK, PmStages, ResetRx
  <2>2. AloneInv' /\ BitInv'
    BY <1>0, <1>20 DEF TypeOK, AloneInv, BitInv, NotRaced, ResetRx
  <2>3. UpInv'
    BY <1>0, <1>20 DEF TypeOK, AloneInv, UpInv, NotRaced, ResetRx
  <2>4. HifInv'
    BY <1>0, <1>20 DEF TypeOK, AloneInv, HifInv, ResetRx
  <2> QED
    BY <2>1, <2>2, <2>3, <2>4 DEF RecInv
<1>21. CASE ResetTx
  <2>1. TypeOK'
    BY <1>0, <1>21 DEF TypeOK, PmStages, ResetTx
  <2>2. AloneInv' /\ BitInv'
    BY <1>0, <1>21 DEF TypeOK, AloneInv, BitInv, NotRaced, ResetTx
  <2>3. UpInv'
    BY <1>0, <1>21 DEF TypeOK, AloneInv, UpInv, NotRaced, ResetTx
  <2>4. HifInv'
    BY <1>0, <1>21 DEF TypeOK, AloneInv, HifInv, ResetTx
  <2> QED
    BY <2>1, <2>2, <2>3, <2>4 DEF RecInv
<1>22. CASE ResetDma
  <2>1. TypeOK'
    BY <1>0, <1>22 DEF TypeOK, PmStages, ResetDma
  <2>2. AloneInv' /\ BitInv'
    BY <1>0, <1>22 DEF TypeOK, AloneInv, BitInv, NotRaced, ResetDma
  <2>3. UpInv'
    BY <1>0, <1>22 DEF TypeOK, AloneInv, UpInv, NotRaced, ResetDma
  <2>4. HifInv'
    BY <1>0, <1>22 DEF TypeOK, AloneInv, NotRaced, HifInv, ResetDma
  <2> QED
    BY <2>1, <2>2, <2>3, <2>4 DEF RecInv
<1>23. CASE ResetOwn
  <2>1. TypeOK'
    <3>1. up' \subseteq Parts /\ resetBit' \in {"yes", "no"}
      BY <1>0, <1>23 DEF TypeOK, BitInv, ResetOwn
    <3>2. tries' \in 0 .. MaxTries
      BY <1>0, <1>23 DEF TypeOK, BitInv, ResetOwn
    <3> QED
      BY <1>0, <1>23, <3>1, <3>2 DEF TypeOK, ResetOwn
  <2>2. AloneInv' /\ BitInv'
    BY <1>0, <1>23 DEF TypeOK, AloneInv, BitInv, NotRaced, ResetOwn
  <2>3. UpInv'
    BY <1>0, <1>23 DEF TypeOK, AloneInv, UpInv, NotRaced, ResetOwn
  <2>4. HifInv'
    BY <1>0, <1>23 DEF TypeOK, AloneInv, HifInv, ResetOwn
  <2> QED
    BY <2>1, <2>2, <2>3, <2>4 DEF RecInv
<1>24. CASE ResetLoad
  <2>1. TypeOK'
    <3>1. up' \subseteq Parts /\ resetBit' \in {"yes", "no"}
      BY <1>0, <1>24 DEF TypeOK, BitInv, ResetLoad
    <3>2. tries' \in 0 .. MaxTries
      BY <1>0, <1>24 DEF TypeOK, BitInv, ResetLoad
    <3> QED
      BY <1>0, <1>24, <3>1, <3>2 DEF TypeOK, ResetLoad
  <2>2. AloneInv' /\ BitInv'
    BY <1>0, <1>24 DEF TypeOK, AloneInv, BitInv, NotRaced, ResetLoad
  <2>3. UpInv'
    BY <1>0, <1>24 DEF TypeOK, AloneInv, UpInv, NotRaced, ResetLoad
  <2>4. HifInv'
    BY <1>0, <1>24 DEF TypeOK, AloneInv, HifInv, ResetLoad
  <2> QED
    BY <2>1, <2>2, <2>3, <2>4 DEF RecInv
<1>25. CASE ResetGiveUp
  <2>1. TypeOK'
    BY <1>0, <1>25 DEF TypeOK, PmStages, ResetGiveUp
  <2>2. AloneInv' /\ BitInv'
    BY <1>0, <1>25 DEF TypeOK, AloneInv, BitInv, NotRaced, ResetGiveUp
  <2>3. UpInv'
    BY <1>0, <1>25 DEF TypeOK, AloneInv, UpInv, NotRaced, ResetGiveUp
  <2>4. HifInv'
    BY <1>0, <1>25 DEF TypeOK, AloneInv, HifInv, ResetGiveUp
  <2> QED
    BY <2>1, <2>2, <2>3, <2>4 DEF RecInv
<1>26. CASE ResetAbort
  <2>1. TypeOK'
    BY <1>0, <1>26 DEF TypeOK, PmStages, ResetAbort
  <2>2. AloneInv' /\ BitInv'
    BY <1>0, <1>26 DEF TypeOK, AloneInv, BitInv, NotRaced, ResetAbort
  <2>3. UpInv'
    BY <1>0, <1>26 DEF TypeOK, AloneInv, UpInv, NotRaced, ResetAbort
  <2>4. HifInv'
    BY <1>0, <1>26 DEF TypeOK, AloneInv, HifInv, ResetAbort
  <2> QED
    BY <2>1, <2>2, <2>3, <2>4 DEF RecInv
<1>27. CASE ResetEnd
  <2>1. TypeOK'
    BY <1>0, <1>27 DEF TypeOK, PmStages, ResetEnd
  <2>2. AloneInv' /\ BitInv'
    BY <1>0, <1>27 DEF TypeOK, AloneInv, BitInv, NotRaced, ResetEnd
  <2>3. UpInv'
    BY <1>0, <1>27 DEF TypeOK, AloneInv, UpInv, NotRaced, ResetEnd
  <2>4. HifInv'
    BY <1>0, <1>27 DEF TypeOK, AloneInv, HifInv, ResetEnd
  <2> QED
    BY <2>1, <2>2, <2>3, <2>4 DEF RecInv
<1>28. CASE UNCHANGED rvars
  <2>1. TypeOK'
    BY <1>0, <1>28 DEF TypeOK, PmStages, rvars
  <2>2. AloneInv' /\ BitInv'
    BY <1>0, <1>28 DEF TypeOK, AloneInv, BitInv, NotRaced, rvars
  <2>3. UpInv'
    BY <1>0, <1>28 DEF TypeOK, AloneInv, UpInv, NotRaced, rvars
  <2>4. HifInv'
    BY <1>0, <1>28 DEF TypeOK, AloneInv, HifInv, rvars
  <2> QED
    BY <2>1, <2>2, <2>3, <2>4 DEF RecInv
<1> QED
  BY <1>1, <1>2, <1>3, <1>4, <1>5, <1>6, <1>7, <1>8, <1>9, <1>10, <1>11, <1>12, <1>13,
     <1>14, <1>15, <1>16, <1>17, <1>18, <1>19, <1>20, <1>21, <1>22, <1>23, <1>24, <1>25,
     <1>26, <1>27, <1>28
  DEF Next, Quiet, SuspendNext, ResumeNext, ResetHeld, ResetFree

\* The invariant of the recovery, which the theorems below follow from.
THEOREM RecoveryInvariant == Spec => []RecInv
  BY RecInit, RecStep, PTL DEF Spec

\* Type correctness of Recovery.
THEOREM RecoveryTypes == Spec => []TypeOK
<1>1. RecInv => TypeOK
  BY DEF RecInv
<1> QED
  BY <1>1, RecoveryInvariant, PTL

\* Once mt7925_pci_suspend, _mt7925_pci_resume and mt7925_mac_reset_work are
\* through, the whole device is up.
THEOREM DeviceIsOperational == Spec => []OperationalAtRest
<1>1. RecInv => OperationalAtRest
  BY DEF RecInv, TypeOK, BitInv, UpInv, NotRaced, OperationalAtRest
<1> QED
  BY <1>1, RecoveryInvariant, PTL

\* mt7925_pci_suspend leaves nothing up, and reset_work stays away until the
\* device is resumed.
THEOREM SuspendedDeviceIsQuiet == Spec => []SuspendedIsQuiet
<1>1. RecInv => SuspendedIsQuiet
  BY DEF RecInv, AloneInv, UpInv, NotRaced, SuspendedIsQuiet
<1> QED
  BY <1>1, RecoveryInvariant, PTL

\* The DMA engine is stopped only after the firmware has suspended the host
\* interface for this suspend.
THEOREM HifIdleMeansSuspended == Spec => []HifIdleIsFresh
<1>1. RecInv => HifIdleIsFresh
  BY DEF RecInv, HifInv, HifIdleIsFresh
<1> QED
  BY <1>1, RecoveryInvariant, PTL

-----------------------------------------------------------------------------
(* Who waits for NAPI.                                                     *)

Undisturbed == mishaps \cap {"raced", "unowned"} = {}

\* NAPI is down only between the steps that take it down and bring it up again.
NapiInv ==
  Undisturbed =>
    /\ work \notin {"tx", "dma"} /\ pm \notin {"rx", "fwown", "off", "restore", "up"}
       => Napis \subseteq up
    /\ work = "tx" => "tx_napi" \in up
    /\ pm = "rx" => "rx_napi" \in up

\* napi_disable of a NAPI that is disabled already.
NapiWait ==
  \/ (pm = "tx" \/ work = "tx") /\ "tx_napi" \notin up
  \/ (pm = "rx" \/ work = "rx") /\ "rx_napi" \notin up

NapiIsThere == Undisturbed => ~NapiWait

LEMMA NapiStep == RecInv /\ NapiInv /\ [Next]_rvars => NapiInv'
<1> SUFFICES ASSUME RecInv, NapiInv, [Next]_rvars PROVE NapiInv'
  OBVIOUS
<1>0. TypeOK /\ AloneInv
  BY DEF RecInv
<1> USE DEF pmVars, hifVars, upVars, workVars, Parts, Napis, Undisturbed
\* A step that moves no part, or moves a callback or the work where both NAPIs
\* are taken for up.
<1>1. ASSUME UNCHANGED <<up, pm, work>>, mishaps \subseteq mishaps' PROVE NapiInv'
  BY <1>1 DEF NapiInv
<1>2. ASSUME NEW c \in Callers, ResetTest(c) \/ ResetQueue(c) PROVE NapiInv'
  BY <1>1, <1>2 DEF ResetTest, ResetQueue
<1>3. CASE SuspendBegin \/ SuspendFlush \/ SuspendCancel \/ SuspendWait
  BY <1>3 DEF NapiInv, SuspendBegin, SuspendFlush, SuspendCancel, SuspendWait
<1>16. CASE SuspendOwn
  BY <1>16 DEF NapiInv, SuspendOwn, HandshakeFails
<1>4. CASE SuspendTx
  BY <1>0, <1>4 DEF NapiInv, AloneInv, NotRaced, SuspendTx
<1>5. CASE SuspendRx \/ SuspendFwOwn
  BY <1>0, <1>5 DEF NapiInv, AloneInv, NotRaced, SuspendRx, SuspendFwOwn, HandshakeFails
<1>6. CASE SuspendRestore \/ Unwind
  BY <1>0, <1>6 DEF NapiInv, AloneInv, NotRaced, SuspendRestore, Unwind
<1>7. CASE ResumeBegin \/ ResumeUp
  BY <1>0, <1>7 DEF NapiInv, AloneInv, NotRaced, ResumeBegin, ResumeUp, HandshakeFails
<1>8. CASE ResumeWait \/ ResumeEnd
  BY <1>8 DEF NapiInv, ResumeWait, ResumeEnd
<1>9. CASE HifEvent
  BY <1>1, <1>9 DEF HifEvent
<1>10. CASE ResetBegin \/ ResetAttempt
  BY <1>10 DEF NapiInv, ResetBegin, ResetAttempt
<1>11. CASE ResetRx \/ ResetTx
  BY <1>0, <1>11 DEF NapiInv, AloneInv, NotRaced, ResetRx, ResetTx
<1>12. CASE ResetDma
  BY <1>0, <1>12 DEF NapiInv, AloneInv, NotRaced, ResetDma
<1>13. CASE ResetOwn \/ ResetLoad
  BY <1>0, <1>13 DEF NapiInv, AloneInv, NotRaced, ResetOwn, ResetLoad
<1>14. CASE ResetGiveUp \/ ResetAbort \/ ResetEnd
  BY <1>14 DEF NapiInv, ResetGiveUp, ResetAbort, ResetEnd
<1>15. CASE UNCHANGED rvars
  BY <1>1, <1>15 DEF rvars
<1> QED
  BY <1>2, <1>3, <1>4, <1>5, <1>6, <1>7, <1>8, <1>9, <1>10, <1>11, <1>12, <1>13, <1>14, <1>15, <1>16
  DEF Next, Quiet, SuspendNext, ResumeNext, ResetHeld, ResetFree

\* Neither mt7925_pci_suspend nor mt7925e_mac_reset ever calls napi_disable on a
\* NAPI that is disabled, which would wait for ever, unless a reset overtook a
\* suspend or a resume could not wake the chip (mt7925/pci.c:763).
THEOREM NapiIsNotDisabledTwice == Spec => []NapiIsThere
<1>1. Init => NapiInv
  BY DEF Init, NapiInv, Parts, Napis
<1>2. RecInv /\ NapiInv /\ [Next]_rvars => NapiInv'
  BY NapiStep
<1>3. RecInv /\ NapiInv => NapiIsThere
  BY DEF RecInv, AloneInv, NotRaced, NapiInv, NapiIsThere, NapiWait, Undisturbed, Napis
<1> QED
  BY <1>1, <1>2, <1>3, RecoveryInvariant, PTL DEF Spec

-----------------------------------------------------------------------------
(* Scans.                                                                  *)

\* The request, the bit and those who report: without an overtaken report, the
\* answer is owed by the bit or by one context.
ScanInv ==
  /\ ScanTypeOK /\ ScanIsAnsweredOnce
  /\ op = "scan" => request \in {"asked", "answered"}

\* Scans leave sleep and recovery what they are: each step of Scan is a step of
\* Recovery or leaves its variables alone.
THEOREM ScanKeepsRecovery == ScanSpec => Spec
<1>1. ScanInit => Init
  BY DEF ScanInit
<1>2. [ScanNext]_vars => [Next]_rvars
  <2>1. ASSUME HwScan \/ FwScan \/ HwScanOk \/ HwScanFail \/ ScanDone \/ ScanWork
               \/ CancelScan \/ CancelEnd \/ (\E r \in Reporters : Complete(r))
        PROVE  UNCHANGED rvars
    BY <2>1
    DEF HwScan, FwScan, HwScanOk, HwScanFail, ScanDone, ScanWork, CancelScan, CancelEnd, Complete
  <2>2. ASSUME \/ SleepBegin \/ RecoveryAttempt \/ RecoveryDma \/ RecoveryAbort
               \/ RecoveryFree \/ RecoveryStep
        PROVE  Next
    BY <2>2
    DEF SleepBegin, RecoveryAttempt, RecoveryDma, RecoveryAbort, RecoveryFree, RecoveryStep,
        Next, Quiet, ResetHeld
  <2>3. ASSUME UNCHANGED vars PROVE UNCHANGED rvars
    BY <2>3 DEF vars
  <2> QED
    BY <2>1, <2>2, <2>3 DEF ScanNext
<1> QED
  BY <1>1, <1>2, PTL DEF ScanSpec, Spec

\* Whoever clears MT76_HW_SCANNING owes mac80211 the call of
\* ieee80211_scan_completed, and nobody else does: a scan is reported once, but
\* for one that follows a report overtaken by a failing scan command.
THEOREM ScanIsReportedOnce == ScanSpec => []ScanIsAnsweredOnce
<1>1. ScanInit => ScanInv
  BY ScanAssumption DEF ScanInit, ScanInv, ScanTypeOK, ScanIsAnsweredOnce
<1>2. ScanInv /\ [ScanNext]_vars => ScanInv'
  <2> SUFFICES ASSUME ScanInv, [ScanNext]_vars PROVE ScanInv'
    OBVIOUS
  <2> USE ScanAssumption DEF ScanInv, ScanTypeOK, ScanIsAnsweredOnce, bitVars
  <2>1. CASE HwScan
    BY <2>1 DEF HwScan
  <2>2. CASE FwScan
    BY <2>2 DEF FwScan
  <2>3. CASE HwScanOk
    BY <2>3 DEF HwScanOk
  <2>4. CASE HwScanFail
    BY <2>4 DEF HwScanFail
  <2>5. CASE ScanDone
    BY <2>5 DEF ScanDone
  <2>6. CASE ScanWork
    BY <2>6 DEF ScanWork, TestAndClear, Reporters
  <2>7. CASE CancelScan
    BY <2>7 DEF CancelScan, TestAndClear, Reporters
  <2>8. CASE CancelEnd
    BY <2>8 DEF CancelEnd
  <2>9. ASSUME NEW r \in Reporters, Complete(r) PROVE ScanInv'
    BY <2>9 DEF Complete
  <2>10. CASE SleepBegin \/ RecoveryAttempt \/ RecoveryFree \/ RecoveryStep
    BY <2>10 DEF SleepBegin, RecoveryAttempt, RecoveryFree, RecoveryStep, scanVars
  <2>11. CASE RecoveryDma
    BY <2>11 DEF RecoveryDma
  <2>12. CASE RecoveryAbort
    BY <2>12 DEF RecoveryAbort, TestAndClear, Reporters
  <2>13. CASE UNCHANGED vars
    BY <2>13 DEF vars, scanVars
  <2> QED
    BY <2>1, <2>2, <2>3, <2>4, <2>5, <2>6, <2>7, <2>8, <2>9, <2>10, <2>11, <2>12, <2>13
    DEF ScanNext
<1>3. ScanInv => ScanIsAnsweredOnce
  BY DEF ScanInv
<1> QED
  BY <1>1, <1>2, <1>3, PTL DEF ScanSpec
=============================================================================
