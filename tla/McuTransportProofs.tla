------------------------- MODULE McuTransportProofs -------------------------
(***************************************************************************)
(* Proofs about McuTransport, for any number of callbacks and of senders   *)
(* without dev.mutex, any commands, any range of numbers and any bound:    *)
(* type correctness, a reset meets at most one message of those senders,   *)
(* no mutex is left locked, and an answer accepted is the own one unless   *)
(* it is a whole round of numbers old.                                     *)
(*                                                                         *)
(* The second and the third rest on who holds which mutex (LocksInv), the  *)
(* last on the number of a command or answer telling its age as long as    *)
(* the age is below a round (PlacedAt): the sender that waits was numbered *)
(* last, so that an answer with its number has age 0.                      *)
(***************************************************************************)
EXTENDS McuTransport, TLAPS

\* The stages of a reset that hold dev.mutex.
Attempt == {"mark", "purge", "quiet", "wpdma", "enable", "clear", "own", "load", "unlock"}

LocksInv ==
  /\ \A t \in Ops : pc[t] \notin {"idle", "want"} => devMutex = t
  /\ work \in Attempt => devMutex = Reset
  /\ devMutex \in Ops => pc[devMutex] \notin {"idle", "want"}
  /\ devMutex = Reset => work \in Attempt
  /\ pc[Reset] # "want" /\ (pc[Reset] # "idle" => work \in {"load", "connect"})
  /\ \A t \in Threads : InCommand(t) => mcuMutex = t
  /\ \A t \in Threads : mcuMutex = t => InCommand(t)
  /\ mcuReset = "set" <=> work \in Marked
  \* Who was tested before the flag was set has not queued its command yet.
  /\ slipped \in {0, 1}
  /\ slipped = 1 => work \in Marked /\ \A t \in Threads : pc[t] # "queue"

\* Attempts are left when dev.mutex is waited for, and what is about to be
\* queued is a command.
TypeInv ==
  /\ TypeOK
  /\ work = "mutex" => attempts < MaxAttempts
  /\ \A t \in Threads : pc[t] = "queue" => order[t].cmd \in Commands /\ order[t].seq # 0

\* Below a round, the age is the distance of the numbers on the circle.
PlacedAt(m, s) ==
  m.age < LastSeq => m.age = IF m.seq <= s THEN s - m.seq ELSE s + LastSeq - m.seq

\* Between the numbering and the answer.
Numbered(t) == pc[t] = "queue" \/ Waiting(t)

NumbersInv ==
  /\ \A m \in fw : PlacedAt(m, msgSeq)
  /\ \A i \in 1 .. Len(rx) : PlacedAt(rx[i], msgSeq)
  /\ \A i \in 1 .. Len(resQ) : PlacedAt(resQ[i], msgSeq)
  /\ \A t \in Threads : Numbered(t) => order[t].seq = msgSeq
  /\ AcceptedIsOwn

-----------------------------------------------------------------------------
(* Ageing.                                                                 *)

\* What numbering one command does to a message: it stays a message, and its
\* number still tells its age.
LEMMA AgedMessage ==
  ASSUME NEW m \in Messages, NEW s \in 0 .. LastSeq
  PROVE  /\ Aged(m) \in Messages
         /\ NextSeq(s) \in 1 .. LastSeq
         /\ PlacedAt(m, s) => PlacedAt(Aged(m), NextSeq(s))
<1>1. m.seq \in 1 .. LastSeq /\ m.age \in 0 .. LastSeq /\ m.cmd \in Commands
  BY DEF Messages
<1>2. /\ Aged(m).seq = m.seq /\ Aged(m).cmd = m.cmd
      /\ Aged(m).age = IF m.age = LastSeq THEN LastSeq ELSE m.age + 1
  BY DEF Aged
<1>3. Aged(m) \in Messages
  BY <1>1, McuAssumption DEF Aged, Messages
<1>4. NextSeq(s) \in 1 .. LastSeq
  BY McuAssumption DEF NextSeq
<1>5. PlacedAt(m, s) => PlacedAt(Aged(m), NextSeq(s))
  BY <1>1, <1>2, McuAssumption DEF PlacedAt, NextSeq
<1> QED
  BY <1>3, <1>4, <1>5

LEMMA AgedQueue ==
  ASSUME NEW q \in Seq(Messages)
  PROVE  LET r == [i \in DOMAIN q |-> Aged(q[i])]
         IN  /\ r \in Seq(Messages) /\ Len(r) = Len(q)
             /\ \A i \in 1 .. Len(q) : r[i] = Aged(q[i]) /\ q[i] \in Messages
<1> DEFINE r == [i \in DOMAIN q |-> Aged(q[i])]
<1>1. DOMAIN q = 1 .. Len(q) /\ Len(q) \in Nat /\ \A i \in 1 .. Len(q) : q[i] \in Messages
  OBVIOUS
<1>2. \A i \in 1 .. Len(q) : Aged(q[i]) \in Messages
  BY <1>1, AgedMessage, McuAssumption
<1>3. r \in [1 .. Len(q) -> Messages]
  BY <1>1, <1>2
<1>4. r \in Seq(Messages) /\ Len(r) = Len(q)
  BY <1>1, <1>3
<1> QED
  BY <1>1, <1>4

\* What remains of a queue keeps its places.
LEMMA TailKeepsPlaces ==
  ASSUME NEW q \in Seq(Messages), q # <<>>, NEW s,
         \A i \in 1 .. Len(q) : PlacedAt(q[i], s)
  PROVE  \A i \in 1 .. Len(Tail(q)) : PlacedAt(Tail(q)[i], s)
<1>1. /\ Len(q) \in Nat \ {0} /\ Len(Tail(q)) = Len(q) - 1
      /\ \A i \in 1 .. Len(Tail(q)) : Tail(q)[i] = q[i + 1]
  OBVIOUS
<1>2. \A i \in 1 .. Len(Tail(q)) : i + 1 \in 1 .. Len(q)
  BY <1>1
<1> QED
  BY <1>1, <1>2

-----------------------------------------------------------------------------
(* The theorems.                                                           *)

\* The types are kept, and a reset that waits has attempts left
\* (mt7925_mac_reset_work).
THEOREM McuTypeInvariance == Spec => []TypeInv
<1>1. Init => TypeInv
  BY McuAssumption DEF Init, TypeInv, TypeOK, NoOrder, Threads, Messages
<1>2. TypeInv /\ [Next]_vars => TypeInv'
  <2> SUFFICES ASSUME TypeInv, [Next]_vars PROVE TypeInv'
    OBVIOUS
  <2> USE McuAssumption
  <2>1. ASSUME NEW t \in Threads, Begin(t) PROVE TypeInv'
    BY <2>1 DEF Begin, TypeInv, TypeOK, Threads, mutexVars, mailVars, workVars, Goto
  <2>2. ASSUME NEW t \in Threads, LockMcu(t) PROVE TypeInv'
    BY <2>2 DEF LockMcu, TypeInv, TypeOK, Threads, mailVars, workVars, Goto
  <2>3. ASSUME NEW t \in Threads, Send(t) PROVE TypeInv'
    <3>1. NextSeq(msgSeq) \in 1 .. LastSeq
      <4>1. msgSeq \in 0 .. LastSeq
        BY DEF TypeInv, TypeOK
      <4> QED
        BY <4>1 DEF NextSeq
    <3>2. rx' \in Seq(Messages) /\ resQ' \in Seq(Messages)
      BY <2>3, AgedQueue DEF Send, TypeInv, TypeOK
    <3>3. fw' \subseteq Messages
      BY <2>3, AgedMessage DEF Send, TypeInv, TypeOK
    <3>4. PICK c \in Commands :
             order' = [order EXCEPT ![t] = [cmd |-> c, seq |-> NextSeq(msgSeq), late |-> "no"]]
      BY <2>3 DEF Send
    <3>5. order' \in [Threads -> [cmd : Commands \cup {"none"}, seq : 0 .. LastSeq,
                                  late : {"yes", "no"}]]
      <4>1. [cmd |-> c, seq |-> NextSeq(msgSeq), late |-> "no"] \in
               [cmd : Commands \cup {"none"}, seq : 0 .. LastSeq, late : {"yes", "no"}]
        BY <3>1
      <4> QED
        BY <3>4, <4>1 DEF TypeInv, TypeOK
    <3>6. /\ pc' = [pc EXCEPT ![t] = "queue"] \/ pc' = [pc EXCEPT ![t] = "unlock"]
          /\ outcome' \in {outcome, "error"} /\ msgSeq' = NextSeq(msgSeq)
          /\ UNCHANGED <<chip, slipped, devMutex, mcuMutex, answer, napi, mcuReset, pending, work,
                         fullReset, attempts>>
      BY <2>3 DEF Send, mutexVars, workVars, Goto, Finish
    <3>7. pc' \in [Threads -> {"idle", "want", "ready", "lock", "send", "queue", "check",
                              "sleep", "woken", "unlock"}]
      BY <3>6 DEF TypeInv, TypeOK
    <3>8. outcome' \in {"ok", "error"} /\ msgSeq' \in 0 .. LastSeq
      BY <3>1, <3>6 DEF TypeInv, TypeOK
    <3>9. \A u \in Threads : pc'[u] = "queue" => order'[u].cmd \in Commands /\ order'[u].seq # 0
      <4> TAKE u \in Threads
      <4>1. CASE u = t
        BY <3>1, <3>4, <4>1 DEF TypeInv, TypeOK
      <4>2. CASE u # t
        BY <3>4, <3>6, <4>2 DEF TypeInv, TypeOK
      <4> QED
        BY <4>1, <4>2
    <3>10. TypeOK'
      BY ONLY TypeInv, <3>2, <3>3, <3>5, <3>6, <3>7, <3>8 DEF TypeInv, TypeOK
    <3> QED
      BY ONLY TypeInv, <3>6, <3>9, <3>10 DEF TypeInv
  <2>4. ASSUME NEW t \in Threads, Deadline(t) PROVE TypeInv'
    BY <2>4 DEF Deadline, TypeInv, TypeOK, Threads, mutexVars, mailVars, workVars
  <2>5. ASSUME NEW t \in Threads, Check(t) PROVE TypeInv'
    <3>1. /\ pc' = [pc EXCEPT ![t] = "sleep"] \/ pc' = [pc EXCEPT ![t] = "unlock"]
          /\ outcome' \in {outcome, "error"} /\ pending' \in {pending, "yes"}
          /\ UNCHANGED <<chip, slipped, devMutex, mcuMutex, order, answer, msgSeq, fw, rx, resQ,
                         napi, mcuReset, work, fullReset, attempts>>
      BY <2>5 DEF Check, NoAnswer, RequestReset, Goto, Finish, mutexVars, mailVars,
        workVars
    <3>2. /\ pc' \in [Threads -> {"idle", "want", "ready", "lock", "send", "queue", "check",
                                 "sleep", "woken", "unlock"}]
          /\ outcome' \in {"ok", "error"} /\ pending' \in {"yes", "no"}
      BY <3>1 DEF TypeInv, TypeOK
    <3>3. \A u \in Threads : pc'[u] = "queue" => pc[u] = "queue"
      BY <3>1 DEF TypeInv, TypeOK
    <3>4. TypeOK'
      BY ONLY TypeInv, <3>1, <3>2 DEF TypeInv, TypeOK
    <3> QED
      BY ONLY TypeInv, <3>1, <3>3, <3>4 DEF TypeInv
  <2>6. ASSUME NEW t \in Threads, Wake(t) PROVE TypeInv'
    BY <2>6 DEF Wake, TypeInv, TypeOK, Threads, mutexVars, mailVars, workVars, Goto
  <2>7. ASSUME NEW t \in Threads, Take(t) PROVE TypeInv'
    <3>1. resQ # <<>> => Head(resQ) \in Messages /\ Tail(resQ) \in Seq(Messages)
      BY DEF TypeInv, TypeOK
    <3>2. resQ # <<>> => Head(resQ).age \in -1 .. LastSeq
      BY <3>1 DEF Messages
    <3>3. /\ pc' = [pc EXCEPT ![t] = "check"] \/ pc' = [pc EXCEPT ![t] = "unlock"]
          /\ outcome' \in {outcome, "error"} /\ pending' \in {pending, "yes"}
          /\ UNCHANGED <<chip, slipped, devMutex, mcuMutex, order, msgSeq, fw, rx, napi, mcuReset,
                         work, fullReset, attempts>>
      BY <2>7 DEF Take, NoAnswer, RequestReset, Goto, Finish, mutexVars, workVars
    <3>4. /\ UNCHANGED resQ \/ (resQ # <<>> /\ resQ' = Tail(resQ))
          /\ \/ UNCHANGED answer
             \/ resQ # <<>> /\ answer' = [answer EXCEPT ![t] = Head(resQ).age]
      BY <2>7 DEF Take
    <3>5. /\ pc' \in [Threads -> {"idle", "want", "ready", "lock", "send", "queue", "check",
                                 "sleep", "woken", "unlock"}]
          /\ outcome' \in {"ok", "error"} /\ pending' \in {"yes", "no"}
      BY <3>3 DEF TypeInv, TypeOK
    <3>6. resQ' \in Seq(Messages) /\ answer' \in [Threads -> -1 .. LastSeq]
      BY <3>1, <3>2, <3>4 DEF TypeInv, TypeOK
    <3>7. \A u \in Threads : pc'[u] = "queue" => pc[u] = "queue"
      BY <3>3 DEF TypeInv, TypeOK
    <3>8. TypeOK'
      BY ONLY TypeInv, <3>3, <3>5, <3>6 DEF TypeInv, TypeOK
    <3> QED
      BY ONLY TypeInv, <3>3, <3>7, <3>8 DEF TypeInv
  <2>8. ASSUME NEW t \in Threads, Unlock(t) PROVE TypeInv'
    <3>1. /\ mcuMutex' = "free" /\ order' = [order EXCEPT ![t] = NoOrder]
          /\ answer' = [answer EXCEPT ![t] = -1]
          /\ UNCHANGED <<chip, slipped, devMutex, msgSeq, fw, rx, resQ, napi, mcuReset,
                         pending, work, fullReset, attempts, outcome>>
      BY <2>8 DEF Unlock, mailVars, workVars
    <3>2. PICK where \in {"ready", "lock", "idle"} : pc' = [pc EXCEPT ![t] = where]
      BY <2>8 DEF Unlock, Goto
    <3>3. /\ pc' \in [Threads -> {"idle", "want", "ready", "lock", "send", "queue", "check",
                                 "sleep", "woken", "unlock"}]
          /\ \A u \in Threads : pc'[u] = "queue" => pc[u] = "queue" /\ u # t
      BY <3>2 DEF TypeInv, TypeOK
    <3>4. order' \in [Threads -> [cmd : Commands \cup {"none"}, seq : 0 .. LastSeq,
                                  late : {"yes", "no"}]]
      <4>1. NoOrder \in [cmd : Commands \cup {"none"}, seq : 0 .. LastSeq,
                         late : {"yes", "no"}]
        BY McuAssumption DEF NoOrder
      <4> QED
        BY <3>1, <4>1 DEF TypeInv, TypeOK
    <3>5. \A u \in Threads : u # t => order'[u] = order[u]
      BY <3>1 DEF TypeInv, TypeOK
    <3>6. answer' \in [Threads -> -1 .. LastSeq]
      BY <3>1 DEF TypeInv, TypeOK
    <3>7. TypeOK'
      BY ONLY TypeInv, <3>1, <3>3, <3>4, <3>6 DEF TypeInv, TypeOK
    <3> QED
      BY ONLY TypeInv, <3>1, <3>3, <3>5, <3>7 DEF TypeInv
  <2>9. ASSUME NEW t \in Ops, OpCall(t) PROVE TypeInv'
    BY <2>9 DEF OpCall, TypeInv, TypeOK, Threads, mutexVars, mailVars, workVars, Goto
  <2>10. ASSUME NEW t \in Ops, OpLock(t) PROVE TypeInv'
    BY <2>10 DEF OpLock, TypeInv, TypeOK, Threads, mailVars, workVars, Goto
  <2>11. ASSUME NEW t \in Ops, OpEnd(t) PROVE TypeInv'
    BY <2>11 DEF OpEnd, TypeInv, TypeOK, Threads, mailVars, workVars, Goto
  <2>30. ASSUME NEW t \in Threads, Queue(t) PROVE TypeInv'
    <3>1. /\ pc' = [pc EXCEPT ![t] = "check"] \/ pc' = [pc EXCEPT ![t] = "unlock"]
          /\ outcome' \in {outcome, "error"} /\ slipped' \in {slipped, slipped + 1}
          /\ UNCHANGED <<chip, devMutex, mcuMutex, order, answer, msgSeq, rx, resQ, napi,
                         mcuReset, pending, work, fullReset, attempts>>
      BY <2>30 DEF Queue, Goto, Finish, mutexVars, workVars
    <3>2. fw' \subseteq Messages
      <4>1. order[t].cmd \in Commands /\ order[t].seq \in 1 .. LastSeq
        BY <2>30 DEF Queue, TypeInv, TypeOK
      <4>2. [seq |-> order[t].seq, age |-> 0, cmd |-> order[t].cmd] \in Messages
        BY <4>1 DEF Messages
      <4> QED
        BY <2>30, <4>2 DEF Queue, TypeInv, TypeOK
    <3>3. pc' \in [Threads -> {"idle", "want", "ready", "lock", "send", "queue", "check",
                              "sleep", "woken", "unlock"}]
      BY <3>1 DEF TypeInv, TypeOK
    <3>4. outcome' \in {"ok", "error"} /\ slipped' \in Nat
      <4>1. slipped \in Nat /\ outcome \in {"ok", "error"}
        BY DEF TypeInv, TypeOK
      <4> QED
        BY ONLY <3>1, <4>1
    <3>5. \A u \in Threads : pc'[u] = "queue" => pc[u] = "queue"
      BY <3>1 DEF TypeInv, TypeOK
    <3>6. TypeOK'
      BY ONLY TypeInv, <3>1, <3>2, <3>3, <3>4 DEF TypeInv, TypeOK
    <3> QED
      BY ONLY TypeInv, <3>1, <3>5, <3>6 DEF TypeInv
  <2>31. ASSUME NEW t \in Hints, HintCall(t) PROVE TypeInv'
    BY <2>31 DEF HintCall, TypeInv, TypeOK, Threads, mutexVars, mailVars, workVars, Goto
  <2>12. CASE FwAnswer
    BY <2>12 DEF FwAnswer, TypeInv, TypeOK, Threads, mutexVars, workVars
  <2>13. CASE RxEvent
    BY <2>13 DEF RxEvent, TypeInv, TypeOK, Threads, mutexVars, workVars
  <2>14. CASE AskReset
    BY <2>14 DEF AskReset, TypeInv, TypeOK, Threads, mutexVars, mailVars, workVars,
      RequestReset
  <2>15. CASE WorkStart
    BY <2>15 DEF WorkStart, TypeInv, TypeOK, Threads, mutexVars, mailVars
  <2>16. CASE RefuseReset
    BY <2>16 DEF RefuseReset, TypeInv, TypeOK, Threads, mutexVars, mailVars, Stage
  <2>17. CASE MarkReset
    BY <2>17 DEF MarkReset, TypeInv, TypeOK, Threads, mutexVars, mailVars, Stage
  <2>18. CASE PurgeAnswers
    BY <2>18 DEF PurgeAnswers, TypeInv, TypeOK, Threads, mutexVars, Stage
  <2>19. CASE DisableNapi
    BY <2>19 DEF DisableNapi, TypeInv, TypeOK, Threads, mutexVars, mailVars, Stage
  <2>20. CASE ResetRings
    BY <2>20 DEF ResetRings, TypeInv, TypeOK, Threads, mutexVars, Stage
  <2>21. CASE EnableNapi
    BY <2>21 DEF EnableNapi, TypeInv, TypeOK, Threads, mutexVars, mailVars, Stage
  <2>22. CASE ClearReset
    BY <2>22 DEF ClearReset, TypeInv, TypeOK, Threads, mutexVars, mailVars, Stage
  <2>23. CASE ResetOwn
    BY <2>23 DEF ResetOwn, TypeInv, TypeOK, Threads, mutexVars, mailVars, Goto, Stage
  <2>24. CASE WorkUnlock
    BY <2>24 DEF WorkUnlock, TypeInv, TypeOK, Threads, mailVars
  <2>25. CASE WorkFinish
    BY <2>25 DEF WorkFinish, TypeInv, TypeOK, Threads, mutexVars, mailVars, Goto
  <2>26. CASE WorkLock
    BY <2>26 DEF WorkLock, TypeInv, TypeOK, Threads, mailVars
  <2>27. CASE LoadEnd
    BY <2>27 DEF LoadEnd, TypeInv, TypeOK, Threads, mutexVars, mailVars, Goto, Stage
  <2>28. CASE WorkEnd
    BY <2>28 DEF WorkEnd, TypeInv, TypeOK, Threads, mutexVars, mailVars, Goto, Stage
  <2>29. CASE UNCHANGED vars
    BY <2>29 DEF vars, TypeInv, TypeOK, Threads
  <2> QED
    BY <2>1, <2>2, <2>3, <2>4, <2>5, <2>6, <2>7, <2>8, <2>9, <2>10, <2>11, <2>12,
       <2>13, <2>14, <2>15, <2>16, <2>17, <2>18, <2>19, <2>20, <2>21, <2>22, <2>23,
       <2>24, <2>25, <2>26, <2>27, <2>28, <2>29, <2>30, <2>31
       DEF Next, ThreadStep, WorkNext
<1> QED
  BY <1>1, <1>2, PTL DEF Spec

\* Every variable keeps its type: numbers stay in their range, and attempts are
\* limited (mt7925_mcu_fill_message, mt7925_mac_reset_work).
THEOREM McuTypeCorrect == Spec => []TypeOK
<1>1. TypeInv => TypeOK
  BY DEF TypeInv
<1> QED
  BY <1>1, McuTypeInvariance, PTL

\* Who holds which mutex, and when the flag is set, is as the code intends
\* (mt76_mcu_skb_send_and_get_msg, mt7925e_mac_reset).
THEOREM McuLocksInvariance == Spec => []LocksInv
<1>1. Init => LocksInv
  BY McuAssumption DEF Init, LocksInv, InCommand, Threads, Attempt, Marked
<1>2. LocksInv /\ TypeOK /\ [Next]_vars => LocksInv'
  <2> SUFFICES ASSUME LocksInv, TypeOK, [Next]_vars PROVE LocksInv'
    OBVIOUS
  <2> USE McuAssumption
  <2>1. ASSUME NEW t \in Threads, Begin(t) PROVE LocksInv'
    BY <2>1 DEF Begin, LocksInv, TypeOK, InCommand, Threads, Attempt, Marked, mutexVars,
      mailVars, workVars, Goto
  <2>2. ASSUME NEW t \in Threads, LockMcu(t) PROVE LocksInv'
    BY <2>2 DEF LockMcu, LocksInv, TypeOK, InCommand, Threads, Attempt, Marked,
      mailVars, workVars, Goto
  <2>3. ASSUME NEW t \in Threads, Send(t) PROVE LocksInv'
    BY <2>3 DEF Send, LocksInv, TypeOK, InCommand, Threads, Attempt, Marked, mutexVars,
      workVars, Goto, Finish
  <2>4. ASSUME NEW t \in Threads, Deadline(t) PROVE LocksInv'
    BY <2>4 DEF Deadline, LocksInv, TypeOK, InCommand, Threads, Attempt, Marked,
      mutexVars, mailVars, workVars
  <2>5. ASSUME NEW t \in Threads, Check(t) PROVE LocksInv'
    <3>1. /\ pc[t] = "check" /\ t \in Threads
          /\ pc' = [pc EXCEPT ![t] = "sleep"] \/ pc' = [pc EXCEPT ![t] = "unlock"]
          /\ UNCHANGED <<devMutex, mcuMutex, work, mcuReset, slipped>>
      BY <2>5 DEF Check, Goto, Finish, NoAnswer, mutexVars, workVars
    <3> QED
      BY ONLY LocksInv, TypeOK, McuAssumption, <3>1
      DEF LocksInv, TypeOK, InCommand, Threads
  <2>6. ASSUME NEW t \in Threads, Wake(t) PROVE LocksInv'
    BY <2>6 DEF Wake, LocksInv, TypeOK, InCommand, Threads, Attempt, Marked, mutexVars,
      mailVars, workVars, Goto
  <2>7. ASSUME NEW t \in Threads, Take(t) PROVE LocksInv'
    <3>1. /\ pc[t] = "woken" /\ t \in Threads
          /\ pc' = [pc EXCEPT ![t] = "check"] \/ pc' = [pc EXCEPT ![t] = "unlock"]
          /\ UNCHANGED <<devMutex, mcuMutex, work, mcuReset, slipped>>
      BY <2>7 DEF Take, Goto, Finish, NoAnswer, mutexVars, workVars
    <3> QED
      BY ONLY LocksInv, TypeOK, McuAssumption, <3>1
      DEF LocksInv, TypeOK, InCommand, Threads
  <2>8. ASSUME NEW t \in Threads, Unlock(t) PROVE LocksInv'
    <3>1. /\ pc[t] = "unlock" /\ t \in Threads /\ mcuMutex' = "free"
          /\ UNCHANGED <<devMutex, work, mcuReset, slipped>>
      BY <2>8 DEF Unlock, workVars
    <3>2. PICK where \in {"ready", "lock", "idle"} :
            /\ pc' = [pc EXCEPT ![t] = where]
            /\ IF t \in Hints THEN where # "ready" ELSE where = "ready"
      BY <2>8 DEF Unlock, Goto
    <3> QED
      BY ONLY LocksInv, TypeOK, McuAssumption, <3>1, <3>2
      DEF LocksInv, TypeOK, InCommand, Threads
  <2>9. ASSUME NEW t \in Ops, OpCall(t) PROVE LocksInv'
    BY <2>9 DEF OpCall, LocksInv, TypeOK, InCommand, Threads, Attempt, Marked,
      mutexVars, mailVars, workVars, Goto
  <2>10. ASSUME NEW t \in Ops, OpLock(t) PROVE LocksInv'
    BY <2>10 DEF OpLock, LocksInv, TypeOK, InCommand, Threads, Attempt, Marked,
      mailVars, workVars, Goto
  <2>11. ASSUME NEW t \in Ops, OpEnd(t) PROVE LocksInv'
    BY <2>11 DEF OpEnd, LocksInv, TypeOK, InCommand, Threads, Attempt, Marked, mailVars,
      workVars, Goto
  <2>30. ASSUME NEW t \in Threads, Queue(t) PROVE LocksInv'
    <3>1. /\ pc[t] = "queue" /\ t \in Threads
          /\ pc' = [pc EXCEPT ![t] = "check"] \/ pc' = [pc EXCEPT ![t] = "unlock"]
          /\ slipped' = IF mcuReset = "set" THEN slipped + 1 ELSE slipped
          /\ UNCHANGED <<devMutex, mcuMutex, work, mcuReset>>
      BY <2>30 DEF Queue, Goto, Finish, mutexVars, workVars
    <3>2. \A u \in Threads : pc'[u] # "queue"
      BY <3>1 DEF LocksInv, InCommand, TypeOK
    <3>3. slipped' \in {0, 1} /\ (slipped' = 1 => work \in Marked)
      BY <3>1 DEF LocksInv
    <3>4. /\ \A u \in Threads \ {t} : pc'[u] = pc[u]
          /\ pc'[t] \in {"check", "unlock"} /\ pc[t] = "queue"
      BY <3>1 DEF TypeOK
    <3> QED
      BY ONLY LocksInv, McuAssumption, <3>1, <3>2, <3>3, <3>4 DEF LocksInv, InCommand, Threads
  <2>31. ASSUME NEW t \in Hints, HintCall(t) PROVE LocksInv'
    BY <2>31 DEF HintCall, LocksInv, TypeOK, InCommand, Threads, Attempt, Marked,
      mutexVars, mailVars, workVars, Goto
  <2>12. CASE FwAnswer
    BY <2>12 DEF FwAnswer, LocksInv, TypeOK, InCommand, Threads, Attempt, Marked,
      mutexVars, workVars
  <2>13. CASE RxEvent
    BY <2>13 DEF RxEvent, LocksInv, TypeOK, InCommand, Threads, Attempt, Marked,
      mutexVars, workVars
  <2>14. CASE AskReset
    BY <2>14 DEF AskReset, LocksInv, TypeOK, InCommand, Threads, Attempt, Marked,
      mutexVars, mailVars, workVars, RequestReset
  <2>15. CASE WorkStart
    BY <2>15 DEF WorkStart, LocksInv, TypeOK, InCommand, Threads, Attempt, Marked,
      mutexVars, mailVars
  <2>16. CASE RefuseReset
    BY <2>16 DEF RefuseReset, LocksInv, TypeOK, InCommand, Threads, Attempt, Marked,
      mutexVars, mailVars, Stage
  <2>17. CASE MarkReset
    BY <2>17 DEF MarkReset, LocksInv, TypeOK, InCommand, Threads, Attempt, Marked,
      mutexVars, mailVars, Stage
  <2>18. CASE PurgeAnswers
    BY <2>18 DEF PurgeAnswers, LocksInv, TypeOK, InCommand, Threads, Attempt, Marked,
      mutexVars, Stage
  <2>19. CASE DisableNapi
    BY <2>19 DEF DisableNapi, LocksInv, TypeOK, InCommand, Threads, Attempt, Marked,
      mutexVars, mailVars, Stage
  <2>20. CASE ResetRings
    BY <2>20 DEF ResetRings, LocksInv, TypeOK, InCommand, Threads, Attempt, Marked,
      mutexVars, Stage
  <2>21. CASE EnableNapi
    BY <2>21 DEF EnableNapi, LocksInv, TypeOK, InCommand, Threads, Attempt, Marked,
      mutexVars, mailVars, Stage
  <2>22. CASE ClearReset
    BY <2>22 DEF ClearReset, LocksInv, TypeOK, InCommand, Threads, Attempt, Marked,
      mutexVars, mailVars, Stage
  <2>23. CASE ResetOwn
    BY <2>23 DEF ResetOwn, LocksInv, TypeOK, InCommand, Threads, Attempt, Marked,
      mutexVars, mailVars, Goto, Stage
  <2>24. CASE WorkUnlock
    BY <2>24 DEF WorkUnlock, LocksInv, TypeOK, InCommand, Threads, Attempt, Marked,
      mailVars
  <2>25. CASE WorkFinish
    BY <2>25 DEF WorkFinish, LocksInv, TypeOK, InCommand, Threads, Attempt, Marked,
      mutexVars, mailVars, Goto
  <2>26. CASE WorkLock
    BY <2>26 DEF WorkLock, LocksInv, TypeOK, InCommand, Threads, Attempt, Marked,
      mailVars
  <2>27. CASE LoadEnd
    BY <2>27 DEF LoadEnd, LocksInv, TypeOK, InCommand, Threads, Attempt, Marked,
      mutexVars, mailVars, Goto, Stage
  <2>28. CASE WorkEnd
    BY <2>28 DEF WorkEnd, LocksInv, TypeOK, InCommand, Threads, Attempt, Marked,
      mutexVars, mailVars, Goto, Stage
  <2>29. CASE UNCHANGED vars
    BY <2>29 DEF vars, LocksInv, TypeOK, InCommand, Threads, Attempt, Marked
  <2> QED
    BY <2>1, <2>2, <2>3, <2>4, <2>5, <2>6, <2>7, <2>8, <2>9, <2>10, <2>11, <2>12,
       <2>13, <2>14, <2>15, <2>16, <2>17, <2>18, <2>19, <2>20, <2>21, <2>22, <2>23,
       <2>24, <2>25, <2>26, <2>27, <2>28, <2>29, <2>30, <2>31
       DEF Next, ThreadStep, WorkNext
<1> QED
  BY <1>1, <1>2, McuTypeCorrect, PTL DEF Spec

\* The number of a message tells its age for a round (mt7925_mcu_fill_message).
THEOREM McuNumbersInvariance == Spec => []NumbersInv
<1>1. Init => NumbersInv
  BY McuAssumption DEF Init, NumbersInv, AcceptedIsOwn, Numbered, Waiting, Threads
<1>2. NumbersInv /\ LocksInv /\ TypeOK /\ [Next]_vars => NumbersInv'
  <2> SUFFICES ASSUME NumbersInv, LocksInv, TypeOK, [Next]_vars PROVE NumbersInv'
    OBVIOUS
  <2> USE McuAssumption
  <2>1. ASSUME NEW t \in Threads, Begin(t) PROVE NumbersInv'
    BY <2>1 DEF Begin, NumbersInv, AcceptedIsOwn, Numbered, Waiting, TypeOK, Threads, mutexVars,
      mailVars, workVars, Goto
  <2>2. ASSUME NEW t \in Threads, LockMcu(t) PROVE NumbersInv'
    BY <2>2 DEF LockMcu, NumbersInv, AcceptedIsOwn, Numbered, Waiting, TypeOK, Threads, mailVars,
      workVars, Goto
  <2>3. ASSUME NEW t \in Threads, Send(t) PROVE NumbersInv'
    <3>1. /\ NextSeq(msgSeq) \in 1 .. LastSeq /\ msgSeq' = NextSeq(msgSeq)
          /\ \A m \in fw : m \in Messages /\ PlacedAt(Aged(m), msgSeq')
      <4>1. msgSeq \in 0 .. LastSeq /\ msgSeq' = NextSeq(msgSeq)
        BY <2>3 DEF Send, TypeOK
      <4>2. NextSeq(msgSeq) \in 1 .. LastSeq
        BY <4>1 DEF NextSeq
      <4>3. \A m \in fw : m \in Messages /\ PlacedAt(m, msgSeq)
        BY DEF TypeOK, NumbersInv
      <4> QED
        BY <4>1, <4>2, <4>3, AgedMessage
    <3>2. \A m \in fw' : PlacedAt(m, msgSeq')
      BY <2>3, <3>1 DEF Send
    <3>3. \A i \in 1 .. Len(rx') : PlacedAt(rx'[i], msgSeq')
      <4>1. Len(rx') = Len(rx) /\ \A i \in 1 .. Len(rx) : rx'[i] = Aged(rx[i]) /\ rx[i] \in Messages
        BY <2>3, AgedQueue DEF Send, TypeOK
      <4> QED
        BY <3>1, <4>1, AgedMessage DEF NumbersInv, TypeOK
    <3>4. \A i \in 1 .. Len(resQ') : PlacedAt(resQ'[i], msgSeq')
      <4>1. Len(resQ') = Len(resQ)
            /\ \A i \in 1 .. Len(resQ) : resQ'[i] = Aged(resQ[i]) /\ resQ[i] \in Messages
        BY <2>3, AgedQueue DEF Send, TypeOK
      <4> QED
        BY <3>1, <4>1, AgedMessage DEF NumbersInv, TypeOK
    <3>5. \A u \in Threads : Numbered(u)' => order'[u].seq = msgSeq'
      <4> TAKE u \in Threads
      <4>1. CASE u = t
        BY <2>3, <4>1 DEF Send, TypeOK
      <4>2. CASE u # t
        <5>1. mcuMutex = t /\ ~InCommand(u)
          BY <2>3, <4>2 DEF Send, LocksInv, InCommand
        <5>2. pc'[u] = pc[u]
          BY <2>3, <4>2 DEF Send, Goto, Finish, TypeOK
        <5> QED
          BY <5>1, <5>2 DEF InCommand, Numbered, Waiting
      <4> QED
        BY <4>1, <4>2
    <3>6. AcceptedIsOwn'
      BY <2>3 DEF Send, NumbersInv, AcceptedIsOwn
    <3> QED
      BY <3>2, <3>3, <3>4, <3>5, <3>6 DEF NumbersInv
  <2>4. ASSUME NEW t \in Threads, Deadline(t) PROVE NumbersInv'
    BY <2>4 DEF Deadline, NumbersInv, AcceptedIsOwn, Numbered, Waiting, TypeOK, Threads,
      mutexVars, mailVars, workVars
  <2>5. ASSUME NEW t \in Threads, Check(t) PROVE NumbersInv'
    BY <2>5 DEF Check, NumbersInv, AcceptedIsOwn, Numbered, Waiting, TypeOK, Threads, mutexVars,
      mailVars, workVars, Goto, Finish, RequestReset, NoAnswer
  <2>6. ASSUME NEW t \in Threads, Wake(t) PROVE NumbersInv'
    BY <2>6 DEF Wake, NumbersInv, AcceptedIsOwn, Numbered, Waiting, TypeOK, Threads, mutexVars,
      mailVars, workVars, Goto
  <2>7. ASSUME NEW t \in Threads, Take(t) PROVE NumbersInv'
    <3>1. \A u \in Threads : Numbered(u)' => Numbered(u)
      BY <2>7 DEF Take, Numbered, Waiting, Goto, Finish, NoAnswer, TypeOK
    <3>2. CASE UNCHANGED <<resQ, answer>>
      BY <2>7, <3>1, <3>2 DEF Take, NumbersInv, AcceptedIsOwn
    <3>3. CASE resQ # <<>> /\ resQ' = Tail(resQ)
      <4>0. resQ \in Seq(Messages) /\ \A i \in 1 .. Len(resQ) : PlacedAt(resQ[i], msgSeq)
        BY DEF NumbersInv, TypeOK
      <4>1. \A i \in 1 .. Len(resQ') : PlacedAt(resQ'[i], msgSeq)
        BY ONLY <3>3, <4>0, TailKeepsPlaces
      <4>2. Head(resQ) \in Messages /\ PlacedAt(Head(resQ), msgSeq)
        <5>1. Head(resQ) = resQ[1] /\ 1 \in 1 .. Len(resQ) /\ resQ[1] \in Messages
          BY ONLY <3>3, <4>0
        <5> QED
          BY ONLY <4>0, <5>1
      <4>3. CASE Matches(Head(resQ), order[t])
        <5>1. Head(resQ).seq = msgSeq
          BY <2>7, <4>3 DEF Take, Matches, Numbered, Waiting, NumbersInv
        <5>2. Head(resQ).age \in {0, LastSeq}
          BY <4>2, <5>1 DEF PlacedAt, Messages, TypeOK
        <5>3. answer' = [answer EXCEPT ![t] = Head(resQ).age]
          BY <2>7, <3>3, <4>3 DEF Take
        <5>4. AcceptedIsOwn'
          BY <5>2, <5>3 DEF NumbersInv, AcceptedIsOwn, TypeOK
        <5> QED
          BY <2>7, <3>1, <4>1, <5>4 DEF Take, NumbersInv
      <4>4. CASE ~Matches(Head(resQ), order[t])
        BY <2>7, <3>1, <3>3, <4>1, <4>4 DEF Take, NumbersInv, AcceptedIsOwn
      <4> QED
        BY <4>3, <4>4
    <3> QED
      BY <2>7, <3>2, <3>3 DEF Take
  <2>8. ASSUME NEW t \in Threads, Unlock(t) PROVE NumbersInv'
    BY <2>8 DEF Unlock, NumbersInv, AcceptedIsOwn, Numbered, Waiting, TypeOK, Threads, mailVars,
      workVars, Goto
  <2>9. ASSUME NEW t \in Ops, OpCall(t) PROVE NumbersInv'
    BY <2>9 DEF OpCall, NumbersInv, AcceptedIsOwn, Numbered, Waiting, TypeOK, Threads, mutexVars,
      mailVars, workVars, Goto
  <2>10. ASSUME NEW t \in Ops, OpLock(t) PROVE NumbersInv'
    BY <2>10 DEF OpLock, NumbersInv, AcceptedIsOwn, Numbered, Waiting, TypeOK, Threads, mailVars,
      workVars, Goto
  <2>11. ASSUME NEW t \in Ops, OpEnd(t) PROVE NumbersInv'
    BY <2>11 DEF OpEnd, NumbersInv, AcceptedIsOwn, Numbered, Waiting, TypeOK, Threads, mailVars,
      workVars, Goto
  <2>30. ASSUME NEW t \in Threads, Queue(t) PROVE NumbersInv'
    <3>1. \A u \in Threads : Numbered(u)' => Numbered(u)
      BY <2>30 DEF Queue, Numbered, Waiting, Goto, Finish, TypeOK
    <3>2. \A m \in fw' : PlacedAt(m, msgSeq)
      <4>1. order[t].seq = msgSeq /\ msgSeq \in 0 .. LastSeq
        BY <2>30 DEF Queue, NumbersInv, Numbered, TypeOK
      <4>2. PlacedAt([seq |-> order[t].seq, age |-> 0, cmd |-> order[t].cmd], msgSeq)
        BY <4>1 DEF PlacedAt
      <4> QED
        BY <2>30, <4>2 DEF Queue, NumbersInv
    <3> QED
      BY <2>30, <3>1, <3>2 DEF Queue, NumbersInv, AcceptedIsOwn
  <2>31. ASSUME NEW t \in Hints, HintCall(t) PROVE NumbersInv'
    BY <2>31 DEF HintCall, NumbersInv, AcceptedIsOwn, Numbered, Waiting, TypeOK, Threads,
      mutexVars, mailVars, workVars, Goto
  <2>12. CASE FwAnswer
    <3>1. PICK m \in fw : fw' = fw \ {m} /\ rx' = Append(rx, m)
      BY <2>12 DEF FwAnswer
    <3>2. \A i \in 1 .. Len(rx') : PlacedAt(rx'[i], msgSeq)
      <4>1. rx \in Seq(Messages) /\ PlacedAt(m, msgSeq)
            /\ \A i \in 1 .. Len(rx) : PlacedAt(rx[i], msgSeq)
        BY DEF NumbersInv, TypeOK
      <4>2. Len(rx') = Len(rx) + 1 /\ rx'[Len(rx) + 1] = m
            /\ \A i \in 1 .. Len(rx) : rx'[i] = rx[i]
        BY <3>1, <4>1
      <4> QED
        BY <4>1, <4>2
    <3> QED
      BY <2>12, <3>1, <3>2 DEF FwAnswer, NumbersInv, AcceptedIsOwn, Numbered, Waiting
  <2>13. CASE RxEvent
    <3>1. /\ rx # <<>> /\ rx \in Seq(Messages) /\ resQ \in Seq(Messages)
          /\ rx' = Tail(rx) /\ resQ' = Append(resQ, Head(rx))
          /\ \A i \in 1 .. Len(rx) : PlacedAt(rx[i], msgSeq)
          /\ \A i \in 1 .. Len(resQ) : PlacedAt(resQ[i], msgSeq)
      BY <2>13 DEF RxEvent, NumbersInv, TypeOK
    <3>2. \A i \in 1 .. Len(rx') : PlacedAt(rx'[i], msgSeq)
      BY ONLY <3>1, TailKeepsPlaces
    <3>3. \A i \in 1 .. Len(resQ') : PlacedAt(resQ'[i], msgSeq)
      <4>1. Len(resQ') = Len(resQ) + 1 /\ resQ'[Len(resQ) + 1] = rx[1]
            /\ \A i \in 1 .. Len(resQ) : resQ'[i] = resQ[i]
        BY <3>1
      <4>2. 1 \in 1 .. Len(rx)
        BY <3>1
      <4> QED
        BY <3>1, <4>1, <4>2
    <3> QED
      BY <2>13, <3>2, <3>3 DEF RxEvent, NumbersInv, AcceptedIsOwn, Numbered, Waiting
  <2>14. CASE AskReset
    BY <2>14 DEF AskReset, NumbersInv, AcceptedIsOwn, Numbered, Waiting, TypeOK, Threads,
      mutexVars, mailVars, workVars, RequestReset
  <2>15. CASE WorkStart
    BY <2>15 DEF WorkStart, NumbersInv, AcceptedIsOwn, Numbered, Waiting, TypeOK, Threads,
      mutexVars, mailVars
  <2>16. CASE RefuseReset
    BY <2>16 DEF RefuseReset, NumbersInv, AcceptedIsOwn, Numbered, Waiting, TypeOK, Threads,
      mutexVars, mailVars, Stage
  <2>17. CASE MarkReset
    BY <2>17 DEF MarkReset, NumbersInv, AcceptedIsOwn, Numbered, Waiting, TypeOK, Threads,
      mutexVars, mailVars, Stage
  <2>18. CASE PurgeAnswers
    BY <2>18 DEF PurgeAnswers, NumbersInv, AcceptedIsOwn, Numbered, Waiting, TypeOK, Threads,
      mutexVars, Stage
  <2>19. CASE DisableNapi
    BY <2>19 DEF DisableNapi, NumbersInv, AcceptedIsOwn, Numbered, Waiting, TypeOK, Threads,
      mutexVars, mailVars, Stage
  <2>20. CASE ResetRings
    BY <2>20 DEF ResetRings, NumbersInv, AcceptedIsOwn, Numbered, Waiting, TypeOK, Threads,
      mutexVars, Stage
  <2>21. CASE EnableNapi
    BY <2>21 DEF EnableNapi, NumbersInv, AcceptedIsOwn, Numbered, Waiting, TypeOK, Threads,
      mutexVars, mailVars, Stage
  <2>22. CASE ClearReset
    BY <2>22 DEF ClearReset, NumbersInv, AcceptedIsOwn, Numbered, Waiting, TypeOK, Threads,
      mutexVars, mailVars, Stage
  <2>23. CASE ResetOwn
    BY <2>23 DEF ResetOwn, NumbersInv, AcceptedIsOwn, Numbered, Waiting, TypeOK, Threads,
      mutexVars, mailVars, Goto, Stage
  <2>24. CASE WorkUnlock
    BY <2>24 DEF WorkUnlock, NumbersInv, AcceptedIsOwn, Numbered, Waiting, TypeOK, Threads,
      mailVars
  <2>25. CASE WorkFinish
    BY <2>25 DEF WorkFinish, NumbersInv, AcceptedIsOwn, Numbered, Waiting, TypeOK, Threads,
      mutexVars, mailVars, Goto
  <2>26. CASE WorkLock
    BY <2>26 DEF WorkLock, NumbersInv, AcceptedIsOwn, Numbered, Waiting, TypeOK, Threads, mailVars
  <2>27. CASE LoadEnd
    BY <2>27 DEF LoadEnd, NumbersInv, AcceptedIsOwn, Numbered, Waiting, TypeOK, Threads,
      mutexVars, mailVars, Goto, Stage
  <2>28. CASE WorkEnd
    BY <2>28 DEF WorkEnd, NumbersInv, AcceptedIsOwn, Numbered, Waiting, TypeOK, Threads,
      mutexVars, mailVars, Goto, Stage
  <2>29. CASE UNCHANGED vars
    BY <2>29 DEF vars, NumbersInv, AcceptedIsOwn, Numbered, Waiting, TypeOK, Threads
  <2> QED
    BY <2>1, <2>2, <2>3, <2>4, <2>5, <2>6, <2>7, <2>8, <2>9, <2>10, <2>11, <2>12,
       <2>13, <2>14, <2>15, <2>16, <2>17, <2>18, <2>19, <2>20, <2>21, <2>22, <2>23,
       <2>24, <2>25, <2>26, <2>27, <2>28, <2>29, <2>30, <2>31
       DEF Next, ThreadStep, WorkNext
<1> QED
  BY <1>1, <1>2, McuTypeCorrect, McuLocksInvariance, PTL DEF Spec

\* While a reset has its flag set, no command of dev.mutex and none of its own
\* is under way, and at most one message of a sender without dev.mutex gets into
\* the rings (mt7925e_mac_reset against the unlocked test in
\* mt76_dma_tx_queue_skb_raw).
THEOREM AtMostOneMessageSlips == Spec => []OneMessageSlips
<1>1. LocksInv /\ TypeOK => OneMessageSlips
  <2> SUFFICES ASSUME LocksInv, TypeOK PROVE OneMessageSlips
    OBVIOUS
  <2>1. ASSUME work \in Marked, NEW t \in Threads, InCommand(t) PROVE t \in Hints
    <3>1. devMutex = Reset /\ pc[Reset] = "idle"
      BY <2>1 DEF LocksInv, Attempt, Marked
    <3>2. t # Reset /\ t \notin Ops
      BY <2>1, <3>1, McuAssumption DEF LocksInv, InCommand
    <3> QED
      BY <2>1, <3>2 DEF Threads
  <2> QED
    BY <2>1 DEF LocksInv, OneMessageSlips
<1> QED
  BY <1>1, McuLocksInvariance, McuTypeCorrect, PTL

\* Every accepted answer is the own one or a whole round of numbers old
\* (mt7925_mcu_parse_response).
THEOREM AcceptedAnswersAreOwn == Spec => []AcceptedIsOwn
<1>1. NumbersInv => AcceptedIsOwn
  BY DEF NumbersInv
<1> QED
  BY <1>1, McuNumbersInvariance, PTL

\* Who holds a mutex is on the way to give it back: the holder of mcu.mutex is
\* inside of a command, where it waits for nothing but an answer or its
\* deadline, and the holder of dev.mutex inside of its callback or attempt.  A
\* callback takes mcu.mutex only under dev.mutex; scan_work takes it without.
MutexesAreReturned ==
  /\ mcuMutex # "free" => mcuMutex \in Threads /\ InCommand(mcuMutex)
  /\ devMutex \in Ops => pc[devMutex] \notin {"idle", "want"}
  /\ devMutex = Reset => work \in Attempt
  /\ mcuMutex \in Ops => devMutex = mcuMutex

\* dev.mutex and mcu.mutex are nested in one order and none is left locked, so
\* that callbacks, commands and mt7925_mac_reset_work cannot block one another
\* for longer than a command lasts (mt76_mcu_skb_send_and_get_msg).
THEOREM NoMutexIsLeftLocked == Spec => []MutexesAreReturned
<1>1. LocksInv /\ TypeOK => MutexesAreReturned
  <2> SUFFICES ASSUME LocksInv, TypeOK PROVE MutexesAreReturned
    OBVIOUS
  <2>1. mcuMutex # "free" => mcuMutex \in Threads /\ InCommand(mcuMutex)
    BY DEF LocksInv, TypeOK
  <2>2. mcuMutex \in Ops => devMutex = mcuMutex
    BY <2>1, McuAssumption DEF LocksInv, InCommand
  <2> QED
    BY <2>1, <2>2 DEF LocksInv, MutexesAreReturned
<1> QED
  BY <1>1, McuLocksInvariance, McuTypeCorrect, PTL

=============================================================================
