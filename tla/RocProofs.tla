----------------------------- MODULE RocProofs -----------------------------
(***************************************************************************)
(* Proofs about Roc, for any number of tokens and links: type correctness, *)
(* a request in force always has something that will end it, a waiter      *)
(* never loses its grant, and the removal of a station is the only         *)
(* deadlock between the callbacks and roc_work.                            *)
(*                                                                         *)
(* None of them is inductive.  MutexInv says which program counters hold   *)
(* dev.mutex, so that roc_work cannot withdraw the request of a callback   *)
(* that is waiting.  GrantInv says that a grant which the waiter can see   *)
(* has left its mark in the timer, in roc_work or in NAPI, so that the     *)
(* request is watched from the moment its waiter goes away.                *)
(***************************************************************************)
EXTENDS Roc, TLAPS

Watched == timer = "yes" \/ queued = "yes" \/ napi = "arm"

\* Where a callback holds dev.mutex: all through the removal of a station, in a
\* request, and when the end of one clears the bit.
CallerHolds ==
  \/ call.pc \in {"request", "send", "wait", "unlock"}
  \/ call.kind = "sta_remove" /\ call.pc \in {"timer", "cancel", "clear"}
  \/ call.kind \in {"abort", "set_links"} /\ call.pc = "clear"

MutexInv ==
  /\ mutex = "caller" <=> CallerHolds
  /\ mutex = "work" <=> work = "abort"
  /\ call.pc = "lock" => call.kind # "suspend"

GrantInv == Requesting /\ grant = "yes" /\ bit = "yes" => Watched

RocInv == TypeOK /\ MutexInv /\ GrantInv /\ RocIsWatched /\ WaiterIsNotForgotten

-----------------------------------------------------------------------------
(* Type correctness.                                                       *)

LEMMA NextTokenInRange ==
  ASSUME token \in TokenIds
  PROVE  (IF token = Tokens - 1 THEN 0 ELSE token + 1) \in TokenIds
  BY RocAssumption DEF TokenIds

LEMMA TypeInit == Init => TypeOK
  BY RocAssumption DEF Init, TypeOK, YesNo, TokenIds, Kinds, Pcs

\* Moving the callback to another place keeps its type.
LEMMA GoTyped ==
  ASSUME TypeOK, NEW pc \in Pcs, Go(pc)
  PROVE  /\ call' \in [kind : Kinds, pc : Pcs, links : Nat]
         /\ call'.pc = pc /\ call'.kind = call.kind
  BY DEF TypeOK, Go

LEMMA BeginTyped ==
  ASSUME NEW kind \in Kinds, NEW pc \in Pcs, NEW links \in Nat, Begin(kind, pc, links)
  PROVE  /\ call' \in [kind : Kinds, pc : Pcs, links : Nat]
         /\ call'.pc = pc /\ call'.kind = kind /\ call.pc = "idle"
         /\ UNCHANGED <<bit, grant, token, timer, queued, work, napi, mutex, asked, events>>
  BY DEF Begin, fwVars

\* Every callback begins somewhere before it asks for anything.
LEMMA StartTyped ==
  ASSUME TypeOK, Start
  PROVE  /\ call' \in [kind : Kinds, pc : Pcs, links : Nat]
         /\ call'.pc \in {"lock", "timer"} /\ call.pc = "idle"
         /\ call'.pc = "lock" => call'.kind # "suspend"
         /\ call'.pc = "timer" => call'.kind # "sta_remove"
         /\ UNCHANGED <<bit, grant, token, timer, queued, work, napi, mutex, asked, events>>
<1> USE DEF Kinds, Pcs
<1>1. CASE RemainOnChannel
  BY <1>1, BeginTyped DEF RemainOnChannel
<1>2. CASE AbortRoc \/ SetLinks
  BY <1>2, BeginTyped DEF AbortRoc, SetLinks
<1>3. CASE ChangeVifLinks
  <2>1. PICK n \in 1 .. MaxAdded : Begin("mlo", "lock", n)
    BY <1>3 DEF ChangeVifLinks
  <2>2. n \in Nat
    BY RocAssumption
  <2> QED
    BY <2>1, <2>2, BeginTyped
<1>4. CASE StaRemove \/ Suspend
  BY <1>4, BeginTyped DEF StaRemove, Suspend
<1> QED
  BY <1>1, <1>2, <1>3, <1>4 DEF Start

LEMMA TypeStep == TypeOK /\ [Next]_vars => TypeOK'
<1> SUFFICES ASSUME TypeOK, [Next]_vars PROVE TypeOK'
  OBVIOUS
<1> USE DEF TypeOK, YesNo, fwVars
<1>1. CASE TimerFires \/ WorkNext
  BY <1>1 DEF TimerFires, WorkNext, WorkStart, WorkLock, WorkAbort
<1>2. CASE NapiNext
  BY <1>2 DEF NapiNext, GrantArm, GrantEvent
<1>3. CASE \E t \in TokenIds : FwGrant(t)
  BY <1>3 DEF FwGrant
<1>4. CASE Start
  BY <1>4, StartTyped
<1>5. CASE CallerNext
  <2> USE DEF Go, Finished, Pcs, Kinds
  <2>1. CASE Lock \/ DeleteTimer \/ CancelWork
    BY <2>1 DEF Lock, DeleteTimer, CancelWork
  <2>2. CASE Clear
    BY <2>2 DEF Clear
  <2>3. CASE Request \/ Unlock
    BY <2>3 DEF Request, Unlock
  <2>4. CASE Send
    BY <2>4, NextTokenInRange DEF Send
  <2>5. CASE Granted
    <3>1. CASE call.links > 1
      <4>1. call.links - 1 \in Nat
        BY <3>1
      <4>2. call' = [call EXCEPT !.pc = "request", !.links = call.links - 1]
        BY <2>5, <3>1 DEF Granted
      <4> QED
        BY <2>5, <4>1, <4>2 DEF Granted
    <3>2. CASE ~(call.links > 1)
      BY <2>5, <3>2 DEF Granted
    <3> QED
      BY <3>1, <3>2
  <2>6. CASE TimedOut
    BY <2>6 DEF TimedOut
  <2> QED
    BY <1>5, <2>1, <2>2, <2>3, <2>4, <2>5, <2>6 DEF CallerNext
<1>6. CASE UNCHANGED vars
  BY <1>6 DEF vars
<1> QED
  BY <1>1, <1>2, <1>3, <1>4, <1>5, <1>6 DEF Next

-----------------------------------------------------------------------------
(* The mutex, the grant and the two properties.                            *)

LEMMA RocInit == Init => RocInv
<1> SUFFICES ASSUME Init PROVE RocInv
  OBVIOUS
<1>1. MutexInv /\ GrantInv /\ RocIsWatched /\ WaiterIsNotForgotten
  BY DEF Init, MutexInv, CallerHolds, GrantInv, Requesting, RocIsWatched, WaiterIsNotForgotten
<1> QED
  BY <1>1, TypeInit DEF RocInv

\* The timer, roc_work, NAPI and the firmware do not move the callback.
LEMMA BackgroundStep ==
  ASSUME RocInv, TypeOK',
         TimerFires \/ WorkNext \/ NapiNext \/ \E t \in TokenIds : FwGrant(t)
  PROVE  RocInv'
<1> USE DEF RocInv, TypeOK, YesNo, MutexInv, GrantInv, Watched, Requesting, Ending,
            RocIsWatched, WaiterIsNotForgotten, CallerHolds, fwVars
<1>1. CASE TimerFires
  BY <1>1 DEF TimerFires
<1>2. CASE WorkStart
  BY <1>2 DEF WorkStart
<1>3. CASE WorkLock
  BY <1>3 DEF WorkLock
<1>4. CASE WorkAbort
  BY <1>4 DEF WorkAbort
<1>5. CASE GrantArm
  BY <1>5 DEF GrantArm
<1>6. ASSUME NEW t \in TokenIds, GrantEvent(t) PROVE RocInv'
  BY <1>6 DEF GrantEvent
<1>7. ASSUME NEW t \in TokenIds, FwGrant(t) PROVE RocInv'
  BY <1>7 DEF FwGrant
<1> QED
  BY <1>1, <1>2, <1>3, <1>4, <1>5, <1>6, <1>7 DEF WorkNext, NapiNext

LEMMA CallerStep == ASSUME RocInv, TypeOK', CallerNext PROVE RocInv'
<1> USE DEF RocInv, TypeOK, YesNo, MutexInv, GrantInv, Watched, Requesting, Ending,
            RocIsWatched, WaiterIsNotForgotten, CallerHolds, fwVars, Go, Finished
<1>1. CASE Lock
  <2>1. /\ mutex' = "caller" /\ work # "abort" /\ call'.kind = call.kind
        /\ UNCHANGED <<bit, grant, token, timer, queued, work, napi, asked, events>>
    BY <1>1 DEF Lock
  <2>2. CASE call.kind \in {"request", "mlo"}
    <3>1. call'.pc = "request"
      BY <1>1, <2>2 DEF Lock
    <3> QED
      BY <1>1, <2>1, <2>2, <3>1 DEF Lock
  <2>3. CASE call.kind \in {"abort", "set_links"}
    <3>1. call'.pc = "clear"
      BY <1>1, <2>3 DEF Lock
    <3> QED
      BY <1>1, <2>1, <2>3, <3>1 DEF Lock
  <2>4. CASE call.kind = "sta_remove"
    <3>1. call'.pc = "timer"
      BY <1>1, <2>4 DEF Lock
    <3> QED
      BY <1>1, <2>1, <2>4, <3>1 DEF Lock
  <2> QED
    BY <1>1, <2>2, <2>3, <2>4 DEF Lock, Kinds
<1>2. CASE DeleteTimer
  BY <1>2 DEF DeleteTimer
<1>3. CASE CancelWork
  BY <1>3 DEF CancelWork
<1>4. CASE Clear
  BY <1>4 DEF Clear
<1>5. CASE Request
  BY <1>5 DEF Request
<1>6. CASE Send
  BY <1>6 DEF Send
<1>7. CASE Granted
  BY <1>7 DEF Granted
<1>8. CASE TimedOut
  BY <1>8 DEF TimedOut
<1>9. CASE Unlock
  BY <1>9 DEF Unlock
<1> QED
  BY <1>1, <1>2, <1>3, <1>4, <1>5, <1>6, <1>7, <1>8, <1>9 DEF CallerNext

LEMMA RocStep == RocInv /\ [Next]_vars => RocInv'
<1> SUFFICES ASSUME RocInv, [Next]_vars PROVE RocInv'
  OBVIOUS
<1>1. TypeOK'
  BY TypeStep DEF RocInv
<1>2. CASE TimerFires \/ WorkNext \/ NapiNext \/ \E t \in TokenIds : FwGrant(t)
  BY <1>1, <1>2, BackgroundStep
<1>3. CASE Start
  <2>1. TypeOK
    BY DEF RocInv
  <2> QED
    BY <1>1, <1>3, <2>1, StartTyped
       DEF RocInv, MutexInv, CallerHolds, GrantInv, Watched, Requesting, Ending, RocIsWatched,
           WaiterIsNotForgotten
<1>4. CASE CallerNext
  BY <1>1, <1>4, CallerStep
<1>5. CASE UNCHANGED vars
  BY <1>5 DEF vars, RocInv, TypeOK, MutexInv, CallerHolds, GrantInv, Watched, Requesting, Ending,
              RocIsWatched, WaiterIsNotForgotten
<1> QED
  BY <1>2, <1>3, <1>4, <1>5 DEF Next

\* The inductive invariant of the remain-on-channel protocol holds in every
\* reachable state.
THEOREM RocInvariance == Spec => []RocInv
  BY RocInit, RocStep, PTL DEF Spec

\* Every variable keeps its type; roc_token_id stays within its width.
THEOREM RocTypeCorrect == Spec => []TypeOK
<1>1. RocInv => TypeOK
  BY DEF RocInv
<1> QED
  BY <1>1, RocInvariance, PTL

\* MT76_STATE_ROC never stays set with nobody left to clear it, whatever the
\* order of grant, timer, roc_work and callbacks (mt7925_set_roc).
THEOREM RequestsAreWatched == Spec => []RocIsWatched
<1>1. RocInv => RocIsWatched
  BY DEF RocInv
<1> QED
  BY <1>1, RocInvariance, PTL

\* No late roc_work or grant takes away the grant that a callback waits for
\* (wait_event_timeout in mt7925_set_roc).
THEOREM GrantsAreKept == Spec => []WaiterIsNotForgotten
<1>1. RocInv => WaiterIsNotForgotten
  BY DEF RocInv
<1> QED
  BY <1>1, RocInvariance, PTL

-----------------------------------------------------------------------------
(* Who waits for whom.                                                     *)

\* The callback waits for dev.mutex, or for a roc_work that runs; roc_work
\* waits for dev.mutex.
CallWaits == \/ call.pc = "lock" /\ mutex # "free"
             \/ call.pc = "cancel" /\ work # "idle"
WorkWaits == work = "lock" /\ mutex # "free"

\* Whoever waits, waits for the other one, who does not.
OnlyTeardownDeadlocks ==
  \/ TeardownStuck
  \/ /\ CallWaits => work # "idle" /\ ~WorkWaits
     /\ WorkWaits => call.pc # "idle" /\ ~CallWaits

\* The callbacks and roc_work never wait for each other, whatever the order of
\* cancel_work_sync and dev.mutex in them, except in the removal of a station
\* (mt7925_mac_link_sta_remove): it is the only deadlock.
THEOREM RemovalIsTheOnlyDeadlock == Spec => []OnlyTeardownDeadlocks
<1>1. RocInv => OnlyTeardownDeadlocks
  <2> SUFFICES ASSUME RocInv PROVE OnlyTeardownDeadlocks
    OBVIOUS
  <2> USE DEF RocInv, MutexInv, CallerHolds, TypeOK
  <2>1. ASSUME CallWaits, ~TeardownStuck PROVE work # "idle" /\ ~WorkWaits
    BY <2>1 DEF CallWaits, WorkWaits, TeardownStuck
  <2>2. ASSUME WorkWaits, ~TeardownStuck PROVE call.pc # "idle" /\ ~CallWaits
    BY <2>2 DEF CallWaits, WorkWaits, TeardownStuck
  <2> QED
    BY <2>1, <2>2 DEF OnlyTeardownDeadlocks
<1> QED
  BY <1>1, RocInvariance, PTL
=============================================================================
