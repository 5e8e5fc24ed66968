------------------------------ MODULE TxProofs ------------------------------
(***************************************************************************)
(* Proofs about the transmit side: TxToken, TxSchedule and TxStatus, for   *)
(* any numbers of tokens, handlers, stations, senders, frames, packet ids  *)
(* and resets.                                                             *)
(*                                                                         *)
(* TxToken: every token has one owner, and the tx worker never finds the   *)
(* pool empty.  The last one is why MT76_TOKEN_FREE_THR must exceed the    *)
(* number of handlers.  A handler that has decided to unblock the queue    *)
(* can do so when the pool is no longer as free as it was; each such       *)
(* decision lets the worker take one token more.  HeadroomInv balances the *)
(* tokens in use against the decisions that are still to be carried out.   *)
(*                                                                         *)
(* TxSchedule: it implements TxToken; no station with frames is forgotten  *)
(* (PlaceInv: it is listed, or the worker is at it, or somebody is about   *)
(* to list it), and neither is the worker while there is work (RunnerInv). *)
(*                                                                         *)
(* TxStatus: who is given back is nowhere else (FrameInv), who is not is   *)
(* somewhere (AccountInv), ids stay where checks find them (WatchInv,      *)
(* which needs what the worker still knows of its station: WorkerInv), and *)
(* a report can only go astray when its frame has lost its id (CreditInv,  *)
(* which needs that an index belongs to one station at a time:             *)
(* StationInv).                                                            *)
(***************************************************************************)
EXTENDS TxSchedule, TxStatus, FiniteSetTheorems, WellFoundedInduction, TLAPS

\* The handlers that have decided to unblock the queue.
Waking == {h \in Handlers : handler[h].wake = "yes"}

\* TokensHaveOneOwner, token by token.
OwnerInv ==
  /\ tokenCount = Cardinality(tokens)
  /\ \A id : id \in tokens <=> id \in fw \/ \E h \in Handlers : id \in handler[h].ids
  /\ \A h \in Handlers : handler[h].ids \cap fw = {}
  /\ \A h, g \in Handlers : h # g => handler[h].ids \cap handler[g].ids = {}

QuietInv ==
  /\ \A h \in Handlers :
       handler[h].pc = "idle" => handler[h].ids = {} /\ handler[h].wake = "no"
  /\ worker = "parked" => \A h \in Handlers : handler[h].pc = "idle"
  /\ worker = "send" => blocked = "no" /\ backlog > 0

HeadroomInv ==
  /\ tokenCount + Cardinality(Waking) <= Enough + Cardinality(Handlers)
  /\ blocked = "no" => tokenCount + Cardinality(Waking) < Enough + Cardinality(Handlers)

TokenInv == TypeOK /\ OwnerInv /\ QuietInv /\ HeadroomInv

-----------------------------------------------------------------------------
(* Counting.                                                               *)

LEMMA HandlersFinite ==
  /\ Cardinality(Handlers) \in Nat /\ Enough \in Nat
  /\ Cardinality(Handlers) < FreeThr /\ Enough > 0 /\ Enough + FreeThr = Size
  /\ Size \in Nat /\ FreeThr \in Nat
<1>1. Cardinality(Handlers) \in Nat
  BY TxTokenAssumption, FS_CardinalityType
<1> QED
  BY <1>1, TxTokenAssumption DEF Enough

LEMMA IdsCounted == IsFiniteSet(Ids) /\ Cardinality(Ids) = Size
<1>1. 0 \in Int /\ Size - 1 \in Int /\ ~(0 > Size - 1) /\ Size - 1 - 0 + 1 = Size
  BY HandlersFinite
<1>2. IsFiniteSet(0 .. Size - 1) /\ Cardinality(0 .. Size - 1) = Size
  BY ONLY <1>1, FS_Interval
<1> QED
  BY <1>2 DEF Ids

LEMMA IdsFinite ==
  ASSUME NEW S \in SUBSET Ids
  PROVE  IsFiniteSet(S) /\ Cardinality(S) \in 0 .. Size /\ (Cardinality(S) = Size => S = Ids)
<1>1. IsFiniteSet(Ids) /\ Cardinality(Ids) = Size
  BY IdsCounted
<1>2. IsFiniteSet(S) /\ Cardinality(S) <= Cardinality(Ids)
         /\ (Cardinality(Ids) = Cardinality(S) => Ids = S)
  BY <1>1, FS_Subset
<1>3. Cardinality(S) \in Nat
  BY <1>2, FS_CardinalityType
<1> QED
  BY <1>1, <1>2, <1>3, HandlersFinite

LEMMA WakingFinite ==
  /\ IsFiniteSet(Waking) /\ Cardinality(Waking) \in Nat
  /\ Cardinality(Waking) <= Cardinality(Handlers)
<1>1. Waking \in SUBSET Handlers
  BY DEF Waking
<1>2. IsFiniteSet(Waking) /\ Cardinality(Waking) <= Cardinality(Handlers)
  BY <1>1, TxTokenAssumption, FS_Subset
<1> QED
  BY <1>2, FS_CardinalityType

\* idr_alloc returns a free id whenever there is one.
LEMMA FreeIdIsFree ==
  ASSUME NEW S \in SUBSET Nat, S # {}
  PROVE  Min(S) \in S
<1>1. \E x \in S : \A y \in S : ~(<<y, x>> \in OpToRel(<, Nat))
  BY NatLessThanWellFounded, WFMin
<1>2. PICK x \in S : \A y \in S : ~(<<y, x>> \in OpToRel(<, Nat))
  BY <1>1
<1>3. \A y \in S : <<y, x>> \in Nat \X Nat /\ ~(y < x)
  BY <1>2 DEF OpToRel
<1>4. \A y \in S : x <= y
  <2> SUFFICES ASSUME NEW y \in S PROVE x <= y
    OBVIOUS
  <2>1. x \in Nat /\ y \in Nat /\ ~(y < x)
    BY <1>3
  <2> QED
    BY <2>1
<1> QED
  BY <1>4 DEF Min

LEMMA SendTakesFreeId ==
  ASSUME TypeOK, OwnerInv, WorkerSend
  PROVE  \E id \in Ids \ tokens : /\ tokens' = tokens \cup {id} /\ fw' = fw \cup {id}
                                  /\ Cardinality(tokens') = tokenCount + 1
<1> DEFINE id == Min(Ids \ tokens)
<1>1. Ids \subseteq Nat
  BY HandlersFinite DEF Ids
<1>2. Ids \ tokens # {}
  BY DEF WorkerSend, TypeOK
<1>3. id \in Ids \ tokens
  BY <1>1, <1>2, FreeIdIsFree
<1>4. tokens' = tokens \cup {id} /\ fw' = fw \cup {id}
  BY DEF WorkerSend
<1>5. Cardinality(tokens \cup {id}) = Cardinality(tokens) + 1
  BY <1>3, IdsFinite, FS_AddElement DEF TypeOK
<1> QED
  BY <1>3, <1>4, <1>5 DEF OwnerInv

LEMMA FreeGivesBack ==
  ASSUME TypeOK, OwnerInv, NEW h \in Handlers, NEW id \in Ids, FreeToken(h, id)
  PROVE  /\ id \in tokens /\ tokens' = tokens \ {id}
         /\ Cardinality(tokens') = tokenCount - 1 /\ tokenCount' = tokenCount - 1
         /\ handler' = [handler EXCEPT ![h] = [pc |-> "free", ids |-> handler[h].ids \ {id},
                wake |-> IF tokenCount - 1 < Enough /\ blocked = "yes"
                         THEN "yes" ELSE handler[h].wake]]
<1>1. id \in tokens
  BY DEF OwnerInv, FreeToken
<1>2. Cardinality(tokens \ {id}) = Cardinality(tokens) - 1
  BY <1>1, IdsFinite, FS_RemoveElement DEF TypeOK
<1>3. tokens' = tokens \ {id} /\ tokenCount' = tokenCount - 1 /\ handler[h].pc = "free"
  BY DEF FreeToken
<1>4. handler' = [handler EXCEPT ![h] = [pc |-> "free", ids |-> handler[h].ids \ {id},
                   wake |-> IF tokenCount - 1 < Enough /\ blocked = "yes"
                            THEN "yes" ELSE handler[h].wake]]
  BY DEF FreeToken
<1> QED
  BY <1>1, <1>2, <1>3, <1>4 DEF OwnerInv

\* Waking follows the wake field of one handler.
LEMMA WakingSame ==
  ASSUME TypeOK, NEW h \in Handlers, NEW r, handler' = [handler EXCEPT ![h] = r],
         r.wake = handler[h].wake
  PROVE  Waking' = Waking
  BY DEF TypeOK, Waking

LEMMA WakingLess ==
  ASSUME TypeOK, NEW h \in Handlers, NEW r, handler' = [handler EXCEPT ![h] = r],
         r.wake = "no", handler[h].wake = "yes"
  PROVE  Cardinality(Waking') = Cardinality(Waking) - 1
<1>1. Waking' = Waking \ {h} /\ h \in Waking
  BY DEF TypeOK, Waking
<1> QED
  BY <1>1, WakingFinite, FS_RemoveElement

-----------------------------------------------------------------------------
LEMMA TokenInit == Init => TokenInv
<1> SUFFICES ASSUME Init PROVE TokenInv
  OBVIOUS
<1>1. TypeOK /\ QuietInv
  BY TxTokenAssumption, HandlersFinite DEF Init, TypeOK, QuietInv, Ids
<1>2. OwnerInv
  BY FS_EmptySet DEF Init, OwnerInv
<1>3. Waking = {}
  BY DEF Init, Waking
<1>4. HeadroomInv
  BY <1>3, FS_EmptySet, HandlersFinite DEF Init, HeadroomInv
<1> QED
  BY <1>1, <1>2, <1>4 DEF TokenInv

LEMMA WorkerStep ==
  ASSUME TokenInv, Enqueue \/ Schedule \/ WorkerNext
  PROVE  TokenInv'
<1> USE DEF TokenInv
<1>1. CASE Enqueue \/ Schedule \/ WorkerRun \/ WorkerCheck \/ WorkerDone
  <2>1. Waking' = Waking
    BY <1>1 DEF Enqueue, Schedule, WorkerRun, WorkerCheck, WorkerDone, Waking
  <2>2. TypeOK' /\ QuietInv'
    BY <1>1, TxTokenAssumption DEF TypeOK, QuietInv, Enqueue, Schedule, WorkerRun, WorkerCheck, WorkerDone
  <2>3. OwnerInv'
    BY <1>1 DEF OwnerInv, Enqueue, Schedule, WorkerRun, WorkerCheck, WorkerDone
  <2>4. HeadroomInv'
    BY <1>1, <2>1 DEF HeadroomInv, Enqueue, Schedule, WorkerRun, WorkerCheck, WorkerDone
  <2> QED
    BY <2>2, <2>3, <2>4
<1>2. CASE WorkerSend
  <2>1. PICK id \in Ids \ tokens : /\ tokens' = tokens \cup {id} /\ fw' = fw \cup {id}
                                   /\ Cardinality(tokens') = tokenCount + 1
    BY <1>2, SendTakesFreeId
  <2>2. tokens' \in SUBSET Ids /\ Cardinality(tokens') \in 0 .. Size
    BY <2>1, IdsFinite DEF TypeOK
  <2>3. /\ tokenCount' = tokenCount + 1 /\ backlog' = backlog - 1
        /\ blocked' \in {"yes", blocked} /\ worker' = "check"
        /\ UNCHANGED <<scheduled, handler, resets>>
    BY <1>2 DEF WorkerSend
  <2>4. TypeOK'
    BY <2>1, <2>2, <2>3, <1>2, TxTokenAssumption DEF TypeOK, QuietInv, WorkerSend
  <2>8. OwnerInv'
    BY <2>1, <2>3 DEF OwnerInv
  <2>5. QuietInv'
    BY <1>2 DEF QuietInv, WorkerSend
  <2>6. Waking' = Waking
    BY <1>2 DEF Waking, WorkerSend
  <2>7. HeadroomInv'
    BY <1>2, <2>6, WakingFinite, HandlersFinite
       DEF HeadroomInv, QuietInv, TypeOK, WorkerSend
  <2> QED
    BY <2>4, <2>5, <2>7, <2>8
<1> QED
  BY <1>1, <1>2 DEF WorkerNext

LEMMA HandlerStep ==
  ASSUME TokenInv, NEW h \in Handlers, HandlerNext(h)
  PROVE  TokenInv'
<1> USE DEF TokenInv
<1>1. ASSUME NEW ids \in SUBSET fw, FreeEvent(h, ids) PROVE TokenInv'
  <2>1. handler' = [handler EXCEPT ![h] = [pc |-> "free", ids |-> ids, wake |-> "no"]]
    BY <1>1 DEF FreeEvent
  <2>2. handler[h].wake = "no" /\ handler[h].ids = {}
    BY <1>1 DEF FreeEvent, QuietInv
  <2>3. Waking' = Waking
    BY <2>1, <2>2, WakingSame
  <2>4. TypeOK' /\ QuietInv'
    BY <1>1, <2>1 DEF TypeOK, QuietInv, FreeEvent
  <2>5. OwnerInv'
    BY <1>1, <2>1, <2>2 DEF TypeOK, OwnerInv, FreeEvent
  <2>6. HeadroomInv'
    BY <1>1, <2>3 DEF HeadroomInv, FreeEvent
  <2> QED
    BY <2>4, <2>5, <2>6
<1>2. ASSUME NEW id \in Ids, FreeToken(h, id) PROVE TokenInv'
  <2> DEFINE wake == IF tokenCount - 1 < Enough /\ blocked = "yes"
                     THEN "yes" ELSE handler[h].wake
             r == [pc |-> "free", ids |-> handler[h].ids \ {id}, wake |-> wake]
  <2>1. /\ id \in tokens /\ tokens' = tokens \ {id}
        /\ Cardinality(tokens') = tokenCount - 1 /\ tokenCount' = tokenCount - 1
        /\ handler' = [handler EXCEPT ![h] = r]
    BY <1>2, FreeGivesBack
  <2>2. tokens' \in SUBSET Ids /\ Cardinality(tokens') \in 0 .. Size
    BY <2>1, IdsFinite DEF TypeOK
  <2>3. handler[h].pc = "free" /\ id \in handler[h].ids /\ id \notin fw
    BY <1>2 DEF FreeToken, OwnerInv
  <2>4. r \in [pc : {"idle", "free"}, ids : SUBSET Ids, wake : {"yes", "no"}]
    BY DEF TypeOK
  <2>5. UNCHANGED <<blocked, backlog, worker, scheduled, fw, resets>>
    BY <1>2 DEF FreeToken
  <2>6. TypeOK' /\ QuietInv'
    BY <2>1, <2>2, <2>3, <2>4, <2>5 DEF TypeOK, QuietInv
  <2>7. OwnerInv'
    BY <2>1, <2>3, <2>5 DEF TypeOK, OwnerInv
  <2>8. HeadroomInv'
    <3>1. CASE tokenCount - 1 < Enough /\ blocked = "yes"
      <4>1. Cardinality(Waking') \in Nat /\ Cardinality(Waking') <= Cardinality(Handlers)
        <5>1. Waking' \in SUBSET Handlers
          BY DEF Waking
        <5>2. IsFiniteSet(Waking') /\ Cardinality(Waking') <= Cardinality(Handlers)
          BY <5>1, TxTokenAssumption, FS_Subset
        <5> QED
          BY <5>2, FS_CardinalityType
      <4> QED
        BY <2>1, <2>5, <3>1, <4>1, HandlersFinite DEF HeadroomInv, TypeOK
    <3>2. CASE ~(tokenCount - 1 < Enough /\ blocked = "yes")
      <4>1. Waking' = Waking
        BY <2>1, <3>2, WakingSame
      <4> QED
        BY <2>1, <2>5, <4>1, WakingFinite, HandlersFinite DEF HeadroomInv, TypeOK
    <3> QED
      BY <3>1, <3>2
  <2> QED
    BY <2>6, <2>7, <2>8
<1>3. CASE FreeDone(h)
  <2> DEFINE r == [pc |-> "idle", ids |-> {}, wake |-> "no"]
  <2>1. handler[h].ids = {} /\ handler[h].pc = "free"
    BY <1>3 DEF FreeDone
  <2>2. handler[h].wake \in {"yes", "no"}
    BY DEF TypeOK
  <2>3. handler' = [handler EXCEPT ![h] = r]
    BY <1>3 DEF FreeDone
  <2>4. TypeOK' /\ QuietInv'
    BY <1>3, <2>1, <2>3 DEF TypeOK, QuietInv, FreeDone
  <2>5. OwnerInv'
    BY <1>3, <2>1, <2>3 DEF TypeOK, OwnerInv, FreeDone
  <2>6. HeadroomInv'
    <3>1. CASE handler[h].wake = "yes"
      <4>1. Cardinality(Waking') = Cardinality(Waking) - 1
        BY <2>3, <3>1, WakingLess
      <4> QED
        BY <1>3, <3>1, <4>1, WakingFinite, HandlersFinite DEF HeadroomInv, TypeOK, FreeDone
    <3>2. CASE handler[h].wake = "no"
      <4>1. Waking' = Waking
        BY <2>3, <3>2, WakingSame
      <4> QED
        BY <1>3, <3>2, <4>1 DEF HeadroomInv, FreeDone
    <3> QED
      BY <2>2, <3>1, <3>2
  <2> QED
    BY <2>4, <2>5, <2>6
<1> QED
  BY <1>1, <1>2, <1>3 DEF HandlerNext

LEMMA ResetStep ==
  ASSUME TokenInv, ResetPark \/ ResetTokens
  PROVE  TokenInv'
<1> USE DEF TokenInv
<1>1. Waking' = Waking
  BY DEF Waking, ResetPark, ResetTokens
<1>2. CASE ResetPark
  BY <1>1, <1>2, TxTokenAssumption
     DEF ResetPark, TypeOK, OwnerInv, QuietInv, HeadroomInv
<1>3. CASE ResetTokens
  <2>1. tokenCount' = 0 /\ tokens' = {} /\ fw' = {}
    BY <1>3, IdsFinite DEF ResetTokens, OwnerInv, TypeOK
  <2>2. \A k \in Handlers : handler[k].ids = {} /\ handler[k].wake = "no"
    BY <1>3 DEF ResetTokens, QuietInv
  <2>3. Waking = {}
    BY <2>2 DEF Waking
  <2>4. TypeOK' /\ QuietInv'
    BY <1>3, <2>1, HandlersFinite DEF ResetTokens, TypeOK, QuietInv
  <2>5. OwnerInv'
    BY <1>3, <2>1, <2>2, FS_EmptySet DEF ResetTokens, OwnerInv
  <2>6. HeadroomInv'
    BY <1>1, <2>1, <2>3, FS_EmptySet, HandlersFinite DEF HeadroomInv
  <2> QED
    BY <2>4, <2>5, <2>6
<1> QED
  BY <1>2, <1>3

LEMMA TokenStep == TokenInv /\ [Next]_vars => TokenInv'
<1> SUFFICES ASSUME TokenInv, [Next]_vars PROVE TokenInv'
  OBVIOUS
<1>1. CASE UNCHANGED vars
  BY <1>1 DEF vars, TokenInv, TypeOK, OwnerInv, QuietInv, HeadroomInv, Waking
<1> QED
  BY <1>1, WorkerStep, HandlerStep, ResetStep DEF Next

\* The inductive invariant of the token pool holds in every reachable state.
THEOREM TokenInvariance == Spec => []TokenInv
  BY TokenInit, TokenStep, PTL DEF Spec

\* Every variable keeps its type; token_count never leaves 0 .. token_size.
THEOREM TokenTypeCorrect == Spec => []TypeOK
<1>1. TokenInv => TypeOK
  BY DEF TokenInv
<1> QED
  BY <1>1, TokenInvariance, PTL

\* Every token in the idr is with the firmware or in exactly one event, and
\* token_count counts them (mt76_token_consume, mt76_token_release).
THEOREM TokensOwned == Spec => []TokensHaveOneOwner
<1>1. TokenInv => TokensHaveOneOwner
  BY DEF TokenInv, OwnerInv, TokensHaveOneOwner
<1> QED
  BY <1>1, TokenInvariance, PTL

\* The tx worker finds a free token whenever it sends, as long as there are
\* fewer handlers of tx-free events than MT76_TOKEN_FREE_THR tokens.
THEOREM HeadroomSuffices == Spec => []TokenHeadroom
<1>1. TokenInv => TokenHeadroom
  <2> SUFFICES ASSUME TokenInv, worker = "send" PROVE tokens # Ids
    BY DEF TokenHeadroom
  <2>1. tokenCount # Size
    BY WakingFinite, HandlersFinite DEF TokenInv, QuietInv, HeadroomInv, TypeOK
  <2>2. Cardinality(Ids) = Size
    BY IdsCounted
  <2> QED
    BY <2>1, <2>2 DEF TokenInv, OwnerInv
<1> QED
  BY <1>1, TokenInvariance, PTL

-----------------------------------------------------------------------------
(* The queue is opened again.                                              *)

UnblockInv ==
  /\ TokenInv /\ UnblockedUnlessReset
  /\ worker = "parked" => resets > 0

LEMMA UnblockInit == Init => UnblockInv
  BY TokenInit DEF Init, UnblockInv, UnblockedUnlessReset, UnblockIsOnItsWay

LEMMA UnblockStep == UnblockInv /\ [Next]_vars => UnblockInv'
<1> SUFFICES ASSUME UnblockInv, [Next]_vars PROVE UnblockInv'
  OBVIOUS
<1>1. TokenInv'
  BY TokenStep DEF UnblockInv
<1> USE DEF UnblockInv, UnblockedUnlessReset, UnblockIsOnItsWay, TokenInv, TypeOK
<1>2. CASE Enqueue \/ Schedule \/ WorkerRun \/ WorkerCheck \/ WorkerDone \/ WorkerSend
  BY <1>1, <1>2, HandlersFinite DEF Enqueue, Schedule, WorkerRun, WorkerCheck, WorkerDone, WorkerSend, QuietInv
<1>3. CASE ResetPark \/ ResetTokens
  BY <1>1, <1>3 DEF ResetPark, ResetTokens
<1>4. ASSUME NEW h \in Handlers, NEW ids \in SUBSET fw, FreeEvent(h, ids) PROVE UnblockInv'
  <2>1. \A g \in Handlers : handler[g].wake = "yes" => handler'[g].wake = "yes"
    BY <1>4 DEF FreeEvent, QuietInv
  <2> QED
    BY <1>1, <1>4, <2>1 DEF FreeEvent
<1>5. ASSUME NEW h \in Handlers, NEW id \in Ids, FreeToken(h, id) PROVE UnblockInv'
  <2>1. \A g \in Handlers : handler[g].wake = "yes" => handler'[g].wake = "yes"
    BY <1>5 DEF FreeToken
  <2>2. tokenCount' < Enough /\ blocked = "yes" => handler'[h].wake = "yes"
    BY <1>5 DEF FreeToken
  <2> QED
    BY <1>1, <1>5, <2>1, <2>2 DEF FreeToken
<1>6. ASSUME NEW h \in Handlers, FreeDone(h) PROVE UnblockInv'
  <2>1. \A g \in Handlers \ {h} : handler'[g].wake = handler[g].wake
    BY <1>6 DEF FreeDone
  <2>2. handler[h].wake = "yes" => blocked' = "no"
    BY <1>6 DEF FreeDone
  <2> QED
    BY <1>1, <1>6, <2>1, <2>2 DEF FreeDone
<1>7. CASE UNCHANGED vars
  BY <1>1, <1>7 DEF vars
<1> QED
  BY <1>2, <1>3, <1>4, <1>5, <1>6, <1>7 DEF Next, WorkerNext, HandlerNext

\* A blocked queue with enough free tokens is about to be unblocked: the
\* release that takes the count below the limit is the one that notices
\* (mt76_token_release), until a reset throws the tokens away.
THEOREM BlockedQueuesOpen == Spec => []UnblockedUnlessReset
<1>1. UnblockInv => UnblockedUnlessReset
  BY DEF UnblockInv
<1> QED
  BY <1>1, UnblockInit, UnblockStep, PTL DEF Spec

-----------------------------------------------------------------------------
(* TxSchedule takes steps of TxToken only.                                 *)

LEMMA ThreadStepTokens == ThreadNext => [Next]_vars
<1> SUFFICES ASSUME ThreadNext PROVE [Next]_vars
  OBVIOUS
<1>1. CASE WorkerSleep \/ Splice \/ QueueEmpty \/ QueueStopped \/ Relist \/ TxqNotReturned \/ WorkerEnds
  BY <1>1 DEF WorkerSleep, Splice, QueueEmpty, QueueStopped, Relist, TxqNotReturned, WorkerEnds
<1>2. CASE WorkerBegin \/ QueueUnlink \/ SendFrame \/ TxqDequeue \/ TxqsDone
  BY <1>2 DEF WorkerBegin, QueueUnlink, SendFrame, TxqDequeue, TxqsDone, Next, WorkerNext
<1> QED
  BY <1>1, <1>2 DEF ThreadNext

LEMMA ScheduleStep == [TNext]_tvars => [Next]_vars
<1> SUFFICES ASSUME [TNext]_tvars PROVE [Next]_vars
  OBVIOUS
<1>1. CASE ThreadNext
  BY <1>1, ThreadStepTokens
<1>2. CASE ResetMark \/ ResetNext
  BY <1>2 DEF ResetMark, ResetNext, ResetFlush, ResetDisable, ResetEnable, Next
<1>3. ASSUME NEW s \in Senders, NewFrame(s) \/ SenderNext(s) PROVE [Next]_vars
  BY <1>3 DEF NewFrame, WakeTxQueue, QueueFrame, SenderNext, ListStation, ScheduleWorker, WakeUp, Next
<1>4. ASSUME NEW h \in Handlers, NEW ids \in SUBSET fw, FreeBegin(h, ids) PROVE [Next]_vars
  BY <1>4 DEF FreeBegin, HandlerNext, Next
<1>5. ASSUME NEW h \in Handlers, NapiNext(h) PROVE [Next]_vars
  BY <1>5 DEF NapiNext, FreeEnd, WakeUp, FreeOne, HandlerNext, Next
<1>6. CASE UNCHANGED tvars
  BY <1>6 DEF tvars
<1> QED
  BY <1>1, <1>2, <1>3, <1>4, <1>5, <1>6 DEF TNext

\* The scheduler of the worker implements what TxToken leaves open: when a
\* frame may be sent, when the worker is done and who schedules it
\* (mt76_txq_schedule_all, mt76_worker_schedule).
THEOREM ScheduleImplementsTokens == TSpec => Spec
<1>1. TInit => Init
  BY DEF TInit
<1> QED
  BY <1>1, ScheduleStep, PTL DEF TSpec, Spec

-----------------------------------------------------------------------------
(* No frame of a station is forgotten.                                     *)

PlaceTypes ==
  /\ frames \in [Stas -> [Queues -> Nat]]
  /\ txList \in SUBSET Stas /\ spliced \in SUBSET Stas /\ dropped \in SUBSET Stas
  /\ sender \in [Senders -> [pc : {"idle", "list", "schedule"}, sta : Stas \cup {None}]]
  /\ \A s \in Senders : sender[s].pc = "list" => sender[s].sta \in Stas
  /\ ret \in {"ok", "stopped"}

AtStation == stage \in {"off", "pend", "relist"}

ThreadInv ==
  /\ IF AtStation THEN cur \in Stas ELSE spliced = {}
  /\ stage \in {"splice", "off", "pend"} => ret = "ok"

Covered(sta) ==
  \/ sta \in txList \/ sta \in spliced \/ sta \in dropped
  \/ \E s \in Senders : sender[s] = [pc |-> "list", sta |-> sta]

\* The worker has not yet come to this queue, or it was stopped.
AtIt(sta, q) == cur = sta /\ AtStation /\ (ret = "stopped" \/ stage = "off" \/ stage = q)

PlaceInv ==
  \A sta \in Stas, q \in Queues : frames[sta][q] > 0 => Covered(sta) \/ AtIt(sta, q)

ListedInv == PlaceTypes /\ ThreadInv /\ PlaceInv

LEMMA ListedInit == TInit => ListedInv
  BY DEF TInit, ListedInv, PlaceTypes, ThreadInv, AtStation, PlaceInv, Queues, Idle

\* A step that leaves the lists, the queues and the thread alone, or wakes it.
LEMMA CallStep ==
  ASSUME ListedInv, frames' = frames, txList' = txList, spliced' = spliced,
         dropped' = dropped, cur' = cur, ret' = ret,
         stage' = stage \/ (stage = "asleep" /\ stage' = "ready"),
         PlaceTypes',
         \A s \in Senders : sender[s].pc = "list" => sender'[s] = sender[s]
  PROVE  ListedInv'
<1>1. ThreadInv'
  BY DEF ListedInv, ThreadInv, AtStation
<1>2. \A sta \in Stas : Covered(sta) => Covered(sta)'
  BY DEF Covered
<1>3. \A sta \in Stas, q \in Queues : AtIt(sta, q) => AtIt(sta, q)'
  BY DEF AtIt, AtStation
<1> QED
  BY <1>1, <1>2, <1>3 DEF ListedInv, PlaceInv

LEMMA WakeUpStep == ASSUME ListedInv, NEW c, WakeUp(c) PROVE ListedInv'
<1>1. PlaceTypes'
  BY DEF WakeUp, placeVars, ListedInv, PlaceTypes
<1> QED
  BY <1>1, CallStep DEF WakeUp, placeVars

LEMMA SenderStep ==
  ASSUME ListedInv, NEW s \in Senders, NewFrame(s) \/ SenderNext(s)
  PROVE  ListedInv'
<1>1. ASSUME NEW sta \in Stas, NEW q \in Queues, QueueFrame(s, sta, q) PROVE ListedInv'
  <2>1. sender' = [sender EXCEPT ![s] = [pc |-> "list", sta |-> sta]] /\ sender[s] = Idle
    BY <1>1 DEF QueueFrame
  <2>2. UNCHANGED <<txList, spliced, dropped, cur, stage, ret>>
    BY <1>1 DEF QueueFrame, threadVars
  <2>3. frames' = [frames EXCEPT ![sta] = [frames[sta] EXCEPT ![q] = frames[sta][q] + 1]]
    BY <1>1 DEF QueueFrame
  <2>4. frames'  \in [Stas -> [Queues -> Nat]]
    BY <2>3 DEF ListedInv, PlaceTypes
  <2>5. PlaceTypes' /\ ThreadInv'
    BY <2>1, <2>2, <2>4 DEF ListedInv, PlaceTypes, ThreadInv, AtStation
  <2>6. \A t \in Stas : Covered(t) => Covered(t)'
    BY <2>1, <2>2 DEF Covered, Idle, ListedInv, PlaceTypes
  <2>7. Covered(sta)'
    BY <2>1 DEF Covered, ListedInv, PlaceTypes
  <2>8. \A t \in Stas, r \in Queues : AtIt(t, r) => AtIt(t, r)'
    BY <2>2 DEF AtIt, AtStation
  <2>9. \A t \in Stas : t # sta => frames'[t] = frames[t]
    BY <2>3 DEF ListedInv, PlaceTypes
  <2> QED
    BY <2>5, <2>6, <2>7, <2>8, <2>9 DEF ListedInv, PlaceInv
<1>2. CASE ListStation(s)
  <2> PICK sta \in Stas : sta = sender[s].sta
    BY <1>2 DEF ListStation, ListedInv, PlaceTypes
  <2>1. /\ txList' = IF sta \in spliced THEN txList ELSE txList \cup {sta}
        /\ dropped' = dropped \ {sta}
        /\ sender' = [sender EXCEPT ![s] = [pc |-> "schedule", sta |-> None]]
    BY <1>2 DEF ListStation
  <2>2. UNCHANGED <<frames, spliced, cur, stage, ret>> /\ sender[s].pc = "list"
    BY <1>2 DEF ListStation, threadVars
  <2>3. PlaceTypes' /\ ThreadInv'
    BY <2>1, <2>2 DEF ListedInv, PlaceTypes, ThreadInv, AtStation
  <2>4. Covered(sta)'
    BY <2>1, <2>2 DEF Covered
  <2>5. \A t \in Stas : t # sta /\ Covered(t) => Covered(t)'
    BY <2>1, <2>2 DEF Covered, ListedInv, PlaceTypes
  <2>6. \A t \in Stas, r \in Queues : AtIt(t, r) => AtIt(t, r)'
    BY <2>2 DEF AtIt, AtStation
  <2> QED
    BY <2>2, <2>3, <2>4, <2>5, <2>6 DEF ListedInv, PlaceInv
<1>3. CASE WakeTxQueue(s) \/ ScheduleWorker(s)
  <2>1. UNCHANGED <<frames, txList, spliced, dropped, cur, ret, stage>>
    BY <1>3 DEF WakeTxQueue, ScheduleWorker, placeVars, threadVars
  <2>2. /\ sender[s].pc # "list"
        /\ \E r \in {Idle, [pc |-> "schedule", sta |-> None]} : sender' = [sender EXCEPT ![s] = r]
    BY <1>3 DEF WakeTxQueue, ScheduleWorker, Idle
  <2>3. PlaceTypes'
    BY <2>1, <2>2 DEF ListedInv, PlaceTypes, Idle
  <2>4. \A t \in Senders : sender[t].pc = "list" => sender'[t] = sender[t]
    BY <2>2 DEF ListedInv, PlaceTypes
  <2> QED
    BY <2>1, <2>3, <2>4, CallStep
<1> QED
  BY <1>1, <1>2, <1>3, WakeUpStep DEF NewFrame, SenderNext

\* The worker's position changes, the lists of frames do not.
LEMMA NextStationKeeps ==
  ASSUME PlaceTypes, NEW list \in SUBSET Stas, NEW r \in {"ok", "stopped"},
         NextStation(list, r), ret' = r
  PROVE  /\ spliced' \in SUBSET Stas /\ ThreadInv'
         /\ \A sta \in list, q \in Queues : sta \in spliced' \/ AtIt(sta, q)'
  BY DEF NextStation, ThreadInv, AtStation, AtIt, Queues

LEMMA ThreadStep == ASSUME ListedInv, ThreadNext PROVE ListedInv'
<1> USE DEF ListedInv
<1>1. CASE WorkerBegin \/ WorkerSleep \/ TxqNotReturned \/ TxqsDone \/ WorkerEnds
  <2>1. /\ UNCHANGED <<frames, txList, spliced, dropped, cur, sender>>
        /\ stage \notin {"off", "pend", "relist"} /\ stage' \notin {"off", "pend", "relist"}
        /\ ret' = "ok" \/ (ret' = ret /\ stage' # "splice")
    BY <1>1 DEF WorkerBegin, WorkerSleep, TxqNotReturned, TxqsDone, WorkerEnds,
       placeVars, threadVars, callVars
  <2>2. PlaceTypes' /\ ThreadInv'
    BY <2>1 DEF PlaceTypes, ThreadInv, AtStation, Queues
  <2>3. PlaceInv'
    BY <2>1 DEF PlaceInv, Covered, AtIt, AtStation
  <2> QED
    BY <2>2, <2>3
<1>2. CASE SendFrame \/ TxqDequeue
  <2>1. UNCHANGED <<frames, txList, spliced, dropped, cur, stage, ret, sender>>
    BY <1>2 DEF SendFrame, TxqDequeue, placeVars, threadVars, callVars
  <2>2. PlaceTypes'
    BY <2>1 DEF PlaceTypes
  <2> QED
    BY <2>1, <2>2, CallStep
<1>3. CASE Splice
  <2>1. /\ stage = "splice" /\ NextStation(txList, "ok") /\ txList' = {}
        /\ UNCHANGED <<frames, dropped, ret, sender>>
    BY <1>3 DEF Splice, callVars
  <2>2. ret' = "ok" /\ ~AtStation /\ spliced = {}
    BY <2>1 DEF ThreadInv, AtStation
  <2>3. /\ spliced' \in SUBSET Stas /\ ThreadInv'
        /\ \A sta \in txList, q \in Queues : sta \in spliced' \/ AtIt(sta, q)'
    BY <2>1, <2>2, NextStationKeeps DEF PlaceTypes
  <2>4. PlaceTypes'
    BY <2>1, <2>3 DEF PlaceTypes
  <2>5. \A sta \in Stas : Covered(sta) => sta \in txList \/ Covered(sta)'
    BY <2>1, <2>2 DEF Covered
  <2>6. PlaceInv'
    BY <2>1, <2>2, <2>3, <2>5 DEF PlaceInv, Covered, AtIt
  <2> QED
    BY <2>3, <2>4, <2>6
<1>4. CASE QueueEmpty
  <2>1. /\ stage \in Queues /\ frames[cur][stage] = 0
        /\ stage' = IF stage = "off" THEN "pend" ELSE "relist"
        /\ UNCHANGED <<frames, txList, spliced, dropped, cur, ret, sender>>
    BY <1>4 DEF QueueEmpty, placeVars, callVars
  <2>2. PlaceTypes' /\ ThreadInv'
    BY <2>1 DEF PlaceTypes, ThreadInv, AtStation, Queues
  <2>3. \A sta \in Stas, q \in Queues :
          frames[sta][q] > 0 /\ AtIt(sta, q) => AtIt(sta, q)'
    BY <2>1 DEF AtIt, AtStation, Queues, ThreadInv
  <2> QED
    BY <2>1, <2>2, <2>3 DEF PlaceInv, Covered
<1>5. CASE QueueStopped
  <2>1. /\ stage \in Queues /\ stage' = "relist" /\ ret' = "stopped"
        /\ UNCHANGED <<frames, txList, spliced, dropped, cur, sender>>
    BY <1>5 DEF QueueStopped, placeVars, callVars
  <2>2. PlaceTypes' /\ ThreadInv'
    BY <2>1 DEF PlaceTypes, ThreadInv, AtStation, Queues
  <2>3. \A sta \in Stas, q \in Queues : AtIt(sta, q) => AtIt(sta, q)'
    BY <2>1 DEF AtIt, AtStation
  <2> QED
    BY <2>1, <2>2, <2>3 DEF PlaceInv, Covered
<1>6. CASE QueueUnlink
  <2>1. /\ stage \in Queues /\ frames[cur][stage] > 0
        /\ frames' = [frames EXCEPT ![cur] = [frames[cur] EXCEPT ![stage] = frames[cur][stage] - 1]]
        /\ UNCHANGED <<txList, spliced, dropped, cur, stage, ret, sender>>
    BY <1>6 DEF QueueUnlink, threadVars, callVars
  <2>2. cur \in Stas
    BY <2>1 DEF ThreadInv, AtStation, Queues
  <2>3. frames' \in [Stas -> [Queues -> Nat]]
    BY <2>1, <2>2 DEF PlaceTypes
  <2>4. \A sta \in Stas, q \in Queues : frames'[sta][q] > 0 => frames[sta][q] > 0
    BY <2>1, <2>2 DEF PlaceTypes
  <2>5. PlaceTypes' /\ ThreadInv'
    BY <2>1, <2>3 DEF PlaceTypes, ThreadInv, AtStation
  <2>6. \A sta \in Stas, q \in Queues : AtIt(sta, q) => AtIt(sta, q)'
    BY <2>1 DEF AtIt, AtStation
  <2> QED
    BY <2>1, <2>4, <2>5, <2>6 DEF PlaceInv, Covered
<1>7. CASE Relist
  <2> DEFINE both == \A q \in Queues : frames[cur][q] > 0
  <2>1. /\ stage = "relist" /\ NextStation(spliced, ret)
        /\ UNCHANGED <<frames, ret, sender>>
    BY <1>7 DEF Relist, callVars
  <2>2. /\ both => txList' = txList \cup {cur} /\ dropped' = dropped \ {cur}
        /\ ~both => /\ txList' = txList
                    /\ dropped' = IF ret = "stopped" /\ HasFrames(cur) /\ cur \notin txList
                                  THEN dropped \cup {cur} ELSE dropped
    BY <1>7 DEF Relist
  <2>3. cur \in Stas
    BY <2>1 DEF ThreadInv, AtStation
  <2>4. /\ spliced' \in SUBSET Stas /\ ThreadInv'
        /\ \A sta \in spliced, q \in Queues : sta \in spliced' \/ AtIt(sta, q)'
    BY <2>1, NextStationKeeps DEF PlaceTypes
  <2>5. PlaceTypes'
    BY <2>1, <2>2, <2>3, <2>4 DEF PlaceTypes
  <2>6. \A sta \in Stas : Covered(sta) => sta \in spliced \/ Covered(sta)'
    BY <2>1, <2>2 DEF Covered
  <2>7. ASSUME NEW sta \in Stas, NEW q \in Queues, frames[sta][q] > 0, AtIt(sta, q)
        PROVE  Covered(sta)'
    <3>1. sta = cur /\ ret = "stopped" /\ HasFrames(cur)
      BY <2>1, <2>7 DEF AtIt, HasFrames, Queues
    <3> QED
      BY <2>2, <3>1 DEF Covered
  <2>8. PlaceInv'
    BY <2>1, <2>4, <2>6, <2>7 DEF PlaceInv, Covered
  <2> QED
    BY <2>4, <2>5, <2>8
<1> QED
  BY <1>1, <1>2, <1>3, <1>4, <1>5, <1>6, <1>7 DEF ThreadNext

LEMMA ResetListedStep == ASSUME ListedInv, ResetMark \/ ResetNext PROVE ListedInv'
<1> USE DEF ListedInv
<1>1. CASE ResetMark \/ ResetDisable \/ ResetEnable
  <2>1. /\ UNCHANGED <<frames, txList, spliced, dropped, cur, ret, sender>>
        /\ stage' # stage => stage \in {"ready", "asleep", "parked"} /\ stage' \in {"ready", "parked"}
    BY <1>1 DEF ResetMark, ResetDisable, ResetEnable, placeVars, threadVars, callVars
  <2>2. PlaceTypes' /\ ThreadInv'
    BY <2>1 DEF PlaceTypes, ThreadInv, AtStation
  <2>3. \A sta \in Stas, q \in Queues : AtIt(sta, q) => AtIt(sta, q)'
    BY <2>1 DEF AtIt, AtStation
  <2> QED
    BY <2>1, <2>2, <2>3 DEF PlaceInv, Covered
<1>2. CASE ResetFlush
  <2>1. /\ txList' = {sta \in txList : \A q \in Queues : frames[sta][q] > 0}
        /\ dropped' = dropped \cup {sta \in txList \ txList' : HasFrames(sta)}
        /\ UNCHANGED <<frames, spliced, cur, stage, ret, sender>>
    BY <1>2 DEF ResetFlush, threadVars
  <2>2. PlaceTypes' /\ ThreadInv'
    BY <2>1 DEF PlaceTypes, ThreadInv, AtStation
  <2>3. \A sta \in Stas : HasFrames(sta) /\ Covered(sta) => Covered(sta)'
    BY <2>1 DEF Covered
  <2>4. \A sta \in Stas, q \in Queues : AtIt(sta, q) => AtIt(sta, q)'
    BY <2>1 DEF AtIt, AtStation
  <2> QED
    BY <2>1, <2>2, <2>3, <2>4 DEF PlaceInv, HasFrames
<1> QED
  BY <1>1, <1>2 DEF ResetNext
LEMMA NapiStep ==
  ASSUME ListedInv, NEW h \in Handlers,
         NapiNext(h) \/ \E ids \in SUBSET fw : FreeBegin(h, ids)
  PROVE  ListedInv'
<1>1. CASE WakeUp(h)
  BY <1>1, WakeUpStep
<1>2. CASE ~WakeUp(h)
  <2>1. UNCHANGED <<frames, txList, spliced, dropped, cur, stage, ret, sender>>
    BY <1>2 DEF NapiNext, FreeEnd, FreeOne, FreeBegin, placeVars, threadVars, callVars
  <2>2. PlaceTypes'
    BY <2>1 DEF ListedInv, PlaceTypes
  <2> QED
    BY <2>1, <2>2, CallStep
<1> QED
  BY <1>1, <1>2

LEMMA ListedStep == ListedInv /\ [TNext]_tvars => ListedInv'
<1> SUFFICES ASSUME ListedInv, [TNext]_tvars PROVE ListedInv'
  OBVIOUS
<1>1. CASE UNCHANGED tvars
  <2>1. UNCHANGED <<frames, txList, spliced, dropped, cur, stage, ret, sender>>
    BY <1>1 DEF tvars, placeVars, threadVars, callVars
  <2>2. PlaceTypes'
    BY <2>1 DEF ListedInv, PlaceTypes
  <2> QED
    BY <2>1, <2>2, CallStep
<1> QED
  BY <1>1, ThreadStep, ResetListedStep, SenderStep, NapiStep DEF TNext

\* A station with frames is listed, or the worker is at it, or who queued the
\* frames is about to list it, whatever mt76_tx, the worker and a reset do at
\* the same time, unless the worker dropped it (mt76_txq_schedule_pending).
THEOREM FramesAreListed == TSpec => []PendingIsListed
<1>1. ListedInv => PendingIsListed
  <2> SUFFICES ASSUME ListedInv, NEW sta \in Stas, HasFrames(sta)
               PROVE  \/ sta \in txList \cup spliced \cup dropped \cup {cur}
                      \/ \E s \in Senders : sender[s] = [pc |-> "list", sta |-> sta]
    BY DEF PendingIsListed
  <2>1. PICK q \in Queues : frames[sta][q] > 0
    BY DEF HasFrames
  <2>2. Covered(sta) \/ AtIt(sta, q)
    BY <2>1 DEF ListedInv, PlaceInv
  <2> QED
    BY <2>2 DEF Covered, AtIt
<1> QED
  BY <1>1, ListedInit, ListedStep, PTL DEF TSpec
-----------------------------------------------------------------------------
(* Work that can be done will be.                                          *)

Runner == scheduled = "yes" \/ \E s \in Senders : sender[s].pc \in {"list", "schedule"}

\* What the worker has gone past holds no work, so that only new frames, which
\* bring a caller of mt76_worker_schedule with them, can add any.
Clear ==
  /\ stage # "splice" => \A sta \in txList : ~HasFrames(sta)
  /\ stage \in {"asleep", "ready", "done"} => ~(txq.listed = "yes" /\ txq.frames > 0)
  /\ stage = "pend" => frames[cur]["off"] = 0
  /\ stage = "relist" => ret = "ok" /\ \A q \in Queues : frames[cur][q] = 0

RunnerInv ==
  /\ ListedInv
  /\ scheduled \in {"yes", "no"}
  /\ stage = "asleep" /\ scheduled = "yes" => waking # {}
  /\ stage = "parked" => reset # "no"
  /\ Runner \/ Stopped \/ Clear

LEMMA RunnerInit == TInit => RunnerInv
  BY ListedInit DEF TInit, Init, RunnerInv, Clear, HasFrames, Queues

LEMMA RunnerSenderStep ==
  ASSUME RunnerInv, NEW s \in Senders, NewFrame(s) \/ SenderNext(s), ~WakeUp(s), ListedInv'
  PROVE  RunnerInv'
<1> USE DEF RunnerInv
<1>1. Runner'
  <2>1. CASE ScheduleWorker(s)
    BY <2>1 DEF ScheduleWorker, Schedule, Runner
  <2>2. ASSUME NEW r, sender' = [sender EXCEPT ![s] = r], r.pc \in {"list", "schedule"} PROVE Runner'
    BY <2>2 DEF Runner, ListedInv, PlaceTypes
  <2>3. ASSUME NEW sta \in Stas, NEW q \in Queues, QueueFrame(s, sta, q) PROVE Runner'
    BY <2>2, <2>3 DEF QueueFrame
  <2>4. CASE ListStation(s) \/ WakeTxQueue(s)
    BY <2>2, <2>4 DEF ListStation, WakeTxQueue
  <2> QED
    BY <2>1, <2>3, <2>4 DEF NewFrame, SenderNext
<1>2. UNCHANGED <<stage, reset>>
  BY DEF NewFrame, WakeTxQueue, QueueFrame, SenderNext, ListStation, ScheduleWorker, threadVars
<1>3. scheduled' \in {"yes", "no"} /\ (stage = "asleep" /\ scheduled' = "yes" => waking' # {})
  <2>1. CASE ScheduleWorker(s)
    BY <2>1 DEF ScheduleWorker, Schedule
  <2>2. CASE ~ScheduleWorker(s)
    BY <2>2 DEF NewFrame, WakeTxQueue, QueueFrame, Enqueue, SenderNext, ListStation, vars
  <2> QED
    BY <2>1, <2>2
<1> QED
  BY <1>1, <1>2, <1>3

LEMMA RunnerWakeUpStep ==
  ASSUME RunnerInv, NEW c, WakeUp(c), ListedInv' PROVE RunnerInv'
<1> USE DEF RunnerInv
<1>1. /\ stage' = IF stage = "asleep" THEN "ready" ELSE stage
      /\ UNCHANGED <<scheduled, blocked, frames, txq, txList, cur, ret, sender, reset>>
  BY DEF WakeUp, vars, placeVars
<1>2. stage' # "asleep"
  BY <1>1
<1>3. (Runner => Runner') /\ (Stopped => Stopped')
  BY <1>1 DEF Runner, Stopped
<1>4. Clear => Clear'
  BY <1>1 DEF Clear, HasFrames
<1> QED
  BY <1>1, <1>2, <1>3, <1>4
LEMMA RunnerThreadStep ==
  ASSUME RunnerInv, ThreadNext, ListedInv' PROVE RunnerInv'
<1> USE DEF RunnerInv
<1>1. CASE WorkerBegin
  <2>1. stage' = "splice" /\ scheduled' = "no"
    BY <1>1 DEF WorkerBegin, WorkerRun
  <2> QED
    BY <2>1 DEF Clear
<1>2. CASE WorkerSleep \/ WorkerEnds
  <2>1. /\ UNCHANGED <<scheduled, blocked, frames, txq, txList, cur, ret, sender, waking, reset>>
        /\ \/ stage = "ready" /\ stage' = "asleep" /\ scheduled = "no"
           \/ stage = "done" /\ stage' = "ready"
    BY <1>2 DEF WorkerSleep, WorkerEnds, vars, placeVars, callVars
  <2>2. (Runner => Runner') /\ (Stopped => Stopped')
    BY <2>1 DEF Runner, Stopped
  <2>3. Clear => Clear'
    BY <2>1 DEF Clear, HasFrames
  <2> QED
    BY <2>1, <2>2, <2>3
<1>3. CASE Splice \/ QueueEmpty \/ QueueStopped \/ Relist \/ TxqNotReturned
  <2>1. UNCHANGED <<scheduled, blocked, sender, waking, reset>>
    BY <1>3 DEF Splice, QueueEmpty, QueueStopped, Relist, TxqNotReturned, vars, callVars
  <2>2. (Runner => Runner') /\ (Stopped => Stopped')
    BY <2>1 DEF Runner, Stopped
  <2>3. stage' \in {"off", "pend", "relist", "txqs"}
    BY <1>3 DEF Splice, QueueEmpty, QueueStopped, Relist, TxqNotReturned, NextStation, threadVars, Queues
  <2>4. Clear => Clear' \/ Stopped
    <3>1. CASE Splice
      <4>1. txList' = {} /\ stage' \in {"off", "txqs"}
        BY <3>1 DEF Splice, NextStation
      <4> QED
        BY <4>1 DEF Clear
    <3>2. CASE QueueEmpty
      <4>1. /\ stage \in Queues /\ frames[cur][stage] = 0
            /\ stage' = IF stage = "off" THEN "pend" ELSE "relist"
            /\ UNCHANGED <<frames, txList, cur, ret>>
        BY <3>2 DEF QueueEmpty, placeVars
      <4>2. stage \in {"off", "pend"} /\ ret = "ok"
        BY <4>1 DEF Queues, ListedInv, ThreadInv
      <4> QED
        BY <4>1, <4>2 DEF Clear, HasFrames, Queues
    <3>3. CASE QueueStopped \/ TxqNotReturned
      BY <3>3 DEF QueueStopped, TxqNotReturned, Stopped
    <3>4. ASSUME Relist, Clear PROVE Clear'
      <4>1. ret = "ok" /\ \A q \in Queues : frames[cur][q] = 0
        BY <3>4 DEF Relist, Clear
      <4>2. txList' = txList /\ frames' = frames /\ stage' \in {"off", "txqs"} /\ stage = "relist"
        BY <3>4, <4>1 DEF Relist, NextStation, Queues
      <4> QED
        BY <3>4, <4>2 DEF Clear, HasFrames
    <3> QED
      BY <1>3, <3>1, <3>2, <3>3, <3>4
  <2> QED
    BY <2>1, <2>2, <2>3, <2>4
<1>4. CASE QueueUnlink
  <2>1. /\ stage \in Queues /\ frames[cur][stage] > 0 /\ cur \in Stas
        /\ frames' = [frames EXCEPT ![cur] = [frames[cur] EXCEPT ![stage] = frames[cur][stage] - 1]]
        /\ UNCHANGED <<txList, cur, stage, ret, sender, scheduled, blocked, reset>>
    BY <1>4 DEF QueueUnlink, WorkerCheck, threadVars, callVars, ListedInv, ThreadInv, AtStation, Queues
  <2>2. \A sta \in Stas, q \in Queues : frames'[sta][q] > 0 => frames[sta][q] > 0
    BY <2>1 DEF ListedInv, PlaceTypes
  <2>3. stage = "pend" => frames'[cur]["off"] = frames[cur]["off"]
    BY <2>1 DEF ListedInv, PlaceTypes
  <2>4. Clear => Clear'
    BY <2>1, <2>2, <2>3 DEF Clear, HasFrames, Queues, ListedInv, PlaceTypes
  <2>5. (Runner => Runner') /\ (Stopped => Stopped')
    BY <2>1 DEF Runner, Stopped
  <2> QED
    BY <2>1, <2>4, <2>5 DEF Queues
<1>5. CASE SendFrame
  <2>1. /\ UNCHANGED <<frames, txq, txList, cur, stage, ret, sender, scheduled, waking, reset>>
        /\ blocked = "yes" => blocked' = "yes"
    BY <1>5 DEF SendFrame, WorkerSend, placeVars, threadVars, callVars
  <2>2. Clear => Clear'
    BY <2>1 DEF Clear, HasFrames
  <2>3. (Runner => Runner') /\ (Stopped => Stopped')
    BY <2>1 DEF Runner, Stopped
  <2> QED
    BY <2>1, <2>2, <2>3
<1>6. CASE TxqDequeue \/ TxqsDone
  <2>1. /\ UNCHANGED <<frames, txList, cur, ret, sender, scheduled, blocked, waking, reset>>
        /\ stage = "txqs" /\ stage' \in {"txqs", "done"}
        /\ stage' = "done" => /\ txq.listed = "no" \/ txq.frames = 0 \/ blocked = "yes"
                              /\ txq' = txq
    BY <1>6 DEF TxqDequeue, TxqsDone, WorkerCheck, WorkerDone, placeVars, threadVars, callVars
  <2>2. Clear => Clear' \/ Stopped
    BY <2>1 DEF Clear, HasFrames, Stopped
  <2>3. (Runner => Runner') /\ (Stopped => Stopped')
    BY <2>1 DEF Runner, Stopped
  <2> QED
    BY <2>1, <2>2, <2>3
<1> QED
  BY <1>1, <1>2, <1>3, <1>4, <1>5, <1>6 DEF ThreadNext

LEMMA RunnerResetStep ==
  ASSUME RunnerInv, ResetMark \/ ResetNext, ListedInv' PROVE RunnerInv'
<1> USE DEF RunnerInv
<1>1. CASE ResetMark \/ ResetFlush
  <2>1. UNCHANGED <<stage, scheduled, waking>> /\ reset' # "no"
    BY <1>1 DEF ResetMark, ResetFlush, vars, threadVars
  <2> QED
    BY <2>1 DEF Stopped
<1>2. CASE ResetDisable
  <2>1. stage' = "parked" /\ reset' # "no" /\ scheduled' = "no"
    BY <1>2 DEF ResetDisable, ResetPark, callVars
  <2> QED
    BY <2>1 DEF Stopped
<1>3. CASE ResetEnable
  <2>1. stage' = "ready" /\ scheduled' = "yes"
    BY <1>3 DEF ResetEnable, ResetTokens
  <2> QED
    BY <2>1 DEF Runner
<1> QED
  BY <1>1, <1>2, <1>3 DEF ResetNext

LEMMA RunnerNapiStep ==
  ASSUME RunnerInv, NEW h \in Handlers, ~WakeUp(h), ListedInv',
         NapiNext(h) \/ \E ids \in SUBSET fw : FreeBegin(h, ids)
  PROVE  RunnerInv'
<1> USE DEF RunnerInv
<1>1. UNCHANGED <<frames, txq, txList, cur, stage, ret, sender, reset>>
  BY DEF NapiNext, FreeEnd, FreeOne, FreeBegin, placeVars, threadVars, callVars
<1>2. CASE FreeEnd(h)
  <2>1. scheduled' = "yes" /\ waking' = IF scheduled = "no" THEN waking \cup {h} ELSE waking
    BY <1>2 DEF FreeEnd, FreeDone
  <2> QED
    BY <1>1, <2>1 DEF Runner
<1>3. CASE ~FreeEnd(h)
  <2>1. UNCHANGED <<scheduled, blocked, waking>>
    BY <1>3 DEF NapiNext, FreeOne, FreeToken, FreeBegin, FreeEvent, callVars
  <2>2. (Runner => Runner') /\ (Stopped => Stopped')
    BY <1>1, <2>1 DEF Runner, Stopped
  <2>3. Clear => Clear'
    BY <1>1 DEF Clear, HasFrames
  <2> QED
    BY <1>1, <2>1, <2>2, <2>3
<1> QED
  BY <1>2, <1>3

LEMMA RunnerStep == RunnerInv /\ [TNext]_tvars => RunnerInv'
<1> SUFFICES ASSUME RunnerInv, [TNext]_tvars PROVE RunnerInv'
  OBVIOUS
<1>1. ListedInv'
  BY ListedStep DEF RunnerInv
<1>2. CASE UNCHANGED tvars
  BY <1>1, <1>2 DEF tvars, vars, placeVars, threadVars, callVars, RunnerInv, Runner, Stopped, Clear, HasFrames
<1> QED
  BY <1>1, <1>2, RunnerThreadStep, RunnerResetStep, RunnerSenderStep, RunnerNapiStep, RunnerWakeUpStep
     DEF TNext

\* No wake-up of the worker is lost: work in an open queue has a set bit or a
\* caller on its way to set it, and the bit of a sleeping thread has somebody
\* about to wake it (mt76_worker_schedule, __mt76_worker_fn, and the unblocking
\* at the end of mt7925_mac_tx_free).
THEOREM NoWakeUpIsLost == TSpec => []OpenWorkHasRunner
<1>1. RunnerInv => OpenWorkHasRunner
  BY DEF RunnerInv, OpenWorkHasRunner, Runner, Clear
<1> QED
  BY <1>1, RunnerInit, RunnerStep, PTL DEF TSpec

-----------------------------------------------------------------------------
(* Transmit status.                                                        *)

\* A station that is added and not yet removed; a frame that went to the chip;
\* one that is being handed over or was.
Present(w) == link[w].at \notin {"absent", "gone"}
Sent(f)    == cb[f].wcid # Nobody
Handed(f)  == f \in given \/ \E c \in Contexts : f \in done[c]

\* An index belongs to one station at a time, and dev->wcid to the live ones.
StationInv ==
  /\ \A i \in Indices : table[i] # Nobody =>
       link[table[i]].at = "live" /\ link[table[i]].idx = i
  /\ \A w \in Wcids : link[w].at = "live" => table[link[w].idx] = w
  /\ \A w \in Wcids : Present(w) => link[w].idx \in mask
  /\ \A v, w \in Wcids : Present(v) /\ Present(w) /\ link[v].idx = link[w].idx => v = w

\* Where a frame is agrees with its flags: an id says that no report was
\* found, a token that it is not DMA_DONE, and who is handed over has neither.
FrameInv ==
  /\ \A f \in Skbs : Sent(f) => link[cb[f].wcid].at # "absent" /\ cb[f].idx = link[cb[f].wcid].idx
  /\ \A f \in pktid : Sent(f) /\ "txs" \notin cb[f].flags /\ cb[f].pid # NoPid /\ ~Handed(f)
  /\ \A f \in chip : Sent(f) /\ "dma" \notin cb[f].flags /\ ~Handed(f)
  /\ \A c \in Contexts : \A f \in done[c] : Sent(f) /\ f \notin given
  /\ \A c, d \in Contexts : c # d => done[c] \cap done[d] = {}
  /\ \A f \in given : cb[f].sta \notin {cb[f].wcid, Nobody} =>
       Sent(f) /\ link[cb[f].wcid].at = "gone"

\* A worker that is past its look at the table has a station that is there or
\* whose grace period waits for it, but for the race that raced records.
WorkerInv ==
  /\ sending.pc = "idle" <=> sending = NoSend
  /\ sending # NoSend =>
       /\ sending.skb \in Skbs /\ sending.wcid \in Wcids
       /\ cb[sending.skb] = Unsent /\ sending.skb \notin given
       /\ link[sending.wcid].at # "absent"
       /\ sending.late = "yes" => link[sending.wcid].at # "live"
       /\ sending.pc = "add" => \/ sending.wcid \in raced
                                \/ sending.late = "no" /\ link[sending.wcid].at \in {"live", "hidden"}

\* IdsAreWatched, already after the flush.
WatchInv ==
  \A w \in Wcids :
    /\ IdsOf(w) # {} => w \in wcidList
    /\ w \notin raced =>
         /\ w \in wcidList => IdsOf(w) # {}
         /\ link[w].at \in {"flushed", "wiped", "gone"} => IdsOf(w) = {}

\* Its report has nobody to go to.
Unowned(g) ==
  "failed" \in cb[g].flags \/ cb[g].by \notin {g, Nobody} \/ cb[g].wcid \in raced

\* A report that is on its way or just looked up, and whose frame has no id any
\* more, belongs to a frame that was given up on or that another report closed.
CreditInv ==
  /\ \A f, g \in pktid : cb[f].wcid = cb[g].wcid /\ cb[f].pid = cb[g].pid => f = g
  /\ reader = NoRead \/
       /\ reader.skb \in Skbs /\ reader.wcid \in Wcids /\ Sent(reader.skb)
       /\ \/ cb[reader.skb].wcid = reader.wcid
          \/ link[cb[reader.skb].wcid].at = "gone"
       /\ reader.skb \in pktid \/ Unowned(reader.skb)
  /\ \A g \in txs : Sent(g) /\ g # reader.skb /\ (g \in pktid \/ Unowned(g))
  /\ \A f \in Skbs, g \in Skbs : cb[f].by = g =>
       Sent(g) /\ g \notin txs /\ g # reader.skb /\ (f # g => Unowned(g))

StatusInv == STypeOK /\ StationInv /\ FrameInv /\ WorkerInv /\ WatchInv /\ CreditInv

-----------------------------------------------------------------------------
(* What the shared parts of the actions do, field by field.                *)

CbType == [wcid : Wcids \cup {Nobody}, idx : Indices, pid : 0 .. LastPid,
           flags : SUBSET {"dma", "txs", "failed"}, by : Skbs \cup {Nobody},
           sta : Wcids \cup {Nobody}]

SameFrame(f) ==
  /\ cb'[f].wcid = cb[f].wcid /\ cb'[f].idx = cb[f].idx /\ cb'[f].pid = cb[f].pid

Settled(c, F, flags, by) ==
  /\ cb' \in [Skbs -> CbType]
  /\ \A f \in Skbs : SameFrame(f) /\ cb'[f].sta = cb[f].sta
  /\ \A f \in F : cb'[f].flags = cb[f].flags \cup flags /\ cb'[f].by = by
  /\ \A f \in Skbs \ F : cb'[f] = cb[f]
  /\ done' \in [Contexts -> SUBSET Skbs]
  /\ \A d \in Contexts \ {c} : done'[d] = done[d]
  /\ done'[c] = done[c] \cup {f \in F : "dma" \in cb[f].flags}

LEMMA SettleFields ==
  ASSUME STypeOK, NEW c \in Contexts, NEW W, NEW F \in SUBSET pktid,
         NEW flags \in SUBSET {"txs", "failed"}, NEW by \in Skbs \cup {Nobody},
         Settle(c, W, F, flags, by)
  PROVE  Settled(c, F, flags, by)
<1>1. cb \in [Skbs -> CbType] /\ F \in SUBSET Skbs /\ done \in [Contexts -> SUBSET Skbs]
  BY DEF STypeOK, CbType
<1>2. cb' = [f \in Skbs |->
        IF f \in F THEN [cb[f] EXCEPT !.flags = @ \cup flags, !.by = by] ELSE cb[f]]
  BY DEF Settle
<1>3. \A f \in F : /\ cb'[f] = [cb[f] EXCEPT !.flags = @ \cup flags, !.by = by]
                   /\ cb[f] \in CbType
  BY <1>1, <1>2
<1>4. \A f \in Skbs \ F : cb'[f] = cb[f]
  BY <1>2
<1>5. \A f \in F :
        /\ SameFrame(f) /\ cb'[f].sta = cb[f].sta /\ cb'[f].flags = cb[f].flags \cup flags
        /\ cb'[f].by = by /\ cb'[f] \in CbType
  <2> TAKE f \in F
  <2> DEFINE flagged == [cb[f] EXCEPT !.flags = @ \cup flags]
  <2>1. cb[f] \in CbType /\ cb'[f] = [flagged EXCEPT !.by = by]
    BY <1>3
  <2>2. flagged \in CbType /\ flagged.flags = cb[f].flags \cup flags /\ flagged.sta = cb[f].sta
        /\ flagged.wcid = cb[f].wcid /\ flagged.idx = cb[f].idx /\ flagged.pid = cb[f].pid
    BY <2>1 DEF CbType
  <2> HIDE DEF flagged
  <2> QED
    BY <2>1, <2>2 DEF CbType, SameFrame
<1>6. cb' \in [Skbs -> CbType]
  BY <1>1, <1>2, <1>4, <1>5
<1>7. done' = [done EXCEPT ![c] = @ \cup {f \in F : "dma" \in cb[f].flags}]
  BY DEF Settle
<1> QED
  BY <1>1, <1>4, <1>5, <1>6, <1>7 DEF SameFrame, Settled

Completed(c, f) ==
  /\ cb' \in [Skbs -> CbType]
  /\ \A g \in Skbs : SameFrame(g) /\ cb'[g].sta = cb[g].sta /\ cb'[g].by = cb[g].by
  /\ cb'[f].flags = cb[f].flags \cup {"dma"}
  /\ \A g \in Skbs \ {f} : cb'[g] = cb[g]
  /\ done' \in [Contexts -> SUBSET Skbs]
  /\ \A d \in Contexts \ {c} : done'[d] = done[d]
  /\ \/ done'[c] = done[c]
     \/ done'[c] = done[c] \cup {f} /\ (cb[f].pid = NoPid \/ "txs" \in cb[f].flags)

LEMMA CompleteFields ==
  ASSUME STypeOK, NEW c \in Contexts, NEW f \in chip, Complete(c, f)
  PROVE  Completed(c, f)
<1>1. cb \in [Skbs -> CbType] /\ f \in Skbs /\ done \in [Contexts -> SUBSET Skbs]
  BY DEF STypeOK, CbType
<1>2. cb' = [cb EXCEPT ![f].flags = @ \cup {"dma"}]
  BY DEF Complete
<1>3. cb'[f] = [cb[f] EXCEPT !.flags = @ \cup {"dma"}] /\ cb[f] \in CbType
  BY <1>1, <1>2
<1>4. /\ SameFrame(f) /\ cb'[f].sta = cb[f].sta /\ cb'[f].flags = cb[f].flags \cup {"dma"}
      /\ cb'[f].by = cb[f].by /\ cb'[f] \in CbType
  BY <1>3 DEF CbType, SameFrame
<1>5. \A g \in Skbs \ {f} : cb'[g] = cb[g]
  BY <1>1, <1>2
<1>6. cb' \in [Skbs -> CbType]
  BY <1>1, <1>2, <1>4, <1>5
<1>7. done' = IF cb[f].pid = NoPid \/ "txs" \in cb[f].flags
              THEN [done EXCEPT ![c] = @ \cup {f}] ELSE done
  BY DEF Complete
<1> QED
  BY <1>1, <1>4, <1>5, <1>6, <1>7 DEF SameFrame, Completed

SentNow(pid) ==
  /\ cb' \in [Skbs -> CbType]
  /\ \A g \in Skbs \ {sending.skb} : cb'[g] = cb[g]
  /\ cb'[sending.skb].wcid = sending.wcid /\ cb'[sending.skb].pid = pid
  /\ cb'[sending.skb].idx = link[sending.wcid].idx
  /\ cb'[sending.skb].flags = {} /\ cb'[sending.skb].by = Nobody /\ cb'[sending.skb].sta = Nobody

LEMMA SendFields ==
  ASSUME STypeOK, WorkerInv, sending # NoSend, NEW pid \in 0 .. LastPid, Send(sending.skb, pid)
  PROVE  SentNow(pid)
<1>1. cb \in [Skbs -> CbType] /\ sending.skb \in Skbs /\ sending.wcid \in Wcids
      /\ link[sending.wcid].idx \in Indices
  BY DEF STypeOK, CbType, WorkerInv
<1> DEFINE new == [Unsent EXCEPT !.wcid = sending.wcid, !.pid = pid,
                                 !.idx = link[sending.wcid].idx]
<1>2. cb' = [cb EXCEPT ![sending.skb] = new]
  BY DEF Send
<1>3. /\ new.wcid = sending.wcid /\ new.pid = pid /\ new.idx = link[sending.wcid].idx
      /\ new.flags = {} /\ new.by = Nobody /\ new.sta = Nobody
      /\ new \in CbType
  BY <1>1 DEF Unsent, CbType
<1> HIDE DEF new
<1> QED
  BY <1>1, <1>2, <1>3 DEF SentNow

Reported(c, f) ==
  /\ cb' \in [Skbs -> CbType]
  /\ \A g \in Skbs : SameFrame(g) /\ cb'[g].by = cb[g].by /\ cb'[g].flags = cb[g].flags
  /\ cb'[f].sta = table[cb[f].idx]
  /\ \A g \in Skbs \ {f} : cb'[g] = cb[g]
  /\ done' \in [Contexts -> SUBSET Skbs]
  /\ \A d \in Contexts \ {c} : done'[d] = done[d]
  /\ done'[c] = done[c] \ {f}

LEMMA ReportFields ==
  ASSUME STypeOK, FrameInv, NEW c \in Contexts, NEW f \in Skbs, Report(c, f)
  PROVE  Reported(c, f)
<1>1. cb \in [Skbs -> CbType] /\ done \in [Contexts -> SUBSET Skbs]
  BY DEF STypeOK, CbType
<1>2. cb' = [cb EXCEPT ![f].sta = table[cb[f].idx]]
  BY DEF Report
<1>3. cb'[f] = [cb[f] EXCEPT !.sta = table[cb[f].idx]] /\ cb[f] \in CbType
  BY <1>1, <1>2
<1>4. table[cb[f].idx] \in Wcids \cup {Nobody}
  BY <1>3 DEF STypeOK, CbType
<1>5. /\ SameFrame(f) /\ cb'[f].sta = table[cb[f].idx] /\ cb'[f].flags = cb[f].flags
      /\ cb'[f].by = cb[f].by /\ cb'[f] \in CbType
  BY <1>3, <1>4 DEF CbType, SameFrame
<1>6. \A g \in Skbs \ {f} : cb'[g] = cb[g]
  BY <1>1, <1>2
<1>7. cb' \in [Skbs -> CbType]
  BY <1>1, <1>2, <1>5, <1>6
<1>8. done' = [done EXCEPT ![c] = @ \ {f}]
  BY DEF Report
<1> QED
  BY <1>1, <1>5, <1>6, <1>7, <1>8 DEF SameFrame, Reported

-----------------------------------------------------------------------------
(* Stations.                                                               *)

\* Every action but those of a station.
FrameNext ==
  \/ \E f \in Skbs, w \in Wcids : TxPick(f, w)
  \/ TxNext \/ ReaderNext \/ Reports
  \/ \E f \in Skbs : TxFree(f) \/ TxsLost(f) \/ TxsLook(f)
  \/ \E F \in SUBSET Overdue : Check(F)
  \/ ResetStart \/ RecoveryNext

LEMMA FrameNextKeepsStations == FrameNext => UNCHANGED <<link, table, mask>>
<1> SUFFICES ASSUME FrameNext PROVE UNCHANGED <<link, table, mask>>
  OBVIOUS
<1>1. CASE \E f \in Skbs, w \in Wcids : TxPick(f, w)
  BY <1>1 DEF TxPick
<1>2. CASE TxNext
  BY <1>2 DEF TxNext, TxRefuse, TxUnknown, TxCheck, TxAdd
<1>3. CASE ReaderNext \/ Reports
  BY <1>3 DEF ReaderNext, Reports, TxsHit, TxsMiss, Report
<1>4. CASE \E f \in Skbs : TxFree(f) \/ TxsLost(f) \/ TxsLook(f)
  BY <1>4 DEF TxFree, TxsLost, TxsLook
<1>5. CASE \E F \in SUBSET Overdue : Check(F)
  BY <1>5 DEF Check
<1>6. CASE ResetStart \/ RecoveryNext
  BY <1>6 DEF ResetStart, RecoveryNext, ResetStopped, ResetToken, ResetFlushed, ResetFails, ResetEnds
<1> QED
  BY <1>1, <1>2, <1>3, <1>4, <1>5, <1>6 DEF FrameNext

\* A station never goes back, and keeps its index.
LinkMoves ==
  \A v \in Wcids :
    /\ link[v].at # "absent" => link'[v].idx = link[v].idx /\ link'[v].at # "absent"
    /\ link[v].at = "gone" => link'[v].at = "gone"
    /\ link'[v].at = "live" => link[v].at \in {"absent", "live"}

LEMMA LinkFields ==
  ASSUME STypeOK, NEW w \in Wcids,
         NEW a \in {"absent", "live", "hidden", "quiet", "bare", "flushed", "wiped", "gone"},
         link' = [link EXCEPT ![w].at = a]
  PROVE  /\ link'[w].at = a /\ link'[w].idx = link[w].idx
         /\ \A v \in Wcids \ {w} : link'[v] = link[v]
         /\ link' \in [Wcids -> [at : {"absent", "live", "hidden", "quiet", "bare",
                                       "flushed", "wiped", "gone"},
                                 idx : Indices]]
  BY DEF STypeOK

LEMMA StationStep ==
  ASSUME STypeOK, StationInv, NEW w \in Wcids, StationNext(w)
  PROVE  /\ StationInv' /\ LinkMoves
         /\ UNCHANGED <<sending, chip, txs, reader, given, recovery, recoveries>>
         /\ link' \in [Wcids -> [at : {"absent", "live", "hidden", "quiet", "bare",
                                       "flushed", "wiped", "gone"},
                                 idx : Indices]]
         /\ table' \in [Indices -> Wcids \cup {Nobody}] /\ mask' \subseteq Indices
         /\ raced \subseteq raced' /\ raced' \subseteq Wcids
<1> USE TxStatusAssumption DEF Present
<1>1. CASE Add(w)
  <2>1. PICK i \in Lowest(Indices \ mask) :
           /\ link' = [link EXCEPT ![w] = [at |-> "live", idx |-> i]]
           /\ mask' = mask \cup {i}
           /\ table' = [table EXCEPT ![i] = w]
    BY <1>1 DEF Add
  <2>2. i \in Indices /\ i \notin mask
    BY <2>1 DEF Lowest
  <2>3. link'[w].at = "live" /\ link'[w].idx = i /\ \A v \in Wcids \ {w} : link'[v] = link[v]
    BY <2>1 DEF STypeOK
  <2>4. table'[i] = w /\ \A j \in Indices \ {i} : table'[j] = table[j]
    BY <2>1, <2>2 DEF STypeOK
  <2>5. link[w].at = "absent"
    BY <1>1 DEF Add
  <2>6. StationInv'
    BY <2>1, <2>2, <2>3, <2>4, <2>5 DEF StationInv, STypeOK
  <2> QED
    BY <1>1, <2>1, <2>2, <2>3, <2>5, <2>6 DEF Add, LinkMoves, STypeOK
<1>2. CASE PreRcuRemove(w) \/ LinkBssRemove(w)
  <2>1. PICK a \in {"hidden", "bare"} : link' = [link EXCEPT ![w].at = a]
    BY <1>2 DEF PreRcuRemove, LinkBssRemove
  <2>2. link[w].at = "live" /\ table' = [table EXCEPT ![link[w].idx] = Nobody] /\ mask' = mask
    BY <1>2 DEF PreRcuRemove, LinkBssRemove
  <2>3. /\ link[w].idx \in Indices /\ table'[link[w].idx] = Nobody
        /\ \A j \in Indices \ {link[w].idx} : table'[j] = table[j]
    BY <2>2 DEF STypeOK
  <2>4. /\ link'[w].at = a /\ link'[w].idx = link[w].idx
        /\ \A v \in Wcids \ {w} : link'[v] = link[v]
    BY <2>1, LinkFields
  <2>5. StationInv'
    <3>1. \A i \in Indices : table'[i] # Nobody =>
            link'[table'[i]].at = "live" /\ link'[table'[i]].idx = i
      BY <2>3, <2>4 DEF StationInv, STypeOK
    <3>2. \A v \in Wcids : link'[v].at = "live" => table'[link'[v].idx] = v
      BY <2>3, <2>1, <2>2, <2>4 DEF StationInv, STypeOK
    <3>3. \A v \in Wcids : Present(v)' => link'[v].idx \in mask'
      BY <2>2, <2>4 DEF StationInv
    <3>4. \A u, v \in Wcids : Present(u)' /\ Present(v)' /\ link'[u].idx = link'[v].idx => u = v
      BY <2>1, <2>2, <2>4 DEF StationInv
    <3> QED
      BY <3>1, <3>2, <3>3, <3>4 DEF StationInv
  <2>6. link' \in [Wcids -> [at : {"absent", "live", "hidden", "quiet", "bare", "flushed", "wiped", "gone"},
                             idx : Indices]]
    BY <2>1, LinkFields
  <2>7. LinkMoves
    BY <2>2, <2>4 DEF LinkMoves
  <2>8. raced \subseteq raced' /\ raced' \subseteq Wcids
    BY <1>2 DEF PreRcuRemove, LinkBssRemove, STypeOK
  <2>9. UNCHANGED <<sending, chip, txs, reader, given, recovery, recoveries>>
    BY <1>2 DEF PreRcuRemove, LinkBssRemove
  <2> QED
    BY <2>2, <2>5, <2>6, <2>7, <2>8, <2>9 DEF STypeOK
<1>3. CASE GracePeriod(w) \/ CleanupFlush(w) \/ IdrDestroy(w) \/ CleanupDone(w)
  <2>1. PICK a \in {"quiet", "flushed", "wiped", "gone"} : link' = [link EXCEPT ![w].at = a]
    BY <1>3 DEF GracePeriod, CleanupFlush, IdrDestroy, CleanupDone
  <2>2. /\ link[w].at \in {"hidden", "bare", "quiet", "flushed", "wiped"} /\ table' = table
        /\ mask' = IF a = "gone" THEN mask \ {link[w].idx} ELSE mask
    BY <1>3, <2>1 DEF GracePeriod, CleanupFlush, IdrDestroy, CleanupDone, STypeOK
  <2>3. /\ link'[w].at = a /\ link'[w].idx = link[w].idx
        /\ \A v \in Wcids \ {w} : link'[v] = link[v]
    BY <2>1, LinkFields
  <2>4. StationInv'
    BY <2>2, <2>3 DEF StationInv, STypeOK
  <2>5. link' \in [Wcids -> [at : {"absent", "live", "hidden", "quiet", "bare", "flushed", "wiped", "gone"},
                             idx : Indices]]
    BY <2>1, LinkFields
  <2>6. LinkMoves
    BY <2>2, <2>3 DEF LinkMoves
  <2>7. UNCHANGED <<sending, chip, txs, reader, given, recovery, recoveries, raced>>
    BY <1>3 DEF GracePeriod, CleanupFlush, IdrDestroy, CleanupDone
  <2> QED
    BY <2>2, <2>4, <2>5, <2>6, <2>7 DEF STypeOK
<1> QED
  BY <1>1, <1>2, <1>3 DEF StationNext

\* The steps of all but the stations keep the types.
LEMMA FrameTypes == ASSUME StatusInv, FrameNext PROVE STypeOK'
<1> USE TxStatusAssumption
<1>1. /\ link' \in [Wcids -> [at : {"absent", "live", "hidden", "quiet", "bare", "flushed", "wiped", "gone"},
                              idx : Indices]]
      /\ table' \in [Indices -> Wcids \cup {Nobody}] /\ mask' \subseteq Indices
  BY FrameNextKeepsStations DEF StatusInv, STypeOK
<1>2. cb \in [Skbs -> CbType]
  BY DEF StatusInv, STypeOK, CbType
<1>3. ASSUME NEW f \in Skbs, NEW w \in Wcids, TxPick(f, w) PROVE STypeOK'
  BY <1>1, <1>3 DEF TxPick, StatusInv, STypeOK, frameVars
<1>4. CASE TxRefuse \/ TxCheck
  BY <1>1, <1>4 DEF TxRefuse, TxCheck, NoSend, StatusInv, STypeOK, WorkerInv, frameVars
<1>5. ASSUME NEW pid \in 0 .. LastPid, sending.pc # "idle", Send(sending.skb, pid),
             pktid' \in {pktid, pktid \cup {sending.skb}},
             wcidList' \in {wcidList, wcidList \cup {sending.wcid}},
             UNCHANGED <<done, reader, given, recovery, recoveries, raced>>
      PROVE  STypeOK'
  <2>1. sending # NoSend /\ sending.skb \in Skbs /\ sending.wcid \in Wcids
    BY <1>5 DEF StatusInv, WorkerInv, NoSend
  <2>2. cb' \in [Skbs -> CbType]
    BY <1>5, <2>1, SendFields DEF StatusInv, SentNow
  <2> QED
    BY <1>1, <1>5, <2>1, <2>2 DEF Send, NoSend, StatusInv, STypeOK, CbType
<1>6. CASE TxUnknown
  BY <1>5, <1>6 DEF TxUnknown, NoPid
<1>7. CASE TxAdd
  <2>1. CASE Send(sending.skb, NoPid) /\ UNCHANGED <<pktid, wcidList>>
    BY <1>5, <1>7, <2>1 DEF TxAdd, NoPid
  <2>2. CASE /\ \E pid \in Lowest(Pids \ {cb[g].pid : g \in IdsOf(sending.wcid)}) : Send(sending.skb, pid)
             /\ pktid' = pktid \cup {sending.skb} /\ wcidList' = wcidList \cup {sending.wcid}
    BY <1>5, <1>7, <2>2 DEF TxAdd, Lowest, Pids
  <2> QED
    BY <1>7, <2>1, <2>2 DEF TxAdd
<1>8. ASSUME NEW c \in Contexts, NEW W, NEW F \in SUBSET pktid,
             NEW flags \in SUBSET {"txs", "failed"}, NEW by \in Skbs \cup {Nobody},
             Settle(c, W, F, flags, by), reader' \in {reader, NoRead}, txs' \subseteq txs,
             recovery' \in {recovery, "flushed"},
             UNCHANGED <<sending, chip, given, recoveries, raced>>
      PROVE  STypeOK'
  <2>1. cb' \in [Skbs -> CbType] /\ done' \in [Contexts -> SUBSET Skbs]
    BY <1>8, SettleFields DEF StatusInv, Settled
  <2>2. pktid' \subseteq pktid /\ wcidList' \subseteq wcidList
    BY <1>8 DEF Settle
  <2> QED
    BY <1>1, <1>8, <2>1, <2>2 DEF NoRead, StatusInv, STypeOK, CbType
<1>9. CASE ReaderNext
  <2>1. ASSUME NEW f \in pktid, TxsHit(f) PROVE STypeOK'
    <3>1. reader.skb \in Skbs \cup {Nobody} /\ "txs" \in Contexts
      BY DEF StatusInv, STypeOK, Contexts
    <3> QED
      BY <1>8, <2>1, <3>1 DEF TxsHit
  <2>2. ASSUME NEW F \in SUBSET Overdue, TxsMiss(F) PROVE STypeOK'
    BY <1>8, <2>2 DEF TxsMiss, GiveUp, Overdue, Waiting, Contexts
  <2> QED
    BY <1>9, <2>1, <2>2 DEF ReaderNext
<1>10. ASSUME NEW c \in Contexts, NEW f \in Skbs, Report(c, f) PROVE STypeOK'
  <2>1. cb' \in [Skbs -> CbType] /\ done' \in [Contexts -> SUBSET Skbs]
    BY <1>10, ReportFields DEF StatusInv, Reported
  <2> QED
    BY <1>1, <1>10, <2>1 DEF Report, StatusInv, STypeOK, CbType
<1>11. ASSUME NEW c \in Contexts, NEW f \in chip, Complete(c, f),
              UNCHANGED <<sending, txs, reader, given, recovery, recoveries, raced>>
       PROVE  STypeOK'
  <2>1. cb' \in [Skbs -> CbType] /\ done' \in [Contexts -> SUBSET Skbs]
    BY <1>11, CompleteFields DEF StatusInv, Completed
  <2> QED
    BY <1>1, <1>11, <2>1 DEF Complete, StatusInv, STypeOK, CbType
<1>12. ASSUME NEW f \in Skbs, TxFree(f) \/ TxsLost(f) \/ TxsLook(f) PROVE STypeOK'
  <2>1. CASE TxFree(f)
    BY <1>11, <2>1 DEF TxFree, Contexts
  <2>2. CASE TxsLost(f)
    BY <1>1, <2>2 DEF TxsLost, StatusInv, STypeOK, frameVars
  <2>3. CASE TxsLook(f)
    <3>1. cb[f].idx \in Indices
      BY <1>2 DEF CbType
    <3> QED
      BY <1>1, <2>3, <3>1 DEF TxsLook, NoRead, StatusInv, STypeOK, frameVars
  <2> QED
    BY <1>12, <2>1, <2>2, <2>3
<1>13. ASSUME NEW F \in SUBSET Overdue, Check(F) PROVE STypeOK'
  BY <1>8, <1>13 DEF Check, GiveUp, Overdue, Waiting, Contexts
<1>14. CASE ResetStart \/ ResetStopped \/ ResetFails \/ ResetEnds
  BY <1>1, <1>14 DEF ResetStart, ResetStopped, ResetFails, ResetEnds, StatusInv, STypeOK, frameVars
<1>15. CASE ResetFlushed
  BY <1>8, <1>15 DEF ResetFlushed, GiveUp, Waiting, Contexts
<1>16. ASSUME NEW f \in chip, ResetToken(f) PROVE STypeOK'
  BY <1>11, <1>16 DEF ResetToken, Contexts
<1> QED
  BY <1>3, <1>4, <1>6, <1>7, <1>9, <1>10, <1>12, <1>13, <1>14, <1>15, <1>16
     DEF FrameNext, TxNext, Reports, RecoveryNext

-----------------------------------------------------------------------------
(* Frames and the worker.                                                  *)

\* The frame of the worker is nowhere else.
LEMMA WorkersFrame ==
  ASSUME StatusInv, sending # NoSend
  PROVE  /\ sending.skb \in Skbs /\ sending.wcid \in Wcids /\ cb[sending.skb] = Unsent
         /\ ~Sent(sending.skb) /\ sending.skb \notin pktid \cup chip \cup given
         /\ \A c \in Contexts : sending.skb \notin done[c]
         /\ cb[sending.skb].sta = Nobody
  BY DEF StatusInv, WorkerInv, FrameInv, Unsent, Sent

LEMMA FrameSame ==
  ASSUME StatusInv, LinkMoves, UNCHANGED <<cb, chip, given, done>>, pktid' \subseteq pktid
  PROVE  FrameInv'
<1>1. cb \in [Skbs -> CbType] /\ pktid \subseteq Skbs /\ chip \subseteq Skbs /\ given \subseteq Skbs
      /\ done \in [Contexts -> SUBSET Skbs]
  BY DEF StatusInv, STypeOK, CbType
<1>2. \A f \in Skbs : Sent(f) => cb[f].wcid \in Wcids
  BY <1>1 DEF Sent, CbType
<1>3. \A f \in Skbs : Sent(f) => link'[cb[f].wcid].at # "absent" /\ cb[f].idx = link'[cb[f].wcid].idx
  BY <1>2 DEF StatusInv, FrameInv, LinkMoves
<1>4. \A f \in given : cb[f].sta \notin {cb[f].wcid, Nobody} =>
        Sent(f) /\ link'[cb[f].wcid].at = "gone"
  BY <1>1, <1>2 DEF StatusInv, FrameInv, LinkMoves
<1> QED
  BY <1>3, <1>4 DEF StatusInv, FrameInv, Handed, Sent

LEMMA FrameSettle ==
  ASSUME StatusInv, LinkMoves, NEW c \in Contexts, NEW W, NEW F \in SUBSET pktid,
         NEW flags \in SUBSET {"txs", "failed"}, "txs" \in flags, NEW by \in Skbs \cup {Nobody},
         Settle(c, W, F, flags, by), UNCHANGED <<chip, given>>
  PROVE  FrameInv'
<1>1. cb \in [Skbs -> CbType] /\ pktid \subseteq Skbs /\ chip \subseteq Skbs /\ given \subseteq Skbs
      /\ done \in [Contexts -> SUBSET Skbs]
  BY DEF StatusInv, STypeOK, CbType
<1>2. \A f \in Skbs : Sent(f) => cb[f].wcid \in Wcids
  BY <1>1 DEF Sent, CbType
<1>0. Settled(c, F, flags, by)
  BY SettleFields DEF StatusInv
<1>3. /\ \A f \in Skbs : SameFrame(f) /\ cb'[f].sta = cb[f].sta
      /\ \A f \in F : cb'[f].flags = cb[f].flags \cup flags
      /\ \A f \in Skbs \ F : cb'[f] = cb[f]
      /\ \A d \in Contexts \ {c} : done'[d] = done[d]
      /\ done'[c] = done[c] \cup {f \in F : "dma" \in cb[f].flags}
  BY <1>0 DEF Settled
<1>4. pktid' = pktid \ F
  BY DEF Settle
<1>5. \A f \in Skbs : Sent(f)' <=> Sent(f)
  BY <1>3 DEF Sent, SameFrame
<1>6. \A f \in Skbs : Sent(f)' => link'[cb'[f].wcid].at # "absent" /\ cb'[f].idx = link'[cb'[f].wcid].idx
  BY <1>2, <1>3, <1>5 DEF StatusInv, FrameInv, LinkMoves, SameFrame
<1>7. \A f \in pktid' : Sent(f)' /\ "txs" \notin cb'[f].flags /\ cb'[f].pid # NoPid /\ ~Handed(f)'
  <2> SUFFICES ASSUME NEW f \in pktid'
               PROVE  Sent(f)' /\ "txs" \notin cb'[f].flags /\ cb'[f].pid # NoPid /\ ~Handed(f)'
    OBVIOUS
  <2>1. f \in pktid /\ f \notin F /\ cb'[f] = cb[f]
    BY <1>1, <1>3, <1>4
  <2>2. ~Handed(f)
    BY <2>1 DEF StatusInv, FrameInv
  <2>3. ~Handed(f)'
    BY <2>1, <2>2, <1>3 DEF Handed
  <2> QED
    BY <2>1, <2>3 DEF StatusInv, FrameInv, Sent
<1>8. \A f \in chip' : Sent(f)' /\ "dma" \notin cb'[f].flags /\ ~Handed(f)'
  <2> SUFFICES ASSUME NEW f \in chip
               PROVE  Sent(f)' /\ "dma" \notin cb'[f].flags /\ ~Handed(f)'
    OBVIOUS
  <2>1. f \in Skbs /\ Sent(f) /\ "dma" \notin cb[f].flags /\ ~Handed(f)
    BY <1>1 DEF StatusInv, FrameInv
  <2>2. "dma" \notin cb'[f].flags
    BY <2>1, <1>3
  <2>3. ~Handed(f)'
    BY <2>1, <1>3 DEF Handed
  <2> QED
    BY <2>1, <2>2, <2>3, <1>5
<1>9. \A d \in Contexts : \A f \in done'[d] : Sent(f)' /\ f \notin given'
  <2> SUFFICES ASSUME NEW d \in Contexts, NEW f \in done'[d] PROVE Sent(f)' /\ f \notin given
    OBVIOUS
  <2>1. CASE f \in done[d]
    BY <1>1, <1>5, <2>1 DEF StatusInv, FrameInv
  <2>2. CASE d = c /\ f \in F
    BY <1>1, <1>5, <2>2 DEF StatusInv, FrameInv, Handed
  <2> QED
    BY <1>3, <2>1, <2>2
<1>10. \A d, e \in Contexts : d # e => done'[d] \cap done'[e] = {}
  <2>1. \A d \in Contexts : done[d] \cap F = {}
    BY DEF StatusInv, FrameInv, Handed
  <2> QED
    BY <1>3, <2>1 DEF StatusInv, FrameInv
<1>11. \A f \in given' : cb'[f].sta \notin {cb'[f].wcid, Nobody} =>
         Sent(f)' /\ link'[cb'[f].wcid].at = "gone"
  <2> SUFFICES ASSUME NEW f \in given, cb[f].sta \notin {cb[f].wcid, Nobody}
               PROVE  Sent(f) /\ link'[cb[f].wcid].at = "gone"
    BY <1>1, <1>3, <1>5 DEF SameFrame
  <2>1. Sent(f) /\ link[cb[f].wcid].at = "gone"
    BY DEF StatusInv, FrameInv
  <2> QED
    BY <1>1, <1>2, <2>1 DEF LinkMoves
<1> QED
  BY <1>6, <1>7, <1>8, <1>9, <1>10, <1>11 DEF FrameInv

LEMMA FrameComplete ==
  ASSUME StatusInv, UNCHANGED <<link, given>>, NEW c \in Contexts, NEW f \in chip, Complete(c, f)
  PROVE  FrameInv'
<1>1. cb \in [Skbs -> CbType] /\ pktid \subseteq Skbs /\ chip \subseteq Skbs /\ given \subseteq Skbs
      /\ done \in [Contexts -> SUBSET Skbs]
  BY DEF StatusInv, STypeOK, CbType
<1>2. Completed(c, f) /\ pktid' = pktid /\ chip' = chip \ {f} /\ f \in Skbs
  BY <1>1, CompleteFields DEF StatusInv, Complete
<1>3. \A g \in Skbs : Sent(g)' <=> Sent(g)
  BY <1>2 DEF Sent, SameFrame, Completed
<1>4. \A g \in Skbs : Sent(g)' => link'[cb'[g].wcid].at # "absent" /\ cb'[g].idx = link'[cb'[g].wcid].idx
  BY <1>2, <1>3 DEF StatusInv, FrameInv, SameFrame, Completed
<1>5. f \notin given /\ \A d \in Contexts : f \notin done[d]
  BY DEF StatusInv, FrameInv, Handed
<1>6. f \in done'[c] => f \notin pktid
  <2>1. cb[f].pid = NoPid \/ "txs" \in cb[f].flags => f \notin pktid
    BY DEF StatusInv, FrameInv
  <2> QED
    BY <1>2, <1>5, <2>1 DEF Completed
<1>7. \A d \in Contexts : done'[d] \subseteq done[d] \cup {f} /\ (d # c => f \notin done'[d])
  BY <1>2, <1>5 DEF Completed
<1>8. \A g \in pktid' : Sent(g)' /\ "txs" \notin cb'[g].flags /\ cb'[g].pid # NoPid /\ ~Handed(g)'
  <2> SUFFICES ASSUME NEW g \in pktid
               PROVE  Sent(g)' /\ "txs" \notin cb'[g].flags /\ cb'[g].pid # NoPid /\ ~Handed(g)'
    BY <1>2
  <2>1. g \in Skbs /\ Sent(g) /\ "txs" \notin cb[g].flags /\ cb[g].pid # NoPid /\ ~Handed(g)
    BY <1>1 DEF StatusInv, FrameInv
  <2>2. "txs" \notin cb'[g].flags /\ cb'[g].pid # NoPid
    BY <1>2, <2>1 DEF Completed, SameFrame
  <2>3. ~Handed(g)'
    BY <1>6, <1>7, <2>1 DEF Handed
  <2> QED
    BY <1>3, <2>1, <2>2, <2>3
<1>9. \A g \in chip' : Sent(g)' /\ "dma" \notin cb'[g].flags /\ ~Handed(g)'
  <2> SUFFICES ASSUME NEW g \in chip, g # f
               PROVE  Sent(g)' /\ "dma" \notin cb'[g].flags /\ ~Handed(g)'
    BY <1>2
  <2>1. g \in Skbs /\ Sent(g) /\ "dma" \notin cb[g].flags /\ ~Handed(g)
    BY <1>1 DEF StatusInv, FrameInv
  <2>2. "dma" \notin cb'[g].flags
    BY <1>2, <2>1 DEF Completed
  <2>3. ~Handed(g)'
    BY <1>7, <2>1 DEF Handed
  <2> QED
    BY <1>3, <2>1, <2>2, <2>3
<1>10. \A d \in Contexts : \A g \in done'[d] : Sent(g)' /\ g \notin given'
  <2>1. Sent(f)
    BY DEF StatusInv, FrameInv
  <2> QED
    BY <1>1, <1>2, <1>3, <1>5, <1>7, <2>1 DEF StatusInv, FrameInv
<1>11. \A d, e \in Contexts : d # e => done'[d] \cap done'[e] = {}
  BY <1>7 DEF StatusInv, FrameInv
<1>12. \A g \in given' : cb'[g].sta \notin {cb'[g].wcid, Nobody} =>
         Sent(g)' /\ link'[cb'[g].wcid].at = "gone"
  BY <1>1, <1>2, <1>3 DEF StatusInv, FrameInv, Completed, SameFrame
<1> QED
  BY <1>4, <1>8, <1>9, <1>10, <1>11, <1>12 DEF FrameInv

LEMMA FrameSend ==
  ASSUME StatusInv, sending # NoSend, NEW f, f = sending.skb, NEW pid \in 0 .. LastPid, Send(f, pid),
         pktid' = pktid \/ (pid # NoPid /\ pktid' = pktid \cup {f}),
         UNCHANGED <<link, given, done>>
  PROVE  FrameInv'
<1>1. cb \in [Skbs -> CbType] /\ pktid \subseteq Skbs /\ chip \subseteq Skbs /\ given \subseteq Skbs
      /\ done \in [Contexts -> SUBSET Skbs]
  BY DEF StatusInv, STypeOK, CbType
<1>2. SentNow(pid) /\ chip' = chip \cup {f}
  BY SendFields DEF StatusInv, Send
<1>3. /\ f \in Skbs /\ sending.wcid \in Wcids
      /\ ~Sent(f) /\ f \notin pktid \cup chip \cup given
      /\ \A c \in Contexts : f \notin done[c]
  BY WorkersFrame
<1>4. link[sending.wcid].at # "absent" /\ sending.wcid # Nobody
  BY <1>3, TxStatusAssumption DEF StatusInv, WorkerInv
<1>5. \A g \in Skbs \ {f} : cb'[g] = cb[g] /\ (Sent(g)' <=> Sent(g)) /\ (Handed(g)' <=> Handed(g))
  BY <1>2 DEF SentNow, Sent, Handed
<1>6. Sent(f)' /\ ~Handed(f)' /\ cb'[f].flags = {} /\ cb'[f].pid = pid
  BY <1>2, <1>3, <1>4 DEF SentNow, Sent, Handed
<1>7. \A g \in Skbs : Sent(g)' => link'[cb'[g].wcid].at # "absent" /\ cb'[g].idx = link'[cb'[g].wcid].idx
  BY <1>2, <1>4, <1>5 DEF StatusInv, FrameInv, SentNow
<1>8. \A g \in pktid' : Sent(g)' /\ "txs" \notin cb'[g].flags /\ cb'[g].pid # NoPid /\ ~Handed(g)'
  BY <1>1, <1>3, <1>5, <1>6 DEF StatusInv, FrameInv
<1>9. \A g \in chip' : Sent(g)' /\ "dma" \notin cb'[g].flags /\ ~Handed(g)'
  BY <1>1, <1>2, <1>3, <1>5, <1>6 DEF StatusInv, FrameInv
<1>10. \A d \in Contexts : \A g \in done'[d] : Sent(g)' /\ g \notin given'
  BY <1>1, <1>5, <1>6 DEF StatusInv, FrameInv
<1>11. \A g \in given' : cb'[g].sta \notin {cb'[g].wcid, Nobody} =>
         Sent(g)' /\ link'[cb'[g].wcid].at = "gone"
  BY <1>1, <1>3, <1>5 DEF StatusInv, FrameInv
<1> QED
  BY <1>7, <1>8, <1>9, <1>10, <1>11 DEF StatusInv, FrameInv

LEMMA FrameReport ==
  ASSUME StatusInv, NEW c \in Contexts, NEW f \in Skbs, Report(c, f)
  PROVE  FrameInv'
<1>1. cb \in [Skbs -> CbType] /\ pktid \subseteq Skbs /\ chip \subseteq Skbs /\ given \subseteq Skbs
      /\ done \in [Contexts -> SUBSET Skbs]
  BY DEF StatusInv, STypeOK, CbType
<1>2. /\ Reported(c, f) /\ f \in done[c] /\ given' = given \cup {f}
      /\ pktid' = pktid /\ chip' = chip /\ link' = link
  BY ReportFields DEF StatusInv, Report
<1>3. \A g \in Skbs : Sent(g)' <=> Sent(g)
  BY <1>2 DEF Sent, SameFrame, Reported
<1>4. \A g \in Skbs : Sent(g)' => link'[cb'[g].wcid].at # "absent" /\ cb'[g].idx = link'[cb'[g].wcid].idx
  BY <1>2, <1>3 DEF StatusInv, FrameInv, SameFrame, Reported
<1>5. \A g \in Skbs : Handed(g)' => Handed(g)
  BY <1>2 DEF Handed, Reported
<1>6. \A g \in pktid' : Sent(g)' /\ "txs" \notin cb'[g].flags /\ cb'[g].pid # NoPid /\ ~Handed(g)'
  BY <1>1, <1>2, <1>3, <1>5 DEF StatusInv, FrameInv, Reported, SameFrame
<1>7. \A g \in chip' : Sent(g)' /\ "dma" \notin cb'[g].flags /\ ~Handed(g)'
  BY <1>1, <1>2, <1>3, <1>5 DEF StatusInv, FrameInv, Reported, SameFrame
<1>8. \A d \in Contexts : done'[d] \subseteq done[d] /\ f \notin done'[d]
  BY <1>2 DEF StatusInv, FrameInv, Reported
<1>9. \A d \in Contexts : \A g \in done'[d] : Sent(g)' /\ g \notin given'
  BY <1>1, <1>2, <1>3, <1>8 DEF StatusInv, FrameInv
<1>10. \A d, e \in Contexts : d # e => done'[d] \cap done'[e] = {}
  BY <1>8 DEF StatusInv, FrameInv
<1>11. \A g \in given' : cb'[g].sta \notin {cb'[g].wcid, Nobody} =>
         Sent(g)' /\ link'[cb'[g].wcid].at = "gone"
  <2>1. CASE f \in given
    BY <1>2, <2>1 DEF StatusInv, FrameInv
  <2>2. ASSUME cb'[f].sta \notin {cb'[f].wcid, Nobody}
        PROVE  Sent(f)' /\ link'[cb'[f].wcid].at = "gone"
    <3>1. Sent(f) /\ cb[f].wcid \in Wcids /\ cb[f].idx \in Indices
      BY <1>1, <1>2 DEF StatusInv, FrameInv, Sent, CbType
    <3>2. /\ cb'[f].wcid = cb[f].wcid /\ cb'[f].sta = table[cb[f].idx]
          /\ cb[f].idx = link[cb[f].wcid].idx /\ link[cb[f].wcid].at # "absent"
      BY <1>2, <3>1 DEF Reported, SameFrame, StatusInv, FrameInv
    <3>3. /\ table[cb[f].idx] \in Wcids
          /\ link[table[cb[f].idx]].at = "live" /\ link[table[cb[f].idx]].idx = cb[f].idx
      BY <2>2, <3>1, <3>2 DEF StatusInv, StationInv, STypeOK
    <3>4. link[cb[f].wcid].at # "gone" => table[cb[f].idx] = cb[f].wcid
      BY <3>1, <3>2, <3>3 DEF StatusInv, StationInv, Present
    <3> QED
      BY <1>2, <1>3, <2>2, <3>1, <3>2, <3>4
  <2>3. \A g \in given \ {f} : cb'[g].sta \notin {cb'[g].wcid, Nobody} =>
          Sent(g)' /\ link'[cb'[g].wcid].at = "gone"
    BY <1>1, <1>2, <1>3 DEF StatusInv, FrameInv, Reported
  <2> QED
    BY <1>2, <2>2, <2>3
<1> QED
  BY <1>4, <1>6, <1>7, <1>9, <1>10, <1>11 DEF FrameInv

LEMMA FrameRefuse == ASSUME StatusInv, TxRefuse PROVE FrameInv'
<1>1. sending # NoSend
  BY DEF TxRefuse, NoSend
<1>2. /\ sending.skb \in Skbs
      /\ ~Sent(sending.skb) /\ sending.skb \notin pktid \cup chip \cup given
      /\ \A c \in Contexts : sending.skb \notin done[c]
      /\ cb[sending.skb].sta = Nobody
  BY <1>1, WorkersFrame
<1>3. given' = given \cup {sending.skb} /\ UNCHANGED <<link, cb, pktid, chip, done>>
  BY DEF TxRefuse, frameVars
<1> QED
  BY <1>2, <1>3 DEF StatusInv, FrameInv, Handed, Sent

-----------------------------------------------------------------------------
(* What the worker knows of its station.                                   *)

LEMMA WorkerStays ==
  ASSUME StatusInv, UNCHANGED <<sending, link>>, raced \subseteq raced',
         sending # NoSend => cb'[sending.skb] = Unsent /\ sending.skb \notin given'
  PROVE  WorkerInv'
  BY DEF StatusInv, WorkerInv

\* Settling leaves the frame of the worker alone, for it has no id yet.
LEMMA WorkerSettle ==
  ASSUME StatusInv, NEW c \in Contexts, NEW W, NEW F \in SUBSET pktid,
         NEW flags \in SUBSET {"txs", "failed"}, NEW by \in Skbs \cup {Nobody},
         Settle(c, W, F, flags, by)
  PROVE  sending # NoSend => cb'[sending.skb] = Unsent
<1>1. Settled(c, F, flags, by)
  BY SettleFields DEF StatusInv
<1> QED
  BY <1>1, WorkersFrame DEF Settled

LEMMA WorkerStation ==
  ASSUME StatusInv, NEW w \in Wcids, StationNext(w)
  PROVE  WorkerInv'
<1>1. LinkMoves /\ raced \subseteq raced' /\ UNCHANGED <<sending, given>>
  BY StationStep DEF StatusInv
<1>2. sending # NoSend => cb'[sending.skb] = Unsent
  <2>1. CASE CleanupFlush(w)
    <3>1. IdsOf(w) \in SUBSET pktid
      BY DEF IdsOf
    <3> QED
      BY <2>1, <3>1, WorkerSettle DEF CleanupFlush, GiveUp, Contexts
  <2>2. CASE ~CleanupFlush(w)
    BY <2>2, WorkersFrame DEF StationNext, Add, PreRcuRemove, GracePeriod, LinkBssRemove, IdrDestroy,
                              CleanupDone, frameVars
  <2> QED
    BY <2>1, <2>2
<1>3. ASSUME sending.pc = "add", sending.wcid \notin raced'
      PROVE  sending.late = "no" /\ link'[sending.wcid].at \in {"live", "hidden"}
  <2>1. sending # NoSend
    BY <1>3 DEF NoSend
  <2>2. sending.wcid \in Wcids /\ sending.late = "no" /\ link[sending.wcid].at \in {"live", "hidden"}
    BY <1>1, <1>3, <2>1 DEF StatusInv, WorkerInv
  <2>3. CASE w # sending.wcid
    <3>1. link'[sending.wcid] = link[sending.wcid]
      BY <2>2, <2>3 DEF StationNext, Add, PreRcuRemove, GracePeriod, LinkBssRemove, CleanupFlush,
                        IdrDestroy, CleanupDone, StatusInv, STypeOK
    <3> QED
      BY <2>2, <3>1
  <2>4. CASE w = sending.wcid
    <3>1. ~GracePeriod(w)
      BY <2>2, <2>4 DEF GracePeriod
    <3>2. ~LinkBssRemove(w)
      BY <1>3, <2>4 DEF LinkBssRemove
    <3>3. ~Add(w) /\ ~CleanupFlush(w) /\ ~IdrDestroy(w) /\ ~CleanupDone(w)
      BY <2>2, <2>4 DEF Add, CleanupFlush, IdrDestroy, CleanupDone
    <3>4. PreRcuRemove(w)
      BY <3>1, <3>2, <3>3 DEF StationNext
    <3>5. link'[w].at = "hidden"
      BY <3>4 DEF PreRcuRemove, StatusInv, STypeOK
    <3> QED
      BY <2>2, <2>4, <3>5
  <2> QED
    BY <2>3, <2>4
<1>4. sending # NoSend =>
        /\ link'[sending.wcid].at # "absent"
        /\ sending.late = "yes" => link'[sending.wcid].at # "live"
  BY <1>1 DEF StatusInv, WorkerInv, LinkMoves
<1> QED
  BY <1>1, <1>2, <1>3, <1>4 DEF StatusInv, WorkerInv

LEMMA WorkerTakes ==
  ASSUME StatusInv, (\E f \in Skbs, w \in Wcids : TxPick(f, w)) \/ TxNext
  PROVE  WorkerInv'
<1>1. ASSUME NEW f \in Skbs, NEW w \in Wcids, TxPick(f, w) PROVE WorkerInv'
  <2> DEFINE late == IF link[w].at = "live" THEN "no" ELSE "yes"
  <2>1. /\ sending' = [pc |-> "pick", skb |-> f, wcid |-> w, late |-> late]
        /\ cb[f] = Unsent /\ f \notin given /\ link[w].at # "absent"
        /\ UNCHANGED <<cb, link, given, raced>>
    BY <1>1 DEF TxPick, frameVars
  <2>2. late = "yes" => link[w].at # "live"
    OBVIOUS
  <2> HIDE DEF late
  <2> QED
    BY <2>1, <2>2 DEF WorkerInv, NoSend
<1>2. CASE TxRefuse \/ TxUnknown \/ TxAdd
  <2>1. sending' = NoSend
    BY <1>2 DEF TxRefuse, TxUnknown, TxAdd, Send
  <2> QED
    BY <2>1 DEF WorkerInv, NoSend
<1>3. CASE TxCheck
  <2>1. sending # NoSend
    BY <1>3 DEF TxCheck, NoSend
  <2>2. /\ sending' = [sending EXCEPT !.pc = "add"]
        /\ table[link[sending.wcid].idx] # Nobody
        /\ raced' = IF table[link[sending.wcid].idx] = sending.wcid THEN raced
                    ELSE raced \cup {sending.wcid}
        /\ UNCHANGED <<cb, link, given>>
    BY <1>3 DEF TxCheck, frameVars
  <2>3. sending'.pc = "add" /\ sending'.skb = sending.skb /\ sending'.wcid = sending.wcid
        /\ sending'.late = sending.late /\ sending' # NoSend
    BY <2>2 DEF StatusInv, STypeOK, NoSend
  <2>4. sending.wcid \in Wcids /\ link[sending.wcid].idx \in Indices
    BY <2>1 DEF StatusInv, WorkerInv, STypeOK
  <2>5. sending.wcid \notin raced' =>
          sending.late = "no" /\ link[sending.wcid].at \in {"live", "hidden"}
    <3>1. CASE table[link[sending.wcid].idx] = sending.wcid
      <4>1. link[sending.wcid].at = "live"
        BY <2>2, <2>4, <3>1 DEF StatusInv, StationInv
      <4>2. sending.late # "yes"
        BY <2>1, <4>1 DEF StatusInv, WorkerInv
      <4> QED
        BY <4>1, <4>2 DEF StatusInv, STypeOK
    <3>2. CASE table[link[sending.wcid].idx] # sending.wcid
      BY <2>2, <3>2
    <3> QED
      BY <3>1, <3>2
  <2>6. /\ sending.skb \in Skbs /\ cb[sending.skb] = Unsent /\ sending.skb \notin given
        /\ link[sending.wcid].at # "absent"
        /\ sending.late = "yes" => link[sending.wcid].at # "live"
    BY <2>1 DEF StatusInv, WorkerInv
  <2> QED
    BY <2>2, <2>3, <2>4, <2>5, <2>6 DEF WorkerInv
<1> QED
  BY <1>1, <1>2, <1>3 DEF TxNext

-----------------------------------------------------------------------------
(* The list of stations with ids.                                          *)

LEMMA WatchSame ==
  ASSUME StatusInv, UNCHANGED <<pktid, wcidList>>, \A f \in pktid : cb'[f].wcid = cb[f].wcid,
         raced \subseteq raced',
         \A v \in Wcids : link'[v].at \in {"flushed", "wiped", "gone"} =>
                             link[v].at \in {"flushed", "wiped", "gone"}
  PROVE  WatchInv'
<1>1. \A v \in Wcids : IdsOf(v)' = IdsOf(v)
  BY DEF IdsOf
<1> QED
  BY <1>1 DEF StatusInv, WatchInv

LEMMA WatchSettle ==
  ASSUME StatusInv, NEW c \in Contexts, NEW W, NEW F \in SUBSET pktid,
         NEW flags \in SUBSET {"txs", "failed"}, NEW by \in Skbs \cup {Nobody},
         Settle(c, W, F, flags, by), \A f \in F : cb[f].wcid \in W, raced \subseteq raced',
         \A v \in Wcids : link'[v].at \in {"flushed", "wiped", "gone"} =>
           link[v].at \in {"flushed", "wiped", "gone"} \/ IdsOf(v) \subseteq F
  PROVE  WatchInv'
<1>1. Settled(c, F, flags, by)
  BY SettleFields DEF StatusInv
<1>2. pktid' = pktid \ F /\ wcidList' = wcidList \ {w \in W : IdsOf(w) \subseteq F}
  BY DEF Settle
<1>3. pktid \subseteq Skbs
  BY DEF StatusInv, STypeOK
<1>4. \A v \in Wcids : IdsOf(v)' = IdsOf(v) \ F
  BY <1>1, <1>2, <1>3 DEF IdsOf, Settled, SameFrame
<1>5. \A v \in Wcids : v \notin W => IdsOf(v) \cap F = {}
  BY DEF IdsOf
<1>6. \A v \in Wcids : /\ IdsOf(v)' # {} => v \in wcidList'
                       /\ v \notin raced' /\ v \in wcidList' => IdsOf(v)' # {}
  <2> TAKE v \in Wcids
  <2>1. /\ IdsOf(v) # {} => v \in wcidList
        /\ v \notin raced' /\ v \in wcidList => IdsOf(v) # {}
    BY DEF StatusInv, WatchInv
  <2>2. CASE v \in W
    BY <1>2, <1>4, <2>1, <2>2
  <2>3. CASE v \notin W
    BY <1>2, <1>4, <1>5, <2>1, <2>3
  <2> QED
    BY <2>2, <2>3
<1>7. \A v \in Wcids : link'[v].at \in {"flushed", "wiped", "gone"} /\ v \notin raced' => IdsOf(v)' = {}
  <2> SUFFICES ASSUME NEW v \in Wcids, link'[v].at \in {"flushed", "wiped", "gone"}, v \notin raced'
               PROVE  IdsOf(v) \ F = {}
    BY <1>4
  <2>1. CASE link[v].at \in {"flushed", "wiped", "gone"}
    <3>1. IdsOf(v) = {}
      BY <2>1 DEF StatusInv, WatchInv
    <3> QED
      BY <3>1
  <2>2. CASE IdsOf(v) \subseteq F
    BY <2>2
  <2> QED
    BY <2>1, <2>2
<1> QED
  BY <1>6, <1>7 DEF WatchInv

LEMMA WatchSend ==
  ASSUME StatusInv, sending # NoSend, NEW f, f = sending.skb, NEW w, w = sending.wcid,
         NEW pid \in 0 .. LastPid, Send(f, pid), UNCHANGED <<link, raced>>,
         \/ UNCHANGED <<pktid, wcidList>>
         \/ /\ pktid' = pktid \cup {f} /\ wcidList' = wcidList \cup {w}
            /\ w \in raced \/ link[w].at \in {"live", "hidden"}
  PROVE  WatchInv'
<1>1. SentNow(pid)
  BY SendFields DEF StatusInv
<1>2. f \in Skbs /\ w \in Wcids /\ f \notin pktid
  BY WorkersFrame
<1>3. pktid \subseteq Skbs
  BY DEF StatusInv, STypeOK
<1>4. cb'[f].wcid = w /\ \A g \in pktid : cb'[g].wcid = cb[g].wcid
  BY <1>1, <1>2, <1>3 DEF SentNow
<1>5. CASE UNCHANGED <<pktid, wcidList>>
  BY <1>4, <1>5, WatchSame
<1>6. CASE /\ pktid' = pktid \cup {f} /\ wcidList' = wcidList \cup {w}
           /\ w \in raced \/ link[w].at \in {"live", "hidden"}
  <2>1. /\ IdsOf(w)' = IdsOf(w) \cup {f}
        /\ \A v \in Wcids \ {w} : IdsOf(v)' = IdsOf(v)
    BY <1>2, <1>4, <1>6 DEF IdsOf
  <2>2. \A v \in Wcids : /\ IdsOf(v)' # {} => v \in wcidList'
                         /\ v \notin raced /\ v \in wcidList' => IdsOf(v)' # {}
    BY <1>2, <1>6, <2>1 DEF StatusInv, WatchInv
  <2>3. \A v \in Wcids : link[v].at \in {"flushed", "wiped", "gone"} /\ v \notin raced => IdsOf(v)' = {}
    BY <1>2, <1>6, <2>1 DEF StatusInv, WatchInv
  <2> QED
    BY <2>2, <2>3 DEF WatchInv
<1> QED
  BY <1>5, <1>6

-----------------------------------------------------------------------------
(* Whom reports are credited to.                                           *)

\* What no step takes back.
FramesGrow ==
  /\ \A f \in Skbs : SameFrame(f) /\ cb'[f].by = cb[f].by /\ cb[f].flags \subseteq cb'[f].flags
  /\ raced \subseteq raced'

LEMMA CreditSame ==
  ASSUME StatusInv, LinkMoves, FramesGrow, UNCHANGED reader, txs' \subseteq txs,
         pktid' \subseteq pktid, \A f \in pktid : f \in pktid' \/ Unowned(f)
  PROVE  CreditInv'
<1>1. pktid \subseteq Skbs /\ txs \subseteq Skbs /\ cb \in [Skbs -> CbType]
  BY DEF StatusInv, STypeOK, CbType
<1>2. \A f \in Skbs : (Sent(f)' <=> Sent(f)) /\ (Unowned(f) => Unowned(f)')
  BY DEF FramesGrow, SameFrame, Sent, Unowned
<1>3. \A f, g \in pktid' : cb'[f].wcid = cb'[g].wcid /\ cb'[f].pid = cb'[g].pid => f = g
  BY <1>1 DEF StatusInv, CreditInv, FramesGrow, SameFrame
<1>4. \A g \in txs' : Sent(g)' /\ g # reader'.skb /\ (g \in pktid' \/ Unowned(g)')
  BY <1>1, <1>2 DEF StatusInv, CreditInv
<1>5. \A f, g \in Skbs : cb'[f].by = g =>
        Sent(g)' /\ g \notin txs' /\ g # reader'.skb /\ (f # g => Unowned(g)')
  BY <1>2 DEF StatusInv, CreditInv, FramesGrow
<1>6. ASSUME reader # NoRead
      PROVE  /\ reader.skb \in Skbs /\ reader.wcid \in Wcids
             /\ cb'[reader.skb].wcid # Nobody
             /\ \/ cb'[reader.skb].wcid = reader.wcid
                \/ link'[cb'[reader.skb].wcid].at = "gone"
             /\ reader.skb \in pktid' \/ Unowned(reader.skb)
  <2>1. reader.skb \in Skbs /\ reader.wcid \in Wcids /\ Sent(reader.skb)
        /\ (cb[reader.skb].wcid = reader.wcid \/ link[cb[reader.skb].wcid].at = "gone")
        /\ (reader.skb \in pktid \/ Unowned(reader.skb))
    BY <1>6 DEF StatusInv, CreditInv
  <2>2. cb[reader.skb].wcid \in Wcids /\ cb'[reader.skb].wcid = cb[reader.skb].wcid
    BY <1>1, <2>1 DEF Sent, CbType, FramesGrow, SameFrame
  <2> QED
    BY <2>1, <2>2 DEF LinkMoves, Sent
<1>7. reader' = NoRead \/
        /\ reader'.skb \in Skbs /\ reader'.wcid \in Wcids /\ cb'[reader'.skb].wcid # Nobody
        /\ \/ cb'[reader'.skb].wcid = reader'.wcid
           \/ link'[cb'[reader'.skb].wcid].at = "gone"
        /\ \/ reader'.skb \in pktid'
           \/ \E g \in Skbs : g = reader'.skb /\ Unowned(g)'
  BY <1>2, <1>6
<1> QED
  BY <1>3, <1>4, <1>5, <1>7 DEF CreditInv, Sent, Unowned

LEMMA CreditSend ==
  ASSUME StatusInv, sending # NoSend, NEW f, f = sending.skb, NEW w, w = sending.wcid,
         NEW pid \in 0 .. LastPid, Send(f, pid), UNCHANGED <<link, reader, raced>>,
         \/ pid = NoPid /\ pktid' = pktid
         \/ /\ pid # NoPid /\ pktid' = pktid \cup {f}
            /\ \A g \in IdsOf(w) : cb[g].pid # pid
  PROVE  CreditInv'
<1> USE TxStatusAssumption
<1>1. pktid \subseteq Skbs /\ txs \subseteq Skbs /\ cb \in [Skbs -> CbType]
  BY DEF StatusInv, STypeOK, CbType
<1>2. SentNow(pid) /\ txs' = IF pid = NoPid THEN txs ELSE txs \cup {f}
  BY SendFields DEF StatusInv, Send
<1>3. f \in Skbs /\ w \in Wcids /\ ~Sent(f) /\ f \notin pktid
  BY WorkersFrame
<1>4. \A g \in Skbs \ {f} : /\ cb'[g] = cb[g] /\ (Sent(g)' <=> Sent(g))
                            /\ (Unowned(g)' <=> Unowned(g))
  BY <1>2 DEF SentNow, Sent, Unowned
<1>5. cb'[f].wcid = w /\ cb'[f].pid = pid /\ cb'[f].by = Nobody /\ Sent(f)'
  BY <1>2, <1>3 DEF SentNow, Sent
<1>6. f \notin txs /\ f # reader.skb /\ \A g \in Skbs : cb[g].by # f
  BY <1>3 DEF StatusInv, CreditInv, NoRead
<1>7. \A g, h \in pktid' : cb'[g].wcid = cb'[h].wcid /\ cb'[g].pid = cb'[h].pid => g = h
  <2>1. \A g, h \in pktid : cb'[g].wcid = cb'[h].wcid /\ cb'[g].pid = cb'[h].pid => g = h
    BY <1>1, <1>3, <1>4 DEF StatusInv, CreditInv
  <2>2. CASE pktid' = pktid \cup {f} /\ \A g \in IdsOf(w) : cb[g].pid # pid
    <3>1. \A g \in pktid : ~(cb'[g].wcid = w /\ cb'[g].pid = pid)
      BY <1>1, <1>3, <1>4, <2>2 DEF IdsOf
    <3> QED
      BY <1>5, <2>1, <2>2, <3>1
  <2> QED
    BY <2>1, <2>2
<1>8. \A g \in txs' : Sent(g)' /\ g # reader'.skb /\ (g \in pktid' \/ Unowned(g)')
  <2>1. \A g \in txs : Sent(g)' /\ g # reader'.skb /\ (g \in pktid' \/ Unowned(g)')
    BY <1>1, <1>4, <1>6 DEF StatusInv, CreditInv
  <2> QED
    BY <1>2, <1>5, <1>6, <2>1
<1>9. \A h, g \in Skbs : cb'[h].by = g =>
        Sent(g)' /\ g \notin txs' /\ g # reader'.skb /\ (h # g => Unowned(g)')
  <2> SUFFICES ASSUME NEW h \in Skbs, NEW g \in Skbs, cb'[h].by = g
               PROVE  Sent(g)' /\ g \notin txs' /\ g # reader.skb /\ (h # g => Unowned(g)')
    OBVIOUS
  <2>1. cb[h].by = g /\ g # f
    BY <1>4, <1>5, <1>6
  <2> QED
    BY <1>2, <1>4, <2>1 DEF StatusInv, CreditInv
<1>10. reader = NoRead \/
         /\ reader.skb \in Skbs /\ reader.wcid \in Wcids /\ cb'[reader.skb].wcid # Nobody
         /\ \/ cb'[reader.skb].wcid = reader.wcid
            \/ link[cb'[reader.skb].wcid].at = "gone"
         /\ reader.skb \in pktid' \/ \E g \in Skbs : g = reader.skb /\ Unowned(g)'
  <2> SUFFICES ASSUME reader # NoRead
               PROVE  /\ reader.skb \in Skbs /\ reader.wcid \in Wcids
                      /\ cb'[reader.skb].wcid # Nobody
                      /\ \/ cb'[reader.skb].wcid = reader.wcid
                         \/ link[cb'[reader.skb].wcid].at = "gone"
                      /\ reader.skb \in pktid' \/ \E g \in Skbs : g = reader.skb /\ Unowned(g)'
    OBVIOUS
  <2>1. /\ reader.skb \in Skbs /\ reader.wcid \in Wcids /\ Sent(reader.skb)
        /\ (cb[reader.skb].wcid = reader.wcid \/ link[cb[reader.skb].wcid].at = "gone")
        /\ (reader.skb \in pktid \/ Unowned(reader.skb))
    BY DEF StatusInv, CreditInv
  <2>2. cb'[reader.skb] = cb[reader.skb]
    BY <1>4, <1>6, <2>1
  <2> QED
    BY <1>4, <1>6, <2>1, <2>2 DEF Sent
<1> QED
  BY <1>7, <1>8, <1>9, <1>10 DEF CreditInv, Sent, Unowned

LEMMA CreditLook ==
  ASSUME StatusInv, NEW f \in Skbs, TxsLook(f)
  PROVE  CreditInv'
<1> USE TxStatusAssumption
<1>1. pktid \subseteq Skbs /\ txs \subseteq Skbs /\ cb \in [Skbs -> CbType]
  BY DEF StatusInv, STypeOK, CbType
<1> DEFINE w == table[cb[f].idx]
<1>2. /\ f \in txs /\ txs' = txs \ {f} /\ reader = NoRead
      /\ reader' = IF w = Nobody THEN NoRead ELSE [skb |-> f, wcid |-> w]
      /\ UNCHANGED <<link, pktid, cb, raced>>
  BY DEF TxsLook, frameVars
<1>3. Sent(f) /\ (f \in pktid \/ Unowned(f))
  BY <1>2 DEF StatusInv, CreditInv
<1>4. cb[f].wcid \in Wcids /\ cb[f].idx \in Indices
  BY <1>1, <1>3 DEF Sent, CbType
<1>5. /\ link[cb[f].wcid].at # "absent" /\ cb[f].idx = link[cb[f].wcid].idx
  BY <1>3 DEF StatusInv, FrameInv
<1>6. w # Nobody => w \in Wcids /\ (cb[f].wcid = w \/ link[cb[f].wcid].at = "gone")
  <2> HAVE w # Nobody
  <2>1. w \in Wcids /\ link[w].at = "live" /\ link[w].idx = cb[f].idx
    BY <1>4 DEF StatusInv, StationInv, STypeOK
  <2> QED
    BY <1>4, <1>5, <2>1 DEF StatusInv, StationInv, Present
<1>7. \A g \in txs' : g # f /\ g # Nobody
  BY <1>1, <1>2
<1>8. \A h, g \in Skbs : cb[h].by = g => g # f /\ g # Nobody
  BY <1>2 DEF StatusInv, CreditInv
<1> HIDE DEF w
<1>9. reader' = NoRead \/
        /\ reader' = [skb |-> f, wcid |-> w] /\ w \in Wcids
        /\ (cb[f].wcid = w \/ link[cb[f].wcid].at = "gone")
  BY <1>2, <1>6
<1>10. reader'.skb \in {f, Nobody}
  BY <1>9 DEF NoRead
<1>11. \A g \in txs' : Sent(g)' /\ g # reader'.skb /\ (g \in pktid' \/ Unowned(g)')
  BY <1>2, <1>7, <1>10 DEF StatusInv, CreditInv, Sent, Unowned
<1>12. \A h, g \in Skbs : cb'[h].by = g =>
         Sent(g)' /\ g \notin txs' /\ g # reader'.skb /\ (h # g => Unowned(g)')
  BY <1>2, <1>8, <1>10 DEF StatusInv, CreditInv, Sent, Unowned
<1>13. CASE reader' = NoRead
  BY <1>2, <1>11, <1>12, <1>13 DEF StatusInv, CreditInv
<1>14. CASE /\ reader' = [skb |-> f, wcid |-> w] /\ w \in Wcids
            /\ (cb[f].wcid = w \/ link[cb[f].wcid].at = "gone")
  <2>1. reader'.skb = f /\ reader'.wcid = w
    BY <1>14
  <2>2. Sent(f)' /\ (f \in pktid' \/ Unowned(f)')
    BY <1>2, <1>3 DEF Sent, Unowned
  <2>3. Sent(reader.skb)' /\ (reader'.skb \in pktid' \/ Unowned(reader.skb)')
    BY <2>1, <2>2 DEF Sent, Unowned
  <2> QED
    BY <1>2, <1>11, <1>12, <1>14, <2>1, <2>3 DEF StatusInv, CreditInv
<1> QED
  BY <1>9, <1>13, <1>14

LEMMA CreditGiveUp ==
  ASSUME StatusInv, LinkMoves, NEW c \in Contexts, NEW W, NEW F \in SUBSET pktid, GiveUp(c, W, F),
         reader' \in {reader, NoRead}, txs' \subseteq txs, raced \subseteq raced'
  PROVE  CreditInv'
<1> USE TxStatusAssumption
<1>1. pktid \subseteq Skbs /\ txs \subseteq Skbs /\ cb \in [Skbs -> CbType]
  BY DEF StatusInv, STypeOK, CbType
<1>2. Settled(c, F, {"txs", "failed"}, Nobody)
  BY SettleFields DEF StatusInv, GiveUp
<1>3. pktid' = pktid \ F
  BY DEF GiveUp, Settle
<1>4. \A g \in Skbs : (Sent(g)' <=> Sent(g)) /\ (Unowned(g) => Unowned(g)')
  <2> TAKE g \in Skbs
  <2>1. cb'[g].wcid = cb[g].wcid
    BY <1>2 DEF Settled, SameFrame
  <2>2. CASE g \in F
    BY <1>2, <2>1, <2>2 DEF Settled, Sent, Unowned
  <2>3. CASE g \notin F
    <3>1. cb'[g] = cb[g]
      BY <1>2, <2>3 DEF Settled
    <3> QED
      BY <3>1 DEF Sent, Unowned
  <2> QED
    BY <2>2, <2>3
<1>5. \A g \in F : Unowned(g)'
  BY <1>2 DEF Settled, Unowned
<1>6. \A g, h \in pktid' : cb'[g].wcid = cb'[h].wcid /\ cb'[g].pid = cb'[h].pid => g = h
  BY <1>1, <1>2, <1>3 DEF StatusInv, CreditInv, Settled, SameFrame
<1>7. \A g \in Skbs : g # NoRead.skb
  BY DEF NoRead
<1>8. \A g \in txs' : Sent(g)' /\ g # reader'.skb /\ (g \in pktid' \/ Unowned(g)')
  BY <1>1, <1>3, <1>4, <1>5, <1>7 DEF StatusInv, CreditInv
<1>9. \A h, g \in Skbs : cb'[h].by = g =>
        Sent(g)' /\ g \notin txs' /\ g # reader'.skb /\ (h # g => Unowned(g)')
  <2> SUFFICES ASSUME NEW h \in Skbs, NEW g \in Skbs, cb'[h].by = g
               PROVE  Sent(g)' /\ g \notin txs' /\ g # reader'.skb /\ (h # g => Unowned(g)')
    OBVIOUS
  <2>1. h \notin F /\ cb[h].by = g
    BY <1>2 DEF Settled
  <2> QED
    BY <1>4, <1>7, <2>1 DEF StatusInv, CreditInv
<1>10. CASE reader' = NoRead
  BY <1>6, <1>8, <1>9, <1>10 DEF CreditInv
<1>11. CASE reader' = reader /\ reader # NoRead
  <2>1. /\ reader.skb \in Skbs /\ reader.wcid \in Wcids /\ Sent(reader.skb)
        /\ (cb[reader.skb].wcid = reader.wcid \/ link[cb[reader.skb].wcid].at = "gone")
        /\ (reader.skb \in pktid \/ Unowned(reader.skb))
    BY <1>11 DEF StatusInv, CreditInv
  <2>2. cb[reader.skb].wcid \in Wcids /\ cb'[reader.skb].wcid = cb[reader.skb].wcid
    BY <1>1, <1>2, <2>1 DEF Sent, CbType, Settled, SameFrame
  <2>3. reader.skb \in pktid' \/ \E g \in Skbs : g = reader.skb /\ Unowned(g)'
    BY <1>3, <1>4, <1>5, <2>1
  <2>4. /\ cb'[reader.skb].wcid = reader.wcid \/ link'[cb'[reader.skb].wcid].at = "gone"
        /\ cb'[reader.skb].wcid # Nobody
    BY <2>1, <2>2 DEF LinkMoves, Sent
  <2> QED
    BY <1>6, <1>8, <1>9, <1>11, <2>1, <2>3, <2>4 DEF CreditInv, Sent, Unowned
<1> QED
  BY <1>10, <1>11

LEMMA CreditHit ==
  ASSUME StatusInv, NEW f \in pktid, NEW r, r = reader.skb, TxsHit(f)
  PROVE  CreditInv'
<1> USE TxStatusAssumption
<1>1. pktid \subseteq Skbs /\ txs \subseteq Skbs /\ cb \in [Skbs -> CbType]
  BY DEF StatusInv, STypeOK, CbType
<1>2. /\ reader # NoRead /\ cb[f].wcid = reader.wcid /\ cb[f].pid = cb[r].pid
      /\ Settle("txs", {reader.wcid}, {f}, {"txs"}, r) /\ reader' = NoRead
      /\ UNCHANGED <<link, txs, raced>>
  BY DEF TxsHit, IdsOf
<1>3. /\ r \in Skbs /\ Sent(r) /\ (cb[r].wcid = reader.wcid \/ link[cb[r].wcid].at = "gone")
      /\ (r \in pktid \/ Unowned(r))
  BY <1>2 DEF StatusInv, CreditInv
<1>4. r \notin txs /\ \A g \in Skbs : cb[g].by # r
  BY <1>3 DEF StatusInv, CreditInv
<1>5. Settled("txs", {f}, {"txs"}, r) /\ pktid' = pktid \ {f}
  BY <1>2, <1>3, SettleFields DEF StatusInv, Settle, Contexts
<1>6. /\ \A g \in Skbs : cb'[g].wcid = cb[g].wcid /\ cb'[g].pid = cb[g].pid
      /\ \A g \in Skbs \ {f} : cb'[g] = cb[g]
      /\ cb'[f].flags = cb[f].flags \cup {"txs"} /\ cb'[f].by = r
  BY <1>5 DEF Settled, SameFrame
<1>7. \A g \in Skbs : Sent(g)' <=> Sent(g)
  BY <1>6 DEF Sent
<1>8. \A g \in Skbs \ {r} : Unowned(g) => Unowned(g)'
  <2> TAKE g \in Skbs \ {r}
  <2>1. CASE g = f
    BY <1>2, <1>3, <1>6, <2>1 DEF Unowned
  <2>2. CASE g # f
    BY <1>2, <1>6, <2>2 DEF Unowned
  <2> QED
    BY <2>1, <2>2
<1>9. f # r => Unowned(f)'
  BY <1>3, <1>6 DEF Unowned
<1>10. f # r => Unowned(r)'
  <2> HAVE f # r
  <2>1. cb'[r] = cb[r]
    BY <1>3, <1>6
  <2>2. CASE Unowned(r)
    BY <1>2, <2>1, <2>2 DEF Unowned
  <2>3. CASE r \in pktid
    <3>1. cb[r].wcid # cb[f].wcid
      BY <1>2, <2>3 DEF StatusInv, CreditInv
    <3>2. link[cb[r].wcid].at = "gone"
      BY <1>2, <1>3, <3>1
    <3>3. cb[r].wcid \in Wcids /\ r \in IdsOf(cb[r].wcid)
      BY <1>1, <1>3, <2>3 DEF Sent, CbType, IdsOf
    <3>4. cb[r].wcid \in raced
      BY <3>2, <3>3 DEF StatusInv, WatchInv
    <3> QED
      BY <1>2, <2>1, <3>4 DEF Unowned
  <2> QED
    BY <1>3, <2>2, <2>3
<1>11. \A g, h \in pktid' : cb'[g].wcid = cb'[h].wcid /\ cb'[g].pid = cb'[h].pid => g = h
  BY <1>1, <1>5, <1>6 DEF StatusInv, CreditInv
<1>12. \A g \in Skbs : g # NoRead.skb
  BY DEF NoRead
<1>13. \A g \in txs' : Sent(g)' /\ g # reader'.skb /\ (g \in pktid' \/ Unowned(g)')
  BY <1>1, <1>2, <1>4, <1>5, <1>7, <1>8, <1>9, <1>12 DEF StatusInv, CreditInv
<1>14. \A h, g \in Skbs : cb'[h].by = g =>
         Sent(g)' /\ g \notin txs' /\ g # reader'.skb /\ (h # g => Unowned(g)')
  <2> SUFFICES ASSUME NEW h \in Skbs, NEW g \in Skbs, cb'[h].by = g
               PROVE  Sent(g)' /\ g \notin txs' /\ g # reader'.skb /\ (h # g => Unowned(g)')
    OBVIOUS
  <2>1. CASE h = f
    BY <1>2, <1>3, <1>4, <1>6, <1>7, <1>10, <1>12, <2>1
  <2>2. CASE h # f
    <3>1. cb[h].by = g /\ g # r
      BY <1>4, <1>6, <2>2
    <3> QED
      BY <1>2, <1>7, <1>8, <1>12, <3>1 DEF StatusInv, CreditInv
  <2> QED
    BY <2>1, <2>2
<1> QED
  BY <1>2, <1>11, <1>13, <1>14 DEF CreditInv

-----------------------------------------------------------------------------
(* Every step keeps the invariant.                                         *)

LEMMA StationKeeps == ASSUME StatusInv, NEW w \in Wcids, StationNext(w) PROVE StatusInv'
<1>1. /\ StationInv' /\ LinkMoves
      /\ UNCHANGED <<sending, chip, txs, reader, given, recovery, recoveries>>
      /\ link' \in [Wcids -> [at : {"absent", "live", "hidden", "quiet", "bare", "flushed", "wiped", "gone"},
                              idx : Indices]]
      /\ table' \in [Indices -> Wcids \cup {Nobody}] /\ mask' \subseteq Indices
      /\ raced \subseteq raced' /\ raced' \subseteq Wcids
  BY StationStep DEF StatusInv
<1>2. WorkerInv'
  BY WorkerStation
<1>3. CASE CleanupFlush(w)
  <2>1. /\ IdsOf(w) \in SUBSET pktid /\ "admin" \in Contexts /\ raced' = raced
        /\ GiveUp("admin", {w}, IdsOf(w)) /\ link' = [link EXCEPT ![w].at = "flushed"]
    BY <1>3 DEF CleanupFlush, IdsOf, Contexts
  <2>2. FrameInv' /\ CreditInv'
    BY <1>1, <2>1, FrameSettle, CreditGiveUp DEF GiveUp
  <2>3. \A v \in Wcids : link'[v].at \in {"flushed", "wiped", "gone"} =>
          link[v].at \in {"flushed", "wiped", "gone"} \/ IdsOf(v) \subseteq IdsOf(w)
    BY <2>1 DEF StatusInv, STypeOK
  <2>4. \A f \in IdsOf(w) : cb[f].wcid \in {w}
    BY DEF IdsOf
  <2>5. WatchInv'
    BY <2>1, <2>3, <2>4, WatchSettle DEF GiveUp
  <2>6. cb' \in [Skbs -> CbType] /\ done' \in [Contexts -> SUBSET Skbs]
    BY <2>1, SettleFields DEF StatusInv, GiveUp, Settled
  <2>7. pktid' \subseteq pktid /\ wcidList' \subseteq wcidList
    BY <2>1 DEF GiveUp, Settle
  <2>8. STypeOK'
    BY <1>1, <2>6, <2>7 DEF StatusInv, STypeOK, CbType
  <2> QED
    BY <1>1, <1>2, <2>2, <2>5, <2>8 DEF StatusInv
<1>4. CASE IdrDestroy(w)
  <2>1. /\ UNCHANGED <<wcidList, cb, done, raced>>
        /\ pktid' = pktid \ IdsOf(w) /\ link[w].at = "flushed"
        /\ link' = [link EXCEPT ![w].at = "wiped"]
    BY <1>4 DEF IdrDestroy
  <2>2. \A f \in IdsOf(w) : cb[f].wcid = w /\ w \in raced
    BY <2>1 DEF IdsOf, StatusInv, WatchInv
  <2>3. pktid' \subseteq pktid /\ \A f \in pktid : f \in pktid' \/ Unowned(f)
    BY <2>1, <2>2 DEF Unowned
  <2>4. FramesGrow
    BY <2>1 DEF FramesGrow, SameFrame
  <2>5. FrameInv' /\ CreditInv'
    BY <1>1, <2>1, <2>3, <2>4, FrameSame, CreditSame
  <2>6. WatchInv'
    <3>1. \A v \in Wcids : IdsOf(v)' = IF v = w THEN {} ELSE IdsOf(v)
      BY <2>1 DEF IdsOf
    <3>2. \A v \in Wcids \ {w} : link'[v] = link[v]
      BY <2>1, LinkFields
    <3>3. w \notin raced => IdsOf(w) = {}
      BY <2>2
    <3> QED
      BY <2>1, <3>1, <3>2, <3>3 DEF StatusInv, WatchInv
  <2>7. STypeOK'
    BY <1>1, <2>1, <2>3 DEF StatusInv, STypeOK
  <2> QED
    BY <1>1, <1>2, <2>5, <2>6, <2>7 DEF StatusInv
<1>5. CASE Add(w) \/ PreRcuRemove(w) \/ GracePeriod(w) \/ LinkBssRemove(w) \/ CleanupDone(w)
  <2>1. UNCHANGED frameVars
    BY <1>5 DEF Add, PreRcuRemove, GracePeriod, LinkBssRemove, CleanupDone
  <2>2. \A v \in Wcids : link'[v].at \in {"flushed", "wiped", "gone"} =>
          link[v].at \in {"flushed", "wiped", "gone"}
    BY <1>5 DEF Add, PreRcuRemove, GracePeriod, LinkBssRemove, CleanupDone, StatusInv, STypeOK
  <2>3. FramesGrow
    BY <1>1, <2>1 DEF frameVars, FramesGrow, SameFrame
  <2>4. FrameInv' /\ WatchInv' /\ CreditInv'
    BY <1>1, <2>1, <2>2, <2>3, FrameSame, WatchSame, CreditSame DEF frameVars
  <2>5. STypeOK'
    BY <1>1, <2>1 DEF StatusInv, STypeOK, frameVars
  <2> QED
    BY <1>1, <1>2, <2>4, <2>5 DEF StatusInv
<1> QED
  BY <1>3, <1>4, <1>5 DEF StationNext

\* What the steps of all but the stations have in common.
LEMMA FrameCommon ==
  ASSUME StatusInv, FrameNext
  PROVE  /\ STypeOK' /\ StationInv' /\ LinkMoves /\ link' = link
         /\ \A v \in Wcids : link'[v].at \in {"flushed", "wiped", "gone"} =>
                             link[v].at \in {"flushed", "wiped", "gone"}
<1>1. UNCHANGED <<link, table, mask>>
  BY FrameNextKeepsStations
<1> QED
  BY <1>1, FrameTypes DEF StatusInv, StationInv, Present, LinkMoves

LEMMA SettleKeeps ==
  ASSUME StatusInv, FrameNext, NEW c \in Contexts, NEW W, NEW F \in SUBSET pktid,
         \A f \in F : cb[f].wcid \in W, GiveUp(c, W, F),
         reader' \in {reader, NoRead}, txs' \subseteq txs,
         UNCHANGED <<sending, chip, given, raced>>
  PROVE  StatusInv'
<1>1. STypeOK' /\ StationInv' /\ LinkMoves /\ link' = link
  BY FrameCommon
<1>2. FrameInv' /\ CreditInv'
  BY <1>1, FrameSettle, CreditGiveUp DEF GiveUp
<1>3. WatchInv'
  BY <1>1, WatchSettle DEF GiveUp
<1>4. sending # NoSend => cb'[sending.skb] = Unsent
  BY WorkerSettle DEF GiveUp
<1>5. WorkerInv'
  BY <1>1, <1>4, WorkerStays, WorkersFrame
<1> QED
  BY <1>1, <1>2, <1>3, <1>5 DEF StatusInv

LEMMA CompleteKeeps ==
  ASSUME StatusInv, FrameNext, NEW c \in Contexts, NEW f \in chip, Complete(c, f),
         UNCHANGED <<sending, txs, reader, given, raced>>
  PROVE  StatusInv'
<1>1. STypeOK' /\ StationInv' /\ LinkMoves /\ link' = link
  BY FrameCommon
<1>2. Completed(c, f) /\ UNCHANGED <<pktid, wcidList>>
  BY CompleteFields DEF StatusInv, Complete
<1>3. pktid \subseteq Skbs /\ f \in Skbs
  BY DEF StatusInv, STypeOK
<1>4. \A g \in Skbs : SameFrame(g) /\ cb'[g].by = cb[g].by /\ cb[g].flags \subseteq cb'[g].flags
  BY <1>2, <1>3 DEF Completed
<1>5. WatchInv'
  BY <1>1, <1>2, <1>3, <1>4, WatchSame DEF SameFrame
<1>6. CreditInv'
  BY <1>1, <1>2, <1>4, CreditSame DEF FramesGrow
<1>7. sending # NoSend => cb'[sending.skb] = Unsent /\ sending.skb \notin given'
  BY <1>2, WorkersFrame DEF Completed
<1>8. WorkerInv'
  BY <1>1, <1>7, WorkerStays
<1>9. FrameInv'
  BY <1>1, FrameComplete
<1> QED
  BY <1>1, <1>5, <1>6, <1>8, <1>9 DEF StatusInv

LEMMA QuietKeeps ==
  ASSUME StatusInv, FrameNext, UNCHANGED <<frameVars, sending, chip, reader, given, raced>>,
         txs' \subseteq txs
  PROVE  StatusInv'
<1>1. STypeOK' /\ StationInv' /\ LinkMoves /\ link' = link
  BY FrameCommon
<1>2. FrameInv' /\ WatchInv'
  BY <1>1, FrameSame, WatchSame DEF frameVars
<1>3. CreditInv'
  BY <1>1, CreditSame DEF frameVars, FramesGrow, SameFrame
<1>4. WorkerInv'
  BY <1>1, WorkerStays, WorkersFrame DEF frameVars
<1> QED
  BY <1>1, <1>2, <1>3, <1>4 DEF StatusInv

LEMMA SendKeeps ==
  ASSUME StatusInv, FrameNext, sending # NoSend, NEW f, f = sending.skb, NEW w, w = sending.wcid,
         NEW pid \in 0 .. LastPid, Send(f, pid), UNCHANGED <<done, reader, given, raced>>,
         \/ pid = NoPid /\ UNCHANGED <<pktid, wcidList>>
         \/ /\ pid # NoPid /\ pktid' = pktid \cup {f} /\ wcidList' = wcidList \cup {w}
            /\ \A g \in IdsOf(w) : cb[g].pid # pid
            /\ w \in raced \/ link[w].at \in {"live", "hidden"}
  PROVE  StatusInv'
<1>1. STypeOK' /\ StationInv' /\ LinkMoves /\ link' = link
  BY FrameCommon
<1>2. FrameInv'
  BY <1>1, FrameSend
<1>3. WatchInv'
  BY <1>1, WatchSend
<1>4. CreditInv'
  BY <1>1, CreditSend
<1>5. WorkerInv'
  BY DEF Send, WorkerInv, NoSend
<1> QED
  BY <1>1, <1>2, <1>3, <1>4, <1>5 DEF StatusInv

LEMMA WorkerKeeps ==
  ASSUME StatusInv, (\E f \in Skbs, w \in Wcids : TxPick(f, w)) \/ TxNext
  PROVE  StatusInv'
<1> USE TxStatusAssumption
<1>0. FrameNext /\ WorkerInv'
  BY WorkerTakes DEF FrameNext
<1>1. STypeOK' /\ StationInv' /\ LinkMoves /\ link' = link
  BY <1>0, FrameCommon
<1>2. CASE (\E f \in Skbs, w \in Wcids : TxPick(f, w)) \/ TxCheck
  <2>1. UNCHANGED <<frameVars, chip, txs, reader, given>> /\ raced \subseteq raced'
    BY <1>2 DEF TxPick, TxCheck
  <2>2. FrameInv' /\ WatchInv'
    BY <1>1, <2>1, FrameSame, WatchSame DEF frameVars
  <2>3. CreditInv'
    BY <1>1, <2>1, CreditSame DEF frameVars, FramesGrow, SameFrame
  <2> QED
    BY <1>0, <1>1, <2>2, <2>3 DEF StatusInv
<1>3. CASE TxRefuse
  <2>1. UNCHANGED <<frameVars, chip, txs, reader, raced>>
    BY <1>3 DEF TxRefuse
  <2>2. WatchInv'
    BY <1>1, <2>1, WatchSame DEF frameVars
  <2>3. CreditInv'
    BY <1>1, <2>1, CreditSame DEF frameVars, FramesGrow, SameFrame
  <2> QED
    BY <1>0, <1>1, <1>3, <2>2, <2>3, FrameRefuse DEF StatusInv
<1>4. ASSUME Send(sending.skb, NoPid), sending.pc # "idle",
             UNCHANGED <<pktid, wcidList, done, reader, given, raced>>
      PROVE  StatusInv'
  BY <1>0, <1>4, SendKeeps DEF NoSend, NoPid
<1>5. CASE TxUnknown
  BY <1>4, <1>5 DEF TxUnknown
<1>6. CASE TxAdd
  <2> DEFINE free == Pids \ {cb[g].pid : g \in IdsOf(sending.wcid)}
  <2>1. CASE Send(sending.skb, NoPid) /\ UNCHANGED <<pktid, wcidList>>
    BY <1>4, <1>6, <2>1 DEF TxAdd
  <2>2. ASSUME NEW pid \in Lowest(free), Send(sending.skb, pid),
               pktid' = pktid \cup {sending.skb}, wcidList' = wcidList \cup {sending.wcid}
        PROVE  StatusInv'
    <3>1. pid \in 0 .. LastPid /\ pid # NoPid /\ \A g \in IdsOf(sending.wcid) : cb[g].pid # pid
      BY <2>2 DEF Lowest, Pids, NoPid
    <3>2. sending # NoSend /\ sending.pc = "add"
      BY <1>6 DEF TxAdd, NoSend
    <3>3. sending.wcid \in raced \/ link[sending.wcid].at \in {"live", "hidden"}
      BY <3>2 DEF StatusInv, WorkerInv
    <3> QED
      BY <1>0, <1>6, <2>2, <3>1, <3>2, <3>3, SendKeeps DEF TxAdd
  <2> QED
    BY <1>6, <2>1, <2>2 DEF TxAdd
<1> QED
  BY <1>2, <1>3, <1>5, <1>6 DEF TxNext

LEMMA HitKeeps == ASSUME StatusInv, NEW f \in pktid, TxsHit(f) PROVE StatusInv'
<1>0. FrameNext
  BY DEF FrameNext, ReaderNext
<1>1. STypeOK' /\ StationInv' /\ LinkMoves /\ link' = link
  BY <1>0, FrameCommon
<1>2. /\ reader # NoRead /\ cb[f].wcid = reader.wcid
      /\ Settle("txs", {reader.wcid}, {f}, {"txs"}, reader.skb)
      /\ UNCHANGED <<sending, chip, txs, given, raced>>
  BY DEF TxsHit, IdsOf
<1>3. "txs" \in Contexts /\ reader.skb \in Skbs \cup {Nobody}
  BY DEF StatusInv, STypeOK, Contexts
<1>4. FrameInv'
  BY <1>1, <1>2, <1>3, FrameSettle
<1>5. WatchInv'
  BY <1>1, <1>2, <1>3, WatchSettle
<1>6. CreditInv'
  BY CreditHit
<1>7. sending # NoSend => cb'[sending.skb] = Unsent
  BY <1>2, <1>3, WorkerSettle
<1>8. WorkerInv'
  BY <1>1, <1>2, <1>7, WorkerStays, WorkersFrame
<1> QED
  BY <1>1, <1>4, <1>5, <1>6, <1>8 DEF StatusInv

LEMMA LookKeeps == ASSUME StatusInv, NEW f \in Skbs, TxsLook(f) PROVE StatusInv'
<1>0. FrameNext
  BY DEF FrameNext
<1>1. STypeOK' /\ StationInv' /\ LinkMoves /\ link' = link
  BY <1>0, FrameCommon
<1>2. UNCHANGED <<frameVars, sending, chip, given, raced>>
  BY DEF TxsLook
<1>3. FrameInv' /\ WatchInv'
  BY <1>1, <1>2, FrameSame, WatchSame DEF frameVars
<1>4. WorkerInv'
  BY <1>1, <1>2, WorkerStays, WorkersFrame DEF frameVars
<1> QED
  BY <1>1, <1>3, <1>4, CreditLook DEF StatusInv

LEMMA ReportKeeps ==
  ASSUME StatusInv, NEW c \in Contexts, NEW f \in Skbs, Report(c, f)
  PROVE  StatusInv'
<1>0. FrameNext
  BY DEF FrameNext, Reports
<1>1. STypeOK' /\ StationInv' /\ LinkMoves /\ link' = link
  BY <1>0, FrameCommon
<1>2. /\ Reported(c, f) /\ given' = given \cup {f} /\ f \in done[c]
      /\ UNCHANGED <<pktid, wcidList, sending, txs, reader, raced>>
  BY ReportFields DEF StatusInv, Report
<1>3. pktid \subseteq Skbs
  BY DEF StatusInv, STypeOK
<1>4. WatchInv'
  BY <1>1, <1>2, <1>3, WatchSame DEF Reported, SameFrame
<1>5. CreditInv'
  BY <1>1, <1>2, CreditSame DEF Reported, FramesGrow
<1>6. sending # NoSend => cb'[sending.skb] = Unsent /\ sending.skb \notin given'
  BY <1>2, WorkersFrame DEF Reported
<1>7. WorkerInv'
  BY <1>1, <1>2, <1>6, WorkerStays
<1> QED
  BY <1>1, <1>4, <1>5, <1>7, FrameReport DEF StatusInv

LEMMA StatusStep == StatusInv /\ [SNext]_svars => StatusInv'
<1> SUFFICES ASSUME StatusInv, [SNext]_svars PROVE StatusInv'
  OBVIOUS
<1>1. CASE UNCHANGED svars
  BY <1>1 DEF svars, frameVars, StatusInv, STypeOK, StationInv, FrameInv, WorkerInv, WatchInv,
              CreditInv, Present, Sent, Handed, IdsOf, Unowned
<1>2. CASE (\E f \in Skbs, w \in Wcids : TxPick(f, w)) \/ TxNext
  BY <1>2, WorkerKeeps
<1>3. CASE ReaderNext
  <2>1. ASSUME NEW F \in SUBSET Overdue, TxsMiss(F) PROVE StatusInv'
    <3>1. F \in SUBSET pktid /\ "txs" \in Contexts /\ \A f \in F : cb[f].wcid \in {reader.wcid}
      BY <2>1 DEF Overdue, Waiting, Contexts, TxsMiss, IdsOf
    <3>2. FrameNext
      BY <1>3 DEF FrameNext
    <3> QED
      BY <2>1, <3>1, <3>2, SettleKeeps DEF TxsMiss
  <2> QED
    BY <1>3, <2>1, HitKeeps DEF ReaderNext
<1>4. CASE Reports
  BY <1>4, ReportKeeps DEF Reports
<1>5. ASSUME NEW f \in Skbs, TxFree(f) \/ TxsLost(f) \/ TxsLook(f) PROVE StatusInv'
  <2>1. FrameNext
    BY <1>5 DEF FrameNext
  <2>2. CASE TxFree(f)
    BY <2>1, <2>2, CompleteKeeps DEF TxFree, Contexts
  <2>3. CASE TxsLost(f)
    BY <2>1, <2>3, QuietKeeps DEF TxsLost
  <2>4. CASE TxsLook(f)
    BY <2>4, LookKeeps
  <2> QED
    BY <1>5, <2>2, <2>3, <2>4
<1>6. ASSUME NEW F \in SUBSET Overdue, Check(F) PROVE StatusInv'
  <2>1. F \in SUBSET pktid /\ "check" \in Contexts /\ \A f \in F : cb[f].wcid \in wcidList
    BY DEF Overdue, Waiting, Contexts
  <2>2. FrameNext
    BY <1>6 DEF FrameNext
  <2> QED
    BY <1>6, <2>1, <2>2, SettleKeeps DEF Check
<1>7. ASSUME NEW w \in Wcids, StationNext(w) PROVE StatusInv'
  BY <1>7, StationKeeps
<1>8. CASE ResetStart \/ RecoveryNext
  <2>1. FrameNext
    BY <1>8 DEF FrameNext
  <2>2. CASE ResetStart \/ ResetStopped \/ ResetFails \/ ResetEnds
    BY <2>1, <2>2, QuietKeeps DEF ResetStart, ResetStopped, ResetFails, ResetEnds
  <2>3. ASSUME NEW f \in chip, ResetToken(f) PROVE StatusInv'
    BY <2>1, <2>3, CompleteKeeps DEF ResetToken, Contexts
  <2>4. CASE ResetFlushed
    <3>1. Waiting \in SUBSET pktid /\ "admin" \in Contexts /\ \A f \in Waiting : cb[f].wcid \in wcidList
      BY DEF Waiting, Contexts
    <3> QED
      BY <2>1, <2>4, <3>1, SettleKeeps DEF ResetFlushed
  <2> QED
    BY <1>8, <2>2, <2>3, <2>4 DEF RecoveryNext
<1> QED
  BY <1>1, <1>2, <1>3, <1>4, <1>5, <1>6, <1>7, <1>8 DEF SNext

LEMMA StatusInit == SInit => StatusInv
<1> SUFFICES ASSUME SInit PROVE StatusInv
  OBVIOUS
<1> USE TxStatusAssumption DEF SInit
<1>1. 0 \in Indices
  BY DEF Indices
<1>2. \A f \in Skbs : cb[f] = Unsent /\ cb[f].wcid = Nobody /\ cb[f].by = Nobody
  BY DEF Unsent
<1>3. STypeOK
  <2>1. cb \in [Skbs -> CbType]
    BY <1>1 DEF Unsent, NoPid, CbType
  <2>2. link \in [Wcids -> [at : {"absent", "live", "hidden", "quiet", "bare", "flushed", "wiped", "gone"},
                            idx : Indices]]
    BY <1>1
  <2> QED
    BY <2>1, <2>2 DEF STypeOK, NoSend, NoRead, CbType
<1>4. StationInv
  BY DEF StationInv, Present
<1>5. FrameInv
  BY <1>2 DEF FrameInv, Sent, Handed
<1>6. WorkerInv
  BY DEF WorkerInv, NoSend
<1>7. WatchInv
  BY DEF WatchInv, IdsOf
<1>8. CreditInv
  BY <1>2 DEF CreditInv
<1> QED
  BY <1>3, <1>4, <1>5, <1>6, <1>7, <1>8 DEF StatusInv

\* The inductive invariant of TxStatus.
THEOREM StatusInvariance == SSpec => []StatusInv
  BY StatusInit, StatusStep, PTL DEF SSpec

\* The variables of TxStatus keep their types.
THEOREM StatusTypes == SSpec => []STypeOK
<1>1. StatusInv => STypeOK
  BY DEF StatusInv
<1> QED
  BY <1>1, StatusInvariance, PTL

\* GivenIsGone: for any number of frames, stations, ids and resets, no frame
\* is given back to mac80211 twice or while an id or the chip still has it.
THEOREM GivenOnce == SSpec => []GivenIsGone
<1>1. StatusInv => GivenIsGone
  BY DEF StatusInv, STypeOK, FrameInv, Handed, GivenIsGone
<1> QED
  BY <1>1, StatusInvariance, PTL

\* wcid_list holds every station with ids, so that checks, flushes and a reset find
\* them (mt76_tx_status_skb_add, mt76_wcid_cleanup); it holds no others, and a removed
\* station has no ids, unless the worker added to it behind the flush, where
\* idr_destroy wipes the ids and leaves the entry.
THEOREM NoIdIsForgotten == SSpec => []IdsAreWatched
<1>1. StatusInv => IdsAreWatched
  BY DEF StatusInv, WatchInv, IdsAreWatched
<1> QED
  BY <1>1, StatusInvariance, PTL

\* ReportIsOwn: a report is credited to a wrong frame, and a frame to a wrong
\* station, only in the cases that are named.
THEOREM CreditsAreOwn == SSpec => []ReportIsOwn
<1>1. StatusInv => ReportIsOwn
  BY DEF StatusInv, FrameInv, CreditInv, Unowned, Sent, ReportIsOwn
<1> QED
  BY <1>1, StatusInvariance, PTL

-----------------------------------------------------------------------------
(* Who has a frame.                                                        *)

\* The converse of FrameInv, flag by flag: without its token a frame is DMA_DONE,
\* without its id its report was found or given up, or the id was destroyed with a
\* raced station, and whoever lacks neither has been handed over.
Accounted(f) ==
  /\ f \in chip \/ "dma" \in cb[f].flags
  /\ f \in pktid \/ cb[f].pid = NoPid \/ "txs" \in cb[f].flags \/ cb[f].wcid \in raced
  /\ "dma" \in cb[f].flags /\ (cb[f].pid = NoPid \/ "txs" \in cb[f].flags) => Handed(f)

AccountInv == \A f \in Skbs : Sent(f) => Accounted(f)

\* A frame that was sent is with the chip, or waits for its report where checks
\* and flushes come by, or is being handed over, or mac80211 has it back; or its id
\* was wiped with its removed station.
FrameHasOwner ==
  \A f \in Skbs : Sent(f) =>
    f \in chip \/ (f \in pktid /\ cb[f].wcid \in wcidList) \/ Handed(f) \/ Forgotten(f)

LEMMA AccountSame ==
  ASSUME AccountInv, UNCHANGED <<cb, done, chip>>, given \subseteq given', raced \subseteq raced',
         \A f \in pktid : f \in pktid' \/ cb[f].wcid \in raced
  PROVE  AccountInv'
  BY DEF AccountInv, Accounted, Sent, Handed

LEMMA AccountSettle ==
  ASSUME StatusInv, AccountInv, NEW c \in Contexts, NEW W, NEW F \in SUBSET pktid,
         NEW flags \in SUBSET {"txs", "failed"}, "txs" \in flags,
         NEW by \in Skbs \cup {Nobody}, Settle(c, W, F, flags, by),
         UNCHANGED <<chip, given, raced>>
  PROVE  AccountInv'
<1>0. Settled(c, F, flags, by)
  BY SettleFields DEF StatusInv
<1>1. Settled(c, F, flags, by) /\ pktid' = pktid \ F
  BY <1>0 DEF Settle
<1>2. SUFFICES ASSUME NEW f \in Skbs, Sent(f) PROVE Accounted(f)'
  BY <1>1 DEF AccountInv, Settled, SameFrame, Sent
<1>3. Accounted(f)
  BY <1>2 DEF AccountInv
<1>4. Handed(f) => Handed(f)'
  BY <1>1 DEF Settled, Handed
<1>5. CASE f \in F
  <2>1. cb'[f].flags = cb[f].flags \cup flags /\ cb'[f].pid = cb[f].pid
    BY <1>1, <1>5 DEF Settled, SameFrame
  <2>2. "dma" \in cb[f].flags => Handed(f)'
    BY <1>1, <1>5 DEF Settled, Handed
  <2> QED
    BY <1>3, <2>1, <2>2 DEF Accounted
<1>6. CASE f \notin F
  <2>1. cb'[f] = cb[f] /\ (f \in pktid' <=> f \in pktid)
    BY <1>1, <1>6 DEF Settled
  <2> QED
    BY <1>3, <1>4, <2>1 DEF Accounted
<1> QED
  BY <1>5, <1>6

LEMMA AccountGiveUp ==
  ASSUME StatusInv, AccountInv, NEW c \in Contexts, NEW W, NEW F \in SUBSET pktid,
         GiveUp(c, W, F), UNCHANGED <<chip, given, raced>>
  PROVE  AccountInv'
  BY AccountSettle DEF GiveUp

LEMMA AccountComplete ==
  ASSUME StatusInv, AccountInv, NEW c \in Contexts, NEW f \in chip, Complete(c, f),
         UNCHANGED <<given, raced>>
  PROVE  AccountInv'
<1>1. Completed(c, f) /\ chip' = chip \ {f} /\ pktid' = pktid /\ f \in Skbs
  BY CompleteFields DEF StatusInv, STypeOK, Complete
<1>2. SUFFICES ASSUME NEW g \in Skbs, Sent(g) PROVE Accounted(g)'
  BY <1>1 DEF AccountInv, Completed, SameFrame, Sent
<1>3. Accounted(g)
  BY <1>2 DEF AccountInv
<1>4. Handed(g) => Handed(g)'
  BY <1>1 DEF Completed, Handed
<1>5. CASE g = f
  <2>1. /\ cb'[f].flags = cb[f].flags \cup {"dma"}
        /\ cb'[f].pid = cb[f].pid /\ cb'[f].wcid = cb[f].wcid
    BY <1>1 DEF Completed, SameFrame
  <2>2. cb[f].pid = NoPid \/ "txs" \in cb[f].flags => Handed(f)'
    <3> SUFFICES ASSUME cb[f].pid = NoPid \/ "txs" \in cb[f].flags PROVE f \in done'[c]
      BY DEF Handed
    <3>1. done' = [done EXCEPT ![c] = @ \cup {f}] /\ done \in [Contexts -> SUBSET Skbs]
      BY DEF Complete, StatusInv, STypeOK
    <3> QED
      BY <3>1
  <2> QED
    BY <1>1, <1>3, <1>5, <2>1, <2>2 DEF Accounted
<1>6. CASE g # f
  <2>1. cb'[g] = cb[g] /\ (g \in chip' <=> g \in chip)
    BY <1>1, <1>6 DEF Completed
  <2> QED
    BY <1>1, <1>3, <1>4, <2>1 DEF Accounted
<1> QED
  BY <1>5, <1>6

LEMMA AccountSend ==
  ASSUME StatusInv, AccountInv, sending # NoSend, NEW pid \in 0 .. LastPid,
         Send(sending.skb, pid), UNCHANGED <<done, given, raced>>,
         \/ pid = NoPid /\ UNCHANGED pktid
         \/ pktid' = pktid \cup {sending.skb}
  PROVE  AccountInv'
<1>0. SentNow(pid)
  BY SendFields DEF StatusInv
<1>1. SentNow(pid) /\ chip' = chip \cup {sending.skb}
  BY <1>0 DEF Send
<1>2. SUFFICES ASSUME NEW f \in Skbs, Sent(f)' PROVE Accounted(f)'
  BY DEF AccountInv
<1>3. CASE f = sending.skb
  BY <1>1, <1>3 DEF SentNow, Accounted
<1>4. CASE f # sending.skb
  <2>1. cb'[f] = cb[f] /\ (f \in chip' <=> f \in chip) /\ (f \in pktid' <=> f \in pktid)
    BY <1>1, <1>4 DEF SentNow
  <2>2. Accounted(f)
    BY <1>2, <2>1 DEF AccountInv, Sent
  <2> QED
    BY <2>1, <2>2 DEF Accounted, Handed
<1> QED
  BY <1>3, <1>4

LEMMA AccountReport ==
  ASSUME StatusInv, AccountInv, NEW c \in Contexts, NEW f \in Skbs, Report(c, f)
  PROVE  AccountInv'
<1>1. Reported(c, f) /\ given' = given \cup {f} /\ UNCHANGED <<pktid, chip, raced>>
  BY ReportFields DEF StatusInv, Report
<1>2. SUFFICES ASSUME NEW g \in Skbs, Sent(g) PROVE Accounted(g)'
  BY <1>1 DEF AccountInv, Reported, SameFrame, Sent
<1>3. Accounted(g)
  BY <1>2 DEF AccountInv
<1>4. Handed(g) => Handed(g)'
  BY <1>1 DEF Reported, Handed
<1>5. cb'[g].flags = cb[g].flags /\ cb'[g].pid = cb[g].pid /\ cb'[g].wcid = cb[g].wcid
  BY <1>1 DEF Reported, SameFrame
<1> QED
  BY <1>1, <1>3, <1>4, <1>5 DEF Accounted

LEMMA AccountWorker ==
  ASSUME StatusInv, AccountInv, (\E f \in Skbs, w \in Wcids : TxPick(f, w)) \/ TxNext
  PROVE  AccountInv'
<1> USE TxStatusAssumption
<1>1. CASE (\E f \in Skbs, w \in Wcids : TxPick(f, w)) \/ TxCheck \/ TxRefuse
  BY <1>1, AccountSame DEF TxPick, TxCheck, TxRefuse, frameVars
<1>2. CASE TxUnknown
  BY <1>2, AccountSend DEF TxUnknown, NoSend, NoPid
<1>3. CASE TxAdd
  <2> DEFINE free == Pids \ {cb[g].pid : g \in IdsOf(sending.wcid)}
  <2>1. CASE Send(sending.skb, NoPid) /\ UNCHANGED <<pktid, wcidList>>
    BY <1>3, <2>1, AccountSend DEF TxAdd, NoSend, NoPid
  <2>2. ASSUME NEW pid \in Lowest(free), Send(sending.skb, pid),
               pktid' = pktid \cup {sending.skb}
        PROVE  AccountInv'
    <3>1. pid \in 0 .. LastPid
      BY <2>2 DEF Lowest, Pids
    <3> QED
      BY <1>3, <2>2, <3>1, AccountSend DEF TxAdd, NoSend
  <2> QED
    BY <1>3, <2>1, <2>2 DEF TxAdd
<1> QED
  BY <1>1, <1>2, <1>3 DEF TxNext

LEMMA AccountStep == StatusInv /\ AccountInv /\ [SNext]_svars => AccountInv'
<1> SUFFICES ASSUME StatusInv, AccountInv, [SNext]_svars PROVE AccountInv'
  OBVIOUS
<1>1. CASE UNCHANGED svars
  BY <1>1, AccountSame DEF svars, frameVars
<1>2. CASE (\E f \in Skbs, w \in Wcids : TxPick(f, w)) \/ TxNext
  BY <1>2, AccountWorker
<1>3. CASE ReaderNext
  <2>1. ASSUME NEW F \in SUBSET Overdue, TxsMiss(F) PROVE AccountInv'
    <3>1. F \in SUBSET pktid /\ "txs" \in Contexts
      BY <2>1 DEF Overdue, Waiting, Contexts
    <3> QED
      BY <2>1, <3>1, AccountGiveUp DEF TxsMiss
  <2>2. ASSUME NEW f \in pktid, TxsHit(f) PROVE AccountInv'
    <3>1. "txs" \in Contexts /\ reader.skb \in Skbs \cup {Nobody}
      BY DEF StatusInv, STypeOK, Contexts
    <3> QED
      BY <2>2, <3>1, AccountSettle DEF TxsHit
  <2> QED
    BY <1>3, <2>1, <2>2 DEF ReaderNext
<1>4. CASE Reports
  BY <1>4, AccountReport DEF Reports
<1>5. ASSUME NEW f \in Skbs, TxFree(f) \/ TxsLost(f) \/ TxsLook(f) PROVE AccountInv'
  <2>1. CASE TxFree(f)
    BY <2>1, AccountComplete DEF TxFree, Contexts
  <2>2. CASE TxsLost(f) \/ TxsLook(f)
    BY <2>2, AccountSame DEF TxsLost, TxsLook, frameVars
  <2> QED
    BY <1>5, <2>1, <2>2
<1>6. ASSUME NEW F \in SUBSET Overdue, Check(F) PROVE AccountInv'
  <2>1. F \in SUBSET pktid /\ "check" \in Contexts
    BY DEF Overdue, Waiting, Contexts
  <2> QED
    BY <1>6, <2>1, AccountGiveUp DEF Check
<1>7. ASSUME NEW w \in Wcids, StationNext(w) PROVE AccountInv'
  <2>1. CASE CleanupFlush(w)
    <3>1. IdsOf(w) \in SUBSET pktid /\ "admin" \in Contexts
      BY DEF IdsOf, Contexts
    <3> QED
      BY <2>1, <3>1, AccountGiveUp DEF CleanupFlush
  <2>2. CASE IdrDestroy(w)
    <3>1. /\ pktid' = pktid \ IdsOf(w) /\ link[w].at = "flushed"
          /\ UNCHANGED <<cb, done, chip, given, raced>>
      BY <2>2 DEF IdrDestroy
    <3>2. \A f \in IdsOf(w) : cb[f].wcid = w /\ w \in raced
      BY <3>1 DEF IdsOf, StatusInv, WatchInv
    <3> QED
      BY <3>1, <3>2, AccountSame
  <2>3. CASE Add(w) \/ PreRcuRemove(w) \/ GracePeriod(w) \/ LinkBssRemove(w) \/ CleanupDone(w)
    <3>1. raced \subseteq raced'
      BY <1>7, StationStep DEF StatusInv
    <3> QED
      BY <2>3, <3>1, AccountSame
         DEF Add, PreRcuRemove, GracePeriod, LinkBssRemove, CleanupDone, frameVars
  <2> QED
    BY <1>7, <2>1, <2>2, <2>3 DEF StationNext
<1>8. CASE ResetStart \/ RecoveryNext
  <2>1. CASE ResetStart \/ ResetStopped \/ ResetFails \/ ResetEnds
    BY <2>1, AccountSame DEF ResetStart, ResetStopped, ResetFails, ResetEnds, frameVars
  <2>2. ASSUME NEW f \in chip, ResetToken(f) PROVE AccountInv'
    BY <2>2, AccountComplete DEF ResetToken, Contexts
  <2>3. CASE ResetFlushed
    <3>1. Waiting \in SUBSET pktid /\ "admin" \in Contexts
      BY DEF Waiting, Contexts
    <3> QED
      BY <2>3, <3>1, AccountGiveUp DEF ResetFlushed
  <2> QED
    BY <1>8, <2>1, <2>2, <2>3 DEF RecoveryNext
<1> QED
  BY <1>1, <1>2, <1>3, <1>4, <1>5, <1>6, <1>7, <1>8 DEF SNext

\* An sk_buff is lost between the two halves of its completion in one way only:
\* whichever of token, report, time-out, flush, removal of its station and reset
\* come in whichever order (mt76_tx_status_skb_add, __mt76_tx_status_skb_done),
\* somebody has it who will give it back, unless the worker added it to a station
\* behind the flush of its removal, where idr_destroy (mt76_wcid_cleanup) forgets it.
THEOREM NoFrameIsLeaked == SSpec => []FrameHasOwner
<1>1. SInit => AccountInv
  BY DEF SInit, AccountInv, Sent, Unsent
<1>2. StatusInv /\ AccountInv => FrameHasOwner
  <2> SUFFICES ASSUME StatusInv, AccountInv, NEW f \in Skbs, Sent(f)
               PROVE  \/ f \in chip \/ (f \in pktid /\ cb[f].wcid \in wcidList)
                      \/ Handed(f) \/ Forgotten(f)
    BY DEF FrameHasOwner
  <2>1. f \in pktid => cb[f].wcid \in wcidList
    BY DEF StatusInv, WatchInv, IdsOf, STypeOK, Sent
  <2>2. Accounted(f)
    BY DEF AccountInv
  <2> QED
    BY <2>1, <2>2 DEF Accounted, Forgotten
<1> QED
  BY <1>1, <1>2, AccountStep, StatusInvariance, PTL DEF SSpec
=============================================================================
