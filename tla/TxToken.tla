------------------------------ MODULE TxToken ------------------------------
(***************************************************************************)
(* Transmit tokens: every data frame that the firmware holds has a token   *)
(* of dev->token (tx.c).  The tx worker takes tokens and blocks the data   *)
(* queue when few are left; tx-free events, handled by NAPI, give tokens   *)
(* back, unblock the queue and schedule the worker.  A handler notes under *)
(* token_lock that it has to unblock and does so later, when it has gone   *)
(* through its event.  A reset takes all tokens back (mt7925_tx_token_put).*)
(***************************************************************************)
EXTENDS Integers, FiniteSets, FiniteSetsExt

CONSTANTS
  Size,        \* dev->token_size
  FreeThr,     \* MT76_TOKEN_FREE_THR
  Handlers,    \* NAPI contexts that handle tx-free events
  MaxBacklog,  \* bound: frames that wait for the tx worker
  MaxResets    \* bound: resets

ASSUME TxTokenAssumption ==
  /\ {Size, FreeThr, MaxBacklog, MaxResets} \subseteq Nat
  /\ IsFiniteSet(Handlers)
  /\ Cardinality(Handlers) < FreeThr /\ FreeThr < Size

VARIABLES
  tokens,      \* the ids in dev->token
  tokenCount,  \* dev->token_count
  blocked,     \* q_tx[0]->blocked
  backlog,     \* frames that wait for the tx worker
  worker,      \* the tx worker: "idle", "check", "send" or "parked"
  scheduled,   \* MT76_WORKER_SCHEDULED
  fw,          \* tokens of frames that the firmware holds
  handler,     \* each tx-free handler: ids it has to go through, wake
  resets       \* how many resets there were

vars == <<tokens, tokenCount, blocked, backlog, worker, scheduled, fw, handler, resets>>

Ids    == 0 .. Size - 1
Enough == Size - FreeThr

Init ==
  /\ tokens = {} /\ tokenCount = 0 /\ blocked = "no"
  /\ backlog = 0 /\ worker = "idle" /\ scheduled = "no"
  /\ fw = {} /\ handler = [h \in Handlers |-> [pc |-> "idle", ids |-> {}, wake |-> "no"]]
  /\ resets = 0

-----------------------------------------------------------------------------
(* The tx worker.                                                          *)

\* A frame comes to wait for the worker.
Enqueue ==
  /\ backlog < MaxBacklog
  /\ backlog' = backlog + 1
  /\ UNCHANGED <<tokens, tokenCount, blocked, worker, scheduled, fw, handler, resets>>

\* mt76_worker_schedule.
Schedule ==
  /\ scheduled' = "yes"
  /\ UNCHANGED <<tokens, tokenCount, blocked, backlog, worker, fw, handler, resets>>

WorkerRun ==
  /\ worker = "idle" /\ scheduled = "yes"
  /\ worker' = "check" /\ scheduled' = "no"
  /\ UNCHANGED <<tokens, tokenCount, blocked, backlog, fw, handler, resets>>

\* mt76_txq_stopped, read without token_lock, before a frame is sent; TxSchedule
\* says which frame that is, and when the worker is done.
WorkerCheck ==
  /\ worker = "check" /\ blocked = "no" /\ backlog > 0
  /\ worker' = "send"
  /\ UNCHANGED <<tokens, tokenCount, blocked, backlog, scheduled, fw, handler, resets>>

WorkerDone ==
  /\ worker = "check"
  /\ worker' = "idle"
  /\ UNCHANGED <<tokens, tokenCount, blocked, backlog, scheduled, fw, handler, resets>>

\* Mutant: the queue is not blocked when few tokens are left.
WorkerSendOn ==
  /\ worker = "send" /\ tokens # Ids
  /\ LET id == Min(Ids \ tokens)
     IN  tokens' = tokens \cup {id} /\ fw' = fw \cup {id}
  /\ tokenCount' = tokenCount + 1
  /\ backlog' = backlog - 1 /\ worker' = "check"
  /\ UNCHANGED <<blocked, scheduled, handler, resets>>

\* mt76_token_consume under token_lock.
WorkerSend ==
  /\ worker = "send" /\ tokens # Ids
  /\ LET id == Min(Ids \ tokens)
     IN  tokens' = tokens \cup {id} /\ fw' = fw \cup {id}
  /\ tokenCount' = tokenCount + 1
  /\ blocked' = IF tokenCount + 1 >= Enough THEN "yes" ELSE blocked
  /\ backlog' = backlog - 1 /\ worker' = "check"
  /\ UNCHANGED <<scheduled, handler, resets>>

-----------------------------------------------------------------------------
(* mt7925_mac_tx_free.                                                     *)

\* The firmware reports frames as done, and NAPI begins to handle the event.
FreeEvent(h, ids) ==
  /\ handler[h].pc = "idle" /\ worker # "parked"
  /\ ids # {} /\ ids \subseteq fw
  /\ fw' = fw \ ids
  /\ handler' = [handler EXCEPT ![h] = [pc |-> "free", ids |-> ids, wake |-> "no"]]
  /\ UNCHANGED <<tokens, tokenCount, blocked, backlog, worker, scheduled, resets>>

\* Mutant: the count is compared before the token is given back.
FreeTokenLate(h, id) ==
  /\ handler[h].pc = "free" /\ id \in handler[h].ids
  /\ tokens' = tokens \ {id} /\ tokenCount' = tokenCount - 1
  /\ handler' = [handler EXCEPT ![h] =
       [pc |-> "free", ids |-> handler[h].ids \ {id},
        wake |-> IF tokenCount < Enough /\ blocked = "yes" THEN "yes" ELSE handler[h].wake]]
  /\ UNCHANGED <<blocked, backlog, worker, scheduled, fw, resets>>

\* mt76_token_release under token_lock.
FreeToken(h, id) ==
  /\ handler[h].pc = "free" /\ id \in handler[h].ids
  /\ tokens' = tokens \ {id} /\ tokenCount' = tokenCount - 1
  /\ handler' = [handler EXCEPT ![h] =
       [pc |-> "free", ids |-> handler[h].ids \ {id},
        wake |-> IF tokenCount - 1 < Enough /\ blocked = "yes" THEN "yes" ELSE handler[h].wake]]
  /\ UNCHANGED <<blocked, backlog, worker, scheduled, fw, resets>>

\* Mutant: the queue is unblocked, but the worker is not scheduled.
FreeDoneQuiet(h) ==
  /\ handler[h].pc = "free" /\ handler[h].ids = {}
  /\ blocked' = IF handler[h].wake = "yes" THEN "no" ELSE blocked
  /\ handler' = [handler EXCEPT ![h] = [pc |-> "idle", ids |-> {}, wake |-> "no"]]
  /\ UNCHANGED <<tokens, tokenCount, backlog, worker, scheduled, fw, resets>>

\* The end of the event: unblock if so decided, schedule the worker.
FreeDone(h) ==
  /\ handler[h].pc = "free" /\ handler[h].ids = {}
  /\ blocked' = IF handler[h].wake = "yes" THEN "no" ELSE blocked
  /\ scheduled' = "yes"
  /\ handler' = [handler EXCEPT ![h] = [pc |-> "idle", ids |-> {}, wake |-> "no"]]
  /\ UNCHANGED <<tokens, tokenCount, backlog, worker, fw, resets>>

-----------------------------------------------------------------------------
(* mt7925e_mac_reset.                                                      *)

\* mt76_worker_disable and napi_disable wait for both to be idle; the former
\* clears MT76_WORKER_SCHEDULED.
ResetPark ==
  /\ resets < MaxResets
  /\ worker = "idle" /\ \A h \in Handlers : handler[h].pc = "idle"
  /\ worker' = "parked" /\ scheduled' = "no" /\ resets' = resets + 1
  /\ UNCHANGED <<tokens, tokenCount, blocked, backlog, fw, handler>>

\* Mutant: the idr is emptied, the count is kept.
ResetTokensUncounted ==
  /\ worker = "parked"
  /\ tokens' = {} /\ fw' = {}
  /\ worker' = "idle" /\ scheduled' = "yes"
  /\ UNCHANGED <<tokenCount, blocked, backlog, handler, resets>>

\* mt7925_tx_token_put and idr_init; the frames are freed, the firmware
\* starts anew, NAPI and the worker are enabled.
ResetTokens ==
  /\ worker = "parked"
  /\ tokens' = {} /\ tokenCount' = tokenCount - Cardinality(tokens)
  /\ fw' = {}
  /\ worker' = "idle" /\ scheduled' = "yes"
  /\ UNCHANGED <<blocked, backlog, handler, resets>>

-----------------------------------------------------------------------------
WorkerNext == WorkerRun \/ WorkerCheck \/ WorkerDone \/ WorkerSend

HandlerNext(h) ==
  \/ \E ids \in SUBSET fw : FreeEvent(h, ids)
  \/ \E id \in Ids : FreeToken(h, id)
  \/ FreeDone(h)

Next == Enqueue \/ Schedule \/ WorkerNext \/ ResetPark \/ ResetTokens \/ \E h \in Handlers : HandlerNext(h)

Spec == Init /\ [][Next]_vars
-----------------------------------------------------------------------------
TypeOK ==
  /\ tokens \subseteq Ids /\ tokenCount \in 0 .. Size
  /\ blocked \in {"yes", "no"} /\ scheduled \in {"yes", "no"}
  /\ backlog \in 0 .. MaxBacklog
  /\ worker \in {"idle", "check", "send", "parked"}
  /\ fw \subseteq Ids
  /\ handler \in [Handlers -> [pc : {"idle", "free"}, ids : SUBSET Ids,
                               wake : {"yes", "no"}]]
  /\ resets \in 0 .. MaxResets

\* The pool never runs out under the tx worker: although the queue is blocked
\* and unblocked on the strength of counts that have changed since, the
\* headroom of FreeThr tokens is never used up (mt76_token_consume).
TokenHeadroom == worker = "send" => tokens # Ids

\* Every token is where it is accounted for: with the firmware or in an event
\* that is being handled, and in only one of them.
TokensHaveOneOwner ==
  /\ tokenCount = Cardinality(tokens)
  /\ tokens = fw \cup UNION {handler[h].ids : h \in Handlers}
  /\ \A h \in Handlers : handler[h].ids \cap fw = {}
  /\ \A h, g \in Handlers : h # g => handler[h].ids \cap handler[g].ids = {}

\* A blocked queue with enough free tokens is about to be unblocked: the queue
\* never stays shut with nobody left to open it, as a recovered device requires
\* ("system error recovery", mt7925/mac.c).
UnblockIsOnItsWay ==
  blocked = "yes" /\ tokenCount < Enough => \E h \in Handlers : handler[h].wake = "yes"

\* The same for a device that was never reset: the release that takes the
\* count below the limit is the one that notices (mt76_token_release).
UnblockedUnlessReset == resets = 0 => UnblockIsOnItsWay
============================================================================
