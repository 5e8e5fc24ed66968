-------------------------------- MODULE Roc --------------------------------
(***************************************************************************)
(* Remain on channel (mt7925/main.c): the firmware is asked to stay on a   *)
(* channel, grants the request in an event, and is told to stop by the     *)
(* driver.  MT76_STATE_ROC marks a request in force.  It is ended by the   *)
(* roc_timer, which queues roc_work, or by mac80211; whoever clears the    *)
(* bit sends the abort.                                                    *)
(*                                                                         *)
(* Four contexts meet: a mac80211 callback (one at a time, under the wiphy *)
(* mutex), roc_work, the timer, and NAPI, which handles the grant.  A      *)
(* command to the firmware is one step; that the chip is awake under       *)
(* dev.mutex is the subject of PowerSave.                                  *)
(***************************************************************************)
EXTENDS Naturals

CONSTANTS
  Tokens,    \* how many values roc_token_id takes before it wraps (2^8)
  MaxAdded   \* bound: secondary links added by one call

ASSUME RocAssumption ==
  /\ Tokens \in Nat \ {0}
  /\ MaxAdded \in Nat

VARIABLES
  bit,      \* MT76_STATE_ROC
  grant,    \* phy->roc_grant
  token,    \* phy->roc_token_id
  timer,    \* whether roc_timer is pending
  queued,   \* whether roc_work is pending
  work,     \* the running roc_work: "idle", "lock" or "abort"
  napi,     \* the handler of a grant: "idle" or "arm"
  mutex,    \* the holder of dev.mutex: "free", "caller" or "work"
  call,     \* the mac80211 callback: its kind, where it is, links left
  asked,    \* tokens the firmware may still grant
  events    \* tokens with a grant event on its way

vars   == <<bit, grant, token, timer, queued, work, napi, mutex, call, asked, events>>
fwVars == <<token, asked, events>>

TokenIds == 0 .. Tokens - 1

\* Kinds of callbacks: a request of one channel (remain_on_channel,
\* mgd_prepare_tx), the end of one (cancel_remain_on_channel, mgd_complete_tx),
\* the choice of links, a request for links, the removal of a station, suspend.
Kinds == {"request", "abort", "set_links", "mlo", "sta_remove", "suspend"}
Pcs   == {"idle", "timer", "cancel", "lock", "clear", "request", "send", "wait", "unlock"}

Go(pc)   == call' = [call EXCEPT !.pc = pc]
Finished == call' = [call EXCEPT !.pc = "idle"]

Init ==
  /\ bit = "no" /\ grant = "no" /\ timer = "no" /\ queued = "no"
  /\ work = "idle" /\ napi = "idle" /\ mutex = "free"
  /\ call = [kind |-> "request", pc |-> "idle", links |-> 0]
  /\ token = 0 /\ asked = {} /\ events = {}

-----------------------------------------------------------------------------
(* The timer, roc_work and the grant.                                      *)

\* mt792x_roc_timer.
TimerFires ==
  /\ timer = "yes"
  /\ timer' = "no" /\ queued' = "yes"
  /\ UNCHANGED <<bit, grant, work, napi, mutex, call, fwVars>>

\* mt7925_roc_work: whoever clears the bit goes on.
WorkStart ==
  /\ queued = "yes" /\ work = "idle"
  /\ queued' = "no" /\ bit' = "no"
  /\ work' = IF bit = "yes" THEN "lock" ELSE "idle"
  /\ UNCHANGED <<grant, timer, napi, mutex, call, fwVars>>

WorkLock ==
  /\ work = "lock" /\ mutex = "free"
  /\ work' = "abort" /\ mutex' = "work"
  /\ UNCHANGED <<bit, grant, timer, queued, napi, call, fwVars>>

\* mt7925_roc_iter: the token is the one of the latest request.
WorkAbort ==
  /\ work = "abort"
  /\ asked' = asked \ {token}
  /\ work' = "idle" /\ mutex' = "free"
  /\ UNCHANGED <<bit, grant, timer, queued, napi, call, token, events>>

\* The firmware grants a request.
FwGrant(t) ==
  /\ t \in asked
  /\ asked' = asked \ {t} /\ events' = events \cup {t}
  /\ UNCHANGED <<bit, grant, timer, queued, work, napi, mutex, call, token>>

\* Mutant: the waiter is woken, but roc_grant is not set.
GrantEventUnset(t) ==
  /\ napi = "idle" /\ t \in events
  /\ events' = events \ {t} /\ napi' = "arm"
  /\ UNCHANGED <<bit, grant, timer, queued, work, mutex, call, token, asked>>

\* mt7925_mcu_roc_handle_grant does not look at the token of the event.
GrantEvent(t) ==
  /\ napi = "idle" /\ t \in events
  /\ events' = events \ {t}
  /\ grant' = "yes" /\ napi' = "arm"
  /\ UNCHANGED <<bit, timer, queued, work, mutex, call, token, asked>>

\* Mutant: the timer is left alone when a request is no longer waiting.
GrantArmWaiting ==
  /\ napi = "arm"
  /\ napi' = "idle" /\ timer' = IF call.pc = "wait" THEN "yes" ELSE timer
  /\ UNCHANGED <<bit, grant, queued, work, mutex, call, fwVars>>

\* The waiter has been woken and may run before mod_timer.
GrantArm ==
  /\ napi = "arm"
  /\ napi' = "idle" /\ timer' = "yes"
  /\ UNCHANGED <<bit, grant, queued, work, mutex, call, fwVars>>

-----------------------------------------------------------------------------
(* The callbacks.                                                          *)

Begin(kind, pc, links) ==
  /\ call.pc = "idle"
  /\ call' = [kind |-> kind, pc |-> pc, links |-> links]
  /\ UNCHANGED <<bit, grant, timer, queued, work, napi, mutex, fwVars>>

RemainOnChannel == Begin("request", "lock", 1)
AbortRoc        == Begin("abort", "timer", 0)
SetLinks        == Begin("set_links", "timer", 0)
ChangeVifLinks  == \E n \in 1 .. MaxAdded : Begin("mlo", "lock", n)
StaRemove       == Begin("sta_remove", "lock", 0)
Suspend         == Begin("suspend", "timer", 0)

\* The caller takes dev.mutex: to remove a station before anything else,
\* to abort after the timer and the work are out of the way.
Lock ==
  /\ call.pc = "lock" /\ mutex = "free"
  /\ mutex' = "caller"
  /\ Go(CASE call.kind \in {"request", "mlo"}     -> "request"
          [] call.kind \in {"abort", "set_links"} -> "clear"
          [] OTHER                                -> "timer")
  /\ UNCHANGED <<bit, grant, timer, queued, work, napi, fwVars>>

\* timer_delete_sync.
DeleteTimer ==
  /\ call.pc = "timer"
  /\ timer' = "no" /\ Go("cancel")
  /\ UNCHANGED <<bit, grant, queued, work, napi, mutex, fwVars>>

\* cancel_work_sync waits for a work that runs.
CancelWork ==
  /\ call.pc = "cancel" /\ work = "idle"
  /\ queued' = "no"
  /\ Go(IF call.kind \in {"abort", "set_links"} THEN "lock" ELSE "clear")
  /\ UNCHANGED <<bit, grant, timer, work, napi, mutex, fwVars>>

\* The request is aborted by whoever clears the bit; to suspend without
\* dev.mutex.  The choice of links then asks for them.
Clear ==
  /\ call.pc = "clear"
  /\ bit' = "no"
  /\ asked' = IF bit = "yes" THEN asked \ {token} ELSE asked
  /\ mutex' = IF mutex = "caller" THEN "free" ELSE mutex
  /\ IF call.kind = "set_links"
       THEN call' = [kind |-> "mlo", pc |-> "lock", links |-> 1]
       ELSE Finished
  /\ UNCHANGED <<grant, timer, queued, work, napi, token, events>>

\* mt7925_set_roc and mt7925_set_mlo_roc: -EBUSY when the bit is set.
Request ==
  /\ call.pc = "request"
  /\ IF bit = "yes"
       THEN UNCHANGED <<bit, grant>> /\ Go("unlock")
       ELSE bit' = "yes" /\ grant' = "no" /\ Go("send")
  /\ UNCHANGED <<timer, queued, work, napi, mutex, fwVars>>

\* Mutant: the bit stays set when the command fails.
SendKeepsBit ==
  /\ call.pc = "send"
  /\ token' = IF token = Tokens - 1 THEN 0 ELSE token + 1
  /\ \/ asked' = asked \cup {token'} /\ Go("wait")
     \/ asked' = asked /\ Go("unlock")
  /\ UNCHANGED <<bit, grant, timer, queued, work, napi, mutex, events>>

\* The command is sent under the next token, or fails before it gets there.
Send ==
  /\ call.pc = "send"
  /\ token' = IF token = Tokens - 1 THEN 0 ELSE token + 1
  /\ \/ asked' = asked \cup {token'} /\ bit' = bit /\ Go("wait")
     \/ asked' = asked /\ bit' = "no" /\ Go("unlock")
  /\ UNCHANGED <<grant, timer, queued, work, napi, mutex, events>>

\* mt7925_change_vif_links goes on with the next link.
Granted ==
  /\ call.pc = "wait" /\ grant = "yes"
  /\ IF call.links > 1
       THEN call' = [call EXCEPT !.pc = "request", !.links = @ - 1]
       ELSE Go("unlock")
  /\ UNCHANGED <<bit, grant, timer, queued, work, napi, mutex, fwVars>>

\* Mutant: the request that times out returns with dev.mutex held.
TimedOutLocked ==
  /\ call.pc = "wait" /\ grant = "no"
  /\ asked' = asked \ {token} /\ bit' = "no"
  /\ Finished
  /\ UNCHANGED <<grant, timer, queued, work, napi, mutex, token, events>>

\* Four seconds without a grant.
TimedOut ==
  /\ call.pc = "wait" /\ grant = "no"
  /\ asked' = asked \ {token} /\ bit' = "no"
  /\ Go("unlock")
  /\ UNCHANGED <<grant, timer, queued, work, napi, mutex, token, events>>

Unlock ==
  /\ call.pc = "unlock"
  /\ mutex' = "free" /\ Finished
  /\ UNCHANGED <<bit, grant, timer, queued, work, napi, fwVars>>

-----------------------------------------------------------------------------
Start == \/ RemainOnChannel \/ AbortRoc \/ SetLinks
         \/ ChangeVifLinks \/ StaRemove \/ Suspend

CallerNext == \/ Lock \/ DeleteTimer \/ CancelWork \/ Clear
              \/ Request \/ Send \/ Granted \/ TimedOut \/ Unlock

WorkNext == WorkStart \/ WorkLock \/ WorkAbort

NapiNext == GrantArm \/ \E t \in TokenIds : GrantEvent(t)

Next == \/ TimerFires \/ WorkNext \/ NapiNext \/ Start \/ CallerNext
        \/ \E t \in TokenIds : FwGrant(t)

Spec == Init /\ [][Next]_vars

\* Threads, timers and NAPI run, and a mutex is handed on fairly; nothing
\* obliges the firmware to grant, nor mac80211 to call.
Fairness ==
  /\ WF_vars(TimerFires) /\ WF_vars(GrantArm)
  /\ WF_vars(WorkNext) /\ SF_vars(WorkLock)
  /\ WF_vars(CallerNext) /\ SF_vars(Lock)

FairSpec == Spec /\ Fairness
-----------------------------------------------------------------------------
YesNo == {"yes", "no"}

TypeOK ==
  /\ bit \in YesNo /\ grant \in YesNo /\ timer \in YesNo /\ queued \in YesNo
  /\ token \in TokenIds /\ asked \subseteq TokenIds /\ events \subseteq TokenIds
  /\ work \in {"idle", "lock", "abort"} /\ napi \in {"idle", "arm"}
  /\ mutex \in {"free", "caller", "work"}
  /\ call \in [kind : Kinds, pc : Pcs, links : Nat]

Requesting == call.pc \in {"send", "wait"}
Ending     == \/ call.pc \in {"cancel", "clear"}
              \/ call.pc = "lock" /\ call.kind \in {"abort", "set_links"}

\* A request in force is always about to end: while the bit is set somebody is
\* still asking, the timer is armed or about to be, roc_work is queued, or a
\* callback is past the cancelling and will clear it.  Otherwise the bit would
\* stay set and every later request be refused with -EBUSY (mt7925_set_roc).
RocIsWatched ==
  bit = "yes" => \/ Requesting \/ Ending
                 \/ timer = "yes" \/ queued = "yes" \/ napi = "arm"

\* The grant of a request that still waits has not been lost: neither a late
\* roc_work nor the grant of an earlier request takes it away (mt7925_set_roc).
WaiterIsNotForgotten ==
  call.pc = "wait" /\ grant = "no" => token \in asked \cup events

\* The removal of a station waits for roc_work with dev.mutex held, and
\* roc_work waits for dev.mutex (mt7925_mac_link_sta_remove).
TeardownStuck ==
  /\ call.kind = "sta_remove" /\ call.pc = "cancel"
  /\ work = "lock" /\ mutex = "caller"

\* Every request comes to an end, whoever ends it, unless a removal is stuck
\* (mt792x_roc_timer, mt7925_roc_work).
RocEnds == bit = "yes" ~> bit = "no" \/ TeardownStuck

\* Every callback returns, and the removal of a station is the only one that
\* can wait for ever: the others cancel roc_work before they take dev.mutex.
CallReturns == call.pc # "idle" ~> call.pc = "idle" \/ TeardownStuck
=============================================================================
