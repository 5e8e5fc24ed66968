---------------------------- MODULE McuTransport ----------------------------
(***************************************************************************)
(* Commands to the firmware and the reset of the chip (mcu.c,              *)
(* mt7925/mcu.c, pci_mcu.c, mac.c and pci_mac.c).                          *)
(*                                                                         *)
(* A callback or work item takes dev.mutex and sends any number of         *)
(* commands, each under mcu.mutex with the next four-bit number.  Only     *)
(* scan_work, which may send the power limits of a country that a scan has *)
(* found, does so without dev.mutex.  NAPI files the answers in res_q; the *)
(* sender takes one after the other and drops those with another number,   *)
(* until its own comes or the deadline passes, and then it asks for a      *)
(* reset.  The reset work stops NAPI, restarts the firmware and sends      *)
(* commands of its own: under dev.mutex to load the firmware, and without  *)
(* it to connect the interfaces again.                                     *)
(*                                                                         *)
(* The firmware answers when it likes, in any order, or never, and answers *)
(* also commands that nobody waits for.  The device is initialised and not *)
(* suspended.                                                              *)
(***************************************************************************)
EXTENDS Integers, Sequences, FiniteSets

CONSTANTS
  Chips,        \* the chips to look at, "mt7925" and "mt7927"
  Ops,          \* callbacks of mac80211 and works, which hold dev.mutex
  Hints,        \* works that send commands without dev.mutex: scan_work
  Reset,        \* the thread that runs reset_work
  Commands,     \* the commands
  Checked,      \* those whose answer has to name the command, too
  LastSeq,      \* numbers run from 1 to LastSeq, 15 in the code
  MaxAttempts,  \* attempts of one reset, 10 in the code
  MaxHeld       \* bound: commands and answers under way at a time

ASSUME McuAssumption ==
  /\ Chips \subseteq {"mt7925", "mt7927"}
  /\ Ops \cap Hints = {} /\ Reset \notin Ops \cup Hints
  /\ "free" \notin Ops \cup Hints \cup {Reset}
  /\ Checked \subseteq Commands /\ "none" \notin Commands
  /\ LastSeq \in Nat \ {0} /\ MaxAttempts \in Nat \ {0} /\ MaxHeld \in Nat

Threads  == Ops \cup Hints \cup {Reset}
\* A command at the firmware, or its answer; age is how many commands have
\* been numbered since, counted up to LastSeq.
Messages == [seq : 1 .. LastSeq, age : 0 .. LastSeq, cmd : Commands]

VARIABLES
  chip,      \* "mt7925" or "mt7927"
  devMutex, mcuMutex,  \* the holder, or "free"
  pc,        \* where each thread is
  order,     \* the command it has sent: what, its number, and the deadline
  answer,    \* the age of the answer it has accepted, or -1
  msgSeq,    \* mcu.msg_seq
  fw,        \* commands that the firmware may answer
  rx,        \* answers in the receive ring
  resQ,      \* mcu.res_q
  napi,      \* "on" or "off"
  mcuReset,  \* MT76_MCU_RESET: "set" or "clear"
  pending,   \* whether reset_work is queued
  work,      \* the stage of the running reset_work
  fullReset, \* hw_full_reset
  attempts,  \* of the running reset
  outcome,   \* of the attempt so far
  slipped    \* commands queued since MT76_MCU_RESET is set

vars == <<chip, slipped, devMutex, mcuMutex, pc, order, answer, msgSeq, fw, rx, resQ, napi,
          mcuReset, pending, work, fullReset, attempts, outcome>>
mutexVars == <<devMutex, mcuMutex>>
mailVars  == <<fw, rx, resQ>>
workVars  == <<work, fullReset, attempts>>

NoOrder   == [cmd |-> "none", seq |-> 0, late |-> "no"]

Init ==
  /\ chip \in Chips
  /\ devMutex = "free" /\ mcuMutex = "free"
  /\ pc = [t \in Threads |-> "idle"]
  /\ order = [t \in Threads |-> NoOrder] /\ answer = [t \in Threads |-> -1]
  /\ msgSeq = 0 /\ fw = {} /\ rx = <<>> /\ resQ = <<>>
  /\ napi = "on" /\ mcuReset = "clear" /\ pending = "no"
  /\ work = "idle" /\ fullReset = "no" /\ attempts = 0 /\ outcome = "ok"
  /\ slipped = 0

-----------------------------------------------------------------------------
(* One command, sent by any thread.                                        *)

\* The next number: four bits, and never 0.
NextSeq(s) == IF s = LastSeq THEN 1 ELSE s + 1

Aged(m) == [seq |-> m.seq, cmd |-> m.cmd,
            age |-> IF m.age = LastSeq THEN LastSeq ELSE m.age + 1]

Goto(t, where) == pc' = [pc EXCEPT ![t] = where]

\* The command is over for its sender, who gives mcu.mutex back next; one that
\* fails makes the attempt of a reset fail.
Finish(t, how) ==
  /\ Goto(t, "unlock")
  /\ outcome' = IF t = Reset /\ work = "load" /\ how = "error" THEN "error" ELSE outcome

\* mt792x_reset: a reset that runs swallows the request.
RequestReset == pending' = IF fullReset = "yes" THEN pending ELSE "yes"

\* A thread that may send a command decides to.
Begin(t) ==
  /\ pc[t] = "ready" /\ Goto(t, "lock")
  /\ UNCHANGED <<chip, slipped, mutexVars, order, answer, msgSeq, mailVars, napi, mcuReset,
                 pending,
                 workVars, outcome>>

LockMcu(t) ==
  /\ pc[t] = "lock" /\ mcuMutex = "free"
  /\ mcuMutex' = t /\ Goto(t, "send")
  /\ UNCHANGED <<chip, slipped, devMutex, order, answer, msgSeq, mailVars, napi, mcuReset,
                 pending,
                 workVars, outcome>>

\* Mutant: the flag is not tested.
SendUntested(t) ==
  /\ pc[t] = "send"
  /\ msgSeq' = NextSeq(msgSeq)
  /\ fw' = {Aged(m) : m \in fw}
  /\ rx' = [i \in DOMAIN rx |-> Aged(rx[i])]
  /\ resQ' = [i \in DOMAIN resQ |-> Aged(resQ[i])]
  /\ \E c \in Commands :
       order' = [order EXCEPT ![t] = [cmd |-> c, seq |-> msgSeq', late |-> "no"]]
  /\ (Goto(t, "queue") /\ UNCHANGED outcome) \/ Finish(t, "error")
  /\ UNCHANGED <<chip, slipped, mutexVars, answer, napi, mcuReset, pending, workVars>>

\* fill_message, and the tests of tx_queue_skb_raw, made without a lock.  The
\* number is used up even if the command cannot be queued, because of a reset,
\* a full ring or a mapping that fails.
Send(t) ==
  /\ pc[t] = "send"
  /\ msgSeq' = NextSeq(msgSeq)
  /\ fw' = {Aged(m) : m \in fw}
  /\ rx' = [i \in DOMAIN rx |-> Aged(rx[i])]
  /\ resQ' = [i \in DOMAIN resQ |-> Aged(resQ[i])]
  /\ \E c \in Commands :
       order' = [order EXCEPT ![t] = [cmd |-> c, seq |-> msgSeq', late |-> "no"]]
  /\ \/ mcuReset = "clear" /\ Goto(t, "queue") /\ UNCHANGED outcome
     \/ Finish(t, "error")
  /\ UNCHANGED <<chip, slipped, mutexVars, answer, napi, mcuReset, pending, workVars>>

\* The command enters the ring.  The firmware may or may not hear it, and the
\* caller may or may not wait for the answer (wait_resp).
Queue(t) ==
  /\ pc[t] = "queue"
  /\ slipped' = IF mcuReset = "set" THEN slipped + 1 ELSE slipped
  /\ \/ UNCHANGED fw
     \/ /\ Cardinality(fw) + Len(rx) + Len(resQ) < MaxHeld
        /\ fw' = fw \cup {[seq |-> order[t].seq, age |-> 0, cmd |-> order[t].cmd]}
  /\ \/ Goto(t, "check") /\ UNCHANGED outcome
     \/ Finish(t, "ok")
  /\ UNCHANGED <<chip, mutexVars, order, answer, msgSeq, rx, resQ, napi, mcuReset, pending,
                 workVars>>

Waiting(t) == pc[t] \in {"check", "sleep", "woken"}

\* jiffies reach expires.
Deadline(t) ==
  /\ Waiting(t) /\ order[t].late = "no"
  /\ order' = [order EXCEPT ![t] = [cmd |-> order[t].cmd, seq |-> order[t].seq,
                                    late |-> "yes"]]
  /\ UNCHANGED <<chip, slipped, mutexVars, pc, answer, msgSeq, mailVars, napi, mcuReset,
                 pending,
                 workVars, outcome>>

\* Mutant: no answer is taken for a wrong answer.
NoAnswerAgain(t) ==
  /\ Goto(t, "check") /\ RequestReset
  /\ UNCHANGED outcome

\* parse_response without an answer: ask for a reset, -ETIMEDOUT.
NoAnswer(t) == Finish(t, "error") /\ RequestReset

\* get_response: after the deadline it does not even look at the queue.
Check(t) ==
  /\ pc[t] = "check"
  /\ \/ order[t].late = "no" /\ Goto(t, "sleep") /\ UNCHANGED <<outcome, pending>>
     \/ order[t].late = "yes" /\ NoAnswer(t)
  /\ UNCHANGED <<chip, slipped, mutexVars, order, answer, msgSeq, mailVars, napi, mcuReset,
                 workVars>>

\* wait_event_timeout returns.
Wake(t) ==
  /\ pc[t] = "sleep"
  /\ resQ # <<>> \/ mcuReset = "set" \/ order[t].late = "yes"
  /\ Goto(t, "woken")
  /\ UNCHANGED <<chip, slipped, mutexVars, order, answer, msgSeq, mailVars, napi, mcuReset,
                 pending,
                 workVars, outcome>>

\* Mutant: the number is not compared.
MatchesAny(m, o) == o.cmd \in Checked => m.cmd = o.cmd

\* What parse_response accepts; anything else is -EAGAIN.
Matches(m, o) == m.seq = o.seq /\ (o.cmd \in Checked => m.cmd = o.cmd)

\* The first answer of the queue is taken and parsed; an accepted one may
\* report a failure.
Take(t) ==
  /\ pc[t] = "woken"
  /\ \/ /\ resQ = <<>> /\ NoAnswer(t)
        /\ UNCHANGED <<resQ, answer>>
     \/ /\ resQ # <<>> /\ resQ' = Tail(resQ)
        /\ \/ /\ Matches(Head(resQ), order[t])
              /\ answer' = [answer EXCEPT ![t] = Head(resQ).age]
              /\ \E how \in {"ok", "error"} : Finish(t, how)
           \/ /\ ~Matches(Head(resQ), order[t])
              /\ Goto(t, "check")
              /\ UNCHANGED <<answer, outcome>>
        /\ UNCHANGED pending
  /\ UNCHANGED <<chip, slipped, mutexVars, order, msgSeq, fw, rx, napi, mcuReset, workVars>>

\* The end of a command.  scan_work goes on to its next one or is done; the others
\* first come back to their caller.
Unlock(t) ==
  /\ pc[t] = "unlock"
  /\ mcuMutex' = "free"
  /\ \/ t \notin Hints /\ Goto(t, "ready")
     \/ t \in Hints /\ \E where \in {"lock", "idle"} : Goto(t, where)
  /\ order' = [order EXCEPT ![t] = NoOrder] /\ answer' = [answer EXCEPT ![t] = -1]
  /\ UNCHANGED <<chip, slipped, devMutex, msgSeq, mailVars, napi, mcuReset, pending,
                 workVars, outcome>>

ThreadStep(t) == Send(t) \/ Queue(t) \/ Check(t) \/ Wake(t) \/ Take(t) \/ Unlock(t)

-----------------------------------------------------------------------------
(* Firmware and NAPI.                                                      *)

FwAnswer ==
  /\ \E m \in fw : fw' = fw \ {m} /\ rx' = Append(rx, m)
  /\ UNCHANGED <<chip, slipped, mutexVars, pc, order, answer, msgSeq, resQ, napi, mcuReset,
                 pending,
                 workVars, outcome>>

\* mt76_mcu_rx_event.
RxEvent ==
  /\ napi = "on" /\ rx # <<>>
  /\ rx' = Tail(rx) /\ resQ' = Append(resQ, Head(rx))
  /\ UNCHANGED <<chip, slipped, mutexVars, pc, order, answer, msgSeq, fw, napi, mcuReset,
                 pending,
                 workVars, outcome>>

\* The core dump work, or the user by debugfs, asks for a reset.
AskReset ==
  /\ pending = "no" /\ fullReset = "no"
  /\ RequestReset
  /\ UNCHANGED <<chip, slipped, mutexVars, pc, order, answer, msgSeq, mailVars, napi, mcuReset,
                 workVars, outcome>>

-----------------------------------------------------------------------------
(* Callbacks and work items.                                               *)

OpCall(t) ==
  /\ pc[t] = "idle" /\ Goto(t, "want")
  /\ UNCHANGED <<chip, slipped, mutexVars, order, answer, msgSeq, mailVars, napi, mcuReset,
                 pending,
                 workVars, outcome>>

OpLock(t) ==
  /\ pc[t] = "want" /\ devMutex = "free"
  /\ devMutex' = t /\ Goto(t, "ready")
  /\ UNCHANGED <<chip, slipped, mcuMutex, order, answer, msgSeq, mailVars, napi, mcuReset,
                 pending,
                 workVars, outcome>>

OpEnd(t) ==
  /\ pc[t] = "ready"
  /\ devMutex' = "free" /\ Goto(t, "idle")
  /\ UNCHANGED <<chip, slipped, mcuMutex, order, answer, msgSeq, mailVars, napi, mcuReset,
                 pending,
                 workVars, outcome>>

\* scan_work looks at a country (mt7925_regd_change): unless a reset runs, it
\* sends commands, one after the other, and does not look again.
HintCall(t) ==
  /\ pc[t] = "idle" /\ fullReset = "no" /\ Goto(t, "lock")
  /\ UNCHANGED <<chip, slipped, mutexVars, order, answer, msgSeq, mailVars, napi, mcuReset,
                 pending, workVars, outcome>>

-----------------------------------------------------------------------------
(* mt7925_mac_reset_work and mt7925e_mac_reset.                            *)

WorkStart ==
  /\ work = "idle" /\ pending = "yes"
  /\ pending' = "no" /\ work' = "mutex" /\ fullReset' = "yes" /\ attempts' = 0
  /\ UNCHANGED <<chip, slipped, mutexVars, pc, order, answer, msgSeq, mailVars, napi,
                 mcuReset, outcome>>

\* Mutant: the attempt does without dev.mutex.
WorkLockNot ==
  /\ work = "mutex"
  /\ work' = "mark" /\ attempts' = attempts + 1 /\ outcome' = "ok"
  /\ UNCHANGED <<chip, slipped, mutexVars, pc, order, answer, msgSeq, mailVars, napi,
                 mcuReset, pending,
                 fullReset>>

WorkLock ==
  /\ work = "mutex" /\ devMutex = "free"
  /\ devMutex' = Reset /\ work' = "mark" /\ attempts' = attempts + 1 /\ outcome' = "ok"
  /\ UNCHANGED <<chip, slipped, mcuMutex, pc, order, answer, msgSeq, mailVars, napi,
                 mcuReset, pending,
                 fullReset>>

\* A step of mac_reset that leads from one stage to the next.
Stage(from, to) == work = from /\ work' = to /\ UNCHANGED <<fullReset, attempts, mutexVars>>

\* mac_reset is not supported on this chip: -EOPNOTSUPP.
RefuseReset ==
  /\ chip = "mt7927" /\ Stage("mark", "unlock") /\ outcome' = "error"
  /\ UNCHANGED <<chip, slipped, pc, order, answer, msgSeq, mailVars, napi, mcuReset, pending>>

\* MT76_MCU_RESET is set, and sleepers are woken.
MarkReset ==
  /\ chip = "mt7925" /\ Stage("mark", "purge") /\ mcuReset' = "set"
  /\ UNCHANGED <<chip, slipped, pc, order, answer, msgSeq, mailVars, napi, pending, outcome>>

\* NAPI still runs: answers can come in behind the purge.
PurgeAnswers ==
  /\ Stage("purge", "quiet") /\ resQ' = <<>>
  /\ UNCHANGED <<chip, slipped, pc, order, answer, msgSeq, fw, rx, napi, mcuReset, pending,
                 outcome>>

DisableNapi ==
  /\ Stage("quiet", "wpdma") /\ napi' = "off"
  /\ UNCHANGED <<chip, slipped, pc, order, answer, msgSeq, mailVars, mcuReset, pending,
                 outcome>>

\* mt792x_wpdma_reset: the rings are cleaned; commands already fetched are
\* forgotten if the firmware obeys the reset, at whose result mac_reset does
\* not look.
ResetRings ==
  /\ Stage("wpdma", "enable") /\ rx' = <<>>
  /\ fw' \in SUBSET fw
  /\ UNCHANGED <<chip, slipped, pc, order, answer, msgSeq, resQ, napi, mcuReset, pending,
                 outcome>>

EnableNapi ==
  /\ Stage("enable", "clear") /\ napi' = "on"
  /\ UNCHANGED <<chip, slipped, pc, order, answer, msgSeq, mailVars, mcuReset, pending,
                 outcome>>

\* The flag is cleared before the own commands of the reset.
ClearReset ==
  /\ Stage("clear", "own") /\ mcuReset' = "clear" /\ slipped' = 0
  /\ UNCHANGED <<chip, pc, order, answer, msgSeq, mailVars, napi, pending, outcome>>

\* The handshakes: a failure ends the attempt.
ResetOwn ==
  /\ \/ Stage("own", "load") /\ Goto(Reset, "ready") /\ UNCHANGED outcome
     \/ Stage("own", "unlock") /\ outcome' = "error" /\ UNCHANGED pc
  /\ UNCHANGED <<chip, slipped, order, answer, msgSeq, mailVars, napi, mcuReset, pending>>

\* run_firmware and what follows end, maybe for another failure than that of a
\* command; after a failed command only the patch semaphore is given back.
LoadEnd ==
  /\ Stage("load", "unlock") /\ pc[Reset] = "ready"
  /\ outcome' \in {outcome, "error"}
  /\ Goto(Reset, "idle")
  /\ UNCHANGED <<chip, slipped, order, answer, msgSeq, mailVars, napi, mcuReset, pending>>

\* dev.mutex is given back; the next attempt, or the end of the reset,
\* successful or not.
WorkUnlock ==
  /\ work = "unlock"
  /\ devMutex' = "free"
  /\ work' = IF outcome = "error" /\ attempts < MaxAttempts THEN "mutex" ELSE "finish"
  /\ UNCHANGED <<chip, slipped, mcuMutex, pc, order, answer, msgSeq, mailVars, napi,
                 mcuReset, pending,
                 fullReset, attempts, outcome>>

\* From here on requests for a reset are heard again.
WorkFinish ==
  /\ work = "finish"
  /\ work' = "connect" /\ Goto(Reset, "ready") /\ fullReset' = "no"
  /\ attempts' = 0 /\ outcome' = "ok"
  /\ UNCHANGED <<chip, slipped, mutexVars, order, answer, msgSeq, mailVars, napi, mcuReset,
                 pending>>

\* The interfaces are connected again, without dev.mutex; errors are ignored.
WorkEnd ==
  /\ Stage("connect", "idle") /\ pc[Reset] = "ready"
  /\ Goto(Reset, "idle")
  /\ UNCHANGED <<chip, slipped, order, answer, msgSeq, mailVars, napi, mcuReset, pending,
                 outcome>>

WorkNext == \/ WorkStart \/ RefuseReset \/ MarkReset \/ PurgeAnswers \/ DisableNapi \/ ResetRings
            \/ EnableNapi \/ ClearReset \/ ResetOwn \/ WorkUnlock \/ WorkFinish

Next ==
  \/ \E t \in Threads : Begin(t) \/ LockMcu(t) \/ Deadline(t) \/ ThreadStep(t)
  \/ FwAnswer \/ RxEvent \/ AskReset
  \/ \E t \in Ops : OpCall(t) \/ OpLock(t) \/ OpEnd(t)
  \/ \E t \in Hints : HintCall(t)
  \/ WorkNext \/ WorkLock \/ LoadEnd \/ WorkEnd

Spec == Init /\ [][Next]_vars

\* Threads run, time passes, mutexes are handed on fairly and no holder of
\* dev.mutex sends commands for ever; nothing obliges the firmware to answer.
Fairness ==
  /\ WF_vars(\E t \in Threads : ThreadStep(t) \/ Deadline(t))
  /\ \A t \in Ops : SF_vars(OpLock(t) \/ LockMcu(t)) /\ SF_vars(OpEnd(t))
  /\ WF_vars(WorkNext)
  /\ SF_vars(WorkLock \/ LockMcu(Reset)) /\ SF_vars(LoadEnd \/ WorkEnd)

FairSpec == Spec /\ Fairness
-----------------------------------------------------------------------------
TypeOK ==
  /\ chip \in Chips
  /\ devMutex \in Threads \cup {"free"} /\ mcuMutex \in Threads \cup {"free"}
  /\ pc \in [Threads -> {"idle", "want", "ready", "lock", "send", "queue", "check",
                         "sleep", "woken", "unlock"}]
  /\ order \in [Threads -> [cmd : Commands \cup {"none"}, seq : 0 .. LastSeq,
                            late : {"yes", "no"}]]
  /\ answer \in [Threads -> -1 .. LastSeq] /\ msgSeq \in 0 .. LastSeq
  /\ fw \subseteq Messages /\ rx \in Seq(Messages) /\ resQ \in Seq(Messages)
  /\ napi \in {"on", "off"} /\ mcuReset \in {"set", "clear"}
  /\ pending \in {"yes", "no"} /\ fullReset \in {"yes", "no"}
  /\ work \in {"idle", "mutex", "mark", "purge", "quiet", "wpdma", "enable", "clear",
               "own", "load", "unlock", "finish", "connect"}
  /\ attempts \in 0 .. MaxAttempts /\ outcome \in {"ok", "error"}
  /\ slipped \in Nat

\* What a sender accepts is the answer to its own command, or to one that lies
\* a whole round of numbers back: late answers, answers that nobody waited for
\* and those that survive a reset are dropped (mt7925_mcu_parse_response).
AcceptedIsOwn == \A t \in Threads : answer[t] \in {-1, 0, LastSeq}

InCommand(t) == pc[t] \in {"send", "queue", "check", "sleep", "woken", "unlock"}

\* The stages in which the rings are rebuilt.
Marked == {"purge", "quiet", "wpdma", "enable", "clear"}

\* Whether the rings are being rebuilt is tested without a lock
\* (mt76_dma_tx_queue_skb_raw against mt7925e_mac_reset).  Still, no command of
\* dev.mutex or of the reset itself is under way then, and of those that scan_work
\* sends without it one at most, tested before the flag was set, gets into the
\* rings.
OneMessageSlips ==
  /\ work \in Marked => mcuReset = "set" /\ \A t \in Threads : InCommand(t) => t \in Hints
  /\ slipped <= 1

\* Whoever asks for dev.mutex gets it, sends its commands and returns, again and
\* again, even if the firmware is dead and every reset fails
\* (mt76_mcu_skb_send_and_get_msg).
OpReturns == \A t \in Ops : []<>(pc[t] = "idle")
=============================================================================
