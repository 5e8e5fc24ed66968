----------------------------- MODULE FrameFifo -----------------------------
(***************************************************************************)
(* What a transmit ring promises, without descriptors and indices: frames  *)
(* are completed in the order in which they were queued, one at a time,    *)
(* each exactly once, and none disappears.                                 *)
(***************************************************************************)
CONSTANTS Frames, None

VARIABLES
  waiting,  \* the queued frames
  before,   \* their order: the pairs of a frame and one that was queued later
  hand      \* the frame that is being completed, or None

fifoVars == <<waiting, before, hand>>

Init == waiting = {} /\ before = {} /\ hand = None

Put(f) ==
  /\ hand # f /\ f \notin waiting
  /\ waiting' = waiting \cup {f}
  /\ before' = before \cup (waiting \X {f})
  /\ UNCHANGED hand

Oldest(f) == f \in waiting /\ \A g \in waiting : <<g, f>> \notin before

Take(f) ==
  /\ hand = None /\ Oldest(f)
  /\ hand' = f
  /\ waiting' = waiting \ {f}
  /\ before' = {p \in before : f \notin {p[1], p[2]}}

Complete == hand # None /\ hand' = None /\ UNCHANGED <<waiting, before>>

Next == (\E f \in Frames : Put(f) \/ Take(f)) \/ Complete

Spec == Init /\ [][Next]_fifoVars

\* Of two queued frames one was queued before the other, and only one of them:
\* it is never open which frame is taken next.
QueueOrder ==
  \A f, g \in waiting : f # g => (<<f, g>> \in before <=> <<g, f>> \notin before)
============================================================================
