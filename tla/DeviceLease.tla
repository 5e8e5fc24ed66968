---------------------------- MODULE DeviceLease ----------------------------
(***************************************************************************)
(* What runtime power management promises, without its works and locks:    *)
(* the device is a lease.  A user enters only while the device is awake,   *)
(* the device dozes off only when it has no user, and it wakes only once   *)
(* it is usable again.                                                     *)
(***************************************************************************)
CONSTANT Users

VARIABLES
  state,  \* "awake" or "doze"
  chip,   \* "usable" or "lost"
  users   \* who is using the device

leaseVars == <<state, chip, users>>

Init == state = "awake" /\ chip = "usable" /\ users = {}

Enter(u) ==
  /\ state = "awake" /\ chip = "usable"
  /\ users' = users \cup {u}
  /\ UNCHANGED <<state, chip>>

Leave(u) ==
  /\ users' = users \ {u}
  /\ UNCHANGED <<state, chip>>

Doze ==
  /\ users = {}
  /\ state' = "doze"
  /\ UNCHANGED <<chip, users>>

\* While the device sleeps the ownership handshakes go on.
Handshake ==
  /\ state = "doze"
  /\ chip' \in {"usable", "lost"}
  /\ UNCHANGED <<state, users>>

Rouse ==
  /\ state = "doze" /\ state' = "awake"
  /\ chip' = "usable"
  /\ UNCHANGED users

Next == (\E u \in Users : Enter(u) \/ Leave(u)) \/ Doze \/ Handshake \/ Rouse

Spec == Init /\ [][Next]_leaseVars
============================================================================
