---------------------------- MODULE MCPowerSave ----------------------------
(* Small instances of PowerSave for TLC.                                   *)
EXTENDS PowerSave, TLC

CONSTANTS x1, x2, be

XmitterSymmetry == Permutations({x1, x2})
============================================================================
