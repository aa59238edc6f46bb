--------------------------- MODULE MCHostPowerSave ---------------------------
(* Instances of HostPowerSave for TLC.                                      *)
EXTENDS HostPowerSave, TLC

CONSTANTS t1, t2

TaskSymmetry == Permutations({t1, t2})
=============================================================================
