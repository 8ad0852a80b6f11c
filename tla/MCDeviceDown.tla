----------------------------- MODULE MCDeviceDown -----------------------------
(***************************************************************************)
(* Small instances of DeviceDown for TLC: one or two command threads.      *)
(***************************************************************************)
EXTENDS DeviceDown, TLC

CONSTANTS c1, c2

OneCaller  == {c1}
TwoCallers == {c1, c2}
Symmetry   == Permutations(TwoCallers)
=============================================================================
