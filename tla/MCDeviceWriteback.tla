-------------------------- MODULE MCDeviceWriteback --------------------------
(***************************************************************************)
(* Small instances of DeviceWriteback for TLC.                             *)
(***************************************************************************)
EXTENDS DeviceWriteback, TLC

CONSTANTS c1, c2, d1, a1

OneDevice   == {d1}
TwoCallers  == {c1, c2}
OneAttr     == {a1}
Bits        == {0, 1}
OneValue    == {0}
=============================================================================
