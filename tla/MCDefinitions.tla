---------------------------- MODULE MCDefinitions ----------------------------
(***************************************************************************)
(* A small instance of Definitions for TLC: a profile, a watcher with a    *)
(* field of each kind, one caller and one other user of Core Metadata.     *)
(***************************************************************************)
EXTENDS Definitions

CONSTANTS p1, w1, c1, identifiers, labels

Profile1 == {p1}
Watcher1 == {w1}
Caller1  == {c1}
Editions == {0, 1}
Fields2  == {identifiers, labels}
Added1   == {identifiers}
=============================================================================
