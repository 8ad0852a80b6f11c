----------------------------- MODULE MCAutoEvents -----------------------------
(***************************************************************************)
(* Small instances of AutoEvents for TLC.                                  *)
(***************************************************************************)
EXTENDS AutoEvents, TLC

CONSTANTS c1, c2, p1, s1, s2

OneCaller     == {c1}
TwoCallers    == {c1, c2}
OnePatcher    == {p1}
NoPatcher     == {}
NoSource      == {}
SecondSource  == {s2}
OneSource     == {s1}
TwoSources    == {s1, s2}
AllCalls      == {"add", "remove"}
NoChanges     == {}
AllChanges    == {"block", "replace", "remove"}
BlockOnly     == {"block"}
=============================================================================
