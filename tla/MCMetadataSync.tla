---------------------------- MODULE MCMetadataSync ----------------------------
(***************************************************************************)
(* Small instances of MetadataSync for TLC: one Device, with one attribute *)
(* an update event reaches (label), one it does not (admin) and one an add *)
(* event does not carry over (tags).                                       *)
(***************************************************************************)
EXTENDS MetadataSync, TLC

CONSTANTS loop, app, d1, label, admin, tags

OneDevice     == {d1}
EventsAlone   == {loop}
WithApp       == {loop, app}
LabelAdmin    == {label, admin}
LabelTags     == {label, tags}
OnlyLabel     == {label}
Bits          == {0, 1}
OneValue      == {0}
NoneAtAll     == {}
PatchOnly     == {"patch"}
AddOnly       == {"add"}
DeleteOnly    == {"delete"}
UpdateOnly    == {"update"}
AllOps        == {"add", "update", "delete"}
=============================================================================
