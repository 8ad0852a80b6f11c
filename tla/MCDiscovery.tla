----------------------------- MODULE MCDiscovery -----------------------------
(***************************************************************************)
(* Small instances of Discovery and ProfileScan for TLC: two requests and  *)
(* two ids of each kind, one DELETE of a discovery and two of scans, a     *)
(* scheduler, one Device and one profile name.  The two share no state, so *)
(* a behaviour here has requests of one kind only: every interleaving      *)
(* within a kind is there.                                                 *)
(***************************************************************************)
EXTENDS Naturals, FiniteSets, TLC

CONSTANTS Request, StopCall, Id, Device, Scan, StopScan, RequestId, Blank, Profile, Nobody, Nothing

\* Nobody and Nothing are no requests, and the scheduler's discoveries nobody's.
ASSUME DiscoveryAssumption ==
  /\ {Nobody, "scheduled"} \intersect Request = {}
  /\ Nothing \notin Scan

VARIABLES
  run, id, stopEvents, thread, signalled, progress, stop, crossed, down,
  known, outer, inner, of, into, rid, scanEvents, told, word, profiles, verdict, stops

D == INSTANCE Discovery
S == INSTANCE ProfileScan

discoveryVars == <<run, id, stopEvents, thread, signalled, progress, stop, crossed, down>>
scanVars ==
  <<known, outer, inner, of, into, rid, scanEvents, told, word, profiles, verdict, stops>>

Init == D!Init /\ S!Init

DiscoveryStep == S!Init /\ D!Next /\ UNCHANGED scanVars
ScanStep == D!Init /\ S!Next /\ UNCHANGED discoveryVars

Next == DiscoveryStep \/ ScanStep

Spec == Init /\ [][Next]_<<discoveryVars, scanVars>>

FairSpec == Spec /\ D!Fairness /\ S!Fairness

\* A DELETE misses a discovery or a scan, or fails, only because of another request or
\* DELETE: one that took its id or thread, stopped it first, or had recorded a thread it
\* had not started; and no stop event outlives its discovery.
StopsMissForCause ==
  /\ D!UnstoppableForCause /\ D!FailedByAnother /\ D!EventsAreOfRuns
  /\ S!UnreachedForCause

\* One name, one profile, however many scans were let in for it.
ScansAddOnce == S!ScansAddOnce

\* Announced discoveries are seen to end, accepted scans are judged.
StartedWorkEnds == D!RunsEnd /\ S!ScansAreJudged

\* The last progress of a scan that nobody stopped tells how it ended.
LastWordIsTrue == S!LastWordIsTrue
=============================================================================
