--------------------------- MODULE DiscoveredPump ---------------------------
(***************************************************************************)
(* The pump of discovered devices (DeviceService._start_async_pumps and    *)
(* _process_discovered_devices): it takes the lists that the driver puts   *)
(* into the channel, matches each device against the provision watchers as *)
(* they were when it took the list, and adds what matches and is not known *)
(* to the cache and to Core Metadata.                                      *)
(***************************************************************************)
EXTENDS Naturals, Sequences

CONSTANTS
  Candidate,    \* names of devices that discover() may find
  Batches,      \* the lists of them it may put into the channel
  Watcher,      \* provision watchers
  Matches,      \* which candidates match which watcher, as <<candidate, watcher>>
  MaxFinds      \* bound: lists that are found

VARIABLES
  channel,      \* _discovered_device_channel, unbounded
  finds,        \* how many lists the driver has found
  unlocked,     \* the watchers of the cache that are not locked
  known,        \* Devices().for_name finds these
  pump,         \* where the pump is
  batch,        \* the rest of its list
  snapshot,     \* the unlocked watchers when it took the list
  down          \* _shutdown_event

pumpVars == <<channel, finds, unlocked, known, pump, batch, snapshot, down>>

PumpInit ==
  /\ channel = <<>> /\ finds = 0
  /\ unlocked \in SUBSET Watcher
  /\ known = {}
  /\ pump = "idle" /\ batch = <<>> /\ snapshot = {}
  /\ down = FALSE

-----------------------------------------------------------------------------
(* The driver, and the rest of the service. *)

Find(found) ==
  /\ finds < MaxFinds
  /\ channel' = Append(channel, found)
  /\ finds' = finds + 1
  /\ UNCHANGED <<unlocked, known, pump, batch, snapshot, down>>

\* A watcher is locked, unlocked, added or removed; the pump works on clones.
Relock(w) ==
  /\ unlocked' = (unlocked \ {w}) \union ({w} \ unlocked)
  /\ UNCHANGED <<channel, finds, known, pump, batch, snapshot, down>>

\* The application or Core Metadata adds or removes a Device.
Other(d) ==
  /\ known' = (known \ {d}) \union ({d} \ known)
  /\ UNCHANGED <<channel, finds, unlocked, pump, batch, snapshot, down>>

Shutdown ==
  /\ ~ down /\ down' = TRUE
  /\ UNCHANGED <<channel, finds, unlocked, known, pump, batch, snapshot>>

-----------------------------------------------------------------------------
(* The pump. *)

TakeBatch ==
  /\ pump = "idle" /\ ~ down /\ channel # <<>>
  /\ channel' = Tail(channel)
  /\ snapshot' = unlocked
  /\ batch' = Head(channel)
  /\ pump' = "match"
  /\ UNCHANGED <<finds, unlocked, known, down>>

Matched(d) == \E w \in snapshot : <<d, w>> \in Matches

\* The list is done; without a watcher it was not looked at.
BatchDone ==
  /\ pump = "match" /\ batch = <<>>
  /\ pump' = "idle" /\ snapshot' = {}
  /\ UNCHANGED <<channel, finds, unlocked, known, batch, down>>

NextInBatch ==
  /\ batch' = Tail(batch)
  /\ UNCHANGED <<channel, finds, unlocked, snapshot, down>>

\* No watcher wants it, or the cache knows the Device by now.
Skip ==
  /\ pump = "match" /\ batch # <<>>
  /\ ~ Matched(Head(batch)) \/ Head(batch) \in known
  /\ NextInBatch
  /\ UNCHANGED <<known, pump>>

\* The Device is cached first (DeviceWriteback.tla has the whole call).
AddDevice ==
  /\ pump = "match" /\ batch # <<>>
  /\ Matched(Head(batch)) /\ Head(batch) \notin known
  /\ known' = known \union {Head(batch)}
  /\ pump' = "request"
  /\ UNCHANGED <<channel, finds, unlocked, batch, snapshot, down>>

\* Mutant: an add that fails ends the thread.
RegisteredOrDead ==
  /\ pump = "request"
  /\ \/ UNCHANGED known /\ pump' = "match" /\ NextInBatch
     \/ /\ known' = known \ {Head(batch)} /\ pump' = "stopped"
        /\ UNCHANGED <<channel, finds, unlocked, batch, snapshot, down>>

\* Core Metadata has taken it, or the cache forgets it; the next one has its turn.
Registered ==
  /\ pump = "request"
  /\ known' \in {known, known \ {Head(batch)}}
  /\ pump' = "match"
  /\ NextInBatch

\* The loop looks at the shutdown between two lists.
PumpStops ==
  /\ pump = "idle" /\ down
  /\ pump' = "stopped"
  /\ UNCHANGED <<channel, finds, unlocked, known, batch, snapshot, down>>

Pump == TakeBatch \/ BatchDone \/ Skip \/ AddDevice \/ Registered \/ PumpStops

PumpNext ==
  \/ Pump \/ Shutdown
  \/ \E found \in Batches : Find(found)
  \/ \E w \in Watcher : Relock(w)
  \/ \E d \in Candidate : Other(d)

PumpFairness == WF_pumpVars(Pump)

-----------------------------------------------------------------------------
(* Properties. *)

\* The pump gets through every list that is found, whatever Core Metadata refuses, until the
\* service stops.
FoundAreHandled == []<>(down \/ (channel = <<>> /\ batch = <<>>))
=============================================================================
