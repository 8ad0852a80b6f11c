----------------------------- MODULE MetadataSync -----------------------------
(***************************************************************************)
(* The write-back of DeviceWriteback composed with the other direction:    *)
(* Core Metadata publishes a system event for every change of a Device,    *)
(* whoever asked for it, and the service's system-events thread            *)
(* (internal/controller/messaging/callback.py) applies the events to the   *)
(* cache through DeviceService._on_device_added / _updated / _deleted.     *)
(*                                                                         *)
(* The update and delete handlers are ordinary write-back calls: they      *)
(* change the cache, then send the change to Core Metadata again.  So the  *)
(* events thread is one of the callers of DeviceWriteback, and what it     *)
(* sends can be published back to it.                                      *)
(***************************************************************************)
EXTENDS DeviceWriteback, Sequences

CONSTANTS
  EventsThread,   \* the caller that runs the system-events loop
  QueueSize,      \* maxsize of the topic queue (256 in the code)
  AppOps,         \* what the application's own threads call
  UserOps,        \* what users do to Devices through Core Metadata
  Copied,         \* attributes that _on_device_added takes from an event
  Patched,        \* attributes whose name in an event (camelCase) is also the
                  \* name of the Device's field, so that an update reaches it
  Default         \* what a Device holds in the fields nobody sets

ASSUME SyncAssumption ==
  /\ EventsThread \in Caller
  /\ QueueSize \in Nat \ {0}
  /\ AppOps \subseteq Op /\ UserOps \subseteq {"add", "update", "delete"}
  /\ Copied \subseteq Attr /\ Patched \subseteq Attr
  /\ Default \in Value

VARIABLES
  events,     \* the topic queue: published, not yet handled
  handling,   \* the event whose handler is running, NoDevice when there is none
  driver,     \* Devices the ProtocolDriver has been told to add, not to remove
  dropped,    \* history: Devices one of whose events met a full queue
  touched     \* history: Devices on which a thread of the application has worked

syncVars == <<vars, events, handling, driver, dropped, touched>>

Application == Caller \ {EventsThread}

Event == [action : {"add", "update", "delete"}, dev : Device, details : Entry]

ASSUME EventAssumption == NoDevice \notin Event

-----------------------------------------------------------------------------
(* Core Metadata publishes; _new_message_handler queues or drops. *)

Publish(action, d) ==
  IF Len(events) < QueueSize
  THEN /\ events' = Append(events, [action |-> action, dev |-> d,
                                    details |-> metadata'[d]])
       /\ UNCHANGED dropped
  ELSE /\ dropped' = dropped \union {d}
       /\ UNCHANGED events

ActionOf == [add |-> "add", patch |-> "update", remove |-> "delete"]

\* Users change Devices through Core Metadata's own API.
UserEdit(d) ==
  /\ \/ /\ "add" \in UserOps /\ metadata[d] = NoDevice
        /\ \E content \in Content :
             metadata' = [metadata EXCEPT ![d] = content]
        /\ Publish("add", d)
     \/ /\ "update" \in UserOps /\ metadata[d] # NoDevice
        /\ \E content \in Content :
             metadata' = [metadata EXCEPT ![d] = content]
        /\ Publish("update", d)
     \/ /\ "delete" \in UserOps /\ metadata[d] # NoDevice
        /\ metadata' = [metadata EXCEPT ![d] = NoDevice]
        /\ Publish("delete", d)
  /\ UNCHANGED <<cache, pc, op, dev, arg, saved, outcome, late, disturbed,
                 parted, handling, driver, touched>>

\* Core Metadata publishes what this service asked for, too.
AcceptAndPublish(c) ==
  /\ Accept(c)
  /\ Publish(ActionOf[op[c]], dev[c])
  /\ UNCHANGED <<handling, driver, touched>>

LateAcceptAndPublish(r) ==
  /\ LateAccept(r)
  /\ Publish(ActionOf[r.op], r.dev)
  /\ UNCHANGED <<handling, driver, touched>>

-----------------------------------------------------------------------------
(* The system-events thread. *)

NextEvent(action) ==
  /\ handling = NoDevice
  /\ events # <<>>
  /\ Head(events).action = action
  /\ events' = Tail(events)
  /\ UNCHANGED <<driver, dropped, touched>>

\* Mutant: the Device is built from its name only.
DeviceFromName(details) == [a \in Attr |-> Default]

\* The Device _on_device_added builds from the details of the event.
DeviceFrom(details) ==
  [a \in Attr |-> IF a \in Copied THEN details[a] ELSE Default]

\* The update map _on_device_updated applies: of the details' keys only those
\* that name a field of the Device (and, sent on, an updatable field).
UpdatesFrom(details) == [a \in Patched |-> details[a]]

\* Mutant: only Devices that are cached already are put into the cache.
HandleAddCached ==
  /\ NextEvent("add")
  /\ LET e == Head(events) IN
       IF cache[e.dev] = NoDevice
       THEN UNCHANGED <<cache, handling>>
       ELSE /\ cache' = [cache EXCEPT ![e.dev] = DeviceFrom(e.details)]
            /\ handling' = e
  /\ UNCHANGED <<metadata, pc, op, dev, arg, saved, outcome, late, disturbed,
                 parted>>

\* _on_device_added up to the driver's callback.  The loop swallows the CacheError
\* raised when the Device is cached already.
HandleAdd ==
  /\ NextEvent("add")
  /\ LET e == Head(events) IN
       IF cache[e.dev] # NoDevice
       THEN UNCHANGED <<cache, handling>>
       ELSE /\ cache' = [cache EXCEPT ![e.dev] = DeviceFrom(e.details)]
            /\ handling' = e
  /\ UNCHANGED <<metadata, pc, op, dev, arg, saved, outcome, late, disturbed,
                 parted>>

\* _on_device_updated: _patch_device_impl, on this thread.
HandleUpdate ==
  /\ NextEvent("update")
  /\ LET e == Head(events) IN
       /\ PatchBegin(EventsThread, e.dev, UpdatesFrom(e.details))
       /\ handling' = e

\* _on_device_deleted: remove_device_by_name, on this thread.
HandleDelete ==
  /\ NextEvent("delete")
  /\ LET e == Head(events) IN
       /\ RemoveBegin(EventsThread, e.dev)
       /\ handling' = e

\* The handler's last line: the driver is told, unless the call before it raised.
Raised == handling.action # "add" /\ outcome[EventsThread] \notin {"ok", "skipped"}

\* Mutant: the driver's remove_device callback is never called.
TellDriverOfAddsOnly ==
  IF handling.action = "add" THEN driver \union {handling.dev} ELSE driver

TellDriver ==
  CASE handling.action = "add"    -> driver \union {handling.dev}
    [] handling.action = "update" -> driver
    [] handling.action = "delete" -> driver \ {handling.dev}

Handled ==
  /\ handling # NoDevice
  /\ pc[EventsThread] = "idle"
  /\ driver' = IF Raised THEN driver ELSE TellDriver
  /\ handling' = NoDevice
  /\ UNCHANGED <<vars, events, dropped, touched>>

-----------------------------------------------------------------------------
\* The driver reads the provisioned Devices itself when it starts.
SyncInit ==
  /\ Init
  /\ events = <<>>
  /\ handling = NoDevice
  /\ driver = {d \in Device : cache[d] # NoDevice}
  /\ dropped = {} /\ touched = {}

Aside == UNCHANGED <<events, handling, driver, dropped>>

\* A step of a write-back call that changes nothing in Core Metadata, which publishes
\* nothing then.  (The map of an update event was JSON before, and is sent without error.)
Silently(A) == A /\ Aside /\ UNCHANGED touched

\* A thread of the application calls a Device method.
AppBegin(c) ==
  /\ Begin(c) /\ op'[c] \in AppOps
  /\ touched' = touched \union {dev'[c]}
  /\ Aside

Events == HandleAdd \/ HandleUpdate \/ HandleDelete \/ Handled

SyncNext ==
  \/ \E d \in Device : UserEdit(d)
  \/ \E c \in Application :
       AppBegin(c) \/ Silently(ValidationFails(c)) \/ Silently(Unserializable(c))
  \/ \E c \in Caller :
       \/ Silently(Work(c) \/ Refuse(c) \/ Timeout(c) \/ RefusedInside(c))
       \/ AcceptAndPublish(c)
  \/ \E r \in late : LateAcceptAndPublish(r) \/ Silently(LateLoss(r))
  \/ Events

SyncSpec == SyncInit /\ [][SyncNext]_syncVars

\* The threads keep running, the HTTP client times out, the loop polls for ever.
SyncFairness ==
  /\ \A c \in Caller : WF_syncVars(Silently(Work(c)))
                       /\ WF_syncVars(Silently(Timeout(c)))
  /\ WF_syncVars(Events)

FairSyncSpec == SyncSpec /\ SyncFairness

-----------------------------------------------------------------------------
\* Types; the topic queue never holds more than its maxsize.
SyncTypeOK ==
  /\ TypeOK
  /\ events \in Seq(Event) /\ Len(events) <= QueueSize
  /\ handling \in Event \union {NoDevice}
  /\ driver \subseteq Device
  /\ dropped \subseteq Device /\ touched \subseteq Device

\* A Device that Core Metadata holds and the cache lacks is on its way: its add
\* event is queued, or some call is at work on it.
Coming(d) ==
  \/ \E i \in DOMAIN events : events[i].dev = d /\ events[i].action = "add"
  \/ Active(d) # {}

\* No Device of Core Metadata is lost on the way to the cache: not by the loop, not by
\* a handler that fails half-way, not by the rollback of a delete whose Device has been
\* added again.  (An application that adds Devices itself breaks this: its add may time
\* out and arrive late.)
NothingForgotten ==
  \A d \in Device \ dropped :
    metadata[d] # NoDevice /\ cache[d] = NoDevice => Coming(d)

\* Every Device the driver serves is cached, unless it is being removed right now:
\* the cache write of a delete and the driver's callback are two steps with an HTTP
\* call in between, and the second only follows a delete that was not rolled back.
DriverServesCached ==
  \A d \in driver :
    cache[d] = NoDevice =>
      handling # NoDevice /\ handling.action = "delete" /\ handling.dev = d

\* A Device that stays in Core Metadata is eventually in the cache, unless one of
\* its events met a full queue: nothing ever asks Core Metadata again.
EventuallyCached ==
  \A d \in Device :
    []<>(metadata[d] = NoDevice \/ cache[d] # NoDevice \/ d \in dropped)

\* "Device Services must subscribe to these topics to keep their cache in sync
\* with Core Metadata": with every event handled, the two agree.
CacheFollowsMetadata ==
  \A d \in Device \ dropped :
    /\ events = <<>> /\ handling = NoDevice /\ late = {}
    /\ \A c \in Caller : pc[c] = "idle"
    => cache[d] = metadata[d]

\* An event whose handler ends without an error has reached what it can reach: the
\* fields that _on_device_added copies, those that _on_device_updated knows by their
\* name, and the absence of a deleted Device.  Whatever the users of Core Metadata do
\* meanwhile, the handler's own call does not bring back what it replaced.  (Only a
\* Device of the application's own may have been changed again by then.)
EventsReachFields ==
  [][LET d == handling.dev
         Holds(attrs) == \A a \in attrs : cache[d][a] = handling.details[a]
     IN handling # NoDevice /\ handling' = NoDevice /\ ~Raised /\ d \notin touched
          => CASE handling.action = "add"    -> cache[d] # NoDevice /\ Holds(Copied)
               [] handling.action = "update" -> cache[d] # NoDevice /\ Holds(Patched)
               [] handling.action = "delete" -> cache[d] = NoDevice]_syncVars

\* "All _on_* handlers delegate to application/callback.py", which never calls Core
\* Metadata: handling an event reads the news and changes nothing there.
EventsOnlyReadMetadata ==
  [][handling # NoDevice /\ pc[EventsThread] = "request"
       /\ pc'[EventsThread] = "idle" => metadata' = metadata]_syncVars
=============================================================================
