# A verification development for device-sdk-python

TLA+ models of the EdgeX Device Service SDK for Python
(`src/src/device_sdk_py`), the TLC runs that check them and the proofs that
TLAPS checks. The definitions follow the source; where a document or a comment
says something else, a run or a configuration shows the difference.

Paths below are relative to `src/src/device_sdk_py`; *DS* is
`service/device_service.py`.

## 1. The system

A Device Service connects Devices to EdgeX. It caches the Devices, profiles and
provision watchers it is responsible for, keeps them in step with *Core
Metadata*, executes read and write commands through a *ProtocolDriver* that the
user of the SDK writes, reads *AutoEvents* on a schedule and publishes what it
reads.

| Component | State | Operations | Works with | Module |
|---|---|---|---|---|
| Device cache, `internal/cache/devices.py` | name -> Device; a lock held for one operation at a time; `for_name` returns a clone | `add`, `update`, `remove_by_name`, `for_name` | everything | `DeviceWriteback` |
| Device write-back, DS 208-402, 2390-2470 | the locals of a call | add, update, patch, mark, remove: change the cache, send to Core Metadata, undo on `MetadataError` | cache, `internal/metadata` | `DeviceWriteback`, `DeviceStore` |
| Profile and watcher caches and write-back, `internal/cache`, DS 406-604, 2472-2605 | a profile map and two derived maps; a watcher map | as for Devices | metadata client, events | `ProfileMaps`, `Definitions` |
| System events, `controller/messaging/callback.py`, DS 1944-2086 | one queue of 256 messages per topic, dropped from when full | one thread looks at the topics in turn and calls `_on_*` | caches, write-back, driver | `MetadataSync`, `Definitions` |
| Commands, `internal/application/command.py` | `_allowed_request_failures`: name -> count, no lock | `command_read`, `command_write`; mark DOWN and UP | caches, driver, transformers | `DeviceDown`, `Commands` |
| Transformers, `internal/transformer` | the last origin | mask, shift, base, scale, offset, limits, mapping, assertion, event | commands, async pump | `Values`, `Commands`, `AsyncPump` |
| Device-return pump, DS 1726-1779 | none | reads each DOWN Device every `device_down_timeout` seconds | commands | `DeviceDown` |
| AutoEvents, `internal/autoevent` | name -> list of executors; per executor a thread, a stop event, last readings | start, restart, add / remove an AutoEvent, compare readings | cache, driver, channel | `AutoEvents`, `OnChange` |
| Async pump, DS 1530-1645 | bounded channel of readings | transform, publish, send to Core Data | AutoEvents, driver | `AsyncPump`, `AutoEvents` |
| Discovered-device pump, DS 1646-1724 | channel of found Devices | match with watchers, add | write-back, watchers | `DiscoveredPump` |
| MQTT client, `controller/messaging/client.py` | connection, callbacks, subscriptions | connect, subscribe, publish, reconnect | all that listens | `MessageBus` |
| Message-bus commands, `controller/messaging/command.py` | queue, semaphore | one thread per command, "busy" beyond the limit | commands | `MessageCommands` |
| Device validation, `controller/messaging/validation.py` | unbounded queue | ask the driver, answer | driver | `DeviceValidation` |
| Discovery, profile scan, `internal/autodiscovery`, `http/discovery.py`, DS 1781-1909 | stop events by request, one thread reference, a lock | start, stop, progress | driver, write-back | `Discovery`, `ProfileScan` |
| Core Data / Core Command clients, `internal/clients` | circuit breaker, event queue | send, batch, flush, close | async pump | `CoreClients` |
| Lifecycle, DS 1185-1526, registry client | threads, shutdown event | `run`, `stop`, register, deregister | everything | `Lifecycle` |
| Start-up resources, `internal/provision`, DS 673-1181 | caches | load files, register with Core Metadata | caches, metadata client | `SelfRegistration` |
| Custom configuration, DS 2185-2286 | a thread and a stop event per section | listen, replace, poll, call back | application | `ConfigWatch` |
| Secrets, `internal/clients/secret.py`, `http/secret.py` | pairs of a path; token, expiry, renewal thread | store, delete, renew, close | driver, HTTP | `Secrets`, `TokenRenewal` |
| Application callbacks, device return and profile scan of `internal/application`; TLS; metrics; configuration parsing; HTTP routing | - | not called, or no state that others read | - | not modelled |

What is hard here, and what makes each part correct:

* **Two copies of everything, and no transaction.** The cache is changed
  first, Core Metadata second, and a failure of the second undoes the first.
  The lock covers one cache operation, not a call, so any number of threads
  interleave between check, write, request and rollback. Correct means: the two
  copies agree when nobody is at work on an item.
* **The change comes back.** Core Metadata publishes an event for each change,
  also for those the service asked for. Correct means: the caches end up with
  what Core Metadata has, and only its owner's word removes an item.
* **Counting failures without a lock.** Correct means: `AllowedFails` failures in
  a row, no fewer and no more, take a Device out of service; one success brings
  it back.
* **A profile is looked up several times in one command.** Correct means: the
  driver gets values of the type and within the limits, and what is set reads
  back.
* **Threads that start and stop threads**: executors, discoveries, scans, config
  watches, token renewals. Correct means: one for each purpose, none that cannot
  be stopped, none that never ends, and stops that reach their target.
* **Bounded queues and permits.** Topic queues drop, the values channel blocks,
  the semaphore answers busy. Correct means: permits come back, nobody is told
  what did not happen, what is queued is served.
* **Requesters that get no answer, and subscribers that see a part.** Correct
  means: silence has a known cause; a subscriber of changes is at most a margin
  behind.

`PROJECT.json` lists the hazards, each at its line with the properties that
watch it, or the reason why none does.

## 2. The modules

```
DeviceStore <--refined by-- DeviceWriteback <--EXTENDS-- MetadataSync
ProfileMaps <--EXTENDS-- Definitions
MessageBus  <--EXTENDS-- MessageCommands <--EXTENDS-- DeviceValidation
Values      <--EXTENDS-- Commands
DeviceDown   AutoEvents   CoreClients

MCDiscovery  = Discovery | ProfileScan
MCLifecycle  = SelfRegistration | Lifecycle | ConfigWatch | Secrets | TokenRenewal
MCReadings   = Commands | OnChange | AsyncPump | DiscoveredPump
```

A module that EXTENDS another adds actors to it. The three MC modules of the
second list put modules side by side that share no variable (what one needs of
another is a choice of outcomes in it): in a behaviour one of them steps and the
others rest in an initial state, so that every interleaving within each is
there and the products are not.

### DeviceWriteback, DeviceStore

Cache and Core Metadata are functions from names to Devices; a Device is what
its patchable attributes hold. Every thread has a program counter, the call it
runs, the snapshot it took and the outcome of its last call.

| Action | Code |
|---|---|
| `AddBegin`, `PatchBegin`, `RemoveBegin` | the existence check of the public methods, DS 208-402 |
| `Clone` | `for_name` and `clone` in `_patch_...` and `_delete_...`, DS 2426-2431, 2457-2459 |
| `AddWrite`, `PatchWrite`, `RemoveWrite`, `ValidationFails` | `_validate_device` and the one cache operation, under the cache's lock |
| `Accept`, `Refuse`, `Timeout` | the HTTP call as `internal/metadata/client.py` reports it |
| `RefusedInside`, `Unserializable` | a 207 whose item was refused, which `_not_ok_raise` takes for success; a `TypeError`, which no one rolls back |
| `LateAccept`, `LateLoss` | what becomes of a request whose client has given up |
| `AddRollback`, `PatchRollback`, `RemoveRollback` | the `except MetadataError` clauses |

An attribute's `None` ("leave alone") is an attribute missing from the update
map. `disturbed` is a history variable: the Devices on which two calls
overlapped or a client timed out. `parted` is another: those with a change that
failed and that the client did not take for a failure. Core Metadata is external:
it refuses to add a name it has and to change one it lacks, and may refuse
anything else, by the status of its answer or inside a 207.

`DeviceStore` is the abstract specification: what the service shows, what Core
Metadata holds, and which Devices nothing is promised about. A change is
proposed, then confirmed in the second copy as it was seen in the first, or
withdrawn without a trace. `ImplementsStore` is the refinement: `view <- cache`,
`held <- metadata`, `lost <- Lost`, the Devices that are `disturbed` or `parted`.

### MetadataSync

EXTENDS DeviceWriteback. The thread of the events loop is one of the callers;
users change Devices in Core Metadata; every accepted change is published to the
topic queue or dropped. `HandleAdd` is `_on_device_added` (a cache change and a
driver callback, no call to Core Metadata), `HandleUpdate` and `HandleDelete`
begin an ordinary patch or remove, `Handled` is the driver callback at their end
or the exception that skips it. `Copied` and `Patched` say which attributes an
add or update event reaches (`tags` is not copied by `_on_device_added`;
`adminState` names no attribute of the cached `Device`). `touched` is history:
the Devices an application thread has worked on.

### ProfileMaps, Definitions

`ProfileMaps` is the profile cache: pure operators on the three maps, each with
the maps it leaves and what it raises - a method stops where it raises, and an
event's profile holds raw dictionaries where the derived maps need models, so it
may leave half a profile (`Half`). `Definitions` adds the watcher cache, the
public methods (`Begin`, the look-up `Snapshot`, `Write`, `Accept`, `Refuse`, and
`RefusedInside` for a 207 that counts as success), the events loop over its
topics (`Look`) with both owner checks (`Accepted`), the handlers (`OnProfile`,
`OnWatcher`), and other users of Core Metadata (`Edit`, `ForeignDelete`).

### DeviceDown

One Device, its count (absent at first: `initialize_failure_tracker` has no
caller), its operating state and the threads that run commands on it. The
accesses to the dictionary are separate steps; the write-back of a mark is
`Snapshot`, `Write`, `Stored` / `NotStored`, `Rollback`. The rest of a command
is a choice between an answer and an `EdgexError`. `MarkedByOthers` is everybody
else who writes the operating state: `update_device_operating_state` called by the
application or the driver, an update of the Device, an event. `fails`, `answered`,
`refused`, `marked` and `raced` are history: `raced` says that two commands have overlapped since the
Device, while UP, last answered a command that ran by itself.

### Values, Commands

`Values` has the transformations of both directions as operators over integers
of a type's width; scale and offset are in halves, so that a fraction exists,
and an exception is a value. A width is given by the weight of its highest bit
(`half`: 128 for eight bits), a shift by the power of two that it divides or
multiplies by, and `&` is the constant operator `BitAnd`, of which `MCReadings`
makes the `&` of `Bitwise`; that one is recursive, and out of reach of a proof.
The range of a value is checked as a float, and `Float` is the constant operator
that gives the float nearest to a quotient: exact up to `Exact` (2^46 in the code,
where logarithms are told apart too), rounded beyond, so that a type may be wider
than floats are exact, as the 64-bit types are. Beyond `Greatest` a power is an
`OverflowError`, which is no `TransformerError` (`Raised`).

`Commands` has the way of a command through `command.py` in four steps between which the cache may change: `Build` (the
checks and the first look at the profile), `Shape` (the second look, limits and
transformation), the driver (`Read`, `Write`, `WriteOnly`), `Convert` (the third
look, transformation back, assertion, mapping). Between them `Reprofile` changes
or removes the profile, `Toggle` removes or adds the Device, and `Sense` changes
the value behind the driver. The option `data_transform` is chosen at the start.

### AutoEvents, OnChange

`AutoEvents` is one Device and its executors. `Pop`, `StopOld`, `Lookup`, `Claim`, `Schedule`
and `StartThread` are the steps of `restart_for_device` between which another
thread can run; `Wake`, `ReadNothing`, `ReadSomething` and `Put` those of an
executor. An interval is "some time passes". An AutoEvent in `Invalid` has no
source, or an interval that does not parse, and gets no executor. `PatchClone`,
`PatchWrite` and `PatchEnd` are the steps of whoever else writes the Device: the
whole of it is cloned, put in place with another state or other AutoEvents, and
put back as it was when Core Metadata refuses. `crossed` is history: the AutoEvents
that were edited while a patch had its clone, or replaced by one.

`OnChange` is what an executor compares: numbers by their distance from the kept
reading, binary values by a checksum. `last` is `_last_readings`; `view` is
history: what subscribers were sent last.

### MessageBus, MessageCommands, DeviceValidation

`MessageBus` is the MQTT client as its users see it: `link`, what the broker
still sends (`session`), the queues, and what was published. With a clean session
a reconnection leaves nothing subscribed. `MessageCommands` is the subscription
loop (`Take`, `Admit`) and the workers (`Execute`, `Answer`, `Push`), each early
return with its permit. `DeviceValidation` is the thread beside them.

### CoreClients

The breaker (`Pass`, `Failure`, `Success`, `Cool`) and the queue, which a worker,
an appender that fills it and `close` flush in steps: `Take` and `Cut` are the
two slices of `_flush_queue`, `Keep` the assignment. `gone` are the events in
batches that Core Data has or that failed: for `_flush_queue` these are the same.

### Discovery, ProfileScan, DiscoveredPump

Discoveries by request and by schedule, their stop events under ids that need
not differ, and the one thread reference, recorded before the thread is started
(`Record`, `Launch`), tested and cleared in separate steps (`Look`, `Join`,
`Joined`). A scan is two threads; the outer says 100 when the
inner has been started (`Complete`). The pump takes a list, a snapshot of the
watchers, and adds one Device after another.

### SelfRegistration, Lifecycle, ConfigWatch

`SelfRegistration`: files are loaded into the caches, then each entry is looked
up and added, whatever became of those before; a refusal inside a 207 looks like
an addition, and other services add and remove entries (`Other`, `Withdraw`).
`Lifecycle`: `run` step by step, with what each starts and on which condition;
`_shutdown` by `stop` and by `run` itself, at the same time if it so happens.
`from` says which thread called `stop`: one of the application's, the watch's or
the events', of which the latter two cannot join themselves. The executor of the
write-back is looked at and shut in two steps (`LookAtExecutor`, `ShutExecutor`). `ConfigWatch`: one section, its file,
the thread in charge and the one it replaced.

### Secrets, TokenRenewal

`Secrets`: the pairs of one path. In memory the path is looked for, made and filled
(`LookForPath`, `MakePath`, `Put`), or emptied, looked at and removed (`Drop`,
`Tidy`, `RemovePath`), each a step without a lock; in OpenBao a store writes the
whole path and a delete is a read and a write. `TokenRenewal`: the token, its age
in ticks, requests that read it again and that start renewal threads, and
`close`.

### AsyncPump

The channel with its blocked producers, the pump with everything that may fail
in it, and the origin that it shares with the threads of commands.

## 3. The runs

Ten runs pass. Times are of two workers.

| Run | Shows | Instance |
|---|---|---|
| `writeback` | every refusal that shows in the status is undone at every step of every call (`SyncUnlessDisturbed`); callers are surprised only after an overlap (`SurprisesNeedOverlap`); the steps are those of a store with confirmed and withdrawn changes (`ImplementsStore`) | 2 threads, 1 Device, 2 values; 1 488 000 states, 67 s |
| `sync` | following users' changes beside an application that patches: the Device is not lost on the way (`NothingForgotten`, `EventuallyCached`), what an event can reach it reaches (`EventsReachFields`), the driver serves cached Devices only (`DriverServesCached`) | 2 threads, queue of 1, 1 Device, 2 values, fair; 1 173 000 states, 133 s |
| `down` | unless commands race: DOWN after `AllowedFails` failures in a row, no fewer and no more (`ExhaustedIsDown`, `DownIsEarned`), UP after one success unless others write the state (`SuccessRestoresUp`); always: the count's bound | 2 threads, others that mark the Device, `AllowedFails` 2, counts down to -1; 5 143 000 states, 96 s |
| `auto` | one executor per AutoEvent between calls (`OneExecutorPerEvent`), none out of reach (`NoOrphans`), edits kept unless a patch crosses them (`EditsKept`), a stopped executor ends (`StoppedEnds`) | 1 caller, 1 source, 2 calls, 1 patcher that replaces and locks the Device, removal at any time, fair; 360 000 states, 126 s |
| `bus` | permits come back whatever ends a command (`PermitsAreWorkers`); a requester is told what happened, but for a refusal without a text, and silence has one of the known causes (`AnswersAreTrue`); what is queued is served (`QueuesAreServed`) | 2 commands, 1 validation, 1 permit, queue of 1, one broken link, fair; 428 000 states, 56 s |
| `definitions` | the three profile maps agree (`LookupsAgree`); caches end with what Core Metadata has, where nothing crossed, was lost or was refused inside a 207 (`CachesFollow`); an undocumented error, or a profile that vanishes, has a known cause (`SurprisesAreExplained`, `LostForCause`) | 1 profile, 1 watcher, 1 caller, 2 calls, 2 edits by others, queues of 1; 1 741 000 states, 48 s |
| `clients` | an event is lost only where the queue's cut crossed another (`EventsAreAccounted`); the queue drains (`QueueDrains`); an open breaker closes (`BreakerRecovers`) | worker, `close`, 1 sender, 3 events, threshold 2, batches of 2, fair; 908 000 states, 124 s |
| `discovery` | a DELETE misses its target or fails only because of another request (`StopsMissForCause`); one name, one profile (`ScansAddOnce`); what was started ends (`StartedWorkEnds`) | 2 discoveries with 1 DELETE and the scheduler; 2 scans with 2 DELETEs; ids that may be equal or empty, fair; 319 000 states, 95 s |
| `lifecycle` | what is served is registered, whatever the order, unless it was refused, lost or removed (`ServedIsRegistered`); a shutdown leaves nothing behind (`NothingLeftBehind`); threads told to stop end (`StoppedThreadsEnd`); a replaced watch calls once more at most, the last write is heard (`StoppedCallsOnce`, `HeardAtLast`); secrets and tokens go missing for known causes (`SecretsAreExplained`) | 2 profiles, 1 Device, 1 watcher; 2 sections; 2 watches, 3 writes; 2 keys, 2 callers and a POST; 2 requests, 2 renewal threads, fair; 485 000 states, 143 s |
| `readings` | what is set reads back where floats are exact (`ReadsBackWhatWasSet`); the driver gets legal values (`DriverGetsLegalValues`); origins increase (`OriginsIncrease`); a subscriber is at most a margin behind (`PictureIsCurrent`); consumers keep up (`PumpsKeepUp`) | integers of 3 bits, signed and not, and one type wider than floats are exact, 2 threads, 1 edit of the profile; 2 producers, 2 finds; fair; 512 000 states, 118 s |

Two runs end in a violation, each of a sentence in the repository that
`PROJECT.json` quotes under "findings":

| Run | What happens |
|---|---|
| `sync_delete` | a Device deleted in Core Metadata comes back into the cache: the second delete is answered 404 and rolled back |
| `down_return` | the pump's own read is rejected for its empty command name |

Configurations that are no runs of `PROJECT.json` belong to section 4, and each
ends in its violation, except `MCAutoEvents_pair.cfg`, which passes:
`OneExecutorPerEvent` and `EditsKept` with two sources, one AutoEvent of which gets
no executor, two calls and a patch that locks the Device (1 070 000 states, 13 s).

The type invariants that no run lists (`SyncTypeOK`, `TypeOK` of AutoEvents and
MessageCommands, `ValidationTypeOK`, `DefinitionsTypeOK`, `ClientsTypeOK`,
`DiscoveryTypeOK`, `ScanTypeOK`, `LifecycleTypeOK`, `RegistrationTypeOK`,
`WatchTypeOK`, `SecretsTypeOK`, `TokenTypeOK`, `ChangeTypeOK`) hold on the same
instances; to check one, add it to the configuration of its run. Those of
MetadataSync, DeviceValidation, Definitions, CoreClients, OnChange, Discovery and
ProfileScan are proved as well (section 5); that of MessageCommands is part of
`ValidationTypeOK`. Those of AutoEvents and the five components of `MCLifecycle` are
only checked.

### Bounds

* Items do not influence each other in the write-back, in the events loop but
  for their order, or in the failure counts; one Device, one profile and one
  watcher are where the interesting cases are. Where a proof exists it covers any
  number.
* Two threads show every race named here; three only add more of the same
  pairs.
* `Value` 0 and 1 tells "old" from "new". What a patch or an event reaches is
  told apart by update maps with and without the attribute.
* `QueueSize`, `Room` 1 (256 in the code): one event in the hands of the handler,
  one behind it, and a full queue that drops the third.
* `AppOps` of `sync` is patching: an application that adds or deletes Devices
  itself meets the late add of section 4 at once. The events thread runs deletes
  and patches.
* `AllowedFails` 2 has a first and a last failure. `Floor` bounds how far
  below zero the count may sink (in the code it has no bound): nothing
  distinguishes one negative count from another, and zero is never reached from
  below but by a refill.
* `MaxOps` calls of the AutoEvent methods beside the start: a restart follows the
  start, and another follows it. `Executor` and `List` are as many as
  that can create.
* `Capacity` 1: a channel that is empty, and one that is full.
* `Max` 1: a permit that is free, and one that is taken; a permit lost or given
  twice shows in `PermitsAreWorkers` at once. `Flaps` 1: before and after a broken
  link.
* `Calls` and `Edits` 2: a call and an edit follow or cross another; profiles have
  two fields, so that an update event can name one of them.
* `Threshold` 2 (5 in the code) has a first and a last failure; `MaxBatch` 2 (50)
  and 3 events: a queue longer than a batch.
* Discovery's ids include the empty one of requests without a correlation
  id. Two scans race for one profile name.
* `MaxWrites` 3: a write that is heard, one within the same tick, one after.
  `Ttl` 2: a token that is fresh, due for renewal, expired.
* `Patcher` of `auto` has one thread: its patch may cross any edit and any restart.
  Two AutoEvents, of which one is invalid, are in `MCAutoEvents_pair.cfg`.
* `Exact` 32 and `Greatest` 64 of `readings` stand for 2^46 and the greatest float:
  integers of three bits are narrow, a type of six bits is not.
* Values of three bits keep a sign, an overflow and a mask apart; scale and offset
  are multiples of one half, so that truncation happens.
* `Number` 0 to 3, `Threshold` 1: a change below, at and above the
  threshold, and two steps below it that add up to more; the proof covers any.
* `MaxPuts`, `MaxCommands`, `MaxCmdOps`, `MaxAsks`, `MaxFinds`, `MaxClock` bound how often the actors
  beside act: once more than the room they share.

Deadlock is checked where the system can always go on (`writeback`, `sync`,
`down`); it is off where bounded actors are done in the end.

### Fairness

* A thread that has begun a call keeps running (`WF` of its steps): Python
  threads are scheduled by the operating system.
* Whatever waits for another program has an end: `requests` is called with a
  timeout, drivers' handlers are assumed to return or raise. Nothing is assumed of what
  Core Metadata answers, and no one has to call anything.
* The loops poll: events, pumps, messaging loops, config watches and flush workers
  come round again (`WF`).
* `SF` of `Put` in AutoEvents: `queue.Queue` wakes the thread that has waited
  longest, so a thread whose queue has room again and again gets its turn.
* `SF` of `Check` in Lifecycle: the attempts to reach the registry have a
  deadline (`registry_client` loops until it), which one of the attempts meets.
* `BreakerRecovers` assumes that somebody goes on sending and that thirty seconds
  pass (`WF` of `Call` and of `Cool`): a breaker is only tried by a caller.

## 4. What the code does otherwise

The passing properties carry guards (`disturbed`, `parted`, `raced`, `refused`,
`marked`, `toggled`, `crossed`, `unheard`, `excused`, `rawly`, `victims`,
`overlapped`, `touched`, one caller). The guards are needed: each sets
aside a behaviour of the code that was met as a counterexample without it.
Where a configuration is named it ends in this very violation. A property named
alone, which no run lists, is violated when it is added to the configuration of
its component's run.

Devices:

* Overlapping calls on one Device end in `CacheError` instead of the documented
  `EdgexError`, when the rollback finds the entry changed (DS 2412, 2445, 2467).
* A batch that Core Metadata answers with 207 counts as success although its item
  was refused (`internal/metadata/client.py` 110-117): the cache keeps an addition
  or a change that Core Metadata does not have, nobody is told, and nothing brings
  the two together again. The same goes for profiles, watchers and what a service
  registers when it starts.
* `update_device` puts AutoEvent objects into the update map (DS 286); json raises a
  `TypeError`, which is not rolled back (DS 2444): the caller gets it, and the cache
  keeps the change.
* A late update event is written back over a newer change of the user
  (`MCMetadataSync_echo.cfg`, `EventsOnlyReadMetadata`; DS 2010).
* An add that times out and arrives all the same leaves a Device in Core
  Metadata that the service never caches (`MCMetadataSync_retry.cfg`,
  `NothingForgotten`).
* An update event does not reach the fields whose name in the event is camelCase
  and in the cached Device is not (DS 2005-2013); an add event loses `tags` and
  `location` (DS 1982-1997).
* A Device that fails from its first command is never marked: the count goes from
  absent to -1 (`FailingIsDown`). The first command
  rejected because the Device is DOWN makes the count -1, too, and the next one
  reaches the driver (`command.py` 668).
* Two command threads lose a decrement, or both read the count past zero, and
  the Device stays UP (`command.py` 131-133).
* A DOWN that the application, the driver or an event has written while the count
  is full is never looked at by a success: the Device answers its commands, as far
  as they are let through, and stays DOWN (`command.py` 184-191).
* A mark UP that Core Metadata refuses is never repeated: the count is full by
  then, so the next success does not look (`command.py` 184-191).

Profiles and watchers:

* The event of an own profile update puts raw dictionaries into the cached
  profile; the derived maps are half made, and the next call on the profile ends in
  a `KeyError` (`cache/profiles.py` 109).
* A profile, too, is first changed in the cache (`MCDefinitions_update.cfg`; DS 2505).
* Profiles that others add are never cached. A watcher update event changes the
  attributes whose name is the same in both forms, and no others.
* An update request of a watcher leaves out the fields that are empty: they
  cannot be cleared in Core Metadata.
* If a profile vanishes between the two look-ups of a SET, the resource is found
  as an empty one, and the value is written untransformed and with no limit
  checked; the caller is then told of an error (`command.py` 550).

Commands and values:

* Switching transformations off switches the limits off, too.
* A failed assertion sets the operating state `DISABLED`, which no check looks
  at, and which no success takes back.
* A command's access right counts, not those of its resources. A SET of a single
  resource does not apply the mapping backwards.
* `CommandValue` objects are transformed in place: a driver that keeps its
  objects has them transformed twice.
* An integer resource with a fractional scale is computed with the scale cut
  off. Scale 0 and text for a float end in exceptions that are no `EdgexError`,
  and are not counted as failures.
* Integers of 64 bits are checked as floats. A value of 2^53 + 1 that is to be
  divided by a scale of 2 passes for even and reads back as 2^53; base and logarithm
  lose low bits in the same way. A power beyond the greatest float is an
  `OverflowError` that no clause expects (`transformresult.py` 221-227).
* `AsyncValues.origin` is ignored. With the pump ended, producers wait in `put` for
  ever.
* A NaN that is kept as the first reading makes an on-change resource silent for
  ever; in mode "all" the margin of a subscriber is twice the threshold, which
  `PictureIsCurrent` states and which is reached.

AutoEvents:

* Two restarts at a time schedule the Device twice, and a source has two executors
  until the next restart (`MCAutoEvents_race.cfg`, `NeverTwo`); with a third, an
  executor may be left that nobody can stop.
* A patch, a mark or an event writes the whole Device, AutoEvents included: one that
  was added after the patch had made its clone is overwritten, and after a refusal
  one that was removed is back (DS 2429-2445). Its executor is not told.
* An AutoEvent whose interval does not parse, or without a source, is logged and
  never read (`manager.py` 131-153). A Device that an add event brings has
  dictionaries as AutoEvents, and every edit of them ends in an `AttributeError`.
* Two concurrent adds: each writes its whole clone of the Device back, and one
  AutoEvent is lost (DS 640).
* A Device locked or marked DOWN while its executors run is read all the same
  (`autoevent/manager.py` 118 looks when an executor is made).
* `_shutdown` does not stop the executors (DS 1507). Without a messaging client no
  pump runs, and a stopped executor waits in `put` for ever (`Connected = FALSE`).

Messages:

* After a reconnection nothing is heard any more: the callbacks are registered
  again, the topics not subscribed (`HeardAfterReconnect`; `client.py` 159-166).
* A refusal of a driver whose exception has no text is answered as "valid"
  (`RefusedIsNotAccepted`; `validation.py` 143-150).
* A binary reading, and any exception but `EdgexError`, ends a command on the bus
  without an answer.
* The validation thread is never stopped; a connection that fails at the start is
  never tried again.

Clients:

* `_send_batch` returns False on failure, which `_flush_queue` takes for
  success; only a token provider that raises puts the batch back (`data.py` 236).
* Two flushes that cross send events twice, or drop those appended between.
* `run` calls `create_coredata_client` and `create_corecommand_client` with a
  keyword they lack: as it stands the service has neither. `Event` has no
  `model_dump`, which `send_event` calls.

Discovery and scans:

* Requests without a correlation id share the id "": a DELETE with it stops the
  last of them. `StopEvery` stops the scans of all Devices. A discovery that ends
  clears the thread reference of the one after it (DS 1829).
* A DELETE between the two lines that record a discovery's thread and start it joins
  a thread that does not run: `RuntimeError`, and 500 (`http/discovery.py` 148).
* A scan publishes 100 % as soon as its thread has been started
  (`LastWordIsTrue`; `http/discovery.py` 259).
* The stop event is never handed to the driver's `discover`.

Lifecycle, configuration, secrets:

* A `stop` before `run` has connected leaves the bus up. `stop` does not make the
  HTTP server return. A section that is listened to during `_shutdown` changes the
  dictionary that is being walked, and the rest of the shutdown is skipped. So it
  is when `stop`, which its docstring calls safe (DS 1485-1491), is called from the
  callback of a configuration watch or of a driver in the events' thread, which it
  then tries to join; and when two shutdowns meet at the executor (DS 1512).
* The file of a configuration watch that is gone between the stop of the old watch
  and the start of the new leaves neither (DS 2226).
* Two writes within one tick of `mtime` are heard as one. An empty file is
  delivered as `{}`; a file that cannot be parsed is not tried again.
* A POST of two pairs to OpenBao writes the path twice, and keeps the second
  (`clients/secret.py` 218-221). A
  delete that crosses a store brings pairs back, or loses them. In memory two first
  stores on a path, or a store beside the delete of its last pair, lose one
  (`clients/secret.py` 57-59, 72-74).
* A renewal throws the valid token away before it has another. Two requests can
  start two renewal threads.

## 5. The proofs

Every theorem listed in `PROJECT.json` names the property that a run checks; the run shows it on one
instance, the theorem for every value of the constants. TLC checked each
property, and each inductive invariant below, before it was proved.

### DeviceWriteback_proofs

For any Devices, threads, attributes and values:

* `TypeCorrect`: `Spec => []TypeOK`, with the part that is not about types: from
  its write on, a call holds a real Device to put back and a well-formed request.
* `RollbackRestoresSync`: `Spec => []SyncUnlessDisturbed`.
* `SurprisesComeFromOverlap`: `Spec => []SurprisesNeedOverlap`.
* `WritebackImplementsStore`: `Spec => ImplementsStore`, the refinement.

`SyncUnlessDisturbed` is not inductive: that a rollback restores agreement
depends on what the call saved, and on nobody else having a saved copy. The
inductive invariant `CallInv` adds: on an undisturbed Device at most one call is
active (`Alone`); with no call active, the copies agree (`Settled`); a call that
is active knows exactly what both copies hold at each of its steps (`Known`: its
snapshot is the entry before its write, and Core Metadata still has that entry,
unless a change failed unnoticed before);
late requests concern disturbed Devices only (`LateDisturbed`). Each action then
has a short argument; `Begin` either finds the Device idle, and hence settled, or
makes it disturbed. The refinement uses the same invariant: an action is a step
of the store on its own Device - a write proposes, `Accept` confirms, a rollback
withdraws - or a stutter; `Known` is what makes a confirmation set the held copy
to the one shown.

Of the two loops of `MetadataSync`, for any size of the topic queue and set of users' operations:

* `HandledEventsReachFields`: `SyncSpec => EventsReachFields`, whatever the
  application does. `ReachInv` follows a handler from step to step: which fields
  of the event the cache has by then, on a Device in `touched` by nobody. That the
  property needs `touched` was found by the proof: a patch of the application
  between the handler's write and its end takes the fields away again.
* `NoDeviceIsForgotten`: `SyncSpec => []NothingForgotten` if `"add" \notin AppOps`.
  `RememberInv`: what Core Metadata holds and the cache lacks has its add event in
  the queue, or is in a delete that has not ended; nobody but users adds
  (`NoAdds`), not even late. The hypothesis is needed: `MCMetadataSync_retry.cfg`.
* `DriverFollowsCache`: `SyncSpec => []DriverServesCached` if
  `AppOps \subseteq {"patch"}`: an application that removes or adds Devices does so
  beside the driver's callbacks, which only the events make. `FollowInv` says what
  the handler of a delete knows at each step, the rollback included.

They rest on `LoopTypeCorrect` (`SyncTypeOK`) and on the call types of the write-back.

### Definitions_proofs

For any profiles, watchers, callers, fields and queue sizes:

* `LookupsAlwaysAgree`: `Spec => []LookupsAgree`. Each operator of `ProfileMaps`
  keeps the maps coherent, where it stops in the middle too; a lemma for each,
  then one step per action (`Carried`).
* `SurprisesAlwaysExplained`, `LostOnlyForCause`: `SurprisesAreExplained` and
  `LostForCause`. `WholeInv` says that half a profile comes from an update event
  and from nothing else (calls bring models, and put back models), and that an
  accepted delete event is about an item Core Metadata has deleted.
* `CachesAlwaysFollow`: `Spec => []CachesFollow`. The property speaks of the
  moment when no event is left; `FollowInv` of every moment before: the events
  about a watcher are a chain whose first fits what is cached and whose last says
  what is held; a profile's update and delete events travel on two topics and may
  cross, but a delete has the last word; a call on an item on which no steps
  crossed finds the cache as it left it and can put back what was there (`Knows`).
* `DefinitionsTypeCorrect`: `Spec => []DefinitionsTypeOK`. `Carried` has the types of
  caches and calls; `BoundsInv` adds the room in the queues and what Core Metadata
  holds.

### DeviceDown_proofs

For any number of threads and any `AllowedFails`, 0 included:

* `DownTypeCorrect`: `Spec => []TypeOK`, whose substance is that the count never
  exceeds `AllowedFails`, not even when threads race on it. Every thread's
  pending result is below the bound too, which is what makes it inductive.
* `ExhaustedDeviceIsDown`, `DownIsAlwaysEarned`, `SuccessAlwaysRestoresUp`:
  `ExhaustedIsDown`, `DownIsEarned`, `SuccessRestoresUp`. `DownInv` ties the count
  to the failures in a row (`Tally`: `AllowedFails - fails` while some are left)
  and says what it is at each step of the command that counts (`AtStep`). Without
  a race that command is alone (`InPeace`). Before the first answer the count is
  absent or negative (`NeverAnswered`), which is why such a Device is never marked;
  with `AllowedFails = 0` nothing is ever counted (`NoneAllowed`).

### AutoEvents_proofs

For any AutoEvents, patchers, number of calls and changes to the Device:

* `NeverAnOrphan`, `AlwaysOneExecutor`, `EditsAreKept`: `NoOrphans`,
  `OneExecutorPerEvent`, `EditsKept`, each under `OneCaller`, one thread at a time
  that calls the service. The hypothesis is needed: `MCAutoEvents_race.cfg` has two
  callers and ends in the violation. `AutoInv` says where a live executor is
  listed at each step of a restart (`Listed`: in the list being stopped, or in the
  dictionary's), that the Device's valid events are those with an executor and those yet
  to get one (`Scheduled`), what a clone holds (`Edited`), that what a patcher may
  put in place differs from the Device in what is `crossed` only (`Copies`), and that the restarts
  begun leave enough unused executors (`Counted`), so that the bound of the model
  stops no restart.

Of `OnChange`, for any resources, values and threshold:

* `PictureStaysCurrent`: `ChangeSpec => []PictureIsCurrent`. What a subscriber has
  and what the executor keeps may differ (in mode "all" a reading is kept when
  others are sent). `ChangeInv` relates them: what is kept is what was sent last
  up to `Drift`, which is nothing where single resources are sent, and one
  threshold in mode "all" (`KeptIsSent`).
* `KeptWasRead`: `ChangeSpec => []ChangeTypeOK`. What is kept of a resource is always
  what some reading of it leaves, so that numbers are compared with numbers and
  checksums with checksums.

### DeviceValidation_proofs

For any commands and validations, number of permits and broken links:

* `PermitsComeBack`: `ValidationSpec => []PermitsAreWorkers`. Nearly inductive:
  it needs that a command is queued once, or `Take` would admit it twice
  (`QueueInv`).
* `AnswersAreAlwaysTrue`: `ValidationSpec => []AnswersAreTrue`, `VerdictsAreSaid`
  included: what "error" and "ok" mean of a validation. `Fate` says what a
  requester has been told at each phase of its command; a command is not answered
  twice because its phase says that it has not been answered.
* `BusTypeCorrect`: `ValidationSpec => []ValidationTypeOK`, whose substance is
  `BoundsInv`: no topic's queue outgrows its room, and between 0 and `Max` permits
  are free, which follows from `PermitsAreWorkers` and the number of workers.

### Readings_proofs

Of the commands (`Commands`, `Values`), for any callers, requests, profiles,
widths of integers, and changes of profile, Device and device meanwhile:

* `ValuesAreReadBack`: `CommandSpec => []ReadsBackWhatWasSet`.
* `DriverValuesAreLegal`: `CommandSpec => []DriverGetsLegalValues`.

Both follow from `ReadingsInv`, which says what a command knows at each of its
phases (`CommandInv`): its resources are of the profile it saw first
(`LookedUp`), its values have the type that profile gave them (`HasWanted`), and
those for the driver are what `Parameters` makes of them under the profile of the
second look (`HasShaped`). For the read-back this is carried on through the
driver: what a register holds is what became of the value that is claimed for it
(`RegisterInv`, `Bears`), so that a GET by another caller long after inherits the
claim (`HasClaims`). What remains is arithmetic: each step of a write leaves a
failure or a number the type has (`ParametersFit`), and each step of a read undoes
that of a write (`AddBack`, `DivideBack`, `LogBack`, joined in the theorem
`TransformedBack`).
Division is undone because a quotient with a remainder is refused before it is
made; that the truncated quotient of the doubled numbers is the same is
`QuotientExact`. A mask, a shift or half a scale drop bits, which is where the
property ends, and so it does where a type or its scale is too wide for floats
(`Narrow`): within `Exact` the float of a quotient is the quotient (`FloatExact`,
`FloatHalf`), so that what passes the check divides without a remainder. That the
type's range is kept (`DriverValuesAreLegal`) needs no such bound. That one failure is found among several outcomes, and the last of
several writes to one resource, needs the least and the greatest of a set of
numbers: the well-founded order of the library gives them without an induction
(`LeastExists`).

Of Core Data's client and the pump, for any number of events, batch size and
threshold:

* `EveryEventIsAccounted`: `Spec => []EventsAreAccounted`. What a flusher keeps
  when it has cut the queue depends on what the queue was when it cut: `CutInv`
  says that both slices have all of the queue but the `victims`, and `CrossInv`
  that with two flushers between cut and assignment all of it is victims.
* `NothingIsMadeUp`: `Spec => []ClientsTypeOK`: whatever the flushers cut and put back,
  nothing is queued that was not given to `send_event_async` (`GivenInv`).
* `OpenAtThreshold`: the breaker is open exactly while its count of failures is at
  the threshold, though its count and its flag are two fields (`BreakerInv`).
* `OriginsAlwaysIncrease`: `AsyncSpec => []OriginsIncrease`, the origins of all
  events, whatever the clock does. No origin is beyond the previous one
  (`OriginInv`).

### MCDiscovery_proofs

About `MCDiscovery`, where `StopsMissForCause` is stated of both components, for
any requests, DELETEs, ids, scans and profiles:

* `MissedOnlyForCause`: `Spec => []StopsMissForCause`. A discovery has its event
  in the map from the request to its end, unless another request took the id
  (`Reachable`); whatever is in the map is under way (`Named`); the thread that a
  DELETE has seen is gone only if a run has ended or another DELETE was answered
  (`Cleared`), and is not started only if the POST was handled beside it
  (`Overlapped`). The scans have the like (`Reached`).
* `OneScanAdds`: `Spec => []ScansAddOnce`. A scan that has added its profile finds
  it in the cache until it ends, and no other scan has added that name (`Alone`).
* `DiscoveryTypeCorrect`: `Spec => [](D!DiscoveryTypeOK /\ S!ScanTypeOK)`. A scan adds
  a profile only after it was let in for one (`IntoInv`).

### MCLifecycle_proofs

About `MCLifecycle`, each component with an invariant of its own (`ServiceInv`),
for any files, sections, watches, keys, callers and threads:

* `WhatIsServedIsRegistered`: `Spec => []ServedIsRegistered`. The property speaks
  of the end of the registration; `RegistrationInv` says of every entry that is
  not ahead any more that it is at Core Metadata or has a reason not to be
  (`Accounted`), and of those ahead that none is needed by one before it
  (`Ordered`). That `Order` lists all that is loaded, each after what it needs, is
  the lemma `OrderIsOrdered`; with the needed entry behind, an addition refused
  for its absence traces to the failure of that entry (`AddKeeps`).
* `ShutdownLeavesNothing`: `Spec => []NothingLeftBehind`. `LifeInv` relates the
  client, Core Keeper's entry and the bus to where each of the two callers of
  `_shutdown` is: a caller past its DELETE has cleared the client, and an entry
  without a client came by a failed DELETE or overtook one. `CutInv` has the causes
  of a shutdown that is cut short: more sections than it had counted, `from`, or the
  other caller past the executor.
* `StoppedWatchCallsOnce`: `Spec => []StoppedCallsOnce`. After its one late call a
  thread sleeps and looks at its event, or has ended (`WatchInv`).
* `SecretsAlwaysExplained`: `Spec => []SecretsAreExplained`. In memory a caller that
  is about to make or remove the path finds it empty as long as nobody stored
  meanwhile. In OpenBao a delete
  writes back what it has read; `SecretInv` says that this is still what is kept
  as long as no calls overlapped.

### What they assume, and what is out of reach

The assumptions are those stated with the constants, which TLC evaluates on the
runs. They say of what sets the constants are, that the placeholders (`NoDevice`, `Nobody`,
`None`, `Absent`, `Unsent`, `Unbounded`) are none of the values they stand beside,
that queues, batches and thresholds are at least 1, that files and
sections are finitely many, and that names differ by kind: no profile is called
like a Device or a watcher (`RegistrationAssumption`). Entries of two kinds may
share a name in the code; they are then two entries here. The theorems of
AutoEvents and two of MetadataSync have the hypotheses named above.

`ProfileAssumption` says that a profile has finitely many resources, operations in
an order and numbers as properties, and that a float has none of them, which is
what `Values` leaves out; `BitAndAssumption` that `x & y` has no bit that `x`
has not, for the numbers of the types in use; `FloatAssumption` that floats are exact
for integers up to `Exact` and for their quotients, and of nothing beyond.

Beyond the prover are liveness and `ENABLED`, and so `EventuallyCached`,
`StoppedEnds`, `QueuesAreServed`, `QueueDrains`,
`BreakerRecovers`, `StartedWorkEnds`, `StoppedThreadsEnd`, `HeardAtLast` and
`PumpsKeepUp`. Every safety property of the runs that pass has its theorem.

## 6. Not modelled

* Of the write-back: the ids that Core Metadata assigns, the path without a
  metadata client, the caller's own reference to a cached Device.
* Of the definitions: requests answered after their timeout (the protocol is the
  one of DeviceWriteback, where they are).
* Of the events: the service event, which changes an admin state that nothing
  reads.
* Of the AutoEvents: the length of an interval, `stop_for_device` and `stop_all`,
  which the service never calls.
* Of the values: the width of floats; binary, array and object values pass
  without a transformation.
* Of the messages and requests: envelopes, topics, URLs, credentials, routes.
* The application layer's callbacks, its device return and its profile scan:
  nothing calls them. TLS: exported, and called by nothing. Metrics: counters that
  nothing reads. Configuration: parsing at the start, in one thread. Data models
  and interfaces: type definitions.

## 7. Plan

In order of what it would add:

1. Definitions with late answers, and its caches as a second refinement of
   DeviceStore.
2. AutoEvents with a clock: the executor's deadline, and the burst in which it
   catches up after it was blocked.
