------------------------------ MODULE AutoEvents ------------------------------
(***************************************************************************)
(* The AutoEvents of one Device: AutoEventManager keeps a list of          *)
(* executors under the Device's name, each a thread that reads one source  *)
(* at a fixed rate and puts the readings on the service's channel.         *)
(* add_device_auto_event and remove_device_auto_event edit the cached      *)
(* Device and restart its executors (internal/autoevent/manager.py and     *)
(* executor.py, service/device_service.py).                                *)
(*                                                                         *)
(* The manager's lock covers the look at its dictionary and nothing else,  *)
(* so restarts interleave: a list that one restart has taken out of the    *)
(* dictionary may be the one another is still filling.  Other threads      *)
(* meanwhile put whole Devices in the cache, cloned before the edit of an  *)
(* AutoEvent, and tell the manager nothing.                                *)
(*                                                                         *)
(* The Device is one that is cached when the AutoEvents are started.  One  *)
(* that an add event brings later has plain dictionaries as AutoEvents and *)
(* no executors; every call here then fails with AttributeError, before it *)
(* changes anything (DeviceService._on_device_added).                      *)
(***************************************************************************)
EXTENDS Naturals, FiniteSets

CONSTANTS
  Caller,       \* threads that call the AutoEvent methods of the service
  Patcher,      \* threads that write the whole Device: updates, marks, events
  Source,       \* sources an AutoEvent can read
  Invalid,      \* of these: without a name, or an interval that does not parse
  Capacity,     \* maxsize of the async values channel
  Connected,    \* whether there is a messaging client, hence an async pump
  Calls,        \* what the callers call: subset of {"add", "remove"}
  Changes,      \* what others do to the Device: subset of
                \* {"block", "replace", "remove"}
  NoDevice,     \* stands for "no such Device in the cache"
  MaxOps        \* bound: how many calls are made

ASSUME AutoAssumption ==
  /\ Capacity \in Nat \ {0} /\ Connected \in BOOLEAN
  /\ Calls \subseteq {"add", "remove"} /\ Changes \subseteq {"block", "replace", "remove"}
  /\ MaxOps \in Nat /\ IsFiniteSet(Source) /\ Invalid \subseteq Source

\* An executor is known by the order of its creation, and so is a list of them: at
\* most one list and one executor of each source per call and at the start.
Executor == 1..((MaxOps + 1) * Cardinality(Source))
List     == 1..(MaxOps + 1)
None     == 0

\* The part of a Device that matters here; blocked is LOCKED or DOWN.
Device == [events : SUBSET Source, blocked : BOOLEAN]

VARIABLES
  cached,     \* the Device in the cache
  current,    \* the manager's list for the Device
  lists,      \* how many lists have been made
  state,      \* of each executor; "free" before it is made
  source,     \* what it reads
  list,       \* the list it is in
  stopped,    \* its stop event
  queued,     \* how many readings are on the channel
  down,       \* the service has been shut down
  started,    \* start_auto_events has run
  pc,         \* where each caller is
  clone,      \* its copy of the Device
  mine,       \* the list it fills
  old,        \* the list it has taken out of the dictionary
  todo,       \* the events it has yet to schedule
  fresh,      \* the executor it is about to start
  ops,        \* how many calls have been made
  patch,      \* where each patcher is
  copy,       \* its snapshot of the Device
  wanted,     \* history: AutoEvents added and not removed since
  toggled,    \* history: whether the Device has been locked, unlocked or marked
  crossed     \* history: AutoEvents edited while a patcher had its snapshot of the
              \* Device, or replaced by a patch

executors == <<state, source, list, stopped>>
locals    == <<clone, mine, old, todo, fresh>>
patches   == <<patch, copy>>
history   == <<wanted, toggled, crossed>>
vars == <<cached, current, lists, executors, queued, down, started, pc, locals,
          ops, patches, history>>

Step == {"idle", "edit", "pop", "stop", "lookup", "claim", "schedule", "start"}

Live(e) == state[e] \in {"wait", "read", "put"} /\ ~stopped[e]

Goto(c, step) == pc' = [pc EXCEPT ![c] = step]

-----------------------------------------------------------------------------
(* add_device_auto_event, remove_device_auto_event: clone, edit, write back. *)

\* The first call comes after start_auto_events has returned, none after stop.
Begin(c) ==
  /\ started /\ ~down /\ pc[c] = "idle" /\ ops < MaxOps
  /\ ops = 0 => \A x \in Caller : pc[x] = "idle"
  /\ cached # NoDevice
  /\ ops' = ops + 1
  /\ UNCHANGED <<cached, current, lists, executors, queued, down, started, mine, old,
                 todo, fresh, patches, toggled, crossed>>

\* An event that is there already is changed in the clone only; not written back.
AddEvent(c, s) ==
  /\ "add" \in Calls
  /\ Begin(c)
  /\ clone' = [clone EXCEPT ![c] = [cached EXCEPT !.events = @ \union {s}]]
  /\ Goto(c, IF s \in cached.events THEN "pop" ELSE "edit")
  /\ wanted' = wanted \union {s}

RemoveEvent(c, s) ==
  /\ "remove" \in Calls
  /\ Begin(c)
  /\ clone' = [clone EXCEPT ![c] = [cached EXCEPT !.events = @ \ {s}]]
  /\ Goto(c, "edit")
  /\ wanted' = wanted \ {s}

\* Mutant: the clone is edited and never written back.
EditForgotten(c) ==
  /\ pc[c] = "edit"
  /\ Goto(c, IF cached = NoDevice THEN "idle" ELSE "pop")
  /\ UNCHANGED <<cached, current, lists, executors, queued, down, started, locals, ops,
                 patches, history>>

Differing(d, e) == (d.events \ e.events) \union (e.events \ d.events)

\* DeviceCache.update puts the whole clone in place, or raises CacheError.
Edit(c) ==
  /\ pc[c] = "edit"
  /\ IF cached = NoDevice
     THEN Goto(c, "idle") /\ UNCHANGED <<cached, crossed>>
     ELSE /\ Goto(c, "pop")
          /\ cached' = clone[c]
          /\ crossed' = IF \A p \in Patcher : patch[p] = "idle" THEN crossed
                        ELSE crossed \union Differing(cached, clone[c])
  /\ UNCHANGED <<current, lists, executors, queued, down, started, locals, ops, patches,
                 wanted, toggled>>

-----------------------------------------------------------------------------
(* restart_for_device and _start_for_device. *)

Pop(c) ==
  /\ pc[c] = "pop"
  /\ Goto(c, "stop")
  /\ old' = [old EXCEPT ![c] = current]
  /\ current' = None
  /\ UNCHANGED <<cached, lists, executors, queued, down, started, clone, mine, todo,
                 fresh, ops, patches, history>>

\* Mutant: the executors that a restart replaces are left running.
StopOldForgotten(c) ==
  /\ pc[c] = "stop"
  /\ Goto(c, "lookup")
  /\ UNCHANGED <<cached, current, lists, executors, queued, down, started, locals, ops,
                 patches, history>>

StopOld(c) ==
  /\ pc[c] = "stop"
  /\ Goto(c, "lookup")
  /\ stopped' = [e \in Executor |->
                   stopped[e] \/ (old[c] # None /\ list[e] = old[c])]
  /\ UNCHANGED <<cached, current, lists, state, source, list, queued, down, started,
                 locals, ops, patches, history>>

\* for_name, and the checks at the top of _start_for_device.  AutoEvents without a name
\* are skipped, and those create_executor raises an error for.
Lookup(c) ==
  /\ pc[c] = "lookup"
  /\ IF cached = NoDevice \/ cached.blocked \/ cached.events = {}
     THEN Goto(c, "idle") /\ UNCHANGED todo
     ELSE Goto(c, "claim") /\ todo' = [todo EXCEPT ![c] = cached.events \ Invalid]
  /\ UNCHANGED <<cached, current, lists, executors, queued, down, started, clone, mine,
                 old, fresh, ops, patches, history>>

\* Mutant: the new list is not entered in the dictionary.
ClaimUnregistered(c) ==
  /\ pc[c] = "claim"
  /\ Goto(c, IF todo[c] = {} THEN "idle" ELSE "schedule")
  /\ lists' = lists + 1
  /\ mine' = [mine EXCEPT ![c] = lists + 1]
  /\ UNCHANGED <<cached, current, executors, queued, down, started, clone, old, todo,
                 fresh, ops, patches, history>>

\* setdefault: the list in the dictionary, or a new one.
Claim(c) ==
  /\ pc[c] = "claim"
  /\ Goto(c, IF todo[c] = {} THEN "idle" ELSE "schedule")
  /\ lists' = IF current = None THEN lists + 1 ELSE lists
  /\ current' = IF current = None THEN lists + 1 ELSE current
  /\ mine' = [mine EXCEPT ![c] = current']
  /\ UNCHANGED <<cached, executors, queued, down, started, clone, old, todo, fresh, ops,
                 patches, history>>

\* Create the executor of the next event and append it to the list ...
Schedule(c) ==
  /\ pc[c] = "schedule"
  /\ Goto(c, "start")
  /\ \E s \in todo[c] :
       LET e == 1 + Cardinality({x \in Executor : state[x] # "free"}) IN
       /\ state' = [state EXCEPT ![e] = "made"]
       /\ source' = [source EXCEPT ![e] = s]
       /\ list' = [list EXCEPT ![e] = mine[c]]
       /\ fresh' = [fresh EXCEPT ![c] = e]
       /\ todo' = [todo EXCEPT ![c] = @ \ {s}]
  /\ UNCHANGED <<cached, current, lists, stopped, queued, down, started, clone, mine,
                 old, ops, patches, history>>

\* ... then start its thread, which clears the stop event.
StartThread(c) ==
  /\ pc[c] = "start"
  /\ Goto(c, IF todo[c] = {} THEN "idle" ELSE "schedule")
  /\ state' = [state EXCEPT ![fresh[c]] = "wait"]
  /\ stopped' = [stopped EXCEPT ![fresh[c]] = FALSE]
  /\ UNCHANGED <<cached, current, lists, source, list, queued, down, started, locals,
                 ops, patches, history>>

-----------------------------------------------------------------------------
(* The executor threads and the channel. *)

ExecutorStep(e, from, to) ==
  /\ state[e] = from
  /\ state' = [state EXCEPT ![e] = to]
  /\ UNCHANGED <<cached, current, lists, source, list, stopped, down, started, pc,
                 locals, ops, patches, history>>

\* Mutant: the loop does not look at the stop event.
WakeDeaf(e) ==
  /\ ExecutorStep(e, "wait", "read")
  /\ UNCHANGED queued

\* At its deadline, or woken by the stop event.
Wake(e) ==
  /\ ExecutorStep(e, "wait", IF stopped[e] THEN "ended" ELSE "read")
  /\ UNCHANGED queued

\* No Device, no readings, an error, or (on change) the same readings as before.
ReadNothing(e) ==
  /\ ExecutorStep(e, "read", "wait")
  /\ UNCHANGED queued

ReadSomething(e) ==
  /\ cached # NoDevice
  /\ ExecutorStep(e, "read", "put")
  /\ UNCHANGED queued

\* Queue.put waits for room, whatever the stop event says.
Put(e) ==
  /\ queued < Capacity
  /\ ExecutorStep(e, "put", "wait")
  /\ queued' = queued + 1

\* The async pump of the service, until it is shut down.
Pump ==
  /\ Connected /\ ~down /\ queued > 0
  /\ queued' = queued - 1
  /\ UNCHANGED <<cached, current, lists, executors, down, started, pc, locals, ops,
                 patches, history>>

-----------------------------------------------------------------------------
(* The service and everyone else. *)

\* run: start_auto_events forgets all lists, then schedules every Device.
Start(c) ==
  /\ ~started
  /\ started' = TRUE
  /\ current' = None
  /\ Goto(c, "lookup")
  /\ UNCHANGED <<cached, lists, executors, queued, down, locals, ops, patches, history>>

\* stop, _shutdown: the pump ends; the manager is not told.
Shutdown ==
  /\ started /\ ~down
  /\ ops = 0 => \A c \in Caller : pc[c] = "idle"
  /\ down' = TRUE
  /\ UNCHANGED <<cached, current, lists, executors, queued, started, pc, locals, ops,
                 patches, history>>

\* Everybody else who writes the Device clones the whole of it, ...
PatchClone(p) ==
  /\ patch[p] = "idle" /\ cached # NoDevice
  /\ patch' = [patch EXCEPT ![p] = "write"]
  /\ copy' = [copy EXCEPT ![p] = cached]
  /\ UNCHANGED <<cached, current, lists, executors, queued, down, started, pc, locals,
                 ops, history>>

Replace(device) ==
  /\ cached' = device
  /\ toggled' = (toggled \/ device.blocked # cached.blocked)

\* ... locks, unlocks or marks the clone, or gives it other AutoEvents (update_device),
\* and puts it in place, or raises CacheError; ...
PatchWrite(p) ==
  /\ patch[p] = "write"
  /\ IF cached = NoDevice
     THEN /\ patch' = [patch EXCEPT ![p] = "idle"]
          /\ UNCHANGED <<cached, toggled, crossed>>
     ELSE /\ patch' = [patch EXCEPT ![p] = "request"]
          /\ \E device \in Device :
               /\ device.blocked # copy[p].blocked => "block" \in Changes
               /\ device.events # copy[p].events => "replace" \in Changes
               /\ Replace(device)
               /\ crossed' = crossed \union Differing(copy[p], device)
  /\ UNCHANGED <<current, lists, executors, queued, down, started, pc, locals, ops, copy,
                 wanted>>

\* ... when Core Metadata has refused, the snapshot takes its place.
PatchEnd(p) ==
  /\ patch[p] = "request"
  /\ patch' = [patch EXCEPT ![p] = "idle"]
  /\ \/ UNCHANGED <<cached, toggled>>
     \/ cached # NoDevice /\ Replace(copy[p])
  /\ UNCHANGED <<current, lists, executors, queued, down, started, pc, locals, ops, copy,
                 wanted, crossed>>

\* The Device is removed, for good.
Remove ==
  /\ "remove" \in Changes /\ cached # NoDevice
  /\ cached' = NoDevice
  /\ UNCHANGED <<current, lists, executors, queued, down, started, pc, locals, ops,
                 patches, history>>

Init ==
  /\ cached \in Device
  /\ patch = [p \in Patcher |-> "idle"]
  /\ copy = [p \in Patcher |-> NoDevice]
  /\ wanted = cached.events /\ toggled = FALSE /\ crossed = {}
  /\ current = None /\ lists = 0
  /\ state = [e \in Executor |-> "free"]
  /\ source = [e \in Executor |-> CHOOSE s \in Source : TRUE]
  /\ list = [e \in Executor |-> None]
  /\ stopped = [e \in Executor |-> FALSE]
  /\ queued = 0 /\ ops = 0
  /\ down = FALSE /\ started = FALSE
  /\ pc = [c \in Caller |-> "idle"]
  /\ clone = [c \in Caller |-> NoDevice]
  /\ mine = [c \in Caller |-> None] /\ old = [c \in Caller |-> None]
  /\ todo = [c \in Caller |-> {}]
  /\ fresh = [c \in Caller |-> None]

Proceed(c) ==
  \/ Edit(c) \/ Pop(c) \/ StopOld(c) \/ Lookup(c)
  \/ Claim(c) \/ Schedule(c) \/ StartThread(c)

Run(e) == Wake(e) \/ ReadNothing(e) \/ ReadSomething(e) \/ Put(e)

Next ==
  \/ \E c \in Caller : Start(c) \/ Proceed(c)
  \/ \E c \in Caller, s \in Source : AddEvent(c, s) \/ RemoveEvent(c, s)
  \/ \E e \in Executor : Run(e)
  \/ \E p \in Patcher : PatchClone(p) \/ PatchWrite(p) \/ PatchEnd(p)
  \/ Pump \/ Shutdown \/ Remove

Spec == Init /\ [][Next]_vars

\* Threads keep running and time passes; nobody need call anything.  Queue.put wakes
\* the thread that has waited longest, so a put succeeds if there is room again and
\* again.
Fairness ==
  /\ \A c \in Caller : WF_vars(Proceed(c))
  /\ \A e \in Executor : WF_vars(Run(e)) /\ SF_vars(Put(e))
  /\ WF_vars(Pump)

FairSpec == Spec /\ Fairness
-----------------------------------------------------------------------------
\* Types; the channel never holds more than its maxsize.
TypeOK ==
  /\ cached \in Device \union {NoDevice}
  /\ current \in List \union {None} /\ lists \in 0..(MaxOps + 1)
  /\ state \in [Executor -> {"free", "made", "wait", "read", "put", "ended"}]
  /\ source \in [Executor -> Source]
  /\ list \in [Executor -> List \union {None}]
  /\ stopped \in [Executor -> BOOLEAN]
  /\ queued \in 0..Capacity
  /\ down \in BOOLEAN /\ started \in BOOLEAN
  /\ pc \in [Caller -> Step]
  /\ clone \in [Caller -> Device \union {NoDevice}]
  /\ mine \in [Caller -> List \union {None}]
  /\ old \in [Caller -> List \union {None}]
  /\ todo \in [Caller -> SUBSET Source]
  /\ fresh \in [Caller -> Executor \union {None}]
  /\ ops \in 0..MaxOps
  /\ patch \in [Patcher -> {"idle", "write", "request"}]
  /\ copy \in [Patcher -> Device \union {NoDevice}]
  /\ wanted \subseteq Source /\ toggled \in BOOLEAN /\ crossed \subseteq Source

Quiet == started /\ \A c \in Caller : pc[c] = "idle"

Readers(s) == {e \in Executor : Live(e) /\ source[e] = s}

\* "Schedule one AutoEventExecutor per AutoEvent of each Device": between calls no
\* source is read by two executors.  A source is read only if the Device has a valid
\* AutoEvent for it, and, as long as the Device has not been locked or marked since the
\* start, whenever it has: unless the AutoEvent came from a patch or was edited while a
\* patch was under way.  (Marking, unlocking and patching start and stop nothing.)
OneExecutorPerEvent ==
  Quiet /\ cached # NoDevice =>
    /\ \A s \in Source : Cardinality(Readers(s)) <= 1
    /\ \A s \in Source \ crossed :
         /\ Readers(s) # {} => s \in cached.events \ Invalid
         /\ ~toggled /\ ~cached.blocked /\ s \in cached.events \ Invalid =>
              Readers(s) # {}
         /\ ~toggled /\ cached.blocked => Readers(s) = {}

\* "Schedule one AutoEventExecutor per AutoEvent of each Device", whoever edits AutoEvents at
\* the same time: between calls no source is read by two executors.  (Two restarts at once
\* take the list apart: both schedule, and both executors stay.)
NeverTwo == Quiet => \A s \in Source : Cardinality(Readers(s)) <= 1

\* An executor that runs can still be stopped: it is in the manager's list, or in
\* one that a restart is about to stop or is filling.
NoOrphans ==
  \A e \in Executor : Live(e) =>
    \/ list[e] = current
    \/ \E c \in Caller : pc[c] = "stop" /\ old[c] = list[e]

\* "Mark this executor stopped; the loop exits at the next deadline check": its thread
\* ends, even when the stop finds it on its way to the channel.
StoppedEnds ==
  \A e \in Executor :
    stopped[e] /\ state[e] # "made" ~> state[e] = "ended" \/ down

\* "Add a new AutoEvent to the Device with the given name": between calls the cached
\* Device has the AutoEvents that were added and not removed, except those that a patch
\* has replaced or may have overwritten: it had its snapshot of the Device when they
\* were edited.  (An edit is not lost when a patch ends before it writes its clone back,
\* and no other AutoEvent is lost with one that is.)
EditsKept ==
  Quiet /\ cached # NoDevice =>
    \A s \in Source \ crossed : s \in cached.events <=> s \in wanted
=============================================================================
