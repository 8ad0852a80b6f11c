------------------------------ MODULE Lifecycle ------------------------------
(***************************************************************************)
(* DeviceService.run, stop and _shutdown with the Core Keeper client       *)
(* (registry/client.py): what is started, in which order, on which         *)
(* condition, and what ends it.  run() shuts down in a finally clause of   *)
(* its last step only; the application may call stop() at any time, also   *)
(* while run() is still starting, which run() does not look at.            *)
(***************************************************************************)
EXTENDS Naturals, FiniteSets

CONSTANTS
  Section       \* sections of the custom configuration that the application listens to

VARIABLES
  conf,         \* what is configured; it does not change
  at,           \* where run() is
  bus,          \* the message client
  client,       \* _registry_client is set
  keeper,       \* Core Keeper has the service
  running,      \* the service's threads
  down,         \* _shutdown_event
  closing,      \* where each caller of _shutdown is
  from,         \* who called stop(): a thread of its own, or a callback of the service's
  executor,     \* _metadata_executor is set
  watched,      \* the keys of _config_watch_stop
  iterating,    \* how many there were when each caller began to iterate over them
  unheard,      \* history: a DELETE to Core Keeper failed
  overtaken,    \* history: Core Keeper took a registration after the shutdown
  early         \* history: stop() was over before run() had connected

vars == <<conf, at, bus, client, keeper, running, down, closing, from, executor, watched,
          iterating, unheard, overtaken, early>>

aside == <<conf, from, executor, watched, iterating, early>>

\* run's finally clause, and the application's stop().
Closer == {"run", "stop"}

\* "pumps" are up to four threads with one condition to start and one to end: the pumps of
\* values and of discovered devices, the device-return pump and the discovery scheduler.
BusThread == {"pumps", "commands", "events", "validation"}

\* A Registry, a Core Data URL.
Option == {"registry", "coredata"}

LifecycleTypeOK ==
  /\ conf \subseteq Option
  /\ at \in {"new", "check", "ping", "post", "http", "validation", "pumps", "commands", "events",
             "driver", "clients", "serving", "closing", "ended", "raised"}
  /\ bus \in {"none", "up", "closed"}
  /\ {client, keeper, down, unheard, overtaken} \subseteq BOOLEAN
  /\ running \subseteq BusThread
  /\ closing \in [Closer -> {"none", "deregister", "watches", "join", "executor", "shut",
                               "disconnect", "done", "raised"}]
  /\ from \in {"application", "watch", "events"} /\ executor \in BOOLEAN
  /\ watched \subseteq Section /\ iterating \in [Closer -> 0 .. Cardinality(Section)]
  /\ early \in BOOLEAN

Init ==
  /\ conf \in SUBSET Option
  /\ at = "new" /\ bus = "none"
  /\ client = FALSE /\ keeper = FALSE
  /\ running = {} /\ down = FALSE
  /\ closing = [c \in Closer |-> "none"]
  /\ from = "application" /\ executor = FALSE
  /\ watched = {} /\ iterating = [c \in Closer |-> 0]
  /\ unheard = FALSE /\ overtaken = FALSE /\ early = FALSE

-----------------------------------------------------------------------------
(* run *)

\* The application calls run().  A broker that is away leaves the service without a client, for good.
Connect ==
  /\ at = "new"
  /\ bus' \in {"up", "none"}
  /\ at' = IF "registry" \in conf THEN "check" ELSE "http"
  /\ client' = ("registry" \in conf)
  /\ UNCHANGED <<aside, keeper, running, down, closing, unheard, overtaken>>

\* register_with_retry looks at the shutdown before each attempt, and at the deadline.
Check ==
  /\ at = "check"
  /\ at' \in IF down THEN {"http"} ELSE {"ping", "http"}
  /\ UNCHANGED <<aside, bus, client, keeper, running, down, closing, unheard, overtaken>>

Ping ==
  /\ at = "ping"
  /\ at' \in {"post", "check"}
  /\ UNCHANGED <<aside, bus, client, keeper, running, down, closing, unheard, overtaken>>

\* Registered; or refused, or the answer is lost and Core Keeper has it all the same.
Post ==
  /\ at = "post"
  /\ \/ keeper' = TRUE /\ at' \in {"http", "check"}
     \/ UNCHANGED keeper /\ at' = "check"
  /\ overtaken' = (overtaken \/ (keeper' /\ down))
  /\ UNCHANGED <<aside, bus, client, running, down, closing, unheard>>

\* AutoEvents and the REST controller (AutoEvents.tla).
StartHttp ==
  /\ at = "http"
  /\ at' = "validation"
  /\ UNCHANGED <<aside, bus, client, keeper, running, down, closing, unheard, overtaken>>

\* The threads of the message bus are there only with a client.
StartThreads(step, next, threads) ==
  /\ at = step
  /\ at' = next
  /\ running' = IF bus = "none" THEN running ELSE running \union threads
  /\ UNCHANGED <<aside, bus, client, keeper, down, closing, unheard, overtaken>>

\* Without a client the first of these tries no second connection: the configuration is there.
StartValidation == StartThreads("validation", "pumps", {"validation"})

StartPumps    == StartThreads("pumps", "commands", {"pumps"})
StartCommands == StartThreads("commands", "events", {"commands"})
StartEvents   == StartThreads("events", "driver", {"events"})

Go(step, nexts) ==
  /\ at = step
  /\ at' \in nexts
  /\ UNCHANGED <<aside, bus, client, keeper, running, down, closing, unheard, overtaken>>

\* driver.start() may raise, and so does the Core Data client of a configured URL; neither
\* is inside the try whose finally shuts down.
StartDriver  == Go("driver", {"clients", "raised"})
StartClients == Go("clients", IF "coredata" \in conf THEN {"raised"} ELSE {"serving"})

\* uvicorn returns, by a signal or an error; stop() does not make it return.
Serve ==
  /\ at = "serving"
  /\ at' = "closing"
  /\ closing' = [closing EXCEPT !["run"] = "deregister"]
  /\ down' = TRUE
  /\ UNCHANGED <<aside, bus, client, keeper, running, unheard, overtaken>>

Return ==
  /\ at = "closing" /\ closing["run"] \in {"done", "raised"}
  /\ at' = IF closing["run"] = "done" THEN "ended" ELSE "raised"
  /\ UNCHANGED <<aside, bus, client, keeper, running, down, closing, unheard, overtaken>>

-----------------------------------------------------------------------------
(* _shutdown *)

\* The application calls stop() from a thread of its own, from the callback of a watch, or
\* from a driver's callback in the thread of the system events.
Stop ==
  /\ closing["stop"] = "none"
  /\ closing' = [closing EXCEPT !["stop"] = "deregister"]
  /\ from' \in {"application"} \union (IF watched # {} THEN {"watch"} ELSE {})
                              \union (IF "events" \in running THEN {"events"} ELSE {})
  /\ down' = TRUE
  /\ UNCHANGED <<conf, executor, watched, iterating, early>>
  /\ UNCHANGED <<at, bus, client, keeper, running, unheard, overtaken>>

\* The shutdown runs in one of the threads it waits for, and a thread cannot join itself.
Within(c, thread) == c = "stop" /\ from = thread

Closes(c, step, next) ==
  /\ closing[c] = step
  /\ closing' = [closing EXCEPT ![c] = next]

\* One DELETE, which may fail; a second caller that finds no client sends none.
Deregister(c) ==
  /\ Closes(c, "deregister", "watches")
  /\ IF client
     THEN \/ keeper' = FALSE /\ UNCHANGED unheard
          \/ unheard' = TRUE /\ UNCHANGED keeper
     ELSE UNCHANGED <<keeper, unheard>>
  /\ client' = FALSE
  /\ iterating' = [iterating EXCEPT ![c] = Cardinality(watched)]
  /\ UNCHANGED <<conf, from, executor, at, bus, running, down, watched, overtaken, early>>

\* The watch of a new section begins: an entry is added to the two dicts.
Listen(s) ==
  /\ s \notin watched
  /\ watched' = watched \union {s}
  /\ UNCHANGED <<conf, from, executor, at, bus, client, keeper, running, down, closing,
                 iterating, unheard, overtaken, early>>

\* A dict that grows while _shutdown iterates over it.
Grown(c) == iterating[c] > 0 /\ Cardinality(watched) > iterating[c]

\* Every watch is told to stop and waited for.  A dict that grows meanwhile ends the loop, and
\* _shutdown, with a RuntimeError; so does the watch whose callback it runs in, unless that
\* has been replaced in the dict.
StopWatches(c) ==
  /\ \/ Closes(c, "watches", "join")
     \/ (Grown(c) \/ Within(c, "watch")) /\ Closes(c, "watches", "raised")
  /\ iterating' = [iterating EXCEPT ![c] = 0]
  /\ UNCHANGED <<conf, from, executor, watched, early, at, bus, client, keeper, running, down, unheard, overtaken>>

\* Every thread is given two seconds; the one it runs in raises a RuntimeError.
Join(c) ==
  /\ Closes(c, "join", IF Within(c, "events") THEN "raised" ELSE "executor")
  /\ UNCHANGED <<aside, at, bus, client, keeper, running, down, unheard, overtaken>>

\* if self._metadata_executor is not None ...
LookAtExecutor(c) ==
  /\ Closes(c, "executor", IF executor THEN "shut" ELSE "disconnect")
  /\ UNCHANGED <<aside, at, bus, client, keeper, running, down, unheard, overtaken>>

\* ... then self._metadata_executor.shutdown: the attribute is read once more.
ShutExecutor(c) ==
  /\ Closes(c, "shut", IF executor THEN "disconnect" ELSE "raised")
  /\ executor' = FALSE
  /\ UNCHANGED <<conf, from, watched, iterating, early>>
  /\ UNCHANGED <<at, bus, client, keeper, running, down, unheard, overtaken>>

\* _run_metadata: the first write-back, or the first after a shutdown, makes an executor.
WriteBack ==
  /\ ~ executor /\ executor' = TRUE
  /\ UNCHANGED <<conf, from, watched, iterating, early>>
  /\ UNCHANGED <<at, bus, client, keeper, running, down, closing, unheard, overtaken>>

\* Mutant: a shutdown that is not stop's leaves the bus to the application.
DisconnectOnce(c) ==
  /\ Closes(c, "disconnect", "done")
  /\ bus' = IF c = "stop" /\ bus = "up" THEN "closed" ELSE bus
  /\ early' = (early \/ (c = "stop" /\ bus = "none"))
  /\ UNCHANGED <<conf, from, executor, at, client, keeper, running, down, watched, iterating,
                 unheard, overtaken>>

Disconnect(c) ==
  /\ Closes(c, "disconnect", "done")
  /\ bus' = IF bus = "up" THEN "closed" ELSE bus
  /\ early' = (early \/ (c = "stop" /\ bus = "none"))
  /\ UNCHANGED <<conf, from, executor, at, client, keeper, running, down, watched, iterating,
                 unheard, overtaken>>

\* The loops look at the event, when no callback is under way; the validation loop has an
\* event of its own that nobody sets.
ThreadEnds(t) ==
  /\ t \in running \ {"validation"} /\ down
  /\ t = "events" /\ from = "events" => closing["stop"] \in {"done", "raised"}
  /\ running' = running \ {t}
  /\ UNCHANGED <<aside, at, bus, client, keeper, down, closing, unheard, overtaken>>

Run ==
  \/ Check \/ Ping \/ Post \/ StartHttp
  \/ StartValidation \/ StartPumps \/ StartCommands \/ StartEvents
  \/ StartDriver \/ StartClients \/ Return

Close(c) ==
  \/ Deregister(c) \/ StopWatches(c) \/ Join(c)
  \/ LookAtExecutor(c) \/ ShutExecutor(c) \/ Disconnect(c)

Next ==
  \/ Connect \/ Run \/ Serve \/ Stop \/ WriteBack
  \/ \E c \in Closer : Close(c)
  \/ \E t \in BusThread : ThreadEnds(t)
  \/ \E s \in Section : Listen(s)

Spec == Init /\ [][Next]_vars

\* Requests have a timeout, the registration a deadline, driver.start() returns, loops poll.
Fairness ==
  /\ SF_vars(Check /\ at' = "http") /\ WF_vars(Run)
  /\ \A c \in Closer : WF_vars(Close(c))
  /\ \A t \in BusThread : WF_vars(ThreadEnds(t))

FairSpec == Spec /\ Fairness

-----------------------------------------------------------------------------
(* Properties. *)

\* Once run() has served and ended, Core Keeper routes nothing to it any more, unless the
\* DELETE failed, or stop() was called while a registration was on its way.
GoneFromRegistry == at = "ended" /\ keeper => unheard \/ overtaken

\* A shutdown that is over leaves no bus connected and no thread but the validation's for
\* long: not when run() has ended, and not when run() raised and the application cleaned up
\* with stop(), unless that stop() came before run() had connected.  A shutdown itself is
\* cut short, in spite of stop()'s docstring, only when the application listens to a new
\* section during it, when stop() is called from a callback in a thread it joins, or when
\* the other shutdown clears the executor this one has looked at.
BusIsClosed ==
  /\ at = "ended" => bus # "up"
  /\ at = "raised" /\ closing["stop"] = "done" /\ ~ early => bus # "up"
  /\ \A c \in Closer : closing[c] = "raised" =>
       \/ Cardinality(watched) > 1
       \/ c = "stop" /\ from # "application"
       \/ \E d \in Closer \ {c} : closing[d] \in {"disconnect", "done"}

\* A shutdown, whenever it comes, ends every thread but the validation's, and no thread that
\* a run() still starting starts later stays.
ThreadsEnd == down ~> [](running \subseteq {"validation"} \/ at \notin {"serving", "closing", "ended", "raised"})
=============================================================================
