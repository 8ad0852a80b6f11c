------------------------------ MODULE AsyncPump ------------------------------
(***************************************************************************)
(* The channel of AsyncValues and its pump (DeviceService.                 *)
(* _process_async_values), which shares get_unique_origin of               *)
(* transformer/transform.py with the callers of commands.  The driver and  *)
(* the AutoEvent executors wait in put() while the channel is full.        *)
(***************************************************************************)
EXTENDS Naturals, Sequences

CONSTANTS
  Producer,     \* threads that put
  Capacity,     \* async_buffer_size; 0 is no limit
  Sizes,        \* how many CommandValues a put list may have
  MaxPuts,      \* bound: lists that are put
  MaxCommands,  \* bound: events of commands
  MaxClock      \* bound: time.time_ns()

List == [size : Sizes, named : BOOLEAN]

VARIABLES
  async,        \* _async_values_channel
  putting,      \* what each producer is putting, or none
  puts, commands,
  clock,        \* time.time_ns(), which may stand still or be set back
  previous,     \* _previous_origin
  stamped,      \* the origins of the events, as they were made
  pumping,      \* the list the pump is at, if any
  halted        \* _shutdown_event, and the pump's last look at it: "no", "asked", "yes"

asyncVars == <<async, putting, puts, commands, clock, previous, stamped, pumping, halted>>

AsyncInit ==
  /\ async = <<>> /\ putting = [p \in Producer |-> <<>>]
  /\ puts = 0 /\ commands = 0
  /\ clock = 1 /\ previous = 0 /\ stamped = <<>>
  /\ pumping = <<>> /\ halted = "no"

-----------------------------------------------------------------------------
Produce(p, list) ==
  /\ putting[p] = <<>> /\ puts < MaxPuts
  /\ putting' = [putting EXCEPT ![p] = <<list>>]
  /\ puts' = puts + 1
  /\ UNCHANGED <<async, commands, clock, previous, stamped, pumping, halted>>

Room == Capacity = 0 \/ Len(async) < Capacity

Put(p) ==
  /\ putting[p] # <<>> /\ Room
  /\ async' = async \o putting[p]
  /\ putting' = [putting EXCEPT ![p] = <<>>]
  /\ UNCHANGED <<puts, commands, clock, previous, stamped, pumping, halted>>

\* Mutant: an origin of the same nanosecond is given twice.
StampTwice ==
  LET now == IF clock < previous THEN previous + 1 ELSE clock
  IN previous' = now /\ stamped' = Append(stamped, now)

\* get_unique_origin, under its mutex.
Stamp ==
  LET now == IF clock <= previous THEN previous + 1 ELSE clock
  IN previous' = now /\ stamped' = Append(stamped, now)

\* A command makes an event of its own.
Command ==
  /\ commands < MaxCommands /\ commands' = commands + 1
  /\ Stamp
  /\ UNCHANGED <<async, putting, puts, clock, pumping, halted>>

Tick(t) ==
  /\ clock' = t
  /\ UNCHANGED <<async, putting, puts, commands, previous, stamped, pumping, halted>>

Halt ==
  /\ halted = "no" /\ halted' = "asked"
  /\ UNCHANGED <<async, putting, puts, commands, clock, previous, stamped, pumping>>

-----------------------------------------------------------------------------
\* The loop looks at the shutdown before it waits for the channel.
Get ==
  /\ pumping = <<>> /\ async # <<>> /\ halted # "yes"
  /\ pumping' = <<Head(async)>> /\ async' = Tail(async)
  /\ UNCHANGED <<putting, puts, commands, clock, previous, stamped, halted>>

\* An empty list, and several values without a source, are passed over; the others become an
\* event, or fail where command_values_to_event does, before or after its origin is taken.
Process ==
  /\ pumping # <<>>
  /\ LET list == pumping[1]
     IN IF list.size = 0 \/ (list.size > 1 /\ ~ list.named)
        THEN UNCHANGED <<previous, stamped>>
        ELSE Stamp \/ UNCHANGED <<previous, stamped>>
  /\ pumping' = <<>>
  /\ UNCHANGED <<async, putting, puts, commands, clock, halted>>

End ==
  /\ pumping = <<>> /\ halted = "asked" /\ halted' = "yes"
  /\ UNCHANGED <<async, putting, puts, commands, clock, previous, stamped, pumping>>

Pump == Get \/ Process \/ End

AsyncNext ==
  \/ Pump \/ Command \/ Halt
  \/ \E p \in Producer : Put(p) \/ \E list \in List : Produce(p, list)
  \/ \E t \in 1 .. MaxClock : Tick(t)

AsyncSpec == AsyncInit /\ [][AsyncNext]_asyncVars

AsyncFairness == WF_asyncVars(Pump) /\ \A p \in Producer : WF_asyncVars(Put(p))

-----------------------------------------------------------------------------
(* Properties. *)

\* No two events have the same origin and later ones have later origins, whoever makes them,
\* when the clock stands still or is set back.
OriginsIncrease ==
  \A i, j \in DOMAIN stamped : i < j => stamped[i] < stamped[j]

\* Whoever waits for room in the channel gets on, whatever the pump meets, until the service
\* shuts down; after that it may wait for good.
PutsGetThrough ==
  \A p \in Producer : (putting[p] # <<>>) ~> (putting[p] = <<>> \/ halted # "no")
=============================================================================
