------------------------------ MODULE DeviceDown ------------------------------
(***************************************************************************)
(* Device Down and its recovery, for one Device: every command that fails  *)
(* uses up one of AllowedFails, the last one marks the Device DOWN, a      *)
(* command that succeeds refills them and marks a DOWN Device UP           *)
(* (internal/application/command.py), and a pump is to retry DOWN Devices  *)
(* (DeviceService._device_return_pump).                                    *)
(*                                                                         *)
(* Commands run on HTTP threads and on a thread per message-bus command;   *)
(* AutoEvents bypass all this.  The counts are a module-level dictionary   *)
(* without a lock, so its reads and writes are steps of their own; marking *)
(* a Device is the write-back of DeviceWriteback, here the operating state *)
(* only.  Application, driver and the events of Core Metadata write the    *)
(* operating state too, and nobody tells the counts (MarkedByOthers).      *)
(***************************************************************************)
EXTENDS Integers

CONSTANTS
  Caller,         \* threads that run commands on the Device
  AllowedFails,   \* configuration.device.allowed_fails
  Recovery,       \* whether device_down_timeout is positive
  Absent,         \* stands for "no count under this name"
  Floor           \* bound: how far below zero the count may sink

ASSUME DownAssumption ==
  /\ AllowedFails \in Nat /\ Recovery \in BOOLEAN
  /\ Absent \notin Int /\ Floor \in Nat \ {0}

VARIABLES
  count,      \* _allowed_request_failures[name], or Absent
  opState,    \* the operating state of the cached Device
  pc,         \* where each caller is in its command
  seen,       \* the operating state in the caller's clone of the Device
  local,      \* the caller's result of count - 1
  goal,       \* the operating state the caller wants to write
  saved,      \* the snapshot its write-back would put back
  reply,      \* how its last command ended
  pump,       \* where the device-return pump is
  fails,      \* history: commands in a row without an answer, up to AllowedFails
  answered,   \* history: whether the Device has ever answered
  refused,    \* history: whether Core Metadata has refused an operating state
  raced,      \* history: whether two commands have overlapped since the Device,
              \* while UP, last answered a command that ran by itself
  marked      \* history: whether anything but these commands has written the
              \* operating state since then

vars == <<count, opState, pc, seen, local, goal, saved, reply, pump,
          fails, answered, refused, raced, marked>>

State == {"UP", "DOWN"}
Step  == {"idle", "check", "driver",
          "read", "store", "reread", "lookup",                \* it failed
          "compare", "refill",                                \* it succeeded
          "snapshot", "write", "request", "rollback"}         \* it marks the Device

history == <<fails, answered, refused, raced, marked>>

Alone(c) == \A x \in Caller \ {c} : pc[x] = "idle"

Goto(c, step) == pc' = [pc EXCEPT ![c] = step] /\ UNCHANGED reply

Finish(c, result) ==
  /\ pc' = [pc EXCEPT ![c] = "idle"]
  /\ reply' = [reply EXCEPT ![c] = result]

\* failure_count
Left == IF count = Absent THEN 0 ELSE count

-----------------------------------------------------------------------------
(* command_read, command_write: the checks, then the driver. *)

\* for_name returns a clone: the checks below look at it, not at the cache.
Begin(c) ==
  /\ pc[c] = "idle"
  /\ Left > 0 - Floor
  /\ Goto(c, "check")
  /\ seen' = [seen EXCEPT ![c] = opState]
  /\ raced' = (raced \/ ~Alone(c))
  /\ UNCHANGED <<count, opState, local, goal, saved, pump, fails, answered, refused, marked>>

\* device_request_failed, called on every EdgexError of a command.
Failed(c) ==
  /\ IF AllowedFails = 0 THEN Finish(c, "error") ELSE Goto(c, "read")
  /\ fails' = IF fails < AllowedFails THEN fails + 1 ELSE fails
  /\ UNCHANGED <<count, opState, seen, local, goal, saved, pump, answered, refused,
                 raced, marked>>

\* A Device that is DOWN is only asked while the count is not exactly zero.
RejectsDown(c) ==
  /\ seen[c] = "DOWN"
  /\ AllowedFails = 0 \/ ~Recovery \/ count = 0

Check(c) ==
  /\ pc[c] = "check"
  /\ IF RejectsDown(c)
     THEN Failed(c)
     ELSE /\ Goto(c, "driver")
          /\ UNCHANGED <<count, opState, seen, local, goal, saved, pump, history>>

\* Locked, without a profile, unknown command, refused by the driver, an answer that
\* cannot be transformed, ...: all EdgexErrors.
Unanswered(c) ==
  /\ pc[c] \in {"check", "driver"}
  /\ Failed(c)

Answered(c) ==
  /\ pc[c] = "driver"
  /\ Goto(c, "compare")
  /\ fails' = 0
  /\ answered' = TRUE
  /\ raced' = (raced /\ ~(Alone(c) /\ opState = "UP"))
  /\ marked' = (marked /\ ~(Alone(c) /\ opState = "UP"))
  /\ UNCHANGED <<count, opState, seen, local, goal, saved, pump, refused>>

-----------------------------------------------------------------------------
(* device_request_failed: decrease_failure_count reads, stores and reads again. *)

Read(c) ==
  /\ pc[c] = "read"
  /\ Goto(c, "store")
  /\ local' = [local EXCEPT ![c] = Left - 1]
  /\ UNCHANGED <<count, opState, seen, goal, saved, pump, history>>

Store(c) ==
  /\ pc[c] = "store"
  /\ Goto(c, "reread")
  /\ count' = local[c]
  /\ UNCHANGED <<opState, seen, local, goal, saved, pump, history>>

\* Mutant: the Device is marked one failure too late.
RereadBelowZero(c) ==
  /\ pc[c] = "reread"
  /\ IF count < 0 THEN Goto(c, "lookup") ELSE Finish(c, "error")
  /\ UNCHANGED <<count, opState, seen, local, goal, saved, pump, history>>

\* Mutant: the Device is marked one failure too early.
RereadAtOne(c) ==
  /\ pc[c] = "reread"
  /\ IF count = 1 THEN Goto(c, "lookup") ELSE Finish(c, "error")
  /\ UNCHANGED <<count, opState, seen, local, goal, saved, pump, history>>

Reread(c) ==
  /\ pc[c] = "reread"
  /\ IF count = 0 THEN Goto(c, "lookup") ELSE Finish(c, "error")
  /\ UNCHANGED <<count, opState, seen, local, goal, saved, pump, history>>

Lookup(c) ==
  /\ pc[c] = "lookup"
  /\ IF opState = "DOWN" THEN Finish(c, "error") ELSE Goto(c, "snapshot")
  /\ goal' = [goal EXCEPT ![c] = "DOWN"]
  /\ UNCHANGED <<count, opState, seen, local, saved, pump, history>>

-----------------------------------------------------------------------------
(* device_request_succeeded, with the clone the command started from. *)

Compare(c) ==
  /\ pc[c] = "compare"
  /\ IF Left < AllowedFails THEN Goto(c, "refill") ELSE Finish(c, "ok")
  /\ UNCHANGED <<count, opState, seen, local, goal, saved, pump, history>>

\* Mutant: the Device is not marked UP.
RefillOnly(c) ==
  /\ pc[c] = "refill"
  /\ Finish(c, "ok")
  /\ count' = AllowedFails
  /\ UNCHANGED <<opState, seen, local, goal, saved, pump, history>>

\* Mutant: the allowance is added to what is left of it.
RefillAdds(c) ==
  /\ pc[c] = "refill"
  /\ count' = Left + AllowedFails
  /\ IF seen[c] = "DOWN" THEN Goto(c, "snapshot") ELSE Finish(c, "ok")
  /\ goal' = [goal EXCEPT ![c] = "UP"]
  /\ UNCHANGED <<opState, seen, local, saved, pump, history>>

Refill(c) ==
  /\ pc[c] = "refill"
  /\ count' = AllowedFails
  /\ IF seen[c] = "DOWN" THEN Goto(c, "snapshot") ELSE Finish(c, "ok")
  /\ goal' = [goal EXCEPT ![c] = "UP"]
  /\ UNCHANGED <<opState, seen, local, saved, pump, history>>

-----------------------------------------------------------------------------
(* update_device_operating_state: cache first, then Core Metadata. *)

Snapshot(c) ==
  /\ pc[c] = "snapshot"
  /\ Goto(c, "write")
  /\ saved' = [saved EXCEPT ![c] = opState]
  /\ UNCHANGED <<count, opState, seen, local, goal, pump, history>>

Write(c) ==
  /\ pc[c] = "write"
  /\ Goto(c, "request")
  /\ opState' = goal[c]
  /\ UNCHANGED <<count, seen, local, goal, saved, pump, history>>

\* A command that failed ends in its error, whether or not the Device was marked.
Stored(c) ==
  /\ pc[c] = "request"
  /\ Finish(c, IF goal[c] = "UP" THEN "ok" ELSE "error")
  /\ UNCHANGED <<count, opState, seen, local, goal, saved, pump, history>>

NotStored(c) ==
  /\ pc[c] = "request"
  /\ Goto(c, "rollback")
  /\ refused' = TRUE
  /\ UNCHANGED <<count, opState, seen, local, goal, saved, pump, fails, answered,
                 raced, marked>>

\* The EdgexError of the write-back replaces the command's answer.
Rollback(c) ==
  /\ pc[c] = "rollback"
  /\ Finish(c, "error")
  /\ opState' = saved[c]
  /\ UNCHANGED <<count, seen, local, goal, saved, pump, history>>

-----------------------------------------------------------------------------
(* Everybody else. *)

\* update_device_operating_state called by the application or the driver, its rollback,
\* an update of the whole Device, an update event: at any time, to either state, and
\* without a look at the count.
MarkedByOthers(state) ==
  /\ opState' = state
  /\ marked' = TRUE
  /\ UNCHANGED <<count, pc, seen, local, goal, saved, reply, pump, fails, answered,
                 refused, raced>>

-----------------------------------------------------------------------------
(* The device-return pump. *)

\* What the pump asks of a DOWN Device.
PumpCommandName == ""

\* After device_down_timeout seconds: is the Device DOWN?
PumpLook ==
  /\ Recovery /\ pump = "sleep"
  /\ pump' = IF opState = "DOWN" THEN "ask" ELSE "sleep"
  /\ UNCHANGED <<count, opState, pc, seen, local, goal, saved, reply, history>>

\* command_read rejects an empty command name before it looks at anything.
PumpAsk ==
  /\ pump = "ask"
  /\ pump' = IF PumpCommandName = "" THEN "sleep" ELSE "driver"
  /\ UNCHANGED <<count, opState, pc, seen, local, goal, saved, reply, history>>

-----------------------------------------------------------------------------
\* initialize_failure_tracker is called by nobody: the dictionary starts empty.
Init ==
  /\ count = Absent
  /\ opState \in State
  /\ pc = [c \in Caller |-> "idle"]
  /\ seen = [c \in Caller |-> "UP"]
  /\ local = [c \in Caller |-> 0]
  /\ goal = [c \in Caller |-> "UP"]
  /\ saved = [c \in Caller |-> "UP"]
  /\ reply = [c \in Caller |-> "none"]
  /\ pump = "sleep"
  /\ fails = 0
  /\ answered = FALSE
  /\ refused = FALSE
  /\ raced = FALSE
  /\ marked = FALSE

Proceed(c) ==
  \/ Check(c) \/ Unanswered(c) \/ Answered(c)
  \/ Read(c) \/ Store(c) \/ Reread(c) \/ Lookup(c)
  \/ Compare(c) \/ Refill(c)
  \/ Snapshot(c) \/ Write(c) \/ Rollback(c)

Next ==
  \/ \E c \in Caller : Begin(c) \/ Proceed(c) \/ Stored(c) \/ NotStored(c)
  \/ \E state \in State : MarkedByOthers(state)
  \/ PumpLook \/ PumpAsk

Spec == Init /\ [][Next]_vars

\* Threads keep running, the driver answers or fails, the HTTP client gives up after
\* its timeout, and the pump wakes up again and again.  Nobody need send a command.
Fairness ==
  /\ \A c \in Caller : WF_vars(Proceed(c)) /\ WF_vars(NotStored(c))
  /\ WF_vars(PumpLook \/ PumpAsk)

FairSpec == Spec /\ Fairness
-----------------------------------------------------------------------------
\* Types; a count never exceeds AllowedFails.
TypeOK ==
  /\ count \in Int \union {Absent}
  /\ Left <= AllowedFails
  /\ opState \in State
  /\ pc \in [Caller -> Step]
  /\ seen \in [Caller -> State]
  /\ local \in [Caller -> Int]
  /\ \A c \in Caller : local[c] <= AllowedFails
  /\ goal \in [Caller -> State]
  /\ saved \in [Caller -> State]
  /\ reply \in [Caller -> {"none", "ok", "error"}]
  /\ pump \in {"sleep", "ask", "driver"}
  /\ fails \in 0..AllowedFails
  /\ answered \in BOOLEAN
  /\ refused \in BOOLEAN
  /\ raced \in BOOLEAN
  /\ marked \in BOOLEAN

Quiet == \A c \in Caller : pc[c] = "idle"

\* Only these commands have a say in the operating state, and Core Metadata has agreed.
Undisturbed == ~refused /\ ~marked

\* A Device that has answered before, and then fails AllowedFails commands in a row,
\* is DOWN, unless commands raced, somebody else wrote the operating state or Core
\* Metadata refused one: one success in peace makes good whatever races and other
\* writers did before it.
ExhaustedIsDown ==
  /\ Quiet /\ answered /\ Undisturbed /\ ~raced
  /\ AllowedFails > 0 /\ fails = AllowedFails
  => opState = "DOWN"

\* A command marks the Device DOWN only after AllowedFails commands in a row have
\* failed: neither the refill of a success nor the refused mark of an earlier failure is
\* forgotten, whoever else writes the operating state.  (A rollback may put DOWN back.)
DownIsEarned ==
  [][~raced /\ pc' # pc /\ opState = "UP" /\ opState' = "DOWN" =>
       fails = AllowedFails \/ \E c \in Caller : pc[c] = "rollback"]_vars

\* "once the allowed failures are exhausted, mark the Device as non-operational"
FailingIsDown ==
  /\ Quiet /\ Undisturbed
  /\ AllowedFails > 0 /\ fails = AllowedFails
  => opState = "DOWN"

\* "Successful request restores UP state and resets failure count": also when the
\* Device was DOWN from the start, or was marked DOWN by the failures of other threads.
\* Three things may leave it DOWN with a full count, and the next success does not look
\* at the operating state then: commands that raced, a mark Core Metadata has refused,
\* and a DOWN the application, the driver or an event has written.
SuccessRestoresUp ==
  [][\A c \in Caller :
       /\ Undisturbed /\ ~raced
       /\ pc[c] # "idle" /\ pc'[c] = "idle" /\ reply'[c] = "ok"
       => opState' = "UP"]_vars

\* "For each device in DOWN state, waits for DeviceDownTimeout seconds then attempts
\* to restore it by triggering a read command"
DownIsRetried == opState = "DOWN" ~> opState = "UP" \/ pump = "driver"
=============================================================================
