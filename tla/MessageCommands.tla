--------------------------- MODULE MessageCommands ---------------------------
(***************************************************************************)
(* Commands that arrive over the message bus                               *)
(* (internal/controller/messaging/command.py): one loop takes them from a  *)
(* bounded queue; a semaphore of the same size lets a worker thread run    *)
(* each, or has it answered busy; the worker executes the command, answers *)
(* on the response topic of the request and may publish the event.         *)
(***************************************************************************)
EXTENDS MessageBus, FiniteSets

CONSTANTS
  Command,        \* the Requests on CommandTopic
  CommandTopic,
  Scenario,       \* what the commands may say: method, query and valid payload
  Max             \* max_concurrent_commands

QueryValue == {"absent", "true", "false", "other"}

Content == [method : {"GET", "SET", "PUT"},
            query  : [push : QueryValue, return : QueryValue],
            valid  : BOOLEAN]

ASSUME CommandAssumption ==
  /\ Command \subseteq Request
  /\ CommandTopic \in Topic
  /\ Max \in Nat \ {0}
  /\ Room[CommandTopic] = Max
  /\ Scenario \subseteq [Command -> Content]

VARIABLES
  content,    \* what each command request says
  phase,      \* how far it has come
  outcome,    \* how its execution ended
  pushed,     \* the commands whose event has reached the bus
  free,       \* permits left in the semaphore
  loop,       \* the subscription thread
  cancelled   \* ctx_cancel: the service is shutting down

cmdVars == <<content, phase, outcome, pushed, free, loop, cancelled>>
vars == <<busVars, cmdVars>>

Phase == {"unsent", "missed", "queued", "held", "execute", "answer", "push", "ended"}
Outcome == {"none", "event", "binary", "oversize", "empty", "EdgexError", "exception"}

Working == {r \in Command : phase[r] \in {"execute", "answer", "push"}}

TypeOK ==
  /\ BusTypeOK
  /\ content \in [Command -> Content]
  /\ phase \in [Command -> Phase]
  /\ outcome \in [Command -> Outcome]
  /\ pushed \subseteq Command
  /\ free \in 0..Max
  /\ loop \in {"start", "wait", "hand", "stopped"}
  /\ cancelled \in BOOLEAN

Init ==
  /\ BusInit
  /\ content \in Scenario
  /\ phase = [r \in Command |-> "unsent"]
  /\ outcome = [r \in Command |-> "none"]
  /\ pushed = {}
  /\ free = Max
  /\ loop = "start"
  /\ cancelled = FALSE

\* Only the exact values count: ds-pushevent=True is off, ds-returnevent=0 is on.
Reserved(query) ==
  [push |-> query.push = "true", return |-> query.return # "false"]

\* The topic has three parts after the prefix and the last is GET or SET.
WellFormed(r) == content[r].method \in {"GET", "SET"}

ReturnsEvent(r) == content[r].method = "GET" /\ Reserved(content[r].query).return

PushesEvent(r) == content[r].method = "SET" \/ Reserved(content[r].query).push

Become(r, p) == phase' = [phase EXCEPT ![r] = p]

-----------------------------------------------------------------------------
(* The subscription thread. *)

Start ==
  /\ loop = "start"
  /\ Subscribe(CommandTopic)
  /\ loop' = "wait"
  /\ UNCHANGED <<content, phase, outcome, pushed, free, cancelled>>

\* Someone publishes a command request; an undecodable one is only logged.
Send(r) ==
  /\ phase[r] = "unsent"
  /\ IF Heard(CommandTopic)
     THEN /\ Enqueue(CommandTopic, r)
          /\ Become(r, IF HasRoom(CommandTopic) THEN "queued" ELSE "missed")
     ELSE Become(r, "missed") /\ UNCHANGED busVars
  /\ UNCHANGED <<content, outcome, pushed, free, loop, cancelled>>

\* Mutant: the loop ends over a topic that it cannot parse.
TakeOrDie ==
  /\ loop = "wait" /\ ~ cancelled
  /\ queue[CommandTopic] # <<>>
  /\ LET r == Head(queue[CommandTopic]) IN
       IF WellFormed(r)
       THEN Become(r, "held") /\ loop' = "hand"
       ELSE Become(r, "ended") /\ loop' = "stopped"
  /\ queue' = Dequeue(CommandTopic)
  /\ UNCHANGED <<link, session, handlers, existing, answers, flaps>>
  /\ UNCHANGED <<content, outcome, pushed, free, cancelled>>

Take ==
  /\ loop = "wait" /\ ~ cancelled
  /\ queue[CommandTopic] # <<>>
  /\ LET r == Head(queue[CommandTopic]) IN
       IF WellFormed(r)
       THEN Become(r, "held") /\ loop' = "hand"
       ELSE Become(r, "ended") /\ UNCHANGED loop
  /\ queue' = Dequeue(CommandTopic)
  /\ UNCHANGED <<link, session, handlers, existing, answers, flaps>>
  /\ UNCHANGED <<content, outcome, pushed, free, cancelled>>

\* Mutant: the busy answer is sent and the command executed all the same.
AdmitBusy(r) ==
  /\ phase[r] = "held"
  /\ loop' = "wait"
  /\ IF free > 0
     THEN free' = free - 1 /\ UNCHANGED answers
     ELSE Publish(r, "busy") /\ UNCHANGED free
  /\ Become(r, "execute")
  /\ UNCHANGED <<link, session, handlers, existing, queue, flaps>>
  /\ UNCHANGED <<content, outcome, pushed, cancelled>>

\* sem.acquire(blocking=False): a worker thread, or the busy answer.
Admit(r) ==
  /\ phase[r] = "held"
  /\ loop' = "wait"
  /\ IF free > 0
     THEN free' = free - 1 /\ Become(r, "execute") /\ UNCHANGED answers
     ELSE Publish(r, "busy") /\ Become(r, "ended") /\ UNCHANGED free
  /\ UNCHANGED <<link, session, handlers, existing, queue, flaps>>
  /\ UNCHANGED <<content, outcome, pushed, cancelled>>

Stop ==
  /\ loop = "wait" /\ cancelled
  /\ loop' = "stopped"
  /\ UNCHANGED <<busVars, content, phase, outcome, pushed, free, cancelled>>

-----------------------------------------------------------------------------
(* One worker thread per admitted command; its permit comes back in a finally. *)

\* Mutant: the early returns after a failed execution keep the permit.
FinishOnSuccess(r) ==
  /\ Become(r, "ended")
  /\ free' = IF phase[r] = "execute" THEN free ELSE free + 1

Finish(r) ==
  /\ Become(r, "ended")
  /\ free' = free + 1

\* command_read or command_write comes to an end: its EdgexErrors are answered, any
\* other exception ends the thread without an answer.  A payload that is not a map
\* is answered before anything is executed.
Execute(r, o) ==
  /\ phase[r] = "execute"
  /\ o \in Outcome \ {"none"}
  /\ content[r].method = "SET" /\ ~ content[r].valid => o = "EdgexError"
  /\ outcome' = [outcome EXCEPT ![r] = o]
  /\ CASE o = "EdgexError" -> Publish(r, "error") /\ Finish(r)
       [] o = "exception"  -> UNCHANGED answers /\ Finish(r)
       [] OTHER            -> UNCHANGED <<answers, free>> /\ Become(r, "answer")
  /\ UNCHANGED <<link, session, handlers, existing, queue, flaps>>
  /\ UNCHANGED <<content, pushed, loop, cancelled>>

\* The envelope's JSON cannot hold the bytes of a returned binary reading: the
\* TypeError becomes a RuntimeError, which is logged.
Encodable(r) == ~ (outcome[r] = "binary" /\ ReturnsEvent(r))

HasEvent(r) == outcome[r] # "empty"

Answer(r) ==
  /\ phase[r] = "answer"
  /\ IF Encodable(r)
     THEN /\ Publish(r, "ok")
          /\ IF HasEvent(r) /\ PushesEvent(r)
             THEN Become(r, "push") /\ UNCHANGED free
             ELSE Finish(r)
     ELSE UNCHANGED answers /\ Finish(r)
  /\ UNCHANGED <<link, session, handlers, existing, queue, flaps>>
  /\ UNCHANGED <<content, outcome, pushed, loop, cancelled>>

\* publish_event: an event beyond MaxEventSize is refused, and that is logged.
Push(r) ==
  /\ phase[r] = "push"
  /\ pushed' = IF Up /\ outcome[r] # "oversize" THEN pushed \union {r} ELSE pushed
  /\ Finish(r)
  /\ UNCHANGED busVars
  /\ UNCHANGED <<content, outcome, loop, cancelled>>

-----------------------------------------------------------------------------
Cancel ==
  /\ ~ cancelled
  /\ cancelled' = TRUE
  /\ UNCHANGED <<busVars, content, phase, outcome, pushed, free, loop>>

\* _shutdown disconnects the client after it has waited for the loops.
Link == (LinkDown \/ Reconnect \/ (cancelled /\ Disconnect)) /\ UNCHANGED cmdVars

Loop == Start \/ Take \/ (\E r \in Command : Admit(r)) \/ Stop

Worker(r) == (\E o \in Outcome : Execute(r, o)) \/ Answer(r) \/ Push(r)

Next ==
  \/ Loop
  \/ \E r \in Command : Send(r) \/ Worker(r)
  \/ Cancel
  \/ Link

Spec == Init /\ [][Next]_vars

\* The loop polls twice a second; a driver's handler returns or raises.
Fairness == WF_vars(Loop) /\ \A r \in Command : WF_vars(Worker(r))

-----------------------------------------------------------------------------
\* The permits that are out are exactly the workers at work: however a command ends,
\* by any of the early returns or by an exception, its permit comes back once.
PermitsAreWorkers == free + Cardinality(Working) = Max

\* A requester is answered once, in accordance with what was done: a busy answer
\* means the driver was never asked, an error answer that the command ended in an
\* EdgexError or had no valid payload.
AnswersMatchOutcome ==
  \A r \in Command :
    answers[r] \in {<<>>}
      \union {<<"busy">> : o \in {outcome[r]} \intersect {"none"}}
      \union {<<"error">> : o \in {outcome[r]} \intersect {"EdgexError"}}
      \union {<<"ok">> : o \in {outcome[r]} \ {"none", "EdgexError", "exception"}}

\* A command that was taken and gets no answer was malformed, raised something else
\* than an EdgexError, read a binary value to return, or met a link that was down.
SilenceIsExplained ==
  \A r \in Command :
    phase[r] = "ended" /\ answers[r] = <<>> =>
      \/ ~ WellFormed(r)
      \/ outcome[r] = "exception"
      \/ ~ Encodable(r)
      \/ ~ Held

\* Subscribers see the event of a command only after its requester has been told of
\* the success, as long as the link holds.
EventFollowsAnswer ==
  \A r \in pushed : answers[r] = <<"ok">> \/ ~ Held

\* Every command that got as far as the queue is dealt with, unless the service is
\* shut down: permits are never used up for good.
QueuedAreServed ==
  \A r \in Command : phase[r] = "queued" ~> phase[r] = "ended" \/ cancelled
=============================================================================
