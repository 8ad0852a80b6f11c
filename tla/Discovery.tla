------------------------------ MODULE Discovery ------------------------------
(***************************************************************************)
(* Discovery of devices: the POST and DELETE handlers of /discovery        *)
(* (controller/http/discovery.py) with the stop handler of DeviceService,  *)
(* and the scheduler (autodiscovery/__init__.py).  What the driver finds   *)
(* goes to the pump of DiscoveredPump.tla.                                 *)
(* A discovery runs in a thread of its own.  What a stop knows about it is *)
(* a map from request ids to stop events and one reference to "the"        *)
(* thread, both changed without a lock by every request and every run; the *)
(* request id is the correlation header, which a request need not have.    *)
(***************************************************************************)
EXTENDS Integers, FiniteSets

CONSTANTS
  Request,      \* POST requests
  StopCall,     \* DELETE requests
  Id,           \* correlation ids, the empty one of a request without the header included
  Nobody        \* no run, no id

Scheduled == "scheduled"      \* the discoveries of the scheduler, one after the other
Run == Request \union {Scheduled}

VARIABLES
  run,          \* where each discovery is
  id,           \* the correlation id of each request
  stopEvents,   \* _discovery_stop_events: the run whose event an id names
  thread,       \* _discovery_thread
  signalled,    \* runs whose stop event is set; discover() is not given the event
  progress,     \* history: what each discovery last published
  stop,         \* where each DELETE request is, or how it ended
  crossed,      \* history: DELETEs that were handled while a POST was
  down          \* _shutdown_event

runVars == <<run, id, stopEvents, thread, signalled, progress>>
vars == <<runVars, stop, crossed, down>>

DiscoveryTypeOK ==
  /\ run \in [Run -> {"none", "registered", "recorded", "begun", "finding", "ending", "ended"}]
  /\ id \in [Request -> Id \union {Nobody}]
  /\ stopEvents \in [Id -> Request \union {Nobody}]
  /\ thread \in Request \union {Nobody}
  /\ signalled \subseteq Request
  /\ progress \in [Run -> {-1, 0, 100, Nobody}]
  /\ stop \in [StopCall -> {"none", "look", "join", "wait", "answered", "failed", "early"}]
  /\ crossed \subseteq StopCall
  /\ down \in BOOLEAN

Init ==
  /\ run = [r \in Run |-> "none"]
  /\ id = [a \in Request |-> Nobody]
  /\ stopEvents = [i \in Id |-> Nobody]
  /\ thread = Nobody /\ signalled = {}
  /\ progress = [r \in Run |-> Nobody]
  /\ stop = [s \in StopCall |-> "none"] /\ crossed = {}
  /\ down = FALSE

RunGoes(r, step) == run' = [run EXCEPT ![r] = step]
Tell(r, percent) == progress' = [progress EXCEPT ![r] = percent]

-----------------------------------------------------------------------------
(* POST /discovery, once the handler knows that discovery is enabled; the   *)
(* service is never found locked, as it keeps no admin state of its own.    *)

Register(a) ==
  /\ run[a] = "none"
  /\ \E i \in Id :
       /\ id' = [id EXCEPT ![a] = i]
       /\ stopEvents' = [stopEvents EXCEPT ![i] = a]
  /\ RunGoes(a, "registered")
  /\ crossed' = crossed \union {s \in StopCall : stop[s] \in {"look", "join", "wait"}}
  /\ UNCHANGED <<thread, signalled, progress, stop, down>>

\* The thread is "the" thread before it is started.
Record(a) ==
  /\ run[a] = "registered"
  /\ thread' = a
  /\ RunGoes(a, "recorded")
  /\ UNCHANGED <<id, stopEvents, signalled, progress, stop, crossed, down>>

Launch(a) ==
  /\ run[a] = "recorded"
  /\ RunGoes(a, "begun")
  /\ UNCHANGED <<id, stopEvents, thread, signalled, progress, stop, crossed, down>>

-----------------------------------------------------------------------------
(* A discovery: the run of a request, and the scheduler's.                  *)

\* The scheduler looks at the shutdown before and after it waits; its lock has one user.
Due ==
  /\ run[Scheduled] \in {"none", "ended"} /\ ~ down
  /\ RunGoes(Scheduled, "begun")
  /\ UNCHANGED <<id, stopEvents, thread, signalled, progress, stop, crossed, down>>

Begin(r) ==
  /\ run[r] = "begun"
  /\ Tell(r, 0)
  /\ RunGoes(r, "finding")
  /\ UNCHANGED <<id, stopEvents, thread, signalled, stop, crossed, down>>

\* Mutant: the discovery that raises is told to nobody.
FinishSilently(r) ==
  /\ run[r] = "finding"
  /\ Tell(r, 100) \/ UNCHANGED progress
  /\ RunGoes(r, IF r = Scheduled THEN "ended" ELSE "ending")
  /\ UNCHANGED <<id, stopEvents, thread, signalled, stop, crossed, down>>

\* discover() returns, or raises.
Finish(r) ==
  /\ run[r] = "finding"
  /\ \E percent \in {100, -1} : Tell(r, percent)
  /\ RunGoes(r, IF r = Scheduled THEN "ended" ELSE "ending")
  /\ UNCHANGED <<id, stopEvents, thread, signalled, stop, crossed, down>>

\* Mutant: the stop event of a run that has ended stays.
CleanThread(a) ==
  /\ run[a] = "ending"
  /\ thread' = Nobody
  /\ RunGoes(a, "ended")
  /\ UNCHANGED <<id, stopEvents, signalled, progress, stop, crossed, down>>

\* Whatever run the id now names, and whatever thread is "the" thread, is forgotten.
Clean(a) ==
  /\ run[a] = "ending"
  /\ stopEvents' = [stopEvents EXCEPT ![id[a]] = Nobody]
  /\ thread' = Nobody
  /\ RunGoes(a, "ended")
  /\ UNCHANGED <<id, signalled, progress, stop, crossed, down>>

-----------------------------------------------------------------------------
(* DELETE /discovery and /discovery/{requestId}.                            *)

Stop(s, i) ==
  /\ stop[s] = "none"
  /\ stop' = [stop EXCEPT ![s] = "look"]
  /\ crossed' = IF \E a \in Request : run[a] \in {"registered", "recorded"}
                THEN crossed \union {s}
                ELSE crossed
  /\ stopEvents' = [stopEvents EXCEPT ![i] = Nobody]
  /\ LET a == stopEvents[i]
     IN IF a = Nobody
        THEN UNCHANGED <<signalled, progress>>
        ELSE /\ signalled' = signalled \union {a}
             /\ Tell(a, -1)
  /\ UNCHANGED <<run, id, thread, down>>

Answered(s) == stop' = [stop EXCEPT ![s] = "answered"]

\* if self._discovery_thread is not None ...
Look(s) ==
  /\ stop[s] = "look"
  /\ IF thread = Nobody THEN Answered(s) ELSE stop' = [stop EXCEPT ![s] = "join"]
  /\ UNCHANGED <<runVars, crossed, down>>

\* ... then self._discovery_thread.join: the attribute is read once more, None has no
\* join, and a thread that is not started cannot be joined.
Join(s) ==
  /\ stop[s] = "join"
  /\ stop' = [stop EXCEPT ![s] = CASE thread = Nobody -> "failed"
                                  [] thread # Nobody /\ run[thread] = "recorded" -> "early"
                                  [] OTHER -> "wait"]
  /\ UNCHANGED <<runVars, crossed, down>>

\* The thread has ended, or two seconds have passed; then "the" thread is forgotten.
Joined(s) ==
  /\ stop[s] = "wait"
  /\ thread' = Nobody
  /\ Answered(s)
  /\ UNCHANGED <<run, id, stopEvents, signalled, progress, crossed, down>>

-----------------------------------------------------------------------------
Shutdown ==
  /\ ~ down /\ down' = TRUE
  /\ UNCHANGED <<runVars, stop, crossed>>

Next ==
  \/ \E a \in Request : Register(a) \/ Record(a) \/ Launch(a) \/ Clean(a)
  \/ \E r \in Run : Begin(r) \/ Finish(r)
  \/ \E s \in StopCall : Look(s) \/ Join(s) \/ Joined(s) \/ \E i \in Id : Stop(s, i)
  \/ Due \/ Shutdown

Spec == Init /\ [][Next]_vars

\* Threads run on, and discover() returns at some time.
Fairness ==
  /\ \A r \in Run : WF_vars(Begin(r)) /\ WF_vars(Finish(r))
  /\ \A a \in Request : WF_vars(Record(a)) /\ WF_vars(Launch(a)) /\ WF_vars(Clean(a))
  /\ \A s \in StopCall : WF_vars(Look(s) \/ Join(s) \/ Joined(s))

FairSpec == Spec /\ Fairness

-----------------------------------------------------------------------------
(* Properties. *)

Running(a) == run[a] \in {"begun", "finding"}

\* A discovery that a DELETE with its id cannot reach has been stopped already, or there was
\* another request with the same id: the map holds one event per id, and "no header" is an id.
UnstoppableForCause ==
  \A a \in Request :
    Running(a) /\ stopEvents[id[a]] # a
      => a \in signalled \/ \E b \in Request \ {a} : id[b] = id[a]

\* No stop event outlives its discovery, however ids were shared or thrown away.
EventsAreOfRuns ==
  \A i \in Id : stopEvents[i] # Nobody => run[stopEvents[i]] \in {"registered", "recorded", "begun", "finding", "ending"}

\* A DELETE finds the thread reference cleared only by a run that ended, or by another
\* DELETE; and it finds a thread that is not started only when a POST was handled beside
\* it.  With one request at a time it is answered.
FailedByAnother ==
  \A s \in StopCall :
    /\ stop[s] = "failed" =>
         \/ \E a \in Request : run[a] = "ended"
         \/ \E t \in StopCall \ {s} : stop[t] = "answered"
    /\ stop[s] = "early" => s \in crossed

\* Every discovery that was announced is also seen to end, if drivers return.
RunsEnd == \A r \in Run : progress[r] = 0 ~> progress[r] \in {100, -1}
=============================================================================
