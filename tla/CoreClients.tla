----------------------------- MODULE CoreClients -----------------------------
(***************************************************************************)
(* The clients of Core Data and Core Command (internal/clients/data.py and *)
(* command.py): a circuit breaker that the threads share, and Core Data's  *)
(* queue of events, which a worker, a full queue and close() flush.        *)
(* The queue is read, cut and replaced without its lock; an exception of   *)
(* the token provider puts the batch back, every other failure loses it.   *)
(***************************************************************************)
EXTENDS Naturals, Sequences, SequencesExt

CONSTANTS
  Sender,       \* threads in send_event or send_command
  Accepted,     \* bound: events given to send_event_async, numbered in that order
  Encodable,    \* those that the session can encode; the SDK's own Event is none of them
  Threshold,    \* failures that open the breaker: 5
  MaxBatch      \* _max_batch_size: 50

ASSUME ClientAssumption ==
  /\ Accepted \in Nat
  /\ Encodable \subseteq 1 .. Accepted
  /\ Threshold \in Nat \ {0}
  /\ MaxBatch \in Nat \ {0}

\* The threads that may be inside _flush_queue.
Flusher == {"worker", "appender", "closer"}

VARIABLES
  failures,     \* _failure_count, up to the Threshold it is compared with
  open,         \* _circuit_open
  cooled,       \* 30 seconds have passed since _last_failure_time
  sender,       \* where each sender is
  queue,        \* _event_queue
  flush,        \* where each flusher is
  batch, rest,  \* its slices of the queue
  stop,         \* _stop_flush
  accepted,     \* history: how many events send_event_async was given
  gone,         \* history: events in batches that Core Data has, or that failed
  victims       \* history: events that two threads had hold of, or that crossed a cut

breakerVars == <<failures, open, cooled>>
flushVars == <<queue, flush, batch, rest, stop, accepted, gone, victims>>
vars == <<breakerVars, sender, flushVars>>

Elements(s) == {s[n] : n \in DOMAIN s}

ClientsTypeOK ==
  /\ failures \in Nat
  /\ open \in BOOLEAN /\ cooled \in BOOLEAN /\ stop \in BOOLEAN
  /\ sender \in [Sender -> {"idle", "post"}]
  /\ Elements(queue) \subseteq 1 .. accepted
  /\ flush \in [Flusher -> {"idle", "take", "cut", "keep", "send", "post", "back", "ended"}]
  /\ accepted \in 0 .. Accepted

Init ==
  /\ failures = 0 /\ open = FALSE /\ cooled = FALSE
  /\ sender = [s \in Sender |-> "idle"]
  /\ queue = <<>>
  /\ flush = [f \in Flusher |-> "idle"]
  /\ batch = [f \in Flusher |-> <<>>]
  /\ rest = [f \in Flusher |-> <<>>]
  /\ stop = FALSE
  /\ accepted = 0 /\ gone = {} /\ victims = {}

-----------------------------------------------------------------------------
(* The breaker: each of these holds its lock. *)

Cool == open /\ ~ cooled /\ cooled' = TRUE /\ UNCHANGED <<failures, open, sender, flushVars>>

\* Mutant: an open breaker is never tried again.
MayPassNever == ~ open

MayPass == ~ open \/ cooled

\* Half open is closed with a count of 0: every thread passes, not one.
Pass == open' = FALSE /\ failures' = (IF open THEN 0 ELSE failures) /\ UNCHANGED cooled

Failure ==
  /\ failures' = (IF failures < Threshold THEN failures + 1 ELSE failures)
  /\ cooled' = FALSE
  /\ open' = (open \/ failures + 1 >= Threshold)

Success == failures' = 0 /\ open' = FALSE /\ UNCHANGED cooled

-----------------------------------------------------------------------------
(* send_event and send_command. *)

Call(s) ==
  /\ sender[s] = "idle" /\ MayPass
  /\ Pass
  /\ sender' = [sender EXCEPT ![s] = "post"]
  /\ UNCHANGED flushVars

\* The answer, or anything that goes wrong on the way there.
Answer(s) ==
  /\ sender[s] = "post"
  /\ Success \/ Failure
  /\ sender' = [sender EXCEPT ![s] = "idle"]
  /\ UNCHANGED flushVars

-----------------------------------------------------------------------------
(* The queue of send_event_async and its flushes. *)

Step(f, step) == flush' = [flush EXCEPT ![f] = step]

Flushing == {f \in Flusher : flush[f] \notin {"idle", "take", "ended"}}

\* An append between another thread's slice and its replacement of the list is lost;
\* a full queue is flushed by the caller, who holds the lock the others do not take.
SendAsync ==
  /\ accepted < Accepted /\ flush["appender"] = "idle"
  /\ accepted' = accepted + 1
  /\ queue' = Append(queue, accepted + 1)
  /\ victims' = IF \E f \in Flusher : flush[f] \in {"cut", "keep"}
                THEN victims \union {accepted + 1} ELSE victims
  /\ IF Len(queue) + 1 >= MaxBatch THEN Step("appender", "take") ELSE UNCHANGED flush
  /\ UNCHANGED <<breakerVars, sender, batch, rest, stop, gone>>

\* Mutant: the worker flushes full batches only.
WakeWhenFull ==
  /\ flush["worker"] = "idle"
  /\ stop \/ Len(queue) >= MaxBatch
  /\ Step("worker", IF stop THEN "ended" ELSE "take")
  /\ UNCHANGED <<breakerVars, sender, queue, batch, rest, stop, accepted, gone, victims>>

\* The worker wakes every second; it looks at the stop event before it sleeps.
Wake ==
  /\ flush["worker"] = "idle"
  /\ Step("worker", IF stop THEN "ended" ELSE "take")
  /\ UNCHANGED <<breakerVars, sender, queue, batch, rest, stop, accepted, gone, victims>>

Done(f) == IF f = "closer" THEN "ended" ELSE "idle"

Finish(f) ==
  /\ Step(f, Done(f))
  /\ batch' = [batch EXCEPT ![f] = <<>>]
  /\ rest' = [rest EXCEPT ![f] = <<>>]

\* Another thread is between its slices of the list and its assignment.
Crossed(f) == \E g \in Flusher \ {f} : flush[g] \in {"cut", "keep"}

\* batch = queue[:50]
Take(f) ==
  /\ flush[f] = "take"
  /\ batch' = [batch EXCEPT ![f] = SubSeq(queue, 1, IF Len(queue) < MaxBatch THEN Len(queue)
                                                    ELSE MaxBatch)]
  /\ Step(f, IF queue = <<>> THEN Done(f) ELSE "cut")
  /\ victims' = IF Crossed(f) THEN victims \union Elements(queue) ELSE victims
  /\ UNCHANGED <<breakerVars, sender, queue, rest, stop, accepted, gone>>

\* queue[50:], before it is assigned
Cut(f) ==
  /\ flush[f] = "cut"
  /\ rest' = [rest EXCEPT ![f] = SubSeq(queue, MaxBatch + 1, Len(queue))]
  /\ Step(f, "keep")
  /\ victims' = IF Crossed(f) THEN victims \union Elements(queue) ELSE victims
  /\ UNCHANGED <<breakerVars, sender, queue, batch, stop, accepted, gone>>

Keep(f) ==
  /\ flush[f] = "keep"
  /\ queue' = rest[f]
  /\ Step(f, "send")
  /\ UNCHANGED <<breakerVars, sender, batch, rest, stop, accepted, gone, victims>>

\* An open breaker drops the batch, and _flush_queue takes the False for success.
Refuse(f) ==
  /\ flush[f] = "send" /\ ~ MayPass
  /\ gone' = gone \union Elements(batch[f])
  /\ Finish(f)
  /\ UNCHANGED <<breakerVars, sender, queue, stop, accepted, victims>>

Admit(f) ==
  /\ flush[f] = "send" /\ MayPass
  /\ Pass
  /\ Step(f, "post")
  /\ UNCHANGED <<sender, queue, batch, rest, stop, accepted, gone, victims>>

\* The events themselves are given to the session, which can encode few of them.
Post(f) ==
  /\ flush[f] = "post"
  /\ \/ Failure
     \/ Success /\ Elements(batch[f]) \subseteq Encodable
  /\ gone' = gone \union Elements(batch[f])
  /\ Finish(f)
  /\ UNCHANGED <<sender, queue, stop, accepted, victims>>

\* The token provider raises before the request: the one failure that is noticed.
TokenFails(f) ==
  /\ flush[f] = "send"
  /\ Step(f, "back")
  /\ UNCHANGED <<breakerVars, sender, queue, batch, rest, stop, accepted, gone, victims>>

\* Mutant: the batch is put back behind what came later, and over it.
PutBackOver(f) ==
  /\ flush[f] = "back"
  /\ queue' = batch[f]
  /\ Finish(f)
  /\ UNCHANGED <<breakerVars, sender, stop, accepted, gone, victims>>

\* This takes the lock, which a flusher that appended holds throughout.
PutBack(f) ==
  /\ flush[f] = "back"
  /\ f = "appender" \/ flush["appender"] = "idle"
  /\ queue' = batch[f] \o queue
  /\ Finish(f)
  /\ victims' = IF Crossed(f) THEN victims \union Elements(batch[f]) ELSE victims
  /\ UNCHANGED <<breakerVars, sender, stop, accepted, gone>>

Flush(f) ==
  \/ Take(f) \/ Cut(f) \/ Keep(f)
  \/ Refuse(f) \/ Admit(f) \/ Post(f)
  \/ TokenFails(f) \/ PutBack(f)

\* close: stop the worker, wait five seconds for it at most, and flush one last batch.
Close ==
  /\ ~ stop
  /\ stop' = TRUE
  /\ UNCHANGED <<breakerVars, sender, queue, flush, batch, rest, accepted, gone, victims>>

LastFlush ==
  /\ stop /\ flush["closer"] = "idle"
  /\ Step("closer", "take")
  /\ UNCHANGED <<breakerVars, sender, queue, batch, rest, stop, accepted, gone, victims>>

Next ==
  \/ Cool \/ Wake \/ Close \/ LastFlush \/ SendAsync
  \/ \E s \in Sender : Call(s) \/ Answer(s)
  \/ \E f \in Flusher : Flush(f)

Spec == Init /\ [][Next]_vars

\* Requests have a timeout, threads run on, and a service keeps sending.
FairSpec ==
  /\ Spec
  /\ WF_vars(Cool) /\ WF_vars(Wake)
  /\ \A s \in Sender : WF_vars(Call(s)) /\ WF_vars(Answer(s))
  /\ \A f \in Flusher : WF_vars(Flush(f))

-----------------------------------------------------------------------------
(* Properties. *)

\* An event given to send_event_async is waiting, in a batch, with Core Data or in a batch
\* that failed; one that is in none of them crossed another thread's cut of the queue.
EventsAreAccounted ==
  (1 .. accepted) \ victims \subseteq
    gone \union Elements(queue)
      \union UNION {Elements(batch[f]) : f \in Flushing}

\* An open breaker is tried again as long as somebody sends.
BreakerRecovers == open ~> ~ open

\* The worker gets round to every event, unless the token provider fails for ever.
QueueDrains == []<>(stop \/ queue = <<>> \/ \E f \in Flusher : flush[f] = "back")
=============================================================================
