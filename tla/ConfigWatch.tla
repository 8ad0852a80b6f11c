----------------------------- MODULE ConfigWatch -----------------------------
(***************************************************************************)
(* DeviceService.listen_for_custom_config_changes: a thread polls the      *)
(* modification time of a section's file, parses the file when the time    *)
(* has changed, and calls the application back.  Listening to the section  *)
(* again replaces the thread, which is given two seconds to end.           *)
(***************************************************************************)
EXTENDS Naturals

CONSTANTS
  Watch,        \* calls of listen for the section
  NoWatch,
  MaxWrites     \* bound: steps of whoever writes the file

VARIABLES
  content,      \* what the file holds
  mtime,        \* its modification time
  writes,       \* how many times it was written
  current,      \* _config_watch_threads[section]
  at,           \* where each thread, or the call that starts it, is
  last,         \* last_mtime of each
  read,         \* what it parsed
  stop,         \* its stop event is set
  heard,        \* what its callback was last called with
  late,         \* history: callbacks after its stop event was set
  coarse        \* history: the file was changed within a tick of its clock

watchVars == <<content, mtime, writes, current, at, last, read, stop, heard, late, coarse>>

\* A file opened for writing is empty at first, and an empty file parses.
Readable == {"empty", "v1", "v2"}
Content  == Readable \union {"bad", "missing"}

WatchTypeOK ==
  /\ content \in Content /\ mtime \in Nat /\ writes \in 0 .. MaxWrites
  /\ current \in Watch \union {NoWatch}
  /\ at \in [Watch -> {"none", "join", "look", "read", "call", "wait", "ended"}]
  /\ last \in [Watch -> Nat] /\ read \in [Watch -> Readable]
  /\ stop \in [Watch -> BOOLEAN] /\ heard \in [Watch -> Readable \union {"nothing"}]
  /\ late \in [Watch -> Nat] /\ coarse \in BOOLEAN

WatchInit ==
  /\ content = "v1" /\ mtime = 0 /\ writes = 0
  /\ current = NoWatch
  /\ at = [w \in Watch |-> "none"]
  /\ last = [w \in Watch |-> 0]
  /\ read = [w \in Watch |-> "empty"]
  /\ stop = [w \in Watch |-> FALSE]
  /\ heard = [w \in Watch |-> "nothing"]
  /\ late = [w \in Watch |-> 0]
  /\ coarse = FALSE

\* External: the file is truncated, written, removed or replaced.
Write(c) ==
  /\ writes < MaxWrites /\ c # content
  /\ content' = c
  /\ writes' = writes + 1
  /\ mtime' \in {mtime, mtime + 1}
  /\ coarse' = (coarse \/ mtime' = mtime)
  /\ UNCHANGED <<current, at, last, read, stop, heard, late>>

Goto(w, where) == at' = [at EXCEPT ![w] = where]

\* The thread before it is told to stop.
Listen(w) ==
  /\ at[w] = "none" /\ content # "missing"
  /\ \A v \in Watch : at[v] # "join"
  /\ Goto(w, "join")
  /\ stop' = [v \in Watch |-> stop[v] \/ v = current]
  /\ UNCHANGED <<content, mtime, writes, current, last, read, heard, late, coarse>>

\* It has ended, or the two seconds are over.  A file that has gone since is an OSError,
\* which leaves the thread that was stopped in its place.
Launch(w) ==
  /\ at[w] = "join"
  /\ IF content = "missing"
     THEN Goto(w, "ended") /\ UNCHANGED <<last, current>>
     ELSE /\ last' = [last EXCEPT ![w] = mtime]
          /\ current' = w
          /\ Goto(w, "look")
  /\ UNCHANGED <<content, mtime, writes, read, stop, heard, late, coarse>>

\* _shutdown
Shut ==
  /\ current # NoWatch /\ ~ stop[current]
  /\ \A v \in Watch : at[v] # "join"
  /\ stop' = [stop EXCEPT ![current] = TRUE]
  /\ UNCHANGED <<content, mtime, writes, current, at, last, read, heard, late, coarse>>

Look(w) ==
  /\ at[w] = "look"
  /\ IF content = "missing" \/ mtime = last[w]
     THEN Goto(w, "wait") /\ UNCHANGED last
     ELSE Goto(w, "read") /\ last' = [last EXCEPT ![w] = mtime]
  /\ UNCHANGED <<content, mtime, writes, current, read, stop, heard, late, coarse>>

\* A file that does not parse now is not tried again before it changes.
Read(w) ==
  /\ at[w] = "read"
  /\ IF content \in Readable
     THEN Goto(w, "call") /\ read' = [read EXCEPT ![w] = content]
     ELSE Goto(w, "wait") /\ UNCHANGED read
  /\ UNCHANGED <<content, mtime, writes, current, last, stop, heard, late, coarse>>

\* Mutant: the time is noted once the callback has returned, as it is by then.
CallThenNote(w) ==
  /\ at[w] = "call"
  /\ heard' = [heard EXCEPT ![w] = read[w]]
  /\ last' = [last EXCEPT ![w] = mtime]
  /\ late' = [late EXCEPT ![w] = IF stop[w] THEN @ + 1 ELSE @]
  /\ Goto(w, "wait")
  /\ UNCHANGED <<content, mtime, writes, current, read, stop, coarse>>

\* Mutant: the thread sleeps without looking at its event.
PollAlways(w) ==
  /\ at[w] = "wait"
  /\ Goto(w, IF stop[w] /\ w # current THEN "ended" ELSE "look")
  /\ UNCHANGED <<content, mtime, writes, current, last, read, stop, heard, late, coarse>>

\* Whatever the callback raises is caught.
Call(w) ==
  /\ at[w] = "call"
  /\ heard' = [heard EXCEPT ![w] = read[w]]
  /\ late' = [late EXCEPT ![w] = IF stop[w] THEN @ + 1 ELSE @]
  /\ Goto(w, "wait")
  /\ UNCHANGED <<content, mtime, writes, current, last, read, stop, coarse>>

Poll(w) ==
  /\ at[w] = "wait"
  /\ Goto(w, IF stop[w] THEN "ended" ELSE "look")
  /\ UNCHANGED <<content, mtime, writes, current, last, read, stop, heard, late, coarse>>

Thread(w) == Launch(w) \/ Look(w) \/ Read(w) \/ Call(w) \/ Poll(w)

WatchNext ==
  \/ \E c \in Content : Write(c)
  \/ \E w \in Watch : Listen(w) \/ Thread(w)
  \/ Shut

WatchFairness == \A w \in Watch : WF_watchVars(Thread(w))

-----------------------------------------------------------------------------
(* Properties. *)

\* A thread that was told to stop calls the application back at most once more, with what it
\* was about to read: the callbacks of a replaced thread and of its successor overlap once.
StoppedCallsOnce == \A w \in Watch : late[w] <= 1

\* A file that stays as it is has been heard by the thread in charge, if it can be parsed,
\* unless it was written before that thread looked first, or within one tick of its clock.
HeardAtLast ==
  []<>( \A w \in Watch : w = current =>
          \/ heard[w] = content \/ stop[w]
          \/ mtime = last[w] /\ heard[w] = "nothing"
          \/ content \notin Readable \/ coarse )
=============================================================================
