---------------------------- MODULE TokenRenewal ----------------------------
(***************************************************************************)
(* The token of OpenBaoSecretProvider (clients/secret.py): read from a     *)
(* file by the first request, by the requests that find it missing or      *)
(* expired, and by the renewal threads, which throw it away first once     *)
(* four fifths of its time have passed.  A request starts a renewal thread *)
(* when it sees none alive, without a lock; close() stops them with an     *)
(* event that the next thread to be started clears.                        *)
(***************************************************************************)
EXTENDS Naturals

CONSTANTS
  Request,      \* threads with requests to OpenBao
  Renewer,      \* renewal threads
  NoRenewer,
  Ttl           \* ticks of token_ttl; renewal is due one tick before it

VARIABLES
  token,        \* _token is set
  left,         \* ticks to _token_expiry
  file,         \* the token file holds a token
  asking,       \* where each request is
  renewing,     \* where each renewal thread is
  thread,       \* _renewal_thread
  halt,         \* _stop_renewal is set
  closed,      \* close() is waiting for a thread, or over
  empty         \* history: the file had none when the token was last looked for

tokenVars == <<token, left, file, asking, renewing, thread, halt, closed, empty>>

TokenTypeOK ==
  /\ {token, file, halt, empty} \subseteq BOOLEAN /\ left \in 0 .. Ttl
  /\ asking \in [Request -> {"none", "start", "clear", "send", "sent", "refused"}]
  /\ renewing \in [Renewer -> {"new", "check", "drop", "reread", "sleep", "ended"}]
  /\ thread \in Renewer \union {NoRenewer}
  /\ closed \in {"no", "join", "done"}

\* A token may be given to the provider, which has its time from there on.
TokenInit ==
  /\ token \in BOOLEAN
  /\ left = IF token THEN Ttl ELSE 0
  /\ file \in BOOLEAN
  /\ asking = [r \in Request |-> "none"]
  /\ renewing = [n \in Renewer |-> "new"]
  /\ thread = NoRenewer
  /\ halt = FALSE /\ closed = "no" /\ empty = ~ token

Alive == thread # NoRenewer /\ renewing[thread] # "ended"

\* External: time passes; the token file is removed or written.
Tick ==
  /\ left > 0 /\ left' = left - 1
  /\ UNCHANGED <<token, file, asking, renewing, thread, halt, closed, empty>>

Provide ==
  /\ file' = ~ file
  /\ UNCHANGED <<token, left, asking, renewing, thread, halt, closed, empty>>

-----------------------------------------------------------------------------
(* A request. *)

Ask(r, step) == asking' = [asking EXCEPT ![r] = step]

Begin(r) ==
  /\ asking[r] = "none"
  /\ Ask(r, IF Alive THEN "send" ELSE "start")
  /\ UNCHANGED <<token, left, file, renewing, thread, halt, closed, empty>>

\* _start_token_renewal looks again, but takes no lock.
Look(r) ==
  /\ asking[r] = "start"
  /\ Ask(r, IF Alive THEN "send" ELSE "clear")
  /\ UNCHANGED <<token, left, file, renewing, thread, halt, closed, empty>>

Launch(r, n) ==
  /\ asking[r] = "clear" /\ renewing[n] = "new"
  /\ Ask(r, "send")
  /\ halt' = FALSE
  /\ thread' = n
  /\ renewing' = [renewing EXCEPT ![n] = "check"]
  /\ UNCHANGED <<token, left, file, closed, empty>>

\* _get_token, with the lock held: a token that has time left is kept.  The file may be
\* absent, or there and empty.
GetToken ==
  IF token /\ left > 0
  THEN UNCHANGED <<token, left, empty>>
  ELSE /\ empty' = ~ file
       /\ IF file THEN token' = TRUE /\ left' = Ttl
                  ELSE token' \in {token, FALSE} /\ UNCHANGED left

Send(r) ==
  /\ asking[r] = "send"
  /\ GetToken
  /\ Ask(r, IF token' /\ left' > 0 THEN "sent" ELSE "refused")
  /\ UNCHANGED <<file, renewing, thread, halt, closed>>

Again(r) ==
  /\ asking[r] \in {"sent", "refused"}
  /\ Ask(r, "none")
  /\ UNCHANGED <<token, left, file, renewing, thread, halt, closed, empty>>

-----------------------------------------------------------------------------
(* A renewal thread. *)

Renew(n, from, to) ==
  /\ renewing[n] = from
  /\ renewing' = [renewing EXCEPT ![n] = to]

\* Mutant: the loop goes on to the next round when there is no token.
CheckToken(n) ==
  /\ Renew(n, "check", IF ~ token THEN "sleep"
                       ELSE IF halt THEN "ended" ELSE IF left <= 1 THEN "drop" ELSE "sleep")
  /\ UNCHANGED <<token, left, file, asking, thread, halt, closed, empty>>

\* The loop looks at the event, and at the token under the lock.
Check(n) ==
  /\ Renew(n, "check", IF halt THEN "ended" ELSE IF token /\ left <= 1 THEN "drop" ELSE "sleep")
  /\ UNCHANGED <<token, left, file, asking, thread, halt, closed, empty>>

\* The lock was let go in between: the token may be a new one by now.
Drop(n) ==
  /\ Renew(n, "drop", "reread")
  /\ token' = FALSE
  /\ UNCHANGED <<left, file, asking, thread, halt, closed, empty>>

Reread(n) ==
  /\ Renew(n, "reread", "sleep")
  /\ GetToken
  /\ UNCHANGED <<file, asking, thread, halt, closed>>

\* A tenth of the token's time, or until the event is set.
Sleep(n) ==
  /\ Renew(n, "sleep", "check")
  /\ UNCHANGED <<token, left, file, asking, thread, halt, closed, empty>>

Close ==
  /\ closed = "no" /\ closed' = "join"
  /\ halt' = TRUE
  /\ UNCHANGED <<token, left, file, asking, renewing, thread, empty>>

\* The thread it knows has ended, or five seconds are over.
Closed ==
  /\ closed = "join" /\ closed' = "done"
  /\ UNCHANGED <<token, left, file, asking, renewing, thread, halt, empty>>

Asks(r)   == Begin(r) \/ Look(r) \/ Send(r) \/ Again(r) \/ \E n \in Renewer : Launch(r, n)
Renews(n) == Check(n) \/ Drop(n) \/ Reread(n) \/ Sleep(n)

TokenNext ==
  \/ Tick \/ Provide \/ Close \/ Closed
  \/ \E r \in Request : Asks(r)
  \/ \E n \in Renewer : Renews(n)

TokenFairness == \A n \in Renewer : WF_tokenVars(Renews(n))

-----------------------------------------------------------------------------
(* Properties. *)

\* Between two renewals a provider is without a token only because the file had none when it
\* was looked for last: two threads that renew at once may each drop what the other has just
\* read, but the last of them reads again.
MissingForCause ==
  ~ token /\ (\A n \in Renewer : renewing[n] # "reread") => empty

\* When the provider was closed and no request has come since, every renewal thread ends,
\* those included that were started twice and that nobody has a reference to.
ClosedIsQuiet ==
  closed = "done" ~> \/ \A n \in Renewer : renewing[n] \in {"new", "ended"}
                     \/ \E r \in Request : asking[r] # "none"
                     \/ ~ halt
=============================================================================
