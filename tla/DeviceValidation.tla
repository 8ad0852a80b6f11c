--------------------------- MODULE DeviceValidation ---------------------------
(***************************************************************************)
(* Core Metadata asks the service over the message bus whether it accepts  *)
(* a Device (internal/controller/messaging/validation.py).  One thread,    *)
(* beside those of the commands and on the same client, takes each request *)
(* from a queue without bound, lets the driver look at the Device and      *)
(* publishes the verdict.  Nothing ever stops this thread.                 *)
(***************************************************************************)
EXTENDS MessageCommands

CONSTANTS
  Validation,       \* the Requests on ValidationTopic
  ValidationTopic,
  NoRequest

ASSUME ValidationAssumption ==
  /\ Validation \subseteq Request \ Command
  /\ ValidationTopic \in Topic \ {CommandTopic}
  /\ Room[ValidationTopic] = Unbounded
  /\ NoRequest \notin Request

VARIABLES
  named,      \* the requests with an id of their own to answer on
  inHand,     \* the request the thread is at
  listening,  \* has the thread subscribed
  verdict     \* what the driver has said of each request's Device

valVars == <<named, inHand, listening, verdict>>

Verdict == {"none", "accepted", "refused", "mute"}

ValidationTypeOK ==
  /\ TypeOK
  /\ named \in SUBSET Validation
  /\ inHand \in Validation \union {NoRequest}
  /\ listening \in BOOLEAN
  /\ verdict \in [Validation -> Verdict]

ValidationInit ==
  /\ Init
  /\ named \in SUBSET Validation
  /\ inHand = NoRequest
  /\ listening = FALSE
  /\ verdict = [v \in Validation |-> "none"]

Listen ==
  /\ ~ listening
  /\ listening' = TRUE
  /\ Subscribe(ValidationTopic)
  /\ UNCHANGED <<cmdVars, named, inHand, verdict>>

Ask(v) ==
  /\ \A t \in Topic : \A i \in DOMAIN queue[t] : queue[t][i] # v
  /\ verdict[v] = "none" /\ inHand # v
  /\ Heard(ValidationTopic)
  /\ Enqueue(ValidationTopic, v)
  /\ UNCHANGED <<cmdVars, valVars>>

NextAsked ==
  /\ inHand = NoRequest
  /\ queue[ValidationTopic] # <<>>
  /\ inHand' = Head(queue[ValidationTopic])
  /\ queue' = Dequeue(ValidationTopic)
  /\ UNCHANGED <<link, session, handlers, existing, answers, flaps>>
  /\ UNCHANGED <<cmdVars, named, listening, verdict>>

\* The driver accepts the Device or raises; a payload without a Device is refused
\* before it is asked.  The error answer is chosen by its text:
\* an exception without one is answered like a success.
Judge(v, o) ==
  /\ inHand = v
  /\ o \in Verdict \ {"none"}
  /\ verdict' = [verdict EXCEPT ![v] = o]
  /\ inHand' = NoRequest
  /\ IF v \in named
     THEN Publish(v, IF o = "refused" THEN "error" ELSE "ok")
     ELSE UNCHANGED answers
  /\ UNCHANGED <<link, session, handlers, existing, queue, flaps>>
  /\ UNCHANGED <<cmdVars, named, listening>>

Thread == Listen \/ NextAsked \/ \E v \in Validation : \E o \in Verdict : Judge(v, o)

ValidationNext ==
  \/ Next /\ UNCHANGED valVars
  \/ Thread
  \/ \E v \in Validation : Ask(v)

ValidationSpec == ValidationInit /\ [][ValidationNext]_<<vars, valVars>>

CommandFairness ==
  /\ WF_<<vars, valVars>>(Loop /\ UNCHANGED valVars)
  /\ \A r \in Command : WF_<<vars, valVars>>(Worker(r) /\ UNCHANGED valVars)

FairSpec == ValidationSpec /\ CommandFairness /\ WF_<<vars, valVars>>(Thread)

-----------------------------------------------------------------------------
\* Core Metadata is told of every verdict, once and at once; without an answer it
\* lets the user's request time out.  Only a request that cannot be answered, or a
\* link that was down, goes without.
VerdictsAreTold ==
  \A v \in Validation :
    verdict[v] # "none" /\ answers[v] = <<>> => v \notin named \/ ~ Held

\* Nothing is said before the driver has been asked, nor said twice.  "error" always
\* means that the driver has refused the Device.  "ok" means only that it has accepted
\* the Device or refused it with an exception without a text: Core Metadata cannot tell
\* which (_publish_response looks at the text alone).
VerdictsAreSaid ==
  \A v \in Validation :
    answers[v] \in {<<>>}
      \union {<<"error">> : o \in {verdict[v]} \intersect {"refused"}}
      \union {<<"ok">> : o \in {verdict[v]} \intersect {"accepted", "mute"}}

\* A Device that the driver refuses is not reported as accepted: false of a refusal
\* without a text, and checked by no run.
RefusedIsNotAccepted ==
  \A v \in Validation : verdict[v] \in {"refused", "mute"} => answers[v] # <<"ok">>

\* Every request that has been received gets its verdict, whatever the driver raises
\* for those before it and however busy the command workers are.
AskedAreJudged ==
  \A v \in Validation :
    (\E i \in DOMAIN queue[ValidationTopic] : queue[ValidationTopic][i] = v)
      ~> verdict[v] # "none"

\* Who sends a command is told how it ended, and before anyone sees the event; who asks
\* for a validation is told of a refusal that has a text, and told "ok" otherwise; nobody
\* is left without an answer for another reason than those named.
AnswersAreTrue ==
  /\ AnswersMatchOutcome /\ SilenceIsExplained /\ EventFollowsAnswer
  /\ VerdictsAreSaid /\ VerdictsAreTold

\* Commands that are queued and validations that are asked for are dealt with.
QueuesAreServed == QueuedAreServed /\ AskedAreJudged

\* After a reconnection the service hears what it heard before.
HeardAfterReconnect == Up /\ handlers # {} => existing \subseteq session
=============================================================================
