----------------------- MODULE DeviceValidation_proofs -----------------------
(***************************************************************************)
(* What the service guarantees to those who send commands and validation   *)
(* requests over the message bus, for any requests, any number of permits  *)
(* and any number of broken links.                                         *)
(***************************************************************************)
EXTENDS DeviceValidation, FiniteSetTheorems, TLAPS

-----------------------------------------------------------------------------
(* The inductive invariant. *)

\* What ends an execution that is answered with success.
Success == Outcome \ {"none", "EdgexError", "exception"}

Typed ==
  /\ link \in {"up", "down", "closed"} /\ flaps \in Nat
  /\ queue \in [Topic -> Seq(Request)]
  /\ answers \in [Request -> Seq({"busy", "error", "ok"})]
  /\ phase \in [Command -> Phase]
  /\ outcome \in [Command -> Outcome]
  /\ pushed \subseteq Command
  /\ verdict \in [Validation -> Verdict]

\* A link that is down for the first time has been closed for good.
LinkInv == link = "down" => flaps > 0

\* The commands in the queue are those whose phase says so, each of them once.
QueueInv ==
  LET q == queue[CommandTopic] IN
  /\ \A i \in DOMAIN q : q[i] \in Command /\ phase[q[i]] = "queued"
  /\ \A i, j \in DOMAIN q : q[i] = q[j] => i = j

PermitInv ==
  /\ IsFiniteSet(Working)
  /\ free \in Nat
  /\ PermitsAreWorkers

\* What has been answered by the time a command is at each of its phases.
Fate(r) ==
  /\ phase[r] \in {"unsent", "missed", "queued", "held", "execute"} =>
       answers[r] = <<>> /\ outcome[r] = "none"
  /\ phase[r] = "answer" => answers[r] = <<>> /\ outcome[r] \in Success
  /\ phase[r] = "push" =>
       /\ outcome[r] \in Success
       /\ answers[r] = <<"ok">> \/ (answers[r] = <<>> /\ ~ Held)
  /\ phase[r] = "ended" =>
       \/ answers[r] = <<"busy">> /\ outcome[r] = "none"
       \/ answers[r] = <<"error">> /\ outcome[r] = "EdgexError"
       \/ answers[r] = <<"ok">> /\ outcome[r] \in Success
       \/ /\ answers[r] = <<>>
          /\ ~ WellFormed(r) \/ outcome[r] = "exception" \/ ~ Encodable(r) \/ ~ Held
  /\ r \in pushed => phase[r] = "ended" /\ (answers[r] = <<"ok">> \/ ~ Held)

BusInv ==
  /\ Typed /\ LinkInv /\ QueueInv /\ PermitInv
  /\ \A r \in Command : Fate(r)
  /\ VerdictsAreTold

LEMMA InitBus == ValidationInit => BusInv
<1>. SUFFICES ASSUME ValidationInit PROVE BusInv
  OBVIOUS
<1>. USE DEF ValidationInit, Init, BusInit
<1>1. Typed /\ LinkInv
  BY DEF Typed, LinkInv, Phase, Outcome, Verdict
<1>2. QueueInv
  BY CommandAssumption DEF QueueInv
<1>3. PermitInv
  <2>1. Working = {}
    BY DEF Working
  <2>. QED  BY <2>1, FS_EmptySet, CommandAssumption DEF PermitInv, PermitsAreWorkers
<1>4. ASSUME NEW r \in Command PROVE Fate(r)
  BY <1>4, CommandAssumption DEF Fate
<1>5. VerdictsAreTold
  BY DEF VerdictsAreTold
<1>. QED  BY <1>1, <1>2, <1>3, <1>4, <1>5 DEF BusInv

-----------------------------------------------------------------------------
(* What steps have in common. *)

\* Whatever a command relied on, a command at rest keeps: a link that once failed never
\* counts as held again.
LEMMA FateKept ==
  ASSUME NEW r \in Command, Fate(r), ~ Held => ~ Held',
         phase'[r] = phase[r], answers'[r] = answers[r], outcome'[r] = outcome[r],
         content' = content, r \in pushed' <=> r \in pushed
  PROVE  Fate(r)'
BY DEF Fate, Success, WellFormed, Encodable, ReturnsEvent, Reserved

\* A step that leaves the queue alone and touches no queued command.
LEMMA QueueKept ==
  ASSUME QueueInv, UNCHANGED queue,
         \A r \in Command : phase[r] = "queued" => phase'[r] = "queued"
  PROVE  QueueInv'
BY DEF QueueInv

LEMMA PermitsKept ==
  ASSUME PermitInv, UNCHANGED free, Working' = Working
  PROVE  PermitInv'
BY DEF PermitInv, PermitsAreWorkers

\* The semaphore lends a permit to the command that starts to work ...
LEMMA PermitTaken ==
  ASSUME PermitInv, NEW r \in Command, r \notin Working,
         free > 0, free' = free - 1, Working' = Working \union {r}
  PROVE  PermitInv'
<1>1. IsFiniteSet(Working')
      /\ Cardinality(Working') = Cardinality(Working) + 1
  BY FS_AddElement DEF PermitInv
<1>2. Cardinality(Working) \in Nat
  BY FS_CardinalityType DEF PermitInv
<1>. QED  BY <1>1, <1>2, CommandAssumption DEF PermitInv, PermitsAreWorkers

\* ... and has it back from the one that ends.
LEMMA PermitReturned ==
  ASSUME PermitInv, NEW r \in Command, r \in Working,
         free' = free + 1, Working' = Working \ {r}
  PROVE  PermitInv'
<1>1. IsFiniteSet(Working')
      /\ Cardinality(Working') = Cardinality(Working) - 1
  BY FS_RemoveElement DEF PermitInv
<1>2. Cardinality(Working) \in Nat
  BY FS_CardinalityType DEF PermitInv
<1>. QED  BY <1>1, <1>2, CommandAssumption DEF PermitInv, PermitsAreWorkers

\* A requester is told something, or the link is down.
LEMMA Published ==
  ASSUME Typed, NEW r \in Request, NEW answer \in {"busy", "error", "ok"},
         Publish(r, answer)
  PROVE  /\ answers' \in [Request -> Seq({"busy", "error", "ok"})]
         /\ \A x \in Request \ {r} : answers'[x] = answers[x]
         /\ answers[r] = <<>> =>
              answers'[r] = <<answer>> \/ (answers'[r] = <<>> /\ ~ Held)
         /\ answers'[r] # <<>> \/ ~ Held
<1>1. CASE Up
  <2>1. answers' = [answers EXCEPT ![r] = Append(answers[r], answer)]
    BY <1>1 DEF Publish
  <2>2. answers[r] \in Seq({"busy", "error", "ok"})
    BY DEF Typed
  <2>3. /\ Append(answers[r], answer) \in Seq({"busy", "error", "ok"})
        /\ Append(answers[r], answer) # <<>>
    BY <2>2
  <2>4. Append(<<>>, answer) = <<answer>>
    OBVIOUS
  <2>5. answers'[r] = Append(answers[r], answer)
        /\ \A x \in Request \ {r} : answers'[x] = answers[x]
    BY <2>1 DEF Typed
  <2>6. answers' \in [Request -> Seq({"busy", "error", "ok"})]
    BY <2>1, <2>3 DEF Typed
  <2>. QED  BY <2>3, <2>4, <2>5, <2>6
<1>2. CASE ~ Up
  BY <1>2 DEF Typed, Publish, Held
<1>. QED  BY <1>1, <1>2

-----------------------------------------------------------------------------
(* The link, and what others do. *)

Unworked ==
  UNCHANGED <<content, phase, outcome, pushed, free, queue, answers, verdict, named>>

LEMMA LinkStep ==
  ASSUME BusInv, Unworked, Typed', LinkInv', ~ Held => ~ Held'
  PROVE  BusInv'
<1>1. UNCHANGED <<content, phase, outcome, pushed, free, answers, queue>>
  BY DEF Unworked
<1>2. QueueInv'
  BY <1>1, QueueKept DEF BusInv
<1>3. PermitInv'
  BY <1>1, PermitsKept DEF BusInv, Working
<1>4. \A r \in Command : Fate(r)'
  BY <1>1, FateKept DEF BusInv
<1>5. VerdictsAreTold'
  BY DEF Unworked, BusInv, VerdictsAreTold
<1>. QED  BY <1>2, <1>3, <1>4, <1>5 DEF BusInv

LEMMA LinkKeeps ==
  ASSUME BusInv, UNCHANGED valVars,
         Start \/ Stop \/ Cancel \/ Link \/ UNCHANGED vars
  PROVE  BusInv'
<1>1. Unworked /\ Typed' /\ LinkInv' /\ (~ Held => ~ Held')
  <2>. USE DEF Unworked, valVars, BusInv, Typed, LinkInv, Held, Up, cmdVars
  <2>1. CASE Start    BY <2>1 DEF Start, Subscribe
  <2>2. CASE Stop     BY <2>2 DEF Stop, busVars
  <2>3. CASE Cancel   BY <2>3 DEF Cancel, busVars
  <2>4. CASE Link     BY <2>4 DEF Link, LinkDown, Reconnect, Disconnect
  <2>5. CASE UNCHANGED vars  BY <2>5 DEF vars, busVars
  <2>. QED  BY <2>1, <2>2, <2>3, <2>4, <2>5
<1>. QED  BY <1>1, LinkStep

LEMMA ListenKeeps ==
  ASSUME BusInv, Listen
  PROVE  BusInv'
<1>1. Unworked /\ Typed' /\ LinkInv' /\ (~ Held => ~ Held')
  BY DEF Listen, Subscribe, Unworked, valVars, BusInv, Typed, LinkInv, Held, Up, cmdVars
<1>. QED  BY <1>1, LinkStep

-----------------------------------------------------------------------------
(* The validation thread: its queue, and its answers, are its own. *)

LEMMA QueueApart ==
  ASSUME BusInv, UNCHANGED <<cmdVars, link, flaps, verdict, named, answers>>,
         NEW q \in Seq(Request), queue' = [queue EXCEPT ![ValidationTopic] = q]
  PROVE  BusInv'
<1>. USE CommandAssumption, ValidationAssumption
<1>1. UNCHANGED <<content, phase, outcome, pushed, free, Held>>
  BY DEF cmdVars, Held, Up
<1>2. Typed' /\ LinkInv'
  BY <1>1 DEF BusInv, Typed, LinkInv
<1>3. queue'[CommandTopic] = queue[CommandTopic]
  BY DEF BusInv, Typed
<1>4. QueueInv'
  BY <1>1, <1>3 DEF BusInv, QueueInv
<1>5. PermitInv'
  BY <1>1, PermitsKept DEF BusInv, Working
<1>6. \A r \in Command : Fate(r)'
  BY <1>1, FateKept DEF BusInv
<1>7. VerdictsAreTold'
  BY <1>1 DEF BusInv, VerdictsAreTold
<1>. QED  BY <1>2, <1>4, <1>5, <1>6, <1>7 DEF BusInv

LEMMA AskKeeps ==
  ASSUME BusInv, NEW v \in Validation, Ask(v)
  PROVE  BusInv'
<1>. USE ValidationAssumption
<1> DEFINE q == queue[ValidationTopic]
<1>1. q \in Seq(Request) /\ Append(q, v) \in Seq(Request)
  BY DEF BusInv, Typed
<1>2. queue' = [queue EXCEPT ![ValidationTopic] = Append(q, v)]
      \/ queue' = [queue EXCEPT ![ValidationTopic] = q]
  BY DEF BusInv, Typed, Ask, Enqueue
<1>3. UNCHANGED <<cmdVars, link, flaps, verdict, named, answers>>
  BY DEF Ask, Enqueue, valVars
<1>. QED  BY <1>1, <1>2, <1>3, QueueApart

LEMMA NextAskedKeeps ==
  ASSUME BusInv, NextAsked
  PROVE  BusInv'
<1>. USE ValidationAssumption
<1>1. Tail(queue[ValidationTopic]) \in Seq(Request)
  BY DEF BusInv, Typed, NextAsked
<1>2. queue' = [queue EXCEPT ![ValidationTopic] = Tail(queue[ValidationTopic])]
  BY DEF NextAsked, Dequeue, BusInv, Typed
<1>. QED  BY <1>1, <1>2, QueueApart DEF NextAsked

LEMMA JudgeKeeps ==
  ASSUME BusInv, NEW v \in Validation, NEW o \in Verdict, Judge(v, o)
  PROVE  BusInv'
<1>. USE CommandAssumption, ValidationAssumption
<1>1. UNCHANGED <<content, phase, outcome, pushed, free, queue, link, flaps, named, Held>>
  BY DEF Judge, cmdVars, Held, Up
<1>2. /\ answers' \in [Request -> Seq({"busy", "error", "ok"})]
      /\ \A x \in Request \ {v} : answers'[x] = answers[x]
      /\ v \in named => answers'[v] # <<>> \/ ~ Held
  BY Published DEF Judge, BusInv, Typed
<1>3. Typed' /\ LinkInv'
  BY <1>1, <1>2 DEF BusInv, Typed, LinkInv, Judge
<1>4. QueueInv'
  BY <1>1, QueueKept DEF BusInv
<1>5. PermitInv'
  BY <1>1, PermitsKept DEF BusInv, Working
<1>6. \A r \in Command : Fate(r)'
  BY <1>1, <1>2, FateKept DEF BusInv
<1>7. VerdictsAreTold'
  BY <1>1, <1>2 DEF BusInv, VerdictsAreTold, Judge, Typed
<1>. QED  BY <1>3, <1>4, <1>5, <1>6, <1>7 DEF BusInv

-----------------------------------------------------------------------------
(* The subscription thread of the commands. *)

\* A step that concerns one command, and not the link.
Only(r) ==
  /\ UNCHANGED <<valVars, content, link, flaps>>
  /\ \A x \in Command \ {r} :
       /\ phase'[x] = phase[x] /\ answers'[x] = answers[x] /\ outcome'[x] = outcome[x]
       /\ x \in pushed' <=> x \in pushed

LEMMA OneCommand ==
  ASSUME BusInv, NEW r \in Command, Only(r),
         Typed', QueueInv', PermitInv', Fate(r)',
         \A v \in Validation : answers'[v] = answers[v]
  PROVE  BusInv'
<1>1. UNCHANGED <<Held, verdict, named>>
  BY DEF Only, Held, Up, valVars
<1>2. LinkInv'
  BY DEF BusInv, LinkInv, Only
<1>3. ASSUME NEW x \in Command \ {r} PROVE Fate(x)'
  BY <1>1, <1>3, FateKept DEF BusInv, Only
<1>4. VerdictsAreTold'
  BY <1>1 DEF BusInv, VerdictsAreTold
<1>. QED  BY <1>2, <1>3, <1>4 DEF BusInv

LEMMA SendKeeps ==
  ASSUME BusInv, UNCHANGED valVars, NEW r \in Command, Send(r)
  PROVE  BusInv'
<1>. USE CommandAssumption, ValidationAssumption
<1>1. /\ Only(r) /\ \A v \in Validation : answers'[v] = answers[v]
      /\ UNCHANGED <<answers, outcome, pushed, free, Held, content>>
      /\ phase[r] = "unsent" /\ phase' = [phase EXCEPT ![r] = phase'[r]]
      /\ phase'[r] \in {"missed", "queued"}
  BY DEF Send, Only, Enqueue, Become, BusInv, Typed, Held, Up, busVars
<1>2. Typed'
  <2>1. queue' \in [Topic -> Seq(Request)]
    <3>1. Append(queue[CommandTopic], r) \in Seq(Request)
      BY DEF BusInv, Typed
    <3>. QED  BY <3>1 DEF Send, Enqueue, busVars, BusInv, Typed
  <2>2. phase' \in [Command -> Phase]
    BY <1>1 DEF BusInv, Typed, Phase
  <2>. QED  BY <1>1, <2>1, <2>2 DEF Only, BusInv, Typed, valVars
<1>3. QueueInv'
  <2>1. CASE UNCHANGED queue
    BY <1>1, <2>1, QueueKept DEF BusInv, Typed
  <2>2. CASE ~ UNCHANGED queue
    <3> DEFINE q == queue[CommandTopic]
    <3>1. phase'[r] = "queued" /\ queue'[CommandTopic] = Append(q, r)
      BY <2>2 DEF Send, Enqueue, busVars, Become, BusInv, Typed
    <3>2. q \in Seq(Request)
      BY DEF BusInv, Typed
    <3>3. \A i \in DOMAIN q : q[i] \in Command /\ phase[q[i]] = "queued" /\ q[i] # r
      BY <1>1 DEF BusInv, QueueInv
    <3>4. \A i, j \in DOMAIN q : q[i] = q[j] => i = j
      BY DEF BusInv, QueueInv
    <3>5. \A x \in Command \ {r} : phase'[x] = phase[x]
      BY <1>1 DEF Only
    <3> DEFINE s == queue'[CommandTopic]
    <3> HIDE DEF q
    <3>6. \A i \in DOMAIN s :
          (i = Len(q) + 1 /\ s[i] = r) \/ (i \in DOMAIN q /\ s[i] = q[i])
      BY <3>1, <3>2
    <3> HIDE DEF s
    <3>7. \A i \in DOMAIN s : s[i] \in Command /\ phase'[s[i]] = "queued"
      BY <3>1, <3>3, <3>5, <3>6
    <3>8. \A i, j \in DOMAIN s : s[i] = s[j] => i = j
      BY <3>3, <3>4, <3>6
    <3>. QED  BY <3>7, <3>8 DEF QueueInv, s
  <2>. QED  BY <2>1, <2>2
<1>4. PermitInv'
  <2>1. Working' = Working
    BY <1>1 DEF Working, BusInv, Typed
  <2>. QED  BY <1>1, <2>1, PermitsKept DEF BusInv
<1>5. Fate(r)'
  BY <1>1 DEF BusInv, Fate
<1>. QED  BY <1>1, <1>2, <1>3, <1>4, <1>5, OneCommand

LEMMA TakeKeeps ==
  ASSUME BusInv, UNCHANGED valVars, Take
  PROVE  BusInv'
<1>. USE CommandAssumption, ValidationAssumption
<1> DEFINE q == queue[CommandTopic]
<1>1. q \in Seq(Request) /\ q # <<>>
  BY DEF BusInv, Typed, Take
<1>2. PICK r \in Command : r = Head(q) /\ phase[r] = "queued"
  BY <1>1 DEF BusInv, QueueInv
<1>3. /\ Only(r) /\ \A v \in Validation : answers'[v] = answers[v]
      /\ UNCHANGED <<answers, outcome, pushed, free, Held, content>>
      /\ phase' = [phase EXCEPT ![r] = IF WellFormed(r) THEN "held" ELSE "ended"]
      /\ queue' = [queue EXCEPT ![CommandTopic] = Tail(q)]
  BY <1>2 DEF Take, Only, Dequeue, Become, BusInv, Typed, Held, Up
<1>4. Typed'
  BY <1>1, <1>2, <1>3 DEF Take, BusInv, Typed, Phase, valVars
<1>5. QueueInv'
  <2>1. /\ Tail(q) \in Seq(Request)
        /\ DOMAIN Tail(q) = 1 .. Len(q) - 1
        /\ \A i \in DOMAIN Tail(q) : Tail(q)[i] = q[i + 1] /\ i + 1 \in DOMAIN q
        /\ r = q[1] /\ 1 \in DOMAIN q
    <3>1. Len(q) \in Nat \ {0} /\ DOMAIN q = 1 .. Len(q) /\ Head(q) = q[1]
      BY <1>1
    <3>2. Tail(q) \in Seq(Request) /\ Len(Tail(q)) = Len(q) - 1
      BY <1>1
    <3>3. \A i \in 1 .. Len(q) - 1 : Tail(q)[i] = q[i + 1]
      BY <1>1
    <3>4. DOMAIN Tail(q) = 1 .. Len(q) - 1
      BY <3>2
    <3>. QED  BY <1>2, <3>1, <3>2, <3>3, <3>4
  <2>2. \A i \in DOMAIN Tail(q) : Tail(q)[i] # r
    BY <2>1 DEF BusInv, QueueInv
  <2>3. queue'[CommandTopic] = Tail(q)
    BY <1>3 DEF BusInv, Typed
  <2>4. ASSUME NEW i \in DOMAIN Tail(q)
        PROVE  Tail(q)[i] \in Command /\ phase'[Tail(q)[i]] = "queued"
    BY <1>3, <2>1, <2>2 DEF BusInv, QueueInv, Typed
  <2>5. ASSUME NEW i \in DOMAIN Tail(q), NEW j \in DOMAIN Tail(q), Tail(q)[i] = Tail(q)[j]
        PROVE  i = j
    <3>1. i + 1 = j + 1
      BY <2>1, <2>5 DEF BusInv, QueueInv
    <3>. QED  BY <2>1, <3>1
  <2>. QED  BY <2>3, <2>4, <2>5 DEF QueueInv
<1>6. PermitInv'
  <2>1. Working' = Working
    BY <1>2, <1>3 DEF Working, BusInv, Typed
  <2>. QED  BY <1>3, <2>1, PermitsKept DEF BusInv
<1>7. Fate(r)'
  BY <1>2, <1>3 DEF BusInv, Fate, Typed, WellFormed
<1>. QED  BY <1>2, <1>3, <1>4, <1>5, <1>6, <1>7, OneCommand

LEMMA AdmitKeeps ==
  ASSUME BusInv, UNCHANGED valVars, NEW r \in Command, Admit(r)
  PROVE  BusInv'
<1>. USE CommandAssumption, ValidationAssumption
<1>1. /\ UNCHANGED <<outcome, pushed, Held, content, queue, link, flaps>>
      /\ phase[r] = "held" /\ answers[r] = <<>> /\ outcome[r] = "none" /\ r \notin pushed
  BY DEF Admit, Held, Up, BusInv, Fate
<1>2. CASE free > 0
  <2>1. phase' = [phase EXCEPT ![r] = "execute"] /\ free' = free - 1 /\ answers' = answers
    BY <1>2 DEF Admit, Become
  <2>2. Only(r) /\ Typed'
    BY <1>1, <2>1 DEF Only, BusInv, Typed, Phase, valVars
  <2>3. QueueInv'
    BY <1>1, <2>1, QueueKept DEF BusInv, Typed
  <2>4. r \notin Working /\ Working' = Working \union {r}
    BY <1>1, <2>1 DEF Working, BusInv, Typed
  <2>5. PermitInv'
    BY <1>2, <2>1, <2>4, PermitTaken DEF BusInv
  <2>6. Fate(r)'
    BY <1>1, <2>1 DEF Fate, BusInv, Typed
  <2>. QED  BY <2>1, <2>2, <2>3, <2>5, <2>6, OneCommand
<1>3. CASE ~ (free > 0)
  <2>1. phase' = [phase EXCEPT ![r] = "ended"] /\ free' = free /\ Publish(r, "busy")
    BY <1>3 DEF Admit, Become
  <2>2. /\ answers' \in [Request -> Seq({"busy", "error", "ok"})]
        /\ \A x \in Request \ {r} : answers'[x] = answers[x]
        /\ answers'[r] = <<"busy">> \/ (answers'[r] = <<>> /\ ~ Held)
    BY <1>1, <2>1, Published DEF BusInv
  <2>3. Only(r) /\ Typed'
    BY <1>1, <2>1, <2>2 DEF Only, BusInv, Typed, Phase, valVars
  <2>4. QueueInv'
    BY <1>1, <2>1, QueueKept DEF BusInv, Typed
  <2>5. Working' = Working
    BY <1>1, <2>1 DEF Working, BusInv, Typed
  <2>6. PermitInv'
    BY <2>1, <2>5, PermitsKept DEF BusInv
  <2>7. Fate(r)'
    BY <1>1, <2>1, <2>2 DEF Fate, BusInv, Typed
  <2>. QED  BY <2>2, <2>3, <2>4, <2>6, <2>7, OneCommand
<1>. QED  BY <1>2, <1>3

-----------------------------------------------------------------------------
(* The workers. *)

\* What every step of a worker shares, whether or not it is its last.
LEMMA WorkerStep ==
  ASSUME BusInv, UNCHANGED <<valVars, content, link, flaps, queue>>,
         NEW r \in Command, r \in Working,
         \/ free' = free + 1 /\ phase' = [phase EXCEPT ![r] = "ended"]
         \/ /\ free' = free
            /\ \E p \in {"answer", "push"} : phase' = [phase EXCEPT ![r] = p],
         outcome' \in [Command -> Outcome],
         \A x \in Command \ {r} : outcome'[x] = outcome[x],
         answers' \in [Request -> Seq({"busy", "error", "ok"})],
         \A x \in Request \ {r} : answers'[x] = answers[x],
         pushed' \in {pushed, pushed \union {r}},
         Fate(r)'
  PROVE  BusInv'
<1>. USE CommandAssumption, ValidationAssumption
<1>1. Only(r) /\ Typed' /\ \A v \in Validation : answers'[v] = answers[v]
  <2>1. Only(r) /\ \A v \in Validation : answers'[v] = answers[v]
    BY DEF Only, BusInv, Typed
  <2>2. phase' \in [Command -> Phase] /\ pushed' \subseteq Command
    BY DEF BusInv, Typed, Phase
  <2>. QED  BY <2>1, <2>2 DEF BusInv, Typed, valVars
<1>2. QueueInv'
  BY QueueKept DEF BusInv, Typed, Working
<1>3. PermitInv'
  <2>1. CASE free' = free + 1 /\ phase' = [phase EXCEPT ![r] = "ended"]
    <3>1. Working' = Working \ {r}
      BY <2>1 DEF Working, BusInv, Typed
    <3>. QED  BY <2>1, <3>1, PermitReturned DEF BusInv
  <2>2. CASE free' = free /\ \E p \in {"answer", "push"} : phase' = [phase EXCEPT ![r] = p]
    <3>1. Working' = Working
      BY <2>2 DEF Working, BusInv, Typed
    <3>. QED  BY <2>2, <3>1, PermitsKept DEF BusInv
  <2>. QED  BY <2>1, <2>2
<1>. QED  BY <1>1, <1>2, <1>3, OneCommand

LEMMA ExecuteKeeps ==
  ASSUME BusInv, UNCHANGED valVars, NEW r \in Command, NEW o \in Outcome, Execute(r, o)
  PROVE  BusInv'
<1>. USE CommandAssumption
<1>1. /\ UNCHANGED <<valVars, content, link, flaps, queue, pushed, Held>>
      /\ r \in Working /\ phase[r] = "execute"
      /\ answers[r] = <<>> /\ r \notin pushed
      /\ o # "none" /\ outcome' = [outcome EXCEPT ![r] = o]
  BY DEF Execute, Working, BusInv, Fate, Held, Up
<1>2. /\ outcome' \in [Command -> Outcome] /\ outcome'[r] = o
      /\ \A x \in Command \ {r} : outcome'[x] = outcome[x]
  BY <1>1 DEF BusInv, Typed
<1>3. CASE o = "EdgexError"
  <2>1. Publish(r, "error") /\ free' = free + 1 /\ phase' = [phase EXCEPT ![r] = "ended"]
    BY <1>3 DEF Execute, Finish, Become
  <2>2. /\ answers' \in [Request -> Seq({"busy", "error", "ok"})]
        /\ \A x \in Request \ {r} : answers'[x] = answers[x]
        /\ answers'[r] = <<"error">> \/ (answers'[r] = <<>> /\ ~ Held)
    BY <1>1, <2>1, Published DEF BusInv
  <2>3. Fate(r)'
    BY <1>1, <1>2, <1>3, <2>1, <2>2 DEF Fate, BusInv, Typed
  <2>. QED  BY <1>1, <1>2, <2>1, <2>2, <2>3, WorkerStep
<1>4. CASE o = "exception"
  <2>1. answers' = answers /\ free' = free + 1 /\ phase' = [phase EXCEPT ![r] = "ended"]
    BY <1>4 DEF Execute, Finish, Become
  <2>2. Fate(r)'
    BY <1>1, <1>2, <1>4, <2>1 DEF Fate, BusInv, Typed
  <2>. QED  BY <1>1, <1>2, <2>1, <2>2, WorkerStep DEF BusInv, Typed
<1>5. CASE o \notin {"EdgexError", "exception"}
  <2>1. answers' = answers /\ free' = free /\ phase' = [phase EXCEPT ![r] = "answer"]
    BY <1>5 DEF Execute, Become
  <2>2. Fate(r)'
    BY <1>1, <1>2, <1>5, <2>1 DEF Fate, BusInv, Typed, Success
  <2>. QED  BY <1>1, <1>2, <2>1, <2>2, WorkerStep DEF BusInv, Typed
<1>. QED  BY <1>3, <1>4, <1>5

LEMMA AnswerKeeps ==
  ASSUME BusInv, UNCHANGED valVars, NEW r \in Command, Answer(r)
  PROVE  BusInv'
<1>. USE CommandAssumption
<1>1. /\ UNCHANGED <<valVars, content, link, flaps, queue, pushed, outcome, Held>>
      /\ r \in Working /\ phase[r] = "answer"
      /\ answers[r] = <<>> /\ r \notin pushed /\ outcome[r] \in Success
  BY DEF Answer, Working, BusInv, Fate, Held, Up
<1>2. outcome' \in [Command -> Outcome] /\ UNCHANGED Encodable(r)
  BY <1>1 DEF BusInv, Typed, Encodable, ReturnsEvent, Reserved
<1>3. CASE Encodable(r)
  <2>1. /\ answers' \in [Request -> Seq({"busy", "error", "ok"})]
        /\ \A x \in Request \ {r} : answers'[x] = answers[x]
        /\ answers'[r] = <<"ok">> \/ (answers'[r] = <<>> /\ ~ Held)
    BY <1>1, <1>3, Published DEF Answer, BusInv
  <2>2. CASE HasEvent(r) /\ PushesEvent(r)
    <3>1. free' = free /\ phase' = [phase EXCEPT ![r] = "push"]
      BY <1>3, <2>2 DEF Answer, Become
    <3>2. Fate(r)'
      BY <1>1, <2>1, <3>1 DEF Fate, BusInv, Typed, Success
    <3>. QED  BY <1>1, <1>2, <2>1, <3>1, <3>2, WorkerStep
  <2>3. CASE ~ (HasEvent(r) /\ PushesEvent(r))
    <3>1. free' = free + 1 /\ phase' = [phase EXCEPT ![r] = "ended"]
      BY <1>3, <2>3 DEF Answer, Finish, Become
    <3>2. Fate(r)'
      BY <1>1, <2>1, <3>1 DEF Fate, BusInv, Typed, Success
    <3>. QED  BY <1>1, <1>2, <2>1, <3>1, <3>2, WorkerStep
  <2>. QED  BY <2>2, <2>3
<1>4. CASE ~ Encodable(r)
  <2>1. answers' = answers /\ free' = free + 1 /\ phase' = [phase EXCEPT ![r] = "ended"]
    BY <1>4 DEF Answer, Finish, Become
  <2>2. Fate(r)'
    BY <1>1, <1>2, <1>4, <2>1 DEF Fate, BusInv, Typed
  <2>. QED  BY <1>1, <1>2, <2>1, <2>2, WorkerStep DEF BusInv, Typed
<1>. QED  BY <1>3, <1>4

LEMMA PushKeeps ==
  ASSUME BusInv, UNCHANGED valVars, NEW r \in Command, Push(r)
  PROVE  BusInv'
<1>. USE CommandAssumption
<1>1. /\ UNCHANGED <<valVars, content, link, flaps, queue, outcome, answers, Held>>
      /\ r \in Working /\ phase[r] = "push"
      /\ outcome[r] \in Success
      /\ answers[r] = <<"ok">> \/ (answers[r] = <<>> /\ ~ Held)
      /\ free' = free + 1 /\ phase' = [phase EXCEPT ![r] = "ended"]
      /\ pushed' \in {pushed, pushed \union {r}}
  BY DEF Push, Working, BusInv, Fate, Held, Up, Finish, Become, busVars
<1>2. Fate(r)'
  BY <1>1 DEF Fate, BusInv, Typed, Success
<1>. QED  BY <1>1, <1>2, WorkerStep DEF BusInv, Typed

-----------------------------------------------------------------------------
LEMMA BusInvariant == ValidationSpec => []BusInv
<1>1. BusInv /\ [ValidationNext]_<<vars, valVars>> => BusInv'
  <2>. SUFFICES ASSUME BusInv, [ValidationNext]_<<vars, valVars>> PROVE BusInv'
    OBVIOUS
  <2>1. CASE UNCHANGED <<vars, valVars>>
    BY <2>1, LinkKeeps
  <2>2. CASE Next /\ UNCHANGED valVars
    BY <2>2, LinkKeeps, SendKeeps, TakeKeeps, AdmitKeeps, ExecuteKeeps, AnswerKeeps,
       PushKeeps DEF Next, Loop, Worker
  <2>3. CASE Thread
    BY <2>3, ListenKeeps, NextAskedKeeps, JudgeKeeps DEF Thread
  <2>. QED  BY <2>1, <2>2, <2>3, AskKeeps DEF ValidationNext
<1>. QED  BY InitBus, <1>1, PTL DEF ValidationSpec

\* Whatever ends a command - a busy answer, an error, an exception, a reading that cannot
\* be encoded, a link that is down - its permit comes back, once.
THEOREM PermitsComeBack == ValidationSpec => []PermitsAreWorkers
<1>1. BusInv => PermitsAreWorkers
  BY DEF BusInv, PermitInv
<1>. QED  BY <1>1, BusInvariant, PTL

-----------------------------------------------------------------------------
\* The rest of the types: no queue holds more than it has room for, the broker is asked for
\* what has a callback, and the validation thread gets nothing but validations.
BoundsInv ==
  /\ session \subseteq Topic /\ handlers \subseteq Topic /\ existing \subseteq handlers
  /\ \A t \in Topic : Room[t] # Unbounded => Len(queue[t]) <= Room[t]
  /\ flaps <= Flaps
  /\ content \in [Command -> Content]
  /\ loop \in {"start", "wait", "hand", "stopped"} /\ cancelled \in BOOLEAN
  /\ named \subseteq Validation /\ listening \in BOOLEAN
  /\ inHand \in Validation \union {NoRequest}
  /\ \A i \in DOMAIN queue[ValidationTopic] : queue[ValidationTopic][i] \in Validation

LEMMA InitBounds == ValidationInit => BoundsInv
<1>. SUFFICES ASSUME ValidationInit PROVE BoundsInv
  OBVIOUS
<1>. USE CommandAssumption, ValidationAssumption, BusAssumption
     DEF ValidationInit, Init, BusInit
<1>1. \A t \in Topic : queue[t] = <<>>
  OBVIOUS
<1>2. \A t \in Topic : Room[t] # Unbounded => Len(queue[t]) <= Room[t]
  BY <1>1
<1>3. content \in [Command -> Content] /\ flaps <= Flaps
  OBVIOUS
<1>4. \A i \in DOMAIN queue[ValidationTopic] : queue[ValidationTopic][i] \in Validation
  BY <1>1
<1>. QED  BY <1>2, <1>3, <1>4 DEF BoundsInv

\* What was appended or taken leaves a queue within its room.
LEMMA EnqueueBounds ==
  ASSUME BusInv, BoundsInv, NEW t \in Topic, NEW r \in Request, Enqueue(t, r),
         t = ValidationTopic => r \in Validation
  PROVE  /\ \A u \in Topic : Room[u] # Unbounded => Len(queue'[u]) <= Room[u]
         /\ \A i \in DOMAIN queue'[ValidationTopic] : queue'[ValidationTopic][i] \in Validation
<1>. USE ValidationAssumption, BusAssumption
<1>1. CASE queue' = queue
  BY <1>1 DEF BoundsInv
<1>2. CASE HasRoom(t) /\ queue' = [queue EXCEPT ![t] = Append(@, r)]
  <2>1. /\ queue[t] \in Seq(Request) /\ queue'[t] = Append(queue[t], r)
        /\ \A u \in Topic \ {t} : queue'[u] = queue[u]
    BY <1>2 DEF BusInv, Typed
  <2>2. Len(queue'[t]) = Len(queue[t]) + 1
    BY <2>1
  <2>3. \A i \in DOMAIN queue'[t] :
          queue'[t][i] = r \/ (i \in DOMAIN queue[t] /\ queue'[t][i] = queue[t][i])
    BY <2>1
  <2>4. Room[t] # Unbounded => Len(queue'[t]) <= Room[t]
    BY <1>2, <2>1, <2>2 DEF HasRoom
  <2>5. \A u \in Topic : Room[u] # Unbounded => Len(queue'[u]) <= Room[u]
    <3>1. \A u \in Topic : Room[u] # Unbounded => Len(queue[u]) <= Room[u]
      BY DEF BoundsInv
    <3>. QED  BY <2>1, <2>4, <3>1
  <2>6. \A i \in DOMAIN queue[ValidationTopic] : queue[ValidationTopic][i] \in Validation
    BY DEF BoundsInv
  <2>7. \A i \in DOMAIN queue'[ValidationTopic] : queue'[ValidationTopic][i] \in Validation
    <3>1. CASE ValidationTopic = t
      BY <2>3, <2>6, <3>1
    <3>2. CASE ValidationTopic # t
      <4>1. queue'[ValidationTopic] = queue[ValidationTopic]
        BY <2>1, <3>2, ValidationAssumption
      <4>. QED  BY <2>6, <4>1
    <3>. QED  BY <3>1, <3>2
  <2>. QED  BY <2>5, <2>7
<1>. QED  BY <1>1, <1>2 DEF Enqueue

LEMMA DequeueBounds ==
  ASSUME BusInv, BoundsInv, NEW t \in Topic, queue[t] # <<>>, queue' = Dequeue(t)
  PROVE  /\ \A u \in Topic : Room[u] # Unbounded => Len(queue'[u]) <= Room[u]
         /\ \A i \in DOMAIN queue'[ValidationTopic] : queue'[ValidationTopic][i] \in Validation
<1>1. /\ queue[t] \in Seq(Request) /\ queue'[t] = Tail(queue[t])
      /\ \A u \in Topic \ {t} : queue'[u] = queue[u]
  BY DEF BusInv, Typed, Dequeue
<1>2. Len(queue'[t]) = Len(queue[t]) - 1 /\ Len(queue[t]) \in Nat
  BY <1>1
<1>3. \A i \in DOMAIN queue'[t] : i + 1 \in DOMAIN queue[t] /\ queue'[t][i] = queue[t][i + 1]
  BY <1>1
<1>4. Room[t] # Unbounded => Len(queue'[t]) <= Room[t]
  <2>1. Room[t] # Unbounded => Len(queue[t]) <= Room[t] /\ Room[t] \in Nat
    BY BusAssumption DEF BoundsInv
  <2>. QED  BY <1>2, <2>1
<1>5. \A u \in Topic : Room[u] # Unbounded => Len(queue'[u]) <= Room[u]
  <2>1. \A u \in Topic : Room[u] # Unbounded => Len(queue[u]) <= Room[u]
    BY DEF BoundsInv
  <2>. QED  BY <1>1, <1>4, <2>1
<1>6. \A i \in DOMAIN queue[ValidationTopic] : queue[ValidationTopic][i] \in Validation
  BY DEF BoundsInv
<1>7. \A i \in DOMAIN queue'[ValidationTopic] : queue'[ValidationTopic][i] \in Validation
  <2>1. CASE ValidationTopic = t
    BY <1>3, <1>6, <2>1
  <2>2. CASE ValidationTopic # t
    <3>1. queue'[ValidationTopic] = queue[ValidationTopic]
      BY <1>1, <2>2, ValidationAssumption
    <3>. QED  BY <1>6, <3>1
  <2>. QED  BY <2>1, <2>2
<1>. QED  BY <1>5, <1>7

\* A step that leaves the queues alone.
LEMMA OthersBound ==
  ASSUME BoundsInv, UNCHANGED <<queue, content, named>>,
         session' \subseteq Topic, handlers' \subseteq Topic, existing' \subseteq handlers',
         flaps' <= Flaps,
         loop' \in {"start", "wait", "hand", "stopped"}, cancelled' \in BOOLEAN,
         listening' \in BOOLEAN, inHand' \in Validation \union {NoRequest}
  PROVE  BoundsInv'
BY DEF BoundsInv

LEMMA StepBounds ==
  BusInv /\ BoundsInv /\ [ValidationNext]_<<vars, valVars>> => BoundsInv'
<1>. SUFFICES ASSUME BusInv, BoundsInv, [ValidationNext]_<<vars, valVars>>
              PROVE  BoundsInv'
  OBVIOUS
<1>. USE CommandAssumption, ValidationAssumption, BusAssumption
<1>1. CASE UNCHANGED <<vars, valVars>>
  BY <1>1 DEF vars, busVars, cmdVars, valVars, BoundsInv
<1>2. CASE UNCHANGED valVars /\ (Start \/ Stop \/ Cancel)
  BY <1>2, OthersBound
     DEF Start, Stop, Cancel, Subscribe, valVars, cmdVars, busVars, BoundsInv
<1>3. CASE UNCHANGED valVars /\ Link
  BY <1>3, OthersBound
     DEF Link, LinkDown, Reconnect, Disconnect, valVars, cmdVars, BoundsInv, BusInv, Typed
<1>4. ASSUME UNCHANGED valVars, NEW r \in Command, Send(r)
      PROVE  BoundsInv'
  <2>1. CASE Heard(CommandTopic)
    <3>1. Enqueue(CommandTopic, r)
      BY <1>4, <2>1 DEF Send
    <3>. QED  BY <1>4, <3>1, EnqueueBounds DEF Send, Enqueue, valVars, BoundsInv
  <2>2. CASE ~ Heard(CommandTopic)
    BY <1>4, <2>2, OthersBound DEF Send, busVars, valVars, BoundsInv
  <2>. QED  BY <2>1, <2>2
<1>5. CASE UNCHANGED valVars /\ Take
  <2>1. loop' \in {"wait", "hand"}
    BY <1>5 DEF Take
  <2>. QED  BY <1>5, <2>1, DequeueBounds DEF Take, valVars, BoundsInv
<1>6. ASSUME UNCHANGED valVars, NEW r \in Command, Admit(r) \/ Worker(r)
      PROVE  BoundsInv'
  BY <1>6, OthersBound
     DEF Admit, Worker, Execute, Answer, Push, busVars, valVars, BoundsInv
<1>7. CASE Listen
  BY <1>7, OthersBound DEF Listen, Subscribe, cmdVars, BoundsInv
<1>8. CASE NextAsked
  <2>1. inHand' \in Validation
    <3>1. /\ queue[ValidationTopic] \in Seq(Request) /\ queue[ValidationTopic] # <<>>
          /\ inHand' = Head(queue[ValidationTopic])
      BY <1>8 DEF NextAsked, BusInv, Typed
    <3>2. 1 \in DOMAIN queue[ValidationTopic] /\ inHand' = queue[ValidationTopic][1]
      BY <3>1
    <3>. QED  BY <3>2 DEF BoundsInv
  <2>. QED  BY <1>8, <2>1, DequeueBounds DEF NextAsked, cmdVars, BoundsInv
<1>9. ASSUME NEW v \in Validation, NEW o \in Verdict, Judge(v, o)
      PROVE  BoundsInv'
  BY <1>9, OthersBound DEF Judge, cmdVars, BoundsInv
<1>10. ASSUME NEW v \in Validation, Ask(v)
       PROVE  BoundsInv'
  BY <1>10, EnqueueBounds DEF Ask, Enqueue, cmdVars, valVars, BoundsInv
<1>. QED
  BY <1>1, <1>2, <1>3, <1>4, <1>5, <1>6, <1>7, <1>8, <1>9, <1>10
     DEF ValidationNext, Next, Loop, Thread

-----------------------------------------------------------------------------
(* What is said of a Device is what the driver said, and said once. *)

\* The validations to come: each is there once, and nothing has been said of it.
AskInv ==
  LET q == queue[ValidationTopic] IN
  /\ \A i \in DOMAIN q : verdict[q[i]] = "none" /\ q[i] # inHand
  /\ \A i, j \in DOMAIN q : q[i] = q[j] => i = j
  /\ inHand # NoRequest => verdict[inHand] = "none"

SaidInv == AskInv /\ VerdictsAreSaid

LEMMA InitSaid == ValidationInit => SaidInv
<1>. SUFFICES ASSUME ValidationInit PROVE SaidInv
  OBVIOUS
<1>1. queue[ValidationTopic] = <<>> /\ \A v \in Validation : answers[v] = <<>>
  BY ValidationAssumption DEF ValidationInit, Init, BusInit
<1>2. AskInv
  BY <1>1 DEF AskInv, ValidationInit
<1>. QED  BY <1>1, <1>2 DEF SaidInv, VerdictsAreSaid

\* The thread's queue and verdicts, and what has been said of the Devices, are its own.
LEMMA OthersSay ==
  ASSUME SaidInv, UNCHANGED valVars, queue'[ValidationTopic] = queue[ValidationTopic],
         \A v \in Validation : answers'[v] = answers[v]
  PROVE  SaidInv'
BY DEF SaidInv, AskInv, VerdictsAreSaid, valVars

LEMMA CommandsSay ==
  ASSUME BusInv, SaidInv, Next \/ UNCHANGED vars, UNCHANGED valVars
  PROVE  SaidInv'
<1>. USE CommandAssumption, ValidationAssumption
<1>1. queue'[ValidationTopic] = queue[ValidationTopic]
  BY DEF Next, Loop, Worker, Link, Start, Stop, Cancel, Take, Admit, Send, Execute, Answer,
         Push, Subscribe, LinkDown, Reconnect, Disconnect, Enqueue, Dequeue, vars, busVars,
         BusInv, Typed
<1>2. \A v \in Validation : answers'[v] = answers[v]
  <2>1. ASSUME NEW v \in Validation, NEW r \in Command, NEW a, Publish(r, a)
        PROVE  answers'[v] = answers[v]
    BY <2>1 DEF Publish, BusInv, Typed
  <2>. QED
    BY <2>1 DEF Next, Loop, Worker, Link, Start, Stop, Cancel, Take, Admit, Send, Execute,
         Answer, Push, Subscribe, LinkDown, Reconnect, Disconnect, Enqueue, vars, busVars
<1>. QED  BY <1>1, <1>2, OthersSay

LEMMA StepSaid ==
  BusInv /\ BoundsInv /\ SaidInv /\ [ValidationNext]_<<vars, valVars>> => SaidInv'
<1>. SUFFICES ASSUME BusInv, BoundsInv, SaidInv, [ValidationNext]_<<vars, valVars>>
              PROVE  SaidInv'
  OBVIOUS
<1>. USE CommandAssumption, ValidationAssumption
<1> DEFINE q == queue[ValidationTopic]
<1>1. q \in Seq(Request) /\ \A i \in DOMAIN q : q[i] \in Validation
  BY DEF BusInv, Typed, BoundsInv
<1>2. CASE Listen
  <2>1. UNCHANGED <<queue, answers, verdict, inHand>>
    BY <1>2 DEF Listen, Subscribe
  <2>. QED  BY <2>1 DEF SaidInv, AskInv, VerdictsAreSaid
<1>3. ASSUME NEW v \in Validation, Ask(v) PROVE SaidInv'
  <2>1. /\ UNCHANGED <<answers, verdict, inHand>>
        /\ verdict[v] = "none" /\ inHand # v /\ \A i \in DOMAIN q : q[i] # v
    BY <1>3 DEF Ask, Enqueue, valVars
  <2>2. q' = q \/ q' = Append(q, v)
    BY <1>3 DEF Ask, Enqueue, BusInv, Typed
  <2>3. CASE q' = q
    BY <2>1, <2>3 DEF SaidInv, AskInv, VerdictsAreSaid
  <2>4. CASE q' = Append(q, v)
    <3>1. /\ DOMAIN q' = 1 .. (Len(q) + 1) /\ DOMAIN q = 1 .. Len(q) /\ Len(q) \in Nat
          /\ \A i \in DOMAIN q' : q'[i] = IF i = Len(q) + 1 THEN v ELSE q[i]
      BY <1>1, <2>4
    <3>2. AskInv'
      <4>1. \A i \in DOMAIN q' : verdict'[q'[i]] = "none" /\ q'[i] # inHand'
        BY <2>1, <3>1 DEF SaidInv, AskInv
      <4>2. \A i, j \in DOMAIN q' : q'[i] = q'[j] => i = j
        BY <2>1, <3>1 DEF SaidInv, AskInv
      <4>. QED  BY <2>1, <4>1, <4>2 DEF SaidInv, AskInv
    <3>. QED  BY <2>1, <3>2 DEF SaidInv, VerdictsAreSaid
  <2>. QED  BY <2>2, <2>3, <2>4
<1>4. CASE NextAsked
  <2>1. UNCHANGED <<answers, verdict>> /\ inHand' = Head(q) /\ q # <<>>
    BY <1>4 DEF NextAsked
  <2>2. q' = Tail(q)
    BY <1>4 DEF NextAsked, Dequeue, BusInv, Typed
  <2>3. /\ DOMAIN q' = 1 .. (Len(q) - 1) /\ DOMAIN q = 1 .. Len(q) /\ Len(q) \in Nat
        /\ Len(q) > 0 /\ inHand' = q[1]
        /\ \A i \in DOMAIN q' : q'[i] = q[i + 1]
    BY <1>1, <2>1, <2>2
  <2>4. AskInv'
    <3>1. \A i \in DOMAIN q' : verdict'[q'[i]] = "none" /\ q'[i] # inHand'
      BY <2>1, <2>3 DEF SaidInv, AskInv
    <3>2. ASSUME NEW i \in DOMAIN q', NEW j \in DOMAIN q', q'[i] = q'[j]
          PROVE  i = j
      <4>1. /\ i \in Int /\ j \in Int /\ i + 1 \in DOMAIN q /\ j + 1 \in DOMAIN q
            /\ q[i + 1] = q[j + 1]
        BY <2>3, <3>2
      <4>2. i + 1 = j + 1
        BY <4>1 DEF SaidInv, AskInv
      <4>. QED  BY <4>1, <4>2
    <3>3. verdict'[inHand'] = "none"
      BY <2>1, <2>3 DEF SaidInv, AskInv
    <3>. QED  BY <3>1, <3>2, <3>3 DEF AskInv
  <2>. QED  BY <2>1, <2>4 DEF SaidInv, VerdictsAreSaid
<1>5. ASSUME NEW v \in Validation, NEW o \in Verdict, Judge(v, o) PROVE SaidInv'
  <2>1. /\ verdict' = [verdict EXCEPT ![v] = o] /\ o \in {"accepted", "refused", "mute"}
        /\ inHand = v /\ inHand' = NoRequest /\ UNCHANGED queue /\ verdict[v] = "none"
        /\ verdict \in [Validation -> Verdict]
    BY <1>5 DEF Judge, Verdict, SaidInv, AskInv, BusInv, Typed
  <2>2. answers[v] = <<>>
    BY <2>1 DEF SaidInv, VerdictsAreSaid
  <2>3. /\ \A x \in Validation \ {v} : answers'[x] = answers[x]
        /\ \/ answers'[v] = <<>>
           \/ answers'[v] = <<IF o = "refused" THEN "error" ELSE "ok">>
    <3>1. CASE v \in named
      BY <1>5, <2>2, <3>1, Published DEF Judge, BusInv
    <3>2. CASE v \notin named
      BY <1>5, <2>2, <3>2 DEF Judge
    <3>. QED  BY <3>1, <3>2
  <2>4. AskInv'
    <3>1. \A i \in DOMAIN q : q[i] # v /\ verdict'[q[i]] = verdict[q[i]]
      BY <1>1, <2>1 DEF SaidInv, AskInv
    <3>. QED  BY <1>1, <2>1, <3>1 DEF SaidInv, AskInv
  <2>5. VerdictsAreSaid'
    BY <2>1, <2>3 DEF SaidInv, VerdictsAreSaid
  <2>. QED  BY <2>4, <2>5 DEF SaidInv
<1>6. CASE (Next \/ UNCHANGED vars) /\ UNCHANGED valVars
  BY <1>6, CommandsSay
<1>. QED
  BY <1>2, <1>3, <1>4, <1>5, <1>6 DEF ValidationNext, Thread

\* Who sends a command is told how it ended; who asks for a validation is told "error" only
\* of a Device the driver has refused, and "ok" only of one it has accepted or refused without
\* a text; both at most once, and silence has one of the causes named.
THEOREM AnswersAreAlwaysTrue == ValidationSpec => []AnswersAreTrue
<1>1. BusInv /\ SaidInv => AnswersAreTrue
  <2>. SUFFICES ASSUME BusInv, SaidInv PROVE AnswersAreTrue
    OBVIOUS
  <2>1. ASSUME NEW r \in Command
        PROVE  answers[r] \in {<<>>}
                 \union {<<"busy">> : o \in {outcome[r]} \intersect {"none"}}
                 \union {<<"error">> : o \in {outcome[r]} \intersect {"EdgexError"}}
                 \union {<<"ok">> : o \in {outcome[r]} \ {"none", "EdgexError", "exception"}}
    <3>1. Fate(r) /\ phase[r] \in Phase
      BY <2>1 DEF BusInv, Typed
    <3>. QED  BY <3>1 DEF Fate, Phase, Success
  <2>2. SilenceIsExplained
    BY DEF BusInv, SilenceIsExplained, Fate
  <2>3. EventFollowsAnswer
    BY DEF BusInv, Typed, EventFollowsAnswer, Fate
  <2>. QED
    BY <2>1, <2>2, <2>3 DEF BusInv, SaidInv, AnswersMatchOutcome, AnswersAreTrue
<1>. QED
  BY <1>1, InitSaid, StepSaid, InitBounds, StepBounds, BusInvariant, PTL DEF ValidationSpec

-----------------------------------------------------------------------------
\* The bounds of the bus and of the semaphore: no queue outgrows its room, no more permits are
\* free than there are, and whatever is sent to while the client is connected has a callback.
THEOREM BusTypeCorrect == ValidationSpec => []ValidationTypeOK
<1>1. BusInv /\ BoundsInv => ValidationTypeOK
  <2>. SUFFICES ASSUME BusInv, BoundsInv PROVE ValidationTypeOK
    OBVIOUS
  <2>1. BusTypeOK
    BY DEF BusInv, BoundsInv, Typed, BusTypeOK
  <2>2. free \in 0 .. Max
    <3>1. Cardinality(Working) \in Nat
      BY FS_CardinalityType DEF BusInv, PermitInv
    <3>. QED  BY <3>1, CommandAssumption DEF BusInv, PermitInv, PermitsAreWorkers
  <2>. QED
    BY <2>1, <2>2 DEF BusInv, BoundsInv, Typed, TypeOK, ValidationTypeOK
<1>. QED
  BY <1>1, InitBounds, StepBounds, BusInvariant, PTL DEF ValidationSpec

=============================================================================
