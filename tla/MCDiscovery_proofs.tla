------------------------- MODULE MCDiscovery_proofs -------------------------
(***************************************************************************)
(* What stops of discoveries and scans miss, and what scans add, for any   *)
(* number of requests, DELETEs, ids, Devices and profiles.  The proofs are *)
(* about MCDiscovery, where the two components stand side by side and the  *)
(* properties are stated.                                                  *)
(***************************************************************************)
EXTENDS MCDiscovery, TLAPS

-----------------------------------------------------------------------------
(* Discoveries. *)

Underway(a) == run[a] \in {"registered", "recorded", "begun", "finding", "ending"}

DiscoveryTyped ==
  /\ DOMAIN run = Request \union {"scheduled"}
  /\ DOMAIN id = Request
  /\ DOMAIN stopEvents = Id
  /\ DOMAIN stop = StopCall
  /\ thread \in Request \union {Nobody}
  /\ \A a \in Request : run[a] # "none" => id[a] \in Id

\* An event in the map is that of a discovery under way, under its own id.
Named ==
  \A i \in Id : stopEvents[i] # Nobody =>
    stopEvents[i] \in Request /\ Underway(stopEvents[i]) /\ id[stopEvents[i]] = i

\* A discovery keeps its place in the map from the request to its end.
Reachable(a) ==
  Underway(a) /\ stopEvents[id[a]] # a =>
    a \in signalled \/ \E b \in Request \ {a} : id[b] = id[a] /\ run[b] # "none"

\* The thread reference that a DELETE has seen is cleared by the end of a run, or by another.
Cleared(s) ==
  stop[s] = "failed" \/ (stop[s] = "join" /\ thread = Nobody) =>
    \/ \E a \in Request : run[a] = "ended"
    \/ \E t \in StopCall \ {s} : stop[t] = "answered"

\* A POST that has yet to start its thread has crossed every DELETE that is at it.
Overlapped(s) ==
  /\ stop[s] = "early" => s \in crossed
  /\ \A a \in Request :
       stop[s] \in {"look", "join", "wait"} /\ run[a] \in {"registered", "recorded"}
         => s \in crossed

DiscoveryInv ==
  /\ DiscoveryTyped /\ Named
  /\ \A a \in Request : Reachable(a)
  /\ \A s \in StopCall : Cleared(s) /\ Overlapped(s)

-----------------------------------------------------------------------------
(* Scans. *)

ScanTyped ==
  /\ DOMAIN outer = Scan /\ DOMAIN inner = Scan /\ DOMAIN verdict = Scan
  /\ DOMAIN into = Scan /\ DOMAIN rid = Scan
  /\ DOMAIN scanEvents = RequestId
  /\ \A a \in Scan : outer[a] \notin {"none", "refused"} => rid[a] \in RequestId

\* The inner thread is started by the outer one, and ends with a verdict.
Nested(a) ==
  /\ outer[a] \notin {"handed", "ended"} => inner[a] = "none"
  /\ inner[a] \notin {"ending", "ended"} => verdict[a] = "none"

\* The profile is in the cache, put there by this scan and not taken back.
Added(a) == inner[a] = "request" \/ verdict[a] = "added"

\* What one scan has added no other has.
Alone(a) ==
  Added(a) =>
    /\ into[a] \in profiles
    /\ \A b \in Scan \ {a} : Added(b) => into[b] # into[a]

\* An inner thread is in the map, or has been told, or lost its id to another.
Reached(a) ==
  inner[a] = "begun" /\ scanEvents[rid[a]] # a =>
    a \in told \/ \E b \in Scan \ {a} : rid[b] = rid[a] /\ inner[b] # "none"

ScanInv == ScanTyped /\ \A a \in Scan : Nested(a) /\ Alone(a) /\ Reached(a)

-----------------------------------------------------------------------------
(* Discoveries, step by step. *)

LEMMA InitDiscovery == D!Init => DiscoveryInv
BY DiscoveryAssumption
   DEF D!Init, D!Run, D!Scheduled, DiscoveryInv, DiscoveryTyped, Named, Underway, Reachable, Cleared,
       Overlapped

LEMMA RegisterKeeps ==
  ASSUME DiscoveryInv, NEW a \in Request, D!Register(a)
  PROVE  DiscoveryInv'
<1>1. PICK i \in Id :
        /\ id' = [id EXCEPT ![a] = i]
        /\ stopEvents' = [stopEvents EXCEPT ![i] = a]
  BY DEF D!Register
<1>2. /\ run[a] = "none" /\ run' = [run EXCEPT ![a] = "registered"]
      /\ UNCHANGED <<thread, signalled, stop>>
      /\ crossed' = crossed \union {s \in StopCall : stop[s] \in {"look", "join", "wait"}}
  BY DEF D!Register, D!RunGoes
<1>3. DiscoveryTyped' /\ Named'
  BY <1>1, <1>2 DEF DiscoveryInv, DiscoveryTyped, Named, Underway
<1>4. ASSUME NEW b \in Request PROVE Reachable(b)'
  BY <1>1, <1>2 DEF DiscoveryInv, DiscoveryTyped, Named, Underway, Reachable
<1>5. ASSUME NEW s \in StopCall PROVE Cleared(s)' /\ Overlapped(s)'
  <2>1. Cleared(s)'
    BY <1>1, <1>2 DEF DiscoveryInv, DiscoveryTyped, Cleared
  <2>2. Overlapped(s)'
    BY <1>2 DEF DiscoveryInv, Overlapped
  <2>. QED  BY <2>1, <2>2
<1>. QED  BY <1>3, <1>4, <1>5 DEF DiscoveryInv

\* The steps of a discovery between its registration and its end leave the map as it is.
LEMMA RunKeeps ==
  ASSUME DiscoveryInv,
         \/ \E a \in Request : D!Record(a) \/ D!Launch(a)
         \/ \E r \in Request \union {"scheduled"} : D!Begin(r) \/ D!Finish(r)
         \/ D!Due
  PROVE  DiscoveryInv'
<1>1. PICK r \in Request \union {"scheduled"} :
        /\ r = "scheduled" \/ run[r] \in {"registered", "recorded", "begun", "finding"}
        /\ \E step : /\ run' = [run EXCEPT ![r] = step]
                     /\ r \in Request => step \in {"recorded", "begun", "finding", "ending"}
                     /\ r \in Request /\ step = "recorded" => run[r] = "registered"
        /\ thread' = thread \/ (thread' \in Request /\ thread' # Nobody)
        /\ UNCHANGED <<id, stopEvents, signalled, stop, crossed>>
  BY DiscoveryAssumption
     DEF D!Record, D!Launch, D!Begin, D!Finish, D!Due, D!RunGoes, D!Scheduled
<1>2. /\ DOMAIN run' = DOMAIN run
      /\ \A a \in Request :
           /\ Underway(a)' <=> Underway(a)
           /\ run'[a] = "none" <=> run[a] = "none"
           /\ run[a] = "ended" => run'[a] = "ended"
           /\ run'[a] \in {"registered", "recorded"} => run[a] \in {"registered", "recorded"}
  BY <1>1, DiscoveryAssumption DEF DiscoveryInv, DiscoveryTyped, Underway
<1>3. ASSUME NEW s \in StopCall PROVE Overlapped(s)'
  BY <1>1, <1>2 DEF DiscoveryInv, Overlapped
<1>. QED
  BY <1>1, <1>2, <1>3 DEF DiscoveryInv, DiscoveryTyped, Named, Reachable, Cleared

LEMMA CleanKeeps ==
  ASSUME DiscoveryInv, NEW a \in Request, D!Clean(a)
  PROVE  DiscoveryInv'
<1>1. /\ run[a] = "ending" /\ run' = [run EXCEPT ![a] = "ended"]
      /\ stopEvents' = [stopEvents EXCEPT ![id[a]] = Nobody]
      /\ thread' = Nobody
      /\ UNCHANGED <<id, signalled, stop, crossed>>
  BY DEF D!Clean, D!RunGoes
<1>2. DiscoveryTyped' /\ Named'
  BY <1>1 DEF DiscoveryInv, DiscoveryTyped, Named, Underway
<1>3. ASSUME NEW b \in Request PROVE Reachable(b)'
  BY <1>1 DEF DiscoveryInv, DiscoveryTyped, Underway, Reachable
<1>4. ASSUME NEW s \in StopCall PROVE Cleared(s)' /\ Overlapped(s)'
  <2>1. Cleared(s)'
    BY <1>1 DEF DiscoveryInv, DiscoveryTyped, Cleared
  <2>2. Overlapped(s)'
    BY <1>1 DEF DiscoveryInv, DiscoveryTyped, Overlapped
  <2>. QED  BY <2>1, <2>2
<1>. QED  BY <1>2, <1>3, <1>4 DEF DiscoveryInv

LEMMA StopKeeps ==
  ASSUME DiscoveryInv, NEW s \in StopCall, NEW i \in Id, D!Stop(s, i)
  PROVE  DiscoveryInv'
<1>1. /\ stop[s] = "none" /\ stop' = [stop EXCEPT ![s] = "look"]
      /\ stopEvents' = [stopEvents EXCEPT ![i] = Nobody]
      /\ signalled \subseteq signalled'
      /\ stopEvents[i] # Nobody => stopEvents[i] \in signalled'
      /\ UNCHANGED <<run, id, thread>>
      /\ crossed \subseteq crossed'
      /\ (\E a \in Request : run[a] \in {"registered", "recorded"}) => s \in crossed'
  BY DEF D!Stop
<1>2. DiscoveryTyped' /\ Named'
  BY <1>1 DEF DiscoveryInv, DiscoveryTyped, Named, Underway
<1>3. ASSUME NEW b \in Request PROVE Reachable(b)'
  BY <1>1, DiscoveryAssumption DEF DiscoveryInv, DiscoveryTyped, Underway, Reachable
<1>4. ASSUME NEW t \in StopCall PROVE Cleared(t)' /\ Overlapped(t)'
  <2>1. Cleared(t)'
    BY <1>1 DEF DiscoveryInv, DiscoveryTyped, Cleared
  <2>2. Overlapped(t)'
    BY <1>1 DEF DiscoveryInv, DiscoveryTyped, Overlapped
  <2>. QED  BY <2>1, <2>2
<1>. QED  BY <1>2, <1>3, <1>4 DEF DiscoveryInv

\* A DELETE at its thread reference: only the last of its steps clears it, and answers.
LEMMA WaitKeeps ==
  ASSUME DiscoveryInv, NEW s \in StopCall, D!Look(s) \/ D!Join(s) \/ D!Joined(s)
  PROVE  DiscoveryInv'
<1>1. UNCHANGED <<run, id, stopEvents, signalled, crossed>>
  BY DEF D!Look, D!Join, D!Joined, D!runVars
<1>2. PICK step : /\ stop' = [stop EXCEPT ![s] = step]
                  /\ step = "failed" \/ (step = "join" /\ thread' = Nobody) =>
                       stop[s] = "join" /\ thread = Nobody
                  /\ thread' # thread => step = "answered"
                  /\ stop[s] # "answered"
                  /\ step \in {"look", "join", "wait"} => stop[s] \in {"look", "join", "wait"}
                  /\ step = "early" => /\ stop[s] = "join"
                                       /\ thread # Nobody /\ run[thread] = "recorded"
  BY DEF D!Look, D!Join, D!Joined, D!runVars, D!Answered
<1>3. ASSUME NEW t \in StopCall PROVE Overlapped(t)'
  <2>1. /\ DOMAIN stop = StopCall /\ Overlapped(t) /\ thread \in Request \union {Nobody}
    BY DEF DiscoveryInv, DiscoveryTyped
  <2>2. CASE t = s
    BY <1>1, <1>2, <2>1, <2>2 DEF Overlapped
  <2>3. CASE t # s
    BY <1>1, <1>2, <2>1, <2>3 DEF Overlapped
  <2>. QED  BY <2>2, <2>3
<1>4. ASSUME NEW t \in StopCall PROVE Cleared(t)'
  <2>1. /\ DOMAIN stop = StopCall /\ Cleared(t)
        /\ stop'[s] = step /\ \A x \in StopCall \ {s} : stop'[x] = stop[x]
    BY <1>2 DEF DiscoveryInv, DiscoveryTyped
  <2>2. \A x \in StopCall : stop[x] = "answered" => stop'[x] = "answered"
    BY <1>2, <2>1
  <2>3. CASE t = s
    BY <1>1, <1>2, <2>1, <2>2, <2>3 DEF Cleared
  <2>4. CASE t # s
    BY <1>1, <1>2, <2>1, <2>2, <2>4 DEF Cleared
  <2>. QED  BY <2>3, <2>4
<1>. QED
  <2>1. thread' = thread \/ thread' = Nobody
    BY DEF D!Look, D!Join, D!Joined, D!runVars
  <2>. QED
    BY <1>1, <1>2, <1>3, <1>4, <2>1 DEF DiscoveryInv, DiscoveryTyped, Named, Underway, Reachable

LEMMA DiscoveryInvariant ==
  DiscoveryInv /\ (D!Next \/ UNCHANGED discoveryVars) => DiscoveryInv'
<1>. SUFFICES ASSUME DiscoveryInv, D!Next \/ UNCHANGED discoveryVars PROVE DiscoveryInv'
  OBVIOUS
<1>1. CASE UNCHANGED discoveryVars
  BY <1>1
     DEF discoveryVars, DiscoveryInv, DiscoveryTyped, Named, Underway, Reachable, Cleared,
         Overlapped
<1>2. CASE D!Shutdown
  BY <1>2
     DEF D!Shutdown, D!runVars, DiscoveryInv, DiscoveryTyped, Named, Underway, Reachable, Cleared,
         Overlapped
<1>. QED
  BY <1>1, <1>2, RegisterKeeps, RunKeeps, CleanKeeps, StopKeeps, WaitKeeps
     DEF D!Next, D!Run, D!Scheduled

-----------------------------------------------------------------------------
(* Scans, step by step. *)

LEMMA InitScans == S!Init => ScanInv
BY DEF S!Init, ScanInv, ScanTyped, Nested, Added, Alone, Reached

LEMMA AcceptKeeps ==
  ASSUME ScanInv, NEW a \in Scan, NEW d \in Device, NEW p \in Profile,
         \/ S!Refuse(a, d, p)
         \/ \E i \in RequestId : S!Accept(a, d, p, i)
  PROVE  ScanInv'
<1>1. /\ outer[a] = "none"
      /\ \/ outer' = [outer EXCEPT ![a] = "refused"] /\ UNCHANGED <<into, rid>>
         \/ /\ outer' = [outer EXCEPT ![a] = "begun"] /\ into' = [into EXCEPT ![a] = p]
            /\ \E i \in RequestId : rid' = [rid EXCEPT ![a] = i]
      /\ UNCHANGED <<inner, scanEvents, told, profiles, verdict>>
  BY DEF S!Accept, S!Refuse, S!OuterGoes
<1>2. inner[a] = "none" /\ verdict[a] = "none"
  BY <1>1 DEF ScanInv, Nested
<1>3. ScanTyped' /\ \A b \in Scan : Nested(b)'
  BY <1>1, <1>2 DEF ScanInv, ScanTyped, Nested
<1>4. \A b \in Scan : Alone(b)' /\ Reached(b)'
  BY <1>1, <1>2 DEF ScanInv, ScanTyped, Alone, Added, Reached
<1>. QED  BY <1>3, <1>4 DEF ScanInv

LEMMA OuterKeeps ==
  ASSUME ScanInv, NEW a \in Scan, S!Begin(a) \/ S!Handle(a) \/ S!Complete(a)
  PROVE  ScanInv'
<1>1. UNCHANGED <<into, rid, told, profiles, verdict>>
  BY DEF S!Begin, S!Handle, S!Complete
<1>2. CASE S!Handle(a)
  <2>1. /\ outer[a] = "handler" /\ outer' = [outer EXCEPT ![a] = "handed"]
        /\ inner' = [inner EXCEPT ![a] = "begun"]
        /\ scanEvents' = [scanEvents EXCEPT ![rid[a]] = a]
    BY <1>2 DEF S!Handle, S!OuterGoes, S!InnerGoes
  <2>2. inner[a] = "none"
    BY <2>1 DEF ScanInv, Nested
  <2>3. ScanTyped' /\ \A b \in Scan : Nested(b)' /\ Alone(b)'
    BY <1>1, <2>1, <2>2 DEF ScanInv, ScanTyped, Nested, Alone, Added
  <2>4. \A b \in Scan : Reached(b)'
    BY <1>1, <2>1, <2>2 DEF ScanInv, ScanTyped, Reached
  <2>. QED  BY <2>3, <2>4 DEF ScanInv
<1>3. CASE S!Begin(a) \/ S!Complete(a)
  BY <1>1, <1>3
     DEF S!Begin, S!Complete, S!OuterGoes, ScanInv, ScanTyped, Nested, Alone, Added, Reached
<1>. QED  BY <1>2, <1>3

\* A step of the inner thread that leaves the cache alone.
LEMMA InnerKeeps ==
  ASSUME ScanInv, NEW a \in Scan, S!Start(a) \/ S!LookAtDevice(a)
  PROVE  ScanInv'
<1>1. /\ UNCHANGED <<outer, into, rid, told, profiles, scanEvents>>
      /\ inner[a] \in {"begun", "look"}
      /\ \/ inner' = [inner EXCEPT ![a] = "look"] /\ UNCHANGED verdict
         \/ inner' = [inner EXCEPT ![a] = "check"] /\ UNCHANGED verdict
         \/ /\ inner' = [inner EXCEPT ![a] = "ending"]
            /\ verdict' \in {[verdict EXCEPT ![a] = x] : x \in {"stopped", "failed"}}
  BY DEF S!Start, S!LookAtDevice, S!Fail, S!InnerGoes, S!Judge
<1>2. ScanTyped' /\ \A b \in Scan : Nested(b)'
  BY <1>1 DEF ScanInv, ScanTyped, Nested
<1>3. \A b \in Scan : Alone(b)' /\ Reached(b)'
  BY <1>1 DEF ScanInv, ScanTyped, Nested, Alone, Added, Reached
<1>. QED  BY <1>2, <1>3 DEF ScanInv

LEMMA AddKeeps ==
  ASSUME ScanInv, NEW a \in Scan, S!AddProfile(a)
  PROVE  ScanInv'
<1>1. /\ UNCHANGED <<outer, into, rid, told, scanEvents>>
      /\ inner[a] = "check"
      /\ \/ /\ inner' = [inner EXCEPT ![a] = "ending"]
            /\ verdict' = [verdict EXCEPT ![a] = "failed"] /\ UNCHANGED profiles
         \/ /\ into[a] \notin profiles /\ profiles' = profiles \union {into[a]}
            /\ inner' = [inner EXCEPT ![a] = "request"] /\ UNCHANGED verdict
  BY DEF S!AddProfile, S!Fail, S!InnerGoes, S!Judge
<1>2. ScanTyped' /\ \A b \in Scan : Nested(b)' /\ Reached(b)'
  BY <1>1 DEF ScanInv, ScanTyped, Nested, Reached
<1>3. \A b \in Scan : Alone(b)'
  BY <1>1 DEF ScanInv, ScanTyped, Nested, Alone, Added
<1>. QED  BY <1>2, <1>3 DEF ScanInv

LEMMA AnswerKeeps ==
  ASSUME ScanInv, NEW a \in Scan, S!Answer(a)
  PROVE  ScanInv'
<1>1. /\ UNCHANGED <<outer, into, rid, told, scanEvents>>
      /\ inner[a] = "request" /\ inner' = [inner EXCEPT ![a] = "ending"]
      /\ \/ verdict' = [verdict EXCEPT ![a] = "added"] /\ UNCHANGED profiles
         \/ verdict' = [verdict EXCEPT ![a] = "failed"] /\ profiles' = profiles \ {into[a]}
  BY DEF S!Answer, S!Fail, S!InnerGoes, S!Judge
<1>2. ScanTyped' /\ \A b \in Scan : Nested(b)' /\ Reached(b)'
  BY <1>1 DEF ScanInv, ScanTyped, Nested, Reached
<1>3. \A b \in Scan : Alone(b)'
  BY <1>1 DEF ScanInv, ScanTyped, Nested, Alone, Added
<1>. QED  BY <1>2, <1>3 DEF ScanInv

LEMMA CleanScanKeeps ==
  ASSUME ScanInv, NEW a \in Scan, S!Clean(a)
  PROVE  ScanInv'
<1>1. /\ UNCHANGED <<outer, into, rid, told, profiles, verdict>>
      /\ inner[a] = "ending" /\ inner' = [inner EXCEPT ![a] = "ended"]
      /\ scanEvents' = [scanEvents EXCEPT ![rid[a]] = Nothing]
  BY DEF S!Clean, S!InnerGoes
<1>2. ScanTyped' /\ \A b \in Scan : Nested(b)' /\ Alone(b)'
  BY <1>1 DEF ScanInv, ScanTyped, Nested, Alone, Added
<1>3. \A b \in Scan : Reached(b)'
  BY <1>1 DEF ScanInv, ScanTyped, Reached
<1>. QED  BY <1>2, <1>3 DEF ScanInv

LEMMA DeleteKeeps ==
  ASSUME ScanInv, NEW s \in StopScan,
         S!StopEvery(s) \/ \E i \in RequestId : S!StopById(s, i)
  PROVE  ScanInv'
<1>1. /\ UNCHANGED <<outer, inner, into, rid, profiles, verdict>>
      /\ told \subseteq told'
      /\ \/ UNCHANGED scanEvents
         \/ \E i \in RequestId :
              /\ scanEvents' = [scanEvents EXCEPT ![i] = Nothing]
              /\ scanEvents[i] \in told'
  BY DEF S!StopEvery, S!StopById
<1>2. ScanTyped' /\ \A b \in Scan : Nested(b)' /\ Alone(b)'
  BY <1>1 DEF ScanInv, ScanTyped, Nested, Alone, Added
<1>3. ASSUME NEW b \in Scan, inner[b] = "begun" PROVE Reached(b)'
  <2>1. rid[b] \in DOMAIN scanEvents
    BY <1>3 DEF ScanInv, ScanTyped, Nested
  <2>2. scanEvents'[rid[b]] = scanEvents[rid[b]] \/ scanEvents[rid[b]] \in told'
    BY <1>1, <2>1
  <2>. QED  BY <1>1, <1>3, <2>2 DEF ScanInv, Reached
<1>4. ASSUME NEW b \in Scan, inner[b] # "begun" PROVE Reached(b)'
  BY <1>1, <1>4 DEF Reached
<1>. QED  BY <1>2, <1>3, <1>4 DEF ScanInv

LEMMA ScanInvariant == ScanInv /\ (S!Next \/ UNCHANGED scanVars) => ScanInv'
<1>. SUFFICES ASSUME ScanInv, S!Next \/ UNCHANGED scanVars PROVE ScanInv'
  OBVIOUS
<1>1. CASE UNCHANGED scanVars
  BY <1>1 DEF scanVars, ScanInv, ScanTyped, Nested, Alone, Added, Reached
<1>2. ASSUME NEW d \in Device, S!Other(d) PROVE ScanInv'
  BY <1>2 DEF S!Other, S!scanVars, ScanInv, ScanTyped, Nested, Alone, Added, Reached
<1>3. ASSUME NEW a \in Scan, S!ScanStep(a) PROVE ScanInv'
  BY <1>3, OuterKeeps, InnerKeeps, AddKeeps, AnswerKeeps, CleanScanKeeps DEF S!ScanStep
<1>. QED  BY <1>1, <1>2, <1>3, AcceptKeeps, DeleteKeeps DEF S!Next

-----------------------------------------------------------------------------
(* The two side by side. *)

LEMMA SideBySide == DiscoveryInv /\ ScanInv /\ [Next]_<<discoveryVars, scanVars>>
                      => DiscoveryInv' /\ ScanInv'
<1>. SUFFICES ASSUME DiscoveryInv, ScanInv, [Next]_<<discoveryVars, scanVars>>
              PROVE  DiscoveryInv' /\ ScanInv'
  OBVIOUS
<1>1. /\ D!Next \/ UNCHANGED discoveryVars
      /\ S!Next \/ UNCHANGED scanVars
  BY DEF Next, DiscoveryStep, ScanStep
<1>. QED  BY <1>1, DiscoveryInvariant, ScanInvariant

\* A DELETE misses a discovery or a scan, or fails on the thread reference, only because of
\* another request or DELETE, and no stop event outlives its discovery: for any number of
\* requests that share ids, or have none, in any order.
THEOREM MissedOnlyForCause == Spec => []StopsMissForCause
<1>1. DiscoveryInv /\ ScanInv => StopsMissForCause
  <2>. SUFFICES ASSUME DiscoveryInv, ScanInv PROVE StopsMissForCause
    OBVIOUS
  <2>1. D!UnstoppableForCause
    BY DEF DiscoveryInv, Reachable, Underway, D!UnstoppableForCause, D!Running
  <2>2. D!FailedByAnother
    BY DEF DiscoveryInv, Cleared, Overlapped, D!FailedByAnother
  <2>3. D!EventsAreOfRuns
    BY DEF DiscoveryInv, Named, Underway, D!EventsAreOfRuns
  <2>4. S!UnreachedForCause
    BY DEF ScanInv, Reached, S!UnreachedForCause
  <2>. QED  BY <2>1, <2>2, <2>3, <2>4 DEF StopsMissForCause
<1>. QED  BY InitDiscovery, InitScans, SideBySide, <1>1, PTL DEF Spec, Init

\* However many scans were let in for one profile name, no two of them add the profile, and
\* the one that a scan says it added is there.
THEOREM OneScanAdds == Spec => []ScansAddOnce
<1>1. ScanInv => ScansAddOnce
  BY DEF ScanInv, Alone, Added, ScansAddOnce, S!ScansAddOnce
<1>. QED  BY InitDiscovery, InitScans, SideBySide, <1>1, PTL DEF Spec, Init

-----------------------------------------------------------------------------
(* Types. *)

\* A scan that was accepted has a profile name.
IntoInv == \A a \in Scan : outer[a] \notin {"none", "refused"} => into[a] \in Profile

LEMMA InitTypes == Init => D!DiscoveryTypeOK /\ S!ScanTypeOK /\ IntoInv
<1>. SUFFICES ASSUME Init PROVE D!DiscoveryTypeOK /\ S!ScanTypeOK /\ IntoInv
  OBVIOUS
<1>1. D!DiscoveryTypeOK
  BY DEF Init, D!Init, D!DiscoveryTypeOK
<1>2. S!ScanTypeOK /\ IntoInv
  BY DEF Init, S!Init, S!ScanTypeOK, IntoInv
<1>. QED  BY <1>1, <1>2

LEMMA DiscoveryTypes ==
  D!DiscoveryTypeOK /\ (D!Next \/ UNCHANGED discoveryVars) => D!DiscoveryTypeOK'
<1>. SUFFICES ASSUME D!DiscoveryTypeOK, D!Next \/ UNCHANGED discoveryVars
              PROVE  D!DiscoveryTypeOK'
  OBVIOUS
<1>. USE DEF D!DiscoveryTypeOK
<1>1. ASSUME NEW a \in Request, D!Register(a) \/ D!Record(a) \/ D!Launch(a) \/ D!Clean(a)
      PROVE  D!DiscoveryTypeOK'
  BY <1>1 DEF D!Register, D!Record, D!Launch, D!Clean, D!RunGoes, D!Run
<1>2. ASSUME NEW r \in D!Run, D!Begin(r) \/ D!Finish(r) PROVE D!DiscoveryTypeOK'
  BY <1>2 DEF D!Begin, D!Finish, D!RunGoes, D!Tell, D!Run
<1>3. ASSUME NEW s \in StopCall, D!Look(s) \/ D!Join(s) \/ D!Joined(s)
      PROVE  D!DiscoveryTypeOK'
  BY <1>3 DEF D!Look, D!Join, D!Joined, D!Answered, D!runVars
<1>4. ASSUME NEW s \in StopCall, NEW i \in Id, D!Stop(s, i) PROVE D!DiscoveryTypeOK'
  <2>1. CASE stopEvents[i] = Nobody
    BY <1>4, <2>1 DEF D!Stop
  <2>2. CASE stopEvents[i] # Nobody
    <3>1. stopEvents[i] \in Request /\ stopEvents[i] \in D!Run
      BY <2>2 DEF D!Run
    <3>. QED  BY <1>4, <2>2, <3>1 DEF D!Stop, D!Tell
  <2>. QED  BY <2>1, <2>2
<1>5. CASE D!Due \/ D!Shutdown
  BY <1>5 DEF D!Due, D!Shutdown, D!RunGoes, D!Run, D!Scheduled, D!runVars
<1>6. CASE UNCHANGED discoveryVars
  BY <1>6 DEF discoveryVars
<1>. QED  BY <1>1, <1>2, <1>3, <1>4, <1>5, <1>6 DEF D!Next

LEMMA ScanTypes ==
  ScanInv /\ S!ScanTypeOK /\ IntoInv /\ (S!Next \/ UNCHANGED scanVars)
    => S!ScanTypeOK' /\ IntoInv'
<1>. SUFFICES ASSUME ScanInv, S!ScanTypeOK, IntoInv, S!Next \/ UNCHANGED scanVars
              PROVE  S!ScanTypeOK' /\ IntoInv'
  OBVIOUS
<1>. USE DEF S!ScanTypeOK, IntoInv
<1>1. ASSUME NEW a \in Scan, NEW d \in Device, NEW p \in Profile,
             \/ S!Refuse(a, d, p)
             \/ \E i \in RequestId : S!Accept(a, d, p, i)
      PROVE  S!ScanTypeOK' /\ IntoInv'
  BY <1>1 DEF S!Accept, S!Refuse, S!OuterGoes, ScanInv, ScanTyped
<1>2. ASSUME NEW a \in Scan, S!Begin(a) \/ S!Handle(a) \/ S!Complete(a)
      PROVE  S!ScanTypeOK' /\ IntoInv'
  BY <1>2 DEF S!Begin, S!Handle, S!Complete, S!OuterGoes, S!InnerGoes
<1>3. ASSUME NEW a \in Scan, S!Start(a) \/ S!LookAtDevice(a) \/ S!Clean(a)
      PROVE  S!ScanTypeOK' /\ IntoInv'
  BY <1>3 DEF S!Start, S!LookAtDevice, S!Clean, S!Fail, S!InnerGoes, S!Judge
<1>4. ASSUME NEW a \in Scan, S!AddProfile(a) \/ S!Answer(a)
      PROVE  S!ScanTypeOK' /\ IntoInv'
  <2>1. into[a] \in Profile
    BY <1>4 DEF S!AddProfile, S!Answer, ScanInv, Nested
  <2>. QED  BY <1>4, <2>1 DEF S!AddProfile, S!Answer, S!Fail, S!InnerGoes, S!Judge
<1>5. ASSUME NEW s \in StopScan, S!StopEvery(s) \/ \E i \in RequestId : S!StopById(s, i)
      PROVE  S!ScanTypeOK' /\ IntoInv'
  BY <1>5 DEF S!StopEvery, S!StopById
<1>6. ASSUME NEW d \in Device, S!Other(d) PROVE S!ScanTypeOK' /\ IntoInv'
  BY <1>6 DEF S!Other, S!scanVars
<1>7. CASE UNCHANGED scanVars
  BY <1>7 DEF scanVars
<1>. QED  BY <1>1, <1>2, <1>3, <1>4, <1>5, <1>6, <1>7 DEF S!Next, S!ScanStep

\* What the two threads of a scan, the discoveries and the DELETE requests keep of each
\* other is of its type; a scan adds a profile only after it was let in for one.
THEOREM DiscoveryTypeCorrect == Spec => [](D!DiscoveryTypeOK /\ S!ScanTypeOK)
<1>1. D!DiscoveryTypeOK /\ S!ScanTypeOK /\ IntoInv /\ ScanInv
        /\ [Next]_<<discoveryVars, scanVars>>
          => D!DiscoveryTypeOK' /\ S!ScanTypeOK' /\ IntoInv'
  <2>1. [Next]_<<discoveryVars, scanVars>> =>
          (D!Next \/ UNCHANGED discoveryVars) /\ (S!Next \/ UNCHANGED scanVars)
    BY DEF Next, DiscoveryStep, ScanStep
  <2>. QED  BY <2>1, DiscoveryTypes, ScanTypes
<1>2. Init => DiscoveryInv /\ ScanInv
  BY InitDiscovery, InitScans DEF Init
<1>. QED  BY <1>1, <1>2, InitTypes, SideBySide, PTL DEF Spec

=============================================================================
