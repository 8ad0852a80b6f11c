---------------------------- MODULE ProfileScan ----------------------------
(***************************************************************************)
(* Profile scans: the handlers of /profilescan (controller/http/           *)
(* discovery.py) and DeviceService's _profile_scan_handler and its stop.   *)
(* A scan is two threads.  The outer one says 0, calls the handler, which  *)
(* starts the inner one and returns, and says 100.  The inner one makes a  *)
(* profile of the Device and adds it (Definitions.tla has the whole call), *)
(* and says 100 or -1.                                                     *)
(***************************************************************************)
EXTENDS Integers

CONSTANTS
  Device,       \* names of Devices
  Scan,         \* POST requests
  StopScan,     \* DELETE requests
  RequestId,    \* the ids they carry
  Blank,        \* the id of a request that has none in its body nor in its header
  Profile,      \* names of profiles
  Nothing       \* no device, no profile, no id, no scan

VARIABLES
  known,        \* Devices().for_name finds these
  outer, inner, \* where the two threads of each scan are
  of, into,     \* its Device and the profile it is to make
  rid,          \* its request id
  scanEvents,   \* _profile_scan_stop_events
  told,         \* history: scans whose event a DELETE has set
  word,         \* history: the last progress published under each request id
  profiles,     \* Profiles().for_name finds these
  verdict,      \* history: how each inner thread ended
  stops         \* DELETE requests that were answered

scanVars == <<outer, inner, of, into, rid, scanEvents, told, word, profiles, verdict, stops>>
vars == <<scanVars, known>>

ScanTypeOK ==
  /\ known \subseteq Device
  /\ outer \in [Scan -> {"none", "refused", "begun", "handler", "handed", "ended"}]
  /\ inner \in [Scan -> {"none", "begun", "look", "check", "request", "ending", "ended"}]
  /\ scanEvents \in [RequestId -> Scan \union {Nothing}]
  /\ verdict \in [Scan -> {"none", "stopped", "added", "failed"}]
  /\ profiles \subseteq Profile

Init ==
  /\ known = {}
  /\ outer = [a \in Scan |-> "none"] /\ inner = [a \in Scan |-> "none"]
  /\ of = [a \in Scan |-> Nothing] /\ into = [a \in Scan |-> Nothing]
  /\ rid = [a \in Scan |-> Nothing]
  /\ scanEvents = [i \in RequestId |-> Nothing]
  /\ told = {} /\ stops = {}
  /\ word = [i \in RequestId |-> Nothing]
  /\ profiles = {}
  /\ verdict = [a \in Scan |-> "none"]

Say(i, percent) == word' = [word EXCEPT ![i] = percent]
OuterGoes(a, step) == outer' = [outer EXCEPT ![a] = step]
InnerGoes(a, step) == inner' = [inner EXCEPT ![a] = step]

-----------------------------------------------------------------------------
(* POST /profilescan, and its thread. *)

\* The Device must be known and the profile must not; both may change right after.
Accept(a, d, p, i) ==
  /\ outer[a] = "none"
  /\ d \in known /\ p \notin profiles
  /\ OuterGoes(a, "begun")
  /\ of' = [of EXCEPT ![a] = d]
  /\ into' = [into EXCEPT ![a] = p]
  /\ rid' = [rid EXCEPT ![a] = i]
  /\ UNCHANGED <<inner, scanEvents, told, word, profiles, verdict, stops, known>>

Refuse(a, d, p) ==
  /\ outer[a] = "none"
  /\ d \notin known \/ p \in profiles
  /\ OuterGoes(a, "refused")
  /\ UNCHANGED <<inner, of, into, rid, scanEvents, told, word, profiles, verdict, stops, known>>

Begin(a) ==
  /\ outer[a] = "begun"
  /\ Say(rid[a], 0)
  /\ OuterGoes(a, "handler")
  /\ UNCHANGED <<inner, of, into, rid, scanEvents, told, profiles, verdict, stops, known>>

Handle(a) ==
  /\ outer[a] = "handler"
  /\ scanEvents' = [scanEvents EXCEPT ![rid[a]] = a]
  /\ OuterGoes(a, "handed")
  /\ InnerGoes(a, "begun")
  /\ UNCHANGED <<of, into, rid, told, word, profiles, verdict, stops, known>>

\* The handler has returned: this is taken for the end of the scan.
Complete(a) ==
  /\ outer[a] = "handed"
  /\ Say(rid[a], 100)
  /\ OuterGoes(a, "ended")
  /\ UNCHANGED <<inner, of, into, rid, scanEvents, told, profiles, verdict, stops, known>>

-----------------------------------------------------------------------------
(* The inner thread. *)

Judge(a, result) == verdict' = [verdict EXCEPT ![a] = result]

Start(a) ==
  /\ inner[a] = "begun"
  /\ IF a \in told THEN InnerGoes(a, "ending") /\ Judge(a, "stopped")
                   ELSE InnerGoes(a, "look") /\ UNCHANGED verdict
  /\ UNCHANGED <<outer, of, into, rid, scanEvents, told, word, profiles, stops, known>>

Fail(a) ==
  /\ InnerGoes(a, "ending")
  /\ Judge(a, "failed")
  /\ Say(rid[a], -1)

LookAtDevice(a) ==
  /\ inner[a] = "look"
  /\ IF of[a] \in known THEN InnerGoes(a, "check") /\ UNCHANGED <<verdict, word>> ELSE Fail(a)
  /\ UNCHANGED <<outer, of, into, rid, scanEvents, told, profiles, stops, known>>

\* Mutant: the profile is put into the cache whatever is there.
AddProfileOver(a) ==
  /\ inner[a] = "check"
  /\ profiles' = profiles \union {into[a]}
  /\ InnerGoes(a, "request")
  /\ UNCHANGED <<outer, of, into, rid, scanEvents, told, word, verdict, stops, known>>

\* add_device_profile: not twice into the cache ...
AddProfile(a) ==
  /\ inner[a] = "check"
  /\ IF into[a] \in profiles
     THEN Fail(a) /\ UNCHANGED profiles
     ELSE /\ profiles' = profiles \union {into[a]}
          /\ InnerGoes(a, "request")
          /\ UNCHANGED <<verdict, word>>
  /\ UNCHANGED <<outer, of, into, rid, scanEvents, told, stops, known>>

\* ... and back out of it when Core Metadata refuses.
Answer(a) ==
  /\ inner[a] = "request"
  /\ \/ /\ InnerGoes(a, "ending") /\ Judge(a, "added")
        /\ Say(rid[a], 100)
        /\ UNCHANGED profiles
     \/ Fail(a) /\ profiles' = profiles \ {into[a]}
  /\ UNCHANGED <<outer, of, into, rid, scanEvents, told, stops, known>>

Clean(a) ==
  /\ inner[a] = "ending"
  /\ scanEvents' = [scanEvents EXCEPT ![rid[a]] = Nothing]
  /\ InnerGoes(a, "ended")
  /\ UNCHANGED <<outer, of, into, rid, told, word, profiles, verdict, stops, known>>

-----------------------------------------------------------------------------
(* DELETE /profilescan/device/{name}. *)

\* A request id in the query names one scan, of whatever Device.
StopById(s, i) ==
  /\ s \notin stops /\ i # Blank /\ scanEvents[i] # Nothing
  /\ stops' = stops \union {s}
  /\ told' = told \union {scanEvents[i]}
  /\ scanEvents' = [scanEvents EXCEPT ![i] = Nothing]
  /\ Say(i, -1)
  /\ UNCHANGED <<outer, inner, of, into, rid, profiles, verdict, known>>

\* Without an id, or with one that names none, every scan of every Device is stopped.
StopEvery(s) ==
  /\ s \notin stops
  /\ stops' = stops \union {s}
  /\ told' = told \union {scanEvents[i] : i \in {j \in RequestId : scanEvents[j] # Nothing}}
  /\ word' = [i \in RequestId |-> IF scanEvents[i] # Nothing THEN -1 ELSE word[i]]
  /\ UNCHANGED <<outer, inner, of, into, rid, scanEvents, profiles, verdict, known>>

-----------------------------------------------------------------------------

\* A Device is added or removed by somebody else.
Other(d) ==
  /\ known' = (known \ {d}) \union ({d} \ known)
  /\ UNCHANGED scanVars

ScanStep(a) ==
  \/ Begin(a) \/ Handle(a) \/ Complete(a)
  \/ Start(a) \/ LookAtDevice(a) \/ AddProfile(a) \/ Answer(a) \/ Clean(a)

Next ==
  \/ \E d \in Device : Other(d)
  \/ \E a \in Scan : ScanStep(a)
  \/ \E a \in Scan, d \in Device, p \in Profile :
       Refuse(a, d, p) \/ \E i \in RequestId : Accept(a, d, p, i)
  \/ \E s \in StopScan : StopEvery(s) \/ \E i \in RequestId : StopById(s, i)

Spec == Init /\ [][Next]_vars

\* Threads run on, and Core Metadata answers or the client times out.
Fairness ==
  /\ \A a \in Scan :
       /\ WF_vars(Begin(a) \/ Handle(a) \/ Complete(a))
       /\ WF_vars(Start(a) \/ LookAtDevice(a) \/ AddProfile(a) \/ Answer(a) \/ Clean(a))

FairSpec == Spec /\ Fairness

-----------------------------------------------------------------------------
(* Properties. *)

\* One name, one profile: of the scans that were all let in because their profile did not
\* exist yet, one adds it, which stays, and no other is about to say that it did.
ScansAddOnce ==
  \A a, b \in Scan : verdict[a] = "added" =>
    /\ into[a] \in profiles
    /\ a # b /\ into[a] = into[b] => verdict[b] # "added" /\ inner[b] # "request"

\* A DELETE reaches every scan that has not looked yet, unless another scan took its id.
UnreachedForCause ==
  \A a \in Scan : inner[a] = "begun" /\ scanEvents[rid[a]] # a =>
    a \in told \/ \E b \in Scan \ {a} : rid[b] = rid[a] /\ inner[b] # "none"

\* Every scan that was accepted is judged in the end.
ScansAreJudged == \A a \in Scan : outer[a] = "begun" ~> verdict[a] # "none"

\* The last word of a scan is true: once both threads are done, a scan whose id is its own
\* and that was not stopped has said 100 last exactly when it added its profile.
LastWordIsTrue ==
  \A a \in Scan :
    outer[a] = "ended" /\ inner[a] = "ended" /\ told = {}
      /\ (\A b \in Scan \ {a} : rid[b] # rid[a])
      => (word[rid[a]] = 100 <=> verdict[a] = "added")
=============================================================================
