-------------------------- MODULE SelfRegistration --------------------------
(***************************************************************************)
(* The resources a service starts with: initialize_resources loads the     *)
(* files under res into the caches (internal/provision), and               *)
(* _register_resources_to_metadata gives them to Core Metadata: the        *)
(* service itself, then profiles, Devices and watchers, each looked up and *)
(* added on its own, whatever became of those before it.                   *)
(***************************************************************************)
EXTENDS Naturals, Sequences, SequencesExt

CONSTANTS
  Service,      \* the service's own entry
  Profile, Device, Watcher,
  ProfileOf     \* the profile of each Device and watcher

Resource == Profile \union Device \union Watcher
Entry    == {Service} \union Resource

\* Names are by kind; every Device and watcher names a profile, loaded or not.
ASSUME RegistrationAssumption ==
  /\ IsFiniteSet(Resource)
  /\ Service \notin Resource /\ Profile \intersect (Device \union Watcher) = {}
  /\ ProfileOf \in [Device \union Watcher -> Profile]

\* External: Core Metadata takes a Device or a watcher only with its service and its profile.
Needs(e) == IF e \in Device \union Watcher THEN {Service, ProfileOf[e]} ELSE {}

VARIABLES
  cached,       \* what the three caches hold
  todo,         \* what is left to register
  step,         \* where the thread that starts the service is
  remote,       \* what Core Metadata holds
  excused       \* history: entries with a request that failed, that Core Metadata refused
                \* for a reason of their own, or that another service removed

registrationVars == <<cached, todo, step, remote, excused>>

RegistrationTypeOK ==
  /\ cached \subseteq Resource /\ todo \in Seq(Entry)
  /\ step \in {"load", "lookup", "add", "done"}
  /\ remote \subseteq Entry /\ excused \subseteq Entry

\* A first start, or a restart: Core Metadata keeps what it had.
RegistrationInit ==
  /\ cached = {} /\ todo = <<>> /\ step = "load"
  /\ remote \in {S \in SUBSET Entry : \A e \in S : Needs(e) \subseteq S}
  /\ excused = {}

\* Mutant: Devices are registered before the profiles they use.
OrderDevicesFirst(loaded) ==
  <<Service>> \o SetToSeq(Device \intersect loaded)
              \o SetToSeq(Profile \intersect loaded) \o SetToSeq(Watcher \intersect loaded)

Order(loaded) ==
  <<Service>> \o SetToSeq(Profile \intersect loaded)
              \o SetToSeq(Device \intersect loaded) \o SetToSeq(Watcher \intersect loaded)

\* A file that cannot be parsed is skipped; what was cached already stays as it is.
Load(loaded) ==
  /\ step = "load"
  /\ cached' = cached \union loaded
  /\ todo' = Order(loaded)
  /\ step' = "lookup"
  /\ UNCHANGED <<remote, excused>>

NextEntry ==
  /\ todo' = Tail(todo)
  /\ step' = IF Len(todo) = 1 THEN "done" ELSE "lookup"

\* What Core Metadata has is left alone, but the service's own entry is written again.
Lookup ==
  /\ step = "lookup"
  /\ LET e == Head(todo) IN
       \/ IF e \in remote /\ e # Service
          THEN NextEntry /\ UNCHANGED excused
          ELSE step' = "add" /\ UNCHANGED <<todo, excused>>
       \/ NextEntry /\ excused' = excused \union {e}
  /\ UNCHANGED <<cached, remote>>

\* Taken; or refused, for a need that is not there or a reason of its own, with an error
\* or inside a 2xx answer that the client takes for success (MetadataClient._not_ok_raise);
\* or the request or its answer is lost.
Add ==
  /\ step = "add"
  /\ LET e == Head(todo)
         taken == IF Needs(e) \subseteq remote THEN remote \union {e} ELSE remote
     IN \/ remote' = taken /\ UNCHANGED excused
        \/ remote' \in {remote, taken} /\ excused' = excused \union {e}
  /\ NextEntry
  /\ UNCHANGED cached

\* External: another service adds an entry of the same name.
Other(e) ==
  /\ e \notin remote /\ e # Service /\ Needs(e) \subseteq remote
  /\ remote' = remote \union {e}
  /\ UNCHANGED <<cached, todo, step, excused>>

\* External: another service removes an entry that no other needs.
Withdraw(e) ==
  /\ e \in remote /\ \A x \in remote : e \notin Needs(x)
  /\ remote' = remote \ {e}
  /\ excused' = excused \union {e}
  /\ UNCHANGED <<cached, todo, step>>

Start == Lookup \/ Add \/ \E loaded \in SUBSET Resource : Load(loaded)

RegistrationNext == Start \/ \E e \in Entry : Other(e) \/ Withdraw(e)

-----------------------------------------------------------------------------
(* Properties. *)

\* Once the service has started, a resource it serves from its cache is missing at Core
\* Metadata only when it, its profile or the service was refused for a reason of its own -
\* which the client may take for success -, had a request that failed or was removed by
\* another service, or when the file of its profile was not loaded: never by the order in
\* which the service registers what it loaded.
ServedIsRegistered ==
  step = "done" =>
    \A e \in cached \ remote :
      excused \intersect ({e} \union Needs(e)) # {} \/ Needs(e) \ ({Service} \union cached) # {}
=============================================================================
