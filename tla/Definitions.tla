----------------------------- MODULE Definitions -----------------------------
(***************************************************************************)
(* DeviceProfiles and ProvisionWatchers: the caches, the public methods    *)
(* that write them back to Core Metadata cache-first, and the thread that  *)
(* follows Core Metadata's system events about them.  Unlike the Device    *)
(* handlers these handlers touch nothing but the cache.                    *)
(* A request that Core Metadata carries out although its client has given  *)
(* it up is, for this service, a refusal and an edit by somebody else.     *)
(***************************************************************************)
EXTENDS ProfileMaps, Sequences

CONSTANTS
  Watcher, Caller,
  Field,        \* the fields of a watcher
  OnAdd,        \* those _on_watcher_added takes from an event
  OnUpdate,     \* those whose name on the wire is the attribute's, as _on_watcher_updated needs
  Default,      \* the edition of a field nobody has set
  Instanced,    \* does the service's name carry an instance suffix?
  Room,         \* the size of each topic's queue
  Calls, Edits  \* bounds: calls of the SDK's methods, edits of others

ASSUME DefinitionAssumption ==
  /\ Profile \intersect Watcher = {}
  /\ OnAdd \subseteq Field /\ OnUpdate \subseteq Field
  /\ Default \in Edition
  /\ None \notin [Field -> Edition]
  /\ Instanced \in BOOLEAN
  /\ Room \in Nat \ {0} /\ Calls \in Nat /\ Edits \in Nat

Item == Profile \union Watcher
Fields == [Field -> Edition]
Topic == {"main", "deleted"} \union (IF Instanced THEN {"base"} ELSE {})

VARIABLES
  profiles,     \* the profile cache
  watchers,     \* the watcher cache
  held,         \* Core Metadata: an edition per profile, fields per watcher
  call,         \* the call each caller is in
  queue,        \* events received, per topic
  turn,         \* the topic the events thread looks at next
  parted,       \* history: items whose cache may differ, because steps crossed or an event was lost
  unheard,      \* history: items a change of which was refused inside a 207 that passed for success
  rawly,        \* history: profiles that an event has updated
  ended,        \* history: items that Core Metadata has deleted at some time
  calls, edits

vars ==
  <<profiles, watchers, held, call, queue, turn, parted, unheard, rawly, ended, calls, edits>>

NoCall == [op |-> "none", item |-> None, says |-> None, step |-> "idle", was |-> None,
           error |-> "nothing"]

Calling(i) == \E c \in Caller : call[c].item = i /\ call[c].step # "idle"

Waiting(i) == \E t \in Topic : \E n \in DOMAIN queue[t] : queue[t][n].name = i

DefinitionsTypeOK ==
  /\ profiles \in Maps
  /\ watchers \in [Watcher -> Fields \union {None}]
  /\ \A p \in Profile : held[p] \in Edition \union {None}
  /\ \A w \in Watcher : held[w] \in Fields \union {None}
  /\ \A c \in Caller : call[c].step \in {"idle", "clone", "write", "sent"}
  /\ \A t \in Topic : Len(queue[t]) <= Room
  /\ turn \in Topic
  /\ parted \subseteq Item /\ unheard \subseteq Item /\ rawly \subseteq Profile /\ ended \subseteq Item

Init ==
  /\ \E at \in {{}, Profile} :
       /\ profiles = Provisioned([p \in at |-> Default])
       /\ held = [i \in Item |-> IF i \in at THEN Default ELSE None]
  /\ watchers = [w \in Watcher |-> None]
  /\ call = [c \in Caller |-> NoCall]
  /\ queue = [t \in Topic |-> <<>>]
  /\ turn = "main"
  /\ parted = {} /\ unheard = {} /\ rawly = {} /\ ended = {}
  /\ calls = 0 /\ edits = 0

IsCached(i) == IF i \in Profile THEN Cached(profiles, i) ELSE watchers[i] # None

\* What for_name clones.
Clone(i) == IF i \in Profile THEN profiles.all[i] ELSE watchers[i]

\* What may be said of an item: a profile as a model, or a watcher's fields.
Statement(i) ==
  IF i \in Profile THEN [edition : Edition, raw : {FALSE}, bare : {FALSE}] ELSE Fields

\* What an event may say of one: its profile is never a model.
Announcement(i) ==
  IF i \in Profile THEN [edition : Edition, raw : {TRUE}, bare : BOOLEAN] ELSE Fields

-----------------------------------------------------------------------------
(* Events. *)

\* A service without an instance suffix gets its watchers' events on the main topic.
TopicOf(e) ==
  CASE e.type = "deviceprofile" /\ e.action = "delete" -> "deleted"
    [] e.type = "provisionwatcher" /\ Instanced        -> "base"
    [] OTHER                                           -> "main"

\* Core Metadata publishes to a queue that drops what it has no room for.
Publish(e) ==
  LET t == TopicOf(e) IN
    IF Len(queue[t]) < Room
    THEN queue' = [queue EXCEPT ![t] = Append(@, e)]
    ELSE UNCHANGED queue

Lost(e) == Len(queue[TopicOf(e)]) >= Room

EventOf(i, action, says) ==
  [type   |-> IF i \in Profile THEN "deviceprofile" ELSE "provisionwatcher",
   action |-> action,
   name   |-> i,
   says   |-> says,
   owner  |-> IF i \in Profile /\ action = "delete" THEN "core-metadata"
              ELSE IF i \in Watcher /\ Instanced THEN "base" ELSE "service"]

\* Someone else changes a definition in Core Metadata.
Edit(i, action, says) ==
  /\ edits < Edits
  /\ edits' = edits + 1
  /\ IF action = "add" THEN held[i] = None ELSE held[i] # None
  /\ held' = [held EXCEPT ![i] = IF action = "delete" THEN None
                                 ELSE IF i \in Profile THEN says.edition ELSE says]
  /\ LET e == EventOf(i, action, says) IN
       /\ Publish(e)
       /\ parted' = IF Lost(e) \/ Calling(i) THEN parted \union {i} ELSE parted
  /\ ended' = IF action = "delete" THEN ended \union {i} ELSE ended
  /\ UNCHANGED <<profiles, watchers, call, turn, unheard, rawly, calls>>

\* Another service announces the end of a profile it does not own.
ForeignDelete(p) ==
  /\ edits < Edits
  /\ edits' = edits + 1
  /\ Publish([EventOf(p, "delete", None) EXCEPT !.owner = "other"])
  /\ UNCHANGED <<profiles, watchers, held, call, turn, parted, unheard, rawly, ended, calls>>

\* Mutant: nobody looks at the owner.
AcceptedOfAnyone(e) == TRUE

\* The loop's owner check, and the profile handler's own for deletes.
Accepted(e) ==
  /\ IF e.owner = "core-metadata"
     THEN e.type = "deviceprofile" \/ e.action = "delete"
     ELSE e.owner \in {"service", "base"}
  /\ e.type = "deviceprofile" /\ e.action = "delete" => e.owner = "core-metadata"

\* An update replaces, an add says nothing to a service, a delete asks nobody who uses it.
OnProfile(e) ==
  CASE e.action = "update" -> Updated(profiles, e.name, e.says).maps
    [] e.action = "delete" -> Removed(profiles, e.name).maps
    [] OTHER               -> profiles

\* Mutant: the handler sets the fields of the clone and forgets to put it back.
OnWatcherForgotten(e) ==
  CASE e.action = "add" /\ watchers[e.name] = None ->
         [f \in Field |-> IF f \in OnAdd THEN e.says[f] ELSE Default]
    [] e.action = "delete" -> None
    [] OTHER               -> watchers[e.name]

\* An update sets the fields that it finds by name on a clone, and puts that back.
OnWatcher(e) ==
  CASE e.action = "add" /\ watchers[e.name] = None ->
         [f \in Field |-> IF f \in OnAdd THEN e.says[f] ELSE Default]
    [] e.action = "update" /\ watchers[e.name] # None ->
         [f \in Field |-> IF f \in OnUpdate THEN e.says[f] ELSE watchers[e.name][f]]
    [] e.action = "delete" -> None
    [] OTHER               -> watchers[e.name]

\* Whatever a handler raises is logged, and the cache stays as the handler left it.
Handle(e) ==
  /\ profiles' = IF Accepted(e) /\ e.type = "deviceprofile" THEN OnProfile(e) ELSE profiles
  /\ watchers' = IF Accepted(e) /\ e.type = "provisionwatcher"
                 THEN [watchers EXCEPT ![e.name] = OnWatcher(e)] ELSE watchers
  /\ rawly' = IF e.type = "deviceprofile" /\ e.action = "update"
              THEN rawly \union {e.name} ELSE rawly
  /\ parted' = IF Calling(e.name) THEN parted \union {e.name} ELSE parted

After(t) == CASE t = "main" -> "deleted"
              [] t = "deleted" /\ Instanced -> "base"
              [] OTHER -> "main"

\* One turn of the loop over the topics: a topic without an event costs its timeout.
Look ==
  /\ turn' = After(turn)
  /\ IF queue[turn] = <<>>
     THEN UNCHANGED <<profiles, watchers, rawly, parted, queue>>
     ELSE /\ Handle(Head(queue[turn]))
          /\ queue' = [queue EXCEPT ![turn] = Tail(@)]
  /\ UNCHANGED <<held, call, unheard, ended, calls, edits>>

-----------------------------------------------------------------------------
(* The public methods. *)

End(c, error) ==
  call' = [call EXCEPT ![c] = [NoCall EXCEPT !.error = error, !.item = call[c].item]]

\* The existence check; an add that finds the item, and any other that does not, is refused.
Begin(c, i, op, says) ==
  /\ call[c].step = "idle" /\ calls < Calls
  /\ calls' = calls + 1
  /\ IF IsCached(i) = (op = "add")
     THEN /\ call' = [call EXCEPT ![c] = [NoCall EXCEPT !.item = i, !.error = "EdgexError"]]
          /\ UNCHANGED parted
     ELSE /\ call' = [call EXCEPT ![c] = [op |-> op, item |-> i, says |-> says,
                                          step |-> IF op = "add" THEN "write" ELSE "clone",
                                          was |-> None, error |-> "nothing"]]
          /\ parted' = IF Calling(i) \/ Waiting(i) THEN parted \union {i} ELSE parted
  /\ UNCHANGED <<profiles, watchers, held, queue, turn, unheard, rawly, ended, edits>>

\* for_name, under a lock that is released: an update or a removal of what has gone
\* meanwhile ends here, in silence.
Snapshot(c) ==
  LET k == call[c] IN
  /\ k.step = "clone"
  /\ IF IsCached(k.item)
     THEN call' = [call EXCEPT ![c].step = "write", ![c].was = Clone(k.item)]
     ELSE End(c, "nothing")
  /\ UNCHANGED <<profiles, watchers, held, queue, turn, parted, unheard, rawly, ended, calls, edits>>

\* What the write to the cache returns and raises.
ProfileWritten(op, p, says) ==
  CASE op = "add"    -> Added(profiles, p, says)
    [] op = "update" -> Updated(profiles, p, says)
    [] op = "remove" -> Removed(profiles, p)

WatcherWritten(op, w, says) ==
  CASE op = "add"    -> says
    [] op = "update" -> says
    [] op = "remove" -> None

WatcherRaises(op, w) == IsCached(w) = (op = "add")

\* Put a profile into the cache by one of its methods, or report what that raises.
WriteProfile(op, p, says) == profiles' = ProfileWritten(op, p, says).maps /\ UNCHANGED watchers

WriteWatcher(op, w, says) ==
  /\ watchers' = IF WatcherRaises(op, w) THEN watchers
                 ELSE [watchers EXCEPT ![w] = WatcherWritten(op, w, says)]
  /\ UNCHANGED profiles

WriteItem(op, i, says) ==
  IF i \in Profile THEN WriteProfile(op, i, says) ELSE WriteWatcher(op, i, says)

RaisedBy(op, i, says) ==
  IF i \in Profile THEN ProfileWritten(op, i, says).raised
  ELSE IF WatcherRaises(op, i) THEN "CacheError" ELSE "nothing"

\* The write to the cache, under its lock again.
Write(c) ==
  LET k == call[c] IN
  /\ k.step = "write"
  /\ WriteItem(k.op, k.item, k.says)
  /\ IF RaisedBy(k.op, k.item, k.says) = "nothing"
     THEN call' = [call EXCEPT ![c].step = "sent"]
     ELSE End(c, RaisedBy(k.op, k.item, k.says))
  /\ UNCHANGED <<held, queue, turn, parted, unheard, rawly, ended, calls, edits>>

\* Core Metadata: the watcher's request leaves out the fields that are empty.
Effect(k) ==
  IF k.op = "remove" THEN None
  ELSE IF k.item \in Profile THEN k.says.edition
  ELSE IF k.op = "add" THEN k.says
  ELSE [f \in Field |-> IF k.says[f] = Default THEN held[k.item][f] ELSE k.says[f]]

ActionOf(op) == CASE op = "add" -> "add" [] op = "update" -> "update" [] op = "remove" -> "delete"

SaysOf(k) ==
  IF k.op = "remove" THEN None
  ELSE IF k.item \in Profile THEN [k.says EXCEPT !.raw = TRUE] ELSE Effect(k)

\* Core Metadata accepts, and tells the service about it like everyone.
Accept(c) ==
  LET k == call[c] IN
  /\ k.step = "sent"
  /\ IF k.op = "add" THEN held[k.item] = None ELSE held[k.item] # None
  /\ held' = [held EXCEPT ![k.item] = Effect(k)]
  /\ LET e == EventOf(k.item, ActionOf(k.op), SaysOf(k)) IN
       /\ Publish(e)
       /\ parted' = IF Lost(e) THEN parted \union {k.item} ELSE parted
  /\ ended' = IF k.op = "remove" THEN ended \union {k.item} ELSE ended
  /\ End(c, "nothing")
  /\ UNCHANGED <<profiles, watchers, turn, unheard, rawly, calls, edits>>

\* Core Metadata answers a batch with 207 and refuses the item inside; the client takes
\* any 2xx for success.  A delete is no batch.
RefusedInside(c) ==
  LET k == call[c] IN
  /\ k.step = "sent" /\ k.op # "remove"
  /\ unheard' = unheard \union {k.item}
  /\ End(c, "nothing")
  /\ UNCHANGED <<profiles, watchers, held, queue, turn, parted, rawly, ended, calls, edits>>

\* Mutant: an update is undone with add, which finds the entry still there.
UndoneByAdding(op) == IF op = "add" THEN "remove" ELSE "add"

\* The rollback of each write.
Undone(op) == CASE op = "add" -> "remove" [] op = "update" -> "update" [] op = "remove" -> "add"

\* Core Metadata refuses: the write to the cache is undone from the snapshot, and the
\* rollback may raise an error of its own.
Refuse(c) ==
  LET k == call[c] IN
  /\ k.step = "sent"
  /\ WriteItem(Undone(k.op), k.item, k.was)
  /\ End(c, IF RaisedBy(Undone(k.op), k.item, k.was) = "nothing" THEN "EdgexError"
            ELSE RaisedBy(Undone(k.op), k.item, k.was))
  /\ UNCHANGED <<held, queue, turn, parted, unheard, rawly, ended, calls, edits>>

Call(c) == Snapshot(c) \/ Write(c) \/ Accept(c) \/ RefusedInside(c) \/ Refuse(c)

Next ==
  \/ \E c \in Caller :
       \/ Call(c)
       \/ \E i \in Item, op \in {"add", "update", "remove"} :
            \E says \in Statement(i) : Begin(c, i, op, says)
  \/ Look
  \/ \E i \in Item, action \in {"add", "update", "delete"} :
       \E says \in Announcement(i) : Edit(i, action, says)
  \/ \E p \in Profile : ForeignDelete(p)

Spec == Init /\ [][Next]_vars

FairSpec == Spec /\ WF_vars(Look) /\ \A c \in Caller : WF_vars(Call(c))

-----------------------------------------------------------------------------
(* Properties. *)

\* The commands never resolve a resource of a profile that has gone or changed: the
\* derived maps of the profile cache speak of the profile itself, or not at all.
LookupsAgree == Coherent(profiles)

\* An error other than the documented EdgexError reaches a caller only where steps on the
\* item crossed, or where an update event left half a profile; one kind takes both.
SurprisesAreExplained ==
  \A c \in Caller :
    /\ call[c].error = "CacheError" => call[c].item \in parted
    /\ call[c].error = "KeyError" => call[c].item \in rawly
    /\ call[c].error = "AttributeError" => call[c].item \in parted \intersect rawly

\* The items of which the cache and Core Metadata may differ.
Apart == parted \union unheard

Quiet(i) == i \notin Apart /\ ~ Calling(i) /\ ~ Waiting(i)

\* Cached profiles are Core Metadata's; those others add are never cached.
ProfilesFollow ==
  \A p \in Profile :
    Quiet(p) /\ Cached(profiles, p) => held[p] = profiles.all[p].edition

\* The fields of a watcher that both handlers understand are Core Metadata's, even where
\* a call meant to empty one and its request did not say so.
WatchersFollow ==
  \A w \in Watcher :
    Quiet(w) => /\ watchers[w] = None <=> held[w] = None
                /\ held[w] # None =>
                     \A f \in OnAdd \intersect OnUpdate : watchers[w][f] = held[w][f]

\* Once the events about an item are handled, its cache entry says what Core Metadata
\* says, whatever Core Metadata refused as a whole, unless steps on it crossed, an event
\* was lost, or a refusal inside a 207 passed for success.
CachesFollow == ProfilesFollow /\ WatchersFollow

\* As the docstring of update_device_profile has it ("The cache copy is not updated here"):
\* while Core Metadata is asked, the cached profile is the one the call found.
UpdateLeavesCopy ==
  \A c \in Caller :
    /\ call[c].op = "update" /\ call[c].step = "sent"
    /\ call[c].item \in Profile \ parted
    => Clone(call[c].item) = call[c].was

\* A profile leaves the cache only in a call of this service, after Core Metadata has
\* deleted it, or broken by an update event; never on the word of another service.
LostForCause ==
  [][\A p \in Profile :
       Cached(profiles, p) /\ ~ Cached(profiles', p)
         => Calling(p) \/ p \in ended \/ p \in rawly]_vars

=============================================================================
