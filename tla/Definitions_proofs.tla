-------------------------- MODULE Definitions_proofs --------------------------
(***************************************************************************)
(* Proofs about the caches of profiles and watchers.  Carried: no sequence *)
(* of their methods, of events and of rollbacks, half done as they may be, *)
(* lets a lookup answer for a profile that has gone or changed.  WholeInv: *)
(* half a profile comes of an update event and of nothing else, and what   *)
(* is deleted has been deleted.  PlaceInv: a call finds the cache entry    *)
(* where it left it.  FollowInv: the events about an item are a chain from *)
(* what is cached to what Core Metadata holds.                             *)
(***************************************************************************)
EXTENDS Definitions, TLAPS

\* Adding a profile keeps the maps coherent, also where it stops half way.
LEMMA AddedCoherent ==
  ASSUME NEW m \in Maps, Coherent(m), NEW p \in Profile, NEW content \in Content
  PROVE  Added(m, p, content).maps \in Maps /\ Coherent(Added(m, p, content).maps)
<1>1. content.edition \in Edition /\ content # None
  BY ProfileAssumption DEF Content
<1>2. CASE Cached(m, p)
  BY <1>2 DEF Added, Raised
<1>3. CASE ~ Cached(m, p) /\ Derivable(content)
  <2>1. Added(m, p, content).maps = Put(m, p, content)
    BY <1>3 DEF Added, Returned
  <2>2. Put(m, p, content) \in Maps
    BY <1>1 DEF Put, Maps
  <2>3. Coherent(Put(m, p, content))
    BY <1>1 DEF Put, Maps, Coherent, Cached
  <2> QED BY <2>1, <2>2, <2>3
<1>4. CASE ~ Cached(m, p) /\ ~ Derivable(content)
  <2>1. Added(m, p, content).maps = Half(m, p, content)
    BY <1>4 DEF Added, Raised
  <2>2. Half(m, p, content) \in Maps
    BY DEF Half, Maps
  <2>3. Coherent(Half(m, p, content))
    BY <1>1, <1>4 DEF Half, Maps, Coherent, Cached
  <2> QED BY <2>1, <2>2, <2>3
<1> QED BY <1>2, <1>3, <1>4

\* Removing a profile keeps the maps coherent, also where a del raises KeyError.
LEMMA RemovedCoherent ==
  ASSUME NEW m \in Maps, Coherent(m), NEW p \in Profile
  PROVE  Removed(m, p).maps \in Maps /\ Coherent(Removed(m, p).maps)
<1>1. CASE ~ Cached(m, p)
  BY <1>1 DEF Removed, Raised
<1>2. CASE Cached(m, p) /\ m.resources[p] = None
  <2>1. Removed(m, p).maps = Half(m, p, None)
    BY <1>2 DEF Removed, Raised
  <2>2. Half(m, p, None) \in Maps
    BY DEF Half, Maps
  <2>3. Coherent(Half(m, p, None))
    BY <1>2 DEF Half, Maps, Coherent, Cached
  <2> QED BY <2>1, <2>2, <2>3
<1>3. CASE Cached(m, p) /\ m.resources[p] # None
  <2>1. Removed(m, p).maps = Without(m, p)
    BY <1>3 DEF Removed, Returned
  <2>2. Without(m, p) \in Maps
    BY DEF Without, Maps
  <2>3. Coherent(Without(m, p))
    BY <1>3 DEF Without, Maps, Coherent, Cached
  <2> QED BY <2>1, <2>2, <2>3
<1> QED BY <1>1, <1>2, <1>3

\* Replacing a profile keeps the maps coherent, whichever of its halves raises.
LEMMA UpdatedCoherent ==
  ASSUME NEW m \in Maps, Coherent(m), NEW p \in Profile, NEW content \in Content
  PROVE  Updated(m, p, content).maps \in Maps /\ Coherent(Updated(m, p, content).maps)
<1>1. Removed(m, p).maps \in Maps /\ Coherent(Removed(m, p).maps)
  BY RemovedCoherent
<1>2. Added(Removed(m, p).maps, p, content).maps \in Maps
      /\ Coherent(Added(Removed(m, p).maps, p, content).maps)
  BY <1>1, AddedCoherent
<1> QED BY <1>1, <1>2 DEF Updated

-----------------------------------------------------------------------------

Says == Content \union Fields \union {None}

SaidOf(i) == IF i \in Profile THEN Content ELSE Fields

EventRecord ==
  [type : {"deviceprofile", "provisionwatcher"}, action : {"add", "update", "delete"},
   name : Item, says : Says, owner : {"core-metadata", "base", "service", "other"}]

\* An event names an item of its type, and one that adds or updates brings its content.
WellSaid(e) ==
  /\ e.type = "deviceprofile" <=> e.name \in Profile
  /\ e.action # "delete" => e.says \in SaidOf(e.name)

Event == {e \in EventRecord : WellSaid(e)}

CallRecord ==
  [op : {"none", "add", "update", "remove"}, item : Item \union {None}, says : Says,
   step : {"idle", "clone", "write", "sent"}, was : Says,
   error : {"nothing", "EdgexError", "CacheError", "AttributeError", "KeyError"}]

\* A call carries the item to write, and the snapshot to put back.
WellCalled(k) ==
  k.step # "idle" =>
    /\ k.op # "none"
    /\ k.item \in Item
    /\ k.says \in SaidOf(k.item)
    /\ k.step = "clone" => k.op # "add"
    /\ k.step # "clone" /\ k.op # "add" => k.was \in SaidOf(k.item)

CachesTyped ==
  /\ profiles \in Maps
  /\ Coherent(profiles)
  /\ watchers \in [Watcher -> Fields \union {None}]

HeldTyped ==
  /\ held \in [Item -> Edition \union Fields \union {None}]
  /\ \A w \in Watcher : held[w] \in Fields \union {None}

CallsTyped == call \in [Caller -> CallRecord] /\ \A c \in Caller : WellCalled(call[c])

QueueTyped == queue \in [Topic -> Seq(Event)] /\ turn \in Topic

\* The inductive invariant: coherent maps, and only whole definitions on their way to them.
Carried == CachesTyped /\ HeldTyped /\ CallsTyped /\ QueueTyped

LEMMA InitCarried == Init => Carried
<1> SUFFICES ASSUME Init PROVE Carried
  OBVIOUS
<1>1. PICK at \in {{}, Profile} :
        /\ profiles = Provisioned([p \in at |-> Default])
        /\ held = [i \in Item |-> IF i \in at THEN Default ELSE None]
  BY DEF Init
<1>2. Default \in Edition
  BY DefinitionAssumption
<1>3. profiles \in Maps
  BY <1>1, <1>2 DEF Provisioned, Maps, Content
<1>4. Coherent(profiles)
  <2>1. [edition |-> Default, raw |-> FALSE, bare |-> FALSE] \in Content
    BY <1>2 DEF Content
  <2>2. [edition |-> Default, raw |-> FALSE, bare |-> FALSE] # None
    BY <2>1, ProfileAssumption
  <2> QED BY <1>1, <1>2, <2>2, ProfileAssumption DEF Provisioned, Coherent, Cached
<1>5. CachesTyped
  BY <1>3, <1>4 DEF CachesTyped, Init
<1>6. HeldTyped
  BY <1>1, <1>2, DefinitionAssumption DEF HeldTyped, Item
<1>7. CallsTyped
  BY DEF Init, CallsTyped, NoCall, CallRecord, WellCalled, Says
<1>8. QueueTyped
  BY DEF Init, QueueTyped, Topic
<1> QED BY <1>5, <1>6, <1>7, <1>8 DEF Carried

\* A write to either cache, the first or the one that undoes it.
LEMMA WriteItemTyped ==
  ASSUME CachesTyped, NEW op \in {"add", "update", "remove"}, NEW i \in Item, NEW says,
         op # "remove" => says \in SaidOf(i),
         WriteItem(op, i, says)
  PROVE  CachesTyped'
<1>1. CASE i \in Profile
  <2>1. profiles' = ProfileWritten(op, i, says).maps /\ watchers' = watchers
    BY <1>1 DEF WriteItem, WriteProfile
  <2>2. op # "remove" => says \in Content
    BY <1>1 DEF SaidOf
  <2>3. CASE op = "add"
    BY <1>1, <2>1, <2>2, <2>3, AddedCoherent DEF CachesTyped, ProfileWritten
  <2>4. CASE op = "update"
    BY <1>1, <2>1, <2>2, <2>4, UpdatedCoherent DEF CachesTyped, ProfileWritten
  <2>5. CASE op = "remove"
    BY <1>1, <2>1, <2>5, RemovedCoherent DEF CachesTyped, ProfileWritten
  <2> QED BY <2>3, <2>4, <2>5
<1>2. CASE i \notin Profile
  <2>1. i \in Watcher /\ WatcherWritten(op, i, says) \in Fields \union {None}
    BY <1>2 DEF Item, SaidOf, WatcherWritten
  <2>2. profiles' = profiles
    BY <1>2 DEF WriteItem, WriteWatcher
  <2>3. watchers' \in [Watcher -> Fields \union {None}]
    BY <1>2, <2>1 DEF WriteItem, WriteWatcher, CachesTyped
  <2> QED BY <2>2, <2>3 DEF CachesTyped
<1> QED BY <1>1, <1>2

\* An event that Core Metadata publishes finds a queue of the service.
LEMMA PublishTyped ==
  ASSUME QueueTyped, NEW e \in Event, Publish(e), turn' = turn
  PROVE  QueueTyped'
<1>1. TopicOf(e) \in Topic
  BY DEF TopicOf, Topic
<1>2. Append(queue[TopicOf(e)], e) \in Seq(Event)
  BY <1>1 DEF QueueTyped
<1> QED BY <1>1, <1>2 DEF QueueTyped, Publish

\* The handlers write what an event brings, or nothing.
LEMMA HandleTyped ==
  ASSUME CachesTyped, NEW e \in Event, Handle(e)
  PROVE  CachesTyped'
<1>1. e.name \in Item /\ e.action \in {"add", "update", "delete"} /\ WellSaid(e)
  BY DEF Event, EventRecord
<1>2. ASSUME e.type = "deviceprofile"
      PROVE  OnProfile(e) \in Maps /\ Coherent(OnProfile(e))
  <2>1. e.name \in Profile /\ (e.action = "update" => e.says \in Content)
    BY <1>1, <1>2 DEF WellSaid, SaidOf
  <2>2. CASE e.action = "update"
    BY <2>1, <2>2, UpdatedCoherent DEF OnProfile, CachesTyped
  <2>3. CASE e.action = "delete"
    BY <2>1, <2>3, RemovedCoherent DEF OnProfile, CachesTyped
  <2>4. CASE e.action = "add"
    BY <2>4 DEF OnProfile, CachesTyped
  <2> QED BY <1>1, <2>2, <2>3, <2>4
<1>3. profiles' \in Maps /\ Coherent(profiles')
  BY <1>2 DEF Handle, CachesTyped
<1>4. ASSUME e.type = "provisionwatcher"
      PROVE  OnWatcher(e) \in Fields \union {None}
  <2>1. e.name \in Watcher /\ (e.action # "delete" => e.says \in Fields)
    BY <1>1, <1>4 DEF WellSaid, SaidOf, Item
  <2>2. Default \in Edition
    BY DefinitionAssumption
  <2>3. watchers[e.name] \in Fields \union {None}
    BY <2>1 DEF CachesTyped
  <2> DEFINE taken == [f \in Field |-> IF f \in OnAdd THEN e.says[f] ELSE Default]
             set == [f \in Field |-> IF f \in OnUpdate THEN e.says[f] ELSE watchers[e.name][f]]
  <2>4. e.action # "delete" => taken \in Fields
    BY <2>1, <2>2 DEF Fields
  <2>5. e.action # "delete" /\ watchers[e.name] # None => set \in Fields
    BY <2>1, <2>3 DEF Fields
  <2>6. CASE e.action = "add" /\ watchers[e.name] = None
    BY <2>4, <2>6 DEF OnWatcher
  <2>7. CASE e.action = "update" /\ watchers[e.name] # None
    BY <2>5, <2>7 DEF OnWatcher
  <2>8. CASE e.action = "delete"
    BY <2>8 DEF OnWatcher
  <2>9. CASE \/ e.action = "add" /\ watchers[e.name] # None
             \/ e.action = "update" /\ watchers[e.name] = None
    BY <2>3, <2>9 DEF OnWatcher
  <2> QED BY <1>1, <2>6, <2>7, <2>8, <2>9
<1>5. watchers' \in [Watcher -> Fields \union {None}]
  BY <1>1, <1>4 DEF Handle, CachesTyped
<1>6. Coherent(profiles)'
  BY <1>3 DEF Coherent, Cached
<1> QED BY <1>3, <1>5, <1>6 DEF CachesTyped

-----------------------------------------------------------------------------

LEMMA BeginCarried ==
  ASSUME Carried, NEW c \in Caller, NEW i \in Item, NEW op \in {"add", "update", "remove"},
         NEW says \in Statement(i), Begin(c, i, op, says)
  PROVE  Carried'
<1>1. CachesTyped' /\ HeldTyped' /\ QueueTyped'
  BY DEF Begin, Carried, CachesTyped, HeldTyped, QueueTyped, Coherent, Cached
<1>2. says \in SaidOf(i) /\ says \in Says
  BY DEF Statement, SaidOf, Says, Content
<1>3. call \in [Caller -> CallRecord] /\ \A x \in Caller : WellCalled(call[x])
  BY DEF Carried, CallsTyped
<1>4. CASE IsCached(i) = (op = "add")
  <2>1. call' = [call EXCEPT ![c] = [NoCall EXCEPT !.item = i, !.error = "EdgexError"]]
    BY <1>4 DEF Begin
  <2>2. [NoCall EXCEPT !.item = i, !.error = "EdgexError"] \in CallRecord
    BY DEF NoCall, CallRecord, Says
  <2>3. WellCalled([NoCall EXCEPT !.item = i, !.error = "EdgexError"])
    BY DEF NoCall, WellCalled
  <2> QED BY <1>1, <1>3, <2>1, <2>2, <2>3 DEF Carried, CallsTyped
<1>5. CASE IsCached(i) # (op = "add")
  <2> DEFINE k == [op |-> op, item |-> i, says |-> says,
                   step |-> IF op = "add" THEN "write" ELSE "clone", was |-> None,
                   error |-> "nothing"]
  <2>1. call' = [call EXCEPT ![c] = k]
    BY <1>5 DEF Begin
  <2>2. k \in CallRecord /\ WellCalled(k)
    BY <1>2 DEF CallRecord, WellCalled, Says
  <2> QED BY <1>1, <1>3, <2>1, <2>2 DEF Carried, CallsTyped
<1> QED BY <1>4, <1>5

\* A call that ends carries nothing on.
LEMMA EndTyped ==
  ASSUME CallsTyped, NEW c \in Caller,
         NEW error \in {"nothing", "EdgexError", "CacheError", "AttributeError", "KeyError"},
         End(c, error)
  PROVE  CallsTyped'
<1> DEFINE k == [NoCall EXCEPT !.error = error, !.item = call[c].item]
<1>1. call' = [call EXCEPT ![c] = k]
  BY DEF End
<1>2. call[c].item \in Item \union {None}
  BY DEF CallsTyped, CallRecord
<1>3. k \in CallRecord /\ WellCalled(k)
  BY <1>2 DEF NoCall, CallRecord, WellCalled, Says
<1> QED BY <1>1, <1>3 DEF CallsTyped

\* What the caches raise is one of their errors.
LEMMA RaisedByType ==
  ASSUME NEW op \in {"add", "update", "remove"}, NEW i \in Item, NEW says
  PROVE  RaisedBy(op, i, says) \in {"nothing", "CacheError", "AttributeError", "KeyError"}
<1>1. \A m, p, content :
        Added(m, p, content).raised \in {"nothing", "CacheError", "AttributeError", "KeyError"}
  BY DEF Added, Raised, Returned
<1>2. \A m, p :
        Removed(m, p).raised \in {"nothing", "CacheError", "AttributeError", "KeyError"}
  BY DEF Removed, Raised, Returned
<1>3. \A m, p, content :
        Updated(m, p, content).raised \in {"nothing", "CacheError", "AttributeError", "KeyError"}
  BY <1>1, <1>2 DEF Updated
<1> QED BY <1>1, <1>2, <1>3 DEF RaisedBy, ProfileWritten

LEMMA SnapshotCarried ==
  ASSUME Carried, NEW c \in Caller, Snapshot(c)
  PROVE  Carried'
<1> DEFINE k == call[c]
<1>1. CachesTyped' /\ HeldTyped' /\ QueueTyped'
  BY DEF Snapshot, Carried, CachesTyped, HeldTyped, QueueTyped, Coherent, Cached
<1>2. k \in CallRecord /\ k.step = "clone" /\ WellCalled(k) /\ k.item \in Item
  BY DEF Carried, CallsTyped, Snapshot, WellCalled
<1>3. CASE ~ IsCached(k.item)
  <2>1. CallsTyped'
    BY <1>3, EndTyped DEF Snapshot, Carried
  <2> QED BY <1>1, <2>1 DEF Carried
<1>4. CASE IsCached(k.item)
  <2> DEFINE n == [k EXCEPT !.step = "write", !.was = Clone(k.item)]
  <2>1. call' = [call EXCEPT ![c] = n]
    BY <1>2, <1>4 DEF Snapshot, CallRecord, Carried, CallsTyped
  <2>2. Clone(k.item) \in SaidOf(k.item)
    BY <1>2, <1>4 DEF Clone, Carried, CachesTyped, Maps, SaidOf, IsCached, Cached, Item
  <2>3. n \in CallRecord
    BY <1>2, <2>2 DEF CallRecord, SaidOf, Says
  <2>4. WellCalled(n)
    BY <1>2, <2>2 DEF WellCalled, CallRecord
  <2> QED BY <1>1, <2>1, <2>3, <2>4 DEF Carried, CallsTyped
<1> QED BY <1>3, <1>4

LEMMA WriteCarried ==
  ASSUME Carried, NEW c \in Caller, Write(c)
  PROVE  Carried'
<1> DEFINE k == call[c]
<1>1. HeldTyped' /\ QueueTyped'
  BY DEF Write, Carried, HeldTyped, QueueTyped
<1>2. k \in CallRecord /\ k.step = "write" /\ WellCalled(k)
  BY DEF Carried, CallsTyped, Write
<1>3. /\ k.op \in {"add", "update", "remove"} /\ k.item \in Item
      /\ k.says \in SaidOf(k.item)
  BY <1>2 DEF CallRecord, WellCalled
<1>4. WriteItem(k.op, k.item, k.says)
  BY DEF Write
<1>5. CachesTyped'
  BY <1>3, <1>4, WriteItemTyped DEF Carried
<1>6. CASE RaisedBy(k.op, k.item, k.says) = "nothing"
  <2> DEFINE n == [k EXCEPT !.step = "sent"]
  <2>1. call' = [call EXCEPT ![c] = n]
    BY <1>2, <1>6 DEF Write, CallRecord, Carried, CallsTyped
  <2>2. n \in CallRecord
    BY <1>2 DEF CallRecord
  <2>3. WellCalled(n)
    BY <1>2 DEF WellCalled, CallRecord
  <2> QED BY <1>1, <1>5, <2>1, <2>2, <2>3 DEF Carried, CallsTyped
<1>7. CASE RaisedBy(k.op, k.item, k.says) # "nothing"
  <2>1. End(c, RaisedBy(k.op, k.item, k.says))
    BY <1>7 DEF Write
  <2>2. RaisedBy(k.op, k.item, k.says)
          \in {"nothing", "CacheError", "AttributeError", "KeyError"}
    BY <1>3, RaisedByType
  <2>3. CallsTyped'
    BY <2>1, <2>2, EndTyped DEF Carried
  <2> QED BY <1>1, <1>5, <2>3 DEF Carried
<1> QED BY <1>6, <1>7

LEMMA RefusedInsideCarried ==
  ASSUME Carried, NEW c \in Caller, RefusedInside(c)
  PROVE  Carried'
<1>1. CachesTyped' /\ HeldTyped' /\ QueueTyped'
  BY DEF RefusedInside, Carried, CachesTyped, HeldTyped, QueueTyped, Coherent, Cached
<1>2. CallsTyped'
  BY EndTyped DEF RefusedInside, Carried
<1> QED BY <1>1, <1>2 DEF Carried

\* What Core Metadata holds after a call it accepts is well-typed, and what it says about it.
LEMMA AcceptEvent ==
  ASSUME Carried, NEW c \in Caller, Accept(c)
  PROVE  LET k == call[c] IN
         /\ k.op # "remove" => /\ k.item \in Profile => Effect(k) \in Edition
                               /\ k.item \notin Profile => Effect(k) \in Fields
         /\ EventOf(k.item, ActionOf(k.op), SaysOf(k)) \in Event
<1> DEFINE k == call[c]
           e == EventOf(k.item, ActionOf(k.op), SaysOf(k))
<1>1. /\ k.op \in {"add", "update", "remove"} /\ k.item \in Item
      /\ k.says \in SaidOf(k.item)
  BY DEF Carried, CallsTyped, Accept, CallRecord, WellCalled
<1>2. k.op = "update" => held[k.item] # None
  BY DEF Accept
<1>3. k.item \in Profile /\ k.op # "remove" => Effect(k) \in Edition
  BY <1>1 DEF Effect, SaidOf, Content
<1>4. k.item \notin Profile /\ k.op # "remove" => Effect(k) \in Fields
  <2>1. k.item \notin Profile => k.says \in Fields
    BY <1>1 DEF SaidOf
  <2>2. k.item \notin Profile /\ k.op = "update" => held[k.item] \in Fields
    BY <1>1, <1>2 DEF Carried, HeldTyped, Item
  <2>3. k.item \notin Profile /\ k.op = "add" => Effect(k) \in Fields
    BY <2>1 DEF Effect
  <2>4. ASSUME k.item \notin Profile, k.op = "update" PROVE Effect(k) \in Fields
    <3>1. Effect(k) = [f \in Field |-> IF k.says[f] = Default THEN held[k.item][f]
                                       ELSE k.says[f]]
      BY <2>4 DEF Effect
    <3> QED BY <2>1, <2>2, <2>4, <3>1 DEF Fields
  <2> QED BY <1>1, <2>3, <2>4
<1>5. e \in Event
  <2>1. k.op # "remove" => SaysOf(k) \in SaidOf(k.item)
    <3>1. CASE k.item \in Profile
      BY <1>1, <3>1 DEF SaysOf, SaidOf, Content
    <3>2. CASE k.item \notin Profile
      BY <1>1, <1>4, <3>2 DEF SaysOf, SaidOf
    <3> QED BY <3>1, <3>2
  <2>2. k.op = "remove" => SaysOf(k) = None
    BY DEF SaysOf
  <2>3. SaysOf(k) \in Says
    BY <2>1, <2>2 DEF SaidOf, Says
  <2>4. ActionOf(k.op) \in {"add", "update", "delete"}
        /\ (ActionOf(k.op) # "delete" => k.op # "remove")
    BY <1>1 DEF ActionOf
  <2>5. e \in EventRecord
    BY <1>1, <2>3, <2>4 DEF EventOf, EventRecord
  <2>6. WellSaid(e)
    BY <1>1, <2>1, <2>4 DEF EventOf, WellSaid
  <2> QED BY <2>5, <2>6 DEF Event
<1> QED BY <1>3, <1>4, <1>5

LEMMA AcceptCarried ==
  ASSUME Carried, NEW c \in Caller, Accept(c)
  PROVE  Carried'
<1> DEFINE k == call[c]
<1>1. CachesTyped'
  BY DEF Accept, Carried, CachesTyped, Coherent, Cached
<1>2. CallsTyped'
  BY EndTyped DEF Accept, Carried
<1>3. k.op \in {"add", "update", "remove"} /\ k.item \in Item
  BY DEF Carried, CallsTyped, Accept, CallRecord, WellCalled
<1>4. /\ k.op # "remove" => /\ k.item \in Profile => Effect(k) \in Edition
                            /\ k.item \notin Profile => Effect(k) \in Fields
      /\ EventOf(k.item, ActionOf(k.op), SaysOf(k)) \in Event
  BY AcceptEvent
<1>5. k.op = "remove" => Effect(k) = None
  BY DEF Effect
<1>6. HeldTyped'
  <2>1. held' = [held EXCEPT ![k.item] = Effect(k)]
    BY DEF Accept
  <2>2. Profile \intersect Watcher = {}
    BY DefinitionAssumption
  <2>3. Effect(k) \in Edition \union Fields \union {None}
    BY <1>4, <1>5
  <2>4. k.item \in Watcher => Effect(k) \in Fields \union {None}
    BY <1>4, <1>5, <2>2
  <2> QED BY <1>3, <2>1, <2>3, <2>4 DEF Carried, HeldTyped
<1>7. QueueTyped'
  <2>1. Publish(EventOf(k.item, ActionOf(k.op), SaysOf(k))) /\ turn' = turn
    BY DEF Accept
  <2> QED BY <1>4, <2>1, PublishTyped DEF Carried
<1> QED BY <1>1, <1>2, <1>6, <1>7 DEF Carried

LEMMA RefuseCarried ==
  ASSUME Carried, NEW c \in Caller, Refuse(c)
  PROVE  Carried'
<1> DEFINE k == call[c]
<1>1. HeldTyped' /\ QueueTyped'
  BY DEF Refuse, Carried, HeldTyped, QueueTyped
<1>2. /\ k.op \in {"add", "update", "remove"} /\ k.item \in Item
      /\ k.op # "add" => k.was \in SaidOf(k.item)
  BY DEF Carried, CallsTyped, Refuse, CallRecord, WellCalled
<1>3. /\ Undone(k.op) \in {"add", "update", "remove"}
      /\ Undone(k.op) # "remove" => k.was \in SaidOf(k.item)
  BY <1>2 DEF Undone
<1>4. WriteItem(Undone(k.op), k.item, k.was)
  BY DEF Refuse
<1>5. CachesTyped'
  BY <1>2, <1>3, <1>4, WriteItemTyped DEF Carried
<1>6. RaisedBy(Undone(k.op), k.item, k.was)
        \in {"nothing", "CacheError", "AttributeError", "KeyError"}
  BY <1>2, <1>3, RaisedByType
<1>7. CallsTyped'
  BY <1>6, EndTyped DEF Refuse, Carried
<1> QED BY <1>1, <1>5, <1>7 DEF Carried

LEMMA LookCarried ==
  ASSUME Carried, Look
  PROVE  Carried'
<1>1. HeldTyped' /\ CallsTyped'
  BY DEF Look, Carried, HeldTyped, CallsTyped
<1>2. turn \in Topic /\ queue[turn] \in Seq(Event)
  BY DEF Carried, QueueTyped
<1>3. turn' \in Topic
  BY DEF Look, After, Topic
<1>4. CASE queue[turn] = <<>>
  BY <1>1, <1>3, <1>4 DEF Look, Carried, CachesTyped, QueueTyped, Coherent, Cached
<1>5. CASE queue[turn] # <<>>
  <2>1. Head(queue[turn]) \in Event /\ Tail(queue[turn]) \in Seq(Event)
    BY <1>2, <1>5
  <2>2. Handle(Head(queue[turn])) /\ queue' = [queue EXCEPT ![turn] = Tail(@)]
    BY <1>5 DEF Look
  <2>3. CachesTyped'
    BY <2>1, <2>2, HandleTyped DEF Carried
  <2>4. QueueTyped'
    BY <1>2, <1>3, <2>1, <2>2 DEF Carried, QueueTyped
  <2> QED BY <1>1, <2>3, <2>4 DEF Carried
<1> QED BY <1>4, <1>5

LEMMA EditEvent ==
  ASSUME NEW i \in Item, NEW action \in {"add", "update", "delete"}, NEW says \in Announcement(i)
  PROVE  says \in SaidOf(i) /\ EventOf(i, action, says) \in Event
<1>1. says \in SaidOf(i)
  BY DEF Announcement, SaidOf, Content
<1>2. says \in Says
  BY <1>1 DEF SaidOf, Says
<1>3. EventOf(i, action, says) \in EventRecord
  BY <1>2 DEF EventOf, EventRecord
<1>4. WellSaid(EventOf(i, action, says))
  BY <1>1 DEF EventOf, WellSaid
<1> QED BY <1>1, <1>3, <1>4 DEF Event

LEMMA EditCarried ==
  ASSUME Carried, NEW i \in Item, NEW action \in {"add", "update", "delete"},
         NEW says \in Announcement(i), Edit(i, action, says)
  PROVE  Carried'
<1>1. CachesTyped' /\ CallsTyped'
  BY DEF Edit, Carried, CachesTyped, CallsTyped, Coherent, Cached
<1>2. says \in SaidOf(i)
  BY EditEvent
<1>3. HeldTyped'
  <2> DEFINE new == IF action = "delete" THEN None
                    ELSE IF i \in Profile THEN says.edition ELSE says
  <2>1. held' = [held EXCEPT ![i] = new]
    BY DEF Edit
  <2>2. CASE action = "delete"
    BY <2>1, <2>2 DEF Carried, HeldTyped
  <2>3. CASE action # "delete" /\ i \in Profile
    <3>1. new = says.edition /\ says.edition \in Edition /\ i \notin Watcher
      BY <1>2, <2>3, DefinitionAssumption DEF SaidOf, Content
    <3> QED BY <2>1, <3>1 DEF Carried, HeldTyped
  <2>4. CASE action # "delete" /\ i \notin Profile
    <3>1. new = says /\ says \in Fields
      BY <1>2, <2>4 DEF SaidOf
    <3> QED BY <2>1, <3>1 DEF Carried, HeldTyped
  <2> QED BY <2>2, <2>3, <2>4
<1>4. QueueTyped'
  BY EditEvent, PublishTyped DEF Edit, Carried
<1> QED BY <1>1, <1>3, <1>4 DEF Carried

LEMMA ForeignDeleteCarried ==
  ASSUME Carried, NEW p \in Profile, ForeignDelete(p)
  PROVE  Carried'
<1> DEFINE e == [EventOf(p, "delete", None) EXCEPT !.owner = "other"]
<1>1. CachesTyped' /\ CallsTyped' /\ HeldTyped'
  BY DEF ForeignDelete, Carried, CachesTyped, CallsTyped, HeldTyped, Coherent, Cached
<1>2. e \in EventRecord /\ WellSaid(e)
  BY DEF EventOf, EventRecord, WellSaid, Says, Item
<1>3. Publish(e) /\ turn' = turn
  BY DEF ForeignDelete
<1>4. QueueTyped'
  BY <1>2, <1>3, PublishTyped DEF Event, Carried
<1> QED BY <1>1, <1>4 DEF Carried

LEMMA CarriedInvariant == Carried /\ [Next]_vars => Carried'
<1> SUFFICES ASSUME Carried, [Next]_vars PROVE Carried'
  OBVIOUS
<1>1. ASSUME NEW c \in Caller, Call(c) PROVE Carried'
  BY <1>1, SnapshotCarried, WriteCarried, AcceptCarried, RefusedInsideCarried, RefuseCarried
     DEF Call
<1>2. ASSUME NEW c \in Caller, NEW i \in Item, NEW op \in {"add", "update", "remove"},
             NEW says \in Statement(i), Begin(c, i, op, says)
      PROVE  Carried'
  BY <1>2, BeginCarried
<1>3. CASE Look
  BY <1>3, LookCarried
<1>4. ASSUME NEW i \in Item, NEW action \in {"add", "update", "delete"},
             NEW says \in Announcement(i), Edit(i, action, says)
      PROVE  Carried'
  BY <1>4, EditCarried
<1>5. ASSUME NEW p \in Profile, ForeignDelete(p) PROVE Carried'
  BY <1>5, ForeignDeleteCarried
<1>6. CASE UNCHANGED vars
  BY <1>6 DEF vars, Carried, CachesTyped, HeldTyped, CallsTyped, QueueTyped, Coherent, Cached
<1> QED BY <1>1, <1>2, <1>3, <1>4, <1>5, <1>6 DEF Next

\* Whatever callers, Core Metadata and other services do, in whatever order, a lookup in
\* the derived maps answers for the cached edition of a cached profile, or not at all.
THEOREM LookupsAlwaysAgree == Spec => []LookupsAgree
<1>1. Carried => LookupsAgree
  BY DEF Carried, CachesTyped, LookupsAgree
<1> QED BY InitCarried, CarriedInvariant, <1>1, PTL DEF Spec

-----------------------------------------------------------------------------
(* Whole profiles: an update event is all that can bring half of one. *)

\* The derived maps miss a cached profile only where it could not be derived from.
Sound(m) ==
  \A p \in Profile : Cached(m, p) => (m.resources[p] # None <=> Derivable(m.all[p]))

Modelled == \A p \in Profile \ rawly : Cached(profiles, p) => ~ profiles.all[p].raw

\* What a call brings, and what it may put back, are models too.
Brings(k, broken) ==
  k.step # "idle" /\ k.item \in Profile =>
    /\ k.op # "remove" => ~ k.says.raw
    /\ k.step \in {"write", "sent"} /\ k.op # "add" =>
         (k.item \notin broken => ~ k.was.raw)

\* Every event is on its topic; the service takes all but the deletes of others, and
\* what those it takes delete has been deleted.
Posted(t, e, dead) ==
  /\ TopicOf(e) = t
  /\ IF e.owner = "other" THEN e.type = "deviceprofile" /\ e.action = "delete"
     ELSE Accepted(e) /\ (e.action = "delete" => e.name \in dead)

Posts == \A t \in Topic : \A n \in DOMAIN queue[t] : Posted(t, queue[t][n], ended)

WholeInv ==
  /\ Sound(profiles) /\ Modelled
  /\ \A c \in Caller : Brings(call[c], rawly)
  /\ Posts

\* What each method of the profile cache leaves of the profiles, and when it raises.
LEMMA AddedLeaves ==
  ASSUME NEW m \in Maps, Coherent(m), Sound(m), NEW p \in Profile, NEW x \in Content
  PROVE  LET r == Added(m, p, x) IN
           /\ r.maps.all = IF Cached(m, p) THEN m.all ELSE [m.all EXCEPT ![p] = x]
           /\ r.raised = IF Cached(m, p) THEN "CacheError"
                         ELSE IF Derivable(x) THEN "nothing" ELSE "AttributeError"
           /\ Sound(r.maps)
<1> DEFINE r == Added(m, p, x)
<1>1. x # None /\ x.edition \in Edition /\ None \notin Edition
  BY ProfileAssumption DEF Content
<1>2. CASE Cached(m, p)
  BY <1>2 DEF Added, Raised
<1>3. CASE ~ Cached(m, p) /\ Derivable(x)
  <2>1. r.maps = Put(m, p, x) /\ r.raised = "nothing"
    BY <1>3 DEF Added, Returned
  <2>2. Sound(Put(m, p, x))
    BY <1>1, <1>3 DEF Put, Sound, Cached, Maps
  <2> QED BY <1>3, <2>1, <2>2 DEF Put
<1>4. CASE ~ Cached(m, p) /\ ~ Derivable(x)
  <2>1. r.maps = Half(m, p, x) /\ r.raised = "AttributeError"
    BY <1>4 DEF Added, Raised
  <2>2. m.resources[p] = None
    BY <1>4 DEF Coherent
  <2>3. Sound(Half(m, p, x))
    BY <1>1, <1>4, <2>2 DEF Half, Sound, Cached, Maps
  <2> QED BY <1>4, <2>1, <2>3 DEF Half
<1> QED BY <1>2, <1>3, <1>4

LEMMA RemovedLeaves ==
  ASSUME NEW m \in Maps, Coherent(m), Sound(m), NEW p \in Profile
  PROVE  LET r == Removed(m, p) IN
           /\ r.maps.all = [m.all EXCEPT ![p] = None]
           /\ r.raised = IF ~ Cached(m, p) THEN "CacheError"
                         ELSE IF Derivable(m.all[p]) THEN "nothing" ELSE "KeyError"
           /\ Sound(r.maps)
<1> DEFINE r == Removed(m, p)
<1>1. CASE ~ Cached(m, p)
  <2>1. r.maps = m /\ r.raised = "CacheError"
    BY <1>1 DEF Removed, Raised
  <2>2. m.all = [m.all EXCEPT ![p] = None]
    BY <1>1 DEF Cached, Maps
  <2> QED BY <1>1, <2>1, <2>2
<1>2. CASE Cached(m, p) /\ m.resources[p] = None
  <2>1. r.maps = Half(m, p, None) /\ r.raised = "KeyError" /\ ~ Derivable(m.all[p])
    BY <1>2 DEF Removed, Raised, Sound
  <2>2. Sound(Half(m, p, None))
    BY DEF Half, Sound, Cached, Maps
  <2> QED BY <1>2, <2>1, <2>2 DEF Half
<1>3. CASE Cached(m, p) /\ m.resources[p] # None
  <2>1. r.maps = Without(m, p) /\ r.raised = "nothing" /\ Derivable(m.all[p])
    BY <1>3 DEF Removed, Returned, Sound
  <2>2. Sound(Without(m, p))
    BY DEF Without, Sound, Cached, Maps
  <2> QED BY <1>3, <2>1, <2>2 DEF Without
<1> QED BY <1>1, <1>2, <1>3

LEMMA UpdatedLeaves ==
  ASSUME NEW m \in Maps, Coherent(m), Sound(m), NEW p \in Profile, NEW x \in Content
  PROVE  LET r == Updated(m, p, x)
             whole == Cached(m, p) /\ Derivable(m.all[p]) IN
           /\ r.maps.all = [m.all EXCEPT ![p] = IF whole THEN x ELSE None]
           /\ r.raised = IF ~ Cached(m, p) THEN "CacheError"
                         ELSE IF ~ whole THEN "KeyError"
                         ELSE IF Derivable(x) THEN "nothing" ELSE "AttributeError"
           /\ Sound(r.maps)
<1> DEFINE n == Removed(m, p).maps
           whole == Cached(m, p) /\ Derivable(m.all[p])
<1>1. /\ n.all = [m.all EXCEPT ![p] = None] /\ Sound(n)
      /\ Removed(m, p).raised = IF ~ Cached(m, p) THEN "CacheError"
                                ELSE IF Derivable(m.all[p]) THEN "nothing" ELSE "KeyError"
  BY RemovedLeaves
<1>2. n \in Maps /\ Coherent(n)
  BY RemovedCoherent
<1>3. m.all \in [Profile -> Content \union {None}]
  BY DEF Maps
<1>4. ~ Cached(n, p)
  BY <1>1, <1>3 DEF Cached
<1> HIDE DEF n
<1>5. /\ Added(n, p, x).maps.all = [n.all EXCEPT ![p] = x]
      /\ Added(n, p, x).raised = IF Derivable(x) THEN "nothing" ELSE "AttributeError"
      /\ Sound(Added(n, p, x).maps)
  BY <1>1, <1>2, <1>4, AddedLeaves
<1>6. CASE whole
  <2>1. Updated(m, p, x) = Added(n, p, x)
    BY <1>1, <1>6 DEF Updated, n
  <2>2. [n.all EXCEPT ![p] = x] = [m.all EXCEPT ![p] = x]
    BY <1>1, <1>3
  <2> QED BY <1>5, <1>6, <2>1, <2>2
<1>7. CASE ~ whole
  <2>1. Updated(m, p, x) = Removed(m, p)
    BY <1>1, <1>7 DEF Updated
  <2> QED BY <1>1, <1>7, <2>1 DEF n
<1> QED BY <1>6, <1>7

\* What a write leaves of the item it is about, if it raises and if not; it leaves the
\* others alone.
LEMMA WriteLeaves ==
  ASSUME CachesTyped, Sound(profiles),
         NEW op \in {"add", "update", "remove"}, NEW i \in Item, NEW says,
         op # "remove" => says \in SaidOf(i), WriteItem(op, i, says)
  PROVE  LET error == RaisedBy(op, i, says) IN
           /\ Sound(profiles)'
           /\ \A j \in Item : j # i => Clone(j)' = Clone(j)
           /\ error = "nothing" => /\ IsCached(i) <=> op # "add"
                                   /\ Clone(i)' = IF op = "remove" THEN None ELSE says
           /\ error = "nothing" /\ i \in Profile /\ op # "add" => Derivable(Clone(i))
           /\ error = "CacheError" => (IsCached(i) <=> op = "add") /\ Clone(i)' = Clone(i)
           /\ error = "KeyError" => /\ i \in Profile /\ IsCached(i)
                                    /\ ~ Derivable(Clone(i)) /\ Clone(i)' = None
           /\ error = "AttributeError" =>
                i \in Profile /\ op # "remove" /\ ~ Derivable(says)
<1> DEFINE error == RaisedBy(op, i, says)
<1>1. CASE i \in Profile
  <2> DEFINE r == ProfileWritten(op, i, says)
  <2>1. profiles' = r.maps /\ watchers' = watchers /\ error = r.raised
    BY <1>1 DEF WriteItem, WriteProfile, RaisedBy
  <2>2. op # "remove" => says \in Content
    BY <1>1 DEF SaidOf
  <2>3. profiles \in Maps /\ Coherent(profiles) /\ profiles.all \in [Profile -> Content \union {None}]
    BY DEF CachesTyped, Maps
  <2>4. Clone(i) = profiles.all[i] /\ Clone(i)' = profiles'.all[i]
        /\ (IsCached(i) <=> Cached(profiles, i))
    BY <1>1 DEF Clone, IsCached
  <2>5. ASSUME NEW new, profiles'.all = [profiles.all EXCEPT ![i] = new]
        PROVE  /\ Clone(i)' = new
               /\ \A j \in Item : j # i => Clone(j)' = Clone(j)
    BY <1>1, <2>1, <2>3, <2>5 DEF Clone
  <2>6. CASE op = "add"
    <3>1. r = Added(profiles, i, says)
      BY <2>6 DEF ProfileWritten
    <3>2. /\ r.maps.all = IF Cached(profiles, i) THEN profiles.all
                          ELSE [profiles.all EXCEPT ![i] = says]
          /\ r.raised = IF Cached(profiles, i) THEN "CacheError"
                        ELSE IF Derivable(says) THEN "nothing" ELSE "AttributeError"
          /\ Sound(r.maps)
      BY <1>1, <2>2, <2>3, <2>6, <3>1, AddedLeaves
    <3>3. Sound(profiles)'
      BY <2>1, <3>2 DEF Sound, Cached
    <3>4. profiles.all = [profiles.all EXCEPT ![i] = profiles.all[i]]
      BY <2>3
    <3> HIDE DEF r
    <3>5. CASE Cached(profiles, i)
      <4>1. profiles'.all = [profiles.all EXCEPT ![i] = profiles.all[i]]
        BY <2>1, <3>2, <3>4, <3>5
      <4>2. Clone(i)' = Clone(i) /\ \A j \in Item : j # i => Clone(j)' = Clone(j)
        BY <2>4, <2>5, <4>1
      <4> QED BY <2>1, <2>4, <2>6, <3>2, <3>3, <3>5, <4>2
    <3>6. CASE ~ Cached(profiles, i)
      <4>1. Clone(i)' = says /\ \A j \in Item : j # i => Clone(j)' = Clone(j)
        BY <2>1, <2>5, <3>2, <3>6
      <4> QED BY <1>1, <2>1, <2>4, <2>6, <3>2, <3>3, <3>6, <4>1
    <3> QED BY <3>5, <3>6
  <2>7. CASE op = "update"
    <3>1. r = Updated(profiles, i, says)
      BY <2>7 DEF ProfileWritten
    <3> DEFINE whole == Cached(profiles, i) /\ Derivable(profiles.all[i])
    <3> DEFINE u == Updated(profiles, i, says)
    <3> says \in Content
      BY <2>2, <2>7
    <3>2. /\ u.maps.all = [profiles.all EXCEPT ![i] = IF whole THEN says ELSE None]
          /\ u.raised = IF ~ Cached(profiles, i) THEN "CacheError"
                        ELSE IF ~ whole THEN "KeyError"
                        ELSE IF Derivable(says) THEN "nothing" ELSE "AttributeError"
          /\ Sound(u.maps)
      BY <1>1, <2>3, UpdatedLeaves
    <3>3. Sound(profiles)'
      BY <2>1, <3>1, <3>2 DEF Sound, Cached
    <3> HIDE DEF r, u
    <3>4. /\ Clone(i)' = IF whole THEN says ELSE None
          /\ \A j \in Item : j # i => Clone(j)' = Clone(j)
      BY <2>1, <2>5, <3>1, <3>2 DEF u
    <3>5. ~ Cached(profiles, i) => Clone(i) = None
      BY <2>4 DEF Cached
    <3> QED BY <1>1, <2>1, <2>4, <2>7, <3>1, <3>2, <3>3, <3>4, <3>5 DEF u
  <2>8. CASE op = "remove"
    <3>1. r = Removed(profiles, i)
      BY <2>8 DEF ProfileWritten
    <3>2. /\ r.maps.all = [profiles.all EXCEPT ![i] = None]
          /\ r.raised = IF ~ Cached(profiles, i) THEN "CacheError"
                        ELSE IF Derivable(profiles.all[i]) THEN "nothing" ELSE "KeyError"
          /\ Sound(r.maps)
      BY <1>1, <2>3, <3>1, RemovedLeaves
    <3>3. Sound(profiles)'
      BY <2>1, <3>2 DEF Sound, Cached
    <3> HIDE DEF r
    <3>4. Clone(i)' = None /\ \A j \in Item : j # i => Clone(j)' = Clone(j)
      BY <2>1, <2>5, <3>2
    <3>5. ~ Cached(profiles, i) => Clone(i) = None
      BY <2>4 DEF Cached
    <3> QED BY <1>1, <2>1, <2>4, <2>8, <3>2, <3>3, <3>4, <3>5
  <2> QED BY <2>6, <2>7, <2>8
<1>2. CASE i \notin Profile
  <2>1. i \in Watcher /\ watchers \in [Watcher -> Fields \union {None}]
    BY <1>2 DEF Item, CachesTyped
  <2>2. /\ profiles' = profiles
        /\ watchers' = IF WatcherRaises(op, i) THEN watchers
                       ELSE [watchers EXCEPT ![i] = WatcherWritten(op, i, says)]
        /\ error = IF WatcherRaises(op, i) THEN "CacheError" ELSE "nothing"
    BY <1>2 DEF WriteItem, WriteWatcher, RaisedBy
  <2>3. Sound(profiles)'
    BY <2>2 DEF Sound, Cached
  <2>4. WatcherRaises(op, i) <=> (IsCached(i) <=> op = "add")
    BY DEF WatcherRaises, IsCached, Cached
  <2>5. \A j \in Item : j # i => Clone(j)' = Clone(j)
    BY <2>1, <2>2 DEF Clone
  <2>6. CASE WatcherRaises(op, i)
    <3>1. Clone(i)' = Clone(i) /\ error = "CacheError"
      BY <2>2, <2>6 DEF Clone
    <3> QED BY <2>3, <2>4, <2>5, <2>6, <3>1
  <2>7. CASE ~ WatcherRaises(op, i)
    <3>1. Clone(i)' = WatcherWritten(op, i, says) /\ error = "nothing"
      BY <1>2, <2>1, <2>2, <2>7 DEF Clone
    <3>2. WatcherWritten(op, i, says) = IF op = "remove" THEN None ELSE says
      BY DEF WatcherWritten
    <3> QED BY <1>2, <2>3, <2>4, <2>5, <2>7, <3>1, <3>2
  <2> QED BY <2>6, <2>7
<1> QED BY <1>1, <1>2

\* What the cache has of an item once an event about it is handled.
Heard(e) ==
  LET i == e.name IN
  IF ~ Accepted(e) THEN Clone(i)
  ELSE IF i \notin Profile THEN OnWatcher(e)
  ELSE CASE e.action = "update" -> IF IsCached(i) /\ Derivable(Clone(i)) THEN e.says ELSE None
         [] e.action = "delete" -> None
         [] e.action = "add"    -> Clone(i)

LEMMA HandleLeaves ==
  ASSUME CachesTyped, Sound(profiles), Modelled, NEW e \in Event, Handle(e)
  PROVE  /\ Sound(profiles)' /\ Modelled'
         /\ Clone(e.name)' = Heard(e)
         /\ \A j \in Item : j # e.name => Clone(j)' = Clone(j)
<1>1. /\ e.name \in Item /\ e.action \in {"add", "update", "delete"} /\ WellSaid(e)
      /\ e.type \in {"deviceprofile", "provisionwatcher"}
  BY DEF Event, EventRecord
<1>2. /\ profiles \in Maps /\ Coherent(profiles)
      /\ profiles.all \in [Profile -> Content \union {None}]
      /\ watchers \in [Watcher -> Fields \union {None}]
  BY DEF CachesTyped, Maps
<1>3. rawly \subseteq rawly'
      /\ (e.type = "deviceprofile" /\ e.action = "update" => e.name \in rawly')
  BY DEF Handle
<1>4. ASSUME profiles' = profiles PROVE Sound(profiles)' /\ Modelled'
  BY <1>3, <1>4 DEF Sound, Modelled, Cached
<1>5. CASE ~ Accepted(e)
  <2>1. profiles' = profiles /\ watchers' = watchers
    BY <1>5 DEF Handle
  <2> QED BY <1>4, <1>5, <2>1 DEF Clone, Heard
<1>6. CASE Accepted(e) /\ e.name \notin Profile
  <2>1. e.type = "provisionwatcher" /\ e.name \in Watcher
    BY <1>1, <1>6 DEF WellSaid, Item
  <2>2. profiles' = profiles /\ watchers' = [watchers EXCEPT ![e.name] = OnWatcher(e)]
    BY <1>6, <2>1 DEF Handle
  <2>3. Clone(e.name)' = OnWatcher(e) /\ \A j \in Item : j # e.name => Clone(j)' = Clone(j)
    BY <1>2, <1>6, <2>1, <2>2 DEF Clone
  <2> QED BY <1>4, <1>6, <2>2, <2>3 DEF Heard
<1>7. CASE Accepted(e) /\ e.name \in Profile
  <2> DEFINE p == e.name
  <2>1. e.type = "deviceprofile" /\ (e.action = "update" => e.says \in Content)
    BY <1>1, <1>7 DEF WellSaid, SaidOf
  <2>2. profiles' = OnProfile(e) /\ watchers' = watchers
    BY <1>7, <2>1 DEF Handle
  <2>3. Clone(p) = profiles.all[p] /\ Clone(p)' = profiles'.all[p]
        /\ (IsCached(p) <=> Cached(profiles, p))
    BY <1>7 DEF Clone, IsCached
  <2>4. ASSUME NEW new, profiles'.all = [profiles.all EXCEPT ![p] = new]
        PROVE  /\ Clone(p)' = new
               /\ \A j \in Item : j # p => Clone(j)' = Clone(j)
               /\ p \in rawly' \/ new = None => Modelled'
    <3>1. Clone(p)' = new /\ \A j \in Item : j # p => Clone(j)' = Clone(j)
      BY <1>2, <1>7, <2>2, <2>4 DEF Clone
    <3>2. ASSUME p \in rawly' \/ new = None PROVE Modelled'
      BY <1>2, <1>3, <1>7, <2>4, <3>2 DEF Modelled, Cached
    <3> QED BY <3>1, <3>2
  <2>5. CASE e.action = "add"
    <3>1. profiles' = profiles
      BY <2>2, <2>5 DEF OnProfile
    <3> QED BY <1>4, <1>7, <2>2, <2>5, <3>1 DEF Heard, Clone
  <2>6. CASE e.action = "update"
    <3> DEFINE u == Updated(profiles, p, e.says)
               whole == Cached(profiles, p) /\ Derivable(profiles.all[p])
    <3> e.says \in Content
      BY <2>1, <2>6
    <3>1. profiles' = u.maps
      BY <2>2, <2>6 DEF OnProfile
    <3>2. u.maps.all = [profiles.all EXCEPT ![p] = IF whole THEN e.says ELSE None]
          /\ Sound(u.maps)
      BY <1>2, <1>7, UpdatedLeaves
    <3>3. Sound(profiles)'
      BY <3>1, <3>2 DEF Sound, Cached
    <3> HIDE DEF u
    <3>4. /\ Clone(p)' = IF whole THEN e.says ELSE None
          /\ \A j \in Item : j # p => Clone(j)' = Clone(j)
          /\ Modelled'
      BY <1>3, <2>1, <2>4, <2>6, <3>1, <3>2
    <3> QED BY <1>7, <2>3, <2>6, <3>3, <3>4 DEF Heard
  <2>7. CASE e.action = "delete"
    <3> DEFINE u == Removed(profiles, p)
    <3>1. profiles' = u.maps
      BY <2>2, <2>7 DEF OnProfile
    <3>2. u.maps.all = [profiles.all EXCEPT ![p] = None] /\ Sound(u.maps)
      BY <1>2, <1>7, RemovedLeaves
    <3>3. Sound(profiles)'
      BY <3>1, <3>2 DEF Sound, Cached
    <3> HIDE DEF u
    <3>4. /\ Clone(p)' = None
          /\ \A j \in Item : j # p => Clone(j)' = Clone(j)
          /\ Modelled'
      BY <2>4, <3>1, <3>2
    <3> QED BY <1>7, <2>7, <3>3, <3>4 DEF Heard
  <2> QED BY <1>1, <2>5, <2>6, <2>7
<1> QED BY <1>5, <1>6, <1>7

LEMMA InitWhole == Init => WholeInv
<1> SUFFICES ASSUME Init PROVE WholeInv
  OBVIOUS
<1>1. PICK at \in {{}, Profile} : profiles = Provisioned([p \in at |-> Default])
  BY DEF Init
<1>2. Default \in Edition /\ None \notin Edition
  BY DefinitionAssumption, ProfileAssumption
<1>3. Sound(profiles) /\ Modelled
  BY <1>1, <1>2 DEF Provisioned, Sound, Modelled, Cached, Derivable
<1>4. \A c \in Caller : Brings(call[c], rawly)
  BY DEF Init, NoCall, Brings
<1>5. Posts
  BY DEF Init, Posts
<1> QED BY <1>3, <1>4, <1>5 DEF WholeInv

\* An event that is published joins those that are there, or is lost.
LEMMA PublishPosted ==
  ASSUME QueueTyped, Posts, NEW e \in Event, Posted(TopicOf(e), e, ended'), Publish(e),
         ended \subseteq ended'
  PROVE  Posts'
<1> DEFINE t0 == TopicOf(e)
<1>1. t0 \in Topic
  BY DEF TopicOf, Topic
<1>2. queue \in [Topic -> Seq(Event)]
  BY DEF QueueTyped
<1> SUFFICES ASSUME NEW t \in Topic, NEW n \in DOMAIN queue'[t]
             PROVE  Posted(t, queue'[t][n], ended')
  BY DEF Posts
<1>3. CASE n \in DOMAIN queue[t] /\ queue'[t][n] = queue[t][n]
  BY <1>3 DEF Posts, Posted
<1>4. CASE t = t0 /\ queue'[t][n] = e
  BY <1>4
<1>5. CASE queue' = queue
  BY <1>3, <1>5
<1>6. CASE queue' = [queue EXCEPT ![t0] = Append(@, e)]
  <2>1. CASE t = t0
    <3>1. queue'[t] = Append(queue[t], e) /\ queue[t] \in Seq(Event)
      BY <1>1, <1>2, <1>6, <2>1
    <3>2. n \in 1 .. Len(queue[t]) + 1
      BY <3>1
    <3> QED BY <1>3, <1>4, <2>1, <3>1, <3>2
  <2>2. CASE t # t0
    BY <1>2, <1>3, <1>6, <2>2
  <2> QED BY <2>1, <2>2
<1> QED BY <1>5, <1>6 DEF Publish

\* A write with content that is whole, or of none.
LEMMA WriteWhole ==
  ASSUME CachesTyped, Sound(profiles), Modelled,
         NEW op \in {"add", "update", "remove"}, NEW i \in Item, NEW says,
         op # "remove" => says \in SaidOf(i), WriteItem(op, i, says),
         i \in Profile /\ op # "remove" => (i \notin rawly => ~ says.raw),
         rawly' = rawly
  PROVE  Sound(profiles)' /\ Modelled'
<1> DEFINE error == RaisedBy(op, i, says)
<1>1. /\ Sound(profiles)'
      /\ \A j \in Item : j # i => Clone(j)' = Clone(j)
      /\ error = "nothing" => Clone(i)' = IF op = "remove" THEN None ELSE says
      /\ error = "CacheError" => Clone(i)' = Clone(i)
      /\ error = "KeyError" => Clone(i)' = None
      /\ error = "AttributeError" => i \in Profile /\ op # "remove" /\ ~ Derivable(says)
  BY WriteLeaves
<1>2. error \in {"nothing", "CacheError", "AttributeError", "KeyError"}
  BY RaisedByType
<1>3. error = "AttributeError" => i \in Profile /\ i \in rawly
  BY <1>1 DEF Derivable
<1>4. ASSUME NEW p \in Profile \ rawly, Cached(profiles', p)
      PROVE  ~ profiles'.all[p].raw
  <2>1. Clone(p) = profiles.all[p] /\ Clone(p)' = profiles'.all[p] /\ p \in Item
    BY DEF Clone, Item
  <2>2. CASE Clone(p)' = Clone(p)
    BY <1>4, <2>1, <2>2 DEF Modelled, Cached
  <2>3. CASE p = i /\ op # "remove" /\ Clone(p)' = says
    BY <2>1, <2>3
  <2>4. CASE Clone(p)' = None
    BY <1>4, <2>1, <2>4 DEF Cached
  <2> HIDE DEF error
  <2> QED BY <1>1, <1>2, <1>3, <2>1, <2>2, <2>3, <2>4
<1>5. Modelled'
  BY <1>4 DEF Modelled
<1> QED BY <1>1, <1>5

\* A call carries what Carried says of it, whichever of its steps it is at.
LEMMA CallCarries ==
  ASSUME Carried, NEW c \in Caller, call[c].step # "idle"
  PROVE  LET k == call[c] IN
         /\ k \in CallRecord
         /\ k.op \in {"add", "update", "remove"} /\ k.item \in Item /\ k.says \in SaidOf(k.item)
         /\ k.step # "clone" /\ k.op # "add" => k.was \in SaidOf(k.item)
         /\ k.step = "clone" => k.op # "add"
  BY DEF Carried, CallsTyped, CallRecord, WellCalled

LEMMA BeginWhole ==
  ASSUME Carried, WholeInv, NEW c \in Caller, NEW i \in Item,
         NEW op \in {"add", "update", "remove"}, NEW says \in Statement(i), Begin(c, i, op, says)
  PROVE  WholeInv'
<1>1. Sound(profiles)' /\ Modelled' /\ Posts'
  BY DEF Begin, WholeInv, Sound, Modelled, Posts, Posted, Cached
<1>2. call \in [Caller -> CallRecord] /\ rawly' = rawly
  BY DEF Carried, CallsTyped, Begin
<1>3. i \in Profile => ~ says.raw
  BY DEF Statement
<1>4. ASSUME NEW k, call' = [call EXCEPT ![c] = k],
             \/ k.step = "idle"
             \/ /\ k.item = i /\ k.says = says
                /\ k.step = IF k.op = "add" THEN "write" ELSE "clone"
      PROVE  \A d \in Caller : Brings(call'[d], rawly')
  <2> SUFFICES ASSUME NEW d \in Caller PROVE Brings(call'[d], rawly')
    OBVIOUS
  <2>1. CASE d = c
    BY <1>2, <1>3, <1>4, <2>1 DEF Brings
  <2>2. CASE d # c
    BY <1>2, <1>4, <2>2 DEF WholeInv, Brings
  <2> QED BY <2>1, <2>2
<1>5. \A d \in Caller : Brings(call'[d], rawly')
  <2>1. CASE IsCached(i) = (op = "add")
    <3> DEFINE k == [NoCall EXCEPT !.item = i, !.error = "EdgexError"]
    <3>1. call' = [call EXCEPT ![c] = k] /\ k.step = "idle"
      BY <2>1 DEF Begin, NoCall
    <3> QED BY <1>4, <3>1
  <2>2. CASE IsCached(i) # (op = "add")
    <3> DEFINE k == [op |-> op, item |-> i, says |-> says,
                     step |-> IF op = "add" THEN "write" ELSE "clone", was |-> None,
                     error |-> "nothing"]
    <3>1. call' = [call EXCEPT ![c] = k]
      BY <2>2 DEF Begin
    <3>2. k.item = i /\ k.says = says /\ k.step = IF k.op = "add" THEN "write" ELSE "clone"
      OBVIOUS
    <3> HIDE DEF k
    <3> QED BY <1>4, <3>1, <3>2
  <2> QED BY <2>1, <2>2
<1> QED BY <1>1, <1>5 DEF WholeInv

\* A call that ends brings nothing any more.
LEMMA EndBrings ==
  ASSUME CallsTyped, \A d \in Caller : Brings(call[d], rawly), NEW c \in Caller, NEW error,
         End(c, error), rawly' = rawly
  PROVE  \A d \in Caller : Brings(call[d], rawly)'
<1> DEFINE k == [NoCall EXCEPT !.error = error, !.item = call[c].item]
<1>1. call' = [call EXCEPT ![c] = k] /\ k.step = "idle"
  BY DEF End, NoCall
<1>2. call \in [Caller -> CallRecord]
  BY DEF CallsTyped
<1> SUFFICES ASSUME NEW d \in Caller PROVE Brings(call[d], rawly)'
  OBVIOUS
<1>3. CASE d = c
  BY <1>1, <1>2, <1>3 DEF Brings
<1>4. CASE d # c
  BY <1>1, <1>2, <1>4 DEF Brings
<1> QED BY <1>3, <1>4

\* One call that goes on with what its cause allows it to bring.
LEMMA GoesOnBrings ==
  ASSUME CallsTyped, \A d \in Caller : Brings(call[d], rawly), NEW c \in Caller, NEW n,
         call' = [call EXCEPT ![c] = n], Brings(n, rawly), rawly' = rawly
  PROVE  \A d \in Caller : Brings(call[d], rawly)'
<1> SUFFICES ASSUME NEW d \in Caller PROVE Brings(call[d], rawly)'
  OBVIOUS
<1>1. CASE d = c
  BY <1>1 DEF CallsTyped
<1>2. CASE d # c
  BY <1>2 DEF CallsTyped, Brings
<1> QED BY <1>1, <1>2

LEMMA SnapshotWhole ==
  ASSUME Carried, WholeInv, NEW c \in Caller, Snapshot(c)
  PROVE  WholeInv'
<1> DEFINE k == call[c]
<1>1. Posts' /\ rawly' = rawly /\ Sound(profiles)' /\ Modelled'
  BY DEF Snapshot, WholeInv, Posts, Posted, Sound, Modelled, Cached
<1>2. k \in CallRecord /\ k.step = "clone"
  BY CallCarries DEF Snapshot
<1>3. CallsTyped /\ Modelled /\ \A d \in Caller : Brings(call[d], rawly)
  BY DEF Carried, WholeInv
<1>4. CASE ~ IsCached(k.item)
  <2>1. End(c, "nothing")
    BY <1>4 DEF Snapshot
  <2>2. \A d \in Caller : Brings(call[d], rawly)'
    BY <1>1, <1>3, <2>1, EndBrings
  <2> QED BY <1>1, <2>2 DEF WholeInv
<1>5. CASE IsCached(k.item)
  <2> DEFINE n == [k EXCEPT !.step = "write", !.was = Clone(k.item)]
  <2>1. call' = [call EXCEPT ![c] = n]
    BY <1>2, <1>5 DEF Snapshot, CallRecord, Carried, CallsTyped
  <2>2. /\ n.step = "write" /\ n.item = k.item /\ n.op = k.op /\ n.says = k.says
        /\ n.was = Clone(k.item)
    BY <1>2 DEF CallRecord
  <2> HIDE DEF n
  <2>3. ASSUME k.item \in Profile \ rawly PROVE ~ Clone(k.item).raw
    BY <1>3, <1>5, <2>3 DEF Modelled, IsCached, Clone
  <2>4. Brings(n, rawly)
    BY <1>2, <1>3, <2>2, <2>3 DEF Brings
  <2>5. \A d \in Caller : Brings(call[d], rawly)'
    BY <1>1, <1>3, <2>1, <2>4, GoesOnBrings
  <2> QED BY <1>1, <2>5 DEF WholeInv
<1> QED BY <1>4, <1>5

LEMMA WriteCallWhole ==
  ASSUME Carried, WholeInv, NEW c \in Caller, Write(c)
  PROVE  WholeInv'
<1> DEFINE k == call[c]
           error == RaisedBy(k.op, k.item, k.says)
<1>1. Posts' /\ rawly' = rawly
  BY DEF Write, WholeInv, Posts, Posted
<1>2. /\ k \in CallRecord /\ k.step = "write"
      /\ k.op \in {"add", "update", "remove"} /\ k.item \in Item /\ k.says \in SaidOf(k.item)
  BY CallCarries DEF Write
<1>3. CachesTyped /\ CallsTyped /\ Sound(profiles) /\ Modelled /\ \A d \in Caller : Brings(call[d], rawly)
  BY DEF Carried, WholeInv
<1>4. WriteItem(k.op, k.item, k.says)
  BY DEF Write
<1>5. k.item \in Profile /\ k.op # "remove" => ~ k.says.raw
  BY <1>2, <1>3 DEF Brings
<1>6. Sound(profiles)' /\ Modelled'
  BY <1>1, <1>2, <1>3, <1>4, <1>5, WriteWhole
<1>7. CASE error = "nothing"
  <2> DEFINE n == [k EXCEPT !.step = "sent"]
  <2>1. call' = [call EXCEPT ![c] = n]
    BY <1>2, <1>7 DEF Write, CallRecord, Carried, CallsTyped
  <2>2. /\ n.step = "sent" /\ n.item = k.item /\ n.op = k.op /\ n.says = k.says
        /\ n.was = k.was
    BY <1>2 DEF CallRecord
  <2> HIDE DEF n
  <2>3. Brings(n, rawly)
    BY <1>2, <1>3, <2>2 DEF Brings
  <2>4. \A d \in Caller : Brings(call[d], rawly)'
    BY <1>1, <1>3, <2>1, <2>3, GoesOnBrings
  <2> QED BY <1>1, <1>6, <2>4 DEF WholeInv
<1>8. CASE error # "nothing"
  <2>1. End(c, error)
    BY <1>8 DEF Write
  <2>2. \A d \in Caller : Brings(call[d], rawly)'
    BY <1>1, <1>3, <2>1, EndBrings
  <2> QED BY <1>1, <1>6, <2>2 DEF WholeInv
<1> QED BY <1>7, <1>8

LEMMA RefusedInsideWhole ==
  ASSUME Carried, WholeInv, NEW c \in Caller, RefusedInside(c)
  PROVE  WholeInv'
<1>1. Posts' /\ rawly' = rawly /\ Sound(profiles)' /\ Modelled'
  BY DEF RefusedInside, WholeInv, Posts, Posted, Sound, Modelled, Cached
<1>2. \A d \in Caller : Brings(call[d], rawly)'
  BY <1>1, EndBrings DEF RefusedInside, Carried, WholeInv
<1> QED BY <1>1, <1>2 DEF WholeInv

LEMMA RefuseWhole ==
  ASSUME Carried, WholeInv, NEW c \in Caller, Refuse(c)
  PROVE  WholeInv'
<1> DEFINE k == call[c]
<1>1. Posts' /\ rawly' = rawly /\ k.step = "sent"
  BY DEF Refuse, WholeInv, Posts, Posted
<1>2. /\ k.op \in {"add", "update", "remove"} /\ k.item \in Item
      /\ k.op # "add" => k.was \in SaidOf(k.item)
  BY <1>1, CallCarries
<1>3. CachesTyped /\ CallsTyped /\ Sound(profiles) /\ Modelled /\ \A d \in Caller : Brings(call[d], rawly)
  BY DEF Carried, WholeInv
<1>4. /\ Undone(k.op) \in {"add", "update", "remove"}
      /\ Undone(k.op) # "remove" => k.op # "add" /\ k.was \in SaidOf(k.item)
  BY <1>2 DEF Undone
<1>5. WriteItem(Undone(k.op), k.item, k.was)
  BY DEF Refuse
<1>6. k.item \in Profile /\ Undone(k.op) # "remove" => (k.item \notin rawly => ~ k.was.raw)
  BY <1>1, <1>3, <1>4 DEF Brings
<1>7. Sound(profiles)' /\ Modelled'
  BY <1>1, <1>2, <1>3, <1>4, <1>5, <1>6, WriteWhole
<1>8. \A d \in Caller : Brings(call[d], rawly)'
  BY <1>1, <1>3, EndBrings DEF Refuse
<1> QED BY <1>1, <1>7, <1>8 DEF WholeInv

\* What Core Metadata publishes about a change is on its topic, and the service takes it.
LEMMA EventPosted ==
  ASSUME NEW i \in Item, NEW action \in {"add", "update", "delete"}, NEW says, NEW dead,
         action = "delete" => i \in dead
  PROVE  LET e == EventOf(i, action, says) IN
           Posted(TopicOf(e), e, dead) /\ e.owner # "other" /\ e.name = i
           /\ e.action = action /\ e.says = says
  BY DEF EventOf, Posted, Accepted

LEMMA AcceptWhole ==
  ASSUME Carried, WholeInv, NEW c \in Caller, Accept(c)
  PROVE  WholeInv'
<1> DEFINE k == call[c]
<1>1. CachesTyped /\ CallsTyped /\ QueueTyped /\ Sound(profiles) /\ Modelled /\ Posts
      /\ \A d \in Caller : Brings(call[d], rawly)
  BY DEF Carried, WholeInv
<1>2. k.op \in {"add", "update", "remove"} /\ k.item \in Item
  BY CallCarries DEF Accept
<1>3. PICK e : e = EventOf(k.item, ActionOf(k.op), SaysOf(k))
  OBVIOUS
<1>4. e \in Event /\ Publish(e)
  BY <1>3, AcceptEvent DEF Accept
<1>5. /\ ActionOf(k.op) \in {"add", "update", "delete"}
      /\ ended \subseteq ended'
      /\ ActionOf(k.op) = "delete" => k.item \in ended'
  BY <1>2 DEF ActionOf, Accept
<1>6. Posted(TopicOf(e), e, ended')
  BY <1>2, <1>3, <1>5, EventPosted
<1>7. Posts'
  BY <1>1, <1>4, <1>5, <1>6, PublishPosted
<1>8. \A d \in Caller : Brings(call[d], rawly)'
  BY <1>1, EndBrings DEF Accept
<1>9. Sound(profiles)' /\ Modelled'
  BY <1>1 DEF Accept, Sound, Modelled, Cached
<1> QED BY <1>7, <1>8, <1>9 DEF WholeInv

LEMMA EditWhole ==
  ASSUME Carried, WholeInv, NEW i \in Item, NEW action \in {"add", "update", "delete"},
         NEW says \in Announcement(i), Edit(i, action, says)
  PROVE  WholeInv'
<1>1. QueueTyped /\ Posts
  BY DEF Carried, WholeInv
<1>2. PICK e : e = EventOf(i, action, says)
  OBVIOUS
<1>3. e \in Event
  BY <1>2, EditEvent
<1>4. Publish(e) /\ ended \subseteq ended' /\ (action = "delete" => i \in ended')
  BY <1>2 DEF Edit
<1>5. Posted(TopicOf(e), e, ended')
  BY <1>2, <1>4, EventPosted
<1>6. Posts'
  BY <1>1, <1>3, <1>4, <1>5, PublishPosted
<1>7. Sound(profiles)' /\ Modelled' /\ \A d \in Caller : Brings(call[d], rawly)'
  BY DEF Edit, WholeInv, Sound, Modelled, Cached, Brings
<1> QED BY <1>6, <1>7 DEF WholeInv

LEMMA ForeignDeleteWhole ==
  ASSUME Carried, WholeInv, NEW p \in Profile, ForeignDelete(p)
  PROVE  WholeInv'
<1>1. QueueTyped /\ Posts
  BY DEF Carried, WholeInv
<1>2. PICK e : e = [EventOf(p, "delete", None) EXCEPT !.owner = "other"]
  OBVIOUS
<1>3. e \in Event
  BY <1>2 DEF EventOf, Event, EventRecord, WellSaid, Says, Item
<1>4. Publish(e) /\ ended' = ended
  BY <1>2 DEF ForeignDelete
<1>5. Posted(TopicOf(e), e, ended')
  BY <1>2 DEF Posted, EventOf
<1>6. Posts'
  BY <1>1, <1>3, <1>4, <1>5, PublishPosted
<1>7. Sound(profiles)' /\ Modelled' /\ \A d \in Caller : Brings(call[d], rawly)'
  BY DEF ForeignDelete, WholeInv, Sound, Modelled, Cached, Brings
<1> QED BY <1>6, <1>7 DEF WholeInv

LEMMA LookWhole ==
  ASSUME Carried, WholeInv, Look
  PROVE  WholeInv'
<1>1. CachesTyped /\ Sound(profiles) /\ Modelled /\ Posts /\ turn \in Topic
      /\ queue \in [Topic -> Seq(Event)]
  BY DEF Carried, WholeInv, QueueTyped
<1>2. CASE queue[turn] = <<>>
  BY <1>2 DEF Look, WholeInv, Sound, Modelled, Cached, Brings, Posts, Posted
<1>3. CASE queue[turn] # <<>>
  <2>1. /\ Handle(Head(queue[turn])) /\ Head(queue[turn]) \in Event
        /\ queue' = [queue EXCEPT ![turn] = Tail(@)] /\ ended' = ended /\ call' = call
    BY <1>1, <1>3 DEF Look
  <2>2. Sound(profiles)' /\ Modelled'
    BY <1>1, <2>1, HandleLeaves
  <2>3. rawly \subseteq rawly'
    BY <2>1 DEF Handle
  <2>4. \A d \in Caller : Brings(call[d], rawly)'
    BY <2>1, <2>3 DEF WholeInv, Brings
  <2>5. Posts'
    <3> SUFFICES ASSUME NEW t \in Topic, NEW n \in DOMAIN queue'[t]
                 PROVE  Posted(t, queue'[t][n], ended)
      BY <2>1 DEF Posts
    <3>1. CASE t = turn
      <4>1. queue'[t] = Tail(queue[t]) /\ queue[t] \in Seq(Event) /\ queue[t] # <<>>
        BY <1>1, <1>3, <2>1, <3>1
      <4>2. n + 1 \in DOMAIN queue[t] /\ queue'[t][n] = queue[t][n + 1]
        BY <4>1
      <4> QED BY <1>1, <4>2 DEF Posts
    <3>2. CASE t # turn
      BY <1>1, <2>1, <3>2 DEF Posts
    <3> QED BY <3>1, <3>2
  <2> QED BY <2>2, <2>4, <2>5 DEF WholeInv
<1> QED BY <1>2, <1>3

LEMMA WholeInvariant == Carried /\ WholeInv /\ [Next]_vars => WholeInv'
<1> SUFFICES ASSUME Carried, WholeInv, [Next]_vars PROVE WholeInv'
  OBVIOUS
<1>1. ASSUME NEW c \in Caller, Call(c) PROVE WholeInv'
  BY <1>1, SnapshotWhole, WriteCallWhole, AcceptWhole, RefusedInsideWhole, RefuseWhole DEF Call
<1>2. ASSUME NEW c \in Caller, NEW i \in Item, NEW op \in {"add", "update", "remove"},
             NEW says \in Statement(i), Begin(c, i, op, says)
      PROVE  WholeInv'
  BY <1>2, BeginWhole
<1>3. CASE Look
  BY <1>3, LookWhole
<1>4. ASSUME NEW i \in Item, NEW action \in {"add", "update", "delete"},
             NEW says \in Announcement(i), Edit(i, action, says)
      PROVE  WholeInv'
  BY <1>4, EditWhole
<1>5. ASSUME NEW p \in Profile, ForeignDelete(p) PROVE WholeInv'
  BY <1>5, ForeignDeleteWhole
<1>6. CASE UNCHANGED vars
  BY <1>6 DEF vars, WholeInv, Sound, Modelled, Cached, Brings, Posts, Posted
<1> QED BY <1>1, <1>2, <1>3, <1>4, <1>5, <1>6 DEF Next

-----------------------------------------------------------------------------
(* What is known of an item on which no steps crossed. *)

\* The events about an item that the service takes.
Spoken(i)  == {e \in Event : e.name = i /\ e.owner # "other"}
Updates(p) == {e \in Spoken(p) : e.action = "update"}
Deletes(p) == {e \in Spoken(p) : e.action = "delete"}

Some(q, S) == \E n \in DOMAIN q : q[n] \in S
First(q, S, n) == n \in DOMAIN q /\ q[n] \in S /\ \A m \in DOMAIN q : m < n => q[m] \notin S
Last(q, S, n)  == n \in DOMAIN q /\ q[n] \in S /\ \A m \in DOMAIN q : n < m => q[m] \notin S
Follow(q, S, n, m) ==
  /\ n \in DOMAIN q /\ m \in DOMAIN q /\ n < m /\ q[n] \in S /\ q[m] \in S
  /\ \A x \in DOMAIN q : n < x /\ x < m => q[x] \notin S

On(c, i) == call[c].item = i /\ call[c].step # "idle"

Shared(x, y) == \A f \in OnAdd \intersect OnUpdate : x[f] = y[f]

\* A cached item, or the snapshot of one, says what Core Metadata says.
Follows(i, x) ==
  IF i \in Profile THEN x # None => held[i] = x.edition
  ELSE /\ x = None <=> held[i] = None
       /\ x # None => Shared(x, held[i])

\* A call finds the cache as it left it, and can put back what was there.
Knows(k) ==
  LET i == k.item IN
  /\ k.step = "clone" => Follows(i, Clone(i))
  /\ k.step = "write" => Follows(i, Clone(i)) /\ (k.op # "add" => k.was = Clone(i))
  /\ k.step = "sent"  => /\ k.op # "remove" => Clone(i) = k.says
                         /\ Follows(i, IF k.op = "add" THEN None ELSE k.was)

\* Events on two topics may cross, but a delete has the last word about a profile.
ProfileFollowed(p) ==
  LET q == queue["main"] IN
  \/ ~ Cached(profiles, p)
  \/ Some(queue["deleted"], Deletes(p))
  \/ /\ held[p] # None
     /\ \A n : Last(q, Updates(p), n) => q[n].says.edition = held[p]
     /\ ~ Some(q, Updates(p)) => held[p] = profiles.all[p].edition

Told(e) == IF e.action = "delete" THEN None ELSE e.says

\* What the first event about a watcher finds of it.
Fits(x, e) ==
  CASE e.action = "add"    -> x = None \/ Shared(x, e.says)
    [] e.action = "update" -> x # None
    [] e.action = "delete" -> TRUE

\* The events about a watcher are a chain from what is cached to what is held.
WatcherFollowed(w) ==
  LET q == queue[IF Instanced THEN "base" ELSE "main"]
      S == Spoken(w) IN
  /\ ~ Some(q, S) => Follows(w, watchers[w])
  /\ \A n : Last(q, S, n) => held[w] = Told(q[n])
  /\ \A n, m : Follow(q, S, n, m) => (q[m].action = "add" <=> q[n].action = "delete")
  /\ \A n : First(q, S, n) => Fits(watchers[w], q[n])

Followed(i) == IF i \in Profile THEN ProfileFollowed(i) ELSE WatcherFollowed(i)

\* The entry is there, or not, as the call on it needs, and so is what it may put back.
Placed(k) ==
  LET i == k.item IN
  /\ k.step = "clone" => IsCached(i)
  /\ k.step = "write" => (IsCached(i) <=> k.op # "add") /\ (k.op # "add" => k.was = Clone(i))
  /\ k.step = "sent"  => /\ IsCached(i) <=> k.op # "remove"
                         /\ k.op # "add" /\ i \in Profile => Derivable(k.was)

Place(i) ==
  /\ \A c, d \in Caller : On(c, i) /\ On(d, i) => c = d
  /\ \A c \in Caller : On(c, i) => Placed(call[c])

PlaceInv == \A i \in Item \ parted : Place(i)

ItemInv(i) ==
  /\ \A c \in Caller : On(c, i) => Knows(call[c])
  /\ IF Calling(i) THEN \A t \in Topic : ~ Some(queue[t], Spoken(i)) ELSE Followed(i)

FollowInv == \A i \in Item \ Apart : ItemInv(i)

-----------------------------------------------------------------------------
(* Queues: what an append and a take do to the events about an item. *)

\* Everything said of the events of S in q is said of them in r.
Kept(q, r, S) ==
  /\ Some(r, S) <=> Some(q, S)
  /\ \A n : Last(r, S, n) => \E x : Last(q, S, x) /\ r[n] = q[x]
  /\ \A n : First(r, S, n) => \E x : First(q, S, x) /\ r[n] = q[x]
  /\ \A n, m : Follow(r, S, n, m) =>
       \E x, y : Follow(q, S, x, y) /\ r[n] = q[x] /\ r[m] = q[y]

\* r is q with one more event of S at its end.
Grown(q, r, S, e) ==
  /\ \A n : Last(r, S, n) => r[n] = e
  /\ \A n : First(r, S, n) =>
       \/ First(q, S, n) /\ r[n] = q[n]
       \/ ~ Some(q, S) /\ r[n] = e
  /\ \A n, m : Follow(r, S, n, m) =>
       \/ Follow(q, S, n, m) /\ r[n] = q[n] /\ r[m] = q[m]
       \/ Last(q, S, n) /\ r[n] = q[n] /\ r[m] = e

\* An append outside S says nothing new of S; one of S stands behind the others.
LEMMA AppendMoves ==
  ASSUME NEW q \in Seq(Event), NEW e \in Event, NEW S
  PROVE  /\ e \notin S => Kept(q, Append(q, e), S)
         /\ e \in S => Grown(q, Append(q, e), S, e)
<1> DEFINE r == Append(q, e)
           l == Len(q) + 1
<1>1. /\ Len(q) \in Nat /\ DOMAIN q = 1 .. Len(q)
      /\ DOMAIN r = 1 .. l /\ l \in DOMAIN r /\ r[l] = e
      /\ \A n \in DOMAIN q : r[n] = q[n]
  OBVIOUS
<1>2. \A n \in DOMAIN r : n \in DOMAIN q \/ n = l
  BY <1>1
<1>3. \A n \in DOMAIN q : n \in DOMAIN r /\ n < l
  BY <1>1
<1> HIDE DEF r, l
<1>4. ASSUME e \notin S PROVE Kept(q, r, S)
  <2>1. Some(r, S) <=> Some(q, S)
    BY <1>1, <1>2, <1>3, <1>4 DEF Some
  <2>2. ASSUME NEW n, Last(r, S, n) PROVE Last(q, S, n) /\ r[n] = q[n]
    BY <1>1, <1>2, <1>3, <1>4, <2>2 DEF Last
  <2>3. ASSUME NEW n, First(r, S, n) PROVE First(q, S, n) /\ r[n] = q[n]
    BY <1>1, <1>2, <1>3, <1>4, <2>3 DEF First
  <2>4. ASSUME NEW n, NEW m, Follow(r, S, n, m)
        PROVE  Follow(q, S, n, m) /\ r[n] = q[n] /\ r[m] = q[m]
    BY <1>1, <1>2, <1>3, <1>4, <2>4 DEF Follow
  <2> QED BY <2>1, <2>2, <2>3, <2>4 DEF Kept
<1>5. ASSUME e \in S, NEW n, Last(r, S, n) PROVE r[n] = e
  <2>1. n \in DOMAIN r /\ (l \in DOMAIN r /\ n < l => r[l] \notin S)
    BY <1>5 DEF Last
  <2>2. n \notin DOMAIN q
    BY <1>1, <1>3, <1>5, <2>1
  <2> QED BY <1>1, <1>2, <2>1, <2>2
<1>6. ASSUME e \in S, NEW n, First(r, S, n)
      PROVE  (First(q, S, n) /\ r[n] = q[n]) \/ (~ Some(q, S) /\ r[n] = e)
  BY <1>1, <1>2, <1>3, <1>6 DEF First, Some
<1>7. ASSUME e \in S, NEW n, NEW m, Follow(r, S, n, m)
      PROVE  \/ Follow(q, S, n, m) /\ r[n] = q[n] /\ r[m] = q[m]
             \/ Last(q, S, n) /\ r[n] = q[n] /\ r[m] = e
  <2>1. n \in DOMAIN r /\ m \in DOMAIN r /\ n < m /\ r[n] \in S /\ r[m] \in S
    BY <1>7 DEF Follow
  <2>2. n \in DOMAIN q
    BY <1>1, <2>1 DEF l
  <2>3. CASE m \in DOMAIN q
    BY <1>1, <1>3, <1>7, <2>1, <2>2, <2>3 DEF Follow
  <2>4. CASE m = l
    BY <1>1, <1>3, <1>7, <2>1, <2>2, <2>4 DEF Follow, Last
  <2> QED BY <1>2, <2>1, <2>3, <2>4
<1>8. e \in S => Grown(q, r, S, e)
  BY <1>5, <1>6, <1>7 DEF Grown
<1> QED BY <1>4, <1>8 DEF r

LEMMA AppendGrows ==
  ASSUME NEW q \in Seq(Event), NEW e \in Event, NEW S, e \in S
  PROVE  Grown(q, Append(q, e), S, e)
  BY AppendMoves

LEMMA TailMoves ==
  ASSUME NEW q \in Seq(Event), q # <<>>, NEW S
  PROVE  LET r == Tail(q) IN
         /\ Head(q) \notin S => Kept(q, r, S)
         /\ Head(q) \in S =>
              /\ First(q, S, 1) /\ q[1] = Head(q)
              /\ ~ Some(r, S) => Last(q, S, 1)
              /\ \A n : Last(r, S, n) => Last(q, S, n + 1) /\ r[n] = q[n + 1]
              /\ \A n : First(r, S, n) => Follow(q, S, 1, n + 1) /\ r[n] = q[n + 1]
              /\ \A n, m : Follow(r, S, n, m) =>
                   Follow(q, S, n + 1, m + 1) /\ r[n] = q[n + 1] /\ r[m] = q[m + 1]
<1> DEFINE r == Tail(q)
<1>1. /\ Len(q) \in Nat /\ DOMAIN q = 1 .. Len(q) /\ 1 \in DOMAIN q /\ q[1] = Head(q)
      /\ DOMAIN r = 1 .. Len(q) - 1
      /\ \A n \in DOMAIN r : r[n] = q[n + 1]
  OBVIOUS
<1>2. \A n \in DOMAIN r : n + 1 \in DOMAIN q /\ n \in Nat /\ 1 < n + 1
  BY <1>1
<1>3. \A n \in DOMAIN q : n # 1 => n - 1 \in DOMAIN r /\ q[n] = r[n - 1] /\ n = (n - 1) + 1
  BY <1>1
<1> HIDE DEF r
<1>4. ASSUME NEW n, Last(r, S, n) PROVE Last(q, S, n + 1) /\ r[n] = q[n + 1]
  <2>1. n \in DOMAIN r /\ r[n] \in S /\ r[n] = q[n + 1]
    BY <1>1, <1>4 DEF Last
  <2>2. ASSUME NEW m \in DOMAIN q, n + 1 < m PROVE q[m] \notin S
    <3>1. m # 1 /\ m - 1 \in DOMAIN r /\ n < m - 1
      BY <1>1, <1>2, <1>3, <2>1, <2>2
    <3> QED BY <1>3, <1>4, <3>1 DEF Last
  <2> QED BY <1>2, <2>1, <2>2 DEF Last
<1>5. ASSUME NEW n, NEW m, Follow(r, S, n, m)
      PROVE  Follow(q, S, n + 1, m + 1) /\ r[n] = q[n + 1] /\ r[m] = q[m + 1]
  <2>1. n \in DOMAIN r /\ m \in DOMAIN r /\ n < m /\ r[n] \in S /\ r[m] \in S
        /\ r[n] = q[n + 1] /\ r[m] = q[m + 1]
    BY <1>1, <1>5 DEF Follow
  <2>2. ASSUME NEW x \in DOMAIN q, n + 1 < x, x < m + 1 PROVE q[x] \notin S
    <3>1. x # 1 /\ x - 1 \in DOMAIN r /\ n < x - 1 /\ x - 1 < m
      BY <1>1, <1>2, <1>3, <2>1, <2>2
    <3> QED BY <1>3, <1>5, <3>1 DEF Follow
  <2> QED BY <1>1, <1>2, <2>1, <2>2 DEF Follow
<1>6. ASSUME Head(q) \in S, NEW n, First(r, S, n)
      PROVE  Follow(q, S, 1, n + 1) /\ r[n] = q[n + 1]
  <2>1. n \in DOMAIN r /\ r[n] \in S /\ r[n] = q[n + 1]
    BY <1>1, <1>6 DEF First
  <2>2. ASSUME NEW x \in DOMAIN q, 1 < x, x < n + 1 PROVE q[x] \notin S
    <3>1. x # 1 /\ x - 1 \in DOMAIN r /\ x - 1 < n
      BY <1>1, <1>2, <1>3, <2>1, <2>2
    <3> QED BY <1>3, <1>6, <3>1 DEF First
  <2> QED BY <1>1, <1>2, <1>6, <2>1, <2>2 DEF Follow
<1>7. ASSUME Head(q) \notin S, NEW n, First(r, S, n)
      PROVE  First(q, S, n + 1) /\ r[n] = q[n + 1]
  <2>1. n \in DOMAIN r /\ r[n] \in S /\ r[n] = q[n + 1]
    BY <1>1, <1>7 DEF First
  <2>2. ASSUME NEW x \in DOMAIN q, x < n + 1 PROVE q[x] \notin S
    <3>1. CASE x = 1
      BY <1>1, <1>7, <3>1
    <3>2. CASE x # 1
      <4>1. x - 1 \in DOMAIN r /\ x - 1 < n
        BY <1>1, <1>2, <1>3, <2>1, <2>2, <3>2
      <4> QED BY <1>3, <1>7, <3>2, <4>1 DEF First
    <3> QED BY <3>1, <3>2
  <2> QED BY <1>2, <2>1, <2>2 DEF First
<1>8. ASSUME Head(q) \notin S PROVE Kept(q, r, S)
  <2>1. Some(r, S) <=> Some(q, S)
    BY <1>1, <1>2, <1>3, <1>8 DEF Some
  <2> QED BY <1>4, <1>5, <1>7, <1>8, <2>1 DEF Kept
<1>9. ASSUME Head(q) \in S PROVE First(q, S, 1) /\ (~ Some(r, S) => Last(q, S, 1))
  BY <1>1, <1>3, <1>9 DEF First, Last, Some
<1> QED BY <1>1, <1>4, <1>5, <1>6, <1>8, <1>9 DEF r

\* r is q without the event of S at its head.
Shrunk(q, r, S) ==
  /\ First(q, S, 1)
  /\ ~ Some(r, S) => Last(q, S, 1)
  /\ \A n : Last(r, S, n) => Last(q, S, n + 1) /\ r[n] = q[n + 1]
  /\ \A n : First(r, S, n) => Follow(q, S, 1, n + 1) /\ r[n] = q[n + 1]
  /\ \A n, m : Follow(r, S, n, m) =>
       Follow(q, S, n + 1, m + 1) /\ r[n] = q[n + 1] /\ r[m] = q[m + 1]

LEMMA TailShrinks ==
  ASSUME NEW q \in Seq(Event), q # <<>>, NEW S, Head(q) \in S
  PROVE  Shrunk(q, Tail(q), S) /\ q[1] = Head(q)
  BY TailMoves DEF Shrunk

\* The queue goes on without an event about i, or with one more or fewer about others.
Passed(q, r, i) ==
  \/ r = q
  \/ \E e \in Event \ Spoken(i) : r = Append(q, e)
  \/ q # <<>> /\ Head(q) \notin Spoken(i) /\ r = Tail(q)

LEMMA PassedKept ==
  ASSUME NEW q \in Seq(Event), NEW r, NEW i, Passed(q, r, i), NEW S \in SUBSET Spoken(i)
  PROVE  Kept(q, r, S)
<1>1. CASE r = q
  BY <1>1 DEF Kept
<1>2. ASSUME NEW e \in Event \ Spoken(i), r = Append(q, e) PROVE Kept(q, r, S)
  BY <1>2, AppendMoves
<1>3. CASE q # <<>> /\ Head(q) \notin Spoken(i) /\ r = Tail(q)
  BY <1>3, TailMoves
<1> QED BY <1>1, <1>2, <1>3 DEF Passed

\* An item that a step leaves alone stays followed, or known to its call.
LEMMA UntouchedItem ==
  ASSUME QueueTyped, NEW i \in Item, ItemInv(i),
         Clone(i)' = Clone(i), held'[i] = held[i],
         \A c \in Caller : (On(c, i)' <=> On(c, i)) /\ (On(c, i) => call'[c] = call[c]),
         \A t \in Topic : Passed(queue[t], queue'[t], i)
  PROVE  ItemInv(i)'
<1>1. Calling(i)' <=> Calling(i)
  BY DEF Calling, On
<1>3. ASSUME NEW x PROVE Follows(i, x) <=> Follows(i, x)'
  BY DEF Follows, Shared
<1>4. ASSUME NEW c \in Caller, On(c, i) PROVE Knows(call[c])'
  <2>1. Knows(call[c]) /\ call'[c] = call[c] /\ call[c].item = i
    BY <1>4 DEF ItemInv, On
  <2> QED BY <1>3, <2>1 DEF Knows
<1>6. ASSUME NEW t \in Topic, NEW S \in SUBSET Spoken(i) PROVE Kept(queue[t], queue'[t], S)
  BY PassedKept DEF QueueTyped
<1>7. CASE Calling(i)
  BY <1>1, <1>4, <1>6, <1>7 DEF ItemInv, Kept
<1>8. CASE ~ Calling(i) /\ i \in Profile
  <2>1. ProfileFollowed(i)
    BY <1>8 DEF ItemInv, Followed
  <2>2. Kept(queue["main"], queue'["main"], Updates(i))
        /\ Kept(queue["deleted"], queue'["deleted"], Deletes(i))
    BY <1>6 DEF Updates, Deletes, Topic
  <2>3. (Cached(profiles, i) <=> Cached(profiles', i)) /\ profiles'.all[i] = profiles.all[i]
    BY <1>8 DEF Clone, Cached
  <2>4. ProfileFollowed(i)'
    BY <2>1, <2>2, <2>3 DEF ProfileFollowed, Kept
  <2> QED BY <1>1, <1>4, <1>8, <2>4 DEF ItemInv, Followed
<1>9. CASE ~ Calling(i) /\ i \notin Profile
  <2> DEFINE q == queue[IF Instanced THEN "base" ELSE "main"]
             r == queue'[IF Instanced THEN "base" ELSE "main"]
  <2>1. WatcherFollowed(i)
    BY <1>9 DEF ItemInv, Followed
  <2>2. Kept(q, r, Spoken(i))
    BY <1>6 DEF Topic
  <2>3. watchers'[i] = watchers[i]
    BY <1>9 DEF Clone
  <2>4. Follows(i, watchers[i]) => Follows(i, watchers[i])'
    BY <1>3, <2>3
  <2>5. ~ Some(r, Spoken(i)) => Follows(i, watchers[i])'
    BY <2>1, <2>2, <2>4 DEF WatcherFollowed, Kept
  <2>6. \A n : Last(r, Spoken(i), n) => held'[i] = Told(r[n])
    BY <2>1, <2>2 DEF WatcherFollowed, Kept
  <2>7. \A n, m : Follow(r, Spoken(i), n, m) => (r[m].action = "add" <=> r[n].action = "delete")
    BY <2>1, <2>2 DEF WatcherFollowed, Kept
  <2>8. \A n : First(r, Spoken(i), n) => Fits(watchers'[i], r[n])
    BY <2>1, <2>2, <2>3 DEF WatcherFollowed, Kept
  <2>9. WatcherFollowed(i)'
    BY <2>5, <2>6, <2>7, <2>8 DEF WatcherFollowed, Fits, Shared
  <2> QED BY <1>1, <1>4, <1>9, <2>9 DEF ItemInv, Followed
<1> QED BY <1>7, <1>8, <1>9

\* With no event about it to come, a followed item says what Core Metadata says ...
LEMMA SilenceFollows ==
  ASSUME NEW i \in Item, Followed(i), \A t \in Topic : ~ Some(queue[t], Spoken(i))
  PROVE  Follows(i, Clone(i))
<1>1. CASE i \in Profile
  <2>1. ~ Some(queue["main"], Updates(i)) /\ ~ Some(queue["deleted"], Deletes(i))
    BY DEF Topic, Some, Updates, Deletes
  <2>2. Clone(i) # None => held[i] = Clone(i).edition
    BY <1>1, <2>1 DEF Followed, ProfileFollowed, Clone, Cached
  <2> QED BY <1>1, <2>2 DEF Follows
<1>2. CASE i \notin Profile
  BY <1>2 DEF Followed, WatcherFollowed, Clone, Topic
<1> QED BY <1>1, <1>2

\* ... and the other way round: what an undone or failed call leaves is followed.
LEMMA FollowsInSilence ==
  ASSUME CachesTyped', NEW i \in Item, \A t \in Topic : ~ Some(queue'[t], Spoken(i)),
         Follows(i, Clone(i))' \/ (i \in Profile /\ Clone(i)' = None)
  PROVE  Followed(i)'
<1>1. CASE i \in Profile
  <2>1. ~ Some(queue'["main"], Updates(i))
    BY DEF Topic, Some, Updates
  <2>2. \A n : ~ Last(queue'["main"], Updates(i), n)
    BY <2>1 DEF Some, Last
  <2>3. profiles'.all[i] # None => profiles'.all[i].edition # None
    BY <1>1, ProfileAssumption DEF CachesTyped, Maps, Content
  <2> QED BY <1>1, <2>1, <2>2, <2>3 DEF Followed, ProfileFollowed, Follows, Clone, Cached
<1>2. CASE i \notin Profile
  <2> DEFINE q == queue'[IF Instanced THEN "base" ELSE "main"]
  <2>1. ~ Some(q, Spoken(i))
    BY DEF Topic
  <2>2. /\ \A n : ~ Last(q, Spoken(i), n) /\ ~ First(q, Spoken(i), n)
        /\ \A n, m : ~ Follow(q, Spoken(i), n, m)
    BY <2>1 DEF Some, Last, First, Follow
  <2>3. Follows(i, watchers[i])'
    BY <1>2 DEF Clone
  <2> HIDE DEF q
  <2>4. WatcherFollowed(i)'
    BY <2>2, <2>3 DEF WatcherFollowed, q
  <2> QED BY <1>2, <2>4 DEF Followed
<1> QED BY <1>1, <1>2

\* An item of which the cache knows nothing or something.
LEMMA CloneTyped ==
  ASSUME CachesTyped, NEW i \in Item
  PROVE  /\ Clone(i) \in SaidOf(i) \union {None}
         /\ IsCached(i) <=> Clone(i) # None
         /\ None \notin SaidOf(i)
  BY ProfileAssumption, DefinitionAssumption
     DEF Clone, IsCached, Cached, SaidOf, Item, CachesTyped, Maps, Fields

\* An item that a step leaves alone stays in its place.
LEMMA PlaceKept ==
  ASSUME NEW i \in Item, Place(i), Clone(i)' = Clone(i),
         \A d \in Caller : On(d, i)' => On(d, i) /\ call'[d] = call[d]
  PROVE  Place(i)'
<1>1. IsCached(i)' <=> IsCached(i)
  BY DEF IsCached, Clone, Cached
<1>2. ASSUME NEW d \in Caller, On(d, i)' PROVE Placed(call[d])'
  <2>1. Placed(call[d]) /\ call'[d] = call[d] /\ call[d].item = i
    BY <1>2 DEF Place, On
  <2> QED BY <1>1, <2>1 DEF Placed
<1>3. \A c, d \in Caller : On(c, i)' /\ On(d, i)' => c = d
  BY DEF Place
<1> QED BY <1>2, <1>3 DEF Place

\* A step of the only call on an item.
LEMMA PlaceOfCall ==
  ASSUME NEW i \in Item, Place(i), NEW c \in Caller, On(c, i), call'[c].item = i,
         call'[c].step # "idle" => Placed(call[c])',
         \A d \in Caller : d # c => call'[d] = call[d]
  PROVE  Place(i)'
<1>1. \A d \in Caller : On(d, i)' => d = c
  BY DEF Place, On
<1>2. \A d \in Caller : On(d, i)' => Placed(call[d])'
  BY <1>1 DEF On
<1> QED BY <1>1, <1>2 DEF Place

\* A step of a call leaves the items of the other calls in their places.
LEMMA CallPlaces ==
  ASSUME PlaceInv, parted' = parted, NEW c \in Caller, call'[c].item = call[c].item,
         call[c].step # "idle", call[c].item \in Item,
         \A d \in Caller : d # c => call'[d] = call[d],
         \A i \in Item : i # call[c].item => Clone(i)' = Clone(i),
         call[c].item \notin parted /\ call'[c].step # "idle" => Placed(call[c])'
  PROVE  PlaceInv'
<1> SUFFICES ASSUME NEW i \in Item, i \notin parted PROVE Place(i)'
  BY DEF PlaceInv
<1>1. Place(i)
  BY DEF PlaceInv
<1>2. CASE i = call[c].item
  BY <1>1, <1>2, PlaceOfCall DEF On
<1>3. CASE i # call[c].item
  <2>1. \A d \in Caller : On(d, i)' => On(d, i) /\ call'[d] = call[d]
    BY <1>3 DEF On
  <2> QED BY <1>1, <1>3, <2>1, PlaceKept
<1> QED BY <1>2, <1>3

\* What the first write of a call raises, and why.
LEMMA WriteRaises ==
  ASSUME Carried, WholeInv, PlaceInv, NEW c \in Caller, Write(c),
         NEW k, k = call[c], NEW error, error = RaisedBy(k.op, k.item, k.says)
  PROVE
         /\ error \in {"nothing", "CacheError", "KeyError"}
         /\ error = "CacheError" => k.item \in parted
         /\ error = "KeyError" => /\ k.item \in rawly /\ k.item \in Profile
                                  /\ Clone(k.item)' = None
         /\ error = "nothing" =>
              /\ Clone(k.item)' = IF k.op = "remove" THEN None ELSE k.says
              /\ k.item \in Profile /\ k.op # "add" => Derivable(Clone(k.item))
         /\ \A i \in Item : i # k.item => Clone(i)' = Clone(i)
<1> DEFINE j == k.item
<1>1. /\ k.step = "write" /\ j \in Item
      /\ k.op \in {"add", "update", "remove"} /\ k.says \in SaidOf(j)
  BY CallCarries DEF Write
<1>2. /\ CachesTyped /\ Sound(profiles) /\ Modelled /\ Brings(k, rawly)
  BY DEF Carried, WholeInv
<1>3. WriteItem(k.op, j, k.says)
  BY DEF Write
<1>4. /\ \A i \in Item : i # j => Clone(i)' = Clone(i)
      /\ error = "nothing" => Clone(j)' = IF k.op = "remove" THEN None ELSE k.says
      /\ error = "nothing" /\ j \in Profile /\ k.op # "add" => Derivable(Clone(j))
      /\ error = "CacheError" => (IsCached(j) <=> k.op = "add")
      /\ error = "KeyError" => /\ j \in Profile /\ IsCached(j)
                               /\ ~ Derivable(Clone(j)) /\ Clone(j)' = None
      /\ error = "AttributeError" => j \in Profile /\ k.op # "remove" /\ ~ Derivable(k.says)
  BY <1>1, <1>2, <1>3, WriteLeaves
<1>5. error \in {"nothing", "CacheError", "AttributeError", "KeyError"}
  BY <1>1, RaisedByType
<1>6. error # "AttributeError"
  BY <1>1, <1>2, <1>4 DEF Brings, Derivable
<1>7. error = "CacheError" => j \in parted
  <2>1. j \notin parted => (IsCached(j) <=> k.op # "add")
    BY <1>1 DEF PlaceInv, Place, Placed, On
  <2> QED BY <1>4, <2>1
<1>8. error = "KeyError" => j \in rawly
  BY <1>2, <1>4 DEF Modelled, Derivable, Clone, IsCached
<1> QED BY <1>4, <1>5, <1>6, <1>7, <1>8

\* What the rollback of a call raises, and why.
LEMMA RefuseRaises ==
  ASSUME Carried, WholeInv, PlaceInv, NEW c \in Caller, Refuse(c),
         NEW k, k = call[c], NEW error, error = RaisedBy(Undone(k.op), k.item, k.was)
  PROVE
         /\ error \in {"nothing", "CacheError", "AttributeError", "KeyError"}
         /\ error = "CacheError" => k.item \in parted
         /\ error = "KeyError" => /\ k.item \in rawly /\ k.item \in Profile
                                  /\ Clone(k.item)' = None
         /\ error = "AttributeError" => k.item \in parted /\ k.item \in rawly
         /\ error = "nothing" => Clone(k.item)' = IF k.op = "add" THEN None ELSE k.was
         /\ \A i \in Item : i # k.item => Clone(i)' = Clone(i)
<1> DEFINE j == k.item
           op == Undone(k.op)
<1>1. /\ k.step = "sent" /\ j \in Item
      /\ k.op \in {"add", "update", "remove"}
      /\ k.op # "add" => k.was \in SaidOf(j)
  BY CallCarries DEF Refuse
<1>2. /\ CachesTyped /\ Sound(profiles) /\ Modelled /\ Brings(k, rawly)
  BY DEF Carried, WholeInv
<1>3. /\ op \in {"add", "update", "remove"}
      /\ op = "remove" <=> k.op = "add"
      /\ op = "add" <=> k.op = "remove"
      /\ op # "remove" => k.was \in SaidOf(j)
  BY <1>1 DEF Undone
<1> HIDE DEF op
<1>4. WriteItem(op, j, k.was)
  BY DEF Refuse, op
<1>5. /\ \A i \in Item : i # j => Clone(i)' = Clone(i)
      /\ error = "nothing" => Clone(j)' = IF op = "remove" THEN None ELSE k.was
      /\ error = "CacheError" => (IsCached(j) <=> op = "add")
      /\ error = "KeyError" => /\ j \in Profile /\ IsCached(j)
                               /\ ~ Derivable(Clone(j)) /\ Clone(j)' = None
      /\ error = "AttributeError" => j \in Profile /\ op # "remove" /\ ~ Derivable(k.was)
  BY <1>1, <1>2, <1>3, <1>4, WriteLeaves DEF op
<1>6. error \in {"nothing", "CacheError", "AttributeError", "KeyError"}
  BY <1>1, <1>3, RaisedByType DEF op
<1>7. j \notin parted => /\ IsCached(j) <=> k.op # "remove"
                         /\ k.op # "add" /\ j \in Profile => Derivable(k.was)
  BY <1>1 DEF PlaceInv, Place, Placed, On
<1>8. error = "CacheError" => j \in parted
  BY <1>3, <1>5, <1>7
<1>9. error = "KeyError" => j \in rawly
  BY <1>2, <1>5 DEF Modelled, Derivable, Clone, IsCached
<1>10. error = "AttributeError" => j \in parted /\ j \in rawly
  BY <1>1, <1>2, <1>3, <1>5, <1>7 DEF Brings, Derivable
<1> QED BY <1>3, <1>5, <1>6, <1>8, <1>9, <1>10

\* An error of one call is the documented one, or has the cause named for it.
Explained(k, crossed, broken) ==
  /\ k.error = "CacheError" => k.item \in crossed
  /\ k.error = "KeyError" => k.item \in broken
  /\ k.error = "AttributeError" => k.item \in crossed \intersect broken

LEMMA EndsItem ==
  ASSUME CallsTyped, NEW c \in Caller, NEW error, End(c, error)
  PROVE  /\ call'[c].item = call[c].item /\ call'[c].step = "idle" /\ call'[c].error = error
         /\ \A d \in Caller : d # c => call'[d] = call[d]
  BY DEF CallsTyped, End, NoCall

\* A step of a call: how it goes on, what it leaves of the other items, how it may end.
LEMMA SnapshotGoesOn ==
  ASSUME Carried, NEW c \in Caller, Snapshot(c)
  PROVE  /\ call[c].step = "clone" /\ call[c].item \in Item /\ call[c].op # "add"
         /\ call'[c].item = call[c].item
         /\ \A d \in Caller : d # c => call'[d] = call[d]
         /\ \A i : Clone(i)' = Clone(i)
         /\ \/ /\ IsCached(call[c].item) /\ call'[c].step = "write"
               /\ call'[c].op = call[c].op /\ call'[c].was = Clone(call[c].item)
               /\ call'[c].error = call[c].error
            \/ /\ ~ IsCached(call[c].item) /\ call'[c].step = "idle"
               /\ call'[c].error = "nothing" /\ End(c, "nothing")
<1> DEFINE k == call[c]
<1>1. k \in CallRecord /\ k.step = "clone" /\ k.item \in Item /\ k.op # "add"
  BY CallCarries DEF Snapshot
<1>2. \A i : Clone(i)' = Clone(i)
  BY DEF Snapshot, Clone
<1>3. CASE ~ IsCached(k.item)
  BY <1>1, <1>2, <1>3, EndsItem DEF Snapshot, Carried
<1>4. CASE IsCached(k.item)
  <2>1. call' = [call EXCEPT ![c] = [k EXCEPT !.step = "write", !.was = Clone(k.item)]]
    BY <1>1, <1>4 DEF Snapshot, CallRecord, Carried, CallsTyped
  <2> QED BY <1>1, <1>2, <1>4, <2>1 DEF Carried, CallsTyped, CallRecord
<1> QED BY <1>3, <1>4

LEMMA WriteGoesOn ==
  ASSUME Carried, NEW c \in Caller, Write(c)
  PROVE  LET k == call[c]  error == RaisedBy(k.op, k.item, k.says) IN
         /\ k.step = "write" /\ k.item \in Item /\ k.op \in {"add", "update", "remove"}
         /\ k.says \in SaidOf(k.item)
         /\ call'[c].item = k.item
         /\ \A d \in Caller : d # c => call'[d] = call[d]
         /\ \/ /\ error = "nothing" /\ call'[c].step = "sent"
               /\ call'[c].op = k.op /\ call'[c].says = k.says /\ call'[c].was = k.was
               /\ call'[c].error = k.error
            \/ /\ error # "nothing" /\ call'[c].step = "idle"
               /\ call'[c].error = error /\ End(c, error)
<1> PICK k : k = call[c]
  OBVIOUS
<1> DEFINE error == RaisedBy(k.op, k.item, k.says)
<1>1. /\ k \in CallRecord /\ k.step = "write" /\ k.item \in Item
      /\ k.op \in {"add", "update", "remove"} /\ k.says \in SaidOf(k.item)
  BY CallCarries DEF Write
<1> HIDE DEF error
<1>2. CASE error = "nothing"
  <2>1. call' = [call EXCEPT ![c] = [k EXCEPT !.step = "sent"]]
    BY <1>1, <1>2 DEF Write, CallRecord, Carried, CallsTyped, error
  <2> QED BY <1>1, <1>2, <2>1 DEF Carried, CallsTyped, CallRecord, error
<1>3. CASE error # "nothing"
  <2>1. End(c, error)
    BY <1>3 DEF Write, error
  <2> QED BY <1>1, <1>3, <2>1, EndsItem DEF Carried, error
<1> QED BY <1>2, <1>3

LEMMA SnapshotPlace ==
  ASSUME Carried, PlaceInv, NEW c \in Caller, Snapshot(c)
  PROVE  PlaceInv'
<1>0. PICK i, m : i = call[c].item /\ m = call'[c]
  OBVIOUS
<1>1. m.step # "idle" => Placed(call[c])'
  <2>1. IsCached(i)' <=> IsCached(i)
    BY DEF Snapshot, IsCached, Cached
  <2>2. Clone(i)' = Clone(i)
    BY SnapshotGoesOn
  <2>3. CASE m.step = "write"
    <3>1. m.item = i /\ m.op # "add" /\ m.was = Clone(i) /\ IsCached(i)
      BY <1>0, <2>3, SnapshotGoesOn
    <3> QED BY <1>0, <2>1, <2>2, <2>3, <3>1 DEF Placed
  <2> QED BY <1>0, <2>3, SnapshotGoesOn
<1> QED BY <1>0, <1>1, SnapshotGoesOn, CallPlaces DEF Snapshot

LEMMA WritePlace ==
  ASSUME Carried, WholeInv, PlaceInv, NEW c \in Caller, Write(c)
  PROVE  PlaceInv'
<1> PICK k : k = call[c]
  OBVIOUS
<1>1. ASSUME k.item \notin parted, call'[c].step # "idle" PROVE Placed(call[c])'
  <2>1. /\ RaisedBy(k.op, k.item, k.says) = "nothing" /\ call'[c].step = "sent"
        /\ call'[c].item = k.item /\ call'[c].op = k.op /\ call'[c].was = k.was
        /\ k.step = "write" /\ k.item \in Item /\ k.says \in SaidOf(k.item)
    BY <1>1, WriteGoesOn
  <2>2. /\ Clone(k.item)' = IF k.op = "remove" THEN None ELSE k.says
        /\ k.item \in Profile /\ k.op # "add" => Derivable(Clone(k.item))
    BY <2>1, WriteRaises
  <2>3. k.op # "add" => k.was = Clone(k.item)
    BY <1>1, <2>1 DEF PlaceInv, Place, Placed, On
  <2>4. IsCached(k.item)' <=> k.op # "remove"
    <3>1. None \notin SaidOf(k.item)
      BY <2>1, CloneTyped DEF Carried
    <3>2. IsCached(k.item)' <=> Clone(k.item)' # None
      BY DEF IsCached, Clone, Cached
    <3> QED BY <2>1, <2>2, <3>1, <3>2
  <2> QED BY <2>1, <2>2, <2>3, <2>4 DEF Placed
<1>2. parted' = parted
  BY DEF Write
<1>3. \A i \in Item : i # call[c].item => Clone(i)' = Clone(i)
  BY WriteRaises
<1>4. /\ call'[c].item = call[c].item /\ call[c].step # "idle" /\ call[c].item \in Item
      /\ \A d \in Caller : d # c => call'[d] = call[d]
  BY WriteGoesOn
<1> QED BY <1>1, <1>2, <1>3, <1>4, CallPlaces

\* A call that ends leaves its item to the others.
LEMMA EndedPlace ==
  ASSUME Carried, WholeInv, PlaceInv, NEW c \in Caller,
         Accept(c) \/ RefusedInside(c) \/ Refuse(c)
  PROVE  PlaceInv'
<1>1. PICK error : End(c, error)
  BY DEF Accept, RefusedInside, Refuse
<1>2. /\ call'[c].item = call[c].item /\ call'[c].step = "idle"
      /\ \A d \in Caller : d # c => call'[d] = call[d]
  BY <1>1, EndsItem DEF Carried
<1>3. parted \subseteq parted' /\ call[c].step = "sent"
  BY DEF Accept, RefusedInside, Refuse
<1>4. \A i \in Item : i # call[c].item => Clone(i)' = Clone(i)
  <2>1. CASE Accept(c) \/ RefusedInside(c)
    BY <2>1 DEF Accept, RefusedInside, Clone
  <2>2. CASE Refuse(c)
    BY <2>2, RefuseRaises
  <2> QED BY <2>1, <2>2
<1> SUFFICES ASSUME NEW i \in Item, i \notin parted' PROVE Place(i)'
  BY DEF PlaceInv
<1>5. Place(i)
  BY <1>3 DEF PlaceInv
<1>6. CASE i = call[c].item
  BY <1>2, <1>3, <1>5, <1>6, PlaceOfCall DEF On
<1>7. CASE i # call[c].item
  <2>1. \A d \in Caller : On(d, i)' => On(d, i) /\ call'[d] = call[d]
    BY <1>2, <1>7 DEF On
  <2> QED BY <1>4, <1>5, <1>7, <2>1, PlaceKept
<1> QED BY <1>6, <1>7

LEMMA BeginPlace ==
  ASSUME Carried, PlaceInv, NEW c \in Caller, NEW j \in Item,
         NEW op \in {"add", "update", "remove"}, NEW says \in Statement(j), Begin(c, j, op, says)
  PROVE  PlaceInv'
<1> SUFFICES ASSUME NEW i \in Item, i \notin parted' PROVE Place(i)'
  BY DEF PlaceInv
<1>1. /\ call \in [Caller -> CallRecord] /\ call[c].step = "idle" /\ Place(i)
      /\ Clone(i)' = Clone(i) /\ (IsCached(i)' <=> IsCached(i))
  BY DEF Carried, CallsTyped, Begin, PlaceInv, Clone, IsCached, Cached
<1>2. ASSUME NEW k, call' = [call EXCEPT ![c] = k], k.step = "idle" \/ k.item # i
      PROVE  Place(i)'
  <2>1. \A d \in Caller : On(d, i)' => On(d, i) /\ call'[d] = call[d]
    BY <1>1, <1>2 DEF On
  <2> QED BY <1>1, <2>1, PlaceKept
<1>3. CASE IsCached(j) = (op = "add")
  <2> DEFINE k == [NoCall EXCEPT !.item = j, !.error = "EdgexError"]
  <2>1. call' = [call EXCEPT ![c] = k] /\ k.step = "idle"
    BY <1>3 DEF Begin, NoCall
  <2> QED BY <1>2, <2>1
<1>4. CASE IsCached(j) # (op = "add")
  <2>0. PICK k : k = [op |-> op, item |-> j, says |-> says,
                      step |-> IF op = "add" THEN "write" ELSE "clone", was |-> None,
                      error |-> "nothing"]
    OBVIOUS
  <2>1. /\ call' = [call EXCEPT ![c] = k] /\ k.item = j /\ k.op = op
        /\ k.step = IF op = "add" THEN "write" ELSE "clone"
    BY <1>4, <2>0 DEF Begin
  <2>2. CASE i # j
    BY <1>2, <2>1, <2>2
  <2>3. CASE i = j
    <3>1. ~ Calling(i)
      BY <1>4, <2>3 DEF Begin
    <3>2. \A d \in Caller : On(d, i)' => d = c
      BY <1>1, <2>1, <3>1 DEF Calling, On
    <3>3. call'[c] = k /\ (IsCached(i) <=> op # "add")
      BY <1>1, <1>4, <2>1, <2>3 DEF IsCached, Cached
    <3>4. Placed(call[c])'
      BY <1>1, <2>1, <2>3, <3>3 DEF Placed
    <3> QED BY <3>2, <3>4 DEF Place
  <2> QED BY <2>2, <2>3
<1> QED BY <1>3, <1>4

LEMMA LookPlace ==
  ASSUME Carried, WholeInv, PlaceInv, Look
  PROVE  PlaceInv'
<1> SUFFICES ASSUME NEW i \in Item, i \notin parted' PROVE Place(i)'
  BY DEF PlaceInv
<1>1. /\ CachesTyped /\ QueueTyped /\ Sound(profiles) /\ Modelled
      /\ call' = call /\ Place(i)
  BY DEF Carried, WholeInv, Look, Handle, PlaceInv
<1>2. CASE Clone(i)' = Clone(i)
  BY <1>1, <1>2, PlaceKept DEF On
<1>3. CASE Clone(i)' # Clone(i)
  <2>1. queue[turn] # <<>>
    BY <1>3 DEF Look, Clone
  <2>2. PICK e : e = Head(queue[turn])
    OBVIOUS
  <2>3. Handle(e) /\ e \in Event
    BY <1>1, <2>1, <2>2 DEF Look, QueueTyped
  <2>4. i = e.name
    BY <1>1, <1>3, <2>3, HandleLeaves
  <2>5. ~ Calling(i)
    BY <2>3, <2>4 DEF Handle
  <2> QED BY <1>1, <2>5 DEF Place, Calling, On
<1> QED BY <1>2, <1>3

LEMMA PlaceInvariant == Carried /\ WholeInv /\ PlaceInv /\ [Next]_vars => PlaceInv'
<1> SUFFICES ASSUME Carried, WholeInv, PlaceInv, [Next]_vars PROVE PlaceInv'
  OBVIOUS
<1>1. ASSUME NEW c \in Caller, Call(c) PROVE PlaceInv'
  BY <1>1, SnapshotPlace, WritePlace, EndedPlace DEF Call
<1>2. ASSUME NEW c \in Caller, NEW i \in Item, NEW op \in {"add", "update", "remove"},
             NEW says \in Statement(i), Begin(c, i, op, says)
      PROVE  PlaceInv'
  BY <1>2, BeginPlace
<1>3. CASE Look
  BY <1>3, LookPlace
<1>4. ASSUME profiles' = profiles, watchers' = watchers, call' = call, parted \subseteq parted'
      PROVE  PlaceInv'
  <2> SUFFICES ASSUME NEW i \in Item, i \notin parted' PROVE Place(i)'
    BY DEF PlaceInv
  <2>1. Place(i) /\ Clone(i)' = Clone(i)
    BY <1>4 DEF PlaceInv, Clone
  <2> QED BY <1>4, <2>1, PlaceKept DEF On
<1>5. ASSUME NEW i \in Item, NEW action \in {"add", "update", "delete"},
             NEW says \in Announcement(i), Edit(i, action, says)
      PROVE  PlaceInv'
  BY <1>4, <1>5 DEF Edit
<1>6. ASSUME NEW p \in Profile, ForeignDelete(p) PROVE PlaceInv'
  BY <1>4, <1>6 DEF ForeignDelete
<1>7. CASE UNCHANGED vars
  BY <1>4, <1>7 DEF vars
<1> QED BY <1>1, <1>2, <1>3, <1>5, <1>6, <1>7 DEF Next

LEMMA InitPlace == Init => PlaceInv
<1> SUFFICES ASSUME Init, NEW i \in Item PROVE Place(i)
  BY DEF PlaceInv
<1> QED BY DEF Init, NoCall, On, Place

LEMMA InitFollow == Init => FollowInv
<1> SUFFICES ASSUME Init, NEW i \in Item \ Apart PROVE ItemInv(i)
  BY DEF FollowInv
<1>1. PICK at \in {{}, Profile} :
        /\ profiles = Provisioned([p \in at |-> Default])
        /\ held = [j \in Item |-> IF j \in at THEN Default ELSE None]
  BY DEF Init
<1>2. /\ \A c \in Caller : ~ On(c, i)
      /\ ~ Calling(i)
  BY DEF Init, NoCall, On, Calling
<1>3. \A t \in Topic : ~ Some(queue[t], Spoken(i))
  BY DEF Init, Some
<1>4. CASE i \in Profile
  <2>1. profiles.all[i] = IF i \in at THEN [edition |-> Default, raw |-> FALSE, bare |-> FALSE]
                                       ELSE None
    BY <1>1, <1>4 DEF Provisioned
  <2>2. Cached(profiles, i) => held[i] = profiles.all[i].edition /\ held[i] # None
    BY <1>1, <2>1, DefinitionAssumption, ProfileAssumption DEF Cached, Item
  <2>3. \A n : ~ Last(queue["main"], Updates(i), n)
    BY DEF Init, Last, Topic
  <2> QED BY <1>2, <1>4, <2>2, <2>3 DEF ItemInv, Followed, ProfileFollowed
<1>5. CASE i \notin Profile
  <2> DEFINE q == queue[IF Instanced THEN "base" ELSE "main"]
  <2>1. watchers[i] = None /\ held[i] = None
    BY <1>1, <1>5 DEF Init, Item
  <2>2. q = <<>>
    BY DEF Init, Topic
  <2>3. WatcherFollowed(i)
    BY <1>5, <2>1, <2>2 DEF WatcherFollowed, Follows, Last, First, Follow
  <2> QED BY <1>2, <1>5, <2>3 DEF ItemInv, Followed
<1> QED BY <1>4, <1>5

\* Whoever waits about an item is told of every event the service takes.
LEMMA WaitingIsTold ==
  ASSUME QueueTyped, NEW i \in Item, ~ Waiting(i)
  PROVE  \A t \in Topic : ~ Some(queue[t], Spoken(i))
  BY DEF Waiting, Some, Spoken

LEMMA BeginFollow ==
  ASSUME Carried, FollowInv, NEW c \in Caller, NEW j \in Item,
         NEW op \in {"add", "update", "remove"}, NEW says \in Statement(j), Begin(c, j, op, says)
  PROVE  FollowInv'
<1> SUFFICES ASSUME NEW i \in Item, i \notin Apart' PROVE ItemInv(i)'
  BY DEF FollowInv
<1>1. /\ CachesTyped /\ QueueTyped /\ call \in [Caller -> CallRecord]
  BY DEF Carried, CallsTyped
<1>2. /\ profiles' = profiles /\ watchers' = watchers /\ held' = held /\ queue' = queue
      /\ call[c].step = "idle"
  BY DEF Begin
<1>3. i \notin parted' /\ ItemInv(i)
  BY DEF Begin, FollowInv, Apart
<1>4. Clone(i)' = Clone(i) /\ \A t \in Topic : Passed(queue[t], queue'[t], i)
  BY <1>2 DEF Clone, Passed
<1>5. ASSUME NEW k, call' = [call EXCEPT ![c] = k], k.step = "idle" \/ k.item # i
      PROVE  ItemInv(i)'
  <2>1. \A d \in Caller : (On(d, i)' <=> On(d, i)) /\ (On(d, i) => call'[d] = call[d])
    BY <1>1, <1>2, <1>5 DEF On
  <2> QED BY <1>1, <1>2, <1>3, <1>4, <2>1, UntouchedItem
<1>6. CASE IsCached(j) = (op = "add")
  <2> DEFINE k == [NoCall EXCEPT !.item = j, !.error = "EdgexError"]
  <2>1. call' = [call EXCEPT ![c] = k] /\ k.step = "idle"
    BY <1>6 DEF Begin, NoCall
  <2> QED BY <1>5, <2>1
<1>7. CASE IsCached(j) # (op = "add")
  <2> DEFINE new == [op |-> op, item |-> j, says |-> says, step |-> IF op = "add" THEN "write" ELSE "clone",
                     was |-> None, error |-> "nothing"]
  <2>0. PICK k : k = new
    OBVIOUS
  <2>1. call' = [call EXCEPT ![c] = k] /\ k.item = j /\ k.op = op
        /\ k.step = IF op = "add" THEN "write" ELSE "clone"
    BY <1>7, <2>0 DEF Begin
  <2>2. CASE i # j
    BY <1>5, <2>1, <2>2
  <2>3. CASE i = j
    <3>1. ~ Calling(i) /\ ~ Waiting(i)
      BY <1>3, <1>7, <2>3 DEF Begin
    <3>2. \A t \in Topic : ~ Some(queue[t], Spoken(i))
      BY <1>1, <3>1, WaitingIsTold
    <3>3. Follows(i, Clone(i))
      BY <1>3, <3>1, <3>2, SilenceFollows DEF ItemInv
    <3>4. \A d \in Caller : ~ On(d, i)
      BY <3>1 DEF Calling, On
    <3>5. \A d \in Caller : On(d, i)' <=> d = c
      BY <1>1, <2>1, <2>3, <3>4 DEF On
    <3>6. Follows(i, Clone(i))'
      BY <1>2, <3>3 DEF Follows, Shared, Clone
    <3>7. call'[c] = k
      BY <1>1, <2>1
    <3>8. Knows(call[c])'
      BY <2>1, <2>3, <3>6, <3>7 DEF Knows
    <3>9. Calling(i)'
      BY <3>5 DEF Calling, On
    <3> QED BY <1>2, <3>2, <3>5, <3>8, <3>9 DEF ItemInv
  <2> QED BY <2>2, <2>3
<1> QED BY <1>6, <1>7

\* When the only call on an item has ended, it has to be followed.
LEMMA EndedItem ==
  ASSUME CallsTyped, NEW i \in Item, Place(i), NEW c \in Caller, On(c, i), NEW error,
         End(c, error), Followed(i)'
  PROVE  ItemInv(i)'
<1>1. \A d \in Caller : On(d, i) => d = c
  BY DEF Place
<1>2. call'[c].step = "idle" /\ \A d \in Caller : d # c => call'[d] = call[d]
  BY DEF End, CallsTyped, NoCall
<1>3. \A d \in Caller : ~ On(d, i)'
  BY <1>1, <1>2 DEF On
<1>4. ~ Calling(i)'
  BY <1>3 DEF Calling, On
<1> QED BY <1>3, <1>4 DEF ItemInv

\* A step of a call on another item.
LEMMA OtherCall ==
  ASSUME Carried, NEW i \in Item, ItemInv(i), NEW c \in Caller, call[c].item # i,
         call'[c].item = call[c].item, \A d \in Caller : d # c => call'[d] = call[d],
         Clone(i)' = Clone(i), held'[i] = held[i],
         \A t \in Topic : Passed(queue[t], queue'[t], i)
  PROVE  ItemInv(i)'
<1>1. \A d \in Caller : (On(d, i)' <=> On(d, i)) /\ (On(d, i) => call'[d] = call[d])
  BY DEF On
<1> QED BY <1>1, UntouchedItem DEF Carried

\* What is known of the item of a call, unless steps on it crossed.
LEMMA CallKnows ==
  ASSUME PlaceInv, FollowInv, NEW c \in Caller, NEW j \in Item, On(c, j), j \notin Apart
  PROVE  /\ ItemInv(j) /\ Place(j) /\ Knows(call[c]) /\ Placed(call[c]) /\ Calling(j)
         /\ \A t \in Topic : ~ Some(queue[t], Spoken(j))
<1>1. ItemInv(j) /\ Place(j)
  BY DEF PlaceInv, FollowInv, Apart
<1>2. Calling(j)
  BY DEF Calling, On
<1> QED BY <1>1, <1>2 DEF ItemInv, Place

\* A call that goes on with what it knows.
LEMMA GoesOnFollowing ==
  ASSUME Carried, PlaceInv, FollowInv, Apart' = Apart, NEW c \in Caller,
         call[c].item \in Item, call[c].step # "idle", held' = held, queue' = queue,
         call'[c].item = call[c].item, call'[c].step # "idle",
         \A d \in Caller : d # c => call'[d] = call[d],
         \A i \in Item : i # call[c].item => Clone(i)' = Clone(i),
         call[c].item \notin Apart => Knows(call[c])'
  PROVE  FollowInv'
<1> SUFFICES ASSUME NEW i \in Item, i \notin Apart PROVE ItemInv(i)'
  BY DEF FollowInv
<1>1. \A t : Passed(queue[t], queue'[t], i)
  BY DEF Passed
<1>2. ItemInv(i)
  BY DEF FollowInv
<1>3. CASE i # call[c].item
  BY <1>1, <1>2, <1>3, OtherCall
<1>4. CASE i = call[c].item
  <2>1. On(c, i) /\ On(c, i)'
    BY <1>4 DEF On
  <2>2. Place(i) /\ \A t \in Topic : ~ Some(queue[t], Spoken(i))
    BY <2>1, CallKnows
  <2>3. \A d \in Caller : On(d, i)' => d = c
    BY <2>1, <2>2 DEF On, Place
  <2>4. Calling(i)'
    BY <2>1 DEF Calling, On
  <2> QED BY <1>4, <2>2, <2>3, <2>4 DEF ItemInv
<1> QED BY <1>3, <1>4

\* A call that ends and leaves its item followed, or given up.
LEMMA EndsFollowing ==
  ASSUME Carried, PlaceInv, FollowInv, Apart \subseteq Apart', NEW c \in Caller,
         NEW j \in Item, call[c].item = j, call[c].step # "idle", held' = held, queue' = queue,
         NEW error, End(c, error),
         \A i \in Item : i # j => Clone(i)' = Clone(i),
         j \notin Apart' => Followed(j)'
  PROVE  FollowInv'
<1> SUFFICES ASSUME NEW i \in Item, i \notin Apart' PROVE ItemInv(i)'
  BY DEF FollowInv
<1>1. /\ call'[c].item = call[c].item /\ \A d \in Caller : d # c => call'[d] = call[d]
      /\ \A t : Passed(queue[t], queue'[t], i)
  BY EndsItem DEF Carried, Passed
<1>2. ItemInv(i)
  BY DEF FollowInv
<1>3. CASE i # j
  BY <1>1, <1>2, <1>3, OtherCall
<1>4. CASE i = j
  <2>1. On(c, i)
    BY <1>4 DEF On
  <2>2. Place(i)
    BY <2>1, CallKnows
  <2> QED BY <1>4, <2>1, <2>2, EndedItem DEF Carried
<1> QED BY <1>3, <1>4

LEMMA SnapshotFollow ==
  ASSUME Carried, PlaceInv, FollowInv, NEW c \in Caller, Snapshot(c)
  PROVE  FollowInv'
<1> PICK k : k = call[c]
  OBVIOUS
<1> DEFINE j == k.item
<1>1. /\ Apart' = Apart /\ held' = held /\ queue' = queue
  BY DEF Snapshot, Apart
<1>2. /\ k.step = "clone" /\ j \in Item /\ k.op # "add" /\ call'[c].item = j
      /\ \A d \in Caller : d # c => call'[d] = call[d]
      /\ \A i : Clone(i)' = Clone(i)
      /\ \/ /\ call'[c].step = "write" /\ call'[c].op = k.op /\ call'[c].was = Clone(j)
         \/ ~ IsCached(j) /\ End(c, "nothing")
  BY SnapshotGoesOn
<1>3. On(c, j)
  BY <1>2 DEF On
<1>4. CASE call'[c].step = "write" /\ call'[c].op = k.op /\ call'[c].was = Clone(j)
  <2>1. ASSUME j \notin Apart PROVE Knows(call[c])'
    <3>1. Follows(j, Clone(j))
      BY <1>2, <1>3, <2>1, CallKnows DEF Knows
    <3>2. Follows(j, Clone(j))'
      BY <1>1, <1>2, <3>1 DEF Follows, Shared
    <3> QED BY <1>2, <1>4, <3>2 DEF Knows
  <2> QED BY <1>1, <1>2, <1>4, <2>1, GoesOnFollowing
<1>5. CASE ~ IsCached(j) /\ End(c, "nothing")
  <2>1. j \in Apart
    BY <1>2, <1>3, <1>5, CallKnows DEF Placed
  <2> QED BY <1>1, <1>2, <1>5, <2>1, EndsFollowing
<1> QED BY <1>2, <1>4, <1>5

LEMMA WriteFollow ==
  ASSUME Carried, WholeInv, PlaceInv, FollowInv, NEW c \in Caller, Write(c)
  PROVE  FollowInv'
<1> PICK k : k = call[c]
  OBVIOUS
<1>0. PICK error : error = RaisedBy(k.op, k.item, k.says)
  OBVIOUS
<1> DEFINE j == k.item
<1>1. /\ Apart' = Apart /\ held' = held /\ queue' = queue
  BY DEF Write, Apart
<1>2. /\ k.step = "write" /\ j \in Item /\ k.op \in {"add", "update", "remove"}
      /\ k.says \in SaidOf(j) /\ call'[c].item = j
      /\ \A d \in Caller : d # c => call'[d] = call[d]
      /\ \/ /\ error = "nothing" /\ call'[c].step = "sent"
            /\ call'[c].op = k.op /\ call'[c].says = k.says /\ call'[c].was = k.was
         \/ error # "nothing" /\ End(c, error)
  BY <1>0, WriteGoesOn
<1>3. /\ error \in {"nothing", "CacheError", "KeyError"}
      /\ error = "CacheError" => j \in Apart
      /\ error = "KeyError" => j \in Profile /\ Clone(j)' = None
      /\ error = "nothing" => Clone(j)' = IF k.op = "remove" THEN None ELSE k.says
      /\ \A i \in Item : i # j => Clone(i)' = Clone(i)
  BY <1>0, WriteRaises DEF Apart
<1>4. On(c, j)
  BY <1>2 DEF On
<1>5. CASE /\ error = "nothing" /\ call'[c].step = "sent"
           /\ call'[c].op = k.op /\ call'[c].says = k.says /\ call'[c].was = k.was
  <2>1. ASSUME j \notin Apart PROVE Knows(call[c])'
    <3>1. /\ Follows(j, Clone(j)) /\ (k.op # "add" => k.was = Clone(j))
          /\ (IsCached(j) <=> k.op # "add")
      BY <1>2, <1>4, <2>1, CallKnows DEF Knows, Placed
    <3>2. k.op = "add" => Clone(j) = None
      BY <1>2, <3>1, CloneTyped DEF Carried
    <3>3. Follows(j, IF k.op = "add" THEN None ELSE k.was)
      BY <3>1, <3>2
    <3>4. Follows(j, IF k.op = "add" THEN None ELSE k.was)'
      <4>0. PICK x : x = IF k.op = "add" THEN None ELSE k.was
        OBVIOUS
      <4>1. Follows(j, x)'
        BY <1>1, <3>3, <4>0 DEF Follows, Shared
      <4> QED BY <4>0, <4>1 DEF Follows
    <3>5. k.op # "remove" => Clone(j)' = k.says
      BY <1>3, <1>5
    <3> QED BY <1>2, <1>5, <3>4, <3>5 DEF Knows
  <2> QED BY <1>1, <1>2, <1>3, <1>5, <2>1, GoesOnFollowing
<1>6. CASE error # "nothing" /\ End(c, error)
  <2>1. j \notin Apart => Followed(j)'
    BY <1>3, <1>6 DEF Followed, ProfileFollowed, Clone, Cached
  <2> QED BY <1>1, <1>2, <1>3, <1>6, <2>1, EndsFollowing
<1> QED BY <1>2, <1>5, <1>6

LEMMA RefusedInsideFollow ==
  ASSUME Carried, PlaceInv, FollowInv, NEW c \in Caller, RefusedInside(c)
  PROVE  FollowInv'
<1>1. /\ Apart \subseteq Apart' /\ call[c].item \in Apart' /\ held' = held /\ queue' = queue
      /\ \A i : Clone(i)' = Clone(i)
  BY DEF RefusedInside, Apart, Clone
<1>2. call[c].step # "idle" /\ call[c].item \in Item /\ End(c, "nothing")
  BY CallCarries DEF RefusedInside
<1> QED BY <1>1, <1>2, EndsFollowing

\* Where an event about an item is published.
LEMMA TopicOfEvent ==
  ASSUME NEW e \in Event
  PROVE  /\ e.name \in Profile /\ e.action # "delete" => TopicOf(e) = "main"
         /\ e.name \in Profile /\ e.action = "delete" => TopicOf(e) = "deleted"
         /\ e.name \notin Profile => TopicOf(e) = IF Instanced THEN "base" ELSE "main"
         /\ TopicOf(e) \in Topic
<1>1. e.type = IF e.name \in Profile THEN "deviceprofile" ELSE "provisionwatcher"
  BY DEF Event, EventRecord, WellSaid
<1>2. ASSUME ~ (e.type = "deviceprofile" /\ e.action = "delete"),
             ~ (e.type = "provisionwatcher" /\ Instanced)
      PROVE  TopicOf(e) = "main"
  BY <1>2 DEF TopicOf
<1>3. ASSUME e.type = "deviceprofile", e.action = "delete" PROVE TopicOf(e) = "deleted"
  BY <1>3 DEF TopicOf
<1>4. ASSUME e.type = "provisionwatcher", Instanced PROVE TopicOf(e) = "base"
  BY <1>4 DEF TopicOf
<1>5. TopicOf(e) \in Topic
  BY DEF TopicOf, Topic
<1> QED BY <1>1, <1>2, <1>3, <1>4, <1>5

\* An event about one item passes the others by, on whatever topic it is published.
LEMMA PublishPasses ==
  ASSUME QueueTyped, NEW e \in Event, Publish(e), NEW i, e \notin Spoken(i)
  PROVE  \A t \in Topic : Passed(queue[t], queue'[t], i)
<1>1. TopicOf(e) \in Topic /\ queue \in [Topic -> Seq(Event)]
  BY DEF TopicOf, Topic, QueueTyped
<1> SUFFICES ASSUME NEW t \in Topic PROVE Passed(queue[t], queue'[t], i)
  OBVIOUS
<1>2. CASE queue'[t] = queue[t]
  BY <1>2 DEF Passed
<1>3. CASE queue'[t] = Append(queue[t], e)
  BY <1>3 DEF Passed
<1> QED BY <1>1, <1>2, <1>3 DEF Publish

\* With nothing to come about a watcher, an event tells how the call or the edit ended
\* that it is about; with something to come it goes on from there.
LEMMA WatcherTold ==
  ASSUME QueueTyped, NEW w \in Watcher, w \notin Profile, NEW e \in Event,
         Posted(TopicOf(e), e, ended'), e \in Spoken(w), Publish(e), ~ Lost(e),
         held'[w] = Told(e),
         LET q == queue[IF Instanced THEN "base" ELSE "main"]
             S == Spoken(w) IN
         /\ ~ Some(q, S) => Fits(watchers'[w], e)
         /\ \A n : First(q, S, n) => Fits(watchers'[w], q[n])
         /\ \A n : Last(q, S, n) => (e.action = "add" <=> q[n].action = "delete")
         /\ \A n, m : Follow(q, S, n, m) => (q[m].action = "add" <=> q[n].action = "delete")
  PROVE  WatcherFollowed(w)'
<1> DEFINE t == IF Instanced THEN "base" ELSE "main"
           q == queue[t]
           r == queue'[t]
           S == Spoken(w)
<1>1. TopicOf(e) = t /\ t \in Topic
  <2>1. e.name = w
    BY DEF Spoken
  <2> QED BY <2>1, TopicOfEvent
<1>2. r = Append(q, e) /\ q \in Seq(Event)
  <2>1. queue[t] \in Seq(Event) /\ Len(queue[t]) < Room
    BY <1>1, DefinitionAssumption DEF QueueTyped, Lost
  <2> QED BY <1>1, <2>1 DEF QueueTyped, Publish
<1>3. r[Len(q) + 1] = e /\ Len(q) + 1 \in DOMAIN r
  BY <1>2
<1>4. Some(r, S)
  BY <1>3 DEF Some
<1>0. PICK x, u : x = q /\ u = S
  OBVIOUS
<1>5. /\ \A n : Last(r, S, n) => r[n] = e
      /\ \A n : First(r, S, n) =>
           \/ First(q, S, n) /\ r[n] = q[n]
           \/ ~ Some(q, S) /\ r[n] = e
      /\ \A n, m : Follow(r, S, n, m) =>
           \/ Follow(q, S, n, m) /\ r[n] = q[n] /\ r[m] = q[m]
           \/ Last(q, S, n) /\ r[n] = q[n] /\ r[m] = e
  <2>1. x \in Seq(Event) /\ e \in u /\ r = Append(x, e)
    BY <1>0, <1>2
  <2>2. Grown(x, r, u, e)
    BY <2>1, AppendGrows
  <2> QED BY <1>0, <2>2 DEF Grown
<1> HIDE DEF S, q, r
<1>6. \A n : Last(r, S, n) => held'[w] = Told(r[n])
  BY <1>5
<1>7. \A n : First(r, S, n) => Fits(watchers'[w], r[n])
  BY <1>5 DEF q, S
<1>8. \A n, m : Follow(r, S, n, m) => (r[m].action = "add" <=> r[n].action = "delete")
  BY <1>5 DEF q, S
<1> QED BY <1>4, <1>6, <1>7, <1>8 DEF WatcherFollowed, Fits, Shared, q, r, S

LEMMA AcceptFollow ==
  ASSUME Carried, WholeInv, PlaceInv, FollowInv, NEW c \in Caller, Accept(c)
  PROVE  FollowInv'
<1> PICK k : k = call[c]
  OBVIOUS
<1> DEFINE j == k.item
<1>1. /\ k \in CallRecord /\ k.step = "sent" /\ j \in Item
      /\ k.op \in {"add", "update", "remove"} /\ k.says \in SaidOf(j)
  BY CallCarries DEF Accept
<1>2. /\ CachesTyped /\ CallsTyped /\ QueueTyped
  BY DEF Carried
<1>3. PICK e : e = EventOf(j, ActionOf(k.op), SaysOf(k))
  OBVIOUS
<1>4. /\ e \in Event /\ Publish(e)
      /\ k.op # "remove" => /\ j \in Profile => Effect(k) \in Edition
                            /\ j \notin Profile => Effect(k) \in Fields
  BY <1>3, AcceptEvent DEF Accept
<1>5. /\ profiles' = profiles /\ watchers' = watchers
      /\ held' = [held EXCEPT ![j] = Effect(k)]
      /\ Apart \subseteq Apart' /\ (Lost(e) => j \in Apart')
      /\ End(c, "nothing")
  BY <1>3 DEF Accept, Apart
<1>6. /\ call'[c].item = j /\ call'[c].error = "nothing"
      /\ \A d \in Caller : d # c => call'[d] = call[d]
  BY <1>2, <1>5, EndsItem
<1>7. ActionOf(k.op) \in {"add", "update", "delete"}
      /\ (ActionOf(k.op) = "delete" => j \in ended')
  BY <1>1 DEF ActionOf, Accept
<1>8. /\ e.name = j /\ e.owner # "other" /\ e.action = ActionOf(k.op) /\ e.says = SaysOf(k)
      /\ Posted(TopicOf(e), e, ended')
  <2>0. PICK i, action, says, dead :
          i = j /\ action = ActionOf(k.op) /\ says = SaysOf(k) /\ dead = ended'
    OBVIOUS
  <2>1. e = EventOf(i, action, says) /\ i \in Item
        /\ action \in {"add", "update", "delete"} /\ (action = "delete" => i \in dead)
    BY <1>1, <1>3, <1>7, <2>0
  <2>2. /\ e.name = i /\ e.owner # "other" /\ e.action = action /\ e.says = says
        /\ Posted(TopicOf(e), e, dead)
    BY <2>1, EventPosted
  <2> QED BY <2>0, <2>2
<1>9. held' \in [Item -> Edition \union Fields \union {None}] /\ held'[j] = Effect(k)
      /\ \A i \in Item : i # j => held'[i] = held[i]
  BY <1>1, <1>5, CarriedInvariant DEF Next, Call, Carried, HeldTyped
<1>10. ASSUME NEW i \in Item, i \notin Apart', i # j PROVE ItemInv(i)'
  <2>1. ItemInv(i) /\ Clone(i)' = Clone(i) /\ held'[i] = held[i]
    BY <1>5, <1>9, <1>10 DEF FollowInv, Clone
  <2>2. e \notin Spoken(i)
    BY <1>8, <1>10 DEF Spoken
  <2>3. \A t \in Topic : Passed(queue[t], queue'[t], i)
    BY <1>2, <1>4, <2>2, PublishPasses
  <2> QED BY <1>6, <1>10, <2>1, <2>3, OtherCall
<1>11. ASSUME j \notin Apart' PROVE ItemInv(j)'
  <2>1. Place(j) /\ ~ Lost(e) /\ On(c, j)
    BY <1>1, <1>5, <1>11 DEF PlaceInv, Apart, On
  <2>2. /\ IF k.op = "remove" THEN ~ IsCached(j) ELSE IsCached(j) /\ Clone(j) = k.says
        /\ \A t \in Topic : ~ Some(queue[t], Spoken(j))
    <3>1. On(c, j) /\ j \notin Apart
      BY <1>1, <1>5, <1>11 DEF On
    <3> QED BY <1>1, <3>1, CallKnows DEF Knows, Placed
  <2>3. CASE j \in Profile
    <3>1. ASSUME k.op = "remove" PROVE ProfileFollowed(j)'
      <4>1. ~ Cached(profiles', j)
        BY <1>5, <2>2, <2>3, <3>1 DEF IsCached
      <4> QED BY <4>1 DEF ProfileFollowed
    <3>2. ASSUME k.op # "remove" PROVE ProfileFollowed(j)'
      <4> DEFINE q == queue["main"]
                 r == queue'["main"]
      <4>1. Effect(k) = k.says.edition /\ e.action # "delete" /\ e.says.edition = k.says.edition
        <5>1. k.says \in Content
          BY <1>1, <2>3 DEF SaidOf
        <5>2. SaysOf(k).edition = k.says.edition
          BY <2>3, <3>2, <5>1 DEF SaysOf, Content
        <5> QED BY <1>1, <1>8, <2>3, <3>2, <5>2 DEF Effect, ActionOf
      <4>2. TopicOf(e) = "main" /\ "main" \in Topic
        <5>1. TopicOf(e) = "main" /\ TopicOf(e) \in Topic
          BY <1>4, <1>8, <2>3, <4>1, TopicOfEvent
        <5> QED BY <5>1
      <4>3. r = Append(q, e) /\ q \in Seq(Event)
        <5>1. queue["main"] \in Seq(Event) /\ Len(queue["main"]) < Room
          BY <1>2, <2>1, <4>2, DefinitionAssumption DEF QueueTyped, Lost
        <5> QED BY <1>2, <1>4, <4>2, <5>1 DEF QueueTyped, Publish
      <4>4. ~ Some(q, Updates(j))
        BY <2>2, <4>2 DEF Some, Updates
      <4>5. /\ e \notin Updates(j) => Kept(q, r, Updates(j))
            /\ e \in Updates(j) => Some(r, Updates(j)) /\ \A n : Last(r, Updates(j), n) => r[n] = e
        <5>1. Len(q) + 1 \in DOMAIN r /\ r[Len(q) + 1] = e
          BY <4>3
        <5>2. e \in Updates(j) => Some(r, Updates(j))
          BY <5>1 DEF Some
        <5>3. PICK u : u = Updates(j)
          OBVIOUS
        <5>4. PICK x : x = q
          OBVIOUS
        <5>5. r = Append(x, e) /\ x \in Seq(Event)
          BY <4>3, <5>4
        <5>6. /\ e \notin u => Kept(x, Append(x, e), u)
              /\ e \in u => \A n : Last(Append(x, e), u, n) => Append(x, e)[n] = e
          <6>1. (e \notin u => Kept(x, Append(x, e), u)) /\ (e \in u => Grown(x, Append(x, e), u, e))
            BY <1>4, <5>5, AppendMoves
          <6> QED BY <6>1 DEF Grown
        <5> QED BY <5>2, <5>3, <5>4, <5>5, <5>6
      <4> HIDE DEF q, r
      <4>6. \A n : Last(r, Updates(j), n) => r[n].says.edition = held'[j]
        <5>1. \A n : ~ Last(q, Updates(j), n)
          BY <4>4 DEF Some, Last
        <5> QED BY <1>9, <4>1, <4>5, <5>1 DEF Kept
      <4>7. profiles'.all[j].edition = held'[j]
        BY <1>5, <1>9, <2>2, <2>3, <3>2, <4>1 DEF Clone
      <4>8. held'[j] # None
        BY <1>4, <1>9, <2>3, <3>2, ProfileAssumption
      <4> QED BY <4>6, <4>7, <4>8 DEF ProfileFollowed, r
    <3>3. Followed(j)'
      BY <2>3, <3>1, <3>2 DEF Followed
    <3> QED BY <1>1, <1>2, <1>5, <2>1, <3>3, EndedItem
  <2>4. CASE j \notin Profile
    <3> DEFINE q == queue[IF Instanced THEN "base" ELSE "main"]
               S == Spoken(j)
    <3>1. j \in Watcher /\ e \in S
      BY <1>1, <1>4, <1>8, <2>4 DEF Item, Spoken
    <3>2. Effect(k) = Told(e)
      BY <1>1, <1>8, <2>4 DEF Effect, Told, SaysOf, ActionOf
    <3>3. Fits(watchers'[j], e)
      <4>1. CASE k.op = "add"
        <5>1. e.action = "add" /\ watchers'[j] = k.says /\ e.says = k.says
          BY <1>5, <1>8, <2>2, <2>4, <4>1 DEF SaysOf, Effect, ActionOf, Clone
        <5> QED BY <5>1 DEF Fits, Shared
      <4>2. CASE k.op = "update"
        <5>1. e.action = "update" /\ watchers'[j] # None
          BY <1>5, <1>8, <2>2, <2>4, <4>2 DEF ActionOf, IsCached
        <5> QED BY <5>1 DEF Fits
      <4>3. CASE k.op = "remove"
        BY <1>8, <4>3 DEF ActionOf, Fits
      <4> QED BY <1>1, <4>1, <4>2, <4>3
    <3>4. ~ Some(q, S)
      BY <2>2 DEF Topic
    <3>5. /\ \A n : ~ Last(q, S, n) /\ ~ First(q, S, n)
          /\ \A n, m : ~ Follow(q, S, n, m)
      BY <3>4 DEF Some, Last, First, Follow
    <3>6. held'[j] = Told(e)
      BY <1>9, <3>2
    <3> HIDE DEF q, S
    <3>7. WatcherFollowed(j)'
      BY <1>2, <1>4, <1>8, <2>1, <2>4, <3>1, <3>3, <3>5, <3>6, WatcherTold DEF q, S
    <3>8. Followed(j)'
      BY <2>4, <3>7 DEF Followed
    <3> QED BY <1>1, <1>2, <1>5, <2>1, <3>8, EndedItem
  <2> QED BY <2>3, <2>4
<1> QED BY <1>10, <1>11 DEF FollowInv

LEMMA RefuseFollow ==
  ASSUME Carried, WholeInv, PlaceInv, FollowInv, NEW c \in Caller, Refuse(c)
  PROVE  FollowInv'
<1> PICK k : k = call[c]
  OBVIOUS
<1>0. PICK error : error = RaisedBy(Undone(k.op), k.item, k.was)
  OBVIOUS
<1> DEFINE j == k.item
<1>1. /\ Apart' = Apart /\ held' = held /\ queue' = queue
      /\ End(c, IF error = "nothing" THEN "EdgexError" ELSE error)
  BY <1>0 DEF Refuse, Apart
<1>2. k.step = "sent" /\ j \in Item /\ On(c, j)
  BY CallCarries DEF Refuse, On
<1>3. /\ error \in {"nothing", "CacheError", "AttributeError", "KeyError"}
      /\ error \in {"CacheError", "AttributeError"} => j \in Apart
      /\ error = "KeyError" => j \in Profile /\ Clone(j)' = None
      /\ error = "nothing" => Clone(j)' = IF k.op = "add" THEN None ELSE k.was
      /\ \A i \in Item : i # j => Clone(i)' = Clone(i)
  BY <1>0, RefuseRaises DEF Apart
<1>4. ASSUME j \notin Apart PROVE Followed(j)'
  <2>1. /\ Follows(j, IF k.op = "add" THEN None ELSE k.was)
        /\ \A t \in Topic : ~ Some(queue'[t], Spoken(j))
    BY <1>1, <1>2, <1>4, CallKnows DEF Knows
  <2>2. CASE error = "nothing"
    <3>0. PICK x : x = IF k.op = "add" THEN None ELSE k.was
      OBVIOUS
    <3>1. Clone(j)' = x /\ Follows(j, x)'
      BY <1>1, <1>3, <2>1, <2>2, <3>0 DEF Follows, Shared
    <3>2. Follows(j, Clone(j))'
      BY <3>1 DEF Follows
    <3>3. CachesTyped'
      BY CarriedInvariant DEF Next, Call, Carried
    <3> QED BY <1>2, <2>1, <3>2, <3>3, FollowsInSilence
  <2>3. CASE error = "KeyError"
    BY <1>3, <2>3 DEF Followed, ProfileFollowed, Clone, Cached
  <2> QED BY <1>3, <1>4, <2>2, <2>3
<1> QED BY <1>1, <1>2, <1>3, <1>4, EndsFollowing

LEMMA EditFollow ==
  ASSUME Carried, FollowInv, NEW j \in Item, NEW action \in {"add", "update", "delete"},
         NEW says \in Announcement(j), Edit(j, action, says)
  PROVE  FollowInv'
<1>1. CachesTyped /\ QueueTyped /\ HeldTyped
  BY DEF Carried
<1>2. PICK e : e = EventOf(j, action, says)
  OBVIOUS
<1>3. e \in Event
  BY <1>2, EditEvent
<1>4. /\ profiles' = profiles /\ watchers' = watchers /\ call' = call /\ Publish(e)
      /\ IF action = "add" THEN held[j] = None ELSE held[j] # None
      /\ Apart \subseteq Apart' /\ (Lost(e) \/ Calling(j) => j \in Apart')
      /\ action = "delete" => j \in ended'
  BY <1>2 DEF Edit, Apart
<1>5. held' = [held EXCEPT ![j] = IF action = "delete" THEN None
                                  ELSE IF j \in Profile THEN says.edition ELSE says]
  BY DEF Edit
<1>6. /\ held'[j] = IF action = "delete" THEN None
                    ELSE IF j \in Profile THEN says.edition ELSE says
      /\ \A i \in Item : i # j => held'[i] = held[i]
  BY <1>1, <1>5 DEF HeldTyped
<1>7. /\ e.name = j /\ e.owner # "other" /\ e.action = action /\ e.says = says
      /\ Posted(TopicOf(e), e, ended')
  BY <1>2, <1>4, EventPosted
<1>8. ASSUME NEW i \in Item, i \notin Apart', i # j PROVE ItemInv(i)'
  <2>1. ItemInv(i) /\ Clone(i)' = Clone(i) /\ held'[i] = held[i]
    BY <1>4, <1>6, <1>8 DEF FollowInv, Clone
  <2>2. e \notin Spoken(i)
    BY <1>7, <1>8 DEF Spoken
  <2>3. \A t \in Topic : Passed(queue[t], queue'[t], i)
    BY <1>1, <1>3, <1>4, <2>2, PublishPasses
  <2>4. \A c \in Caller : (On(c, i)' <=> On(c, i)) /\ (On(c, i) => call'[c] = call[c])
    BY <1>4 DEF On
  <2> QED BY <1>1, <2>1, <2>3, <2>4, UntouchedItem
<1>9. ASSUME j \notin Apart' PROVE ItemInv(j)'
  <2>1. ~ Lost(e) /\ ~ Calling(j) /\ Followed(j)
    BY <1>4, <1>9 DEF FollowInv, ItemInv
  <2>2. /\ ~ Calling(j)'
        /\ \A c \in Caller : ~ On(c, j)'
    BY <1>4, <2>1 DEF Calling, On
  <2>3. TopicOf(e) \in Topic /\ queue' = [queue EXCEPT ![TopicOf(e)] = Append(@, e)]
    <3>1. TopicOf(e) \in Topic
      BY <1>3, TopicOfEvent
    <3>2. Len(queue[TopicOf(e)]) < Room
      BY <1>1, <2>1, <3>1, DefinitionAssumption DEF QueueTyped, Lost
    <3> QED BY <1>4, <3>1, <3>2 DEF Publish
  <2>4. CASE j \in Profile
    <3>1. ProfileFollowed(j)
      BY <2>1, <2>4 DEF Followed
    <3>2. ASSUME action = "delete" PROVE ProfileFollowed(j)'
      <4>1. TopicOf(e) = "deleted"
        BY <1>3, <1>7, <2>4, <3>2, TopicOfEvent
      <4>2. queue'["deleted"] = Append(queue["deleted"], e) /\ queue["deleted"] \in Seq(Event)
        BY <1>1, <2>3, <4>1 DEF QueueTyped
      <4>3. e \in Deletes(j)
        BY <1>3, <1>7, <3>2 DEF Deletes, Spoken
      <4>4. Len(queue["deleted"]) + 1 \in DOMAIN queue'["deleted"]
            /\ queue'["deleted"][Len(queue["deleted"]) + 1] = e
        BY <4>2
      <4>5. Some(queue'["deleted"], Deletes(j))
        BY <4>3, <4>4 DEF Some
      <4> QED BY <4>5 DEF ProfileFollowed
    <3>3. ASSUME action # "delete" PROVE ProfileFollowed(j)'
      <4>1. TopicOf(e) = "main" /\ "main" \in Topic
        BY <1>3, <1>7, <2>3, <2>4, <3>3, TopicOfEvent
      <4>2. queue'["main"] = Append(queue["main"], e) /\ queue["main"] \in Seq(Event)
            /\ queue'["deleted"] = queue["deleted"]
        BY <1>1, <2>3, <4>1 DEF QueueTyped, Topic
      <4>3. held'[j] = says.edition /\ held'[j] # None
        <5>1. says.edition \in Edition
          BY <2>4 DEF Announcement
        <5> QED BY <1>6, <2>4, <3>3, <5>1, ProfileAssumption
      <4>4. CASE action = "add"
        <5>1. ~ Cached(profiles, j) \/ Some(queue["deleted"], Deletes(j))
          BY <1>4, <3>1, <4>4 DEF ProfileFollowed
        <5> QED BY <1>4, <4>2, <5>1 DEF ProfileFollowed
      <4>5. CASE action = "update"
        <5> DEFINE q == queue["main"]
                   r == queue'["main"]
        <5>1. PICK u : u = Updates(j)
          OBVIOUS
        <5>2. e \in u
          BY <1>3, <1>7, <4>5, <5>1 DEF Updates, Spoken
        <5>3. Grown(q, r, u, e)
          BY <1>3, <4>2, <5>2, AppendGrows
        <5>4. Len(q) + 1 \in DOMAIN r /\ r[Len(q) + 1] = e
          BY <4>2
        <5>5. Some(r, Updates(j)) /\ \A n : Last(r, Updates(j), n) => r[n] = e
          BY <5>1, <5>2, <5>3, <5>4 DEF Some, Grown
        <5>6. \A n : Last(r, Updates(j), n) => r[n].says.edition = held'[j]
          BY <1>7, <4>3, <5>5
        <5> QED BY <4>3, <5>5, <5>6 DEF ProfileFollowed
      <4> QED BY <3>3, <4>4, <4>5
    <3>4. ProfileFollowed(j)'
      BY <3>2, <3>3
    <3>5. Followed(j)'
      BY <2>4, <3>4 DEF Followed
    <3> QED BY <2>2, <3>5 DEF ItemInv
  <2>5. CASE j \notin Profile
    <3> DEFINE q == queue[IF Instanced THEN "base" ELSE "main"]
               S == Spoken(j)
    <3>1. j \in Watcher /\ e \in S
      BY <1>3, <1>7, <2>5 DEF Item, Spoken
    <3>2. WatcherFollowed(j)
      BY <2>1, <2>5 DEF Followed
    <3>3. held'[j] = Told(e)
      BY <1>6, <1>7, <2>5 DEF Told
    <3>4. ~ Some(q, S) => (watchers[j] = None <=> held[j] = None)
      BY <2>5, <3>2 DEF WatcherFollowed, Follows
    <3>5. ~ Some(q, S) => Fits(watchers'[j], e)
      BY <1>4, <1>7, <3>4 DEF Fits
    <3>6. \A n : First(q, S, n) => Fits(watchers'[j], q[n])
      BY <1>4, <3>2 DEF WatcherFollowed
    <3>7. \A n, m : Follow(q, S, n, m) => (q[m].action = "add" <=> q[n].action = "delete")
      BY <3>2 DEF WatcherFollowed
    <3>8. ASSUME NEW n, Last(q, S, n) PROVE e.action = "add" <=> q[n].action = "delete"
      <4>1. held[j] = Told(q[n])
        BY <3>2, <3>8 DEF WatcherFollowed
      <4>2. q[n] \in Event /\ q[n].name = j
        BY <3>8 DEF Last, Spoken
      <4>3. q[n].action # "delete" => q[n].says \in Fields
        BY <2>5, <4>2 DEF Event, WellSaid, SaidOf
      <4>4. held[j] = None <=> q[n].action = "delete"
        BY <4>1, <4>3, DefinitionAssumption DEF Told, Fields
      <4> QED BY <1>4, <1>7, <4>4
    <3> HIDE DEF q, S
    <3>9. WatcherFollowed(j)'
      BY <1>1, <1>3, <1>4, <1>7, <2>1, <2>5, <3>1, <3>3, <3>5, <3>6, <3>7, <3>8, WatcherTold
         DEF q, S
    <3>10. Followed(j)'
      BY <2>5, <3>9 DEF Followed
    <3> QED BY <2>2, <3>10 DEF ItemInv
  <2> QED BY <2>4, <2>5
<1> QED BY <1>8, <1>9 DEF FollowInv

LEMMA ForeignDeleteFollow ==
  ASSUME Carried, FollowInv, NEW p \in Profile, ForeignDelete(p)
  PROVE  FollowInv'
<1> SUFFICES ASSUME NEW i \in Item, i \notin Apart' PROVE ItemInv(i)'
  BY DEF FollowInv
<1>1. QueueTyped
  BY DEF Carried
<1>2. PICK e : e = [EventOf(p, "delete", None) EXCEPT !.owner = "other"]
  OBVIOUS
<1>3. e \in Event /\ e \notin Spoken(i)
  BY <1>2 DEF EventOf, Event, EventRecord, WellSaid, Says, Item, Spoken
<1>4. Publish(e)
  BY <1>2 DEF ForeignDelete
<1>5. \A t \in Topic : Passed(queue[t], queue'[t], i)
  BY <1>1, <1>3, <1>4, PublishPasses
<1>6. /\ Clone(i)' = Clone(i) /\ held'[i] = held[i] /\ ItemInv(i)
      /\ \A c \in Caller : (On(c, i)' <=> On(c, i)) /\ (On(c, i) => call'[c] = call[c])
  BY DEF ForeignDelete, Clone, FollowInv, On, Apart
<1> QED BY <1>1, <1>5, <1>6, UntouchedItem

\* What the handler makes of the watcher that an event fits.
LEMMA OnWatcherHears ==
  ASSUME CachesTyped, NEW e \in Event, e.name \notin Profile, Fits(watchers[e.name], e)
  PROVE  LET x == OnWatcher(e) IN
         /\ x = None <=> e.action = "delete"
         /\ e.action # "delete" => Shared(x, e.says)
<1> DEFINE w == e.name
<1>1. /\ w \in Watcher /\ watchers[w] \in Fields \union {None} /\ None \notin Fields
      /\ e.action \in {"add", "update", "delete"} /\ (e.action # "delete" => e.says \in Fields)
  BY DefinitionAssumption
     DEF Event, EventRecord, WellSaid, SaidOf, Item, CachesTyped, Fields
<1>2. CASE e.action = "add" /\ watchers[w] = None
  <2>1. OnWatcher(e) = [f \in Field |-> IF f \in OnAdd THEN e.says[f] ELSE Default]
    BY <1>2 DEF OnWatcher
  <2>2. OnWatcher(e) \in Fields /\ \A f \in OnAdd : OnWatcher(e)[f] = e.says[f]
    BY <1>1, <1>2, <2>1, DefinitionAssumption DEF Fields
  <2> QED BY <1>1, <1>2, <2>2 DEF Shared
<1>3. CASE e.action = "add" /\ watchers[w] # None
  <2>1. OnWatcher(e) = watchers[w]
    BY <1>3 DEF OnWatcher
  <2> QED BY <1>3, <2>1 DEF Fits
<1>4. CASE e.action = "update"
  <2>1. watchers[w] # None
    BY <1>4 DEF Fits
  <2>2. OnWatcher(e) = [f \in Field |-> IF f \in OnUpdate THEN e.says[f] ELSE watchers[w][f]]
    BY <1>4, <2>1 DEF OnWatcher
  <2>3. OnWatcher(e) \in Fields /\ \A f \in OnUpdate : OnWatcher(e)[f] = e.says[f]
    BY <1>1, <1>4, <2>1, <2>2, DefinitionAssumption DEF Fields
  <2> QED BY <1>1, <1>4, <2>3 DEF Shared
<1>5. CASE e.action = "delete"
  BY <1>5 DEF OnWatcher
<1> QED BY <1>1, <1>2, <1>3, <1>4, <1>5

\* The last of the events about a profile makes it what Core Metadata holds.
LEMMA LookAtProfile ==
  ASSUME CachesTyped, QueueTyped, NEW p \in Profile, ProfileFollowed(p), held' = held,
         NEW e \in Event, e \in Spoken(p), turn = TopicOf(e), Accepted(e),
         queue[turn] # <<>>, e = Head(queue[turn]), queue' = [queue EXCEPT ![turn] = Tail(@)],
         profiles'.all[p] = Heard(e)
  PROVE  ProfileFollowed(p)'
<1>1. e.name = p /\ e.action \in {"add", "update", "delete"}
  BY DEF Spoken, Event, EventRecord
<1>2. Heard(e) = CASE e.action = "update" -> IF IsCached(p) /\ Derivable(Clone(p)) THEN e.says
                                             ELSE None
                   [] e.action = "delete" -> None
                   [] e.action = "add"    -> Clone(p)
  BY <1>1 DEF Heard
<1>3. Clone(p) = profiles.all[p] /\ (IsCached(p) <=> Cached(profiles, p))
  BY DEF Clone, IsCached
<1>4. CASE e.action = "delete" \/ ~ Cached(profiles, p)
  <2>1. Heard(e) = None
    BY <1>1, <1>2, <1>3, <1>4 DEF Cached
  <2> QED BY <2>1 DEF ProfileFollowed, Cached
<1>5. ASSUME e.action # "delete", Cached(profiles, p) PROVE ProfileFollowed(p)'
  <2>1. turn = "main"
    BY <1>1, <1>5, TopicOfEvent
  <2>2. /\ queue'["main"] = Tail(queue["main"]) /\ queue["main"] \in Seq(Event)
        /\ queue'["deleted"] = queue["deleted"]
    BY <2>1 DEF QueueTyped, Topic
  <2>3. CASE Some(queue["deleted"], Deletes(p))
    BY <2>2, <2>3 DEF ProfileFollowed
  <2>4. CASE ~ Some(queue["deleted"], Deletes(p))
    <3> DEFINE q == queue["main"]
               r == queue'["main"]
    <3>1. PICK u : u = Updates(p)
      OBVIOUS
    <3>2. /\ held[p] # None
          /\ \A n : Last(q, u, n) => q[n].says.edition = held[p]
          /\ ~ Some(q, u) => held[p] = profiles.all[p].edition
      BY <1>5, <2>4, <3>1 DEF ProfileFollowed
    <3>3. q \in Seq(Event) /\ q # <<>> /\ r = Tail(q) /\ Head(q) = e
      BY <2>1, <2>2
    <3> HIDE DEF q, r
    <3>4. CASE e.action = "add"
      <4>1. profiles'.all[p] = profiles.all[p]
        BY <1>2, <1>3, <3>4
      <4>2. e \notin u
        BY <3>1, <3>4 DEF Updates
      <4>3. Kept(q, r, u)
        BY <3>3, <4>2, TailMoves
      <4>4. /\ \A n : Last(r, u, n) => r[n].says.edition = held[p]
            /\ ~ Some(r, u) => held[p] = profiles'.all[p].edition
        BY <3>2, <4>1, <4>3 DEF Kept
      <4> QED BY <3>1, <3>2, <4>4 DEF ProfileFollowed, r
    <3>5. CASE e.action = "update"
      <4>1. profiles'.all[p] = e.says \/ profiles'.all[p] = None
        BY <1>2, <3>5
      <4>2. e \in u
        BY <3>1, <3>5 DEF Updates
      <4>3. /\ q[1] = e
            /\ ~ Some(r, u) => Last(q, u, 1)
            /\ \A n : Last(r, u, n) => Last(q, u, n + 1) /\ r[n] = q[n + 1]
        <5>1. Shrunk(q, r, u) /\ q[1] = e
          BY <3>3, <4>2, TailShrinks
        <5> QED BY <5>1 DEF Shrunk
      <4>4. CASE profiles'.all[p] = None
        BY <4>4 DEF ProfileFollowed, Cached
      <4>5. CASE profiles'.all[p] = e.says
        <5>1. /\ \A n : Last(r, u, n) => r[n].says.edition = held[p]
              /\ ~ Some(r, u) => held[p] = profiles'.all[p].edition
          BY <3>2, <4>3, <4>5
        <5> QED BY <3>1, <3>2, <5>1 DEF ProfileFollowed, r
      <4> QED BY <4>1, <4>4, <4>5
    <3> QED BY <1>1, <1>5, <3>4, <3>5
  <2> QED BY <2>3, <2>4
<1> QED BY <1>4, <1>5

\* The first event of a watcher's chain goes, and the cache stands where it led.
LEMMA LookAtWatcher ==
  ASSUME CachesTyped, QueueTyped, NEW w \in Watcher, w \notin Profile, WatcherFollowed(w),
         held' = held, NEW e \in Event, e \in Spoken(w), turn = TopicOf(e), Accepted(e),
         queue[turn] # <<>>, e = Head(queue[turn]), queue' = [queue EXCEPT ![turn] = Tail(@)],
         watchers'[w] = OnWatcher(e)
  PROVE  WatcherFollowed(w)'
<1> DEFINE t == IF Instanced THEN "base" ELSE "main"
           q == queue[t]
           r == queue'[t]
           S == Spoken(w)
<1>1. e.name = w /\ turn = t
  BY TopicOfEvent DEF Spoken
<1>2. /\ q \in Seq(Event) /\ q # <<>> /\ r = Tail(q) /\ e = Head(q)
  BY <1>1 DEF QueueTyped
<1>3. e \in S /\ \A y \in S : y.action \in {"add", "update", "delete"}
  BY DEF Spoken, Event, EventRecord
<1>4. /\ \A n : Last(q, S, n) => held[w] = Told(q[n])
      /\ \A n, m : Follow(q, S, n, m) => (q[m].action = "add" <=> q[n].action = "delete")
      /\ \A n : First(q, S, n) => Fits(watchers[w], q[n])
  BY DEF WatcherFollowed
<1> HIDE DEF q, r, S
<1>5. /\ First(q, S, 1) /\ q[1] = e
      /\ ~ Some(r, S) => Last(q, S, 1)
      /\ \A n : Last(r, S, n) => Last(q, S, n + 1) /\ r[n] = q[n + 1]
      /\ \A n : First(r, S, n) => Follow(q, S, 1, n + 1) /\ r[n] = q[n + 1]
      /\ \A n, m : Follow(r, S, n, m) =>
           Follow(q, S, n + 1, m + 1) /\ r[n] = q[n + 1] /\ r[m] = q[m + 1]
  <2>1. Shrunk(q, r, S) /\ q[1] = e
    BY <1>2, <1>3, TailShrinks
  <2> QED BY <2>1 DEF Shrunk
<1>6. Fits(watchers[w], e)
  BY <1>4, <1>5
<1>7. PICK x : x = watchers'[w]
  OBVIOUS
<1>8. /\ x = None <=> e.action = "delete"
      /\ e.action # "delete" => Shared(x, e.says)
  BY <1>1, <1>6, <1>7, OnWatcherHears
<1>9. ~ Some(r, S) => Follows(w, x)
  <2> SUFFICES ASSUME ~ Some(r, S) PROVE Follows(w, x)
    OBVIOUS
  <2>1. held[w] = Told(e)
    BY <1>4, <1>5
  <2>2. e.action # "delete" => e.says # None
    BY <1>1, DefinitionAssumption DEF Event, WellSaid, SaidOf, Fields
  <2> QED BY <1>8, <2>1, <2>2 DEF Follows, Told
<1>10. \A n : Last(r, S, n) => held[w] = Told(r[n])
  BY <1>4, <1>5
<1>11. \A n, m : Follow(r, S, n, m) => (r[m].action = "add" <=> r[n].action = "delete")
  BY <1>4, <1>5
<1>12. ASSUME NEW n, First(r, S, n) PROVE Fits(x, r[n])
  <2>1. r[n] = q[n + 1] /\ (r[n].action = "add" <=> e.action = "delete")
    BY <1>4, <1>5, <1>12
  <2>2. r[n].action \in {"add", "update", "delete"}
    BY <1>3, <1>12 DEF First
  <2> QED BY <1>8, <2>1, <2>2 DEF Fits
<1>13. ~ Some(r, S) => Follows(w, watchers[w])'
  BY <1>7, <1>9 DEF Follows, Shared
<1>14. \A n : Last(r, S, n) => held'[w] = Told(r[n])
  BY <1>10
<1>15. \A n : First(r, S, n) => Fits(watchers'[w], r[n])
  BY <1>7, <1>12
<1> QED BY <1>11, <1>13, <1>14, <1>15 DEF WatcherFollowed, Fits, Shared, r, S

LEMMA LookFollow ==
  ASSUME Carried, WholeInv, FollowInv, Look
  PROVE  FollowInv'
<1> SUFFICES ASSUME NEW i \in Item, i \notin Apart' PROVE ItemInv(i)'
  BY DEF FollowInv
<1>1. /\ CachesTyped /\ QueueTyped /\ Sound(profiles) /\ Modelled /\ Posts
      /\ turn \in Topic /\ queue \in [Topic -> Seq(Event)]
  BY DEF Carried, WholeInv, QueueTyped
<1>2. /\ held' = held /\ Apart \subseteq Apart' /\ i \notin parted'
      /\ \A c \in Caller : (On(c, i)' <=> On(c, i)) /\ (On(c, i) => call'[c] = call[c])
  BY DEF Look, Handle, On, Apart
<1>3. ItemInv(i)
  BY <1>2 DEF FollowInv
<1>4. CASE queue[turn] = <<>>
  <2>1. Clone(i)' = Clone(i) /\ \A t \in Topic : Passed(queue[t], queue'[t], i)
    BY <1>4 DEF Look, Clone, Passed
  <2> QED BY <1>1, <1>2, <1>3, <2>1, UntouchedItem
<1>5. CASE queue[turn] # <<>>
  <2>1. PICK e : e = Head(queue[turn])
    OBVIOUS
  <2>2. /\ Handle(e) /\ e \in Event /\ queue' = [queue EXCEPT ![turn] = Tail(@)]
        /\ queue[turn] \in Seq(Event)
    BY <1>1, <1>5, <2>1 DEF Look
  <2>3. Posted(turn, e, ended)
    <3>1. 1 \in DOMAIN queue[turn] /\ queue[turn][1] = e
      BY <1>5, <2>1, <2>2
    <3> QED BY <1>1, <3>1 DEF Posts
  <2>4. /\ Clone(e.name)' = Heard(e)
        /\ \A j \in Item : j # e.name => Clone(j)' = Clone(j)
    BY <1>1, <2>2, HandleLeaves
  <2>5. CASE e \notin Spoken(i)
    <3>1. Clone(i)' = Clone(i)
      <4>1. CASE i # e.name
        BY <2>4, <4>1
      <4>2. CASE i = e.name
        <5>1. e.owner = "other" /\ e.type = "deviceprofile" /\ e.action = "delete"
          BY <2>2, <2>3, <2>5, <4>2 DEF Spoken, Posted
        <5>2. ~ Accepted(e)
          BY <5>1 DEF Accepted
        <5> QED BY <2>4, <4>2, <5>2 DEF Heard
      <4> QED BY <4>1, <4>2
    <3>2. \A t \in Topic : Passed(queue[t], queue'[t], i)
      BY <1>1, <1>5, <2>1, <2>2, <2>5 DEF Passed
    <3> QED BY <1>1, <1>2, <1>3, <3>1, <3>2, UntouchedItem
  <2>6. CASE e \in Spoken(i)
    <3>1. e.name = i /\ e.owner # "other"
      BY <2>6 DEF Spoken
    <3>2. Accepted(e) /\ TopicOf(e) = turn
      BY <2>3, <3>1 DEF Posted
    <3>3. ~ Calling(i)
      BY <1>2, <2>2, <3>1 DEF Handle
    <3>4. Followed(i)
      BY <1>3, <3>3 DEF ItemInv
    <3>5. ~ Calling(i)' /\ \A c \in Caller : ~ On(c, i)'
      BY <1>2, <3>3 DEF Calling, On
    <3>6. CASE i \in Profile
      <4>1. profiles'.all[i] = Heard(e) /\ ProfileFollowed(i)
        BY <2>4, <3>1, <3>4, <3>6 DEF Clone, Followed
      <4>2. ProfileFollowed(i)'
        BY <1>1, <1>2, <1>5, <2>1, <2>2, <2>6, <3>2, <3>6, <4>1, LookAtProfile
      <4>3. Followed(i)'
        BY <3>6, <4>2 DEF Followed
      <4> QED BY <3>5, <4>3 DEF ItemInv
    <3>7. CASE i \notin Profile
      <4>1. watchers'[i] = OnWatcher(e) /\ WatcherFollowed(i) /\ i \in Watcher
        BY <2>4, <3>1, <3>2, <3>4, <3>7 DEF Clone, Followed, Heard, Item
      <4>2. WatcherFollowed(i)'
        BY <1>1, <1>2, <1>5, <2>1, <2>2, <2>6, <3>2, <3>7, <4>1, LookAtWatcher
      <4>3. Followed(i)'
        BY <3>7, <4>2 DEF Followed
      <4> QED BY <3>5, <4>3 DEF ItemInv
    <3> QED BY <3>6, <3>7
  <2> QED BY <2>5, <2>6
<1> QED BY <1>4, <1>5

LEMMA StutterFollow ==
  ASSUME Carried, FollowInv, UNCHANGED vars
  PROVE  FollowInv'
<1> SUFFICES ASSUME NEW i \in Item, i \notin Apart' PROVE ItemInv(i)'
  BY DEF FollowInv
<1>1. QueueTyped /\ ItemInv(i)
  BY DEF Carried, FollowInv, vars, Apart
<1>2. /\ Clone(i)' = Clone(i) /\ held' = held /\ \A t \in Topic : Passed(queue[t], queue'[t], i)
      /\ \A c \in Caller : (On(c, i)' <=> On(c, i)) /\ (On(c, i) => call'[c] = call[c])
  BY DEF vars, Clone, Passed, On
<1> QED BY <1>1, <1>2, UntouchedItem

LEMMA FollowInvariant == Carried /\ WholeInv /\ PlaceInv /\ FollowInv /\ [Next]_vars => FollowInv'
<1> SUFFICES ASSUME Carried, WholeInv, PlaceInv, FollowInv, [Next]_vars PROVE FollowInv'
  OBVIOUS
<1>1. ASSUME NEW c \in Caller, Call(c) PROVE FollowInv'
  BY <1>1, SnapshotFollow, WriteFollow, AcceptFollow, RefusedInsideFollow, RefuseFollow
     DEF Call
<1>2. ASSUME NEW c \in Caller, NEW i \in Item, NEW op \in {"add", "update", "remove"},
             NEW says \in Statement(i), Begin(c, i, op, says)
      PROVE  FollowInv'
  BY <1>2, BeginFollow
<1>3. CASE Look
  BY <1>3, LookFollow
<1>4. ASSUME NEW i \in Item, NEW action \in {"add", "update", "delete"},
             NEW says \in Announcement(i), Edit(i, action, says)
      PROVE  FollowInv'
  BY <1>4, EditFollow
<1>5. ASSUME NEW p \in Profile, ForeignDelete(p) PROVE FollowInv'
  BY <1>5, ForeignDeleteFollow
<1>6. CASE UNCHANGED vars
  BY <1>6, StutterFollow
<1> QED BY <1>1, <1>2, <1>3, <1>4, <1>5, <1>6 DEF Next

\* How a step of a call may end it.
LEMMA CallEnds ==
  ASSUME Carried, WholeInv, PlaceInv, NEW c \in Caller, Call(c)
  PROVE  /\ \A d \in Caller : d # c => call'[d] = call[d]
         /\ \/ call'[c].item = call[c].item /\ call'[c].error = call[c].error
            \/ Explained(call'[c], parted, rawly)
<1>1. CASE Snapshot(c)
  BY <1>1, SnapshotGoesOn DEF Explained
<1>2. CASE Write(c)
  <2>0. PICK k, error : k = call[c] /\ error = RaisedBy(k.op, k.item, k.says)
    OBVIOUS
  <2>1. /\ call'[c].item = k.item
        /\ \A d \in Caller : d # c => call'[d] = call[d]
        /\ call'[c].error = k.error \/ call'[c].error = error
    BY <1>2, <2>0, WriteGoesOn
  <2>2. /\ error \in {"nothing", "CacheError", "KeyError"}
        /\ error = "CacheError" => k.item \in parted
        /\ error = "KeyError" => k.item \in rawly
    BY <1>2, <2>0, WriteRaises
  <2> QED BY <2>0, <2>1, <2>2 DEF Explained
<1>3. CASE Accept(c) \/ RefusedInside(c)
  BY <1>3, EndsItem DEF Accept, RefusedInside, Carried, Explained
<1>4. CASE Refuse(c)
  <2>0. PICK k, error : k = call[c] /\ error = RaisedBy(Undone(k.op), k.item, k.was)
    OBVIOUS
  <2>1. End(c, IF error = "nothing" THEN "EdgexError" ELSE error)
    BY <1>4, <2>0 DEF Refuse
  <2>2. /\ call'[c].item = k.item
        /\ \A d \in Caller : d # c => call'[d] = call[d]
        /\ call'[c].error = IF error = "nothing" THEN "EdgexError" ELSE error
    BY <2>0, <2>1, EndsItem DEF Carried
  <2>3. /\ error \in {"nothing", "CacheError", "AttributeError", "KeyError"}
        /\ error = "CacheError" => k.item \in parted
        /\ error = "KeyError" => k.item \in rawly
        /\ error = "AttributeError" => k.item \in parted /\ k.item \in rawly
    BY <1>4, <2>0, RefuseRaises
  <2> QED BY <2>2, <2>3 DEF Explained
<1> QED BY <1>1, <1>2, <1>3, <1>4 DEF Call

LEMMA SurprisesInvariant ==
  Carried /\ WholeInv /\ PlaceInv /\ SurprisesAreExplained /\ [Next]_vars
    => SurprisesAreExplained'
<1> SUFFICES ASSUME Carried, WholeInv, PlaceInv, SurprisesAreExplained, [Next]_vars,
                    NEW c \in Caller
             PROVE  Explained(call[c], parted, rawly)'
  BY DEF SurprisesAreExplained, Explained
<1>1. Explained(call[c], parted, rawly)
  BY DEF SurprisesAreExplained, Explained
<1>2. ASSUME call'[c].item = call[c].item, call'[c].error = call[c].error,
             parted \subseteq parted', rawly \subseteq rawly'
      PROVE  Explained(call[c], parted, rawly)'
  BY <1>1, <1>2 DEF Explained
<1>3. ASSUME NEW d \in Caller, Call(d) PROVE Explained(call[c], parted, rawly)'
  <2>1. parted \subseteq parted' /\ rawly' = rawly
    BY <1>3 DEF Call, Snapshot, Write, Accept, RefusedInside, Refuse
  <2>2. /\ \A b \in Caller : b # d => call'[b] = call[b]
        /\ \/ call'[d].item = call[d].item /\ call'[d].error = call[d].error
           \/ Explained(call'[d], parted, rawly)
    BY <1>3, CallEnds
  <2>3. CASE Explained(call'[d], parted, rawly) /\ c = d
    BY <2>1, <2>3 DEF Explained
  <2> QED BY <1>2, <2>1, <2>2, <2>3
<1>4. ASSUME NEW d \in Caller, NEW i \in Item, NEW op \in {"add", "update", "remove"},
             NEW says \in Statement(i), Begin(d, i, op, says)
      PROVE  Explained(call[c], parted, rawly)'
  <2>1. PICK k : call' = [call EXCEPT ![d] = k] /\ k.error \in {"EdgexError", "nothing"}
    <3>1. CASE IsCached(i) = (op = "add")
      <4>1. PICK k : k = [NoCall EXCEPT !.item = i, !.error = "EdgexError"]
        OBVIOUS
      <4>2. call' = [call EXCEPT ![d] = k] /\ k.error = "EdgexError"
        BY <1>4, <3>1, <4>1 DEF Begin, NoCall
      <4> QED BY <4>2
    <3>2. CASE IsCached(i) # (op = "add")
      <4>1. PICK k : k = [op |-> op, item |-> i, says |-> says,
                          step |-> IF op = "add" THEN "write" ELSE "clone",
                          was |-> None, error |-> "nothing"]
        OBVIOUS
      <4>2. call' = [call EXCEPT ![d] = k] /\ k.error = "nothing"
        BY <1>4, <3>2, <4>1 DEF Begin
      <4> QED BY <4>2
    <3> QED BY <3>1, <3>2
  <2>2. parted \subseteq parted' /\ rawly' = rawly /\ call \in [Caller -> CallRecord]
    BY <1>4 DEF Begin, Carried, CallsTyped
  <2>3. CASE c = d
    BY <2>1, <2>2, <2>3 DEF Explained
  <2>4. CASE c # d
    BY <1>2, <2>1, <2>2, <2>4
  <2> QED BY <2>3, <2>4
<1>5. ASSUME call' = call, parted \subseteq parted', rawly \subseteq rawly'
      PROVE  Explained(call[c], parted, rawly)'
  BY <1>2, <1>5
<1>6. CASE Look
  BY <1>5, <1>6 DEF Look, Handle
<1>7. ASSUME NEW i \in Item, NEW action \in {"add", "update", "delete"},
             NEW says \in Announcement(i), Edit(i, action, says)
      PROVE  Explained(call[c], parted, rawly)'
  BY <1>5, <1>7 DEF Edit
<1>8. ASSUME NEW p \in Profile, ForeignDelete(p) PROVE Explained(call[c], parted, rawly)'
  BY <1>5, <1>8 DEF ForeignDelete
<1>9. CASE UNCHANGED vars
  BY <1>5, <1>9 DEF vars
<1> QED BY <1>3, <1>4, <1>6, <1>7, <1>8, <1>9 DEF Next

\* An application meets an error that nothing documents only where steps on the item
\* crossed or an event left half a profile, and one kind only where both happened: for every number of callers, editors and
\* items, and every size of the queues.
THEOREM SurprisesAlwaysExplained == Spec => []SurprisesAreExplained
<1>1. Init => SurprisesAreExplained
  BY DEF Init, NoCall, SurprisesAreExplained
<1> QED BY <1>1, InitCarried, InitWhole, InitPlace, CarriedInvariant, WholeInvariant,
           PlaceInvariant, SurprisesInvariant, PTL DEF Spec

LEMMA FollowedIsFollowing == Carried /\ FollowInv => CachesFollow
<1> SUFFICES ASSUME Carried, FollowInv PROVE CachesFollow
  OBVIOUS
<1>1. ASSUME NEW i \in Item, Quiet(i) PROVE Follows(i, Clone(i))
  <2>1. ~ Calling(i) /\ ~ Waiting(i) /\ Followed(i)
    BY <1>1 DEF Quiet, FollowInv, ItemInv
  <2>2. \A t \in Topic : ~ Some(queue[t], Spoken(i))
    BY <2>1, WaitingIsTold DEF Carried
  <2> QED BY <2>1, <2>2, SilenceFollows
<1>2. ProfilesFollow
  BY <1>1 DEF ProfilesFollow, Item, Follows, Clone, Cached
<1>3. WatchersFollow
  <2> SUFFICES ASSUME NEW w \in Watcher, Quiet(w)
               PROVE  /\ watchers[w] = None <=> held[w] = None
                      /\ held[w] # None =>
                           \A f \in OnAdd \intersect OnUpdate : watchers[w][f] = held[w][f]
    BY DEF WatchersFollow
  <2>1. w \notin Profile /\ w \in Item
    BY DefinitionAssumption DEF Item
  <2>2. Follows(w, watchers[w])
    BY <1>1, <2>1 DEF Clone
  <2> QED BY <2>1, <2>2 DEF Follows, Shared
<1> QED BY <1>2, <1>3 DEF CachesFollow

\* Once the events about an item are handled its cache entry says what Core Metadata says,
\* unless steps on it crossed, an event was lost, or Core Metadata refused a change inside
\* a 207, which the client takes for success: the snapshots that are put back when a request
\* is refused are never older than the events that were handled.
THEOREM CachesAlwaysFollow == Spec => []CachesFollow
<1> QED BY InitCarried, InitWhole, InitPlace, InitFollow, CarriedInvariant, WholeInvariant,
           PlaceInvariant, FollowInvariant, FollowedIsFollowing, PTL DEF Spec

\* What a step of the service takes from the profile cache.
LostInStep ==
  \A p \in Profile :
    Cached(profiles, p) /\ ~ Cached(profiles', p) => Calling(p) \/ p \in ended \/ p \in rawly

LEMMA StepLoses == Carried /\ WholeInv /\ [Next]_vars => LostInStep
<1> SUFFICES ASSUME Carried, WholeInv, [Next]_vars, NEW p \in Profile,
                    Cached(profiles, p), ~ Cached(profiles', p)
             PROVE  Calling(p) \/ p \in ended \/ p \in rawly
  BY DEF LostInStep
<1>1. /\ CachesTyped /\ QueueTyped /\ Sound(profiles) /\ Modelled /\ Posts
      /\ p \in Item /\ Clone(p) # None /\ Clone(p)' = None
  BY DEF Carried, WholeInv, Item, Clone, Cached
<1>2. ASSUME profiles' = profiles PROVE FALSE
  BY <1>2 DEF Cached
<1>3. ASSUME NEW c \in Caller, Call(c), call[c].item # p PROVE FALSE
  <2>1. ASSUME NEW op \in {"add", "update", "remove"}, NEW says,
               WriteItem(op, call[c].item, says), call[c].item \in Item,
               op # "remove" => says \in SaidOf(call[c].item)
        PROVE  FALSE
    BY <1>1, <1>3, <2>1, WriteLeaves
  <2>2. CASE Write(c)
    <3>1. call[c].op \in {"add", "update", "remove"} /\ call[c].item \in Item
          /\ call[c].says \in SaidOf(call[c].item)
      BY <2>2, CallCarries DEF Write
    <3> QED BY <1>2, <2>1, <2>2, <3>1 DEF Write
  <2>3. CASE Refuse(c)
    <3>1. /\ call[c].op \in {"add", "update", "remove"} /\ call[c].item \in Item
          /\ call[c].op # "add" => call[c].was \in SaidOf(call[c].item)
      BY <2>3, CallCarries DEF Refuse
    <3>2. /\ Undone(call[c].op) \in {"add", "update", "remove"}
          /\ Undone(call[c].op) # "remove" => call[c].op # "add"
      BY <3>1 DEF Undone
    <3> QED BY <2>1, <2>3, <3>1, <3>2 DEF Refuse
  <2>4. CASE Snapshot(c) \/ Accept(c) \/ RefusedInside(c)
    BY <1>2, <2>4 DEF Snapshot, Accept, RefusedInside
  <2> QED BY <1>3, <2>2, <2>3, <2>4 DEF Call
<1>4. ASSUME NEW c \in Caller, Call(c), call[c].item = p PROVE Calling(p)
  BY <1>4 DEF Call, Snapshot, Write, Accept, RefusedInside, Refuse, Calling
<1>5. CASE Look
  <2>1. queue[turn] # <<>>
    BY <1>2, <1>5 DEF Look
  <2>2. PICK e : e = Head(queue[turn])
    OBVIOUS
  <2>3. /\ Handle(e) /\ e \in Event /\ 1 \in DOMAIN queue[turn] /\ queue[turn][1] = e
    BY <1>1, <1>5, <2>1, <2>2 DEF Look, QueueTyped
  <2>4. Posted(turn, e, ended)
    BY <1>1, <2>3 DEF Posts, QueueTyped
  <2>5. e.name = p /\ Heard(e) = None
    BY <1>1, <2>3, HandleLeaves
  <2>6. Accepted(e) /\ e.action \in {"add", "update", "delete"} /\ WellSaid(e)
    BY <1>1, <2>3, <2>5 DEF Heard, Event, EventRecord
  <2>7. CASE e.action = "add"
    BY <1>1, <2>5, <2>6, <2>7 DEF Heard
  <2>8. CASE e.action = "update"
    <3>1. e.says # None
      BY <2>5, <2>6, <2>8, ProfileAssumption DEF WellSaid, SaidOf
    <3>2. ~ Derivable(Clone(p))
      BY <2>5, <2>6, <2>8, <3>1 DEF Heard, IsCached
    <3> QED BY <1>1, <3>2 DEF Modelled, Derivable, Clone
  <2>9. CASE e.action = "delete"
    <3>1. e.owner # "other"
      BY <2>5, <2>6, <2>9 DEF Accepted, WellSaid
    <3> QED BY <2>4, <2>5, <2>9, <3>1 DEF Posted
  <2> QED BY <2>6, <2>7, <2>8, <2>9
<1>6. ASSUME NEW c \in Caller, NEW i \in Item, NEW op \in {"add", "update", "remove"},
             NEW says \in Statement(i), Begin(c, i, op, says)
      PROVE  FALSE
  BY <1>2, <1>6 DEF Begin
<1>7. ASSUME NEW i \in Item, NEW action \in {"add", "update", "delete"},
             NEW says \in Announcement(i), Edit(i, action, says)
      PROVE  FALSE
  BY <1>2, <1>7 DEF Edit
<1>8. ASSUME NEW q \in Profile, ForeignDelete(q) PROVE FALSE
  BY <1>2, <1>8 DEF ForeignDelete
<1>9. CASE UNCHANGED vars
  BY <1>2, <1>9 DEF vars
<1> QED BY <1>3, <1>4, <1>5, <1>6, <1>7, <1>8, <1>9 DEF Next

\* A profile leaves the cache only in a call of this service, after Core Metadata has
\* deleted it, or broken by an update event.
THEOREM LostOnlyForCause == Spec => LostForCause
<1>1. Carried /\ WholeInv /\ [Next]_vars => [LostInStep]_vars
  BY StepLoses
<1>2. Spec => [][LostInStep]_vars
  BY <1>1, InitCarried, InitWhole, CarriedInvariant, WholeInvariant, PTL DEF Spec
<1>3. [LostInStep]_vars <=> [\A p \in Profile :
        Cached(profiles, p) /\ ~ Cached(profiles', p)
          => Calling(p) \/ p \in ended \/ p \in rawly]_vars
  BY DEF LostInStep
<1> QED BY <1>2, <1>3, PTL DEF LostForCause

-----------------------------------------------------------------------------
(* What the types add to Carried. *)

\* Core Metadata has editions of profiles, no topic's queue holds more than its room, and
\* what is remembered of the past is about definitions.
BoundsInv ==
  /\ \A p \in Profile : held[p] \in Edition \union {None}
  /\ \A t \in Topic : Len(queue[t]) <= Room
  /\ parted \subseteq Item /\ unheard \subseteq Item /\ rawly \subseteq Profile
  /\ ended \subseteq Item

LEMMA PublishBounds ==
  ASSUME QueueTyped, NEW e \in Event, Publish(e), \A t \in Topic : Len(queue[t]) <= Room
  PROVE  \A t \in Topic : Len(queue'[t]) <= Room
<1>1. TopicOf(e) \in Topic
  BY DEF TopicOf, Topic
<1>2. CASE queue' = queue
  BY <1>2
<1>3. CASE /\ Len(queue[TopicOf(e)]) < Room
           /\ queue' = [queue EXCEPT ![TopicOf(e)] = Append(@, e)]
  <2>1. queue[TopicOf(e)] \in Seq(Event)
    BY <1>1 DEF QueueTyped
  <2>2. Len(Append(queue[TopicOf(e)], e)) = Len(queue[TopicOf(e)]) + 1
        /\ Len(queue[TopicOf(e)]) \in Nat
    BY <2>1
  <2>3. Len(queue'[TopicOf(e)]) <= Room
    BY <1>1, <1>3, <2>2, DefinitionAssumption DEF QueueTyped
  <2>4. \A t \in Topic \ {TopicOf(e)} : queue'[t] = queue[t]
    BY <1>3 DEF QueueTyped
  <2>. QED  BY <2>3, <2>4
<1>. QED  BY <1>2, <1>3 DEF Publish

LEMMA InitBounds == Init => BoundsInv
<1>. SUFFICES ASSUME Init PROVE BoundsInv
  OBVIOUS
<1>1. \A p \in Profile : held[p] \in {Default, None}
  BY DEF Init, Item
<1>2. \A t \in Topic : queue[t] = <<>>
  BY DEF Init
<1>3. \A t \in Topic : Len(queue[t]) <= Room
  BY <1>2, DefinitionAssumption
<1>. QED  BY <1>1, <1>3, DefinitionAssumption DEF Init, BoundsInv

LEMMA AcceptBounds ==
  ASSUME Carried, BoundsInv, NEW c \in Caller, Accept(c)
  PROVE  BoundsInv'
<1>. PICK k : k = call[c]
  OBVIOUS
<1>1. /\ k.op \in {"add", "update", "remove"} /\ k.item \in Item
      /\ k.op # "remove" => (k.item \in Profile => Effect(k) \in Edition)
      /\ EventOf(k.item, ActionOf(k.op), SaysOf(k)) \in Event
  BY AcceptEvent DEF Carried, CallsTyped, Accept, CallRecord, WellCalled
<1>2. k.op = "remove" => Effect(k) = None
  BY DEF Effect
<1>3. /\ held' = [held EXCEPT ![k.item] = Effect(k)]
      /\ Publish(EventOf(k.item, ActionOf(k.op), SaysOf(k)))
      /\ parted' \subseteq parted \union {k.item} /\ ended' \subseteq ended \union {k.item}
      /\ rawly' = rawly /\ unheard' = unheard
  BY DEF Accept
<1>4. \A p \in Profile : held'[p] \in Edition \union {None}
  BY <1>1, <1>2, <1>3 DEF BoundsInv, Carried, HeldTyped
<1>5. \A t \in Topic : Len(queue'[t]) <= Room
  BY <1>1, <1>3, PublishBounds DEF BoundsInv, Carried
<1>. QED  BY <1>1, <1>3, <1>4, <1>5 DEF BoundsInv

LEMMA EditBounds ==
  ASSUME Carried, BoundsInv, NEW i \in Item, NEW action \in {"add", "update", "delete"},
         NEW says \in Announcement(i), Edit(i, action, says)
  PROVE  BoundsInv'
<1>1. says \in SaidOf(i) /\ EventOf(i, action, says) \in Event
  BY EditEvent
<1>2. /\ held' = [held EXCEPT ![i] = IF action = "delete" THEN None
                                     ELSE IF i \in Profile THEN says.edition ELSE says]
      /\ Publish(EventOf(i, action, says))
      /\ parted' \subseteq parted \union {i} /\ ended' \subseteq ended \union {i}
      /\ rawly' = rawly /\ unheard' = unheard
  BY DEF Edit
<1>3. \A p \in Profile : held'[p] \in Edition \union {None}
  BY <1>1, <1>2 DEF BoundsInv, Carried, HeldTyped, SaidOf, Content
<1>4. \A t \in Topic : Len(queue'[t]) <= Room
  BY <1>1, <1>2, PublishBounds DEF BoundsInv, Carried
<1>. QED  BY <1>2, <1>3, <1>4 DEF BoundsInv

LEMMA LookBounds ==
  ASSUME Carried, BoundsInv, Look
  PROVE  BoundsInv'
<1>1. turn \in Topic /\ queue[turn] \in Seq(Event) /\ UNCHANGED <<held, ended, unheard>>
  BY DEF Carried, QueueTyped, Look
<1>2. CASE queue[turn] = <<>>
  BY <1>2 DEF Look, BoundsInv
<1>3. CASE queue[turn] # <<>>
  <2>1. PICK e \in Event : e = Head(queue[turn])
    BY <1>1, <1>3
  <2>2. Handle(e) /\ queue' = [queue EXCEPT ![turn] = Tail(@)]
    BY <1>3, <2>1 DEF Look
  <2>3. e.name \in Item /\ (e.type = "deviceprofile" => e.name \in Profile)
    BY DEF Event, EventRecord, WellSaid
  <2>4. parted' \subseteq Item /\ rawly' \subseteq Profile
    BY <2>2, <2>3 DEF Handle, BoundsInv
  <2>5. \A t \in Topic : Len(queue'[t]) <= Room
    <3>1. Len(Tail(queue[turn])) = Len(queue[turn]) - 1 /\ Len(queue[turn]) \in Nat
      BY <1>1, <1>3
    <3>2. Len(Tail(queue[turn])) <= Room
      BY <1>1, <3>1, DefinitionAssumption DEF BoundsInv
    <3>. QED  BY <1>1, <2>2, <3>2 DEF BoundsInv, Carried, QueueTyped
  <2>. QED  BY <1>1, <2>4, <2>5 DEF BoundsInv
<1>. QED  BY <1>2, <1>3

LEMMA StepBounds == Carried /\ BoundsInv /\ [Next]_vars => BoundsInv'
<1>. SUFFICES ASSUME Carried, BoundsInv, [Next]_vars PROVE BoundsInv'
  OBVIOUS
<1>1. ASSUME NEW c \in Caller, Snapshot(c) \/ Write(c) \/ RefusedInside(c) \/ Refuse(c)
      PROVE  BoundsInv'
  BY <1>1, CallCarries DEF Snapshot, Write, RefusedInside, Refuse, BoundsInv
<1>2. ASSUME NEW c \in Caller, NEW i \in Item, NEW op \in {"add", "update", "remove"},
             NEW says \in Statement(i), Begin(c, i, op, says)
      PROVE  BoundsInv'
  BY <1>2 DEF Begin, BoundsInv
<1>3. ASSUME NEW p \in Profile, ForeignDelete(p) PROVE BoundsInv'
  <2>. DEFINE e == [EventOf(p, "delete", None) EXCEPT !.owner = "other"]
  <2>1. e \in EventRecord /\ WellSaid(e)
    BY DEF EventOf, EventRecord, WellSaid, Says, Item
  <2>2. Publish(e)
    BY <1>3 DEF ForeignDelete
  <2>3. \A t \in Topic : Len(queue'[t]) <= Room
    BY <2>1, <2>2, PublishBounds DEF Event, BoundsInv, Carried
  <2>. QED  BY <1>3, <2>3 DEF ForeignDelete, BoundsInv
<1>4. CASE UNCHANGED vars
  BY <1>4 DEF vars, BoundsInv
<1>. QED
  BY <1>1, <1>2, <1>3, <1>4, AcceptBounds, EditBounds, LookBounds DEF Next, Call

\* The profile maps and the watcher cache are well-formed, Core Metadata has editions of profiles
\* and fields of watchers, and no topic's queue of events outgrows its room.
THEOREM DefinitionsTypeCorrect == Spec => []DefinitionsTypeOK
<1>1. Carried /\ BoundsInv => DefinitionsTypeOK
  BY DEF Carried, CachesTyped, HeldTyped, CallsTyped, CallRecord, QueueTyped, BoundsInv,
         DefinitionsTypeOK
<1>. QED
  BY <1>1, InitCarried, CarriedInvariant, InitBounds, StepBounds, PTL DEF Spec

=============================================================================
