----------------------------- MODULE ProfileMaps -----------------------------
(***************************************************************************)
(* The profile cache (internal/cache/profiles.py): the profiles by name,   *)
(* and two maps derived from them that the commands look resources and     *)
(* commands up in.  A method changes the three in order, under one lock,   *)
(* and stops where it raises, so it may leave them half changed.           *)
(***************************************************************************)
EXTENDS Naturals

CONSTANTS
  Profile,    \* names
  Edition,    \* what a profile says
  None

\* raw: the lists hold the dictionaries of an event and not models; bare: they are empty.
Content == [edition : Edition, raw : BOOLEAN, bare : BOOLEAN]

ASSUME ProfileAssumption == None \notin Edition /\ None \notin Content

Maps ==
  [all       : [Profile -> Content \union {None}],
   resources : [Profile -> Edition \union {None}],
   commands  : [Profile -> Edition \union {None}]]

\* What a method leaves, and what it raised.
Result == [maps : Maps, raised : {"nothing", "CacheError", "AttributeError", "KeyError"}]

Returned(m) == [maps |-> m, raised |-> "nothing"]

Raised(m, error) == [maps |-> m, raised |-> error]

\* The derived maps need the name of each resource, which a dictionary has not.
Derivable(content) == content.bare \/ ~ content.raw

NoProfiles ==
  [all       |-> [p \in Profile |-> None],
   resources |-> [p \in Profile |-> None],
   commands  |-> [p \in Profile |-> None]]

\* The profiles provisioned at the start are models.
Provisioned(editions) ==
  [all       |-> [p \in Profile |-> IF p \in DOMAIN editions
                                    THEN [edition |-> editions[p], raw |-> FALSE, bare |-> FALSE]
                                    ELSE None],
   resources |-> [p \in Profile |-> IF p \in DOMAIN editions THEN editions[p] ELSE None],
   commands  |-> [p \in Profile |-> IF p \in DOMAIN editions THEN editions[p] ELSE None]]

Cached(m, p) == m.all[p] # None

Put(m, p, content) ==
  [all       |-> [m.all EXCEPT ![p] = content],
   resources |-> [m.resources EXCEPT ![p] = content.edition],
   commands  |-> [m.commands EXCEPT ![p] = content.edition]]

\* The profile alone is changed, and the derived maps are as they were.
Half(m, p, content) ==
  [all |-> [m.all EXCEPT ![p] = content], resources |-> m.resources, commands |-> m.commands]

Without(m, p) ==
  [all       |-> [m.all EXCEPT ![p] = None],
   resources |-> [m.resources EXCEPT ![p] = None],
   commands  |-> [m.commands EXCEPT ![p] = None]]

\* _add
Added(m, p, content) ==
  IF Cached(m, p) THEN Raised(m, "CacheError")
  ELSE IF Derivable(content) THEN Returned(Put(m, p, content))
  ELSE Raised(Half(m, p, content), "AttributeError")

\* Mutant: the derived maps are left alone.
RemovedFromOne(m, p) ==
  IF Cached(m, p) THEN Returned(Half(m, p, None)) ELSE Raised(m, "CacheError")

\* _remove_by_name: the first del of a missing entry raises KeyError; the commands of a
\* profile are there whenever its resources are.
Removed(m, p) ==
  IF ~ Cached(m, p) THEN Raised(m, "CacheError")
  ELSE IF m.resources[p] = None THEN Raised(Half(m, p, None), "KeyError")
  ELSE Returned(Without(m, p))

\* update: remove, then add.
Updated(m, p, content) ==
  IF Removed(m, p).raised = "nothing"
  THEN Added(Removed(m, p).maps, p, content)
  ELSE Removed(m, p)

\* resource_operation: the profile is there, and then its commands are not.
LookupRaises(m, p) == Cached(m, p) /\ m.commands[p] = None

\* The derived maps speak of a profile together, and only of the edition that is cached.
Coherent(m) ==
  \A p \in Profile :
    /\ m.resources[p] = None <=> m.commands[p] = None
    /\ m.resources[p] # None => /\ Cached(m, p)
                                /\ m.resources[p] = m.all[p].edition
                                /\ m.commands[p] = m.all[p].edition
=============================================================================
