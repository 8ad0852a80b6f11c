--------------------------- MODULE DeviceWriteback ---------------------------
(***************************************************************************)
(* The cache-first write-back of a Device: service/device_service.py adds, *)
(* patches and removes a Device in the local cache first, sends the same   *)
(* change to Core Metadata over HTTP, and undoes the cache change when     *)
(* that call raises MetadataError.  Several threads run these calls: the   *)
(* driver's own threads, the discovered-device pump, the command threads   *)
(* that mark a Device DOWN or UP, and the system-events thread.            *)
(*                                                                         *)
(* The cache takes its lock for one operation at a time                    *)
(* (internal/cache/devices.py), never for a whole call, so a call is four  *)
(* steps that other calls interleave with:                                 *)
(*   Begin    the existence check of the public method                     *)
(*   Clone    the for_name snapshot of the private helper (not in an add)  *)
(*   Write    the validation and the change of the cache                   *)
(*   request  Core Metadata accepts or refuses, or the client times out;   *)
(*            a failed request is followed by the rollback of the cache,   *)
(*            unless its failure goes unnoticed: the client looks at the   *)
(*            status only, and a batch is answered 207 whatever became of  *)
(*            its items.                                                   *)
(***************************************************************************)
EXTENDS Naturals, FiniteSets

CONSTANTS
  Device,     \* names of Devices
  Caller,     \* threads that call the Device methods of the service
  Attr,       \* the patchable attributes of a Device
  Value,      \* what an attribute can hold
  NoDevice    \* stands for "no entry under this name"

Content == [Attr -> Value]
Entry   == Content \union {NoDevice}

\* An update map: some of the attributes, each with its new value.
Patch == UNION {[S -> Value] : S \in SUBSET Attr}

ASSUME NoDeviceAssumption == NoDevice \notin Content

VARIABLES
  cache,      \* DeviceCache._device_map
  metadata,   \* the Devices Core Metadata holds
  pc,         \* where each caller is in its call
  op,         \* which call it runs, or ran last
  dev,        \* on which Device
  arg,        \* the Device to add, or the update map; a remove has none
  saved,      \* the snapshot taken by Clone
  outcome,    \* how the caller's last call ended
  late,       \* requests whose client has timed out, still on their way
  disturbed,  \* history: Devices on which two calls overlapped, or a client
              \* gave up waiting for its answer
  parted      \* history: Devices whose change failed with nothing to undo it: it
              \* was refused inside a 2xx answer, or could not even be sent

vars == <<cache, metadata, pc, op, dev, arg, saved, outcome, late, disturbed,
          parted>>

Op      == {"add", "patch", "remove"}
Step    == {"idle", "clone", "write", "request", "rollback"}
Outcome == {"none", "ok", "skipped", "EdgexError", "CacheError", "TypeError"}
Argument == Patch \union {NoDevice}

\* What is sent to Core Metadata.
Request ==
  [op : {"add"}, dev : Device, arg : Content]
    \union [op : {"patch"}, dev : Device, arg : Patch]
    \union [op : {"remove"}, dev : Device, arg : {NoDevice}]

\* The Devices about which the write-back promises nothing more.
Lost == disturbed \union parted

Active(d) == {c \in Caller : pc[c] # "idle" /\ dev[c] = d}

\* Mutant: the update map replaces the Device instead of being applied to it.
ApplyReplacing(content, patch) == patch

\* setattr of every key of the update map on the (cloned) Device.
Apply(content, patch) ==
  [a \in Attr |-> IF a \in DOMAIN patch THEN patch[a] ELSE content[a]]

-----------------------------------------------------------------------------
(* Control of one call. *)

Goto(c, step) ==
  /\ pc' = [pc EXCEPT ![c] = step]
  /\ UNCHANGED <<arg, saved, outcome>>

\* The call is over and its local variables with it.
Return(c, result) ==
  /\ pc' = [pc EXCEPT ![c] = "idle"]
  /\ outcome' = [outcome EXCEPT ![c] = result]
  /\ arg' = [arg EXCEPT ![c] = NoDevice]
  /\ saved' = [saved EXCEPT ![c] = NoDevice]

Start(c, o, d) ==
  /\ pc[c] = "idle"
  /\ op' = [op EXCEPT ![c] = o]
  /\ dev' = [dev EXCEPT ![c] = d]
  /\ UNCHANGED <<cache, metadata, late, parted>>

\* The first check of a public method failed.
Reject(c, o, d) ==
  /\ Start(c, o, d)
  /\ Return(c, "EdgexError")
  /\ UNCHANGED disturbed

\* The first check passed: the call is now running on d.
Enter(c, o, d, x, step) ==
  /\ Start(c, o, d)
  /\ pc' = [pc EXCEPT ![c] = step]
  /\ arg' = [arg EXCEPT ![c] = x]
  /\ outcome' = [outcome EXCEPT ![c] = "none"]
  /\ disturbed' = IF Active(d) = {} THEN disturbed ELSE disturbed \union {d}
  /\ UNCHANGED saved

-----------------------------------------------------------------------------
(* The public methods, up to the private helper that does the work. *)

\* Mutant: an add that does not look for the name first.
AddBeginUnchecked(c, d, content) == Enter(c, "add", d, content, "write")

\* add_device, add_device_without_validation
AddBegin(c, d, content) ==
  IF cache[d] # NoDevice
  THEN Reject(c, "add", d)
  ELSE Enter(c, "add", d, content, "write")

\* update_device, patch_device, update_device_operating_state, ...
PatchBegin(c, d, patch) ==
  IF cache[d] = NoDevice
  THEN Reject(c, "patch", d)
  ELSE Enter(c, "patch", d, patch, "clone")

\* remove_device_by_name
RemoveBegin(c, d) ==
  IF cache[d] = NoDevice
  THEN Reject(c, "remove", d)
  ELSE Enter(c, "remove", d, NoDevice, "clone")

\* _patch_device_in_metadata and _delete_device_from_metadata look the Device up
\* again; when it has gone meanwhile they return as if all were well.
Clone(c) ==
  /\ pc[c] = "clone"
  /\ IF cache[dev[c]] = NoDevice
     THEN Return(c, "skipped")
     ELSE /\ pc' = [pc EXCEPT ![c] = "write"]
          /\ saved' = [saved EXCEPT ![c] = cache[dev[c]]]
          /\ UNCHANGED <<arg, outcome>>
  /\ UNCHANGED <<cache, metadata, op, dev, late, disturbed, parted>>

-----------------------------------------------------------------------------
(* The cache operations, each under the cache's lock.  Each leaves the cache *)
(* alone and raises CacheError when the entry is not as it expects.          *)

CacheAdd(c, content, next) ==
  IF cache[dev[c]] # NoDevice
  THEN Return(c, "CacheError") /\ UNCHANGED cache
  ELSE next /\ cache' = [cache EXCEPT ![dev[c]] = content]

CacheUpdate(c, content, next) ==
  IF cache[dev[c]] = NoDevice
  THEN Return(c, "CacheError") /\ UNCHANGED cache
  ELSE next /\ cache' = [cache EXCEPT ![dev[c]] = content]

CacheRemove(c, next) ==
  IF cache[dev[c]] = NoDevice
  THEN Return(c, "CacheError") /\ UNCHANGED cache
  ELSE next /\ cache' = [cache EXCEPT ![dev[c]] = NoDevice]

Send(c) == Goto(c, "request")

\* driver.validate_device refused the Device; a remove validates nothing.
ValidationFails(c) ==
  /\ pc[c] = "write"
  /\ op[c] # "remove"
  /\ Return(c, "EdgexError")
  /\ UNCHANGED <<cache, metadata, op, dev, late, disturbed, parted>>

AddWrite(c) ==
  /\ pc[c] = "write" /\ op[c] = "add"
  /\ CacheAdd(c, arg[c], Send(c))
  /\ UNCHANGED <<metadata, op, dev, late, disturbed, parted>>

PatchWrite(c) ==
  /\ pc[c] = "write" /\ op[c] = "patch"
  /\ CacheUpdate(c, Apply(saved[c], arg[c]), Send(c))
  /\ UNCHANGED <<metadata, op, dev, late, disturbed, parted>>

RemoveWrite(c) ==
  /\ pc[c] = "write" /\ op[c] = "remove"
  /\ CacheRemove(c, Send(c))
  /\ UNCHANGED <<metadata, op, dev, late, disturbed, parted>>

-----------------------------------------------------------------------------
(* Core Metadata, and what the client makes of it. *)

\* Core Metadata refuses to add a name it holds and to change one it lacks.
Acceptable(r) == (metadata[r.dev] = NoDevice) <=> (r.op = "add")

Effect(r) ==
  CASE r.op = "add"    -> r.arg
    [] r.op = "patch"  -> Apply(metadata[r.dev], r.arg)
    [] r.op = "remove" -> NoDevice

RequestOf(c) == [op |-> op[c], dev |-> dev[c], arg |-> arg[c]]

\* Core Metadata does what it is asked, and the call returns.
Accept(c) ==
  /\ pc[c] = "request"
  /\ Acceptable(RequestOf(c))
  /\ metadata' = [metadata EXCEPT ![dev[c]] = Effect(RequestOf(c))]
  /\ Return(c, "ok")
  /\ UNCHANGED <<cache, op, dev, late, disturbed, parted>>

\* The call ends as if there were nothing to undo.
Part(c, result) ==
  /\ pc[c] = "request"
  /\ Return(c, result)
  /\ parted' = parted \union {dev[c]}
  /\ UNCHANGED <<cache, metadata, op, dev, late, disturbed>>

\* A batch of one item, refused: the answer is 207 with the refusal inside, and
\* _not_ok_raise takes every 2xx for success.  A delete names its Device in the URL
\* and is answered by a plain status.
RefusedInside(c) == op[c] # "remove" /\ Part(c, "ok")

\* update_device puts the AutoEvents of the Device, which are objects, into the update
\* map: json raises a TypeError, which is no MetadataError, and nothing is rolled back.
Unserializable(c) == op[c] = "patch" /\ Part(c, "TypeError")

\* A status outside 2xx, or no connection: MetadataError, nothing was changed.
Refuse(c) ==
  /\ pc[c] = "request"
  /\ Goto(c, "rollback")
  /\ UNCHANGED <<cache, metadata, op, dev, late, disturbed, parted>>

\* requests gives up after its timeout: also MetadataError, and the client cannot
\* know whether the request arrived, arrives later, or never does.
Timeout(c) ==
  /\ pc[c] = "request"
  /\ Goto(c, "rollback")
  /\ late' = late \union {RequestOf(c)}
  /\ disturbed' = disturbed \union {dev[c]}
  /\ UNCHANGED <<cache, metadata, op, dev, parted>>

LateAccept(r) ==
  /\ r \in late
  /\ Acceptable(r)
  /\ late' = late \ {r}
  /\ metadata' = [metadata EXCEPT ![r.dev] = Effect(r)]
  /\ UNCHANGED <<cache, pc, op, dev, arg, saved, outcome, disturbed, parted>>

LateLoss(r) ==
  /\ r \in late
  /\ late' = late \ {r}
  /\ UNCHANGED <<cache, metadata, pc, op, dev, arg, saved, outcome, disturbed, parted>>

-----------------------------------------------------------------------------
(* The except clause: undo the cache change by name, then raise EdgexError;  *)
(* when the undo itself finds the cache changed, its CacheError is raised.   *)

Fail(c) == Return(c, "EdgexError")

AddRollback(c) ==
  /\ pc[c] = "rollback" /\ op[c] = "add"
  /\ CacheRemove(c, Fail(c))
  /\ UNCHANGED <<metadata, op, dev, late, disturbed, parted>>

\* Mutant: the update map was set on the cached Device itself, not on a clone of it.
PatchRollbackOfAlias(c) ==
  /\ pc[c] = "rollback" /\ op[c] = "patch"
  /\ CacheUpdate(c, Apply(saved[c], arg[c]), Fail(c))
  /\ UNCHANGED <<metadata, op, dev, late, disturbed, parted>>

PatchRollback(c) ==
  /\ pc[c] = "rollback" /\ op[c] = "patch"
  /\ CacheUpdate(c, saved[c], Fail(c))
  /\ UNCHANGED <<metadata, op, dev, late, disturbed, parted>>

\* Mutant: a failed delete that does not put the entry back.
RemoveRollbackForgotten(c) ==
  /\ pc[c] = "rollback" /\ op[c] = "remove"
  /\ Fail(c)
  /\ UNCHANGED <<cache, metadata, op, dev, late, disturbed, parted>>

RemoveRollback(c) ==
  /\ pc[c] = "rollback" /\ op[c] = "remove"
  /\ CacheAdd(c, saved[c], Fail(c))
  /\ UNCHANGED <<metadata, op, dev, late, disturbed, parted>>

-----------------------------------------------------------------------------
\* The service starts with the Devices it has provisioned in both places.
Init ==
  /\ metadata \in [Device -> Entry]
  /\ cache = metadata
  /\ pc = [c \in Caller |-> "idle"]
  /\ op \in [Caller -> {"add"}]
  /\ dev \in [Caller -> Device]
  /\ arg = [c \in Caller |-> NoDevice]
  /\ saved = [c \in Caller |-> NoDevice]
  /\ outcome = [c \in Caller |-> "none"]
  /\ late = {}
  /\ disturbed = {} /\ parted = {}

Begin(c) ==
  \E d \in Device :
    \/ \E content \in Content : AddBegin(c, d, content)
    \/ \E patch \in Patch : PatchBegin(c, d, patch)
    \/ RemoveBegin(c, d)

\* What the calling thread does by itself once it has begun; a call that bypasses
\* the validation only has the steps of Work.
Work(c) ==
  \/ Clone(c)
  \/ AddWrite(c) \/ PatchWrite(c) \/ RemoveWrite(c)
  \/ AddRollback(c) \/ PatchRollback(c) \/ RemoveRollback(c)

Proceed(c) == Work(c) \/ ValidationFails(c)

Answer(c) ==
  Accept(c) \/ RefusedInside(c) \/ Unserializable(c) \/ Refuse(c) \/ Timeout(c)

Next ==
  \/ \E c \in Caller : Begin(c) \/ Proceed(c) \/ Answer(c)
  \/ \E r \in late : LateAccept(r) \/ LateLoss(r)

Spec == Init /\ [][Next]_vars

\* A thread that has begun keeps running, and requests never waits beyond its
\* timeout.  Nothing is assumed of Core Metadata.
Fairness == \A c \in Caller : WF_vars(Proceed(c)) /\ WF_vars(Timeout(c))

FairSpec == Spec /\ Fairness
-----------------------------------------------------------------------------
\* Types, and what a call carries: from its write on, a patch or a remove has a
\* real Device to put back, and what it sends is a well-formed request.
TypeOK ==
  /\ cache \in [Device -> Entry]
  /\ metadata \in [Device -> Entry]
  /\ pc \in [Caller -> Step]
  /\ op \in [Caller -> Op]
  /\ dev \in [Caller -> Device]
  /\ arg \in [Caller -> Argument]
  /\ saved \in [Caller -> Entry]
  /\ outcome \in [Caller -> Outcome]
  /\ late \subseteq Request
  /\ disturbed \subseteq Device /\ parted \subseteq Device
  /\ \A c \in Caller :
       /\ pc[c] # "idle" => RequestOf(c) \in Request
       /\ pc[c] \in {"write", "request", "rollback"} /\ op[c] # "add"
            => saved[c] \in Content

PendingOn(d) == \E c \in Active(d) : pc[c] \in {"request", "rollback"}

\* The cache and Core Metadata hold the same Device, unless a call on it is
\* between its cache write and its end, two calls on it have overlapped, a client
\* has given up on Core Metadata, or a change of it has failed unnoticed.  This is all
\* that "cache-first with rollback" achieves: it covers every refusal that shows in the
\* status of the answer, at every step of an add, a patch and a remove; no kind of
\* overlap, no refusal inside a 207, and no error but MetadataError.
SyncUnlessDisturbed ==
  \A d \in Device \ Lost : cache[d] # metadata[d] => PendingOn(d)

\* A call that finds the cache changed under it (and raises CacheError, or returns
\* without doing anything) has been overlapped by another call on its Device.
SurprisesNeedOverlap ==
  \A c \in Caller : outcome[c] \in {"skipped", "CacheError"} => dev[c] \in disturbed

\* Seen from outside, a Device that is not Lost changes as DeviceStore says: one change
\* at a time shows in the cache, and Core Metadata then takes over exactly what the cache
\* shows, though it is sent the update map only, or the cache shows the old Device again,
\* though it is restored from a snapshot.
Store == INSTANCE DeviceStore WITH view <- cache, held <- metadata, lost <- Lost

ImplementsStore == Store!Spec

=============================================================================
