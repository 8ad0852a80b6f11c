------------------------------ MODULE Commands ------------------------------
(***************************************************************************)
(* A GET or SET command on its way through application/command.py: the     *)
(* checks and the values of the request (Build), their transformation with *)
(* a second look at the profile (Shape), the ProtocolDriver (Drive), and   *)
(* the event of transformer/transform.py with a third look (Convert).      *)
(* Callers are the HTTP workers and the message-bus workers; while one is  *)
(* between two steps the profile and the Device may change in the cache.   *)
(*                                                                         *)
(* The count of failures and the state DOWN are in DeviceDown.tla: here a  *)
(* failed command is "error" when device_request_failed counts it, and     *)
(* "raised" when its exception is no EdgexError and passes by the count.   *)
(***************************************************************************)
EXTENDS Values, Sequences, FiniteSetsExt, SequencesExt

CONSTANTS
  Caller,
  Profile,      \* contents the Device's profile may have: [resources, commands]
  Request,      \* [kind : {"get", "set"}, target, body]; a body maps resources to values
  Anything,     \* the target that is a regular expression for every resource
  Sensed,       \* <<resource, value>>: what the device itself may come to hold
  MaxCmdOps,    \* of the configuration, 0 for no limit
  MaxAsks,      \* bound: requests
  MaxEdits      \* bound: changes of the profile, the Device and the device's values

VARIABLES
  profile,      \* the content of the Device's profile in the cache
  present,      \* the Device is in the cache
  disabled,     \* its OperatingState is DISABLED
  transforming, \* the option data_transform
  register,     \* what the driver holds of each resource
  meant,        \* history: the value that was asked for with it, and the profile it was set by
  req,          \* the command of each caller
  asks, edits

commandVars == <<profile, present, disabled, transforming, register, meant, req, asks, edits>>

\* A profile that is not in the cache, and the empty DeviceResource a failed lookup returns.
Gone    == [resources |-> <<>>, commands |-> <<>>]
Nothing == [type |-> [half |-> 0, signed |-> FALSE], access |-> "", default |-> None,
            props |-> Plain, assertion |-> None]

Resource == UNION {DOMAIN p.resources : p \in Profile}

ResourceOf(p, r) == IF r \in DOMAIN p.resources THEN p.resources[r] ELSE Nothing

\* What a profile is: finitely many resources, operations in an order, properties that are
\* numbers; those of a float, and what they would do to it, are left out.
ASSUME ProfileAssumption == \A p \in Profile :
  /\ IsFiniteSet(DOMAIN p.resources)
  /\ \A r \in DOMAIN p.resources :
       /\ p.resources[r].type \in Type /\ p.resources[r].props \in Properties
       /\ IsInteger(p.resources[r].type) \/ p.resources[r].props = Plain
  /\ \A n \in DOMAIN p.commands :
       p.commands[n].operations \in Seq(ToSet(p.commands[n].operations))

\* x & y has no bit that x has not.
ASSUME BitAndAssumption == \A p \in Profile : \A r \in DOMAIN p.resources :
  LET highest == Size(p.resources[r].type) - 1
  IN \A x, y \in 0 .. highest : BitAnd(x, y) \in 0 .. x

Idle == [phase |-> "idle"]

\* A command that is a step further, with what it has by then.
With(cmd, news) ==
  [f \in DOMAIN cmd \union DOMAIN news |-> IF f \in DOMAIN news THEN news[f] ELSE cmd[f]]

Claim(v, p) == [value |-> v, profile |-> p]

-----------------------------------------------------------------------------
(* What is asked for. *)

IsCommand(p, q) == q.target \in DOMAIN p.commands
Operations(p, q) == p.commands[q.target].operations

Readable(p) == {r \in DOMAIN p.resources : p.resources[r].access # "W"}

\* The resources of a request: those of the command, those the expression matches, or itself.
Named(p, q) ==
  IF IsCommand(p, q) THEN [i \in DOMAIN Operations(p, q) |-> Operations(p, q)[i].resource]
  ELSE IF q.kind = "get" /\ q.target = Anything THEN SetToSeq(Readable(p))
  ELSE <<q.target>>

Forbidden(kind) == IF kind = "get" THEN "W" ELSE "R"

\* A command's own access counts, not that of its resources.
Allowed(p, q) ==
  /\ Named(p, q) # <<>>
  /\ \A i \in DOMAIN Named(p, q) : Named(p, q)[i] \in DOMAIN p.resources
  /\ IF IsCommand(p, q)
     THEN /\ p.commands[q.target].access # Forbidden(q.kind)
          /\ MaxCmdOps = 0 \/ Len(Operations(p, q)) <= MaxCmdOps
     ELSE q.target = Anything \/ p.resources[q.target].access # Forbidden(q.kind)

\* The value of the body, of the operation, of the resource, in this order.
Given(p, q, i) ==
  LET r        == Named(p, q)[i]
      offered  == IF r \in DOMAIN q.body THEN q.body[r] ELSE None
      operated == IF IsCommand(p, q) THEN Operations(p, q)[i].default ELSE None
  IN IF offered # None THEN offered
     ELSE IF operated # None THEN operated ELSE p.resources[r].default

\* A mapped value of a SET stands for its key; a resource of its own has no mapping.
Unmapped(p, q, i) ==
  LET v    == Given(p, q, i)
      keys == IF ~ IsCommand(p, q) THEN {}
              ELSE LET mapping == Operations(p, q)[i].mapping
                   IN {k \in DOMAIN mapping : mapping[k] = v}
  IN IF keys = {} THEN v ELSE CHOOSE k \in keys : TRUE

\* create_command_value_from_device_resource: an integer in its range, any number for a float;
\* the bytes a text is decoded from for a float may be none, which is no EdgexError.
Coerced(p, q, i) ==
  LET v == Unmapped(p, q, i)
      t == p.resources[Named(p, q)[i]].type
  IN IF v = None THEN Refused
     ELSE IF IsInteger(t) THEN IF v \in Int /\ InRange(v, t) THEN v ELSE Refused
     ELSE IF v \in Int THEN v ELSE Raised

\* Of a sequence of outcomes the first failure counts.
FirstFailure(outcomes) ==
  LET failures == {i \in DOMAIN outcomes : outcomes[i] \in Failed}
  IN IF failures = {} THEN None ELSE outcomes[Min(failures)]

-----------------------------------------------------------------------------
CommandInit ==
  /\ profile \in Profile /\ present = TRUE /\ disabled = FALSE
  /\ transforming \in BOOLEAN
  /\ register = [r \in Resource |-> 0]
  /\ meant = [r \in Resource |-> None]
  /\ req = [c \in Caller |-> Idle]
  /\ asks = 0 /\ edits = 0

Ask(c, q) ==
  /\ req[c].phase = "idle" /\ asks < MaxAsks
  /\ req' = [req EXCEPT ![c] = [phase |-> "asked", ask |-> q]]
  /\ asks' = asks + 1
  /\ UNCHANGED <<profile, present, disabled, transforming, register, meant, edits>>

\* An exception ends a command: counted when it is an EdgexError.
Fail(c, failure) ==
  req' = [req EXCEPT ![c] = With(@, [result |-> IF failure = Raised THEN "raised" ELSE "error"])]

Answered(c) == "result" \in DOMAIN req[c]

\* The states are validated and the requests and CommandValues made.
Build(c) ==
  LET q     == req[c].ask
      names == Named(profile, q)
      types == [i \in DOMAIN names |-> profile.resources[names[i]].type]
      values == [i \in DOMAIN names |-> Coerced(profile, q, i)]
      built == With(req[c], [seen |-> profile, names |-> names, types |-> types])
  IN /\ req[c].phase = "asked" /\ ~ Answered(c)
     /\ IF ~ present \/ ~ Allowed(profile, q) THEN Fail(c, Refused)
        ELSE IF q.kind = "get"
        THEN req' = [req EXCEPT ![c] = With(built, [phase |-> "shaped"])]
        ELSE IF FirstFailure(values) # None THEN Fail(c, FirstFailure(values))
        ELSE req' = [req EXCEPT ![c] = With(built, [phase |-> "built", wanted |-> values])]
     /\ UNCHANGED <<profile, present, disabled, transforming, register, meant, asks, edits>>

\* The CommandValues of a SET are transformed as the profile is now; without the resource
\* they stay as they are.
Shape(c) ==
  LET cmd == req[c]
      Shapes(i) == IF transforming
                   THEN Parameters(cmd.wanted[i], ResourceOf(profile, cmd.names[i]).props,
                                   cmd.types[i])
                   ELSE {cmd.wanted[i]}
  IN /\ cmd.phase = "built" /\ ~ Answered(c)
     /\ \E shaped \in [DOMAIN cmd.names -> UNION {Shapes(i) : i \in DOMAIN cmd.names}] :
          /\ \A i \in DOMAIN cmd.names : shaped[i] \in Shapes(i)
          /\ IF FirstFailure(shaped) # None THEN Fail(c, FirstFailure(shaped))
             ELSE req' = [req EXCEPT ![c] =
                            With(@, [phase |-> "shaped", values |-> shaped, shapedBy |-> profile])]
     /\ UNCHANGED <<profile, present, disabled, transforming, register, meant, asks, edits>>

\* The driver reads the values, or raises.
Read(c) ==
  LET cmd == req[c]
  IN /\ cmd.phase = "shaped" /\ ~ Answered(c) /\ cmd.ask.kind = "get"
     /\ \/ req' = [req EXCEPT ![c] =
                     With(@, [phase  |-> "driven",
                              values |-> [i \in DOMAIN cmd.names |-> register[cmd.names[i]]],
                              claims |-> [i \in DOMAIN cmd.names |-> meant[cmd.names[i]]]])]
        \/ Fail(c, Refused)
     /\ UNCHANGED <<profile, present, disabled, transforming, register, meant, asks, edits>>

\* What was asked for is claimed for a value, unless the profile was changed on the way.
Claims(cmd) ==
  [i \in DOMAIN cmd.names |->
     IF cmd.seen = cmd.shapedBy THEN Claim(cmd.wanted[i], cmd.seen) ELSE None]

\* Where a resource is among the first n of a command.
Places(cmd, r, n) == {i \in 1 .. n : cmd.names[i] = r}

\* The driver writes the values, or some of them before it raises.
Write(c) ==
  LET cmd == req[c]
  IN /\ cmd.phase = "shaped" /\ ~ Answered(c) /\ cmd.ask.kind = "set"
     /\ \E n \in 0 .. Len(cmd.names) :
          /\ register' = [r \in Resource |->
                            IF Places(cmd, r, n) = {} THEN register[r]
                            ELSE cmd.values[Max(Places(cmd, r, n))]]
          /\ meant' = [r \in Resource |->
                         IF Places(cmd, r, n) = {} THEN meant[r]
                         ELSE Claims(cmd)[Max(Places(cmd, r, n))]]
          /\ \/ /\ n = Len(cmd.names)
                /\ req' = [req EXCEPT ![c] = With(@, [phase |-> "driven", claims |-> Claims(cmd)])]
             \/ req' = [req EXCEPT ![c] = With(@, [phase |-> "driven", result |-> "error"])]
     /\ UNCHANGED <<profile, present, disabled, transforming, asks, edits>>

-----------------------------------------------------------------------------
(* command_values_to_event, with the Device and its profile as they are now. *)

WriteOnly(cmd) ==
  /\ cmd.ask.kind = "set"
  /\ "W" = IF IsCommand(cmd.seen, cmd.ask) THEN cmd.seen.commands[cmd.ask.target].access
           ELSE cmd.seen.resources[cmd.ask.target].access

\* The mapping of the operation on a resource, whatever command it belongs to.
MappingOf(p, r) ==
  LET found == {op \in UNION {ToSet(p.commands[n].operations) : n \in DOMAIN p.commands} :
                  op.resource = r}
  IN IF found = {} THEN <<>> ELSE (CHOOSE op \in found : TRUE).mapping

Mapped(p, r, v) == IF v \in DOMAIN MappingOf(p, r) THEN MappingOf(p, r)[v] ELSE v

\* An overflow is a reading of its own, and is asserted and mapped as one; a power that is no
\* float raises what nobody catches.
Outgoing(p, cmd, i) ==
  IF transforming THEN Transformed(cmd.values[i], ResourceOf(p, cmd.names[i]).props, cmd.types[i])
  ELSE cmd.values[i]

Disproved(p, cmd, i) ==
  LET assertion == ResourceOf(p, cmd.names[i]).assertion
  IN assertion # None /\ Outgoing(p, cmd, i) \notin {assertion, Raised}

Convertible(p, cmd, i) ==
  /\ cmd.names[i] \in DOMAIN p.resources
  /\ Outgoing(p, cmd, i) # Raised /\ ~ Disproved(p, cmd, i)

\* The first value without a resource, raising or disproved, ends it; a disproof changes the
\* Device.
Convert(c) ==
  LET cmd     == req[c]
      stopped == {i \in DOMAIN cmd.names : ~ Convertible(profile, cmd, i)}
      event   == [i \in DOMAIN cmd.names |->
                    Mapped(profile, cmd.names[i], Outgoing(profile, cmd, i))]
  IN /\ cmd.phase = "driven" /\ ~ Answered(c)
     /\ IF WriteOnly(cmd)
        THEN /\ req' = [req EXCEPT ![c] = With(@, [result |-> "done"])]
             /\ UNCHANGED disabled
        ELSE IF ~ present \/ stopped # {}
        THEN /\ Fail(c, IF present /\ Outgoing(profile, cmd, Min(stopped)) = Raised
                        THEN Raised ELSE Refused)
             /\ disabled' = (disabled \/ (present /\ Disproved(profile, cmd, Min(stopped))))
        ELSE /\ req' = [req EXCEPT ![c] =
                          With(@, [result |-> "event", event |-> event, convertedBy |-> profile])]
             /\ UNCHANGED disabled
     /\ UNCHANGED <<profile, present, transforming, register, meant, asks, edits>>

Reply(c) ==
  /\ Answered(c)
  /\ req' = [req EXCEPT ![c] = Idle]
  /\ UNCHANGED <<profile, present, disabled, transforming, register, meant, asks, edits>>

-----------------------------------------------------------------------------
(* What goes on meanwhile. *)

Edit == edits < MaxEdits /\ edits' = edits + 1

\* A system event or the application changes or removes the profile.
Reprofile(p) ==
  /\ Edit /\ profile' = p
  /\ UNCHANGED <<present, disabled, transforming, register, meant, req, asks>>

\* The Device is removed, or added with its OperatingState.
Toggle ==
  /\ Edit /\ present' = ~ present /\ disabled' = FALSE
  /\ UNCHANGED <<profile, transforming, register, meant, req, asks>>

\* The device itself has a new value.
Sense(r, v) ==
  /\ Edit
  /\ register' = [register EXCEPT ![r] = v] /\ meant' = [meant EXCEPT ![r] = None]
  /\ UNCHANGED <<profile, present, disabled, transforming, req, asks>>

CommandNext ==
  \/ \E c \in Caller : Build(c) \/ Shape(c) \/ Read(c) \/ Write(c) \/ Convert(c) \/ Reply(c)
  \/ \E c \in Caller, q \in Request : Ask(c, q)
  \/ \E p \in Profile \union {Gone} : Reprofile(p)
  \/ \E s \in Sensed : Sense(s[1], s[2])
  \/ Toggle

CommandSpec == CommandInit /\ [][CommandNext]_commandVars

-----------------------------------------------------------------------------
(* Properties. *)

Called(c) == req[c].phase = "driven"

\* What a GET or the event of a SET shows is the value that was last asked for, unless the
\* device changed it, the profile was another at any look, or bits of it are lost: to a mask, a
\* shift or half a scale, or, of a 64-bit integer, to the floats its range is checked with.
\* Otherwise the transformations of a write and a read are each other's inverse.
ReadsBackWhatWasSet == \A c \in Caller :
  (Answered(c) /\ req[c].result = "event") =>
    LET cmd == req[c]
        p   == cmd.convertedBy
    IN \A i \in DOMAIN cmd.names :
         LET claim == cmd.claims[i]
         IN \/ claim = None \/ claim.profile # p \/ cmd.seen # p
            \/ LET r == p.resources[cmd.names[i]] IN Lossy(r.props, r.type)
            \/ cmd.event[i] = Mapped(p, cmd.names[i], claim.value)

\* The driver is given what fits the type it is told of.
DriverGetsTyped == \A c \in Caller :
  (Called(c) /\ req[c].ask.kind = "set") =>
    \A i \in DOMAIN req[c].names :
      IsInteger(req[c].types[i]) => InRange(req[c].values[i], req[c].types[i])

\* A value beyond the limits of its resource reaches the driver only when the transformations
\* are switched off, and the limits with them, or when the resource was changed or lost between
\* the two looks at the profile; a resource that is lost and stays lost is answered an error.
LimitsAreKept == \A c \in Caller :
  (Called(c) /\ req[c].ask.kind = "set") =>
    LET cmd == req[c]
    IN \/ ~ transforming \/ cmd.shapedBy # cmd.seen
       \/ \A i \in DOMAIN cmd.names :
            ~ Limited(cmd.wanted[i], cmd.seen.resources[cmd.names[i]].props)

\* What the driver is given fits its type and the limits of its resource.
DriverGetsLegalValues == DriverGetsTyped /\ LimitsAreKept
=============================================================================
