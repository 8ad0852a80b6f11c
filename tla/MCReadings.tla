----------------------------- MODULE MCReadings -----------------------------
(***************************************************************************)
(* Where values go for TLC: the commands of two callers (Commands), the    *)
(* comparison of an AutoEvent's readings (OnChange), the channel of        *)
(* AsyncValues (AsyncPump) and that of discovered devices                  *)
(* (DiscoveredPump).  They share no variable, so a behaviour steps one of  *)
(* them.  Integers of commands are three bits wide, of both kinds, or six, *)
(* and floats have five bits: they stand to the six as those of 53 to 64.  *)
(***************************************************************************)
EXTENDS Commands, OnChange, AsyncPump, Bitwise, TLC

CONSTANTS
  a, b, both, anything, on, off,
  Candidate, Watcher, MaxFinds, d1, d2, w1, w2,
  b1, b2, b3

Ands(x, y) == x & y

\* Five bits of precision, ties to the even neighbour: x * up / (y * down), rounded, is at most 32.
Nearest(x, y) ==
  LET below == x \div y
      twice == 2 * (x % y)
  IN IF twice > y \/ (twice = y /\ below % 2 = 1) THEN below + 1 ELSE below

Scalings == {<<2 ^ n, 1>> : n \in 0 .. 6} \union {<<1, 2 ^ n>> : n \in 1 .. 9}

Float5(x, y) ==
  LET m == Magnitude(x)
      n == Magnitude(y)
      small == {s \in Scalings : m * s[1] <= 32 * n * s[2]}
      s     == CHOOSE s \in small : \A o \in small : o[1] * s[2] <= s[1] * o[2]
      near  == Nearest(m * s[1], n * s[2]) * s[2]
  IN IF near % s[1] # 0 THEN None
     ELSE IF (x >= 0) = (y >= 0) THEN near \div s[1] ELSE -(near \div s[1])

U3 == [half |-> 4, signed |-> FALSE]
S3 == [half |-> 4, signed |-> TRUE]
U6 == [half |-> 32, signed |-> FALSE]
F  == [half |-> 0, signed |-> FALSE]

Resources(ta, pa, access, asserted) ==
  (a :> [type |-> ta, access |-> access, default |-> None, props |-> pa, assertion |-> None]) @@
  (b :> [type |-> F, access |-> "RW", default |-> 1, props |-> Plain, assertion |-> asserted])

Both(access) ==
  both :> [access |-> access,
           operations |-> << [resource |-> a, default |-> 2, mapping |-> (4 :> on)],
                             [resource |-> b, default |-> None, mapping |-> <<>>] >>]

Scaled  == [Plain EXCEPT !.scale2 = 4, !.offset2 = -2, !.maximum = 4]
Powered == [Plain EXCEPT !.base = 2, !.offset2 = 4]
Masked  == [Plain EXCEPT !.mask = 6, !.shift = 2]
Doubled == [Plain EXCEPT !.scale2 = 4]

Scaling == [resources |-> Resources(U3, Scaled, "RW", None), commands |-> Both("RW")]

Profiles3 ==
  { Scaling,
    [resources |-> Resources(S3, Powered, "RW", 1),    commands |-> Both("RW")],
    [resources |-> Resources(U6, Doubled, "RW", None), commands |-> Both("RW")],
    [resources |-> Resources(S3, Masked, "W", None),   commands |-> Both("W")] }

SetTo(target, body) == [kind |-> "set", target |-> target, body |-> body]
GetOf(target)       == [kind |-> "get", target |-> target, body |-> <<>>]

Requests ==
  { GetOf(both), GetOf(a), GetOf(anything),
    SetTo(a, a :> 3), SetTo(a, a :> 5), SetTo(a, a :> on), SetTo(a, a :> -1), SetTo(a, a :> 33),
    SetTo(both, a :> on), SetTo(both, (a :> 1) @@ (b :> off)),
    SetTo(both, (a :> 3) @@ (b :> 0)) }

\* The AutoEvents read a number and a picture, of which two have one checksum.
Numeric1  == {a}
Binary1   == {b}
Pictures  == {b1, b2, b3}
Checksums == (b1 :> 1) @@ (b2 :> 1) @@ (b3 :> 2)

SensedValues == {<<a, 1>>, <<a, 7>>, <<b, NaN>>}

VARIABLES
  channel, finds, unlocked, known, pump, batch, snapshot, down

D == INSTANCE DiscoveredPump WITH
  Batches <- {<<d1>>, <<d2, d1>>}, Matches <- {<<d1, w1>>, <<d2, w2>>}

foundVars == <<channel, finds, unlocked, known, pump, batch, snapshot, down>>

all == <<commandVars, asyncVars, foundVars, changeVars>>

CommandsRest == CommandInit /\ profile = Scaling /\ transforming
AsyncRests   == AsyncInit
FoundRests   == D!PumpInit /\ unlocked = {}
ChangeRests  == ChangeInit /\ mode = "all"

MCInit ==
  \/ CommandInit  /\ AsyncRests  /\ FoundRests /\ ChangeRests
  \/ CommandsRest /\ AsyncInit   /\ FoundRests /\ ChangeRests
  \/ CommandsRest /\ AsyncRests  /\ D!PumpInit /\ ChangeRests
  \/ CommandsRest /\ AsyncRests  /\ FoundRests /\ ChangeInit

CommandStep ==
  /\ AsyncRests /\ FoundRests /\ ChangeRests /\ CommandNext
  /\ UNCHANGED <<asyncVars, foundVars, changeVars>>
AsyncStep ==
  /\ CommandsRest /\ FoundRests /\ ChangeRests /\ AsyncNext
  /\ UNCHANGED <<commandVars, foundVars, changeVars>>
FoundStep ==
  /\ CommandsRest /\ AsyncRests /\ ChangeRests /\ D!PumpNext
  /\ UNCHANGED <<commandVars, asyncVars, changeVars>>
ChangeStep ==
  /\ CommandsRest /\ AsyncRests /\ FoundRests /\ ChangeNext
  /\ UNCHANGED <<commandVars, asyncVars, foundVars>>

\* No fair action is enabled in a component at rest.
FairSpec ==
  /\ MCInit /\ [][CommandStep \/ AsyncStep \/ FoundStep \/ ChangeStep]_all
  /\ AsyncFairness /\ D!PumpFairness

\* Both pumps keep up: who waits for room gets on, and lists of finds are worked off.
PumpsKeepUp == PutsGetThrough /\ D!FoundAreHandled
=============================================================================
