------------------------------- MODULE Values -------------------------------
(***************************************************************************)
(* The numeric transformations of internal/transformer, with the integer   *)
(* types of a CommandValue at a width of their own: what a write makes of  *)
(* the value of a request before the driver gets it, and what a read makes *)
(* of the value of the driver before it becomes a reading.  Scale and      *)
(* offset are floats, here in halves; an integer is transformed with the   *)
(* truncated ones, once the result as a float was seen to be in range.     *)
(* Floats are exact up to Exact only, which 64-bit integers leave.         *)
(*                                                                         *)
(* Of the float types only NaN and the plain value are here: they have no  *)
(* width to leave, and the properties of a resource with one are empty.    *)
(***************************************************************************)
EXTENDS Integers

CONSTANTS
  Overflow,     \* OverflowTransformerError
  Refused,      \* WriteParameterError, and a value that cannot be parsed for its type
  Raised,       \* any exception that is no TransformerError
  NaN,
  None,         \* no value, a property that is not given
  BitAnd(_, _), \* x & y
  Float(_, _),  \* the float nearest to a quotient of two integers; None if that is a fraction
  Exact,        \* up to this the floats tell all integers, and their quotients, apart
  Greatest      \* the greatest float

Failed == {Overflow, Refused, Raised}

ASSUME ValuesAssumption == None \notin Failed /\ (Failed \union {None}) \intersect Int = {}

\* A value type: the weight of its highest bit and whether it is signed; a float has none.
Type == [half : Nat, signed : BOOLEAN]

IsInteger(t) == t.half # 0

Size(t)    == 2 * t.half
Lowest(t)  == IF t.signed THEN -t.half ELSE 0
Highest(t) == IF t.signed THEN t.half - 1 ELSE Size(t) - 1
InRange(v, t) == Lowest(t) <= v /\ v <= Highest(t)

Properties == [mask : Int, shift : Int, base : Int, scale2 : Int, offset2 : Int,
               minimum : Int \union {None}, maximum : Int \union {None}]

\* The resource's properties without any.  A shift is the power of two it divides by when
\* reading, negative for one it multiplies by.
Plain == [mask |-> 0, shift |-> 0, base |-> 0, scale2 |-> 2, offset2 |-> 0,
          minimum |-> None, maximum |-> None]

\* Truncation toward zero, of halves and of a quotient.
TruncHalves(halves) == IF halves >= 0 THEN halves \div 2 ELSE -((-halves) \div 2)

Magnitude(a) == IF a >= 0 THEN a ELSE -a

TruncDiv(a, b) ==
  IF b = 0 THEN Overflow
  ELSE LET quotient == Magnitude(a) \div Magnitude(b)
       IN IF (a >= 0) = (b >= 0) THEN quotient ELSE -quotient

\* External: the arithmetic of floats.  Exact stands for 2^46, below which a logarithm, too,
\* is an integer only if it is the exact one.
ASSUME FloatAssumption ==
  /\ Exact \in Nat /\ Greatest \in Nat /\ Exact <= Greatest
  /\ \A x \in -Exact .. Exact, y \in (-Exact .. Exact) \ {0} :
       Float(x, y) = IF x % Magnitude(y) = 0 THEN TruncDiv(x, y) ELSE None

\* The low bits, read as two's complement when the type is signed.
ToSigned(v, t) == IF t.signed /\ v >= t.half THEN v - Size(t) ELSE v
Truncate(v, t) == ToSigned(v % Size(t), t)

-----------------------------------------------------------------------------
(* One transformation each. *)

Mask(v, mask, t) == ToSigned(BitAnd(v % Size(t), mask % Size(t)), t)

Shift(v, shift, t) ==
  Truncate(IF shift > 0 THEN v \div shift ELSE v * (-shift), t)

\* _check_in_range compares floats: the greatest integer of 64 bits is one more there.
FloatInRange(f, t) == f # None /\ Float(Lowest(t), 1) <= f /\ f <= Float(Highest(t), 1)

\* base ** v: too great a power raises an OverflowError, too small a one is 0.
Base(v, base, t) ==
  LET exponent == Float(v, 1)
      power    == base ^ Magnitude(exponent)
      result   == IF exponent >= 0 THEN Float(power, 1) ELSE Float(1, power)
  IN IF exponent >= 0 /\ Magnitude(power) > Greatest THEN Raised
     ELSE IF FloatInRange(result, t) THEN Truncate(result, t) ELSE Overflow

\* The quotient of two logarithms, which is one short of an integer now and then, and an
\* integer for all numbers that are close enough to a power: to one of these at most.
Log(v, base, t) ==
  LET near == {x \in 1 .. 2 * v : Magnitude(x - v) * Exact < 2 * v}
  IN IF v <= 0 \/ base <= 1 THEN {Raised}
     ELSE {k \in 0 .. v \div 4 + 2 : base ^ k \in near /\ InRange(k, t)} \union {Overflow}

Multiply(v, scale2, t) ==
  IF FloatInRange(Float(Float(v, 1) * scale2, 2), t)
  THEN Truncate(v * TruncHalves(scale2), t)
  ELSE Overflow

Divide(v, scale2, t) ==
  IF scale2 = 0 THEN Raised
  ELSE IF ~ FloatInRange(Float(2 * Float(v, 1), scale2), t) THEN Overflow
  ELSE LET quotient == TruncDiv(v, TruncHalves(scale2))
       IN IF quotient = Overflow THEN Overflow ELSE Truncate(quotient, t)

Add(v, offset2, t) ==
  IF FloatInRange(Float(2 * Float(v, 1) + offset2, 2), t)
  THEN Truncate(v + TruncHalves(offset2), t)
  ELSE Overflow

-----------------------------------------------------------------------------
(* transform_read_result and transform_write_parameter. *)

\* A transformation that is not configured, or whose value is already lost, changes nothing.
Unless(v, skip, result) == IF v \in Failed \/ skip THEN v ELSE result

\* What a driver's value becomes; a NaN is a reading of its own.
Transformed(v, p, t) ==
  IF ~ IsInteger(t) THEN v
  ELSE LET masked  == Unless(v, p.mask = 0, Mask(v, p.mask, t))
           shifted == Unless(masked, p.shift = 0, Shift(masked, p.shift, t))
           based   == Unless(shifted, p.base = 0, Base(shifted, p.base, t))
           scaled  == Unless(based, p.scale2 = 2, Multiply(based, p.scale2, t))
       IN Unless(scaled, p.offset2 = 0, Add(scaled, p.offset2, t))

Limited(v, p) ==
  \/ p.maximum # None /\ v > p.maximum
  \/ p.minimum # None /\ v < p.minimum

\* Mutant: offset and scale in the order of a read.
ParametersScaleFirst(v, p, t) ==
  IF ~ IsInteger(t) THEN {v}
  ELSE IF ~ InRange(v, t) \/ Limited(v, p) THEN {Refused}
  ELSE LET divided == Unless(v, p.scale2 = 2, Divide(v, p.scale2, t))
       IN {Unless(divided, p.offset2 = 0, Add(divided, -p.offset2, t))}

\* Mutant: the limits are those of the transformed value.
ParametersLimitedLast(v, p, t) ==
  IF ~ IsInteger(t) THEN {v}
  ELSE IF ~ InRange(v, t) THEN {Refused}
  ELSE LET moved   == Unless(v, p.offset2 = 0, Add(v, -p.offset2, t))
           divided == Unless(moved, p.scale2 = 2, Divide(moved, p.scale2, t))
       IN {IF divided \notin Failed /\ Limited(divided, p) THEN Refused ELSE divided}

\* What the value of a request may become, its parsing for the type included.
Parameters(v, p, t) ==
  IF ~ IsInteger(t) THEN {v}
  ELSE IF ~ InRange(v, t) \/ Limited(v, p) THEN {Refused}
  ELSE LET moved   == Unless(v, p.offset2 = 0, Add(v, -p.offset2, t))
           divided == Unless(moved, p.scale2 = 2, Divide(moved, p.scale2, t))
           logs    == IF divided \in Failed \/ p.base = 0 THEN {divided} ELSE Log(divided, p.base, t)
           shifted == {Unless(x, p.shift = 0, Shift(x, -p.shift, t)) : x \in logs}
       IN {Unless(x, p.mask = 0, Mask(x, p.mask, t)) : x \in shifted}

\* A type and its properties that floats are exact for: at most 32 bits.
Narrow(p, t) ==
  8 * t.half <= Exact /\ Magnitude(p.scale2) <= Exact /\ 2 * Magnitude(p.offset2) <= Exact

\* A value that is set comes back as it was, unless bits of it are dropped on the way.
Lossy(p, t) ==
  IsInteger(t) /\ (p.mask # 0 \/ p.shift # 0 \/ p.scale2 % 2 # 0 \/ ~ Narrow(p, t))
=============================================================================
