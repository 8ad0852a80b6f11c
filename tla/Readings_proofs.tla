---------------------------- MODULE Readings_proofs ----------------------------
(***************************************************************************)
(* Where values come from and go to, for any number of callers, threads,   *)
(* resources, profiles and events.  Commands: what a read makes of what a  *)
(* write made of a value, that the driver is given nothing that does not   *)
(* fit, and that what is read back is what was set.  AsyncPump: the        *)
(* origins of events.  CoreClients: what Core Data's client knows of the   *)
(* events it was given, for any size of a batch and any overlap of the     *)
(* worker, a sender that fills the queue, and close().                     *)
(***************************************************************************)
EXTENDS Commands, CoreClients, AsyncPump, SequenceTheorems, FiniteSetTheorems,
        WellFoundedInduction, TLAPS

-----------------------------------------------------------------------------
(* Numbers. *)

\* The remainder by a positive number.
LEMMA RemainderOf ==
  ASSUME NEW v \in Int, NEW n \in Nat, n # 0
  PROVE  /\ v % n \in 0 .. n - 1
         /\ v \div n \in Int
         /\ v = n * (v \div n) + (v % n)
OBVIOUS

\* It is the number itself, or that and the divisor, within one divisor of zero.
LEMMA RemainderNear ==
  ASSUME NEW v \in Int, NEW n \in Nat, n # 0
  PROVE  /\ 0 <= v /\ v < n => v % n = v
         /\ -n <= v /\ v < 0 => v % n = v + n
<1>1. PICK q \in Int : q = v \div n  BY RemainderOf
<1>2. v % n \in 0 .. n - 1 /\ v = n * q + (v % n)  BY RemainderOf, <1>1
<1>3. ASSUME 0 <= v, v < n  PROVE v % n = v
  <2>1. q = 0
    <3>1. ~ (q >= 1)  BY <1>2, <1>3
    <3>2. ~ (q <= -1)  BY <1>2, <1>3
    <3>. QED BY <3>1, <3>2
  <2>. QED BY <1>2, <2>1
<1>4. ASSUME -n <= v, v < 0  PROVE v % n = v + n
  <2>1. q = -1
    <3>1. ~ (q >= 0)  BY <1>2, <1>4
    <3>2. ~ (q <= -2)  BY <1>2, <1>4
    <3>. QED BY <3>1, <3>2
  <2>. QED BY <1>2, <2>1
<1>. QED BY <1>3, <1>4

LEMMA ToSignedFits ==
  ASSUME NEW t \in Type, IsInteger(t), NEW v \in 0 .. Size(t) - 1
  PROVE  ToSigned(v, t) \in Int /\ InRange(ToSigned(v, t), t)
BY DEF Type, IsInteger, Size, ToSigned, InRange, Lowest, Highest

LEMMA TruncateFits ==
  ASSUME NEW t \in Type, IsInteger(t), NEW v \in Int
  PROVE  /\ Truncate(v, t) \in Int /\ InRange(Truncate(v, t), t)
         /\ InRange(v, t) => Truncate(v, t) = v
<1>1. Size(t) \in Nat /\ Size(t) # 0  BY DEF Type, IsInteger, Size
<1>2. v % Size(t) \in 0 .. Size(t) - 1  BY <1>1, RemainderOf
<1>3. ASSUME InRange(v, t)  PROVE Truncate(v, t) = v
  <2>1. CASE v >= 0
    <3>1. v % Size(t) = v
      BY <1>1, <1>3, <2>1, RemainderNear DEF InRange, Lowest, Highest, Size, Type, IsInteger
    <3>. QED BY <3>1, <2>1, <1>3 DEF Truncate, ToSigned, InRange, Lowest, Highest, Size, Type
  <2>2. CASE v < 0
    <3>1. - Size(t) <= v
      BY <1>3 DEF InRange, Lowest, Size, Type, IsInteger
    <3>2. v % Size(t) = v + Size(t)
      BY <1>1, <2>2, <3>1, RemainderNear
    <3>. QED BY <3>2, <2>2, <1>3 DEF Truncate, ToSigned, InRange, Lowest, Highest, Size, Type
  <2>. QED BY <2>1, <2>2
<1>. QED BY <1>2, <1>3, ToSignedFits DEF Truncate

\* Half of an even number.
LEMMA Halved ==
  ASSUME NEW h \in Int
  PROVE  /\ TruncHalves(h) \in Int
         /\ h % 2 = 0 => h = 2 * TruncHalves(h) /\ h \div 2 = TruncHalves(h)
<1>1. CASE h >= 0  BY <1>1 DEF TruncHalves
<1>2. CASE h < 0   BY <1>2 DEF TruncHalves
<1>. QED BY <1>1, <1>2

LEMMA QuotientTyped ==
  ASSUME NEW x \in Int, NEW y \in Int, y # 0
  PROVE  TruncDiv(x, y) \in Int
<1>1. Magnitude(x) \in Nat /\ Magnitude(y) \in Nat /\ Magnitude(y) # 0  BY DEF Magnitude
<1>2. Magnitude(x) \div Magnitude(y) \in Int  BY <1>1, RemainderOf
<1>. QED BY <1>2 DEF TruncDiv

\* A quotient without a remainder times the divisor is the dividend.
LEMMA QuotientExact ==
  ASSUME NEW x \in Int, NEW y \in Int, y # 0, NEW k \in Int, x = k * y
  PROVE  TruncDiv(x, y) = k
<1>1. PICK m \in Nat, n \in Nat : m = Magnitude(x) /\ n = Magnitude(y)  BY DEF Magnitude
<1>2. n # 0  BY <1>1 DEF Magnitude
<1>3. PICK q \in Int : q = m \div n  BY <1>2, RemainderOf
<1>4. m = n * q + (m % n) /\ m % n \in 0 .. n - 1  BY <1>2, <1>3, RemainderOf
<1>5. PICK l \in Nat : l = Magnitude(k)  BY DEF Magnitude
<1>6. m = n * l
  <2>1. CASE k >= 0 /\ y >= 0 BY <2>1, <1>1, <1>5 DEF Magnitude
  <2>2. CASE k >= 0 /\ y < 0  BY <2>2, <1>1, <1>5 DEF Magnitude
  <2>3. CASE k < 0 /\ y >= 0  BY <2>3, <1>1, <1>5 DEF Magnitude
  <2>4. CASE k < 0 /\ y < 0   BY <2>4, <1>1, <1>5 DEF Magnitude
  <2>. QED BY <2>1, <2>2, <2>3, <2>4
<1>7. q = l
  <2>1. ~ (q >= l + 1)  BY <1>2, <1>4, <1>6
  <2>2. ~ (q <= l - 1)  BY <1>2, <1>4, <1>6
  <2>. QED BY <2>1, <2>2
<1>8. x >= 0 <=> (k = 0 \/ (k > 0 /\ y > 0) \/ (k < 0 /\ y < 0))  OBVIOUS
<1>. QED BY <1>1, <1>3, <1>5, <1>7, <1>8 DEF TruncDiv, Magnitude
-----------------------------------------------------------------------------
(* What a write makes of a value. *)

\* A failure, or a number the type has.
Outcome(x, t) == x \in Failed \/ (x \in Int /\ InRange(x, t))

\* Of the bits of two numbers of a type.
AndFits(t) == \A x, y \in 0 .. Size(t) - 1 : BitAnd(x, y) \in 0 .. x

\* The outcomes of one step of a write.
LEMMA NoNumberFails ==
  ASSUME NEW x \in Int  PROVE x \notin Failed
BY ValuesAssumption

LEMMA AddFits ==
  ASSUME NEW t \in Type, IsInteger(t), NEW v \in Int, NEW o \in Int
  PROVE  Outcome(Add(v, o, t), t)
<1>1. v + TruncHalves(o) \in Int  BY Halved
<1>2. Outcome(Truncate(v + TruncHalves(o), t), t)  BY <1>1, TruncateFits DEF Outcome
<1>. QED BY <1>2 DEF Add, Outcome, Failed

LEMMA DivideFits ==
  ASSUME NEW t \in Type, IsInteger(t), NEW v \in Int, NEW s \in Int
  PROVE  Outcome(Divide(v, s, t), t)
<1>1. TruncHalves(s) \in Int  BY Halved
<1>2. CASE TruncHalves(s) = 0
  <2>1. TruncDiv(v, TruncHalves(s)) = Overflow  BY <1>2 DEF TruncDiv
  <2>. QED BY <2>1 DEF Divide, Outcome, Failed
<1>3. CASE TruncHalves(s) # 0
  <2>1. TruncDiv(v, TruncHalves(s)) \in Int  BY <1>1, <1>3, QuotientTyped
  <2>2. Outcome(Truncate(TruncDiv(v, TruncHalves(s)), t), t)  BY <2>1, TruncateFits DEF Outcome
  <2>. QED BY <2>2 DEF Divide, Outcome, Failed
<1>. QED BY <1>2, <1>3

LEMMA LogFits ==
  ASSUME NEW t \in Type, IsInteger(t), NEW v \in Int, NEW b, NEW x \in Log(v, b, t)
  PROVE  Outcome(x, t)
<1>1. CASE v <= 0 \/ b <= 1  BY <1>1 DEF Log, Outcome, Failed
<1>2. CASE ~ (v <= 0 \/ b <= 1)
  <2>1. x = Overflow \/ (x \in Int /\ InRange(x, t))  BY <1>2 DEF Log
  <2>. QED BY <2>1 DEF Outcome, Failed
<1>. QED BY <1>1, <1>2

LEMMA ShiftFits ==
  ASSUME NEW t \in Type, IsInteger(t), NEW v \in Int, NEW s \in Int
  PROVE  Outcome(Shift(v, s, t), t)
<1>1. CASE s > 0
  <2>1. v \div s \in Int  BY <1>1, RemainderOf
  <2>. QED BY <1>1, <2>1, TruncateFits DEF Shift, Outcome
<1>2. CASE ~ (s > 0)
  <2>1. v * (-s) \in Int  OBVIOUS
  <2>. QED BY <1>2, <2>1, TruncateFits DEF Shift, Outcome
<1>. QED BY <1>1, <1>2

LEMMA MaskFits ==
  ASSUME NEW t \in Type, IsInteger(t), AndFits(t), NEW v \in Int, NEW m \in Int
  PROVE  Outcome(Mask(v, m, t), t)
<1>1. Size(t) \in Nat /\ Size(t) # 0  BY DEF Type, IsInteger, Size
<1>2. v % Size(t) \in 0 .. Size(t) - 1 /\ m % Size(t) \in 0 .. Size(t) - 1  BY <1>1, RemainderOf
<1>3. BitAnd(v % Size(t), m % Size(t)) \in 0 .. v % Size(t)  BY <1>2 DEF AndFits
<1>4. BitAnd(v % Size(t), m % Size(t)) \in 0 .. Size(t) - 1  BY <1>1, <1>2, <1>3
<1>. QED BY <1>4, ToSignedFits DEF Mask, Outcome

\* A step that is not taken leaves an outcome of the type too.
LEMMA UnlessFits ==
  ASSUME NEW t, NEW v, Outcome(v, t), NEW skip, NEW result,
         v \in Int /\ InRange(v, t) => Outcome(result, t)
  PROVE  Outcome(Unless(v, skip, result), t)
BY DEF Unless, Outcome

\* The values of a write in its order, for a number the type has and its limits allow.
Moved(v, p, t)   == Unless(v, p.offset2 = 0, Add(v, -p.offset2, t))
Divided(v, p, t) == LET m == Moved(v, p, t) IN Unless(m, p.scale2 = 2, Divide(m, p.scale2, t))
Logs(v, p, t) ==
  LET d == Divided(v, p, t)
  IN IF d \in Failed \/ p.base = 0 THEN {d} ELSE Log(d, p.base, t)

LEMMA ParameterSteps ==
  ASSUME NEW t, IsInteger(t), NEW v, NEW p, InRange(v, t), ~ Limited(v, p),
         NEW x \in Parameters(v, p, t)
  PROVE  \E l \in Logs(v, p, t) :
           LET s == Unless(l, p.shift = 0, Shift(l, -p.shift, t))
           IN x = Unless(s, p.mask = 0, Mask(s, p.mask, t))
BY DEF Parameters, Logs, Divided, Moved

LEMMA DividedFits ==
  ASSUME NEW t \in Type, IsInteger(t), NEW v \in Int, InRange(v, t), NEW p \in Properties
  PROVE  Outcome(Moved(v, p, t), t) /\ Outcome(Divided(v, p, t), t)
<1>. p.offset2 \in Int /\ -p.offset2 \in Int /\ p.scale2 \in Int  BY DEF Properties
<1>1. Outcome(v, t)  BY DEF Outcome
<1>2. Outcome(Moved(v, p, t), t)  BY <1>1, AddFits, UnlessFits DEF Moved
<1>3. Moved(v, p, t) \in Int => Outcome(Divide(Moved(v, p, t), p.scale2, t), t)
  BY DivideFits
<1>4. Outcome(Divided(v, p, t), t)  BY <1>2, <1>3, UnlessFits DEF Divided
<1>. QED BY <1>2, <1>4

\* What a write gives the driver fits its type.
LEMMA ParametersFit ==
  ASSUME NEW t \in Type, IsInteger(t), AndFits(t), NEW v \in Int, InRange(v, t),
         NEW p \in Properties, NEW x \in Parameters(v, p, t)
  PROVE  Outcome(x, t)
<1>. -p.shift \in Int /\ p.mask \in Int  BY DEF Properties
<1>1. CASE Limited(v, p)
  <2>1. x = Refused  BY <1>1 DEF Parameters
  <2>. QED BY <2>1 DEF Outcome, Failed
<1>2. CASE ~ Limited(v, p)
  <2>1. PICK l \in Logs(v, p, t) :
          LET s == Unless(l, p.shift = 0, Shift(l, -p.shift, t))
          IN x = Unless(s, p.mask = 0, Mask(s, p.mask, t))
    BY <1>2, ParameterSteps
  <2>2. Outcome(Divided(v, p, t), t)  BY DividedFits
  <2>3. Outcome(l, t)
    <3>1. CASE l = Divided(v, p, t)  BY <3>1, <2>2
    <3>2. CASE l # Divided(v, p, t)
      <4>1. Divided(v, p, t) \notin Failed /\ l \in Log(Divided(v, p, t), p.base, t)
        BY <3>2, <2>1 DEF Logs
      <4>2. Divided(v, p, t) \in Int  BY <4>1, <2>2 DEF Outcome
      <4>. QED BY <4>1, <4>2, LogFits
    <3>. QED BY <3>1, <3>2
  <2>4. PICK s : s = Unless(l, p.shift = 0, Shift(l, -p.shift, t))  OBVIOUS
  <2>5. Outcome(s, t)  BY <2>3, <2>4, ShiftFits, UnlessFits
  <2>6. x = Unless(s, p.mask = 0, Mask(s, p.mask, t))  BY <2>1, <2>4
  <2>7. s \in Int => Outcome(Mask(s, p.mask, t), t)  BY MaskFits
  <2>. QED BY <2>5, <2>6, <2>7, UnlessFits
<1>. QED BY <1>1, <1>2

-----------------------------------------------------------------------------
(* A read undoes a write. *)

\* A float that is an integer, or a quotient without a remainder.
LEMMA FloatExact ==
  ASSUME NEW x \in -Exact .. Exact, NEW y \in -Exact .. Exact, y # 0, Float(x, y) # None
  PROVE  x % Magnitude(y) = 0 /\ Float(x, y) = TruncDiv(x, y)
BY FloatAssumption

\* The halves of an even number.
LEMMA FloatHalf ==
  ASSUME NEW x \in -Exact .. Exact, 2 <= Exact
  PROVE  /\ Float(x, 2) # None => x % 2 = 0
         /\ \A k \in Int : x = 2 * k => Float(x, 2) = k
<1>1. Exact \in Nat /\ 2 \in -Exact .. Exact /\ Magnitude(2) = 2
  BY FloatAssumption DEF Magnitude
<1>2. ASSUME NEW k \in Int, x = 2 * k  PROVE Float(x, 2) = k
  <2>1. x % 2 = 0  BY <1>2
  <2>2. TruncDiv(x, 2) = k  BY <1>2, QuotientExact
  <2>. QED BY <1>1, <2>1, <2>2, FloatAssumption
<1>3. ASSUME Float(x, 2) # None  PROVE x % 2 = 0
  BY <1>1, <1>3, FloatExact
<1>. QED BY <1>2, <1>3

LEMMA FloatOfInteger ==
  ASSUME NEW x \in -Exact .. Exact, 1 <= Exact
  PROVE  Float(x, 1) = x
<1>1. Exact \in Nat /\ 1 \in -Exact .. Exact /\ Magnitude(1) = 1
  BY FloatAssumption DEF Magnitude
<1>2. x % 1 = 0  OBVIOUS
<1>3. TruncDiv(x, 1) = x  BY QuotientExact
<1>. QED BY <1>1, <1>2, <1>3, FloatAssumption

\* The range of a narrow type is the same in floats.
LEMMA NarrowRange ==
  ASSUME NEW t \in Type, IsInteger(t), NEW p, Narrow(p, t)
  PROVE  /\ Exact \in Nat /\ 8 <= Exact
         /\ \A v \in Int : InRange(v, t) => /\ 2 * v \in -Exact .. Exact
                                            /\ 4 * v <= Exact /\ -Exact <= 4 * v
                                            /\ Float(v, 1) = v
         /\ \A f : FloatInRange(f, t) <=> f # None /\ InRange(f, t)
<1>1. Exact \in Nat /\ t.half \in Nat /\ t.half >= 1 /\ 8 * t.half <= Exact
  BY FloatAssumption DEF Type, IsInteger, Narrow
<1>2. ASSUME NEW v \in Int, InRange(v, t)
      PROVE  4 * v <= Exact /\ -Exact <= 4 * v
  BY <1>1, <1>2 DEF InRange, Lowest, Highest, Size
<1>3. ASSUME NEW v \in Int, InRange(v, t)
      PROVE  2 * v \in -Exact .. Exact /\ Float(v, 1) = v
  BY <1>1, <1>2, <1>3, FloatOfInteger
<1>4. /\ Lowest(t) \in Int /\ Highest(t) \in Int
      /\ InRange(Lowest(t), t) /\ InRange(Highest(t), t)
  BY <1>1 DEF InRange, Lowest, Highest, Size
<1>5. Float(Lowest(t), 1) = Lowest(t) /\ Float(Highest(t), 1) = Highest(t)
  BY <1>3, <1>4
<1>. QED BY <1>1, <1>2, <1>3, <1>5 DEF FloatInRange, InRange

LEMMA AddBack ==
  ASSUME NEW t \in Type, IsInteger(t), NEW v \in Int, InRange(v, t), NEW p \in Properties,
         Narrow(p, t), NEW w, w = Add(v, -p.offset2, t), w \notin Failed
  PROVE  Add(w, p.offset2, t) = v
<1>1. PICK o \in Int : o = p.offset2  BY DEF Properties
<1>2. Exact \in Nat /\ 2 <= Exact /\ 4 * v <= Exact /\ -Exact <= 4 * v /\ Float(v, 1) = v
  BY NarrowRange
<1>3. 2 * o <= Exact /\ -Exact <= 2 * o
  BY <1>1, <1>2 DEF Narrow, Magnitude
<1>4. 2 * v + (-o) \in -Exact .. Exact  BY <1>2, <1>3
<1>5. /\ FloatInRange(Float(2 * v + (-o), 2), t)
      /\ w = Truncate(v + TruncHalves(-o), t)
  BY <1>1, <1>2 DEF Add, Failed
<1>6. (2 * v + (-o)) % 2 = 0  BY <1>2, <1>4, <1>5, FloatHalf DEF FloatInRange
<1>7. (-o) % 2 = 0  BY <1>6
<1>8. PICK k \in Int : k = TruncHalves(-o) /\ -o = 2 * k
  <2>. PICK m \in Int : m = -o  OBVIOUS
  <2>1. m % 2 = 0  BY <1>7
  <2>. QED BY <2>1, Halved
<1>9. Float(2 * v + (-o), 2) = v + k
  <2>1. v + k \in Int /\ 2 * v + (-o) = 2 * (v + k)  BY <1>8
  <2>. QED BY <1>2, <1>4, <2>1, FloatHalf
<1>10. InRange(v + k, t)  BY <1>5, <1>9, NarrowRange
<1>11. w = v + k  BY <1>5, <1>8, <1>10, TruncateFits
<1>12. Float(w, 1) = w  BY <1>10, <1>11, NarrowRange
<1>13. o % 2 = 0 /\ TruncHalves(o) = -k
  <2>1. o % 2 = 0  BY <1>8
  <2>2. o = 2 * TruncHalves(o) /\ TruncHalves(o) \in Int  BY <2>1, Halved
  <2>. QED BY <1>8, <2>1, <2>2
<1>14. 2 * w + o = 2 * v /\ 2 * v \in -Exact .. Exact
  BY <1>2, <1>8, <1>11
<1>15. Float(2 * w + o, 2) = v  BY <1>2, <1>14, FloatHalf
<1>16. FloatInRange(v, t)  BY NarrowRange, ValuesAssumption DEF Failed
<1>17. w + TruncHalves(o) = v  BY <1>11, <1>13
<1>. QED BY <1>1, <1>12, <1>15, <1>16, <1>17, TruncateFits DEF Add

LEMMA DivideBack ==
  ASSUME NEW t \in Type, IsInteger(t), NEW v \in Int, InRange(v, t), NEW p \in Properties,
         Narrow(p, t), p.scale2 % 2 = 0,
         NEW w, w = Divide(v, p.scale2, t), w \notin Failed
  PROVE  Multiply(w, p.scale2, t) = v
<1>0. PICK s \in Int : s = p.scale2  BY DEF Properties
<1>1. PICK k \in Int : k = TruncHalves(s)  BY Halved
<1>2. s = 2 * k /\ s # 0  BY <1>0, <1>1, Halved DEF Divide, Failed
<1>3. k # 0  BY <1>2
<1>4. Exact \in Nat /\ 2 <= Exact /\ 2 * v \in -Exact .. Exact /\ Float(v, 1) = v
  BY NarrowRange
<1>5. PICK m \in Nat : m = Magnitude(s)  BY DEF Magnitude
<1>6. m # 0 /\ (m = s \/ m = -s)  BY <1>2, <1>5 DEF Magnitude
<1>7. s \in -Exact .. Exact  BY <1>0, <1>4, <1>5, <1>6 DEF Narrow
<1>8. /\ FloatInRange(Float(2 * v, s), t)
      /\ w = Truncate(TruncDiv(v, k), t)
  BY <1>0, <1>1, <1>2, <1>4 DEF Divide, Failed
<1>9. (2 * v) % m = 0 /\ Float(2 * v, s) = TruncDiv(2 * v, s)
  BY <1>2, <1>4, <1>5, <1>7, <1>8, FloatExact DEF FloatInRange
<1>10. PICK j \in Int : 2 * v = m * j
  <2>1. (2 * v) \div m \in Int /\ 2 * v = m * ((2 * v) \div m) + ((2 * v) % m)
    BY <1>6, RemainderOf
  <2>. QED BY <2>1, <1>9
<1>11. PICK q \in Int : 2 * v = q * s /\ v = q * k
  <2>1. CASE m = s
    <3>1. 2 * v = j * s  BY <1>10, <2>1
    <3>2. v = j * k  BY <3>1, <1>2
    <3>. QED BY <3>1, <3>2
  <2>2. CASE m = -s
    <3>1. 2 * v = (-j) * s  BY <1>10, <2>2
    <3>2. v = (-j) * k  BY <3>1, <1>2
    <3>. QED BY <3>1, <3>2
  <2>. QED BY <2>1, <2>2, <1>6
<1>12. TruncDiv(2 * v, s) = q /\ TruncDiv(v, k) = q  BY <1>2, <1>3, <1>11, QuotientExact
<1>13. InRange(q, t)  BY <1>8, <1>9, <1>12, NarrowRange
<1>14. w = q  BY <1>8, <1>12, <1>13, TruncateFits
<1>15. Float(w, 1) = w  BY <1>13, <1>14, NarrowRange
<1>16. w * s = 2 * v /\ w * k = v  BY <1>11, <1>14
<1>17. Float(w * s, 2) = v  BY <1>4, <1>16, FloatHalf
<1>18. FloatInRange(v, t)  BY NarrowRange, ValuesAssumption DEF Failed
<1>. QED BY <1>0, <1>1, <1>15, <1>16, <1>17, <1>18, TruncateFits DEF Multiply

LEMMA LogBack ==
  ASSUME NEW t \in Type, IsInteger(t), NEW v \in Int, InRange(v, t), NEW p \in Properties,
         Narrow(p, t), NEW w \in Log(v, p.base, t), w \notin Failed
  PROVE  Base(w, p.base, t) = v
<1>1. PICK b \in Int : b = p.base  BY DEF Properties
<1>2. v > 0 /\ b > 1  BY <1>1 DEF Log, Failed
<1>3. Exact \in Nat /\ 2 * v \in -Exact .. Exact  BY NarrowRange
<1>. DEFINE near == {x \in 1 .. 2 * v : Magnitude(x - v) * Exact < 2 * v}
<1>4. w \in Nat /\ b ^ w \in near /\ InRange(w, t)
  <2>1. w \in {k \in 0 .. v \div 4 + 2 : b ^ k \in near /\ InRange(k, t)}
    BY <1>1, <1>2 DEF Log, Failed
  <2>. QED BY <2>1
<1>5. PICK power \in Int : power = b ^ w /\ Magnitude(power - v) * Exact < 2 * v
  BY <1>4
<1>6. power = v
  <2>1. PICK g \in Nat : g = Magnitude(power - v) /\ (g = 0 <=> power = v)
    <3>1. PICK d \in Int : d = power - v /\ (d = 0 <=> power = v)  OBVIOUS
    <3>2. Magnitude(d) \in Nat /\ (Magnitude(d) = 0 <=> d = 0)  BY DEF Magnitude
    <3>. QED BY <3>1, <3>2
  <2>2. g * Exact < Exact  BY <1>3, <1>5, <2>1
  <2>3. ~ (g >= 1)
    <3>1. ASSUME g >= 1  PROVE g * Exact >= Exact  BY <1>3, <3>1
    <3>2. g * Exact \in Int  BY <1>3
    <3>. QED BY <1>3, <2>2, <3>1, <3>2
  <2>. QED BY <2>1, <2>3
<1>7. Float(w, 1) = w /\ Magnitude(w) = w  BY <1>4, NarrowRange DEF Magnitude
<1>8. Float(power, 1) = v  BY <1>6, NarrowRange
<1>9. Magnitude(power) <= Greatest  BY <1>2, <1>3, <1>6, FloatAssumption DEF Magnitude
<1>10. FloatInRange(v, t)  BY NarrowRange, ValuesAssumption DEF Failed
<1>11. Base(w, b, t) = Truncate(v, t)
  BY <1>4, <1>5, <1>7, <1>8, <1>9, <1>10, FloatAssumption DEF Base, Magnitude
<1>. QED BY <1>1, <1>11, TruncateFits

\* The transformations of a read undo those of a write: what reaches the application is what it
\* asked to be written, unless a mask, a shift or half a scale drops bits, for integers of any
\* width that floats are exact for: those of 64 bits are not.
THEOREM TransformedBack ==
  ASSUME NEW t \in Type, IsInteger(t), NEW v \in Int, InRange(v, t),
         NEW p \in Properties, ~ Lossy(p, t),
         NEW x \in Parameters(v, p, t), x \notin Failed
  PROVE  Transformed(x, p, t) = v
<1>. p.offset2 \in Int /\ p.scale2 \in Int /\ p.mask = 0 /\ p.shift = 0 /\ p.scale2 % 2 = 0
   /\ Narrow(p, t)
  BY DEF Properties, Lossy
<1>1. ~ Limited(v, p)  BY DEF Parameters, Failed
<1>2. x \in Logs(v, p, t)
  <2>1. PICK l \in Logs(v, p, t) :
          LET s == Unless(l, p.shift = 0, Shift(l, -p.shift, t))
          IN x = Unless(s, p.mask = 0, Mask(s, p.mask, t))
    BY <1>1, ParameterSteps
  <2>. QED BY <2>1 DEF Unless
<1>3. PICK m : m = Moved(v, p, t)  OBVIOUS
<1>4. PICK d : d = Divided(v, p, t)  OBVIOUS
<1>5. d \notin Failed  BY <1>2, <1>4 DEF Logs
<1>6. m \notin Failed  BY <1>3, <1>4, <1>5 DEF Divided, Unless
<1>7. m \in Int /\ InRange(m, t) /\ d \in Int /\ InRange(d, t)
  BY <1>3, <1>4, <1>5, <1>6, DividedFits DEF Outcome
<1>8. Unless(x, p.base = 0, Base(x, p.base, t)) = d
  <2>1. CASE p.base = 0  BY <2>1, <1>2, <1>4 DEF Logs, Unless
  <2>2. CASE p.base # 0
    <3>1. x \in Log(d, p.base, t)  BY <2>2, <1>2, <1>4, <1>5 DEF Logs
    <3>. QED BY <3>1, <2>2, <1>7, LogBack DEF Unless
  <2>. QED BY <2>1, <2>2
<1>9. Unless(d, p.scale2 = 2, Multiply(d, p.scale2, t)) = m
  <2>1. CASE p.scale2 = 2  BY <2>1, <1>3, <1>4 DEF Divided, Unless
  <2>2. CASE p.scale2 # 2
    <3>1. d = Divide(m, p.scale2, t)  BY <2>2, <1>3, <1>4, <1>6 DEF Divided, Unless
    <3>. QED BY <3>1, <2>2, <1>5, <1>7, DivideBack DEF Unless
  <2>. QED BY <2>1, <2>2
<1>10. Unless(m, p.offset2 = 0, Add(m, p.offset2, t)) = v
  <2>1. CASE p.offset2 = 0  BY <2>1, <1>3 DEF Moved, Unless
  <2>2. CASE p.offset2 # 0
    <3>1. v \notin Failed  BY NoNumberFails
    <3>2. m = Add(v, -p.offset2, t)  BY <2>2, <3>1, <1>3 DEF Moved, Unless
    <3>. QED BY <3>2, <2>2, <1>6, AddBack DEF Unless
  <2>. QED BY <2>1, <2>2
<1>11. /\ Unless(x, p.mask = 0, Mask(x, p.mask, t)) = x
       /\ Unless(x, p.shift = 0, Shift(x, p.shift, t)) = x
  BY DEF Unless
<1>. QED BY <1>8, <1>9, <1>10, <1>11 DEF Transformed
-----------------------------------------------------------------------------
(* The inductive invariant of the commands. *)

Contents == Profile \union {Gone}

\* A value that a request may come to for type t.
Fits(v, t) == v \in Int /\ (IsInteger(t) => InRange(v, t))

\* x is what the driver may be given for v, with the transformations on or off.
ShapedTo(transforms, v, x, props, t) ==
  x \notin Failed /\ IF transforms THEN x \in Parameters(v, props, t) ELSE x = v

\* What a command has since its requests are made.
LookedUp(cmd) ==
  /\ {"ask", "seen", "names", "types"} \subseteq DOMAIN cmd
  /\ cmd.seen \in Contents
  /\ cmd.names \in Seq(DOMAIN cmd.seen.resources)
  /\ DOMAIN cmd.types = DOMAIN cmd.names
  /\ \A i \in DOMAIN cmd.names : cmd.types[i] = cmd.seen.resources[cmd.names[i]].type

\* The values of a SET, and what was made of them.
HasWanted(cmd) ==
  /\ "wanted" \in DOMAIN cmd /\ DOMAIN cmd.wanted = DOMAIN cmd.names
  /\ \A i \in DOMAIN cmd.names : Fits(cmd.wanted[i], cmd.types[i])

HasShaped(transforms, cmd) ==
  /\ {"values", "shapedBy"} \subseteq DOMAIN cmd
  /\ cmd.shapedBy \in Contents
  /\ \A i \in DOMAIN cmd.names :
       ShapedTo(transforms, cmd.wanted[i], cmd.values[i],
                ResourceOf(cmd.shapedBy, cmd.names[i]).props, cmd.types[i])

\* The driver's value of a resource is what became of the one that is claimed for it.
Bears(transforms, x, claim, r) ==
  claim # None =>
    LET p == claim.profile
    IN /\ p \in Contents /\ r \in DOMAIN p.resources
       /\ Fits(claim.value, p.resources[r].type)
       /\ ShapedTo(transforms, claim.value, x, p.resources[r].props, p.resources[r].type)

HasClaims(transforms, cmd) ==
  /\ {"values", "claims"} \subseteq DOMAIN cmd
  /\ \A i \in DOMAIN cmd.names : Bears(transforms, cmd.values[i], cmd.claims[i], cmd.names[i])

\* An event shows what was asked for, unless the profile was changed or loses bits of it.
ShowsClaims(cmd) ==
  \A i \in DOMAIN cmd.names :
    LET p     == cmd.convertedBy
        claim == cmd.claims[i]
    IN \/ claim = None \/ claim.profile # p \/ cmd.seen # p
       \/ LET r == p.resources[cmd.names[i]] IN Lossy(r.props, r.type)
       \/ cmd.event[i] = Mapped(p, cmd.names[i], claim.value)

\* The command of a caller, by its phase.
CommandInv(transforms, cmd) ==
  /\ "phase" \in DOMAIN cmd
  /\ cmd.phase \in {"idle", "asked", "built", "shaped", "driven"}
  /\ cmd.phase # "idle" => "ask" \in DOMAIN cmd
  /\ cmd.phase \in {"built", "shaped", "driven"} => LookedUp(cmd)
  /\ cmd.phase = "built" => HasWanted(cmd)
  /\ cmd.phase \in {"shaped", "driven"} /\ cmd.ask.kind # "get" =>
       HasWanted(cmd) /\ HasShaped(transforms, cmd)
  /\ cmd.phase = "driven" /\ "result" \notin DOMAIN cmd => HasClaims(transforms, cmd)
  /\ "result" \in DOMAIN cmd /\ cmd.result = "event" => ShowsClaims(cmd)

RegisterInv ==
  /\ DOMAIN register = Resource /\ DOMAIN meant = Resource
  /\ \A r \in Resource : Bears(transforming, register[r], meant[r], r)

ReadingsInv ==
  /\ profile \in Contents
  /\ DOMAIN req = Caller
  /\ \A c \in Caller : CommandInv(transforming, req[c])
  /\ RegisterInv

-----------------------------------------------------------------------------
(* What the proofs need of a profile, of the parts of a command and of sequences. *)

LEMMA LeastExists ==
  ASSUME NEW T, T \subseteq Nat, T # {}
  PROVE  \E x \in T : \A y \in T : x <= y
<1>1. IsWellFoundedOn(OpToRel(<, Nat), Nat)  BY NatLessThanWellFounded
<1>2. PICK x \in T : \A y \in T : <<y, x>> \notin OpToRel(<, Nat)  BY <1>1, WFMin, Zenon
<1>3. \A y \in T : ~ (y < x)  BY <1>2, Zenon DEF OpToRel
<1>. QED BY <1>3

LEMMA LeastOf ==
  ASSUME NEW T, T \subseteq Nat, T # {}
  PROVE  Min(T) \in T
BY LeastExists DEF Min

LEMMA GreatestOf ==
  ASSUME NEW n \in Nat, NEW T, T \subseteq 1 .. n, T # {}
  PROVE  Max(T) \in T
<1>1. PICK U : U = {j \in 0 .. n : n - j \in T}  OBVIOUS
<1>2. PICK k \in T : TRUE  OBVIOUS
<1>3. n - k \in 0 .. n /\ n - (n - k) = k  BY <1>2
<1>4. U \subseteq Nat /\ n - k \in U  BY <1>1, <1>2, <1>3
<1>5. PICK u \in U : \A y \in U : u <= y  BY <1>4, LeastExists
<1>6. n - u \in T /\ u \in 0 .. n  BY <1>1, <1>5
<1>7. ASSUME NEW j \in T  PROVE n - u >= j
  <2>1. n - j \in 0 .. n /\ n - (n - j) = j  OBVIOUS
  <2>2. u <= n - j  BY <1>1, <1>5, <2>1
  <2>. QED BY <1>6, <2>1, <2>2
<1>. QED BY <1>6, <1>7 DEF Max

\* A failure is found exactly when there is one.
LEMMA FirstFailureFound ==
  ASSUME NEW outcomes, DOMAIN outcomes \subseteq Nat, FirstFailure(outcomes) = None
  PROVE  \A i \in DOMAIN outcomes : outcomes[i] \notin Failed
<1>. DEFINE failed == {i \in DOMAIN outcomes : outcomes[i] \in Failed}
<1>1. ASSUME failed # {}  PROVE FALSE
  <2>1. Min(failed) \in failed  BY <1>1, LeastOf
  <2>2. FirstFailure(outcomes) = outcomes[Min(failed)]  BY <1>1 DEF FirstFailure
  <2>. QED BY <2>1, <2>2, ValuesAssumption
<1>. QED BY <1>1

LEMMA GoneIsEmpty == DOMAIN Gone.resources = {} /\ DOMAIN Gone.commands = {}
BY DEF Gone

\* What is given as a value fits its type.
LEMMA CoercedFits ==
  ASSUME NEW p, NEW q, NEW i, Coerced(p, q, i) \notin Failed
  PROVE  Fits(Coerced(p, q, i), p.resources[Named(p, q)[i]].type)
BY DEF Coerced, Fits, Failed

LEMMA ResourceTyped ==
  ASSUME NEW p \in Contents, NEW r \in DOMAIN p.resources
  PROVE  /\ p \in Profile /\ r \in Resource
         /\ p.resources[r].type \in Type /\ p.resources[r].props \in Properties
         /\ IsInteger(p.resources[r].type) \/ p.resources[r].props = Plain
         /\ AndFits(p.resources[r].type)
<1>1. p \in Profile  BY GoneIsEmpty DEF Contents
<1>. QED BY <1>1, ProfileAssumption, BitAndAssumption DEF Resource, AndFits

LEMMA SetIsListed ==
  ASSUME NEW S, IsFiniteSet(S)
  PROVE  SetToSeq(S) \in Seq(S)
<1>. DEFINE n == Cardinality(S)
<1>1. n \in Nat /\ ExistsBijection(1 .. n, S)  BY FS_CardinalityType
<1>2. \E f \in [1 .. n -> S] : IsInjective(f)
  BY <1>1 DEF ExistsBijection, Bijection, Injection
<1>3. SetToSeq(S) \in [1 .. n -> S]  BY <1>2 DEF SetToSeq
<1>. QED BY <1>1, <1>3

\* The resources of a request that is allowed are a sequence.
LEMMA NamedIsSequence ==
  ASSUME NEW p \in Contents, NEW q, Allowed(p, q)
  PROVE  Named(p, q) \in Seq(DOMAIN p.resources)
<1>1. \A i \in DOMAIN Named(p, q) : Named(p, q)[i] \in DOMAIN p.resources  BY DEF Allowed
<1>2. CASE IsCommand(p, q)
  <2>1. Operations(p, q) \in Seq(ToSet(Operations(p, q)))
    <3>1. p \in Profile  BY <1>2, GoneIsEmpty DEF Contents, IsCommand
    <3>. QED BY <1>2, <3>1, ProfileAssumption DEF IsCommand, Operations
  <2>2. Named(p, q) = [i \in DOMAIN Operations(p, q) |-> Operations(p, q)[i].resource]
    BY <1>2 DEF Named
  <2>3. DOMAIN Operations(p, q) = 1 .. Len(Operations(p, q)) /\ Len(Operations(p, q)) \in Nat
    BY <2>1
  <2>. QED BY <1>1, <2>2, <2>3
<1>3. CASE ~ IsCommand(p, q) /\ q.kind = "get" /\ q.target = Anything
  <2>1. Named(p, q) = SetToSeq(Readable(p))  BY <1>3 DEF Named
  <2>2. IsFiniteSet(Readable(p))
    <3>1. IsFiniteSet(DOMAIN p.resources)
      <4>1. CASE p \in Profile  BY <4>1, ProfileAssumption
      <4>2. CASE p = Gone  BY <4>2, GoneIsEmpty, FS_EmptySet
      <4>. QED BY <4>1, <4>2 DEF Contents
    <3>. QED BY <3>1, FS_Subset DEF Readable
  <2>3. SetToSeq(Readable(p)) \in Seq(Readable(p))  BY <2>2, SetIsListed
  <2>. QED BY <2>1, <2>3 DEF Readable
<1>4. CASE ~ IsCommand(p, q) /\ ~ (q.kind = "get" /\ q.target = Anything)
  <2>1. Named(p, q) = <<q.target>>  BY <1>4 DEF Named
  <2>2. q.target \in DOMAIN p.resources
    <3>1. 1 \in DOMAIN <<q.target>> /\ <<q.target>>[1] = q.target  OBVIOUS
    <3>. QED BY <1>1, <2>1, <3>1
  <2>3. \A S, r : r \in S => <<r>> \in Seq(S)  OBVIOUS
  <2>. QED BY <2>1, <2>2, <2>3, Zenon
<1>. QED BY <1>2, <1>3, <1>4
-----------------------------------------------------------------------------
(* The parts of the invariant a step leaves alone. *)

\* What a command has stays true of it when it gets further fields.
LEMMA PartsKept ==
  ASSUME NEW transforms, NEW cmd, NEW n, DOMAIN cmd \subseteq DOMAIN n,
         NEW Changed, \A f \in DOMAIN cmd \ Changed : n[f] = cmd[f],
         Changed \intersect {"ask", "seen", "names", "types"} = {}
  PROVE  /\ LookedUp(cmd) => LookedUp(n)
         /\ LookedUp(cmd) /\ HasWanted(cmd) /\ "wanted" \notin Changed => HasWanted(n)
         /\ LookedUp(cmd) /\ HasWanted(cmd) /\ HasShaped(transforms, cmd)
            /\ Changed \intersect {"wanted", "values", "shapedBy"} = {} => HasShaped(transforms, n)
         /\ LookedUp(cmd) /\ HasClaims(transforms, cmd)
            /\ Changed \intersect {"values", "claims"} = {} => HasClaims(transforms, n)
<1>1. LookedUp(cmd) => LookedUp(n)
  BY DEF LookedUp
<1>2. LookedUp(cmd) /\ HasWanted(cmd) /\ "wanted" \notin Changed => HasWanted(n)
  BY DEF LookedUp, HasWanted
<1>3. LookedUp(cmd) /\ HasWanted(cmd) /\ HasShaped(transforms, cmd)
      /\ Changed \intersect {"wanted", "values", "shapedBy"} = {} => HasShaped(transforms, n)
  BY DEF LookedUp, HasWanted, HasShaped
<1>4. LookedUp(cmd) /\ HasClaims(transforms, cmd)
      /\ Changed \intersect {"values", "claims"} = {} => HasClaims(transforms, n)
  BY DEF LookedUp, HasClaims
<1>. QED BY <1>1, <1>2, <1>3, <1>4

\* A command that ends, with anything but an event.
LEMMA EndKeeps ==
  ASSUME NEW transforms, NEW cmd, CommandInv(transforms, cmd), "result" \notin DOMAIN cmd,
         NEW r, r # "event"
  PROVE  CommandInv(transforms, With(cmd, [result |-> r]))
<1>1. PICK n : n = With(cmd, [result |-> r])  OBVIOUS
<1>2. /\ DOMAIN n = DOMAIN cmd \union {"result"} /\ n["result"] = r
      /\ \A f \in DOMAIN cmd \ {"result"} : n[f] = cmd[f]
  BY <1>1 DEF With
<1>3. /\ LookedUp(cmd) => LookedUp(n)
      /\ LookedUp(cmd) /\ HasWanted(cmd) => HasWanted(n)
      /\ LookedUp(cmd) /\ HasWanted(cmd) /\ HasShaped(transforms, cmd) => HasShaped(transforms, n)
  <2>1. PICK Changed : Changed = {"result"}  OBVIOUS
  <2>2. /\ DOMAIN cmd \subseteq DOMAIN n
        /\ \A f \in DOMAIN cmd \ Changed : n[f] = cmd[f]
        /\ Changed \intersect {"ask", "seen", "names", "types"} = {}
        /\ Changed \intersect {"wanted", "values", "shapedBy"} = {}
        /\ "wanted" \notin Changed
    BY <1>2, <2>1
  <2>. QED BY <2>2, PartsKept
<1>4. n.phase = cmd.phase /\ n.result = r /\ "phase" \in DOMAIN n /\ "result" \in DOMAIN n
  BY <1>2 DEF CommandInv
<1>5. "ask" \in DOMAIN cmd => "ask" \in DOMAIN n /\ n.ask = cmd.ask  BY <1>2
<1>. QED BY <1>1, <1>3, <1>4, <1>5 DEF CommandInv, LookedUp

\* A step of one caller.
LEMMA CommandReplaced ==
  ASSUME ReadingsInv, NEW c \in Caller, NEW cmd, CommandInv(transforming, cmd),
         req' = [req EXCEPT ![c] = cmd], profile' \in Contents,
         transforming' = transforming, RegisterInv'
  PROVE  ReadingsInv'
<1>1. \A d \in Caller : req'[d] = IF d = c THEN cmd ELSE req[d]  BY DEF ReadingsInv
<1>2. \A d \in Caller : CommandInv(transforming, req'[d])  BY <1>1 DEF ReadingsInv
<1>. QED BY <1>2 DEF ReadingsInv

\* What the registers hold is what it was.
LEMMA RegisterKept ==
  ASSUME RegisterInv, transforming' = transforming, register' = register, meant' = meant
  PROVE  RegisterInv'
BY DEF RegisterInv

LEMMA FailKeeps ==
  ASSUME ReadingsInv, NEW c \in Caller, ~ Answered(c), NEW failure, Fail(c, failure),
         UNCHANGED <<profile, transforming, register, meant>>
  PROVE  ReadingsInv'
<1>1. PICK r : r = IF failure = Raised THEN "raised" ELSE "error"  OBVIOUS
<1>2. r # "event"  BY <1>1
<1>3. CommandInv(transforming, With(req[c], [result |-> r]))
  BY <1>2, EndKeeps DEF ReadingsInv, Answered
<1>4. req' = [req EXCEPT ![c] = With(req[c], [result |-> r])]  BY <1>1 DEF Fail
<1>. QED BY <1>3, <1>4, CommandReplaced, RegisterKept DEF ReadingsInv
-----------------------------------------------------------------------------
(* The steps. *)

\* What was looked up for a request that is allowed.
LEMMA AllowedLooksUp ==
  ASSUME NEW p \in Contents, NEW q, Allowed(p, q), NEW n,
         {"ask", "seen", "names", "types"} \subseteq DOMAIN n,
         n.seen = p, n.names = Named(p, q),
         n.types = [i \in DOMAIN n.names |-> p.resources[n.names[i]].type]
  PROVE  LookedUp(n)
<1>1. Named(p, q) \in Seq(DOMAIN p.resources)  BY NamedIsSequence
<1>. QED BY <1>1 DEF LookedUp

\* The requests of a command, as the profile is.
LEMMA BuildKeeps ==
  ASSUME ReadingsInv, NEW c \in Caller, Build(c)
  PROVE  ReadingsInv'
<1>. UNCHANGED <<profile, transforming, register, meant>> /\ ~ Answered(c)  BY DEF Build
<1>1. PICK p : p = profile  OBVIOUS
<1>2. PICK cmd : cmd = req[c]  OBVIOUS
<1>3. PICK q : q = cmd.ask  OBVIOUS
<1>4. PICK names : names = Named(p, q)  OBVIOUS
<1>5. PICK types : types = [i \in DOMAIN names |-> p.resources[names[i]].type]  OBVIOUS
<1>6. PICK values : values = [i \in DOMAIN names |-> Coerced(p, q, i)]  OBVIOUS
<1>7. PICK built : built = With(cmd, [seen |-> p, names |-> names, types |-> types])  OBVIOUS
<1>8. p \in Contents /\ CommandInv(transforming, cmd) /\ "result" \notin DOMAIN cmd
  BY <1>1, <1>2 DEF ReadingsInv, Answered
<1>9. cmd.phase = "asked" /\ "ask" \in DOMAIN cmd  BY <1>2, <1>8 DEF Build, CommandInv
<1>10. /\ DOMAIN built = DOMAIN cmd \union {"seen", "names", "types"} /\ "ask" \in DOMAIN cmd
       /\ built["seen"] = p /\ built["names"] = names /\ built["types"] = types
       /\ built["ask"] = q
  BY <1>3, <1>7, <1>9 DEF With
<1>11. CASE ~ present \/ ~ Allowed(p, q)
  <2>1. Fail(c, Refused)  BY <1>1, <1>2, <1>3, <1>11 DEF Build
  <2>. QED BY <2>1, FailKeeps
<1>12. CASE present /\ Allowed(p, q) /\ q.kind # "get" /\ FirstFailure(values) # None
  <2>1. Fail(c, FirstFailure(values))
    BY <1>1, <1>2, <1>3, <1>4, <1>6, <1>12 DEF Build
  <2>. QED BY <2>1, FailKeeps
<1>13. CASE present /\ Allowed(p, q) /\ q.kind = "get"
  <2>1. PICK n : n = With(built, [phase |-> "shaped"])  OBVIOUS
  <2>2. req' = [req EXCEPT ![c] = n]
    BY <1>1, <1>2, <1>3, <1>4, <1>5, <1>7, <1>13, <2>1 DEF Build
  <2>3. /\ DOMAIN n = DOMAIN built \union {"phase"} /\ n["phase"] = "shaped"
        /\ \A f \in DOMAIN built \ {"phase"} : n[f] = built[f]
    BY <2>1 DEF With
  <2>4. LookedUp(n) /\ n.ask = q
    <3>1. /\ {"ask", "seen", "names", "types"} \subseteq DOMAIN n
          /\ n.seen = p /\ n.names = names /\ n.types = types /\ n.ask = q
      BY <1>10, <2>3
    <3>2. LookedUp(n)  BY <1>4, <1>5, <1>8, <1>13, <3>1, AllowedLooksUp
    <3>. QED BY <3>1, <3>2
  <2>5. "result" \notin DOMAIN n
    BY <1>7, <1>8, <2>3 DEF With
  <2>6. CommandInv(transforming, n)
    BY <1>13, <2>3, <2>4, <2>5 DEF CommandInv, LookedUp
  <2>. QED BY <2>2, <2>6, <1>1, <1>8, CommandReplaced, RegisterKept DEF ReadingsInv
<1>14. CASE present /\ Allowed(p, q) /\ q.kind # "get" /\ FirstFailure(values) = None
  <2>1. PICK n : n = With(built, [phase |-> "built", wanted |-> values])  OBVIOUS
  <2>2. req' = [req EXCEPT ![c] = n]
    <3>1. /\ present /\ Allowed(profile, req[c].ask) /\ req[c].ask.kind # "get"
          /\ FirstFailure([i \in DOMAIN Named(profile, req[c].ask) |->
                             Coerced(profile, req[c].ask, i)]) = None
      BY <1>1, <1>2, <1>3, <1>4, <1>6, <1>14
    <3>2. req' = [req EXCEPT ![c] =
            With(With(req[c], [seen  |-> profile,
                               names |-> Named(profile, req[c].ask),
                               types |-> [i \in DOMAIN Named(profile, req[c].ask) |->
                                  profile.resources[Named(profile, req[c].ask)[i]].type]]),
                 [phase |-> "built",
                  wanted |-> [i \in DOMAIN Named(profile, req[c].ask) |->
                                Coerced(profile, req[c].ask, i)]])]
      BY <3>1, Zenon DEF Build
    <3>. QED BY <3>2, <1>1, <1>2, <1>3, <1>4, <1>5, <1>6, <1>7, <2>1
  <2>3. /\ DOMAIN n = DOMAIN built \union {"phase", "wanted"}
        /\ n["phase"] = "built" /\ n["wanted"] = values
        /\ \A f \in DOMAIN built \ {"phase", "wanted"} : n[f] = built[f]
    BY <2>1 DEF With
  <2>4. LookedUp(n) /\ n.ask = q /\ n.names = names /\ n.types = types
    <3>1. /\ {"ask", "seen", "names", "types"} \subseteq DOMAIN n
          /\ n.seen = p /\ n.names = names /\ n.types = types /\ n.ask = q
      BY <1>10, <2>3
    <3>2. LookedUp(n)  BY <1>4, <1>5, <1>8, <1>14, <3>1, AllowedLooksUp
    <3>. QED BY <3>1, <3>2
  <2>5. "result" \notin DOMAIN n
    BY <1>7, <1>8, <2>3 DEF With
  <2>6. DOMAIN names \subseteq Nat /\ DOMAIN values = DOMAIN names
    BY <1>6, <2>4 DEF LookedUp
  <2>7. \A i \in DOMAIN names : values[i] = Coerced(p, q, i) /\ values[i] \notin Failed
    BY <1>6, <1>14, <2>6, FirstFailureFound
  <2>8. \A i \in DOMAIN names : Fits(values[i], types[i])
    BY <1>4, <1>5, <2>7, CoercedFits
  <2>9. n.phase = "built" /\ n.wanted = values  BY <2>3
  <2>10. HasWanted(n)
    BY <2>3, <2>4, <2>6, <2>8, <2>9 DEF HasWanted
  <2>11. CommandInv(transforming, n)
    BY <2>3, <2>4, <2>5, <2>9, <2>10 DEF CommandInv, LookedUp
  <2>. QED BY <2>2, <2>11, <1>1, <1>8, CommandReplaced, RegisterKept DEF ReadingsInv
<1>. QED BY <1>11, <1>12, <1>13, <1>14

\* The values of a SET as the profile is at the second look.
LEMMA ShapeKeeps ==
  ASSUME ReadingsInv, NEW c \in Caller, Shape(c)
  PROVE  ReadingsInv'
<1>. UNCHANGED <<profile, transforming, register, meant>> /\ ~ Answered(c)  BY DEF Shape
<1>1. PICK cmd : cmd = req[c]  OBVIOUS
<1>2. PICK p : p = profile  OBVIOUS
<1>3. p \in Contents /\ CommandInv(transforming, cmd) /\ "result" \notin DOMAIN cmd
  BY <1>1, <1>2 DEF ReadingsInv, Answered
<1>4. cmd.phase = "built"  BY <1>1 DEF Shape
<1>5. LookedUp(cmd) /\ HasWanted(cmd)  BY <1>3, <1>4 DEF CommandInv
<1>6. PICK shaped :
        /\ DOMAIN shaped = DOMAIN cmd.names
        /\ \A i \in DOMAIN cmd.names :
             shaped[i] \in IF transforming
                           THEN Parameters(cmd.wanted[i], ResourceOf(p, cmd.names[i]).props,
                                           cmd.types[i])
                           ELSE {cmd.wanted[i]}
        /\ IF FirstFailure(shaped) # None THEN Fail(c, FirstFailure(shaped))
           ELSE req' = [req EXCEPT ![c] =
                          With(req[c], [phase |-> "shaped", values |-> shaped, shapedBy |-> p])]
  BY <1>1, <1>2 DEF Shape
<1>7. CASE FirstFailure(shaped) # None
  BY <1>6, <1>7, FailKeeps
<1>8. CASE FirstFailure(shaped) = None
  <2>1. PICK n : n = With(cmd, [phase |-> "shaped", values |-> shaped, shapedBy |-> p])  OBVIOUS
  <2>2. req' = [req EXCEPT ![c] = n]  BY <1>1, <1>6, <1>8, <2>1
  <2>3. /\ DOMAIN n = DOMAIN cmd \union {"phase", "values", "shapedBy"}
        /\ n["phase"] = "shaped" /\ n["values"] = shaped /\ n["shapedBy"] = p
        /\ \A f \in DOMAIN cmd \ {"phase", "values", "shapedBy"} : n[f] = cmd[f]
    BY <2>1 DEF With
  <2>4. LookedUp(n) /\ HasWanted(n)
    <3>1. PICK Changed : Changed = {"phase", "values", "shapedBy"}  OBVIOUS
    <3>. QED BY <3>1, <2>3, <1>5, PartsKept
  <2>5. n.names = cmd.names /\ n.types = cmd.types /\ n.wanted = cmd.wanted
        /\ n.values = shaped /\ n.shapedBy = p /\ n.phase = "shaped"
    BY <2>3, <1>5 DEF LookedUp, HasWanted
  <2>6. DOMAIN shaped \subseteq Nat  BY <1>5, <1>6 DEF LookedUp
  <2>7. \A i \in DOMAIN shaped : shaped[i] \notin Failed  BY <1>8, <2>6, FirstFailureFound
  <2>8. HasShaped(transforming, n)
    BY <2>3, <2>5, <2>7, <1>3, <1>6 DEF HasShaped, ShapedTo
  <2>9. "result" \notin DOMAIN n  BY <2>3, <1>3
  <2>10. CommandInv(transforming, n)
    BY <2>3, <2>4, <2>5, <2>8, <2>9 DEF CommandInv, LookedUp
  <2>. QED BY <2>2, <2>10, <1>2, <1>3, CommandReplaced, RegisterKept DEF ReadingsInv
<1>. QED BY <1>7, <1>8

\* A GET takes what the registers hold, and what that was set for.
LEMMA ReadKeeps ==
  ASSUME ReadingsInv, NEW c \in Caller, Read(c)
  PROVE  ReadingsInv'
<1>. UNCHANGED <<profile, transforming, register, meant>> /\ ~ Answered(c)  BY DEF Read
<1>1. PICK cmd : cmd = req[c]  OBVIOUS
<1>2. CommandInv(transforming, cmd) /\ "result" \notin DOMAIN cmd
  BY <1>1 DEF ReadingsInv, Answered
<1>3. cmd.phase = "shaped" /\ cmd.ask.kind = "get"  BY <1>1 DEF Read
<1>4. LookedUp(cmd)  BY <1>2, <1>3 DEF CommandInv
<1>5. PICK values : values = [i \in DOMAIN cmd.names |-> register[cmd.names[i]]]  OBVIOUS
<1>6. PICK claims : claims = [i \in DOMAIN cmd.names |-> meant[cmd.names[i]]]  OBVIOUS
<1>7. PICK n : n = With(cmd, [phase |-> "driven", values |-> values, claims |-> claims])  OBVIOUS
<1>8. CASE Fail(c, Refused)
  BY <1>8, FailKeeps
<1>9. CASE req' = [req EXCEPT ![c] = n]
  <2>1. /\ DOMAIN n = DOMAIN cmd \union {"phase", "values", "claims"}
        /\ n["phase"] = "driven" /\ n["values"] = values /\ n["claims"] = claims
        /\ \A f \in DOMAIN cmd \ {"phase", "values", "claims"} : n[f] = cmd[f]
    BY <1>7 DEF With
  <2>2. LookedUp(n)
    <3>1. PICK Changed : Changed = {"phase", "values", "claims"}  OBVIOUS
    <3>. QED BY <3>1, <2>1, <1>4, PartsKept
  <2>3. n.names = cmd.names /\ n.ask = cmd.ask /\ n.values = values /\ n.claims = claims
        /\ n.phase = "driven"
    BY <2>1, <1>4 DEF LookedUp
  <2>4. \A i \in DOMAIN cmd.names : cmd.names[i] \in Resource
    <3>1. \A i \in DOMAIN cmd.names : cmd.names[i] \in DOMAIN cmd.seen.resources
      BY <1>4 DEF LookedUp
    <3>. QED BY <3>1, <1>4, ResourceTyped DEF LookedUp
  <2>5. HasClaims(transforming, n)
    BY <2>1, <2>3, <2>4, <1>5, <1>6 DEF HasClaims, ReadingsInv, RegisterInv
  <2>6. "result" \notin DOMAIN n  BY <2>1, <1>2
  <2>7. CommandInv(transforming, n)
    BY <2>1, <2>2, <2>3, <2>5, <2>6, <1>3 DEF CommandInv, LookedUp
  <2>. QED BY <2>7, <1>9, CommandReplaced, RegisterKept DEF ReadingsInv
<1>. QED BY <1>1, <1>5, <1>6, <1>7, <1>8, <1>9 DEF Read

\* What a SET claims for the values the driver is given: nothing when the profile was changed
\* between the two looks.
LEMMA ClaimsBear ==
  ASSUME NEW transforms, NEW cmd, LookedUp(cmd), HasWanted(cmd), HasShaped(transforms, cmd),
         NEW i \in DOMAIN cmd.names, NEW claim,
         claim = IF cmd.seen = cmd.shapedBy THEN Claim(cmd.wanted[i], cmd.seen) ELSE None
  PROVE  Bears(transforms, cmd.values[i], claim, cmd.names[i])
<1>1. CASE cmd.seen # cmd.shapedBy  BY <1>1 DEF Bears
<1>2. CASE cmd.seen = cmd.shapedBy
  <2>1. claim.value = cmd.wanted[i] /\ claim.profile = cmd.seen  BY <1>2 DEF Claim
  <2>2. /\ cmd.seen \in Contents /\ cmd.names[i] \in DOMAIN cmd.seen.resources
        /\ cmd.types[i] = cmd.seen.resources[cmd.names[i]].type
    BY DEF LookedUp
  <2>3. Fits(cmd.wanted[i], cmd.types[i])  BY DEF HasWanted
  <2>4. ShapedTo(transforms, cmd.wanted[i], cmd.values[i],
                 cmd.seen.resources[cmd.names[i]].props, cmd.types[i])
    BY <1>2, <2>2 DEF HasShaped, ResourceOf
  <2>. QED BY <2>1, <2>2, <2>3, <2>4 DEF Bears
<1>. QED BY <1>1, <1>2

\* The driver has taken the first k values of a command, whose claims go with them.
Driven(c, cmd, claims, k) ==
  /\ register' = [r \in Resource |->
       IF Places(cmd, r, k) = {} THEN register[r] ELSE cmd.values[Max(Places(cmd, r, k))]]
  /\ meant' = [r \in Resource |->
       IF Places(cmd, r, k) = {} THEN meant[r] ELSE claims[Max(Places(cmd, r, k))]]
  /\ \/ req' = [req EXCEPT ![c] = With(cmd, [phase |-> "driven", claims |-> claims])]
     \/ req' = [req EXCEPT ![c] = With(cmd, [phase |-> "driven", result |-> "error"])]

\* The driver takes the values, or the first of them before it raises.
LEMMA WriteKeeps ==
  ASSUME ReadingsInv, NEW c \in Caller, Write(c)
  PROVE  ReadingsInv'
<1>. UNCHANGED <<profile, transforming>> /\ ~ Answered(c)  BY DEF Write
<1>1. PICK cmd : cmd = req[c]  OBVIOUS
<1>2. CommandInv(transforming, cmd) /\ "result" \notin DOMAIN cmd
  BY <1>1 DEF ReadingsInv, Answered
<1>3. cmd.phase = "shaped" /\ cmd.ask.kind = "set"  BY <1>1 DEF Write
<1>4. LookedUp(cmd) /\ HasWanted(cmd) /\ HasShaped(transforming, cmd)
  BY <1>2, <1>3 DEF CommandInv
<1>5. PICK claims : claims = Claims(cmd)  OBVIOUS
<1>6. \A i \in DOMAIN cmd.names : Bears(transforming, cmd.values[i], claims[i], cmd.names[i])
  BY <1>4, <1>5, ClaimsBear DEF Claims
<1>7. PICK k \in 0 .. Len(cmd.names) :
        /\ register' = [r \in Resource |->
             IF Places(cmd, r, k) = {} THEN register[r] ELSE cmd.values[Max(Places(cmd, r, k))]]
        /\ meant' = [r \in Resource |->
             IF Places(cmd, r, k) = {} THEN meant[r] ELSE claims[Max(Places(cmd, r, k))]]
        /\ \/ req' = [req EXCEPT ![c] = With(cmd, [phase |-> "driven", claims |-> claims])]
           \/ req' = [req EXCEPT ![c] = With(cmd, [phase |-> "driven", result |-> "error"])]
  <2>1. \E k \in 0 .. Len(req[c].names) : Driven(c, req[c], Claims(req[c]), k)
    BY Zenon DEF Write, Driven
  <2>2. \E k \in 0 .. Len(cmd.names) : Driven(c, cmd, claims, k)
    BY <1>1, <1>5, <2>1
  <2>. QED BY <2>2, Zenon DEF Driven
<1>8. k \in Nat /\ 1 .. k \subseteq DOMAIN cmd.names  BY <1>4 DEF LookedUp
<1>9. RegisterInv'
  <2>1. ASSUME NEW r \in Resource  PROVE Bears(transforming, register'[r], meant'[r], r)
    <3>1. CASE Places(cmd, r, k) = {}
      BY <3>1, <1>7 DEF ReadingsInv, RegisterInv
    <3>2. CASE Places(cmd, r, k) # {}
      <4>1. PICK j : j = Max(Places(cmd, r, k))  OBVIOUS
      <4>2. Places(cmd, r, k) \subseteq 1 .. k  BY DEF Places
      <4>3. j \in Places(cmd, r, k)  BY <3>2, <4>1, <4>2, <1>8, GreatestOf
      <4>4. j \in DOMAIN cmd.names /\ cmd.names[j] = r  BY <4>3, <1>8 DEF Places
      <4>5. register'[r] = cmd.values[j] /\ meant'[r] = claims[j]  BY <3>2, <4>1, <1>7
      <4>. QED BY <4>4, <4>5, <1>6
    <3>. QED BY <3>1, <3>2
  <2>2. DOMAIN register' = Resource /\ DOMAIN meant' = Resource  BY <1>7
  <2>. QED BY <2>1, <2>2 DEF RegisterInv
<1>10. CASE req' = [req EXCEPT ![c] = With(cmd, [phase |-> "driven", claims |-> claims])]
  <2>1. PICK n : n = With(cmd, [phase |-> "driven", claims |-> claims])  OBVIOUS
  <2>2. /\ DOMAIN n = DOMAIN cmd \union {"phase", "claims"}
        /\ n["phase"] = "driven" /\ n["claims"] = claims
        /\ \A f \in DOMAIN cmd \ {"phase", "claims"} : n[f] = cmd[f]
    BY <2>1 DEF With
  <2>3. LookedUp(n) /\ HasWanted(n) /\ HasShaped(transforming, n)
    <3>1. PICK Changed : Changed = {"phase", "claims"}  OBVIOUS
    <3>2. /\ DOMAIN cmd \subseteq DOMAIN n
          /\ \A f \in DOMAIN cmd \ Changed : n[f] = cmd[f]
          /\ Changed \intersect {"ask", "seen", "names", "types"} = {}
          /\ Changed \intersect {"wanted", "values", "shapedBy"} = {}
          /\ "wanted" \notin Changed
      BY <3>1, <2>2
    <3>. QED BY <3>2, <1>4, PartsKept
  <2>4. n.names = cmd.names /\ n.values = cmd.values /\ n.claims = claims /\ n.phase = "driven"
    BY <2>2, <1>4 DEF LookedUp, HasShaped
  <2>5. HasClaims(transforming, n)
    BY <2>3, <2>2, <2>4, <1>6 DEF HasClaims, HasShaped
  <2>6. "result" \notin DOMAIN n  BY <2>2, <1>2
  <2>7. CommandInv(transforming, n)
    BY <2>2, <2>3, <2>4, <2>5, <2>6 DEF CommandInv, LookedUp
  <2>. QED BY <2>1, <2>7, <1>9, <1>10, CommandReplaced DEF ReadingsInv
<1>11. CASE req' = [req EXCEPT ![c] = With(cmd, [phase |-> "driven", result |-> "error"])]
  <2>1. PICK n : n = With(cmd, [phase |-> "driven", result |-> "error"])  OBVIOUS
  <2>2. /\ DOMAIN n = DOMAIN cmd \union {"phase", "result"}
        /\ n["phase"] = "driven" /\ n["result"] = "error"
        /\ \A f \in DOMAIN cmd \ {"phase", "result"} : n[f] = cmd[f]
    BY <2>1 DEF With
  <2>3. LookedUp(n) /\ HasWanted(n) /\ HasShaped(transforming, n)
    <3>1. PICK Changed : Changed = {"phase", "result"}  OBVIOUS
    <3>2. /\ DOMAIN cmd \subseteq DOMAIN n
          /\ \A f \in DOMAIN cmd \ Changed : n[f] = cmd[f]
          /\ Changed \intersect {"ask", "seen", "names", "types"} = {}
          /\ Changed \intersect {"wanted", "values", "shapedBy"} = {}
          /\ "wanted" \notin Changed
      BY <3>1, <2>2
    <3>. QED BY <3>2, <1>4, PartsKept
  <2>4. n.phase = "driven" /\ n.result = "error"  BY <2>2
  <2>5. CommandInv(transforming, n)
    BY <2>2, <2>3, <2>4 DEF CommandInv, LookedUp
  <2>. QED BY <2>1, <2>5, <1>9, <1>11, CommandReplaced DEF ReadingsInv
<1>. QED BY <1>7, <1>10, <1>11

\* A read undoes what the write of a claim did to its value.
LEMMA OutgoingIsClaimed ==
  ASSUME ReadingsInv, NEW p \in Contents, NEW cmd, LookedUp(cmd), cmd.seen = p,
         HasClaims(transforming, cmd), NEW i \in DOMAIN cmd.names,
         cmd.claims[i] # None, cmd.claims[i].profile = p,
         ~ Lossy(p.resources[cmd.names[i]].props, p.resources[cmd.names[i]].type)
  PROVE  Outgoing(p, cmd, i) = cmd.claims[i].value
<1>1. PICK r : r = cmd.names[i]  OBVIOUS
<1>2. PICK t : t = p.resources[r].type  OBVIOUS
<1>3. PICK props : props = p.resources[r].props  OBVIOUS
<1>4. PICK v : v = cmd.claims[i].value  OBVIOUS
<1>5. PICK x : x = cmd.values[i]  OBVIOUS
<1>6. r \in DOMAIN p.resources /\ cmd.types[i] = t  BY <1>1, <1>2 DEF LookedUp
<1>7. Fits(v, t) /\ ShapedTo(transforming, v, x, props, t)
  BY <1>1, <1>2, <1>3, <1>4, <1>5 DEF HasClaims, Bears
<1>8. t \in Type /\ props \in Properties  BY <1>2, <1>3, <1>6, ResourceTyped
<1>9. ResourceOf(p, r).props = props  BY <1>3, <1>6 DEF ResourceOf
<1>10. CASE ~ transforming
  BY <1>4, <1>5, <1>7, <1>10 DEF Outgoing, ShapedTo
<1>11. CASE transforming
  <2>1. x \in Parameters(v, props, t) /\ x \notin Failed  BY <1>7, <1>11 DEF ShapedTo
  <2>2. Transformed(x, props, t) = v
    <3>1. CASE ~ IsInteger(t)  BY <3>1, <2>1 DEF Parameters, Transformed
    <3>2. CASE IsInteger(t)
      <4>1. ~ Lossy(props, t)  BY <1>1, <1>2, <1>3
      <4>2. v \in Int /\ InRange(v, t)  BY <3>2, <1>7 DEF Fits
      <4>. QED BY <3>2, <4>1, <4>2, <2>1, <1>8, TransformedBack
    <3>. QED BY <3>1, <3>2
  <2>. QED BY <2>2, <1>1, <1>4, <1>5, <1>6, <1>9, <1>11 DEF Outgoing
<1>. QED BY <1>10, <1>11

\* The event of a command, as the profile is at the third look.
LEMMA ConvertKeeps ==
  ASSUME ReadingsInv, NEW c \in Caller, Convert(c)
  PROVE  ReadingsInv'
<1>. UNCHANGED <<profile, transforming, register, meant>> /\ ~ Answered(c)  BY DEF Convert
<1>1. PICK cmd : cmd = req[c]  OBVIOUS
<1>2. PICK p : p = profile  OBVIOUS
<1>3. p \in Contents /\ CommandInv(transforming, cmd) /\ "result" \notin DOMAIN cmd
  BY <1>1, <1>2 DEF ReadingsInv, Answered
<1>4. cmd.phase = "driven"  BY <1>1 DEF Convert
<1>5. LookedUp(cmd) /\ HasClaims(transforming, cmd)  BY <1>3, <1>4 DEF CommandInv
<1>6. PICK event :
        event = [i \in DOMAIN cmd.names |-> Mapped(p, cmd.names[i], Outgoing(p, cmd, i))]
  OBVIOUS
<1>7. \/ req' = [req EXCEPT ![c] = With(cmd, [result |-> "done"])]
      \/ \E failure : Fail(c, failure)
      \/ req' = [req EXCEPT ![c] =
                   With(cmd, [result |-> "event", event |-> event, convertedBy |-> p])]
  <2>1. CASE WriteOnly(cmd)
    BY <1>1, <2>1 DEF Convert
  <2>2. CASE ~ WriteOnly(cmd) /\ \E failure : Fail(c, failure)
    BY <2>2
  <2>3. CASE ~ WriteOnly(cmd) /\ ~ \E failure : Fail(c, failure)
    BY <1>1, <1>2, <1>6, <2>3, Zenon DEF Convert
  <2>. QED BY <2>1, <2>2, <2>3
<1>8. CASE req' = [req EXCEPT ![c] = With(cmd, [result |-> "done"])]
  <2>1. CommandInv(transforming, With(cmd, [result |-> "done"]))  BY <1>3, EndKeeps
  <2>. QED BY <2>1, <1>8, CommandReplaced, RegisterKept DEF ReadingsInv
<1>9. CASE \E failure : Fail(c, failure)
  BY <1>9, FailKeeps
<1>10. CASE req' = [req EXCEPT ![c] =
                      With(cmd, [result |-> "event", event |-> event, convertedBy |-> p])]
  <2>1. PICK n : n = With(cmd, [result |-> "event", event |-> event, convertedBy |-> p])  OBVIOUS
  <2>2. /\ DOMAIN n = DOMAIN cmd \union {"result", "event", "convertedBy"}
        /\ n["result"] = "event" /\ n["event"] = event /\ n["convertedBy"] = p
        /\ \A f \in DOMAIN cmd \ {"result", "event", "convertedBy"} : n[f] = cmd[f]
    BY <2>1 DEF With
  <2>3. /\ LookedUp(n)
        /\ HasWanted(cmd) => HasWanted(n)
        /\ HasWanted(cmd) /\ HasShaped(transforming, cmd) => HasShaped(transforming, n)
    <3>1. PICK Changed : Changed = {"result", "event", "convertedBy"}  OBVIOUS
    <3>. QED BY <3>1, <2>2, <1>5, PartsKept
  <2>4. /\ n.names = cmd.names /\ n.ask = cmd.ask /\ n.claims = cmd.claims /\ n.seen = cmd.seen
        /\ n.event = event /\ n.convertedBy = p /\ n.phase = "driven" /\ n.result = "event"
    BY <2>2, <1>3, <1>4, <1>5 DEF LookedUp, HasClaims, CommandInv
  <2>5. ASSUME NEW i \in DOMAIN cmd.names, cmd.claims[i] # None, cmd.claims[i].profile = p,
               cmd.seen = p, ~ Lossy(p.resources[cmd.names[i]].props, p.resources[cmd.names[i]].type)
        PROVE  event[i] = Mapped(p, cmd.names[i], cmd.claims[i].value)
    <3>1. Outgoing(p, cmd, i) = cmd.claims[i].value  BY <2>5, <1>3, <1>5, OutgoingIsClaimed
    <3>. QED BY <3>1, <1>6
  <2>6. ShowsClaims(n)  BY <2>4, <2>5 DEF ShowsClaims
  <2>7. CommandInv(transforming, n)
    BY <2>2, <2>3, <2>4, <2>6, <1>3, <1>4 DEF CommandInv, LookedUp
  <2>. QED BY <2>1, <2>7, <1>2, <1>3, <1>10, CommandReplaced, RegisterKept DEF ReadingsInv
<1>. QED BY <1>7, <1>8, <1>9, <1>10

\* A request is made or answered.
LEMMA AskKeeps ==
  ASSUME ReadingsInv, NEW c \in Caller, NEW q, Ask(c, q) \/ Reply(c)
  PROVE  ReadingsInv'
<1>. UNCHANGED <<profile, transforming, register, meant>>  BY DEF Ask, Reply
<1>1. PICK cmd : /\ cmd = [phase |-> "asked", ask |-> q] \/ cmd = Idle
                 /\ req' = [req EXCEPT ![c] = cmd]
  BY DEF Ask, Reply
<1>2. CommandInv(transforming, cmd)  BY <1>1 DEF CommandInv, Idle
<1>. QED BY <1>1, <1>2, CommandReplaced, RegisterKept DEF ReadingsInv

\* The profile, the Device or its values change meanwhile.
LEMMA ChangeKeeps ==
  ASSUME ReadingsInv,
         (\E p \in Contents : Reprofile(p)) \/ Toggle \/ (\E s \in Sensed : Sense(s[1], s[2]))
  PROVE  ReadingsInv'
<1>1. profile' \in Contents /\ transforming' = transforming /\ req' = req
  BY DEF ReadingsInv, Reprofile, Toggle, Sense
<1>2. RegisterInv'
  <2>1. CASE UNCHANGED <<register, meant>>  BY <2>1, <1>1, RegisterKept DEF ReadingsInv
  <2>2. CASE \E s \in Sensed : Sense(s[1], s[2])
    <3>1. PICK s \in Sensed : Sense(s[1], s[2])  BY <2>2
    <3>2. \A r \in Resource : \/ meant'[r] = None
                              \/ register'[r] = register[r] /\ meant'[r] = meant[r]
      BY <3>1 DEF Sense, ReadingsInv, RegisterInv
    <3>3. DOMAIN register' = Resource /\ DOMAIN meant' = Resource
      BY <3>1 DEF Sense, ReadingsInv, RegisterInv
    <3>4. \A r \in Resource : Bears(transforming, register'[r], meant'[r], r)
      BY <3>2 DEF ReadingsInv, RegisterInv, Bears
    <3>. QED BY <1>1, <3>3, <3>4 DEF RegisterInv
  <2>. QED BY <2>1, <2>2 DEF Reprofile, Toggle
<1>. QED BY <1>1, <1>2 DEF ReadingsInv

LEMMA ReadingsInit ==
  CommandInit => ReadingsInv
BY DEF CommandInit, ReadingsInv, Contents, RegisterInv, Bears, CommandInv, Idle

LEMMA ReadingsNext ==
  ReadingsInv /\ [CommandNext]_commandVars => ReadingsInv'
<1>. SUFFICES ASSUME ReadingsInv, [CommandNext]_commandVars  PROVE ReadingsInv'
  OBVIOUS
<1>1. CASE \E c \in Caller : Build(c)    BY <1>1, BuildKeeps
<1>2. CASE \E c \in Caller : Shape(c)    BY <1>2, ShapeKeeps
<1>3. CASE \E c \in Caller : Read(c)     BY <1>3, ReadKeeps
<1>4. CASE \E c \in Caller : Write(c)    BY <1>4, WriteKeeps
<1>5. CASE \E c \in Caller : Convert(c)  BY <1>5, ConvertKeeps
<1>6. CASE \E c \in Caller : Reply(c)    BY <1>6, AskKeeps
<1>7. CASE \E c \in Caller, q \in Request : Ask(c, q)  BY <1>7, AskKeeps
<1>8. CASE (\E p \in Contents : Reprofile(p)) \/ Toggle \/ (\E s \in Sensed : Sense(s[1], s[2]))
  BY <1>8, ChangeKeeps
<1>9. CASE UNCHANGED commandVars
  BY <1>9 DEF commandVars, ReadingsInv, RegisterInv
<1>. QED
  BY <1>1, <1>2, <1>3, <1>4, <1>5, <1>6, <1>7, <1>8, <1>9 DEF CommandNext, Contents

\* What an event shows was set by the last SET of the resource.
LEMMA InvReadsBack ==
  ReadingsInv => ReadsBackWhatWasSet
BY DEF ReadingsInv, CommandInv, ShowsClaims, ReadsBackWhatWasSet, Answered

\* What the driver is given is legal.
LEMMA InvLegal ==
  ASSUME ReadingsInv
  PROVE  DriverGetsLegalValues
<1>1. ASSUME NEW c \in Caller, Called(c), req[c].ask.kind = "set"
      PROVE  LookedUp(req[c]) /\ HasWanted(req[c]) /\ HasShaped(transforming, req[c])
  BY <1>1 DEF ReadingsInv, CommandInv, Called
<1>2. DriverGetsTyped
  <2>. SUFFICES ASSUME NEW c \in Caller, Called(c), req[c].ask.kind = "set",
                       NEW i \in DOMAIN req[c].names, IsInteger(req[c].types[i])
                PROVE  InRange(req[c].values[i], req[c].types[i])
    BY DEF DriverGetsTyped
  <2>1. PICK cmd : cmd = req[c]  OBVIOUS
  <2>2. PICK t : t = cmd.types[i]  OBVIOUS
  <2>3. PICK v : v = cmd.wanted[i]  OBVIOUS
  <2>4. PICK x : x = cmd.values[i]  OBVIOUS
  <2>5. PICK props : props = ResourceOf(cmd.shapedBy, cmd.names[i]).props  OBVIOUS
  <2>6. LookedUp(cmd) /\ HasWanted(cmd) /\ HasShaped(transforming, cmd)  BY <1>1, <2>1
  <2>7. t \in Type /\ AndFits(t) /\ IsInteger(t)
    <3>1. cmd.names[i] \in DOMAIN cmd.seen.resources /\ cmd.seen \in Contents
          /\ t = cmd.seen.resources[cmd.names[i]].type
      BY <2>1, <2>2, <2>6 DEF LookedUp
    <3>2. PICK r : r = cmd.names[i]  OBVIOUS
    <3>3. PICK p : p = cmd.seen  OBVIOUS
    <3>4. p \in Contents /\ r \in DOMAIN p.resources /\ t = p.resources[r].type
      BY <3>1, <3>2, <3>3
    <3>5. t \in Type /\ AndFits(t)  BY <3>4, ResourceTyped
    <3>. QED BY <3>5, <2>1, <2>2
  <2>8. v \in Int /\ InRange(v, t)  BY <2>1, <2>2, <2>3, <2>6, <2>7 DEF HasWanted, Fits
  <2>9. ShapedTo(transforming, v, x, props, t)
    BY <2>1, <2>2, <2>3, <2>4, <2>5, <2>6 DEF HasShaped
  <2>10. props \in Properties
    <3>1. CASE cmd.names[i] \in DOMAIN cmd.shapedBy.resources
      BY <3>1, <2>5, <2>6, ResourceTyped DEF ResourceOf, HasShaped
    <3>2. CASE cmd.names[i] \notin DOMAIN cmd.shapedBy.resources
      BY <3>2, <2>5 DEF ResourceOf, Nothing, Plain, Properties
    <3>. QED BY <3>1, <3>2
  <2>11. InRange(x, t)
    <3>1. CASE transforming
      <4>1. x \in Parameters(v, props, t) /\ x \notin Failed  BY <3>1, <2>9 DEF ShapedTo
      <4>. QED BY <4>1, <2>7, <2>8, <2>10, ParametersFit DEF Outcome
    <3>2. CASE ~ transforming
      BY <3>2, <2>8, <2>9 DEF ShapedTo
    <3>. QED BY <3>1, <3>2
  <2>. QED BY <2>1, <2>2, <2>4, <2>11
<1>3. LimitsAreKept
  <2>. SUFFICES ASSUME NEW c \in Caller, Called(c), req[c].ask.kind = "set", transforming,
                       req[c].shapedBy = req[c].seen, NEW i \in DOMAIN req[c].names
                PROVE  ~ Limited(req[c].wanted[i],
                                 req[c].seen.resources[req[c].names[i]].props)
    BY DEF LimitsAreKept
  <2>1. PICK cmd : cmd = req[c]  OBVIOUS
  <2>2. PICK r : r = cmd.names[i]  OBVIOUS
  <2>3. PICK p : p = cmd.seen  OBVIOUS
  <2>4. PICK v : v = cmd.wanted[i]  OBVIOUS
  <2>5. LookedUp(cmd) /\ HasWanted(cmd) /\ HasShaped(transforming, cmd)  BY <1>1, <2>1
  <2>6. p \in Contents /\ r \in DOMAIN p.resources /\ cmd.types[i] = p.resources[r].type
    <3>1. /\ cmd.seen \in Contents /\ cmd.names[i] \in DOMAIN cmd.seen.resources
          /\ cmd.types[i] = cmd.seen.resources[cmd.names[i]].type
      BY <2>1, <2>5 DEF LookedUp
    <3>. QED BY <3>1, <2>2, <2>3
  <2>7. ShapedTo(transforming, v, cmd.values[i], p.resources[r].props, p.resources[r].type)
    BY <2>1, <2>2, <2>3, <2>4, <2>5, <2>6 DEF HasShaped, ResourceOf
  <2>8. CASE IsInteger(p.resources[r].type)
    BY <2>1, <2>2, <2>3, <2>4, <2>7, <2>8 DEF ShapedTo, Parameters, Failed
  <2>9. CASE ~ IsInteger(p.resources[r].type)
    <3>1. p.resources[r].props = Plain  BY <2>6, <2>9, ResourceTyped
    <3>2. ~ Limited(v, Plain)  BY DEF Limited, Plain
    <3>. QED BY <3>1, <3>2, <2>1, <2>2, <2>3, <2>4
  <2>. QED BY <2>8, <2>9
<1>. QED BY <1>2, <1>3 DEF DriverGetsLegalValues

-----------------------------------------------------------------------------
(* The theorems about commands. *)

\* What a GET or the event of a SET shows is the value that was last asked for, for any profiles,
\* widths of integers, callers and requests, and whatever the others do between the steps; unless
\* the device changed it, the profile was another at one of the looks, or bits of it are dropped.
THEOREM ValuesAreReadBack == CommandSpec => []ReadsBackWhatWasSet
<1>1. CommandSpec => []ReadingsInv  BY ReadingsInit, ReadingsNext, PTL DEF CommandSpec
<1>. QED BY <1>1, InvReadsBack, PTL

\* The driver is given numbers of the type it is told of, and within the limits of the resource
\* unless the transformations are off or the profile changed between the two looks at it.
THEOREM DriverValuesAreLegal == CommandSpec => []DriverGetsLegalValues
<1>1. CommandSpec => []ReadingsInv  BY ReadingsInit, ReadingsNext, PTL DEF CommandSpec
<1>. QED BY <1>1, InvLegal, PTL

-----------------------------------------------------------------------------
(* The inductive invariant of Core Data's client. *)

\* Flushers between their slices of the queue and its replacement.
Crossing == {f \in Flusher : flush[f] \in {"cut", "keep"}}

\* What queue[MaxBatch:] is now.
Beyond == SubSeq(queue, MaxBatch + 1, Len(queue))

Typed ==
  /\ accepted \in Nat
  /\ queue \in Seq(Nat)
  /\ flush \in [Flusher -> {"idle", "take", "cut", "keep", "send", "post", "back", "ended"}]
  /\ batch \in [Flusher -> Seq(Nat)]
  /\ rest \in [Flusher -> Seq(Nat)]

\* Of the events in the queue, a flusher that has cut it has all but the victims, in its
\* two slices or where its second slice will find them; the second holds nothing else.
CutInv(f) ==
  /\ flush[f] = "cut" =>
       Elements(queue) \ victims \subseteq Elements(batch[f]) \union Elements(Beyond)
  /\ flush[f] = "keep" =>
       /\ Elements(queue) \ victims \subseteq Elements(batch[f]) \union Elements(rest[f])
       /\ Elements(rest[f]) \subseteq Elements(queue) \union victims

\* When two threads cross, everything in the queue is a victim.
CrossInv ==
  \A f, g \in Crossing : f # g => Elements(queue) \subseteq victims

AccountInv == Typed /\ (\A f \in Flusher : CutInv(f)) /\ CrossInv /\ EventsAreAccounted

-----------------------------------------------------------------------------
(* What sequences hold. *)

\* What is appended is there, and so is what was.
LEMMA AppendElements ==
  ASSUME NEW s \in Seq(Nat), NEW e \in Nat
  PROVE  /\ Append(s, e) \in Seq(Nat)
         /\ Elements(Append(s, e)) = Elements(s) \union {e}
<1>1. /\ Append(s, e) \in Seq(Nat) /\ Len(Append(s, e)) = Len(s) + 1
      /\ Append(s, e)[Len(s) + 1] = e
      /\ \A i \in 1 .. Len(s) : Append(s, e)[i] = s[i]
  OBVIOUS
<1>2. DOMAIN s = 1 .. Len(s) /\ DOMAIN Append(s, e) = 1 .. Len(s) + 1 /\ Len(s) \in Nat
  BY <1>1
<1>3. Elements(Append(s, e)) \subseteq Elements(s) \union {e}
  BY <1>1, <1>2 DEF Elements
<1>4. Elements(s) \subseteq Elements(Append(s, e)) /\ e \in Elements(Append(s, e))
  BY <1>1, <1>2 DEF Elements
<1>. QED  BY <1>1, <1>3, <1>4

LEMMA ConcatElements ==
  ASSUME NEW s \in Seq(Nat), NEW t \in Seq(Nat)
  PROVE  s \o t \in Seq(Nat) /\ Elements(s \o t) = Elements(s) \union Elements(t)
<1>1. /\ s \o t \in Seq(Nat) /\ Len(s \o t) = Len(s) + Len(t)
      /\ \A i \in 1 .. Len(s) + Len(t) :
           (s \o t)[i] = IF i <= Len(s) THEN s[i] ELSE t[i - Len(s)]
  BY ConcatProperties
<1>2. /\ Len(s) \in Nat /\ Len(t) \in Nat
      /\ DOMAIN s = 1 .. Len(s) /\ DOMAIN t = 1 .. Len(t)
      /\ DOMAIN (s \o t) = 1 .. Len(s) + Len(t)
  BY <1>1
<1>3. ASSUME NEW i \in DOMAIN (s \o t)
      PROVE  (s \o t)[i] \in Elements(s) \union Elements(t)
  <2>1. CASE i <= Len(s)
    BY <1>1, <1>2, <2>1 DEF Elements
  <2>2. CASE ~ (i <= Len(s))
    <3>1. i - Len(s) \in DOMAIN t /\ (s \o t)[i] = t[i - Len(s)]
      BY <1>1, <1>2, <2>2
    <3>. QED  BY <3>1 DEF Elements
  <2>. QED  BY <2>1, <2>2
<1>4. ASSUME NEW i \in DOMAIN s PROVE s[i] \in Elements(s \o t)
  BY <1>1, <1>2 DEF Elements
<1>5. ASSUME NEW i \in DOMAIN t PROVE t[i] \in Elements(s \o t)
  <2>1. /\ i + Len(s) \in 1 .. Len(s) + Len(t) /\ ~ (i + Len(s) <= Len(s))
        /\ (i + Len(s)) - Len(s) = i
    BY <1>2
  <2>2. i + Len(s) \in DOMAIN (s \o t) /\ (s \o t)[i + Len(s)] = t[i]
    BY <1>1, <1>2, <2>1
  <2>. QED  BY <2>2 DEF Elements
<1>6. Elements(s \o t) = Elements(s) \union Elements(t)
  BY <1>3, <1>4, <1>5 DEF Elements
<1>. QED  BY <1>1, <1>6

\* A slice holds what stands between its ends.
LEMMA SliceElements ==
  ASSUME NEW s \in Seq(Nat), NEW m \in Nat \ {0}, NEW n \in Nat, n <= Len(s)
  PROVE  /\ SubSeq(s, m, n) \in Seq(Nat)
         /\ Elements(SubSeq(s, m, n)) = {s[i] : i \in m .. n}
<1>1. Len(s) \in Nat /\ DOMAIN s = 1 .. Len(s) /\ \A i \in m .. n : s[i] \in Nat
  OBVIOUS
<1>2. /\ SubSeq(s, m, n) \in Seq(Nat)
      /\ Len(SubSeq(s, m, n)) = IF m <= n THEN n - m + 1 ELSE 0
      /\ \A i \in 1 .. n - m + 1 : SubSeq(s, m, n)[i] = s[m + i - 1]
  BY <1>1, SubSeqProperties
<1>3. DOMAIN SubSeq(s, m, n) = 1 .. n - m + 1
  BY <1>2
<1>4. ASSUME NEW i \in DOMAIN SubSeq(s, m, n)
      PROVE  SubSeq(s, m, n)[i] \in {s[j] : j \in m .. n}
  <2>1. m + i - 1 \in m .. n
    BY <1>3
  <2>. QED  BY <1>2, <1>3, <2>1
<1>5. ASSUME NEW j \in m .. n PROVE s[j] \in Elements(SubSeq(s, m, n))
  <2>1. j - m + 1 \in DOMAIN SubSeq(s, m, n) /\ SubSeq(s, m, n)[j - m + 1] = s[j]
    BY <1>2, <1>3
  <2>. QED  BY <2>1 DEF Elements
<1>. QED  BY <1>2, <1>4, <1>5 DEF Elements

LEMMA BeyondElements ==
  ASSUME NEW q \in Seq(Nat)
  PROVE  /\ SubSeq(q, MaxBatch + 1, Len(q)) \in Seq(Nat)
         /\ Elements(SubSeq(q, MaxBatch + 1, Len(q)))
              = {q[i] : i \in MaxBatch + 1 .. Len(q)}
<1>1. MaxBatch + 1 \in Nat \ {0} /\ Len(q) \in Nat /\ Len(q) <= Len(q)
  BY ClientAssumption
<1>. QED  BY <1>1, SliceElements

\* The two slices of a flush hold the whole queue between them.
LEMMA SlicesCover ==
  ASSUME queue \in Seq(Nat)
  PROVE  LET n == IF Len(queue) < MaxBatch THEN Len(queue) ELSE MaxBatch
         IN  /\ SubSeq(queue, 1, n) \in Seq(Nat) /\ Beyond \in Seq(Nat)
             /\ Elements(queue) \subseteq
                  Elements(SubSeq(queue, 1, n)) \union Elements(Beyond)
             /\ Elements(Beyond) \subseteq Elements(queue)
<1>. DEFINE n == IF Len(queue) < MaxBatch THEN Len(queue) ELSE MaxBatch
<1>1. Len(queue) \in Nat /\ DOMAIN queue = 1 .. Len(queue) /\ MaxBatch \in Nat \ {0}
      /\ n \in Nat /\ n <= Len(queue)
  BY ClientAssumption
<1>2. SubSeq(queue, 1, n) \in Seq(Nat)
      /\ Elements(SubSeq(queue, 1, n)) = {queue[i] : i \in 1 .. n}
  <2>. HIDE DEF n
  <2>1. 1 \in Nat \ {0}
    OBVIOUS
  <2>. QED  BY <1>1, <2>1, SliceElements
<1>3. Beyond \in Seq(Nat) /\ Elements(Beyond) = {queue[i] : i \in MaxBatch + 1 .. Len(queue)}
  BY <1>1, BeyondElements DEF Beyond
<1>4. ASSUME NEW i \in DOMAIN queue
      PROVE  queue[i] \in Elements(SubSeq(queue, 1, n)) \union Elements(Beyond)
  <2>1. i \in 1 .. n \/ i \in MaxBatch + 1 .. Len(queue)
    BY <1>1
  <2>. QED  BY <1>2, <1>3, <2>1
<1>5. Elements(Beyond) \subseteq Elements(queue)
  <2>1. \A i \in MaxBatch + 1 .. Len(queue) : i \in DOMAIN queue
    BY <1>1
  <2>. QED  BY <1>3, <2>1 DEF Elements
<1>. QED  BY <1>2, <1>3, <1>4, <1>5 DEF Elements

\* What is beyond the first slice stays there when events come before or behind it.
LEMMA BeyondAppended ==
  ASSUME queue \in Seq(Nat), NEW e \in Nat, queue' = Append(queue, e)
  PROVE  Elements(Beyond) \subseteq Elements(Beyond')
<1>1. /\ queue' \in Seq(Nat) /\ Len(queue) \in Nat /\ Len(queue') = Len(queue) + 1
      /\ \A i \in 1 .. Len(queue) : queue'[i] = queue[i]
      /\ MaxBatch \in Nat \ {0}
  BY ClientAssumption
<1>2. Elements(Beyond) = {queue[i] : i \in MaxBatch + 1 .. Len(queue)}
  BY <1>1, BeyondElements DEF Beyond
<1>3. Elements(Beyond') = {queue'[i] : i \in MaxBatch + 1 .. Len(queue')}
  BY <1>1, BeyondElements DEF Beyond
<1>4. ASSUME NEW i \in MaxBatch + 1 .. Len(queue)
      PROVE  i \in MaxBatch + 1 .. Len(queue') /\ queue'[i] = queue[i]
  BY <1>1
<1>. QED  BY <1>2, <1>3, <1>4

LEMMA BeyondPutBack ==
  ASSUME queue \in Seq(Nat), NEW b \in Seq(Nat), queue' = b \o queue
  PROVE  Elements(Beyond) \subseteq Elements(Beyond')
<1>1. /\ queue' \in Seq(Nat) /\ Len(queue) \in Nat /\ Len(b) \in Nat
      /\ Len(queue') = Len(b) + Len(queue) /\ MaxBatch \in Nat \ {0}
      /\ \A i \in 1 .. Len(b) + Len(queue) :
           queue'[i] = IF i <= Len(b) THEN b[i] ELSE queue[i - Len(b)]
  BY ClientAssumption, ConcatProperties
<1>2. Elements(Beyond) = {queue[i] : i \in MaxBatch + 1 .. Len(queue)}
  BY <1>1, BeyondElements DEF Beyond
<1>3. Elements(Beyond') = {queue'[i] : i \in MaxBatch + 1 .. Len(queue')}
  BY <1>1, BeyondElements DEF Beyond
<1>4. ASSUME NEW i \in MaxBatch + 1 .. Len(queue)
      PROVE  /\ i + Len(b) \in MaxBatch + 1 .. Len(queue')
             /\ queue'[i + Len(b)] = queue[i]
  BY <1>1
<1>. QED  BY <1>2, <1>3, <1>4

-----------------------------------------------------------------------------
(* Each step of a flush. *)

\* A flusher that does not move keeps what it knows, when all that is new in the queue
\* are victims.
LEMMA CutKept ==
  ASSUME NEW g \in Flusher, CutInv(g), victims \subseteq victims',
         flush'[g] = flush[g], batch'[g] = batch[g], rest'[g] = rest[g],
         flush[g] \in {"cut", "keep"} =>
           /\ Elements(queue) \subseteq Elements(queue')
           /\ Elements(queue') \subseteq Elements(queue) \union victims'
           /\ Elements(Beyond) \subseteq Elements(Beyond')
  PROVE  CutInv(g)'
  BY DEF CutInv

\* What only one flusher does to itself.
Own(f) ==
  \A g \in Flusher \ {f} :
    flush'[g] = flush[g] /\ batch'[g] = batch[g] /\ rest'[g] = rest[g]

\* Two threads that take or cut the same list make everything in it a victim.
LEMMA CrossKept ==
  ASSUME NEW f \in Flusher, CrossInv, Own(f), UNCHANGED queue, victims \subseteq victims',
         Crossed(f) => Elements(queue) \subseteq victims'
  PROVE  CrossInv'
<1>. SUFFICES ASSUME NEW g \in Crossing', NEW h \in Crossing', g # h
              PROVE  Elements(queue) \subseteq victims'
  BY DEF CrossInv
<1>1. CASE g # f /\ h # f
  BY <1>1 DEF CrossInv, Crossing, Own
<1>2. CASE g = f \/ h = f
  <2>1. Crossed(f)
    BY <1>2 DEF Crossed, Crossing, Own
  <2>. QED  BY <2>1
<1>. QED  BY <1>1, <1>2

\* batch = queue[:50]
LEMMA TakeAccounts ==
  ASSUME AccountInv, NEW f \in Flusher, Take(f)
  PROVE  AccountInv'
<1>. DEFINE n == IF Len(queue) < MaxBatch THEN Len(queue) ELSE MaxBatch
<1>1. /\ UNCHANGED <<queue, rest, accepted, gone>> /\ flush[f] = "take"
      /\ batch' = [batch EXCEPT ![f] = SubSeq(queue, 1, n)]
      /\ flush' = [flush EXCEPT ![f] = IF queue = <<>> THEN Done(f) ELSE "cut"]
      /\ victims' = IF Crossed(f) THEN victims \union Elements(queue) ELSE victims
  BY DEF Take, Step
<1>2. /\ SubSeq(queue, 1, n) \in Seq(Nat)
      /\ Elements(queue) \subseteq Elements(SubSeq(queue, 1, n)) \union Elements(Beyond)
  BY SlicesCover DEF AccountInv, Typed
<1>3. Typed' /\ Own(f)
  BY <1>1, <1>2 DEF AccountInv, Typed, Own, Done
<1>4. ASSUME NEW g \in Flusher PROVE CutInv(g)'
  <2>1. CASE g = f
    BY <1>1, <1>2, <2>1 DEF AccountInv, Typed, CutInv, Done, Beyond
  <2>2. CASE g # f
    BY <1>1, <1>3, <2>2, CutKept DEF AccountInv, Own, Beyond
  <2>. QED  BY <2>1, <2>2
<1>5. CrossInv'
  BY <1>1, <1>3, CrossKept DEF AccountInv
<1>6. EventsAreAccounted'
  BY <1>1 DEF AccountInv, Typed, EventsAreAccounted, Flushing
<1>. QED  BY <1>3, <1>4, <1>5, <1>6 DEF AccountInv

\* queue[50:], before it is assigned
LEMMA CutAccounts ==
  ASSUME AccountInv, NEW f \in Flusher, Cut(f)
  PROVE  AccountInv'
<1>1. /\ UNCHANGED <<queue, batch, accepted, gone>> /\ flush[f] = "cut"
      /\ rest' = [rest EXCEPT ![f] = Beyond]
      /\ flush' = [flush EXCEPT ![f] = "keep"]
      /\ victims' = IF Crossed(f) THEN victims \union Elements(queue) ELSE victims
  BY DEF Cut, Step, Beyond
<1>2. Beyond \in Seq(Nat) /\ Elements(Beyond) \subseteq Elements(queue)
  BY SlicesCover DEF AccountInv, Typed
<1>3. Typed' /\ Own(f)
  BY <1>1, <1>2 DEF AccountInv, Typed, Own
<1>4. ASSUME NEW g \in Flusher PROVE CutInv(g)'
  <2>1. CASE g = f
    BY <1>1, <1>2, <2>1 DEF AccountInv, Typed, CutInv
  <2>2. CASE g # f
    BY <1>1, <1>3, <2>2, CutKept DEF AccountInv, Own, Beyond
  <2>. QED  BY <2>1, <2>2
<1>5. CrossInv'
  BY <1>1, <1>3, CrossKept DEF AccountInv
<1>6. EventsAreAccounted'
  BY <1>1 DEF AccountInv, Typed, EventsAreAccounted, Flushing
<1>. QED  BY <1>3, <1>4, <1>5, <1>6 DEF AccountInv

\* The assignment: what it drops is in the batch, or a victim.
LEMMA KeepAccounts ==
  ASSUME AccountInv, NEW f \in Flusher, Keep(f)
  PROVE  AccountInv'
<1>1. /\ UNCHANGED <<batch, rest, accepted, gone, victims>> /\ flush[f] = "keep"
      /\ queue' = rest[f] /\ flush' = [flush EXCEPT ![f] = "send"]
  BY DEF Keep, Step
<1>2. Typed' /\ Own(f)
  BY <1>1 DEF AccountInv, Typed, Own
<1>3. /\ Elements(queue) \ victims \subseteq Elements(batch[f]) \union Elements(rest[f])
      /\ Elements(rest[f]) \subseteq Elements(queue) \union victims
  BY <1>1 DEF AccountInv, CutInv
<1>4. \A g \in Crossing : g # f => Elements(queue) \subseteq victims /\ Elements(queue') \subseteq victims
  BY <1>1, <1>3 DEF AccountInv, CrossInv, Crossing
<1>5. \A g \in Crossing' : g # f /\ g \in Crossing
  BY <1>1 DEF Crossing, AccountInv, Typed
<1>6. ASSUME NEW g \in Flusher PROVE CutInv(g)'
  <2>1. CASE g \in Crossing'
    BY <1>1, <1>2, <1>4, <1>5, <2>1 DEF AccountInv, CutInv, Own, Crossing
  <2>2. CASE g \notin Crossing'
    BY <2>2 DEF CutInv, Crossing
  <2>. QED  BY <2>1, <2>2
<1>7. CrossInv'
  BY <1>1, <1>4, <1>5 DEF CrossInv
<1>8. EventsAreAccounted'
  BY <1>1, <1>3 DEF AccountInv, Typed, EventsAreAccounted, Flushing
<1>. QED  BY <1>2, <1>6, <1>7, <1>8 DEF AccountInv

\* Core Data has the batch, or it is lost with a failure.
LEMMA SentAccounts ==
  ASSUME AccountInv, NEW f \in Flusher, Refuse(f) \/ Post(f)
  PROVE  AccountInv'
<1>1. /\ UNCHANGED <<queue, accepted, victims>> /\ flush[f] \in {"send", "post"}
      /\ gone' = gone \union Elements(batch[f])
      /\ flush' = [flush EXCEPT ![f] = Done(f)]
      /\ batch' = [batch EXCEPT ![f] = <<>>] /\ rest' = [rest EXCEPT ![f] = <<>>]
  BY DEF Refuse, Post, Finish, Step
<1>2. Typed' /\ Own(f)
  BY <1>1 DEF AccountInv, Typed, Own, Done
<1>3. ASSUME NEW g \in Flusher PROVE CutInv(g)'
  <2>1. CASE g = f
    BY <1>1, <2>1 DEF AccountInv, Typed, CutInv, Done
  <2>2. CASE g # f
    BY <1>1, <1>2, <2>2, CutKept DEF AccountInv, Own, Beyond
  <2>. QED  BY <2>1, <2>2
<1>4. CrossInv'
  <2>1. Crossing' = Crossing
    BY <1>1 DEF Crossing, Done, AccountInv, Typed
  <2>. QED  BY <1>1, <2>1 DEF AccountInv, CrossInv
<1>5. EventsAreAccounted'
  <2>1. \A g \in Flushing : g = f \/ (g \in Flushing' /\ batch'[g] = batch[g])
    BY <1>1 DEF AccountInv, Typed, Flushing
  <2>. QED  BY <1>1, <2>1 DEF AccountInv, EventsAreAccounted
<1>. QED  BY <1>2, <1>3, <1>4, <1>5 DEF AccountInv

\* The batch comes back in front of the queue.
LEMMA PutBackAccounts ==
  ASSUME AccountInv, NEW f \in Flusher, PutBack(f)
  PROVE  AccountInv'
<1>1. /\ UNCHANGED <<accepted, gone>> /\ flush[f] = "back"
      /\ queue' = batch[f] \o queue
      /\ flush' = [flush EXCEPT ![f] = Done(f)]
      /\ batch' = [batch EXCEPT ![f] = <<>>] /\ rest' = [rest EXCEPT ![f] = <<>>]
      /\ victims' = IF Crossed(f) THEN victims \union Elements(batch[f]) ELSE victims
  BY DEF PutBack, Finish, Step
<1>2. /\ queue' \in Seq(Nat) /\ batch[f] \in Seq(Nat) /\ queue \in Seq(Nat)
      /\ Elements(queue') = Elements(batch[f]) \union Elements(queue)
  BY <1>1, ConcatElements DEF AccountInv, Typed
<1>3. Elements(Beyond) \subseteq Elements(Beyond')
  BY <1>1, <1>2, BeyondPutBack
<1>4. Typed' /\ Own(f)
  BY <1>1, <1>2 DEF AccountInv, Typed, Own, Done
<1>5. ASSUME NEW g \in Flusher PROVE CutInv(g)'
  <2>1. CASE g = f
    BY <1>1, <2>1 DEF AccountInv, Typed, CutInv, Done
  <2>2. CASE g # f
    BY <1>1, <1>2, <1>3, <1>4, <2>2, CutKept DEF AccountInv, Own, Crossed
  <2>. QED  BY <2>1, <2>2
<1>6. CrossInv'
  <2>1. Crossing' = Crossing /\ f \notin Crossing
    BY <1>1 DEF Crossing, Done, AccountInv, Typed
  <2>2. Crossing # {} => Crossed(f)
    BY <2>1 DEF Crossing, Crossed
  <2>. QED  BY <1>1, <1>2, <2>1, <2>2 DEF AccountInv, CrossInv
<1>7. EventsAreAccounted'
  <2>1. \A g \in Flushing : g = f \/ (g \in Flushing' /\ batch'[g] = batch[g])
    BY <1>1 DEF AccountInv, Typed, Flushing
  <2>. QED  BY <1>1, <1>2, <2>1 DEF AccountInv, EventsAreAccounted
<1>. QED  BY <1>4, <1>5, <1>6, <1>7 DEF AccountInv

\* An append between another thread's slice and its assignment makes a victim.
LEMMA AppendAccounts ==
  ASSUME AccountInv, SendAsync
  PROVE  AccountInv'
<1>. DEFINE e == accepted + 1
<1>1. /\ UNCHANGED <<batch, rest, gone>> /\ flush["appender"] = "idle"
      /\ accepted' = e /\ queue' = Append(queue, e)
      /\ victims' = IF Crossing # {} THEN victims \union {e} ELSE victims
      /\ flush' = flush \/ flush' = [flush EXCEPT !["appender"] = "take"]
  BY DEF SendAsync, Step, Crossing
<1>2. /\ e \in Nat /\ queue \in Seq(Nat) /\ queue' \in Seq(Nat)
      /\ Elements(queue') = Elements(queue) \union {e}
  BY <1>1, AppendElements DEF AccountInv, Typed
<1>3. Elements(Beyond) \subseteq Elements(Beyond')
  BY <1>1, <1>2, BeyondAppended
<1>4. Typed' /\ Own("appender") /\ "appender" \in Flusher
  BY <1>1, <1>2 DEF AccountInv, Typed, Own, Flusher
<1>5. Crossing' = Crossing /\ Flushing' = Flushing
  BY <1>1, <1>4 DEF Crossing, Flushing, AccountInv, Typed
<1>6. ASSUME NEW g \in Flusher PROVE CutInv(g)'
  <2>1. CASE g \in Crossing
    <3>1. g # "appender"
      BY <1>1, <2>1 DEF Crossing
    <3>. QED  BY <1>1, <1>2, <1>3, <1>4, <2>1, <3>1, CutKept DEF AccountInv, Own
  <2>2. CASE g \notin Crossing
    BY <1>5, <2>2 DEF CutInv, Crossing
  <2>. QED  BY <2>1, <2>2
<1>7. CrossInv'
  BY <1>1, <1>2, <1>5 DEF AccountInv, CrossInv
<1>8. EventsAreAccounted'
  <2>1. 1 .. accepted' \subseteq 1 .. accepted \union {e}
    BY <1>1, <1>2 DEF AccountInv, Typed
  <2>. QED  BY <1>1, <1>2, <1>5, <2>1 DEF AccountInv, EventsAreAccounted
<1>. QED  BY <1>4, <1>6, <1>7, <1>8 DEF AccountInv

\* The other steps move a thread that has nothing in its hands, or keeps what it has.
LEMMA MoveAccounts ==
  ASSUME AccountInv, UNCHANGED <<queue, batch, rest, accepted, gone, victims>>,
         NEW f \in Flusher, NEW step,
         flush' = flush \/ flush' = [flush EXCEPT ![f] = step],
         \/ flush[f] = "idle" /\ step \in {"take", "ended"}
         \/ flush[f] = "send" /\ step \in {"post", "back"}
  PROVE  AccountInv'
<1>1. Typed' /\ Crossing' = Crossing /\ Flushing' = Flushing
  BY DEF AccountInv, Typed, Crossing, Flushing
<1>2. ASSUME NEW g \in Flusher PROVE CutInv(g)'
  BY <1>1 DEF AccountInv, Typed, CutInv, Crossing, Beyond
<1>. QED  BY <1>1, <1>2 DEF AccountInv, CrossInv, EventsAreAccounted

LEMMA InitAccounts == Init => AccountInv
  BY DEF Init, AccountInv, Typed, CutInv, CrossInv, Crossing, EventsAreAccounted

LEMMA StepAccounts == AccountInv /\ [Next]_vars => AccountInv'
<1>. SUFFICES ASSUME AccountInv, [Next]_vars PROVE AccountInv'
  OBVIOUS
<1>1. "worker" \in Flusher /\ "closer" \in Flusher
  BY DEF Flusher
<1>2. ASSUME UNCHANGED <<queue, flush, batch, rest, accepted, gone, victims>>
      PROVE  AccountInv'
  BY <1>2 DEF AccountInv, Typed, CutInv, Beyond, CrossInv, Crossing, EventsAreAccounted, Flushing
<1>3. CASE UNCHANGED vars
  BY <1>2, <1>3 DEF vars, flushVars
<1>4. CASE Cool \/ Close
  BY <1>2, <1>4 DEF Cool, Close, flushVars
<1>5. CASE Wake
  BY <1>1, <1>5, MoveAccounts DEF Wake, Step
<1>6. CASE LastFlush
  BY <1>1, <1>6, MoveAccounts DEF LastFlush, Step
<1>7. ASSUME NEW s \in Sender, Call(s) \/ Answer(s) PROVE AccountInv'
  BY <1>2, <1>7 DEF Call, Answer, flushVars
<1>8. ASSUME NEW f \in Flusher, Flush(f) PROVE AccountInv'
  <2>1. CASE Admit(f) \/ TokenFails(f)
    BY <2>1, MoveAccounts DEF Admit, TokenFails, Step
  <2>. QED
    BY <1>8, <2>1, TakeAccounts, CutAccounts, KeepAccounts, SentAccounts, PutBackAccounts
       DEF Flush
<1>. QED
  BY <1>3, <1>4, <1>5, <1>6, <1>7, <1>8, AppendAccounts DEF Next

\* No event given to send_event_async vanishes without a cause: it waits, or is in some
\* thread's batch, or has been sent or lost with its batch, or two threads had crossed
\* each other's cut of the queue while it was there.
THEOREM EveryEventIsAccounted == Spec => []EventsAreAccounted
<1>1. AccountInv => EventsAreAccounted
  BY DEF AccountInv
<1>. QED  BY <1>1, InitAccounts, StepAccounts, PTL DEF Spec
-----------------------------------------------------------------------------
(* Origins. *)

\* Every origin was once the previous one.
OriginInv ==
  /\ clock \in Int /\ previous \in Int /\ stamped \in Seq(Int)
  /\ \A i \in DOMAIN stamped : stamped[i] <= previous
  /\ OriginsIncrease

LEMMA StampKeeps ==
  ASSUME OriginInv, Stamp
  PROVE  /\ previous' \in Int /\ stamped' \in Seq(Int)
         /\ \A i \in DOMAIN stamped' : stamped'[i] <= previous'
         /\ OriginsIncrease'
<1>1. PICK now \in Int : now > previous /\ previous' = now /\ stamped' = Append(stamped, now)
  BY DEF OriginInv, Stamp
<1>2. /\ stamped' \in Seq(Int) /\ Len(stamped) \in Nat
      /\ DOMAIN stamped = 1..Len(stamped) /\ DOMAIN stamped' = 1..(Len(stamped) + 1)
      /\ \A i \in DOMAIN stamped : stamped'[i] = stamped[i] /\ stamped[i] \in Int
      /\ stamped'[Len(stamped) + 1] = now
  BY <1>1 DEF OriginInv
<1>3. \A i \in DOMAIN stamped : stamped'[i] < now
  BY <1>1, <1>2 DEF OriginInv
<1>4. \A i \in DOMAIN stamped' : stamped'[i] <= previous'
  BY <1>1, <1>2, <1>3
<1>5. ASSUME NEW i \in DOMAIN stamped', NEW j \in DOMAIN stamped', i < j
      PROVE  stamped'[i] < stamped'[j]
  <2>1. i \in DOMAIN stamped
    BY <1>2, <1>5
  <2>2. CASE j \in DOMAIN stamped
    BY <1>2, <1>5, <2>1, <2>2 DEF OriginInv, OriginsIncrease
  <2>3. CASE j = Len(stamped) + 1
    BY <1>2, <1>3, <2>1, <2>3
  <2>. QED  BY <1>2, <2>2, <2>3
<1>. QED  BY <1>1, <1>2, <1>4, <1>5 DEF OriginsIncrease

LEMMA StepOrigins == OriginInv /\ [AsyncNext]_asyncVars => OriginInv'
<1>. SUFFICES ASSUME OriginInv, [AsyncNext]_asyncVars PROVE OriginInv'
  OBVIOUS
<1>1. CASE UNCHANGED <<previous, stamped>> /\ clock' \in Int
  BY <1>1 DEF OriginInv, OriginsIncrease
<1>2. CASE Stamp /\ UNCHANGED clock
  BY <1>2, StampKeeps DEF OriginInv
<1>3. \/ UNCHANGED <<previous, stamped>> /\ clock' \in Int
      \/ Stamp /\ UNCHANGED clock
  <2>1. CASE UNCHANGED asyncVars
    BY <2>1 DEF asyncVars, OriginInv
  <2>2. CASE Pump
    BY <2>2, Zenon DEF Pump, Get, Process, End, OriginInv
  <2>3. CASE Command \/ Halt
    BY <2>3 DEF Command, Halt, OriginInv
  <2>4. ASSUME NEW p \in Producer, Put(p) \/ \E list \in List : Produce(p, list)
        PROVE  UNCHANGED <<previous, stamped>> /\ clock' \in Int
    BY <2>4 DEF Put, Produce, OriginInv
  <2>5. ASSUME NEW t \in 1..MaxClock, Tick(t)
        PROVE  UNCHANGED <<previous, stamped>> /\ clock' \in Int
    BY <2>5 DEF Tick
  <2>. QED  BY <2>1, <2>2, <2>3, <2>4, <2>5 DEF AsyncNext
<1>. QED  BY <1>1, <1>2, <1>3

\* The event that is stamped later, by the pump or by a command, has the later origin, however
\* the clock stands still or is set back, and for any producers and channel.
THEOREM OriginsAlwaysIncrease == AsyncSpec => []OriginsIncrease
<1>1. AsyncInit => OriginInv
  BY DEF AsyncInit, OriginInv, OriginsIncrease
<1>2. OriginInv => OriginsIncrease
  BY DEF OriginInv
<1>. QED  BY <1>1, <1>2, StepOrigins, PTL DEF AsyncSpec

-----------------------------------------------------------------------------
(* What the client never makes up. *)

\* The queue and the slices of it hold events that were accepted, and nothing else.
GivenInv ==
  /\ accepted \in 0 .. Accepted /\ stop \in BOOLEAN
  /\ Elements(queue) \subseteq 1 .. accepted
  /\ \A f \in Flusher :
       Elements(batch[f]) \subseteq 1 .. accepted /\ Elements(rest[f]) \subseteq 1 .. accepted

\* The breaker is open when the count has reached the threshold, and only then.
BreakerInv ==
  /\ failures \in 0 .. Threshold /\ cooled \in BOOLEAN /\ open \in BOOLEAN
  /\ open <=> failures = Threshold
  /\ sender \in [Sender -> {"idle", "post"}]

\* What a flusher holds after a step that only its own slices take part in.
Holds(f, b, r) ==
  \A g \in Flusher : /\ batch'[g] = IF g = f THEN b ELSE batch[g]
                     /\ rest'[g] = IF g = f THEN r ELSE rest[g]

LEMMA GivenKept ==
  ASSUME GivenInv, UNCHANGED <<accepted, stop>>, NEW f \in Flusher, NEW b, NEW r,
         Holds(f, b, r),
         Elements(queue') \subseteq 1 .. accepted,
         Elements(b) \subseteq 1 .. accepted,
         Elements(r) \subseteq 1 .. accepted
  PROVE  GivenInv'
<1>1. ASSUME NEW g \in Flusher
      PROVE  Elements(batch'[g]) \subseteq 1 .. accepted
             /\ Elements(rest'[g]) \subseteq 1 .. accepted
  BY DEF Holds, GivenInv
<1>. QED  BY <1>1 DEF GivenInv

LEMMA NothingInEmpty == Elements(<<>>) = {}
BY DEF Elements

LEMMA FlushGiven ==
  ASSUME AccountInv, GivenInv, NEW f \in Flusher, Flush(f)
  PROVE  GivenInv'
<1>1. /\ queue \in Seq(Nat) /\ batch[f] \in Seq(Nat)
      /\ batch = [g \in Flusher |-> batch[g]] /\ rest = [g \in Flusher |-> rest[g]]
      /\ Elements(queue) \subseteq 1 .. accepted
      /\ Elements(batch[f]) \subseteq 1 .. accepted
      /\ Elements(rest[f]) \subseteq 1 .. accepted
  BY DEF AccountInv, Typed, GivenInv
<1>2. CASE Take(f)
  <2>. DEFINE n == IF Len(queue) < MaxBatch THEN Len(queue) ELSE MaxBatch
  <2>1. /\ queue \in Seq(Nat) /\ DOMAIN queue = 1 .. Len(queue)
        /\ n \in Nat /\ n <= Len(queue) /\ 1 \in Nat \ {0}
    BY <1>1, ClientAssumption
  <2>2. Elements(SubSeq(queue, 1, n)) = {queue[i] : i \in 1 .. n}
    BY <2>1, SliceElements
  <2>3. Elements(SubSeq(queue, 1, n)) \subseteq 1 .. accepted
    BY <1>1, <2>1, <2>2 DEF Elements
  <2>. HIDE DEF n
  <2>4. /\ Holds(f, SubSeq(queue, 1, n), rest[f])
        /\ UNCHANGED <<queue, accepted, stop>>
    BY <1>1, <1>2 DEF Take, Holds, n
  <2>. QED  BY <1>1, <2>3, <2>4, GivenKept
<1>3. CASE Cut(f)
  <2>1. Elements(Beyond) \subseteq 1 .. accepted
    BY <1>1, SlicesCover
  <2>2. Holds(f, batch[f], Beyond) /\ UNCHANGED <<queue, accepted, stop>>
    BY <1>1, <1>3 DEF Cut, Holds, Beyond
  <2>. QED  BY <1>1, <2>1, <2>2, GivenKept
<1>4. CASE Keep(f)
  <2>1. Holds(f, batch[f], rest[f]) /\ UNCHANGED <<accepted, stop>> /\ queue' = rest[f]
    BY <1>1, <1>4 DEF Keep, Holds
  <2>. QED  BY <1>1, <2>1, GivenKept
<1>5. CASE Refuse(f) \/ Post(f)
  <2>1. Holds(f, <<>>, <<>>) /\ UNCHANGED <<queue, accepted, stop>>
    BY <1>1, <1>5 DEF Refuse, Post, Finish, Holds
  <2>. QED  BY <1>1, <2>1, NothingInEmpty, GivenKept
<1>6. CASE PutBack(f)
  <2>1. Holds(f, <<>>, <<>>) /\ UNCHANGED <<accepted, stop>> /\ queue' = batch[f] \o queue
    BY <1>1, <1>6 DEF PutBack, Finish, Holds
  <2>2. Elements(queue') \subseteq 1 .. accepted
    BY <1>1, <2>1, ConcatElements
  <2>. QED  BY <2>1, <2>2, NothingInEmpty, GivenKept
<1>7. CASE Admit(f) \/ TokenFails(f)
  BY <1>7 DEF Admit, TokenFails, GivenInv
<1>. QED  BY <1>2, <1>3, <1>4, <1>5, <1>6, <1>7 DEF Flush

LEMMA StepGiven == AccountInv /\ GivenInv /\ [Next]_vars => GivenInv'
<1>. SUFFICES ASSUME AccountInv, GivenInv, [Next]_vars PROVE GivenInv'
  OBVIOUS
<1>1. ASSUME UNCHANGED <<queue, batch, rest, accepted>>, stop' \in BOOLEAN PROVE GivenInv'
  BY <1>1 DEF GivenInv
<1>2. CASE UNCHANGED vars
  BY <1>1, <1>2 DEF vars, flushVars, GivenInv
<1>3. CASE Cool \/ Wake \/ Close \/ LastFlush
  BY <1>1, <1>3 DEF Cool, Wake, Close, LastFlush, flushVars, GivenInv
<1>4. CASE SendAsync
  <2>1. /\ accepted' = accepted + 1 /\ accepted' \in 0 .. Accepted
        /\ queue' = Append(queue, accepted + 1) /\ UNCHANGED <<batch, rest, stop>>
    BY <1>4, ClientAssumption DEF SendAsync, GivenInv
  <2>2. Elements(queue') = Elements(queue) \union {accepted + 1} /\ accepted \in Nat
    BY <2>1, AppendElements DEF AccountInv, Typed
  <2>3. 1 .. accepted \subseteq 1 .. accepted' /\ accepted + 1 \in 1 .. accepted'
    BY <2>1, <2>2
  <2>. QED  BY <2>1, <2>2, <2>3 DEF GivenInv
<1>5. ASSUME NEW s \in Sender, Call(s) \/ Answer(s) PROVE GivenInv'
  BY <1>1, <1>5 DEF Call, Answer, flushVars, GivenInv
<1>. QED  BY <1>2, <1>3, <1>4, <1>5, FlushGiven DEF Next

LEMMA StepBreaker == BreakerInv /\ [Next]_vars => BreakerInv'
<1>. SUFFICES ASSUME BreakerInv, [Next]_vars PROVE BreakerInv'
  OBVIOUS
<1>. USE ClientAssumption
<1>1. /\ failures \in Nat /\ failures <= Threshold
      /\ cooled \in BOOLEAN /\ open \in BOOLEAN /\ (open <=> failures = Threshold)
      /\ Threshold \in Nat /\ Threshold > 0
  BY DEF BreakerInv
<1>2. ASSUME Pass \/ Failure \/ Success, sender' \in [Sender -> {"idle", "post"}]
      PROVE  BreakerInv'
  <2>1. ASSUME failures' \in 0 .. Threshold, cooled' \in BOOLEAN, open' \in BOOLEAN,
               open' <=> failures' = Threshold
        PROVE  BreakerInv'
    BY <1>2, <2>1, Zenon DEF BreakerInv
  <2>2. CASE Pass
    <3>1. open' = FALSE /\ cooled' \in BOOLEAN /\ failures' = IF open THEN 0 ELSE failures
      BY <1>1, <2>2 DEF Pass
    <3>2. failures' \in 0 .. Threshold /\ failures' # Threshold
      BY <1>1, <3>1
    <3>. QED  BY <2>1, <3>1, <3>2, Zenon
  <2>3. CASE Failure
    <3>1. /\ failures' = (IF failures < Threshold THEN failures + 1 ELSE failures)
          /\ cooled' = FALSE /\ open' = (open \/ failures + 1 >= Threshold)
      BY <2>3 DEF Failure
    <3>2. CASE failures + 1 >= Threshold
      <4>1. failures' = Threshold /\ failures' \in 0 .. Threshold
        BY <1>1, <3>1, <3>2
      <4>. QED  BY <2>1, <3>1, <3>2, <4>1, Zenon
    <3>3. CASE ~ (failures + 1 >= Threshold)
      <4>1. failures' # Threshold /\ failures # Threshold /\ failures' \in 0 .. Threshold
        BY <1>1, <3>1, <3>3
      <4>. QED  BY <1>1, <2>1, <3>1, <3>3, <4>1, Zenon
    <3>. QED  BY <3>2, <3>3
  <2>4. CASE Success
    <3>1. failures' = 0 /\ open' = FALSE /\ cooled' \in BOOLEAN
      BY <1>1, <2>4 DEF Success
    <3>2. failures' \in 0 .. Threshold /\ failures' # Threshold
      BY <1>1, <3>1
    <3>. QED  BY <2>1, <3>1, <3>2, Zenon
  <2>. QED  BY <1>2, <2>2, <2>3, <2>4
<1>3. ASSUME NEW s \in Sender, Call(s) \/ Answer(s) PROVE BreakerInv'
  BY <1>2, <1>3 DEF Call, Answer, BreakerInv
<1>4. ASSUME NEW f \in Flusher, Flush(f) PROVE BreakerInv'
  <2>1. CASE Admit(f) \/ Post(f)
    BY <1>2, <2>1 DEF Admit, Post, BreakerInv
  <2>2. CASE ~ (Admit(f) \/ Post(f))
    BY <1>4, <2>2 DEF Flush, Take, Cut, Keep, Refuse, TokenFails, PutBack, breakerVars,
                      BreakerInv
  <2>. QED  BY <2>1, <2>2
<1>5. CASE Cool
  BY <1>5 DEF Cool, BreakerInv
<1>6. CASE Wake \/ Close \/ LastFlush \/ SendAsync \/ UNCHANGED vars
  BY <1>6 DEF Wake, Close, LastFlush, SendAsync, vars, breakerVars, BreakerInv
<1>. QED  BY <1>3, <1>4, <1>5, <1>6 DEF Next

LEMMA ClientInvariant == Spec => [](AccountInv /\ GivenInv /\ BreakerInv)
<1>1. ASSUME Init PROVE GivenInv
  <2>1. accepted = 0 /\ queue = <<>> /\ \A f \in Flusher : batch[f] = <<>> /\ rest[f] = <<>>
    BY <1>1 DEF Init
  <2>2. stop \in BOOLEAN
    BY <1>1, Zenon DEF Init
  <2>. QED  BY <2>1, <2>2, NothingInEmpty, ClientAssumption DEF GivenInv
<1>2. ASSUME Init PROVE BreakerInv
  <2>1. failures = 0 /\ failures \in 0 .. Threshold /\ failures # Threshold
    BY <1>2, ClientAssumption DEF Init
  <2>2. sender \in [Sender -> {"idle", "post"}]
    BY <1>2 DEF Init
  <2>. QED  BY <1>2, <2>1, <2>2, Zenon DEF Init, BreakerInv
<1>. QED  BY <1>1, <1>2, InitAccounts, StepAccounts, StepGiven, StepBreaker, PTL DEF Spec

\* However the threads cut, replace and put back the queue, nothing is in it that
\* send_event_async was not given.
THEOREM NothingIsMadeUp == Spec => []ClientsTypeOK
<1>1. AccountInv /\ GivenInv /\ BreakerInv => ClientsTypeOK
  BY ClientAssumption DEF AccountInv, Typed, GivenInv, BreakerInv, ClientsTypeOK
<1>. QED  BY <1>1, ClientInvariant, PTL

\* However many threads pass the breaker at once, it is open exactly as long as it has counted
\* as many failures as its threshold since the last success or the last time it let one try.
THEOREM OpenAtThreshold == Spec => [](open <=> failures = Threshold)
<1>1. BreakerInv => (open <=> failures = Threshold)
  BY DEF BreakerInv
<1>. QED  BY <1>1, ClientInvariant, PTL

=============================================================================
