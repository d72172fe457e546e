------------------------- MODULE QuantizationProofs -------------------------
(***************************************************************************)
(* For any values, seeds and number of operations: the generator of the    *)
(* stochastic quantizer never dies, and what was calibrated fits.          *)
(***************************************************************************)
EXTENDS Quantization, FiniteSetTheorems, Recursion, TLAPS

Alive == {w \in SUBSET (0 .. 31) : w # {}}

(* A word that is not zero is not its own shift: following a one by the    *)
(* distance of the shift leads out of the word.  So no xorshift is zero.   *)
LEMMA LeftShiftMoves ==
  ASSUME NEW w \in SUBSET (0 .. 31), w # {}, NEW n \in {5, 13}
  PROVE  Xor(w, ShiftLeft(w, n)) \in Alive
<1>1. Xor(w, ShiftLeft(w, n)) \in SUBSET (0 .. 31)
  BY DEF Xor, ShiftLeft
<1>2. SUFFICES ASSUME Xor(w, ShiftLeft(w, n)) = {} PROVE FALSE
  BY <1>1 DEF Alive
<1>3. ASSUME NEW b \in w PROVE b - n \in w
  BY <1>2, <1>3 DEF Xor, ShiftLeft
<1>4. PICK b \in w : TRUE
  OBVIOUS
<1>5. b - n \in w /\ b - n - n \in w /\ b - n - n - n \in w
  BY <1>3, <1>4
<1>6. /\ b - n - n - n - n \in w /\ b - n - n - n - n - n \in w
      /\ b - n - n - n - n - n - n \in w /\ b - n - n - n - n - n - n - n \in w
  BY <1>3, <1>5
<1>7. QED
  BY <1>6

LEMMA RightShiftMoves ==
  ASSUME NEW w \in SUBSET (0 .. 31), w # {}
  PROVE  Xor(w, ShiftRight(w, 17)) \in Alive
<1>1. Xor(w, ShiftRight(w, 17)) \in SUBSET (0 .. 31)
  BY DEF Xor, ShiftRight
<1>2. SUFFICES ASSUME Xor(w, ShiftRight(w, 17)) = {} PROVE FALSE
  BY <1>1 DEF Alive
<1>3. ASSUME NEW b \in w PROVE b + 17 \in w
  BY <1>2, <1>3 DEF Xor, ShiftRight
<1>4. PICK b \in w : TRUE
  OBVIOUS
<1>5. b + 17 \in w /\ b + 17 + 17 \in w
  BY <1>3, <1>4
<1>6. QED
  BY <1>5

LEMMA NextWordAlive ==
  ASSUME NEW w \in SUBSET (0 .. 31), w # {}
  PROVE  NextWord(w) \in Alive
<1> DEFINE x == Xor(w, ShiftLeft(w, 13))
           y == Xor(x, ShiftRight(x, 17))
<1>1. x \in Alive
  BY LeftShiftMoves
<1>2. y \in Alive
  <2> HIDE DEF x
  <2>1. QED
    BY <1>1, RightShiftMoves DEF Alive
<1>3. Xor(y, ShiftLeft(y, 5)) \in Alive
  <2> HIDE DEF x, y
  <2>1. QED
    BY <1>2, LeftShiftMoves DEF Alive
<1>4. QED
  BY <1>3 DEF NextWord

(* The generator of the stochastic quantizer (autograd.rs:7-18) is never   *)
(* zero, for any seed and after any number of draws.                       *)
THEOREM GeneratorNeverDies == Spec => []GeneratorAlive
<1>1. Init => GeneratorAlive
  <2>1. \A seed \in Seeds : New(seed) \subseteq 0 .. 31 /\ New(seed) # {}
    BY QuantizationAssumption DEF New
  <2>2. QED
    BY <2>1 DEF Init, GeneratorAlive
<1>2. GeneratorAlive /\ [Next]_vars => GeneratorAlive'
  <2>1. SUFFICES ASSUME GeneratorAlive, [Next]_vars PROVE GeneratorAlive'
    OBVIOUS
  <2>2. rng' \in {rng, NextWord(rng)}
    BY <2>1 DEF Next, vars, Observe, AskScale, Quantize, QuantizeI8, QuantizeBlock,
                QuantizeBlockPanics, QuantizeStochastic
  <2>3. QED
    BY <2>1, <2>2, NextWordAlive DEF GeneratorAlive, Alive
<1>3. QED
  BY <1>1, <1>2, PTL DEF Spec
-----------------------------------------------------------------------------
(* Division, the larger of two integers, and rounding. *)
LEMMA Division ==
  ASSUME NEW a \in Nat, NEW b \in Nat \ {0}
  PROVE  /\ a \div b \in Nat
         /\ (a \div b) * b <= a /\ a < (a \div b) * b + b
OBVIOUS

LEMMA LargerOfTwo ==
  ASSUME NEW a \in Int, NEW b \in Int
  PROVE  Max({a, b}) \in {a, b} /\ a <= Max({a, b}) /\ b <= Max({a, b})
<1>1. \E x \in {a, b} : \A y \in {a, b} : x >= y
  OBVIOUS
<1>2. Max({a, b}) \in {a, b} /\ \A y \in {a, b} : Max({a, b}) >= y
  BY <1>1 DEF Max
<1>3. QED
  BY <1>2

(* A product that is in the range of i16 under the denominator of its      *)
(* scale goes to fixed point without saturation, to half a step.           *)
LEMMA ProductFits ==
  ASSUME NEW x \in Int, NEW d \in Nat \ {0}, Abs(x) <= 32767 * d
  PROVE  LET q == Sat16(Round(x, d)) IN 2 * Abs(q * d - x) <= d
<1> DEFINE n == Abs(x)
           near == (2 * n + d) \div (2 * d)
<1>1. n \in Nat /\ 32767 * d \in Nat
  BY DEF Abs
<1>2. /\ near \in Nat
      /\ near * (2 * d) <= 2 * n + d /\ 2 * n + d < near * (2 * d) + 2 * d
  <2> DEFINE a == 2 * n + d
             b == 2 * d
  <2>1. a \in Nat /\ b \in Nat \ {0}
    BY <1>1
  <2>2. /\ a \div b \in Nat
        /\ (a \div b) * b <= a /\ a < (a \div b) * b + b
    <3> HIDE DEF a, b
    <3>1. QED
      BY <2>1, Division
  <2>3. near = a \div b
    OBVIOUS
  <2>4. near \in Nat /\ near * b <= a /\ a < near * b + b
    <3> HIDE DEF near, a, b
    <3>1. QED
      BY <2>2, <2>3
  <2>5. QED
    <3> HIDE DEF near, n
    <3>1. QED
      BY <2>4
<1>3. near <= 32767
  <2> HIDE DEF near
  <2>1. 2 * n + d < 32768 * (2 * d)
    BY <1>1
  <2>2. SUFFICES ASSUME near >= 32768 PROVE FALSE
    BY <1>2
  <2>3. near * (2 * d) >= 32768 * (2 * d)
    BY <1>2, <2>2
  <2>4. near * (2 * d) \in Nat
    BY <1>2
  <2>5. QED
    BY <1>1, <1>2, <2>1, <2>3, <2>4
<1>4. Sat16(Round(x, d)) = IF x < 0 THEN -near ELSE near
  <2>1. Round(x, d) = IF x < 0 THEN -near ELSE near
    BY DEF Round
  <2> HIDE DEF near
  <2>2. QED
    BY <1>2, <1>3, <2>1 DEF Sat16, Clamp, I16Min, I16Max
<1>5. near * d \in Nat /\ -d <= 2 * (near * d - n) /\ 2 * (near * d - n) <= d
  <2> HIDE DEF near, n
  <2>1. near * d \in Nat /\ near * (2 * d) = 2 * (near * d)
    BY <1>2
  <2>2. QED
    BY <1>1, <1>2, <2>1
<1>6. \A y \in Int : -d <= 2 * y /\ 2 * y <= d => 2 * Abs(y) <= d
  BY DEF Abs
<1>7. CASE x < 0
  <2>1. n = -x
    BY <1>7 DEF Abs
  <2> HIDE DEF near, n
  <2>2. (-near) * d = -(near * d)
    BY <1>2
  <2>3. /\ (-near) * d - x \in Int
        /\ -d <= 2 * ((-near) * d - x) /\ 2 * ((-near) * d - x) <= d
    BY <1>5, <2>1, <2>2
  <2>4. QED
    BY <1>4, <1>6, <1>7, <2>3
<1>8. CASE ~(x < 0)
  <2>1. n = x
    BY <1>8 DEF Abs
  <2> HIDE DEF near, n
  <2>2. near * d - x \in Int /\ -d <= 2 * (near * d - x) /\ 2 * (near * d - x) <= d
    BY <1>5, <2>1
  <2>3. QED
    BY <1>4, <1>6, <1>8, <2>2
<1>9. QED
  BY <1>7, <1>8

(* The same of a value not larger than the denominator of a full scale.    *)
LEMMA FitsTheScale ==
  ASSUME NEW x \in Int, NEW d \in Nat \ {0}, Abs(x) <= d
  PROVE  LET q == Sat16(Round(x * 32767, d)) IN 2 * Abs(q * d - x * 32767) <= d
<1> DEFINE p == x * 32767
<1>1. p \in Int /\ Abs(p) <= 32767 * d
  BY DEF Abs
<1>2. LET q == Sat16(Round(p, d)) IN 2 * Abs(q * d - p) <= d
  <2> HIDE DEF p
  <2>1. QED
    BY <1>1, ProductFits
<1>3. QED
  BY <1>2

-----------------------------------------------------------------------------
(* The range of the calibrator is that of the values observed, NaN apart.  *)
(* The scale of the client is the default one when one value had been      *)
(* observed before it was got; of several, one of them above Tiny, it      *)
(* takes all inside the range of i16.  A conversion used the scale it      *)
(* names.                                                                  *)
RangeInv ==
  /\ min \in Int /\ max \in Int
  /\ seen \subseteq Values \union {NaN} /\ covered \subseteq Values \union {NaN}
  /\ IF seen \ {NaN} = {} THEN min = Top /\ max = -Top
                          ELSE min \in seen \ {NaN} /\ max \in seen \ {NaN}
  /\ \A x \in seen \ {NaN} : min <= x /\ x <= max

ScaleInv ==
  \A x \in covered \ {NaN} :
    /\ covered \ {NaN} = {x} => scale = DefaultScale
    /\ \A y, z \in covered \ {NaN} :
         x # y /\ Abs(z) > Tiny =>
           scale.num = 32767 /\ scale.den \in Nat \ {0} /\ Abs(x) <= scale.den

LastInv == last.kind = "i16" => last.q = ToI16Scaled(last.x, last.sc)

QInv == RangeInv /\ ScaleInv /\ LastInv

(* What get_scale returns for a range with two different values in it, or  *)
(* for a single value.                                                     *)
LEMMA ScaleOfRange ==
  ASSUME min \in Int, max \in Int,
         NEW x \in Int, NEW y \in Int, NEW z \in Int, x # y, Abs(z) > Tiny,
         min <= x, x <= max, min <= y, y <= max, min <= z, z <= max
  PROVE  /\ GetScale.num = 32767 /\ GetScale.den \in Nat \ {0}
         /\ Abs(x) <= GetScale.den
<1> DEFINE larger == Max({Abs(max), Abs(min)})
<1>1. Abs(max) \in Nat /\ Abs(min) \in Nat /\ Tiny \in Nat
  BY QuantizationAssumption DEF Abs
<1>2. larger \in Nat /\ Abs(max) <= larger /\ Abs(min) <= larger
  <2>1. Abs(max) \in Int /\ Abs(min) \in Int
    BY <1>1
  <2>2. /\ larger \in {Abs(max), Abs(min)}
        /\ Abs(max) <= larger /\ Abs(min) <= larger
    BY <2>1, LargerOfTwo
  <2>3. QED
    BY <1>1, <2>2
<1>3. max # min
  OBVIOUS
<1>4. \A a \in {x, z} : Abs(a) \in Nat /\ (Abs(a) <= Abs(max) \/ Abs(a) <= Abs(min))
  BY DEF Abs
<1>5. Abs(x) <= larger /\ Tiny < larger
  <2> HIDE DEF larger
  <2>1. QED
    BY <1>1, <1>2, <1>4
<1>6. GetScale = [num |-> 32767, den |-> larger]
  <2>1. GetScale = FullScale(larger)
    BY <1>3 DEF GetScale
  <2>2. QED
    <3> HIDE DEF larger
    <3>1. QED
      BY <1>1, <1>2, <1>5, <2>1 DEF FullScale
<1>7. QED
  <2> HIDE DEF larger
  <2>1. QED
    BY <1>1, <1>2, <1>5, <1>6

LEMMA InitQInv == Init => QInv
BY QuantizationAssumption DEF Init, QInv, RangeInv, ScaleInv, LastInv, None

(* A value is less than Top, whose scale takes it to zero.                 *)
LEMMA ValuesBelowTop ==
  ASSUME NEW x \in Values
  PROVE  x \in Int /\ -Top < x /\ x < Top
<1>1. x \in Int /\ 65534 * Abs(x) < Top /\ Top \in Nat
  BY QuantizationAssumption
<1>2. QED
  BY <1>1 DEF Abs

LEMMA ObserveKeepsQInv ==
  ASSUME QInv, NEW x \in Values \union {NaN}, Observe(x)
  PROVE  QInv'
<1>1. RangeInv'
  <2>1. /\ seen' \subseteq Values \union {NaN} /\ covered' \subseteq Values \union {NaN}
        /\ seen' = seen \union {x}
    BY DEF QInv, RangeInv, Observe, client
  <2>2. CASE x = NaN
    <3>1. min' = min /\ max' = max /\ seen' \ {NaN} = seen \ {NaN}
      BY <2>1, <2>2 DEF Observe
    <3>2. QED
      BY <2>1, <3>1 DEF QInv, RangeInv
  <2>3. CASE x # NaN
    <3>1. x \in Int /\ -Top < x /\ x < Top /\ Top \in Nat
      BY <2>3, ValuesBelowTop, QuantizationAssumption
    <3>2. /\ min' = IF x < min THEN x ELSE min
          /\ max' = IF x > max THEN x ELSE max
          /\ seen' \ {NaN} = (seen \ {NaN}) \union {x}
      BY <2>1, <2>3 DEF Observe
    <3>3. min \in Int /\ max \in Int
      BY DEF QInv, RangeInv
    <3>4. /\ min' \in Int /\ max' \in Int
          /\ min' <= min /\ max <= max' /\ min' <= x /\ x <= max'
      BY <3>1, <3>2, <3>3
    <3>5. \A y \in seen' \ {NaN} : min' <= y /\ y <= max'
      <4>1. SUFFICES ASSUME NEW y \in seen \ {NaN} PROVE min' <= y /\ y <= max'
        BY <3>2, <3>4
      <4>2. y \in Int /\ min <= y /\ y <= max
        BY QuantizationAssumption DEF QInv, RangeInv
      <4>3. QED
        BY <3>3, <3>4, <4>2
    <3>6. min' \in seen' \ {NaN} /\ max' \in seen' \ {NaN}
      <4>1. CASE seen \ {NaN} = {}
        <5>1. min = Top /\ max = -Top
          BY <4>1 DEF QInv, RangeInv
        <5>2. min' = x /\ max' = x
          BY <3>1, <3>2, <5>1
        <5>3. QED
          BY <3>2, <5>2
      <4>2. CASE seen \ {NaN} # {}
        <5>1. min \in seen \ {NaN} /\ max \in seen \ {NaN}
          BY <4>2 DEF QInv, RangeInv
        <5>2. QED
          BY <3>2, <5>1
      <4>3. QED
        BY <4>1, <4>2
    <3>7. seen' \ {NaN} # {}
      BY <3>6
    <3>8. QED
      BY <2>1, <3>4, <3>5, <3>6, <3>7 DEF RangeInv
  <2>4. QED
    BY <2>2, <2>3
<1>2. (ScaleInv /\ LastInv)'
  BY DEF QInv, ScaleInv, LastInv, Observe, client
<1>3. QED
  BY <1>1, <1>2 DEF QInv

LEMMA AskKeepsQInv ==
  ASSUME QInv, AskScale
  PROVE  QInv'
<1>1. RangeInv' /\ LastInv'
  BY DEF QInv, RangeInv, LastInv, AskScale, calibrator
<1>2. ScaleInv'
  <2>1. scale' = GetScale /\ covered' = seen
    BY DEF AskScale
  <2>2. ASSUME NEW x \in seen \ {NaN}, seen \ {NaN} = {x}
        PROVE  GetScale = DefaultScale
    <3>1. min = x /\ max = x
      BY <2>2 DEF QInv, RangeInv
    <3>2. QED
      BY <3>1 DEF GetScale
  <2>3. ASSUME NEW x \in seen \ {NaN}, NEW y \in seen \ {NaN}, NEW z \in seen \ {NaN},
               x # y, Abs(z) > Tiny
        PROVE  /\ GetScale.num = 32767 /\ GetScale.den \in Nat \ {0}
               /\ Abs(x) <= GetScale.den
    <3>1. \A a \in {x, y, z} : a \in Int /\ min <= a /\ a <= max
      BY QuantizationAssumption DEF QInv, RangeInv
    <3>2. min \in Int /\ max \in Int
      BY DEF QInv, RangeInv
    <3>3. QED
      BY <2>3, <3>1, <3>2, ScaleOfRange
  <2>4. QED
    BY <2>1, <2>2, <2>3 DEF ScaleInv
<1>3. QED
  BY <1>1, <1>2 DEF QInv

LEMMA ConversionKeepsQInv ==
  ASSUME QInv, UNCHANGED <<calibrator, client>>, LastInv'
  PROVE  QInv'
BY DEF QInv, RangeInv, ScaleInv, calibrator, client

LEMMA NextKeepsQInv == QInv /\ [Next]_vars => QInv'
<1>1. SUFFICES ASSUME QInv, [Next]_vars PROVE QInv'
  OBVIOUS
<1>2. CASE \E x \in Values \union {NaN} : Observe(x)
  BY <1>1, <1>2, ObserveKeepsQInv
<1>3. CASE AskScale
  BY <1>1, <1>3, AskKeepsQInv
<1>4. CASE \E x \in Values \union {NaN} : Quantize(x)
  <2>1. UNCHANGED <<calibrator, client>> /\ LastInv'
    BY <1>4 DEF Quantize, Converts, LastInv
  <2>2. QED
    BY <1>1, <2>1, ConversionKeepsQInv
<1>5. CASE \E x \in Values \union {NaN} : QuantizeI8(x)
  <2>1. UNCHANGED <<calibrator, client>> /\ LastInv'
    BY <1>5 DEF QuantizeI8, Converts, LastInv
  <2>2. QED
    BY <1>1, <2>1, ConversionKeepsQInv
<1>6. CASE \E block \in Blocks : QuantizeBlock(block)
  <2>1. UNCHANGED <<calibrator, client>> /\ LastInv'
    BY <1>6 DEF QuantizeBlock, Converts, LastInv
  <2>2. QED
    BY <1>1, <2>1, ConversionKeepsQInv
<1>7. CASE \E block \in Blocks : QuantizeBlockPanics(block)
  <2>1. UNCHANGED <<calibrator, client>> /\ LastInv'
    BY <1>7 DEF QuantizeBlockPanics, Converts, LastInv
  <2>2. QED
    BY <1>1, <2>1, ConversionKeepsQInv
<1>8. CASE \E x \in Values, sc \in StochScales : QuantizeStochastic(x, sc)
  <2>1. UNCHANGED <<calibrator, client>> /\ LastInv'
    BY <1>8 DEF QuantizeStochastic, Converts, LastInv
  <2>2. QED
    BY <1>1, <2>1, ConversionKeepsQInv
<1>9. CASE UNCHANGED vars
  <2>1. UNCHANGED <<calibrator, client>> /\ LastInv'
    BY <1>1, <1>9 DEF QInv, LastInv, vars
  <2>2. QED
    BY <1>1, <2>1, ConversionKeepsQInv
<1>10. QED
  BY <1>1, <1>2, <1>3, <1>4, <1>5, <1>6, <1>7, <1>8, <1>9 DEF Next

(* A scale got from the calibrator (quant.rs:128) takes the values that    *)
(* were observed before to fixed point without saturation, to half a step, *)
(* whatever was observed or converted since: one value in the range of the *)
(* default scale, or several of which one is large enough for the scale    *)
(* not to overflow.                                                        *)
THEOREM CalibratedValuesFit == Spec => []ObservedFits
<1>1. QInv => ObservedFits
  <2> DEFINE known == covered \ {NaN}
  <2>1. SUFFICES ASSUME QInv, last.kind = "i16", last.sc = scale, last.x \in known,
                        IF known = {last.x} THEN 256 * Abs(last.x) <= 32767 * Unit
                                            ELSE \E y \in known : Abs(y) > Tiny
                 PROVE  Accurate(last.q, last.x, last.sc)
    BY DEF ObservedFits
  <2>2. last.x \in Int /\ last.x # NaN
    <3>1. last.x \in Values /\ last.x # NaN
      BY <2>1 DEF QInv, RangeInv
    <3>2. Values \subseteq Int
      BY QuantizationAssumption
    <3>3. QED
      BY <3>1, <3>2
  <2>3. last.q = ToI16Scaled(last.x, scale)
    BY <2>1 DEF QInv, LastInv
  <2>4. CASE known = {last.x}
    <3>1. scale = [num |-> 256, den |-> Unit] /\ Unit \in Nat \ {0}
      BY <2>1, <2>4, QuantizationAssumption DEF QInv, ScaleInv, DefaultScale
    <3>2. scale # Infinite
      BY <3>1 DEF Infinite
    <3>3. last.q = Sat16(Round(last.x * 256, Unit))
      BY <2>2, <2>3, <3>1, <3>2 DEF ToI16Scaled
    <3>4. last.x * 256 \in Int /\ Abs(last.x * 256) <= 32767 * Unit
      <4>1. Abs(last.x * 256) = 256 * Abs(last.x)
        BY <2>2 DEF Abs
      <4>2. QED
        BY <2>1, <2>2, <2>4, <4>1
    <3>5. 2 * Abs(Sat16(Round(last.x * 256, Unit)) * Unit - last.x * 256) <= Unit
      BY <3>1, <3>4, ProductFits
    <3>6. QED
      BY <2>1, <3>1, <3>3, <3>5 DEF Accurate
  <2>5. CASE known # {last.x}
    <3>1. PICK y \in known : y # last.x
      BY <2>1, <2>5
    <3>2. PICK z \in known : Abs(z) > Tiny
      BY <2>1, <2>5
    <3>3. scale.num = 32767 /\ scale.den \in Nat \ {0} /\ Abs(last.x) <= scale.den
      BY <2>1, <3>1, <3>2 DEF QInv, ScaleInv
    <3>4. scale # Infinite
      BY <3>3 DEF Infinite
    <3>5. last.q = Sat16(Round(last.x * 32767, scale.den))
      BY <2>2, <2>3, <3>3, <3>4 DEF ToI16Scaled
    <3>6. 2 * Abs(last.q * scale.den - last.x * 32767) <= scale.den
      BY <2>2, <3>3, <3>5, FitsTheScale
    <3>7. QED
      BY <2>1, <3>3, <3>6 DEF Accurate
  <2>6. QED
    BY <2>4, <2>5
<1>2. QED
  BY <1>1, InitQInv, NextKeepsQInv, PTL DEF Spec

-----------------------------------------------------------------------------
(* The largest of the values of a sequence of natural numbers, and zero.   *)
LEMMA LargestValue ==
  ASSUME NEW n \in Nat, NEW f \in [1 .. n -> Nat],
         NEW S, S = {0} \union {f[k] : k \in 1 .. n}
  PROVE  Max(S) \in S /\ \A y \in S : y <= Max(S)
<1> DEFINE First(m) == {0} \union {f[k] : k \in 1 .. m}
           Good == {m \in Nat : m <= n => \E x \in First(m) : \A y \in First(m) : x >= y}
<1>1. 0 \in Good
  OBVIOUS
<1>2. ASSUME NEW m \in Nat, m \in Good PROVE m + 1 \in Good
  <2>1. SUFFICES ASSUME m + 1 <= n
                 PROVE  \E x \in First(m + 1) : \A y \in First(m + 1) : x >= y
    OBVIOUS
  <2>2. PICK x \in First(m) : \A y \in First(m) : x >= y
    BY <1>2, <2>1
  <2>3. First(m + 1) = First(m) \union {f[m + 1]}
    BY <2>1
  <2>4. x \in Nat /\ f[m + 1] \in Nat /\ First(m) \subseteq Nat
    BY <2>1
  <2>5. CASE f[m + 1] > x
    <3> HIDE DEF First
    <3>1. \A y \in First(m + 1) : f[m + 1] >= y
      BY <2>2, <2>3, <2>4, <2>5
    <3>2. QED
      BY <2>3, <3>1
  <2>6. CASE ~(f[m + 1] > x)
    <3> HIDE DEF First
    <3>1. \A y \in First(m + 1) : x >= y
      BY <2>2, <2>3, <2>4, <2>6
    <3>2. QED
      BY <2>2, <2>3, <3>1
  <2>7. QED
    BY <2>5, <2>6
<1>3. Nat \subseteq Good
  <2> HIDE DEF Good
  <2>1. QED
    BY <1>1, <1>2, SetInduction
<1>4. \E x \in S : \A y \in S : x >= y
  <2>1. S = First(n)
    OBVIOUS
  <2>2. n \in Good
    <3> HIDE DEF Good
    <3>1. QED
      BY <1>3
  <2>3. QED
    <3> HIDE DEF First
    <3>1. QED
      BY <2>1, <2>2
<1>5. Max(S) \in S /\ \A y \in S : Max(S) >= y
  BY <1>4 DEF Max
<1>6. S \subseteq Nat
  OBVIOUS
<1>7. QED
  BY <1>5, <1>6

(* The peak of a block is not less than any of its elements, without sign. *)
LEMMA PeakIsLargest ==
  ASSUME NEW block \in Seq(Int \union {NaN})
  PROVE  /\ Peak(block) \in Nat
         /\ \A k \in DOMAIN block : block[k] # NaN =>
              block[k] \in Int /\ Abs(block[k]) <= Peak(block)
<1> DEFINE n == Len(block)
           f == [k \in 1 .. n |-> IF block[k] = NaN THEN 0 ELSE Abs(block[k])]
           S == {0} \union {Abs(block[k]) : k \in {j \in DOMAIN block : block[j] # NaN}}
<1>1. n \in Nat /\ DOMAIN block = 1 .. n /\ \A k \in 1 .. n : block[k] \in Int \union {NaN}
  OBVIOUS
<1>2. f \in [1 .. n -> Nat]
  BY <1>1 DEF Abs
<1>3. S = {0} \union {f[k] : k \in 1 .. n}
  BY <1>1
<1>4. Max(S) \in S /\ \A y \in S : y <= Max(S)
  <2> HIDE DEF S, f, n
  <2>1. QED
    BY <1>1, <1>2, <1>3, LargestValue
<1>5. S \subseteq Nat
  BY <1>1 DEF Abs
<1>6. QED
  BY <1>1, <1>4, <1>5 DEF Peak

(* Zero stays zero under the scale of a block of zeros.                    *)
LEMMA ZeroIsAccurate == Accurate(Sat16(Round(0, Unit)), 0, [num |-> 1, den |-> Unit])
<1>1. Unit \in Nat \ {0}
  BY QuantizationAssumption
<1>2. (0 + Unit) \div (2 * Unit) = 0
  BY <1>1
<1>3. Round(0, Unit) = 0
  BY <1>1, <1>2 DEF Round, Abs
<1>4. Sat16(0) = 0
  BY DEF Sat16, Clamp, I16Min, I16Max
<1>5. QED
  BY <1>1, <1>3, <1>4 DEF Accurate, Abs

(* What the last conversion was of and what came out of it.                *)
ConversionInv ==
  /\ last.kind = "i8" => last.q = ToI8(last.x) /\ last.x \in Values \union {NaN}
  /\ last.kind = "block" =>
       /\ last.x \in Seq(Int \union {NaN}) /\ last.sc = BlockScale(last.x)
       /\ Len(last.x) >= BlockLen
       /\ last.q = [k \in 1 .. BlockLen |-> ToI16Scaled(last.x[k], last.sc)]
  /\ last.kind = "stochastic" =>
       /\ last.x \in Int /\ last.sc \in [num : Int, den : Nat \ {0}]
       /\ \E word : last.q = Stochastic(last.x, last.sc, Low24(word))

LEMMA ConversionInvariant == Spec => []ConversionInv
<1>1. Init => ConversionInv
  BY DEF Init, ConversionInv, None
<1>2. ConversionInv /\ [Next]_vars => ConversionInv'
  <2>1. SUFFICES ASSUME ConversionInv, [Next]_vars PROVE ConversionInv'
    OBVIOUS
  <2>2. CASE UNCHANGED last
    BY <2>1, <2>2 DEF ConversionInv
  <2>3. ASSUME NEW x \in Values \union {NaN}, Quantize(x) PROVE ConversionInv'
    BY <2>3 DEF Quantize, Converts, ConversionInv
  <2>4. ASSUME NEW x \in Values \union {NaN}, QuantizeI8(x) PROVE ConversionInv'
    BY <2>4 DEF QuantizeI8, Converts, ConversionInv
  <2>5. ASSUME NEW block \in Blocks, QuantizeBlock(block) PROVE ConversionInv'
    <3>1. block \in Seq(Int \union {NaN})
      BY QuantizationAssumption
    <3>2. QED
      BY <2>5, <3>1 DEF QuantizeBlock, Converts, ConversionInv
  <2>6. ASSUME NEW block \in Blocks, QuantizeBlockPanics(block) PROVE ConversionInv'
    BY <2>6 DEF QuantizeBlockPanics, Converts, ConversionInv
  <2>7. ASSUME NEW x \in Values, NEW sc \in StochScales, QuantizeStochastic(x, sc)
        PROVE  ConversionInv'
    <3>1. x \in Int /\ sc \in [num : Int, den : Nat \ {0}]
      BY QuantizationAssumption
    <3>2. last' = [kind |-> "stochastic", x |-> x, sc |-> sc,
                   q |-> Stochastic(x, sc, Low24(rng'))]
      BY <2>7 DEF QuantizeStochastic, Converts
    <3>3. QED
      BY <3>1, <3>2 DEF ConversionInv
  <2>8. QED
    BY <2>1, <2>2, <2>3, <2>4, <2>5, <2>6, <2>7 DEF Next, vars, Observe, AskScale
<1>3. QED
  BY <1>1, <1>2, PTL DEF Spec

(* The elements of a block that is quantized by its own scale              *)
(* (quant.rs:81-94) are exact to half a step of it, however large the peak *)
(* of the slice is, if it is zero or large enough for the scale not to     *)
(* overflow.                                                               *)
THEOREM BlocksFit == Spec => []BlockFits
<1>1. ConversionInv => BlockFits
  <2>1. SUFFICES ASSUME ConversionInv, last.kind = "block",
                        Peak(last.x) = 0 \/ Peak(last.x) > Tiny,
                        NEW k \in DOMAIN last.q, last.x[k] # NaN
                 PROVE  Accurate(last.q[k], last.x[k], last.sc)
    BY DEF BlockFits
  <2> DEFINE x == last.x[k]
             peak == Peak(last.x)
  <2>2. /\ last.x \in Seq(Int \union {NaN}) /\ last.sc = BlockScale(last.x)
        /\ k \in DOMAIN last.x /\ last.q[k] = ToI16Scaled(x, last.sc)
    <3>1. /\ last.x \in Seq(Int \union {NaN}) /\ last.sc = BlockScale(last.x)
          /\ Len(last.x) >= BlockLen
          /\ last.q = [j \in 1 .. BlockLen |-> ToI16Scaled(last.x[j], last.sc)]
      BY <2>1 DEF ConversionInv
    <3>2. BlockLen \in Nat /\ k \in 1 .. BlockLen
      BY <2>1, <3>1, QuantizationAssumption
    <3>3. k \in DOMAIN last.x
      BY <3>1, <3>2
    <3>4. QED
      BY <3>1, <3>2, <3>3
  <2>3. peak \in Nat /\ x \in Int /\ Abs(x) <= peak
    BY <2>1, <2>2, PeakIsLargest
  <2>4. CASE peak > 0
    <3>1. last.sc = [num |-> 32767, den |-> peak]
      <4>1. Tiny \in Nat /\ ~(peak <= Tiny)
        BY <2>1, <2>3, <2>4, QuantizationAssumption
      <4>2. QED
        BY <2>2, <2>4, <4>1 DEF BlockScale, FullScale
    <3>2. last.sc # Infinite
      BY <2>3, <2>4, <3>1 DEF Infinite
    <3>3. last.q[k] = Sat16(Round(x * 32767, peak))
      BY <2>1, <2>2, <3>1, <3>2 DEF ToI16Scaled
    <3>4. 2 * Abs(Sat16(Round(x * 32767, peak)) * peak - x * 32767) <= peak
      <4> HIDE DEF x, peak
      <4>1. QED
        BY <2>3, <2>4, FitsTheScale
    <3>5. QED
      BY <3>1, <3>3, <3>4 DEF Accurate
  <2>5. CASE peak = 0
    <3>1. last.sc = [num |-> 1, den |-> Unit] /\ Unit \in Nat \ {0}
      BY <2>2, <2>5, QuantizationAssumption DEF BlockScale
    <3>2. x = 0 /\ last.sc # Infinite
      BY <2>3, <2>5, <3>1 DEF Abs, Infinite
    <3>3. last.q[k] = Sat16(Round(0, Unit))
      BY <2>1, <2>2, <3>1, <3>2 DEF ToI16Scaled
    <3>4. QED
      BY <3>1, <3>2, <3>3, ZeroIsAccurate
  <2>6. QED
    BY <2>3, <2>4, <2>5
<1>2. QED
  BY <1>1, ConversionInvariant, PTL

-----------------------------------------------------------------------------
(* Rounding to 64 and to 256 parts of one: what n is to p under d, 4 * n   *)
(* is to r, and r is at most 2 off from 4 * p.                             *)
LEMMA FinerByFour ==
  ASSUME NEW n \in Nat, NEW d \in Nat \ {0}
  PROVE  LET p == (2 * n + d) \div (2 * d)
             r == (2 * (4 * n) + d) \div (2 * d)
         IN  p \in Nat /\ r \in Nat /\ r <= 4 * p + 2 /\ 4 * p <= r + 2
<1> DEFINE p == (2 * n + d) \div (2 * d)
           r == (2 * (4 * n) + d) \div (2 * d)
           e == 2 * d
<1>1. e \in Nat \ {0} /\ 2 * n + d \in Nat /\ 2 * (4 * n) + d \in Nat
  OBVIOUS
<1>2. /\ p \in Nat /\ p * e <= 2 * n + d /\ 2 * n + d < p * e + e
      /\ r \in Nat /\ r * e <= 2 * (4 * n) + d /\ 2 * (4 * n) + d < r * e + e
  <2> DEFINE a == 2 * n + d
             b == 2 * (4 * n) + d
  <2>1. p = a \div e /\ r = b \div e
    OBVIOUS
  <2>2. a \in Nat /\ b \in Nat /\ e \in Nat \ {0}
    BY <1>1
  <2>3. /\ a \div e \in Nat /\ (a \div e) * e <= a /\ a < (a \div e) * e + e
        /\ b \div e \in Nat /\ (b \div e) * e <= b /\ b < (b \div e) * e + e
    <3> HIDE DEF a, b, e
    <3>1. QED
      BY <2>2, Division
  <2>4. /\ p \in Nat /\ p * e <= a /\ a < p * e + e
        /\ r \in Nat /\ r * e <= b /\ b < r * e + e
    <3> HIDE DEF a, b, e, p, r
    <3>1. QED
      BY <2>1, <2>3
  <2>5. QED
    <3> HIDE DEF e, p, r
    <3>1. QED
      BY <2>4
<1>3. p * e \in Nat /\ r * e \in Nat /\ (4 * p) * e = 4 * (p * e)
  <2> HIDE DEF p, r, e
  <2>1. QED
    BY <1>1, <1>2
<1>4. r * e < (4 * p) * e + 3 * e /\ (4 * p) * e < r * e + 3 * e
  <2>1. e = 2 * d
    OBVIOUS
  <2> HIDE DEF p, r, e
  <2>2. QED
    BY <1>1, <1>2, <1>3, <2>1
<1>5. r <= 4 * p + 2
  <2> HIDE DEF p, r, e
  <2>1. SUFFICES ASSUME r >= 4 * p + 3 PROVE FALSE
    BY <1>2
  <2>2. r * e >= (4 * p + 3) * e
    BY <1>1, <1>2, <2>1
  <2>3. (4 * p + 3) * e = (4 * p) * e + 3 * e
    BY <1>1, <1>2
  <2>4. (4 * p) * e \in Nat /\ 3 * e \in Nat
    BY <1>1, <1>2
  <2>5. QED
    BY <1>3, <1>4, <2>2, <2>3, <2>4
<1>6. 4 * p <= r + 2
  <2> HIDE DEF p, r, e
  <2>1. SUFFICES ASSUME 4 * p >= r + 3 PROVE FALSE
    BY <1>2
  <2>2. (4 * p) * e >= (r + 3) * e
    BY <1>1, <1>2, <2>1
  <2>3. (r + 3) * e = r * e + 3 * e
    BY <1>1, <1>2
  <2>4. (4 * p) * e \in Nat /\ 3 * e \in Nat
    BY <1>1, <1>2
  <2>5. QED
    BY <1>3, <1>4, <2>2, <2>3, <2>4
<1>7. QED
  BY <1>2, <1>5, <1>6

LEMMA RoundsFinerByFour ==
  ASSUME NEW x \in Int
  PROVE  /\ Round(x * 64, Unit) \in Int /\ Round(x * 256, Unit) \in Int
         /\ Abs(Round(x * 256, Unit) - 4 * Round(x * 64, Unit)) <= 2
<1> DEFINE n == Abs(x) * 64
           p == (2 * n + Unit) \div (2 * Unit)
           r == (2 * (4 * n) + Unit) \div (2 * Unit)
<1>1. Unit \in Nat \ {0}
  BY QuantizationAssumption
<1>2. /\ n \in Nat /\ Abs(x * 64) = n /\ Abs(x * 256) = 4 * n
      /\ (x * 64 < 0 <=> x < 0) /\ (x * 256 < 0 <=> x < 0)
  BY DEF Abs
<1>3. p \in Nat /\ r \in Nat /\ r <= 4 * p + 2 /\ 4 * p <= r + 2
  <2> HIDE DEF n
  <2>1. QED
    BY <1>1, <1>2, FinerByFour
<1>4. /\ Round(x * 64, Unit) = IF x < 0 THEN -p ELSE p
      /\ Round(x * 256, Unit) = IF x < 0 THEN -r ELSE r
  BY <1>2 DEF Round
<1>5. QED
  <2> HIDE DEF p, r
  <2>1. QED
    BY <1>3, <1>4 DEF Abs

(* Saturation to 16 bits before one to 8 bits makes no difference, and     *)
(* neither way from 256 parts of one to 64 is more than one off.           *)
LEMMA CrunchedAgree ==
  ASSUME NEW a \in Int, NEW b \in Int, Abs(a - 4 * b) <= 2
  PROVE  /\ Abs(Sat8(b) - Crunch8(Sat16(a))) <= 1
         /\ Abs(Sat8(b) - CrunchI16ToI8(Sat16(a))) <= 1
<1> DEFINE c == Sat16(a)
<1>1. /\ c \in Int /\ -32768 <= c /\ c <= 32767
      /\ c = a \/ (c = 32767 /\ a > 32767) \/ (c = -32768 /\ a < -32768)
  BY DEF Sat16, Clamp, I16Min, I16Max
<1>2. -2 <= a - 4 * b /\ a - 4 * b <= 2
  BY DEF Abs
<1>3. Abs(Sat8(b) - Sat8(c \div 4)) <= 1
  <2> HIDE DEF c
  <2>1. c \div 4 \in Int /\ 4 * (c \div 4) <= c /\ c < 4 * (c \div 4) + 4
    BY <1>1
  <2>2. QED
    BY <1>1, <1>2, <2>1 DEF Sat8, Clamp, I8Min, I8Max, Abs
<1>4. Abs(Sat8(b) - Sat8(Round(c, 4))) <= 1
  <2> HIDE DEF c
  <2> DEFINE near == (2 * Abs(c) + 4) \div (2 * 4)
  <2>1. /\ Abs(c) \in Nat /\ near \in Nat
        /\ 8 * near <= 2 * Abs(c) + 4 /\ 2 * Abs(c) + 4 < 8 * near + 8
    <3>1. Abs(c) \in Nat
      BY <1>1 DEF Abs
    <3>2. \A n \in Nat : LET d == (2 * n + 4) \div (2 * 4) IN
            d \in Nat /\ 8 * d <= 2 * n + 4 /\ 2 * n + 4 < 8 * d + 8
      OBVIOUS
    <3>3. QED
      BY <3>1, <3>2
  <2>2. Round(c, 4) = IF c < 0 THEN -near ELSE near
    BY DEF Round
  <2>3. QED
    <3> HIDE DEF near
    <3>1. QED
      BY <1>1, <1>2, <2>1, <2>2 DEF Sat8, Clamp, I8Min, I8Max, Abs
<1>5. QED
  BY <1>3, <1>4 DEF Crunch8, CrunchI16ToI8

(* The two ways from a float to i8 by way of an i16 (quant.rs:58 and the   *)
(* loads of executor.rs:170) end at most one unit from the direct one      *)
(* (quant.rs:46), whatever saturates on the way.                           *)
THEOREM WaysAgree == Spec => []WaysToI8Agree
<1>1. ConversionInv => WaysToI8Agree
  <2>1. SUFFICES ASSUME ConversionInv, last.kind = "i8", last.x # NaN
                 PROVE  LET wide == ToI16Scaled(last.x, DefaultScale) IN
                        /\ Abs(last.q - Crunch8(wide)) <= 1
                        /\ Abs(last.q - CrunchI16ToI8(wide)) <= 1
    BY DEF WaysToI8Agree
  <2>2. last.x \in Int
    <3>1. last.x \in Values \union {NaN}
      BY <2>1 DEF ConversionInv
    <3>2. Values \subseteq Int
      BY QuantizationAssumption
    <3>3. QED
      BY <2>1, <3>1, <3>2
  <2>3. last.q = Sat8(Round(last.x * 64, Unit))
    BY <2>1 DEF ConversionInv, ToI8, I8Scale
  <2>4. ToI16Scaled(last.x, DefaultScale) = Sat16(Round(last.x * 256, Unit))
    <3>1. DefaultScale # Infinite
      BY QuantizationAssumption DEF DefaultScale, Infinite
    <3>2. QED
      BY <2>1, <3>1 DEF ToI16Scaled, DefaultScale
  <2> DEFINE fine  == Round(last.x * 256, Unit)
             rough == Round(last.x * 64, Unit)
  <2>5. rough \in Int /\ fine \in Int /\ Abs(fine - 4 * rough) <= 2
    BY <2>2, RoundsFinerByFour
  <2>6. /\ Abs(Sat8(rough) - Crunch8(Sat16(fine))) <= 1
        /\ Abs(Sat8(rough) - CrunchI16ToI8(Sat16(fine))) <= 1
    <3> HIDE DEF fine, rough
    <3>1. QED
      BY <2>5, CrunchedAgree
  <2>7. QED
    <3> DEFINE wide == ToI16Scaled(last.x, DefaultScale)
    <3>1. wide = Sat16(fine) /\ last.q = Sat8(rough)
      BY <2>3, <2>4
    <3>2. Abs(last.q - Crunch8(wide)) <= 1 /\ Abs(last.q - CrunchI16ToI8(wide)) <= 1
      <4> HIDE DEF wide, fine, rough
      <4>1. QED
        BY <2>6, <3>1
    <3>3. QED
      BY <3>2
<1>2. QED
  BY <1>1, ConversionInvariant, PTL

-----------------------------------------------------------------------------
(* The draw is a natural number.  The recursion of Low24 has a solution,   *)
(* built bit by bit, and all of its values are natural numbers.            *)
Bit(word, n) == IF 24 - n \in word THEN 1 ELSE 0

Sums(high, word, n) == high[0] = 0 /\ \A k \in 1 .. n : high[k] = 2 * high[k - 1] + Bit(word, k)

LEMMA SumsExist ==
  ASSUME NEW word
  PROVE  \E high \in [0 .. 24 -> Nat] : Sums(high, word, 24)
<1> DEFINE step == [pair \in (1 .. 24) \X Nat |-> 2 * pair[2] + Bit(word, pair[1])]
<1>1. step \in [(1 .. 24) \X Nat -> Nat]
  BY DEF Bit
<1>2. PICK high \in [0 .. 24 -> Nat] : Solves(high, 24, 0, step)
  <2> HIDE DEF step
  <2>1. QED
    BY <1>1, SolutionExists
<1>3. \A k \in 1 .. 24 : <<k, high[k - 1]>> \in (1 .. 24) \X Nat
  OBVIOUS
<1>4. QED
  BY <1>2, <1>3 DEF Solves, Sums

LEMMA DrawIsNatural ==
  ASSUME NEW word
  PROVE  Low24(word) \in Nat
<1> DEFINE Step(high) == [n \in 0 .. 24 |-> IF n = 0 THEN 0 ELSE 2 * high[n - 1] + Bit(word, n)]
           high == CHOOSE f : f = Step(f)
<1>1. Low24(word) = high[24]
  BY DEF Low24, Bit
<1>2. high = Step(high)
  <2>1. PICK f \in [0 .. 24 -> Nat] : Sums(f, word, 24)
    BY SumsExist
  <2>2. f = Step(f)
    BY <2>1 DEF Sums
  <2>3. QED
    <3> HIDE DEF Step
    <3>1. QED
      BY <2>2
<1>3. high[0] = 0 /\ \A k \in 1 .. 24 : high[k] = 2 * high[k - 1] + Bit(word, k)
  <2> HIDE DEF high
  <2>1. QED
    BY <1>2
<1>4. \A n \in Nat : n <= 24 => high[n] \in Nat
  <2> HIDE DEF high
  <2> DEFINE Good == {n \in Nat : n <= 24 => high[n] \in Nat}
  <2>1. 0 \in Good
    BY <1>3
  <2>2. ASSUME NEW n \in Nat, n \in Good PROVE n + 1 \in Good
    <3>1. SUFFICES ASSUME n + 1 <= 24 PROVE high[n + 1] \in Nat
      OBVIOUS
    <3>2. high[n] \in Nat
      BY <2>2, <3>1
    <3>3. high[n + 1] = 2 * high[n] + Bit(word, n + 1)
      BY <1>3, <3>1
    <3>4. QED
      BY <3>2, <3>3 DEF Bit
  <2>3. Nat \subseteq Good
    <3> HIDE DEF Good
    <3>1. QED
      BY <2>1, <2>2, SetInduction
  <2>4. QED
    BY <2>3
<1>5. QED
  BY <1>1, <1>4

(* Stochastic rounding (autograd.rs:38-46) goes to one of the neighbours,  *)
(* and never moves a value that is one already, whatever the draw.         *)
THEOREM StochasticIsNeighbour == Spec => []RoundsToNeighbour
<1>1. ConversionInv => RoundsToNeighbour
  <2>1. SUFFICES ASSUME ConversionInv, last.kind = "stochastic"
                 PROVE  LET exact == last.x * last.sc.num
                            floor == exact \div last.sc.den
                        IN  IF exact % last.sc.den = 0 THEN last.q = Sat16(floor)
                            ELSE last.q \in {Sat16(floor), Sat16(floor + 1)}
    BY DEF RoundsToNeighbour
  <2>2. /\ last.sc.den \in Nat \ {0}
        /\ \E word : last.q = Stochastic(last.x, last.sc, Low24(word))
    BY <2>1 DEF ConversionInv
  <2>3. PICK word : last.q = Stochastic(last.x, last.sc, Low24(word))
    BY <2>2
  <2> DEFINE draw == Low24(word)
             rest == (last.x * last.sc.num) % last.sc.den
  <2>4. draw \in Nat
    BY DrawIsNatural
  <2>5. rest = 0 => ~RoundsUp(rest, last.sc, draw)
    <3>1. draw * last.sc.den \in Nat
      <4> HIDE DEF draw
      <4>1. QED
        BY <2>2, <2>4
    <3>2. 0 * Parts = 0
      BY DEF Parts
    <3>3. QED
      <4> HIDE DEF draw, rest
      <4>1. QED
        BY <3>1, <3>2 DEF RoundsUp
  <2>6. QED
    BY <2>3, <2>5 DEF Stochastic
<1>2. QED
  BY <1>1, ConversionInvariant, PTL
=============================================================================
