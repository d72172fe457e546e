---------------------------- MODULE Quantization ----------------------------
(***************************************************************************)
(* Between floats and fixed point: Calibrator, Quantizer and Block32       *)
(* (src/src/quant.rs) behind XimCalibrator (src/src/ffi.rs), and           *)
(* StochasticQuantizer with its generator Xorshift32 (src/src/autograd.rs).*)
(*                                                                         *)
(* A float is an integer, in units of 1 / Unit, or NaN; a scale is a       *)
(* fraction num / den that takes those integers to fixed point, or         *)
(* infinite: 32767.0 / x overflows f32 for an x of at most Tiny (about     *)
(* 9.6e-35).  Products are exact: the rounding of f32 is not modelled, and *)
(* neither are infinite values.  A word of 32 bits is the set of its ones. *)
(***************************************************************************)
EXTENDS FixedPoint, Sequences, FiniteSetsExt

CONSTANTS
  Unit,        \* units in the float 1.0
  Top,         \* f32::MAX in units
  Tiny,        \* the largest float, in units, whose scale overflows
  BlockLen,    \* elements of a block, 32 in the code
  NaN,         \* the float that no comparison holds of
  Values,      \* the floats that occur, integers
  Blocks,      \* the slices given to Block32::quantize: sequences of floats
  StochScales, \* the scales of stochastic rounding
  Seeds,       \* the seeds of the generator
  MaxOps       \* bound on the number of operations, for model checking

(* Top stands for a float so large that 32767.0 / Top takes every value of *)
(* the model to zero.                                                      *)
ASSUME QuantizationAssumption ==
  /\ Unit \in Nat \ {0} /\ Top \in Nat /\ Tiny \in Nat /\ BlockLen \in Nat \ {0}
  /\ Values \subseteq Int /\ \A x \in Values : 65534 * Abs(x) < Top
  /\ Seeds \subseteq SUBSET (0 .. 31)
  /\ Blocks \subseteq Seq(Int \union {NaN})
  /\ StochScales \subseteq [num : Int, den : Nat \ {0}]

VARIABLES
  min, max,   \* the range of the calibrator
  scale,      \* the scale the client got last
  rng,        \* the state of the generator
  last,       \* the last conversion: its kind, argument, scale and result
  seen,       \* history: the values observed
  covered,    \* history: the values observed when the client got the scale
  ops         \* number of operations so far

calibrator == <<min, max, seen>>
client == <<scale, covered>>
vars == <<calibrator, client, rng, last, ops>>

-----------------------------------------------------------------------------
(* Fault: a seed of zero is taken as it is. *)
NewAsGiven(seed) == seed

(* Xorshift32::new.  The word 1 is the set {0}.                            *)
New(seed) == IF seed = {} THEN {0} ELSE seed

Xor(x, y) == (x \ y) \union (y \ x)

ShiftLeft(x, n)  == {b \in 0 .. 31 : b - n \in x}
ShiftRight(x, n) == {b \in 0 .. 31 : b + n \in x}

NextWord(word) ==
  LET x == Xor(word, ShiftLeft(word, 13))
      y == Xor(x, ShiftRight(x, 17))
  IN  Xor(y, ShiftLeft(y, 5))

(* The lower 24 bits, of 16777215 parts of next_f32, both ends included:   *)
(* bit by bit, the highest first.                                          *)
Parts == 16777215
Low24(word) ==
  LET high[n \in 0 .. 24] ==
        IF n = 0 THEN 0 ELSE 2 * high[n - 1] + (IF 24 - n \in word THEN 1 ELSE 0)
  IN  high[24]

-----------------------------------------------------------------------------
(* f32::round: the nearest integer to n / d, halves away from zero.        *)
Round(n, d) ==
  LET near == (2 * Abs(n) + d) \div (2 * d) IN IF n < 0 THEN -near ELSE near

DefaultScale == [num |-> 256, den |-> Unit]
I8Scale      == [num |-> 64, den |-> Unit]

(* 32767.0 / x of an x that is not negative: infinite when it overflows.   *)
Infinite     == [num |-> 1, den |-> 0]
FullScale(x) == IF x <= Tiny THEN Infinite ELSE [num |-> 32767, den |-> x]

(* What an infinite product saturates to; zero times infinity is NaN.      *)
Saturated(x) == IF x = 0 THEN 0 ELSE IF x > 0 THEN I16Max ELSE I16Min

(* A cast of NaN yields 0. *)
ToI16Scaled(x, sc) ==
  IF x = NaN THEN 0
  ELSE IF sc = Infinite THEN Saturated(x) ELSE Sat16(Round(x * sc.num, sc.den))

(* Fault: the scale of i16 is used. *)
ToI8Wide(x) == IF x = NaN THEN 0 ELSE Sat8(Round(x * DefaultScale.num, DefaultScale.den))

ToI8(x) == IF x = NaN THEN 0 ELSE Sat8(Round(x * I8Scale.num, I8Scale.den))

(* Quantizer::crunch_i16_to_i8, by way of a float: rounded, not cut.       *)
CrunchI16ToI8(a) == Sat8(Round(a, 4))

(* Fault: the lower end of the range is left out. *)
GetScaleOfMax ==
  IF max = min THEN DefaultScale ELSE FullScale(Max({0, max}))

GetScale ==
  IF max = min THEN DefaultScale ELSE FullScale(Max({Abs(max), Abs(min)}))

(* Fault: the sign is kept. *)
PeakSigned(block) == Max({0} \union {block[k] : k \in {j \in DOMAIN block : block[j] # NaN}})

(* Block32::quantize: the largest of all values of the slice, without      *)
(* sign, and the scale that takes it to 32767.                             *)
Peak(block) == Max({0} \union {Abs(block[k]) : k \in {j \in DOMAIN block : block[j] # NaN}})

BlockScale(block) ==
  IF Peak(block) > 0 THEN FullScale(Peak(block)) ELSE [num |-> 1, den |-> Unit]

(* Fault: the draw may be equal to the fraction. *)
RoundsUpOften(rest, sc, draw) == draw * sc.den <= rest * Parts

RoundsUp(rest, sc, draw) == draw * sc.den < rest * Parts

(* to_i16_stochastic: up with the probability of the fraction.             *)
Stochastic(x, sc, draw) ==
  LET floor == (x * sc.num) \div sc.den
      rest  == (x * sc.num) % sc.den
  IN  Sat16(IF RoundsUp(rest, sc, draw) THEN floor + 1 ELSE floor)

-----------------------------------------------------------------------------
None == [kind |-> "none"]

Init ==
  /\ min = Top /\ max = -Top
  /\ scale = DefaultScale /\ covered = {} /\ seen = {}
  /\ rng \in {New(seed) : seed \in Seeds}
  /\ last = None /\ ops = 0

Op == ops < MaxOps /\ ops' = ops + 1

(* Both comparisons are false of NaN.  XimCalibrator.observe does nothing  *)
(* at all with an array that is not contiguous.                            *)
Observe(x) ==
  /\ Op
  /\ min' = IF x # NaN /\ x < min THEN x ELSE min
  /\ max' = IF x # NaN /\ x > max THEN x ELSE max
  /\ seen' = seen \union {x}
  /\ UNCHANGED <<client, rng, last>>

AskScale ==
  /\ Op
  /\ scale' = GetScale /\ covered' = seen
  /\ UNCHANGED <<calibrator, rng, last>>

Converts(record) == Op /\ last' = record /\ UNCHANGED <<calibrator, client>>

Quantize(x) ==
  /\ Converts([kind |-> "i16", x |-> x, sc |-> scale, q |-> ToI16Scaled(x, scale)])
  /\ UNCHANGED rng

QuantizeI8(x) ==
  /\ Converts([kind |-> "i8", x |-> x, q |-> ToI8(x)])
  /\ UNCHANGED rng

(* The first BlockLen values of a slice are the elements of its block; a   *)
(* shorter slice is indexed beyond its end.                                *)
QuantizeBlock(block) ==
  /\ Len(block) >= BlockLen
  /\ LET sc == BlockScale(block) IN
     Converts([kind |-> "block", x |-> block, sc |-> sc,
               q |-> [k \in 1 .. BlockLen |-> ToI16Scaled(block[k], sc)]])
  /\ UNCHANGED rng

QuantizeBlockPanics(block) ==
  /\ Len(block) < BlockLen
  /\ Converts([kind |-> "panic"]) /\ UNCHANGED rng

QuantizeStochastic(x, sc) ==
  /\ rng' = NextWord(rng)
  /\ Converts([kind |-> "stochastic", x |-> x, sc |-> sc, q |-> Stochastic(x, sc, Low24(rng'))])

Next ==
  \/ \E x \in Values \union {NaN} : Observe(x) \/ Quantize(x) \/ QuantizeI8(x)
  \/ AskScale
  \/ \E block \in Blocks : QuantizeBlock(block) \/ QuantizeBlockPanics(block)
  \/ \E x \in Values, sc \in StochScales : QuantizeStochastic(x, sc)

Spec == Init /\ [][Next]_vars

-----------------------------------------------------------------------------
(* q is x under the scale sc, to half a step. *)
Accurate(q, x, sc) == 2 * Abs(q * sc.den - x * sc.num) <= sc.den

(* A scale got after values were observed takes all of them to fixed point *)
(* without saturation, to half a step: NaN among them does no harm, and    *)
(* neither do values observed since.  One value alone has the default      *)
(* scale and must be in its range; of several, one must be large enough    *)
(* for the scale not to overflow (quant.rs:132).                           *)
ObservedFits ==
  LET known == covered \ {NaN} IN
  /\ last.kind = "i16" /\ last.sc = scale /\ last.x \in known
  /\ IF known = {last.x} THEN 256 * Abs(last.x) <= 32767 * Unit
                         ELSE \E y \in known : Abs(y) > Tiny
  => Accurate(last.q, last.x, last.sc)

(* The elements of a block are exact to half a step of the block's scale,  *)
(* however large the peak of its slice is, and wherever in the slice: if   *)
(* only it is zero or above Tiny, where the scale (quant.rs:87) does not   *)
(* overflow.                                                               *)
BlockFits ==
  last.kind = "block" /\ (Peak(last.x) = 0 \/ Peak(last.x) > Tiny) =>
    \A k \in DOMAIN last.q : last.x[k] # NaN => Accurate(last.q[k], last.x[k], last.sc)

(* A float that goes to i8 at once (execute_graph_i8), one that is crunched *)
(* by the quantizer and one that is crunched by the virtual machine's       *)
(* LoadVarVec8 after it went to i16 are at most one unit apart.             *)
WaysToI8Agree ==
  last.kind = "i8" /\ last.x # NaN =>
    LET wide == ToI16Scaled(last.x, DefaultScale) IN
    /\ Abs(last.q - Crunch8(wide)) <= 1
    /\ Abs(last.q - CrunchI16ToI8(wide)) <= 1

(* Stochastic rounding goes to one of the two neighbours and leaves a      *)
(* value alone that is one already, whatever the generator draws, 0.0 and  *)
(* 1.0 included.                                                           *)
RoundsToNeighbour ==
  last.kind = "stochastic" =>
    LET exact == last.x * last.sc.num
        floor == exact \div last.sc.den
    IN  IF exact % last.sc.den = 0 THEN last.q = Sat16(floor)
                                   ELSE last.q \in {Sat16(floor), Sat16(floor + 1)}

(* The generator never reaches zero, where it would stay: no seed, the     *)
(* zero seed included, and no number of draws leads there.                 *)
GeneratorAlive == rng \subseteq 0 .. 31 /\ rng # {}
=============================================================================
