-------------------------- MODULE OptimizerProofs ---------------------------
(***************************************************************************)
(* For all i16 gradients and weights and any number of steps: the moments  *)
(* of the optimizer steps stay in the ranges their types have.             *)
(***************************************************************************)
EXTENDS Optimizer, TLAPS

(* Membership of I16 as two inequalities; the provers do better with them. *)
LEMMA I16Range ==
  \A x : x \in I16 <=> x \in Int /\ -32768 <= x /\ x <= 32767
<1>1. I16Min \in Int /\ I16Max \in Int
  BY SMT DEF I16Min, I16Max
<1>2. \A x : x \in I16 <=> x \in Int /\ I16Min <= x /\ x <= I16Max
  BY <1>1, SMT DEF I16
<1>3. QED
  BY <1>2, SMT DEF I16Min, I16Max

(* The square of an i16, scaled back to Q8.8, is at most 2^22. *)
LEMMA SquareRange ==
  ASSUME NEW g \in I16
  PROVE  Square(g) \in Int /\ 0 <= Square(g) /\ Square(g) <= 4194304
<1>1. g \in Int /\ -32768 <= g /\ g <= 32767
  BY I16Range, SMT
<1>2. g * g \in Int /\ 0 <= g * g
  BY <1>1
<1>3. g * g <= 1073741824
  <2>1. CASE g >= 0
    <3>1. g * g <= 32767 * g
      BY <1>1, <2>1
    <3>2. QED
      BY <1>1, <3>1
  <2>2. CASE g < 0
    <3>1. DEFINE h == -g
    <3>2. h \in Int /\ 0 <= h /\ h <= 32768 /\ h * h = g * g
      BY <1>1, <2>2
    <3> HIDE DEF h
    <3>3. h * h <= 32768 * h
      BY <3>2
    <3>4. QED
      BY <3>2, <3>3
  <2>3. QED
    BY <1>1, <2>1, <2>2
<1>4. QED
  BY <1>2, <1>3 DEF Square

(* The square of a gradient within VarLimit. *)
LEMMA TameSquare ==
  ASSUME NEW g \in Int, -VarLimit <= g, g <= VarLimit
  PROVE  Square(g) \in Int /\ 0 <= Square(g) /\ Square(g) <= 33010
<1>1. PICK h \in Int : 0 <= h /\ h <= 2907 /\ h * h = g * g
  <2>1. -2907 <= g /\ g <= 2907
    BY DEF VarLimit
  <2>2. CASE g >= 0
    BY <2>1, <2>2
  <2>3. CASE g < 0
    <3>1. -g \in Int /\ 0 <= -g /\ -g <= 2907 /\ (-g) * (-g) = g * g
      BY <2>1, <2>3
    <3>2. QED
      BY <3>1
  <2>4. QED
    BY <2>2, <2>3
<1>2. h * h \in Int /\ 0 <= h * h /\ h * h <= 2907 * h
  BY <1>1
<1>3. g * g \in Int /\ 0 <= g * g /\ g * g <= 8450649
  BY <1>1, <1>2
<1>4. QED
  BY <1>3 DEF Square

(* Narrowing to 16 bits keeps what fits. *)
LEMMA NarrowIdentity ==
  ASSUME NEW x \in I16
  PROVE  Wrap16(x) = x /\ Sat16(x) = x
<1>1. x \in Int /\ -32768 <= x /\ x <= 32767
  BY I16Range, SMT
<1>2. QED
  BY <1>1, SMT DEF Wrap16, Sat16, Clamp, I16Min, I16Max

(* Saturation and narrowing yield 16 bits; saturation keeps the sign. *)
LEMMA NarrowRange ==
  ASSUME NEW x \in Int
  PROVE  Wrap16(x) \in I16 /\ Sat16(x) \in I16 /\ (x >= 0 => Sat16(x) >= 0)
<1>1. /\ Wrap16(x) \in Int /\ -32768 <= Wrap16(x) /\ Wrap16(x) <= 32767
      /\ Sat16(x) \in Int /\ -32768 <= Sat16(x) /\ Sat16(x) <= 32767
      /\ x >= 0 => Sat16(x) >= 0
  BY SMT DEF Wrap16, Sat16, Clamp, I16Min, I16Max
<1>2. QED
  BY <1>1, I16Range, SMT

(* What comes to rest at VarRest fits an i16.                              *)
LEMMA RestRange ==
  ASSUME NEW x \in Int, 0 <= x, x <= 32755
  PROVE  x \in 0 .. VarRest /\ x \in 0 .. I16Max
<1>1. VarRest \in Int /\ x <= VarRest /\ I16Max \in Int /\ x <= I16Max
  BY SMT DEF VarRest, I16Max
<1>2. x \in 0 .. VarRest
  BY <1>1, SMT
<1>3. x \in 0 .. I16Max
  BY <1>1, SMT
<1>4. QED
  BY <1>2, <1>3

(* What the assumption says of the present training.                       *)
LEMMA RegimeFacts ==
  ASSUME IInv
  PROVE  /\ regime.grads \subseteq I16 /\ regime.weights \subseteq I16 /\ regime.steps \in Nat
         /\ rule \in {"AdamWStep", "AIOStep16", "AIOStep32", "AIOStepBlock"}
         /\ Gradients \subseteq Int
         /\ rule # "AIOStepBlock" => Gradients = regime.grads /\ Gradients \subseteq I16
         /\ rule = "AIOStepBlock" =>
              ((\A g \in regime.grads : g >= 0) => \A g \in Gradients : g >= 0)
<1>1. regime \in Regimes /\ rule \in regime.rules
  BY DEF IInv, TypeOK
<1>2. /\ regime.rules \subseteq {"AdamWStep", "AIOStep16", "AIOStep32", "AIOStepBlock"}
      /\ regime.grads \subseteq I16 /\ regime.weights \subseteq I16 /\ regime.steps \in Nat
      /\ \A g \in regime.grads, M \in regime.scales :
           Scaled(g, M) \in Int /\ (g >= 0 => Scaled(g, M) >= 0)
  BY <1>1, OptimizerAssumption DEF OptimizerAssumption
<1>3. I16 \subseteq Int
  BY I16Range
<1>4. CASE rule = "AIOStepBlock"
  <2>1. Gradients = {Scaled(g, M) : g \in regime.grads, M \in regime.scales}
    BY <1>4 DEF Gradients
  <2>2. ASSUME NEW x \in Gradients
        PROVE  x \in Int /\ ((\A g \in regime.grads : g >= 0) => x >= 0)
    <3>1. PICK g \in regime.grads, M \in regime.scales : x = Scaled(g, M)
      BY <2>1
    <3>2. QED
      BY <1>2, <3>1
  <2>3. QED
    BY <1>1, <1>2, <1>4, <2>2
<1>5. CASE rule # "AIOStepBlock"
  <2>1. Gradients = regime.grads
    BY <1>5 DEF Gradients
  <2>2. QED
    BY <1>1, <1>2, <1>3, <1>5, <2>1
<1>6. QED
  BY <1>4, <1>5

(* The moments a step starts from: integers, in the range of their rule.   *)
LEMMA LoadedRange ==
  ASSUME IInv
  PROVE  /\ Loaded(m) \in Int /\ -32768 <= Loaded(m) /\ Loaded(m) <= 32767
         /\ Loaded(v) \in Int
         /\ rule \in {"AdamWStep", "AIOStep32"} => Loaded(v) >= 0
         /\ rule = "AIOStep32" => Loaded(v) <= 167773
         /\ rule = "AIOStep16" /\ Tame => 0 <= Loaded(v) /\ Loaded(v) <= 32755
<1>1. m \in I16 /\ v \in Int
  BY I16Range, SMT DEF IInv, TypeOK
<1>2. m \in Int /\ -32768 <= m /\ m <= 32767
  BY <1>1, I16Range
<1>3. rule = "AIOStep16" /\ Tame => 0 <= v /\ v <= 32755
  BY <1>1, SMT DEF IInv, VarRest
<1>4. QED
  BY <1>1, <1>2, <1>3, SMT DEF Loaded, IInv, VarBound

(* The exact first moments are means: in the range of their operands.      *)
LEMMA MeanRange ==
  ASSUME IInv, NEW g \in Gradients
  PROVE  /\ Mean16(Loaded(m), g) \in Int /\ Mean32(Loaded(m), g) \in Int
         /\ rule \in {"AdamWStep", "AIOStep16"} => Mean16(Loaded(m), g) \in I16
         /\ rule = "AIOStep32" => Mean32(Loaded(m), g) \in I16
         /\ g \in I16 => Mean16(Loaded(m), g) \in I16 /\ Mean32(Loaded(m), g) \in I16
<1>1. g \in Int /\ (rule # "AIOStepBlock" => g \in I16)
  BY RegimeFacts
<1>2. Loaded(m) \in Int /\ -32768 <= Loaded(m) /\ Loaded(m) <= 32767
  BY LoadedRange
<1>3. Mean16(Loaded(m), g) \in Int /\ Mean32(Loaded(m), g) \in Int
  BY <1>1, <1>2, SMT DEF Mean16, Mean32
<1>4. ASSUME g \in I16
      PROVE  Mean16(Loaded(m), g) \in I16 /\ Mean32(Loaded(m), g) \in I16
  <2>1. -32768 <= g /\ g <= 32767
    BY <1>4, I16Range
  <2>2. -32768 <= Mean16(Loaded(m), g) /\ Mean16(Loaded(m), g) <= 32767
    BY <1>1, <1>2, <2>1, SMT DEF Mean16
  <2>3. -32768 <= Mean32(Loaded(m), g) /\ Mean32(Loaded(m), g) <= 32767
    BY <1>1, <1>2, <2>1, SMT DEF Mean32
  <2>4. QED
    BY <1>3, <2>2, <2>3, I16Range
<1>5. QED
  BY <1>1, <1>3, <1>4

(* The exact second moments: not negative unless a square or a moment has  *)
(* wrapped, and within the bound for AIOStep32.                            *)
LEMMA VarRange ==
  ASSUME IInv, NEW g \in Gradients
  PROVE  /\ rule # "AIOStepBlock" => /\ Var16(Loaded(v), Square(g)) \in Int
                                     /\ Var32(Loaded(v), Square(g)) \in Int
         /\ Var16(Loaded(v), WrapSquare(g)) \in Int
         /\ rule = "AdamWStep" => Var16(Loaded(v), Square(g)) >= 0
         /\ rule = "AIOStep32" => /\ 0 <= Var32(Loaded(v), Square(g))
                                  /\ Var32(Loaded(v), Square(g)) <= VarBound
         /\ rule = "AIOStep16" /\ Tame => /\ 0 <= Var16(Loaded(v), Square(g))
                                          /\ Var16(Loaded(v), Square(g)) <= 32755
<1>1. rule # "AIOStepBlock" => Square(g) \in Int /\ 0 <= Square(g) /\ Square(g) <= 4194304
  BY RegimeFacts, SquareRange
<1>2. WrapSquare(g) \in Int
  <2>1. g \in Int
    BY RegimeFacts
  <2>2. Abs(g) \div 4096 \in Int /\ Abs(g) % 4096 \in Int
    BY <2>1, SMT DEF Abs
  <2>3. \A x, y \in Int : (((x * x) % 256) * 65536 + x * y * 32 + (y * y) \div 256) \in Int
    BY SMT
  <2>4. \A z \in Int : ((z + 8388608) % 16777216) - 8388608 \in Int
    BY SMT
  <2>5. QED
    BY <2>2, <2>3, <2>4 DEF WrapSquare
<1>3. /\ Loaded(v) \in Int
      /\ rule \in {"AdamWStep", "AIOStep32"} => Loaded(v) >= 0
      /\ rule = "AIOStep32" => Loaded(v) <= 167773
  BY LoadedRange
<1>4. Var16(Loaded(v), WrapSquare(g)) \in Int
  BY <1>2, <1>3, SMT DEF Var16
<1>5. CASE rule # "AIOStepBlock"
  <2>1. /\ Var16(Loaded(v), Square(g)) \in Int
        /\ Loaded(v) >= 0 => Var16(Loaded(v), Square(g)) >= 0
    BY <1>1, <1>3, <1>5, SMT DEF Var16
  <2>2. /\ Var32(Loaded(v), Square(g)) \in Int
        /\ Loaded(v) >= 0 => Var32(Loaded(v), Square(g)) >= 0
        /\ Loaded(v) <= 167773 => Var32(Loaded(v), Square(g)) <= 167773
    BY <1>1, <1>3, <1>5, SMT DEF Var32
  <2>3. ASSUME rule = "AIOStep16", Tame
        PROVE  /\ 0 <= Var16(Loaded(v), Square(g))
               /\ Var16(Loaded(v), Square(g)) <= 32755
    <3>1. g \in Int /\ -VarLimit <= g /\ g <= VarLimit
      BY <1>5, <2>3, RegimeFacts DEF Tame
    <3>2. Square(g) \in Int /\ 0 <= Square(g) /\ Square(g) <= 33010
      BY <3>1, TameSquare
    <3>3. Loaded(v) \in Int /\ 0 <= Loaded(v) /\ Loaded(v) <= 32755
      BY <2>3, LoadedRange
    <3>4. QED
      BY <3>2, <3>3, SMT DEF Var16
  <2>4. QED
    BY <1>3, <1>4, <1>5, <2>1, <2>2, <2>3, SMT DEF VarBound
<1>6. QED
  BY <1>4, <1>5

(* The initial states satisfy the inductive invariant. *)
LEMMA InitIInv == Init => IInv
<1> SUFFICES ASSUME Init PROVE IInv
  OBVIOUS
<1>1. 0 \in I16 /\ 0 <= VarBound /\ 0 \in 0 .. VarRest
  BY I16Range, SMT DEF VarBound, VarRest
<1>2. regime \in Regimes /\ rule \in regime.rules
  BY DEF Init
<1>3. regime.steps \in Nat /\ regime.weights \subseteq I16
  BY <1>2, OptimizerAssumption DEF OptimizerAssumption
<1>4. 0 \in 0 .. regime.steps
  BY <1>3, SMT
<1>5. w \in I16 /\ w0 \in I16 /\ m = 0 /\ v = 0 /\ steps = 0
  BY <1>3 DEF Init
<1>6. QED
  BY <1>1, <1>2, <1>4, <1>5, SMT DEF IInv, TypeOK

(* Every step preserves it. *)
LEMMA NextIInv == IInv /\ [Next]_vars => IInv'
<1> SUFFICES ASSUME IInv, [Next]_vars PROVE IInv'
  OBVIOUS
<1>1. ASSUME NEW g \in Gradients, Step(g) PROVE IInv'
  <2> DEFINE new == Stepped(rule, State, g)
  <2>1. /\ regime' = regime /\ rule' = rule /\ w0' = w0 /\ steps' \in 0 .. regime.steps
        /\ regime \in Regimes /\ rule \in regime.rules /\ w \in I16 /\ w0 \in I16
        /\ w' = new.w /\ m' = new.m /\ v' = new.v
    BY <1>1, RegimeFacts, SMT DEF Step, IInv, TypeOK
  <2>2. /\ Mean16(Loaded(m), g) \in Int /\ Mean32(Loaded(m), g) \in Int
        /\ rule = "AIOStep32" => Mean32(Loaded(m), g) \in I16
    BY MeanRange
  <2>3. \A x \in Int : Sub16(w, x) \in I16
    BY <2>1, NarrowRange, I16Range DEF Sub16
  <2>4. \A x \in Int : Wrap16(x) \in I16 /\ Wrap16(x) \in Int /\ x \div 16 \in Int /\ x \div 256 \in Int
    BY NarrowRange, I16Range, SMT
  <2>5. CASE rule = "AdamWStep"
    <3>1. new = AdamW(State, g)
      BY <2>5 DEF Stepped
    <3>2. /\ new.m = Sat16(Mean16(Loaded(m), g)) /\ new.v = Sat16(Var16(Loaded(v), Square(g)))
          /\ new.w = Sub16(w, Wrap16(Mean16(Loaded(m), g) \div 16))
      BY <3>1 DEF AdamW, State
    <3>3. new.m \in I16 /\ new.v \in I16 /\ new.v >= 0
      BY <2>2, <2>5, <3>2, VarRange, NarrowRange
    <3>4. new.w \in I16
      BY <2>2, <2>3, <2>4, <3>2
    <3>5. QED
      BY <2>1, <2>5, <3>3, <3>4 DEF IInv, TypeOK
  <2>6. CASE rule = "AIOStep16"
    <3>1. new = AIO16(State, g)
      BY <2>6 DEF Stepped
    <3>2. /\ new.m = Wrap16(Mean16(Loaded(m), g)) /\ new.v = Wrap16(Var16(Loaded(v), Square(g)))
          /\ new.w = Sub16(w, Wrap16(Mean16(Loaded(m), g)) \div 16)
      BY <3>1 DEF AIO16, State
    <3>3. new.m \in I16 /\ new.v \in I16 /\ new.w \in I16
      BY <2>2, <2>3, <2>4, <2>6, <3>2, VarRange
    <3>4. Tame' => new.v \in 0 .. VarRest
      <4>1. SUFFICES ASSUME Tame PROVE new.v \in 0 .. VarRest
        BY <2>1 DEF Tame
      <4>2. /\ Var16(Loaded(v), Square(g)) \in Int /\ 0 <= Var16(Loaded(v), Square(g))
            /\ Var16(Loaded(v), Square(g)) <= 32755
        BY <2>6, <4>1, VarRange
      <4>3. new.v = Var16(Loaded(v), Square(g))
        BY <3>2, <4>2, I16Range, NarrowIdentity
      <4>4. QED
        BY <4>2, <4>3, RestRange
    <3>5. QED
      BY <2>1, <2>6, <3>3, <3>4 DEF IInv, TypeOK
  <2>7. CASE rule = "AIOStep32"
    <3>1. new = AIO32(State, g)
      BY <2>7 DEF Stepped
    <3>2. /\ new.m = Mean32(Loaded(m), g) /\ new.v = Var32(Loaded(v), Square(g))
          /\ new.w = Sub16(w, Wrap16(Mean32(Loaded(m), g) \div 256))
      BY <3>1, <2>7 DEF AIO32, State
    <3>3. new.m \in I16 /\ new.m \in Int /\ new.v \in Int /\ new.v >= 0 /\ new.v <= VarBound
      BY <2>2, <2>7, <3>2, VarRange
    <3>4. new.w \in I16
      BY <2>2, <2>3, <2>4, <3>2
    <3>5. QED
      BY <2>1, <2>7, <3>3, <3>4 DEF IInv, TypeOK
  <2>8. CASE rule = "AIOStepBlock"
    <3>1. new = AIOBlock(State, g)
      BY <2>8 DEF Stepped
    <3>2. /\ new.m = Sat16(Mean16(Loaded(m), g)) /\ new.v = Sat16(Var16(Loaded(v), WrapSquare(g)))
          /\ new.w = Sub16(w, Wrap16(Mean16(Loaded(m), g) \div 16))
      BY <3>1 DEF AIOBlock, State
    <3>3. new.m \in I16 /\ new.v \in I16
      BY <2>2, <3>2, VarRange, NarrowRange
    <3>4. new.w \in I16
      BY <2>2, <2>3, <2>4, <3>2
    <3>5. QED
      BY <2>1, <2>8, <3>3, <3>4 DEF IInv, TypeOK
  <2>9. QED
    BY RegimeFacts, <2>5, <2>6, <2>7, <2>8
<1>2. CASE UNCHANGED vars
  BY <1>2 DEF vars, IInv, TypeOK, Tame
<1>3. QED
  BY <1>1, <1>2 DEF Next, Finished

(* The moments stay in their ranges, for any gradients and any number of   *)
(* steps.                                                                  *)
THEOREM MomentsInRange == Spec => []IInv
BY InitIInv, NextIInv, PTL DEF Spec

(* Given gradients that are i16, no narrowing and no clamp of a first      *)
(* moment ever changes its value (executor.rs:160-163, 280, 293, 331).     *)
THEOREM MeanIsExact == Spec => []MeanExact
<1>1. IInv => MeanExact
  BY MeanRange DEF MeanExact
<1>2. QED
  BY <1>1, MomentsInRange, PTL

(* No product of the high dynamic range step overflows, however long the   *)
(* training runs.                                                          *)
THEOREM No32BitOverflow == Spec => []NoOverflow32
<1>1. IInv => NoOverflow32
  <2> SUFFICES ASSUME IInv, rule = "AIOStep32", NEW g \in regime.grads
               PROVE  /\ v \in 0 .. (I32Max - Square(g)) \div 999
                      /\ m * 900 + g * 124 \in -I32Max .. I32Max
    BY DEF NoOverflow32
  <2>1. Square(g) \in Int /\ 0 <= Square(g) /\ Square(g) <= 4194304
    BY RegimeFacts, SquareRange
  <2>2. g \in I16 /\ m \in I16 /\ v \in Int /\ 0 <= v /\ v <= VarBound
    BY RegimeFacts DEF IInv, TypeOK
  <2>3. /\ g \in Int /\ -32768 <= g /\ g <= 32767
        /\ m \in Int /\ -32768 <= m /\ m <= 32767
        /\ v \in Int /\ 0 <= v /\ v <= 167773
    BY <2>2, I16Range, SMT DEF VarBound
  <2>4. /\ I32Max \in Int
        /\ (I32Max - Square(g)) \div 999 \in Int
        /\ 167773 <= (I32Max - Square(g)) \div 999
        /\ -I32Max <= m * 900 + g * 124 /\ m * 900 + g * 124 <= I32Max
    BY <2>1, <2>3, SMT DEF I32Max
  <2>5. QED
    BY <2>1, <2>3, <2>4, SMT
<1>2. QED
  BY <1>1, MomentsInRange, PTL

(* While the gradients of AIOStep with i16 moments stay within VarLimit,   *)
(* its `as i16` (executor.rs:294) never changes the mean of squares.       *)
THEOREM VarIsExact == Spec => []VarExact
<1>1. IInv => VarExact
  <2> SUFFICES ASSUME IInv, rule = "AIOStep16", Tame, NEW g \in regime.grads
               PROVE  Var16(Loaded(v), Square(g)) \in 0 .. I16Max
    BY DEF VarExact
  <2>1. g \in Gradients
    BY DEF Gradients
  <2>2. /\ Var16(Loaded(v), Square(g)) \in Int /\ 0 <= Var16(Loaded(v), Square(g))
        /\ Var16(Loaded(v), Square(g)) <= 32755
    BY <2>1, VarRange
  <2>3. QED
    BY <2>2, RestRange
<1>2. QED
  BY <1>1, MomentsInRange, PTL

(* Subtracting a moment that is not negative does not raise a weight.      *)
LEMMA SubLowers ==
  ASSUME NEW x \in I16, NEW d \in Int, d >= 0
  PROVE  Sub16(x, d) <= x
<1>1. x \in Int /\ -32768 <= x /\ x <= 32767
  BY I16Range, SMT
<1>2. QED
  BY <1>1, SMT DEF Sub16, Sat16, Clamp, I16Min, I16Max

(* While no gradient is negative (nor beyond the limit of a block step)    *)
(* the first moment is not either, and no step raises the weight.          *)
LEMMA StepDescends ==
  ASSUME IInv, Upwards, m >= 0, NEW g \in Gradients, Step(g)
  PROVE  m' >= 0 /\ w' <= w
<1> DEFINE new == Stepped(rule, State, g)
<1>1. /\ w \in I16 /\ m' = new.m /\ w' = new.w
      /\ g \in Int /\ g >= 0 /\ (rule = "AIOStepBlock" => g <= 4872000)
      /\ Loaded(m) \in Int /\ Loaded(m) >= 0 /\ Loaded(m) <= 32767
  BY RegimeFacts, LoadedRange, SMT DEF IInv, TypeOK, Step, Upwards, BlockLimit, Loaded
<1> DEFINE mean == Mean16(Loaded(m), g)
<1>2. mean >= 0 /\ Mean32(Loaded(m), g) >= 0
  BY <1>1, SMT DEF Mean16, Mean32
<1>3. /\ mean \in Int /\ Mean32(Loaded(m), g) \in Int
      /\ rule \in {"AdamWStep", "AIOStep16"} => mean \in I16
      /\ rule = "AIOStep32" => Mean32(Loaded(m), g) \in I16
  BY MeanRange
<1>4. \A x \in I16 : x >= 0 =>
        /\ x \in Int /\ x \div 16 \in I16 /\ x \div 16 >= 0 /\ x \div 16 \in Int
        /\ x \div 256 \in I16 /\ x \div 256 >= 0 /\ x \div 256 \in Int
  BY I16Range, SMT
<1>5. CASE rule = "AdamWStep"
  <2>1. new.m = Sat16(mean) /\ new.w = Sub16(w, Wrap16(mean \div 16))
    BY <1>5 DEF Stepped, AdamW, State
  <2>2. Sat16(mean) >= 0 /\ Wrap16(mean \div 16) = mean \div 16
    BY <1>2, <1>3, <1>4, <1>5, NarrowIdentity
  <2>3. QED
    BY <1>1, <1>2, <1>3, <1>4, <1>5, <2>1, <2>2, SubLowers
<1>6. CASE rule = "AIOStep16"
  <2>1. new.m = Wrap16(mean) /\ new.w = Sub16(w, Wrap16(mean) \div 16)
    BY <1>6 DEF Stepped, AIO16, State
  <2>2. Wrap16(mean) = mean
    BY <1>3, <1>6, NarrowIdentity
  <2>3. QED
    BY <1>1, <1>2, <1>3, <1>4, <1>6, <2>1, <2>2, SubLowers
<1>7. CASE rule = "AIOStep32"
  <2> DEFINE wide == Mean32(Loaded(m), g)
  <2>1. new.m = wide /\ new.w = Sub16(w, Wrap16(wide \div 256))
    BY <1>7 DEF Stepped, AIO32, State
  <2>2. Wrap16(wide \div 256) = wide \div 256
    BY <1>2, <1>3, <1>4, <1>7, NarrowIdentity
  <2>3. QED
    BY <1>1, <1>2, <1>3, <1>4, <1>7, <2>1, <2>2, SubLowers
<1>8. CASE rule = "AIOStepBlock"
  <2>1. new.m = Sat16(mean) /\ new.w = Sub16(w, Wrap16(mean \div 16))
    BY <1>8 DEF Stepped, AIOBlock, State
  <2>2. mean <= 524287
    BY <1>1, <1>8, SMT DEF Mean16
  <2>3. mean \div 16 \in Int /\ 0 <= mean \div 16 /\ mean \div 16 <= 32767
    <3> HIDE DEF mean
    <3>1. QED
      BY <1>2, <1>3, <2>2, SMT
  <2>4. Wrap16(mean \div 16) = mean \div 16 /\ Sat16(mean) >= 0
    BY <1>2, <1>3, <2>3, I16Range, NarrowIdentity, NarrowRange
  <2>5. QED
    BY <1>1, <2>1, <2>3, <2>4, SubLowers
<1>9. QED
  BY RegimeFacts, <1>5, <1>6, <1>7, <1>8

(* While no gradient is negative no weight grows, in any optimizer step;   *)
(* in a block step, as long as no gradient exceeds BlockLimit.             *)
THEOREM WeightsDescend == Spec => Descends
<1> DEFINE MeanUp == Upwards => m >= 0
<1>1. Init => MeanUp
  BY SMT DEF Init
<1>2. UNCHANGED <<regime, rule>> => (Upwards' <=> Upwards)
  BY DEF Upwards, Gradients
<1>3. IInv /\ MeanUp /\ [Next]_vars => MeanUp'
  <2>1. ASSUME IInv, MeanUp, NEW g \in Gradients, Step(g) PROVE MeanUp'
    <3>1. UNCHANGED <<regime, rule>>
      BY <2>1 DEF Step
    <3>2. QED
      BY <1>2, <2>1, <3>1, StepDescends
  <2>2. ASSUME MeanUp, UNCHANGED vars PROVE MeanUp'
    BY <1>2, <2>2 DEF vars
  <2>3. QED
    BY <2>1, <2>2 DEF Next, Finished
<1>4. IInv /\ MeanUp /\ [Next]_vars => [Upwards => w' <= w]_vars
  <2>1. ASSUME IInv, MeanUp, NEW g \in Gradients, Step(g) PROVE Upwards => w' <= w
    BY <2>1, StepDescends
  <2>2. QED
    BY <2>1 DEF Next, Finished
<1>5. QED
  BY <1>1, <1>3, <1>4, MomentsInRange, PTL DEF Spec, Descends
=============================================================================
