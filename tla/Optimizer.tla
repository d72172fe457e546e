----------------------------- MODULE Optimizer ------------------------------
(***************************************************************************)
(* The optimizer instructions of the virtual machine, on one element of    *)
(* the tensors: the elements do not influence each other, but for the      *)
(* scale that AIOStepBlock takes from the block.  An execution of the      *)
(* graph reads a gradient, updates the weight and the moments, and the     *)
(* caller feeds the weight back.  The moments stay in the scratchpad from  *)
(* one execution to the next, unless the graph loads them from its inputs, *)
(* where they are zero, as the graphs of the test and of the demo do.      *)
(*                                                                         *)
(* The rules are named in FixedPoint.                                      *)
(***************************************************************************)
EXTENDS FixedPoint

CONSTANTS
  Scaled(_, _), \* the gradient under a scale: (g * scale * 256.0) as i32
  Regimes       \* the trainings that occur: [rules, grads, scales, weights,
                \*   reload: whether the graph loads its moments from its inputs,
                \*   steps: number of executions]

ASSUME OptimizerAssumption ==
  \A r \in Regimes :
    /\ r.rules \subseteq {"AdamWStep", "AIOStep16", "AIOStep32", "AIOStepBlock"}
    /\ r.grads \subseteq I16 /\ r.weights \subseteq I16
    /\ r.reload \in BOOLEAN /\ r.steps \in Nat
    /\ \A g \in r.grads, M \in r.scales : /\ Scaled(g, M) \in Int
                                          /\ g >= 0 => Scaled(g, M) >= 0

VARIABLES regime, rule, w, m, v, steps, w0

vars == <<regime, rule, w, m, v, steps, w0>>

Init ==
  /\ regime \in Regimes /\ rule \in regime.rules
  /\ w \in regime.weights /\ w0 = w
  /\ m = 0 /\ v = 0
  /\ steps = 0

(* The moments an execution starts from.  LoadVarVec fills the i16         *)
(* scratchpad, which does not hold the moments of AIOStep32.               *)
Loaded(moment) == IF regime.reload /\ rule # "AIOStep32" THEN 0 ELSE moment

State == [w |-> w, m |-> Loaded(m), v |-> Loaded(v)]

(* The gradients as the rule gets them. *)
Gradients ==
  IF rule = "AIOStepBlock"
  THEN {Scaled(g, M) : g \in regime.grads, M \in regime.scales}
  ELSE regime.grads

Step(g) ==
  /\ steps < regime.steps
  /\ LET new == Stepped(rule, State, g)
     IN  w' = new.w /\ m' = new.m /\ v' = new.v
  /\ steps' = steps + 1
  /\ UNCHANGED <<regime, rule, w0>>

(* The training loop has run its number of iterations. *)
Finished == steps = regime.steps /\ UNCHANGED vars

Next == (\E g \in Gradients : Step(g)) \/ Finished

Spec == Init /\ [][Next]_vars

(* The training loop goes on to its last iteration. *)
FairSpec == Spec /\ WF_vars(Next)

-----------------------------------------------------------------------------
I32Max == 2147483647

TypeOK ==
  /\ regime \in Regimes /\ rule \in regime.rules
  /\ w \in I16 /\ w0 \in I16
  /\ IF rule = "AIOStep32" THEN m \in Int /\ v \in Int ELSE m \in I16 /\ v \in I16
  /\ steps \in 0 .. regime.steps

(* The first moment is a mean of gradients.  While the gradient of a step  *)
(* is an i16, neither the clamps of AdamWStep and AIOStepBlock, nor the    *)
(* `as i16` of AIOStep, nor the narrowing of the shifted moment changes a  *)
(* value (executor.rs:160-163, 280, 293, 331).  That is any gradient of    *)
(* the first three rules.  A block step may have gradients beyond i16,     *)
(* which its clamp is there for: nothing is claimed of those.              *)
MeanExact ==
  \A g \in Gradients \intersect I16 :
    (IF rule = "AIOStep32" THEN Mean32(Loaded(m), g) ELSE Mean16(Loaded(m), g)) \in I16

(* The bound of the second moment of AIOStep32: the largest v for which a  *)
(* step with the largest square, 2^22, does not go beyond v.               *)
VarBound == 167773

(* No intermediate value of the high dynamic range step overflows an i32,  *)
(* however long the training runs (executor.rs:278-279): v * 999 + Square(g) *)
(* and m * 900 + g * 124 fit.                                              *)
NoOverflow32 ==
  rule = "AIOStep32" =>
    \A g \in regime.grads : /\ v \in 0 .. (I32Max - Square(g)) \div 999
                            /\ m * 900 + g * 124 \in -I32Max .. I32Max

(* The largest gradient, without sign, whose square the second moment of   *)
(* AIOStep16 has room for: the mean of squares S = 33010 comes to rest at  *)
(* S - 255 = 32755, since it rises only while it is 256 or more below S.   *)
(* From 2908 (11.36) on it comes to rest beyond 32767.                     *)
VarLimit == 2907
VarRest  == 32755

(* AIOStep16 narrows its second moment with `as i16` where AdamWStep       *)
(* saturates (executor.rs:294).  While gradients stay within VarLimit the  *)
(* narrowing never changes the mean of squares, however long the training  *)
(* runs, and it does not turn negative.                                    *)
Tame == \A g \in regime.grads : -VarLimit <= g /\ g <= VarLimit

VarExact ==
  rule = "AIOStep16" /\ Tame =>
    \A g \in regime.grads : Var16(Loaded(v), Square(g)) \in 0 .. I16Max

(* The largest gradient of a block step, 256 times as fine as those of the *)
(* other steps, whose update (m_val >> 4) as i16 is not cut (line 334).    *)
BlockLimit == 4872000

(* While no gradient is negative, no weight ever grows, whichever of the   *)
(* instructions does the step and whatever the saturation of the weight;   *)
(* in a block step, while the gradients do not exceed BlockLimit: beyond   *)
(* it the cut update may turn negative and raise the weight.               *)
Upwards ==
  \A g \in Gradients : g >= 0 /\ (rule = "AIOStepBlock" => g <= BlockLimit)

Descends == [][Upwards => w' <= w]_vars

(* A persistent positive gradient, 25 (0.098) or more for 30 steps, gets   *)
(* through the truncation of the moment and of the update and moves the    *)
(* weight, if the moments are kept.                                        *)
Persistent ==
  /\ ~regime.reload /\ regime.steps >= 30 /\ w0 > I16Min
  /\ \A g \in Gradients : g >= 25
  /\ rule \in {"AdamWStep", "AIOStep16"}

PersistentGradientMoves == Persistent => <>(w < w0)

(* The assertion of test_adamw_convergence_mock: after its ten executions  *)
(* with a positive gradient the weight has decreased.                      *)
WeightDecreases == steps = regime.steps => w < w0

(* The inductive invariant: the moments in the ranges of the recurrences.  *)
IInv ==
  /\ TypeOK
  /\ rule \in {"AdamWStep", "AIOStep32"} => v >= 0
  /\ rule = "AIOStep32" => m \in I16 /\ v <= VarBound
  /\ rule = "AIOStep16" /\ Tame => v \in 0 .. VarRest
=============================================================================
