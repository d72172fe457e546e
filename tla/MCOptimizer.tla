---------------------------- MODULE MCOptimizer -----------------------------
(* Trainings for model checking. *)
EXTENDS Optimizer

I16Rules == {"AdamWStep", "AIOStep16"}

(* Gradients at the limits and between, for six steps; blocks with scales  *)
(* from the smallest to the largest, for four.                             *)
Edges ==
  [rules |-> I16Rules \union {"AIOStep32"}, grads |-> {I16Min, -26, 0, 1, 700, I16Max},
   scales |-> {}, weights |-> {I16Min, 256, I16Max}, reload |-> FALSE, steps |-> 6]

BlockEdges ==
  [Edges EXCEPT !.rules = {"AIOStepBlock"}, !.scales = {1, 700, I16Max}, !.steps = 4]

(* Persistent positive gradients from 25 (0.098) on. *)
Persisting ==
  [rules |-> I16Rules, grads |-> {25, 30}, scales |-> {},
   weights |-> {I16Min + 1, 256, I16Max}, reload |-> FALSE, steps |-> 30]

(* Gradients up to the limit of the second moment of AIOStep16, for so     *)
(* long that it comes to rest, at 32755.                                   *)
Resting ==
  [rules |-> {"AIOStep16"}, grads |-> {VarLimit}, scales |-> {}, weights |-> {I16Max},
   reload |-> FALSE, steps |-> 2000]

TameMix == [Edges EXCEPT !.rules = {"AIOStep16"}, !.grads = {-VarLimit, 0, 700, VarLimit}]

(* Blocks whose scaled gradients are i16, and some that are not. *)
Narrow ==
  [Edges EXCEPT !.rules = {"AIOStepBlock"}, !.grads = {-100, 3, 127}, !.scales = {700, I16Max}]

(* Positive gradients of a block, up to the limit of their update. *)
Rising ==
  [rules |-> {"AIOStepBlock"}, grads |-> {1, 19000}, scales |-> {19000, 32767},
   weights |-> {-32000, 32767}, reload |-> FALSE, steps |-> 8]

(* The graph of test_adamw_convergence_mock: it loads M and V each time. *)
MockTest ==
  [rules |-> {"AdamWStep"}, grads |-> {26}, scales |-> {}, weights |-> {256},
   reload |-> TRUE, steps |-> 10]

AllRegimes == {Edges, BlockEdges, Persisting, Resting, TameMix, Narrow, Rising, MockTest}
TestOnly   == {MockTest}
=============================================================================
