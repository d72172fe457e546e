----------------------------- MODULE MCCompiler -----------------------------
(* A small instance: two compilers, an instruction of each kind the        *)
(* planner tells apart.                                                    *)
EXTENDS Compiler

SomeOps ==
  {[op |-> "LoadVarVec", var |-> 0, dst |-> 0, len |-> 2],
   [op |-> "FillVec", val |-> 1, dst |-> 2, len |-> 2],
   [op |-> "AddVec", lhs |-> 0, rhs |-> 0, dst |-> 3, len |-> 1]}
=============================================================================
