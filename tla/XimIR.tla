------------------------------- MODULE XimIR --------------------------------
(***************************************************************************)
(* The intermediate representation (src/src/ir.rs), the memory planner     *)
(* (MemoryPlanner in src/src/planner.rs) and what an instruction reads and *)
(* writes in the scratchpads, which the planner ought to account for.      *)
(*                                                                         *)
(* An instruction is a record with the field op and the operands of the    *)
(* OpCode; a scalar instruction has the length len = 1, which the OpCode   *)
(* leaves implicit.  Offsets and lengths are u32 in the code; the model    *)
(* leaves out graphs whose sums of two of them do not fit.                 *)
(***************************************************************************)
EXTENDS FixedPoint, Sequences, FiniteSetsExt

CONSTANT BlockLen    \* elements that share a scale, 32 in the code

ASSUME BlockLenAssumption == BlockLen \in Nat \ {0}

ScalarOps == {"Add", "Sub", "Mul"}
VecBinOps == {"AddVec", "GradAdd", "MulVec", "GradMul"}
VecOneOps == {"AddScalarVec", "MulScalarVec"}
VecI8Ops  == {"AddVec8", "MulVec8"}
StepOps   == {"AdamWStep", "AIOStep", "AIOStepBlock"}
BlockOps  == {"BlockScale", "AIOStepBlock"}

OpCode ==
  [op : {"LoadVar"}, var : Nat, dst : Nat, len : {1}]
    \union [op : {"LoadVarVec", "LoadVarVec8"}, var : Nat, dst : Nat, len : Nat]
    \union [op : {"Store"}, src : Nat, out : Nat, len : {1}]
    \union [op : {"StoreVec", "StoreVec8"}, src : Nat, out : Nat, len : Nat]
    \union [op : ScalarOps, lhs : Nat, rhs : Nat, dst : Nat, len : {1}]
    \union [op : VecBinOps \union VecI8Ops, lhs : Nat, rhs : Nat, dst : Nat, len : Nat]
    \union [op : VecOneOps, lhs : Nat, val : I16, dst : Nat, len : Nat]
    \union [op : {"FillVec"}, val : I16, dst : Nat, len : Nat]
    \union [op : {"AdamWStep"}, w : Nat, g : Nat, m : Nat, v : Nat, len : Nat]
    \union [op : {"AIOStep"}, w : Nat, g : Nat, m : Nat, v : Nat, len : Nat, prec : Nat]
    \union [op : {"BlockScale"}, src : Nat, dst : Nat, len : Nat]
    \union [op : {"AIOStepBlock"}, w : Nat, g : Nat, m : Nat, v : Nat, s : Nat, len : Nat]

(* The instructions the planner looks at, and the end of their operands.   *)
CountedOps == {"LoadVarVec", "StoreVec", "AddVec", "MulVec"} \union VecOneOps

(* Fault: the operands of the kernels do not count, only what they write.  *)
PlanEndOfResult(ins) ==
  IF ins.op \in CountedOps \ {"StoreVec"} THEN ins.dst + ins.len ELSE 0

PlanEnd(ins) ==
  CASE ins.op = "LoadVarVec"           -> ins.dst + ins.len
    [] ins.op = "StoreVec"             -> ins.src + ins.len
    [] ins.op \in {"AddVec", "MulVec"} -> Max({ins.lhs, ins.rhs, ins.dst}) + ins.len
    [] ins.op \in VecOneOps            -> Max({ins.lhs, ins.dst}) + ins.len
    [] OTHER                           -> 0

Plan(instructions) ==
  [instructions |-> instructions,
   memory_size  |-> Max({0} \union {PlanEnd(instructions[k]) :
                                      k \in DOMAIN instructions})]

-----------------------------------------------------------------------------
Span(off, len) == off .. off + len - 1

(* The cells of the scratchpads, tagged by scratchpad. *)
Cells(pad, off, len) == {pad} \X Span(off, len)

(* The blocks of a tensor: BlockScale takes a shorter last one into        *)
(* account, AIOStepBlock does not.                                         *)
Blocks(ins) ==
  IF ins.op = "BlockScale" THEN 0 .. (ins.len - 1) \div BlockLen
                           ELSE 0 .. ins.len \div BlockLen - 1

(* AIOStep of precision 2 keeps its moments in a scratchpad of their own.  *)
Rule(ins) == IF ins.op # "AIOStep" THEN ins.op
             ELSE IF ins.prec = 2 THEN "AIOStep32" ELSE "AIOStep16"

MomentPad(ins) == IF Rule(ins) = "AIOStep32" THEN "i32" ELSE "i16"

Moments(ins) == UNION {Cells(MomentPad(ins), off, ins.len) : off \in {ins.m, ins.v}}

(* BlockScale takes no notice of its dst: its scales go to the beginning.  *)
Scales(ins) ==
  CASE ins.op = "BlockScale"   -> {"f32"} \X Blocks(ins)
    [] ins.op = "AIOStepBlock" -> {<<"f32", ins.s + b>> : b \in Blocks(ins)}
    [] OTHER -> {}

Reads(ins) ==
  CASE ins.op \in {"Store", "StoreVec", "BlockScale"} -> Cells("i16", ins.src, ins.len)
    [] ins.op = "StoreVec8" -> Cells("i8", ins.src, ins.len)
    [] ins.op \in ScalarOps \union VecBinOps ->
         UNION {Cells("i16", off, ins.len) : off \in {ins.lhs, ins.rhs}}
    [] ins.op \in VecOneOps -> Cells("i16", ins.lhs, ins.len)
    [] ins.op \in VecI8Ops  ->
         UNION {Cells("i8", off, ins.len) : off \in {ins.lhs, ins.rhs}}
    [] ins.op \in StepOps ->
         Moments(ins) \union Scales(ins)
           \union UNION {Cells("i16", off, ins.len) : off \in {ins.w, ins.g}}
    [] OTHER -> {}

Writes(ins) ==
  CASE ins.op \in {"LoadVar", "LoadVarVec", "FillVec"}
                    \union ScalarOps \union VecBinOps \union VecOneOps ->
         Cells("i16", ins.dst, ins.len)
    [] ins.op \in {"LoadVarVec8"} \union VecI8Ops -> Cells("i8", ins.dst, ins.len)
    [] ins.op \in StepOps -> Moments(ins) \union Cells("i16", ins.w, ins.len)
    [] ins.op = "BlockScale" -> Scales(ins)
    [] OTHER -> {}

Touches(ins) == Reads(ins) \union Writes(ins)

(* Whether the tensors of a kernel that works on raw slices are the same   *)
(* or disjoint, so that what it reads is not what it has already written.  *)
(* Two tensors it writes must be disjoint.                                 *)
Disjoint(x, y, len) == x + len <= y \/ y + len <= x
Aligned(x, y, len)  == x = y \/ Disjoint(x, y, len)

TidyStep(ins) ==
  LET nearby == IF MomentPad(ins) = "i16" THEN {ins.m, ins.v} ELSE {}
  IN  /\ Disjoint(ins.m, ins.v, ins.len)
      /\ \A off \in nearby : Disjoint(ins.w, off, ins.len)
      /\ \A off \in nearby \union {ins.w} : Aligned(ins.g, off, ins.len)

Tidy(ins) ==
  CASE ins.op \in VecBinOps \union VecI8Ops ->
         \A off \in {ins.lhs, ins.rhs} : Aligned(off, ins.dst, ins.len)
    [] ins.op \in VecOneOps -> Aligned(ins.lhs, ins.dst, ins.len)
    [] ins.op \in StepOps   -> TidyStep(ins)
    [] OTHER -> TRUE

(* The outputs an instruction writes. *)
Stores(ins) == IF ins.op \in {"Store", "StoreVec", "StoreVec8"}
               THEN Span(ins.out, ins.len) ELSE {}

(* The cells and the outputs the first k instructions write.               *)
WrittenBy(instructions, k) == UNION {Writes(instructions[j]) : j \in 1 .. k}
StoredBy(instructions, k)  == UNION {Stores(instructions[j]) : j \in 1 .. k}

(* Every cell an instruction reads was written by an earlier one.          *)
DefinedBeforeUse(instructions) ==
  \A k \in DOMAIN instructions :
    Reads(instructions[k]) \subseteq WrittenBy(instructions, k - 1)
=============================================================================
