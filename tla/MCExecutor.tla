----------------------------- MODULE MCExecutor -----------------------------
(***************************************************************************)
(* Families of small graphs.  Tensors have up to three elements, a         *)
(* scratchpad has up to nine cells, a block two.  The families contain     *)
(* graphs that read cells before they write them, tensors that overlap,    *)
(* and loads and stores beyond the shorter buffers.                        *)
(***************************************************************************)
EXTENDS Executor

LoadOf(var, dst, len)  == [op |-> "LoadVarVec", var |-> var, dst |-> dst, len |-> len]
StoreOf(src, out, len) == [op |-> "StoreVec", src |-> src, out |-> out, len |-> len]
BinOf(op, lhs, rhs, dst, len) ==
  [op |-> op, lhs |-> lhs, rhs |-> rhs, dst |-> dst, len |-> len]
OneOf(op, lhs, val, dst, len) ==
  [op |-> op, lhs |-> lhs, val |-> val, dst |-> dst, len |-> len]
FillOf(val, dst, len)  == [op |-> "FillVec", val |-> val, dst |-> dst, len |-> len]
Load8Of(var, dst, len) == [LoadOf(var, dst, len) EXCEPT !.op = "LoadVarVec8"]
Store8Of(src, out, len) == [StoreOf(src, out, len) EXCEPT !.op = "StoreVec8"]
AdamWOf(w, g, m, v, len) ==
  [op |-> "AdamWStep", w |-> w, g |-> g, m |-> m, v |-> v, len |-> len]
AIOOf(w, g, m, v, len, prec) ==
  [op |-> "AIOStep", w |-> w, g |-> g, m |-> m, v |-> v, len |-> len, prec |-> prec]

ScaleBy(src, dst, len) == [op |-> "BlockScale", src |-> src, dst |-> dst, len |-> len]
BlockOf(w, g, m, v, s, len) ==
  [op |-> "AIOStepBlock", w |-> w, g |-> g, m |-> m, v |-> v, s |-> s, len |-> len]

-----------------------------------------------------------------------------
(* Vector programs: two loads, an operation or two, a store. *)
Loads == {LoadOf(0, 0, 2), LoadOf(1, 1, 1), LoadOf(0, 2, 1), LoadOf(0, 2, 2)}

Kernels ==
  {BinOf(op, lhs, rhs, dst, 2) : op \in {"AddVec", "MulVec"},
                                 lhs \in {0, 1}, rhs \in {0, 2}, dst \in {1, 2, 3}}
  \union {BinOf("GradAdd", 0, 2, 2, 2), BinOf("GradMul", 0, 0, 2, 2)}
  \union {OneOf("AddScalarVec", 0, 300, 2, 2), OneOf("MulScalarVec", 1, -512, 3, 1)}

Others ==
  {[LoadOf(1, 3, 1) EXCEPT !.op = "LoadVar"],
   BinOf("Add", 0, 1, 2, 1), BinOf("Sub", 0, 1, 1, 1), BinOf("Mul", 1, 1, 3, 1),
   FillOf(-7, 1, 2), AdamWOf(0, 1, 2, 3, 1), AIOOf(0, 1, 2, 3, 1, 1),
   [StoreOf(1, 1, 1) EXCEPT !.op = "Store"]}

VectorGraphs ==
  {Plan(<<l1, l2, k, s>>) : l1 \in Loads, l2 \in Loads \union Others,
                            k \in Kernels \union Others,
                            s \in {StoreOf(2, 0, 2), StoreOf(0, 0, 2)}}

(* The graphs of the training demonstration (main.rs:183-202), one long.   *)
TrainingGraphs ==
  {Plan(<<LoadOf(0, 0, 1), LoadOf(1, 1, 1), LoadOf(0, 2, 1), LoadOf(1, 3, 1),
          step, StoreOf(0, 0, 1)>>) :
     step \in {AdamWOf(0, 1, 2, 3, 1), AIOOf(0, 1, 2, 3, 1, 1), AIOOf(0, 1, 2, 3, 1, 2)}}

ExecuteGraphs == VectorGraphs \union TrainingGraphs

(* Programs of the i8 scratchpad, beside an i16 tensor that they share the *)
(* planned size with or not, and with the i32 moments. *)
MixedGraphs ==
  {Plan(<<a, b, c, d>>) :
     a \in {LoadOf(0, 0, 2), LoadOf(0, 0, 1), Load8Of(0, 0, 2)},
     b \in {Load8Of(0, 0, 2), Load8Of(1, 0, 1), AIOOf(0, 0, 0, 1, 1, 2), AIOOf(0, 1, 0, 2, 2, 2)},
     c \in {BinOf(op, lhs, rhs, dst, len) : op \in {"AddVec8", "MulVec8"}, lhs \in {0},
                                            rhs \in {0, 1}, dst \in {0, 1}, len \in {1, 2}},
     d \in {Store8Of(0, 0, 2), Store8Of(1, 1, 1), StoreOf(0, 0, 2)}}

(* Block floating point: the weights, gradients and moments of two or      *)
(* three elements, scales from the gradients or from the weights, taken    *)
(* from the front, from behind it, and from beyond memory_f32.             *)
BlockTensors == <<LoadOf(0, 0, 2), LoadOf(0, 2, 2), LoadOf(0, 4, 2), FillOf(100, 6, 2)>>

BlockGraphs ==
  {Plan(BlockTensors \o <<scale, BlockOf(0, 2, 4, 6, s, len), StoreOf(0, 0, 2), StoreOf(6, 2, 2)>>) :
     scale \in {ScaleBy(2, 0, 2), ScaleBy(1, 1, 3), ScaleBy(0, 2, 4), ScaleBy(0, 0, 9)},
     s \in {0, 1, 5}, len \in {1, 2}}
  \union {Plan(<<LoadOf(0, 0, 1), ScaleBy(0, 0, 1)>>)}

Programs == ExecuteGraphs \union MixedGraphs \union BlockGraphs

(* The graph of `xim run --i8` (main.rs:110-117), its tensors one long. *)
DemoI8 ==
  {Plan(<<Load8Of(0, 0, 1), Load8Of(1, 1, 1), Load8Of(2, 2, 1),
          BinOf("AddVec8", 0, 1, 3, 1), BinOf("MulVec8", 3, 2, 4, 1),
          Store8Of(4, 0, 1)>>)}

-----------------------------------------------------------------------------
Buffer(s) == [k \in 0 .. Len(s) - 1 |-> s[k + 1]]

TwoInputs   == {Buffer(<<256, -32768>>), Buffer(<<32767, 700>>)}
SomeInputs  == TwoInputs \union {Buffer(<<5>>)}
DemoInputs  == {Buffer(<<307, 588, 128>>)}
Both        == {"execute", "execute_i8"}
=============================================================================
