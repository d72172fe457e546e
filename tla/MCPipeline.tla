----------------------------- MODULE MCPipeline -----------------------------
(***************************************************************************)
(* Small instances of the pipeline over the virtual machine: tensors of    *)
(* one element, scratchpads of three cells.  The values are closed under   *)
(* the saturating product of Q8.8.                                         *)
(***************************************************************************)
EXTENDS PipelineVM, TLC

MCValues == {0, 256, -256, 32767, -32767, -32768}
MCScales == {0, 1, 256, 32767}
MCTokens == [1 .. 1 -> MCValues]
MCVMs    == [mem : [i16 : [0 .. 2 -> MCValues], f32 : [0 .. 0 -> MCScales]], out : MCTokens]
MCFresh  == [i \in Layers |-> FreshVM(i)]

(* The table of the sequential run, row by row. *)
MCRow(table, i) ==
  K!FoldLeft(LAMBDA row, k : row @@ (k :> RefNext((i :> row) @@ table, i, k - 1)),
             0 :> FreshVM(i), [k \in 1 .. BatchSize |-> k])

MCTable ==
  K!FoldLeft(LAMBDA table, i : table @@ (i :> MCRow(table, i)), <<>>,
             [i \in Layers |-> i])

MCRef == MCTable    \* computed once

-----------------------------------------------------------------------------
Load(var, dst)     == [op |-> "LoadVarVec", var |-> var, dst |-> dst, len |-> 1]
Store(src)         == [op |-> "StoreVec", src |-> src, out |-> 0, len |-> 1]
Times(lhs, rhs)    == [op |-> "MulVec", lhs |-> lhs, rhs |-> rhs, dst |-> 2, len |-> 1]
Keep(lhs, dst)     == [op |-> "MulScalarVec", lhs |-> lhs, val |-> 256, dst |-> dst, len |-> 1]
Scale(src)         == [op |-> "BlockScale", src |-> src, dst |-> 0, len |-> 1]

(* Layers that remember: the product with the token before, and the token  *)
(* before.  Layers that do not: the product with a parameter, and a token  *)
(* whose block is scaled, which panics for -32768 when overflow is checked. *)
Product  == <<Load(0, 1), Times(0, 1), Keep(1, 0), Store(2)>>
Delay    == <<Store(2), Load(0, 2)>>
Weighted == <<Load(0, 0), Load(1, 1), Times(0, 1), Store(2)>>
Scaled   == <<Load(0, 2), Scale(2), Store(2)>>

Remembering == <<Product, Delay, Weighted, Product>>
NegateThird == <<<<>>, <<>>, <<-256>>, <<>>>>
FiveRows    == <<<<256>>, <<-32767>>, <<-256>>, <<32767>>, <<-256>>>>

(* Saturation in the first layer turns the third row into -32768, and the  *)
(* fourth row is missing. *)
Scaling       == <<Weighted, Scaled, Weighted>>
LargeThenNegate == <<<<32767>>, <<>>, <<-256>>>>
ThreeRows     == <<<<256>>, <<-256>>, <<-32767>>>>

AllOne == [i \in Layers |-> 1]
=============================================================================
