------------------------------ MODULE MCNative ------------------------------
(***************************************************************************)
(* Programs of one load, one to three instructions and a store, on up to   *)
(* four cells.  They work in place or not, on tensors that are apart or    *)
(* overlap, of one length or several; scalar instructions stand between    *)
(* loops; some instructions are unknown to the compilers.                  *)
(***************************************************************************)
EXTENDS Native

LoadOf(var, dst, len)  == [op |-> "LoadVarVec", var |-> var, dst |-> dst, len |-> len]
StoreOf(src, out, len) == [op |-> "StoreVec", src |-> src, out |-> out, len |-> len]
BinOf(op, lhs, rhs, dst, len) ==
  [op |-> op, lhs |-> lhs, rhs |-> rhs, dst |-> dst, len |-> len]
OneOf(op, lhs, val, dst, len) ==
  [op |-> op, lhs |-> lhs, val |-> val, dst |-> dst, len |-> len]
AdamWOf(w, g, m, v, len) ==
  [op |-> "AdamWStep", w |-> w, g |-> g, m |-> m, v |-> v, len |-> len]

Pairs ==
  {BinOf("AddVec", lhs, rhs, dst, 2) : lhs \in {0, 2}, rhs \in {0, 2}, dst \in {0, 2}}
    \union {BinOf("MulVec", 0, 2, dst, 2) : dst \in {0, 2}}
    \union {OneOf("AddScalarVec", 0, 300, 2, 2), OneOf("MulScalarVec", 2, -512, 0, 2)}

Rest ==
  {BinOf("AddVec", 0, 1, 1, 2), BinOf("MulVec", 1, 0, 2, 2),
   BinOf("AddVec", 0, 0, 0, 3), BinOf("MulVec", 1, 1, 1, 3),
   AdamWOf(0, 1, 2, 3, 1), OneOf("AddScalarVec", 1, -40, 1, 1), BinOf("AddVec", 2, 2, 2, 0)}

Unknown == {BinOf("Add", 0, 1, 3, 1), BinOf("GradAdd", 0, 2, 2, 2)}

Bodies ==
  {<<a, b>> : a \in Pairs \union Rest, b \in Pairs \union Rest \union Unknown}
    \union {<<a, BinOf("Add", 0, 1, 3, 1), b>> : a, b \in Pairs}
    \union {<<AdamWOf(0, 1, 2, 3, 1), AdamWOf(0, 1, 2, 3, 1)>>}

SomePrograms == {<<LoadOf(0, 0, 4)>> \o body \o <<StoreOf(0, 1, 2)>> : body \in Bodies}

(* A load, a sum, a store: the graph of xim_torch.py for x + x. *)
TorchProgram == {<<LoadOf(0, 0, 2), BinOf("AddVec", 0, 0, 2, 2), StoreOf(2, 0, 2)>>}

Buffer(s) == [k \in 0 .. Len(s) - 1 |-> s[k + 1]]

SomeInputs == {Buffer(<<256, -300, 512, 77>>), Buffer(<<32767, -32768, -3, 700>>)}
AllInputs  == SomeInputs \union {Buffer(<<9>>)}
=============================================================================
