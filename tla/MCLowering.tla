----------------------------- MODULE MCLowering -----------------------------
(***************************************************************************)
(* FX graphs of two inputs, two calls and an output, the inputs of one or  *)
(* two elements each, placeholders and parameters in any order, the second *)
(* of them before or after the first call.                                 *)
(***************************************************************************)
EXTENDS Lowering

Leaf(n) == {[op |-> op, numel |-> n] : op \in {"placeholder", "get_attr"}}

(* Two inputs of two elements, or one of them with one element. *)
Leaves ==
  (Leaf(2) \X Leaf(2)) \union {<<[op |-> "placeholder", numel |-> 1], b>> : b \in Leaf(2)}

Node(n)   == [kind |-> "node", of |-> n]
Scalar(q) == [kind |-> "scalar", of |-> q]

Call(fn, a, b, numel) == [op |-> "call", fn |-> fn, lhs |-> a, rhs |-> b, numel |-> numel]

(* The pairs of arguments over the nodes of a set, one of them a node.     *)
Args(nodes) ==
  {<<Node(a), Node(b)>> : a, b \in nodes}
    \union UNION {{<<Node(a), Scalar(300)>>, <<Scalar(300), Node(a)>>} : a \in nodes}
    \union {<<Node(Min(nodes)), Scalar(40000)>>}

Calls(nodes, numel) ==
  {Call(fn, args[1], args[2], numel) : fn \in {"add", "mul", "sin"}, args \in Args(nodes)}

Output(n) == [op |-> "output", of |-> n]

Together ==
  {<<l[1], l[2], c, d, Output(n)>> :
     l \in Leaves, c \in Calls({1, 2}, 2), d \in Calls({2, 3}, 2), n \in {3, 4}}

Between ==
  {<<l[1], c, l[2], d, Output(n)>> :
     l \in Leaves, c \in Calls({1}, 2), d \in Calls({2, 3}, 2), n \in {3, 4}}

SomeGraphs == Together \union Between

SomeInputs == {[k \in 0 .. n - 1 |-> <<700, -300, 32767, 1>>[k + 1]] : n \in 3 .. 4}
=============================================================================
