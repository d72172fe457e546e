------------------------------ MODULE Lowering ------------------------------
(***************************************************************************)
(* The TorchDynamo backend, XimBackend.compile (src/xim_torch.py): the     *)
(* lowering of an FX graph to instructions, node by node.                  *)
(*                                                                         *)
(* A node is a record: placeholder and get_attr with their numel; a call   *)
(* with its function ("add", "mul" or another), its two arguments and its  *)
(* numel; the output with the node it returns.  An argument is a node or   *)
(* a scalar, here already converted: int(float(scalar_val) * 256.0).       *)
(***************************************************************************)
EXTENDS Kernels

CONSTANTS
  FxGraphs,  \* the FX graphs that occur
  InputSet   \* the input buffers that occur

Argument == [kind : {"node"}, of : Nat] \union [kind : {"scalar"}, of : Int]

FxNode ==
  [op : {"placeholder", "get_attr"}, numel : Nat]
    \union [op : {"call"}, fn : STRING, lhs : Argument, rhs : Argument, numel : Nat]
    \union [op : {"output"}, of : Nat]

(* What torch.fx promises: the graph ends with its output, nodes use nodes *)
(* before them, and a call of two numbers is not traced.                   *)
IsFxGraph(graph) ==
  /\ graph \in Seq(FxNode) /\ graph # <<>>
  /\ \A n \in DOMAIN graph :
       /\ graph[n].op = "output" <=> n = Len(graph)
       /\ graph[n].op = "output" => graph[n].of \in 1 .. n - 1
       /\ graph[n].op = "call" =>
            /\ \A arg \in {graph[n].lhs, graph[n].rhs} : arg.kind = "node" => arg.of \in 1 .. n - 1
            /\ "node" \in {graph[n].lhs.kind, graph[n].rhs.kind}

ASSUME LoweringAssumption ==
  /\ \A graph \in FxGraphs : IsFxGraph(graph)
  /\ \A a \in InputSet : IsFiniteSet(DOMAIN a) /\ a \in [0 .. Size(a) - 1 -> I16]

VARIABLES
  fx,              \* the FX graph
  pos,             \* the next node of the second pass, 0 in the first pass
  node_to_offset,  \* partial function on the positions of nodes
  memory_offset, output_size,
  emitted,         \* the instructions given to the compiler
  status           \* "lowering", "lowered", "raised"

vars == <<fx, pos, node_to_offset, memory_offset, output_size, emitted, status>>

Init ==
  /\ fx \in FxGraphs
  /\ pos = 0 /\ node_to_offset = <<>>
  /\ memory_offset = 0 /\ output_size = 0
  /\ emitted = <<>> /\ status = "lowering"

-----------------------------------------------------------------------------
(* The inputs of the engine: [dynamic_inputs..., static_params...].  For   *)
(* each n, the elements of the nodes of a kind among the first n.          *)
IsInput(n) == fx[n].op \in {"placeholder", "get_attr"}

Elements(op) ==
  LET sum[n \in 0 .. Len(fx)] ==
        IF n = 0 THEN 0
        ELSE IF fx[n].op = op THEN sum[n - 1] + fx[n].numel ELSE sum[n - 1]
  IN  sum

param_start_offset == Elements("placeholder")[Len(fx)]

InputLen == param_start_offset + Elements("get_attr")[Len(fx)]

(* Where the tensor of an input node begins. *)
InputOffset(n) ==
  (IF fx[n].op = "placeholder" THEN 0 ELSE param_start_offset) + Elements(fx[n].op)[n - 1]

FirstPass ==
  /\ status = "lowering" /\ pos = 0
  /\ node_to_offset' = [n \in {m \in DOMAIN fx : IsInput(m)} |-> InputOffset(n)]
  /\ pos' = 1
  /\ UNCHANGED <<fx, memory_offset, output_size, emitted, status>>

-----------------------------------------------------------------------------
(* The second pass. *)
AtNode(ops) ==
  /\ status = "lowering" /\ pos \in DOMAIN fx /\ fx[pos].op \in ops
  /\ UNCHANGED fx

node == fx[pos]

Has(n)     == n \in DOMAIN node_to_offset
Emits(ins) == emitted' = Append(emitted, ins)
Goes       == pos' = pos + 1

Placed(offset) ==
  node_to_offset' = [n \in DOMAIN node_to_offset \union {pos} |->
                       IF n = pos THEN offset ELSE node_to_offset[n]]

(* Faults: memory is taken for one element only; it is given to the node,  *)
(* but the next node gets it as well.                                      *)
AllocOne ==
  /\ Placed(memory_offset)
  /\ memory_offset' = memory_offset + 1
AllocAgain ==
  /\ Placed(memory_offset)
  /\ memory_offset' = IF node.op = "call" THEN memory_offset ELSE memory_offset + node.numel

(* _alloc_mem: the memory of the node's tensor is its offset from now on.  *)
AllocMem ==
  /\ Placed(memory_offset)
  /\ memory_offset' = memory_offset + node.numel

(* The input index of the load is looked up after the memory of the node   *)
(* has taken its place.                                                    *)
LowerInput ==
  /\ AtNode({"placeholder", "get_attr"})
  /\ AllocMem /\ Goes
  /\ Emits([op |-> "LoadVarVec", var |-> node_to_offset'[pos], dst |-> memory_offset,
            len |-> node.numel])
  /\ UNCHANGED <<output_size, status>>

AtBinOp == AtNode({"call"}) /\ node.fn \in {"add", "mul"}

(* A call whose operand has no memory emits nothing, and neither does a    *)
(* function that is not known: the node has no memory either.              *)
Skip == Goes /\ UNCHANGED <<node_to_offset, memory_offset, output_size, emitted, status>>

SkipUnknown == AtNode({"call"}) /\ node.fn \notin {"add", "mul"} /\ Skip

AllNodes == node.lhs.kind = "node" /\ node.rhs.kind = "node"

LowerVec ==
  /\ AtBinOp /\ AllNodes
  /\ IF ~Has(node.lhs.of) \/ ~Has(node.rhs.of) THEN Skip
     ELSE /\ AllocMem /\ Goes
          /\ Emits([op |-> IF node.fn = "add" THEN "AddVec" ELSE "MulVec",
                    lhs |-> node_to_offset[node.lhs.of], rhs |-> node_to_offset[node.rhs.of],
                    dst |-> memory_offset, len |-> node.numel])
          /\ UNCHANGED <<output_size, status>>

(* A scalar that is not an i16 is refused by the bindings, after the       *)
(* memory has been taken.                                                  *)
LowerScalar ==
  /\ AtBinOp /\ ~AllNodes
  /\ LET scalar == IF node.lhs.kind = "scalar" THEN node.lhs ELSE node.rhs
         vec    == IF node.lhs.kind = "scalar" THEN node.rhs ELSE node.lhs
     IN  IF vec.kind # "node" \/ ~Has(vec.of) THEN Skip
         ELSE /\ AllocMem /\ UNCHANGED output_size
              /\ IF scalar.of \notin I16
                 THEN status' = "raised" /\ UNCHANGED <<pos, emitted>>
                 ELSE /\ Goes /\ UNCHANGED status
                      /\ Emits([op |-> IF node.fn = "add" THEN "AddScalarVec" ELSE "MulScalarVec",
                                lhs |-> node_to_offset[vec.of], val |-> scalar.of,
                                dst |-> memory_offset, len |-> node.numel])

(* Of several results the first is stored; without memory, none.           *)
LowerOutput ==
  /\ AtNode({"output"}) /\ Goes
  /\ IF Has(node.of)
     THEN /\ Emits([op |-> "StoreVec", src |-> node_to_offset[node.of], out |-> 0,
                    len |-> fx[node.of].numel])
          /\ output_size' = fx[node.of].numel
     ELSE UNCHANGED <<emitted, output_size>>
  /\ UNCHANGED <<node_to_offset, memory_offset, status>>

Finish ==
  /\ status = "lowering" /\ pos > Len(fx)
  /\ status' = "lowered"
  /\ UNCHANGED <<fx, pos, node_to_offset, memory_offset, output_size, emitted>>

Next ==
  \/ FirstPass \/ LowerInput \/ SkipUnknown \/ LowerVec \/ LowerScalar \/ LowerOutput
  \/ Finish

Spec == Init /\ [][Next]_vars

-----------------------------------------------------------------------------
(* What the FX graph says: the value of each node, or Opaque when a        *)
(* function that is not known is part of it.                               *)
Opaque == <<"opaque">>

Apply(fn, a, b) == Combine(IF fn = "add" THEN "AddVec" ELSE "MulVec", a, b)

Operand(values, arg, k) == IF arg.kind = "scalar" THEN arg.of ELSE values[arg.of][k]

OpaqueArg(values, arg) == arg.kind = "node" /\ values[arg.of] = Opaque

ValueOf(values, n, inputs) ==
  LET it == fx[n] IN
  CASE it.op \in {"placeholder", "get_attr"} -> Slice(inputs, InputOffset(n), it.numel)
    [] it.op = "output" -> values[it.of]
    [] it.op = "call" ->
         IF it.fn \notin {"add", "mul"} \/ OpaqueArg(values, it.lhs) \/ OpaqueArg(values, it.rhs)
         THEN Opaque
         ELSE [k \in 0 .. it.numel - 1 |->
                 Apply(it.fn, Operand(values, it.lhs, k), Operand(values, it.rhs, k))]

FxValues(inputs) ==
  LET value[n \in DOMAIN fx] == ValueOf(value, n, inputs) IN value

FxResult(inputs) == FxValues(inputs)[Len(fx)]

(* Every input is loaded before the first call, those of the caller before *)
(* the parameters, and no operand is broadcast.                            *)
InputsInOrder ==
  \A m, n \in DOMAIN fx : m < n /\ IsInput(n) =>
    fx[m].op \in {"placeholder", fx[n].op}

SameSizes ==
  \A n \in DOMAIN fx : fx[n].op = "call" =>
    \A arg \in {fx[n].lhs, fx[n].rhs} : arg.kind = "node" => fx[arg.of].numel = fx[n].numel

(* The load of a node takes the memory offset of the node for its input    *)
(* index (xim_torch.py:54-57).  Where the inputs come first and in order   *)
(* the two are the same, and the program stores what the FX graph says, or *)
(* it stores nothing at all, which only happens when the result depends on *)
(* a function that is not known: never a wrong value.                      *)
StoresFxResult ==
  status = "lowered" /\ InputsInOrder /\ SameSizes =>
    \A inputs \in InputSet : Size(inputs) = InputLen =>
      IF \A n \in DOMAIN emitted : emitted[n].op # "StoreVec"
      THEN FxResult(inputs) = Opaque
      ELSE Run(emitted, NewBuffers(Plan(emitted).memory_size, output_size), inputs).out
             = FxResult(inputs)

(* Broadcast operands aside, every lowered program is one on which the     *)
(* virtual machine and the native code agree: cells are written before     *)
(* they are read, tensors are equal or apart, in the planned memory, and   *)
(* the output is stored from end to end.  The loads are inside the inputs  *)
(* where these come first and in order.                                    *)
FitForEngine ==
  status = "lowered" /\ SameSizes =>
    /\ DefinedBeforeUse(emitted)
    /\ \A n \in DOMAIN emitted :
         /\ Tidy(emitted[n])
         /\ \A cell \in Touches(emitted[n]) : cell[2] < Plan(emitted).memory_size
         /\ InputsInOrder /\ emitted[n].op = "LoadVarVec"
              => emitted[n].var + emitted[n].len <= InputLen
    /\ StoredBy(emitted, Len(emitted)) = 0 .. output_size - 1
=============================================================================
