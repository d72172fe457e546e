----------------------------- MODULE PipelineVM -----------------------------
(***************************************************************************)
(* The pipeline composed with the virtual machine: what a layer's thread   *)
(* does with a token is a call of Executor::execute on the layer's graph   *)
(* (src/src/pipeline.rs), in the terms of Kernels.  The executor and the   *)
(* output buffer of a layer serve all the rows of the batch, and the       *)
(* layer's parameters follow the token in its input buffer.                *)
(*                                                                         *)
(* A layer's graph is planned and made of loads, stores, vector kernels    *)
(* and BlockScale, so that i8 and i32 scratchpads do not come into it.     *)
(***************************************************************************)
EXTENDS PipelineRef

CONSTANTS
  Programs,   \* per layer: the instructions of its graph
  Parameters, \* self.parameters
  OutSize,    \* self.layer_output_sizes
  BlockLen,   \* elements that share a scale
  Checked     \* whether overflow is checked, as in debug builds

(* No layer has an AIOStepBlock, which alone uses scales. *)
Unscaled(g, scale) == g

K == INSTANCE Kernels WITH Scaled <- Unscaled

MemorySize(i) == K!Plan(Programs[i]).memory_size

(* Executor::new and vec![0i16; out_size]; the scales are there from the   *)
(* start, where ensure_buffers adds them in the first call.                *)
FreshVM(i) ==
  LET p == K!NewBuffers(MemorySize(i), OutSize[i])
  IN  [mem |-> [i16 |-> p.i16, f32 |-> p.f32], out |-> [k \in 1 .. OutSize[i] |-> 0]]

(* input_buffer: the token, then the parameters. *)
InputBuffer(i, token) ==
  LET all == token \o Parameters[i] IN [k \in 0 .. Len(all) - 1 |-> all[k + 1]]

(* Whether an instruction panics on the buffers p. *)
Panics(ins, p, inputs) ==
  CASE ins.op = "LoadVarVec" ->
         ~K!Fits(inputs, ins.var, ins.len) \/ ~K!Fits(p.i16, ins.dst, ins.len)
    [] ins.op = "StoreVec" ->
         ~K!Fits(p.i16, ins.src, ins.len) \/ ~K!Fits(p.out, ins.out, ins.len)
    [] ins.op = "BlockScale" ->
         Checked /\ \E k \in 0 .. ins.len - 1 : p.i16[ins.src + k] = K!I16Min
    [] OTHER -> FALSE

(* A call on the program ins: its effects one after the other, unless one  *)
(* of its instructions panics on what those before it have left.           *)
Call(ins, i, v, token) ==
  LET inputs == InputBuffer(i, token)
      before == [i16 |-> v.mem.i16, f32 |-> v.mem.f32,
                 out |-> [k \in 0 .. OutSize[i] - 1 |-> v.out[k + 1]]]
      stages == K!Stages(ins, before, inputs)
      after  == stages[Len(ins)]
  IN  IF \E k \in 1 .. Len(ins) : Panics(ins[k], stages[k - 1], inputs)
      THEN Panic
      ELSE [mem |-> [i16 |-> after.i16, f32 |-> after.f32],
            out |-> [k \in 1 .. OutSize[i] |-> after.out[k - 1]]]

(* Fault: what a used executor has loaded once is not loaded again. *)
VMExecWarm(i, v, token) ==
  Call(IF v.mem.i16 = FreshVM(i).mem.i16 THEN Programs[i]
       ELSE SelectSeq(Programs[i], LAMBDA ins : ins.op # "LoadVarVec"), i, v, token)

(* executor.execute on the layer's graph. *)
VMExec(i, v, token) == Call(Programs[i], i, v, token)

-----------------------------------------------------------------------------
(* The graphs of the layers, whose tensors are inside the scratchpads:     *)
(* Panics leaves accesses outside of them out, which a planned graph of    *)
(* counted instructions does not make.  A layer's thread calls execute.    *)
LayerOps  == {"LoadVarVec", "StoreVec", "BlockScale"} \union K!VecBinOps \union K!VecOneOps
LayerCode == {ins \in K!OpCode : ins.op \in LayerOps}

Scratchpads(i) ==
  ({"i16"} \X DOMAIN FreshVM(i).mem.i16) \union ({"f32"} \X DOMAIN FreshVM(i).mem.f32)

ASSUME LayerAssumption ==
  /\ BlockLen \in Nat \ {0}
  /\ \A i \in Layers :
       /\ Programs[i] \in Seq(LayerCode)
       /\ OutSize[i] \in Nat
       /\ \A k \in DOMAIN Programs[i] : K!Touches(Programs[i][k]) \subseteq Scratchpads(i)
       /\ Fresh[i] = FreshVM(i)
       /\ \A v \in VMs, t \in Tokens : Exec(i, v, t) = VMExec(i, v, t)

-----------------------------------------------------------------------------
(* The layers write every cell before they read it, and all their outputs. *)
Stateless(i) ==
  /\ K!DefinedBeforeUse(Programs[i])
  /\ 0 .. OutSize[i] - 1 \subseteq K!StoredBy(Programs[i], Len(Programs[i]))

(* Row k computed alone, every layer on an executor of its own.            *)
Alone(k) ==
  LET row[i \in 0 .. NumLayers] == IF i = 0 THEN Inputs[k + 1]
                                   ELSE VMExec(i, FreshVM(i), row[i - 1]).out
  IN  row[NumLayers]

(* A row of the result depends on its own row of the inputs only, although *)
(* nobody clears the scratchpads and output buffers between the rows and a *)
(* layer may be rows ahead of the next: with such layers it is what the    *)
(* row gives by itself (the executors live as long as the threads,         *)
(* pipeline.rs:73-77).                                                     *)
RowsAreIndependent ==
  (\A i \in Layers : Stateless(i)) => \A k \in 0 .. collected - 1 : outputs[k] = Alone(k)
=============================================================================
