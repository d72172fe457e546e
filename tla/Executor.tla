------------------------------ MODULE Executor ------------------------------
(***************************************************************************)
(* The virtual machine, Executor (src/src/executor.rs): execute and        *)
(* execute_i8 on one graph, one instruction per step, over any number of   *)
(* calls.  The scratchpads live as long as the executor, so what a call    *)
(* leaves there is what the next one finds.  A panic unwinds to the caller *)
(* (PyO3 makes an exception of it), which may then call again.             *)
(*                                                                         *)
(* The safe slices of the code panic out of bounds.  The vector kernels    *)
(* take raw slices: out of bounds, or with operands that partly overlap    *)
(* the destination, their behaviour is undefined, and so is everything     *)
(* after it (status "undefined").  With operands in bounds that are the    *)
(* destination or disjoint from it, the SIMD lanes, the scalar tail and    *)
(* the rayon chunks of a kernel compute the same pointwise result.         *)
(***************************************************************************)
EXTENDS Kernels

CONSTANTS
  Graphs,      \* the graphs that occur: [instructions, memory_size]
  InputSet,    \* the input buffers that occur
  OutputLens,  \* the lengths of the output buffer that occur
  Calls,       \* the entry points used: subset of {"execute", "execute_i8"}
  Builds,      \* whether overflow is checked: FALSE in release, TRUE in debug builds
  MaxCalls     \* bound on the number of calls, for model checking

ASSUME ExecutorAssumption ==
  /\ \A g \in Graphs : g.instructions \in Seq(OpCode) /\ g.memory_size \in Nat
  /\ \A a \in InputSet : IsFiniteSet(DOMAIN a) /\ a \in [0 .. Size(a) - 1 -> I16]
  /\ OutputLens \subseteq Nat /\ MaxCalls \in Nat

VARIABLES
  graph,
  status,      \* "idle", "running", "ok", "panicked", "overflow", "undefined"
  call,        \* the entry point of the last call, or "none"
  calls,       \* number of calls so far
  ip,          \* next instruction
  inputs, outputs,
  memory, memory_i8, memory_i32, memory_f32

control == <<graph, call, calls, inputs>>
scratch == <<memory, memory_i8, memory_i32, memory_f32>>
vars == <<control, status, ip, outputs, scratch>>

buffers == [i16 |-> memory, i8 |-> memory_i8, i32 |-> memory_i32, f32 |-> memory_f32,
            out |-> outputs]

Become(p) ==
  /\ memory' = p.i16 /\ memory_i8' = p.i8 /\ memory_i32' = p.i32 /\ memory_f32' = p.f32
  /\ outputs' = p.out

Init ==
  /\ graph \in Graphs
  /\ memory = Zeros(graph.memory_size)       \* Executor::new(graph.memory_size)
  /\ memory_i8 = <<>> /\ memory_i32 = <<>> /\ memory_f32 = <<>>
  /\ status = "idle" /\ call = "none" /\ calls = 0 /\ ip = 1
  /\ inputs = <<>> /\ outputs = <<>>

-----------------------------------------------------------------------------
(* Calls.  ensure_buffers grows the scratchpads the graph needs.           *)
Program == {graph.instructions[k] : k \in DOMAIN graph.instructions}

NeedsI8  == \E i \in Program : i.op \in {"LoadVarVec8", "StoreVec8"} \union VecI8Ops
NeedsI32 == \E i \in Program : i.op = "AIOStep" /\ i.prec = 2
NeedsF32 == \E i \in Program : i.op \in BlockOps

(* Fault: memory_i8 is sized in units of the i16 scratchpad. *)
EnsureHalfI8 ==
  /\ memory' = Grow(memory, graph.memory_size)
  /\ memory_i8' = IF NeedsI8 THEN Grow(memory_i8, graph.memory_size \div 2) ELSE memory_i8
  /\ memory_i32' = IF NeedsI32 THEN Grow(memory_i32, graph.memory_size) ELSE memory_i32
  /\ memory_f32' = IF NeedsF32 THEN Grow(memory_f32, graph.memory_size \div BlockLen + 1)
                               ELSE memory_f32

EnsureBuffers ==
  /\ memory' = Grow(memory, graph.memory_size)
  /\ memory_i8' = IF NeedsI8 THEN Grow(memory_i8, graph.memory_size) ELSE memory_i8
  /\ memory_i32' = IF NeedsI32 THEN Grow(memory_i32, graph.memory_size) ELSE memory_i32
  /\ memory_f32' = IF NeedsF32 THEN Grow(memory_f32, graph.memory_size \div BlockLen + 1)
                               ELSE memory_f32

Begin(entry) ==
  /\ entry \in Calls
  /\ status \in {"idle", "ok", "panicked", "overflow"} /\ calls < MaxCalls
  /\ status' = "running" /\ call' = entry /\ calls' = calls + 1 /\ ip' = 1
  /\ UNCHANGED graph

(* The caller keeps its output buffer and resizes it when it has to.       *)
Execute ==
  /\ Begin("execute")
  /\ inputs' \in InputSet
  /\ \E n \in OutputLens : outputs' = Resize(outputs, n)
  /\ EnsureBuffers

(* execute_i8 uses neither its inputs nor its outputs nor ensure_buffers.  *)
ExecuteI8 ==
  /\ Begin("execute_i8")
  /\ UNCHANGED <<inputs, outputs, scratch>>

Return ==
  /\ status = "running" /\ ip > Len(graph.instructions)
  /\ status' = "ok"
  /\ UNCHANGED <<control, ip, outputs, scratch>>

-----------------------------------------------------------------------------
(* Instructions.  One has its effect and the next one is due, or it stops  *)
(* the call, before it has changed anything unless stated otherwise.       *)
ins == graph.instructions[ip]

At(entry, ops) ==
  /\ status = "running" /\ call = entry
  /\ ip <= Len(graph.instructions) /\ ins.op \in ops
  /\ UNCHANGED control

Perform(i) == Become(Effect(i, buffers, inputs)) /\ ip' = ip + 1 /\ UNCHANGED status

StopAfter(p, why) == Become(p) /\ status' = why /\ UNCHANGED ip
Stop(why) == StopAfter(buffers, why)

(* Every cell an instruction touches through raw slices exists.            *)
Pad(cell) == buffers[cell[1]]
Allocated(i) == \A cell \in Touches(i) \ Scales(i) : cell[2] \in DOMAIN Pad(cell)
Sound(i) == Allocated(i) /\ Tidy(i)

(* Fault: the last element is left out. *)
LoadShort ==
  /\ At("execute", {"LoadVar", "LoadVarVec"})
  /\ IF Fits(inputs, ins.var, ins.len) /\ Fits(memory, ins.dst, ins.len)
     THEN Perform([ins EXCEPT !.len = @ - 1]) ELSE Stop("panicked")

Load ==
  /\ At("execute", {"LoadVar", "LoadVarVec"})
  /\ IF Fits(inputs, ins.var, ins.len) /\ Fits(memory, ins.dst, ins.len)
     THEN Perform(ins) ELSE Stop("panicked")

Store ==
  /\ At("execute", {"Store", "StoreVec"})
  /\ IF Fits(memory, ins.src, ins.len) /\ Fits(outputs, ins.out, ins.len)
     THEN Perform(ins) ELSE Stop("panicked")

Fill ==
  /\ At("execute", {"FillVec"})
  /\ IF Fits(memory, ins.dst, ins.len) THEN Perform(ins) ELSE Stop("panicked")

Scalar ==
  /\ At("execute", ScalarOps)
  /\ IF Allocated(ins) THEN Perform(ins) ELSE Stop("panicked")

Vector ==
  /\ At("execute", VecBinOps \union VecOneOps)
  /\ IF Sound(ins) THEN Perform(ins) ELSE Stop("undefined")

Load8 ==
  /\ At("execute", {"LoadVarVec8"})
  /\ IF Fits(inputs, ins.var, ins.len) /\ Fits(memory_i8, ins.dst, ins.len)
     THEN Perform(ins) ELSE Stop("panicked")

Store8 ==
  /\ At("execute", {"StoreVec8"})
  /\ IF Fits(memory_i8, ins.src, ins.len) /\ Fits(outputs, ins.out, ins.len)
     THEN Perform(ins) ELSE Stop("panicked")

(* The kernels of execute and of execute_i8 on memory_i8 are the same.     *)
Vector8 ==
  /\ At("execute", VecI8Ops) \/ At("execute_i8", VecI8Ops)
  /\ IF Sound(ins) THEN Perform(ins) ELSE Stop("undefined")

(* execute_i8 passes over every other instruction.                         *)
SkipI8 ==
  /\ status = "running" /\ call = "execute_i8"
  /\ ip <= Len(graph.instructions) /\ ins.op \notin VecI8Ops
  /\ ip' = ip + 1
  /\ UNCHANGED <<control, status, outputs, scratch>>

-----------------------------------------------------------------------------
(* Optimizer steps. *)
AdamWStep ==
  /\ At("execute", {"AdamWStep"})
  /\ IF Sound(ins) THEN Perform(ins) ELSE Stop("undefined")

(* a[m..].split_at_mut(v - m), then a slice of length len of either part:  *)
(* the moments are in the array, the second one after the first.           *)
SplitMoments(a) ==
  ins.m + ins.len <= ins.v /\ Fits(a, ins.m, ins.len) /\ Fits(a, ins.v, ins.len)

AIOStep ==
  /\ At("execute", {"AIOStep"})
  /\ CASE ~SplitMoments(buffers[MomentPad(ins)]) -> Stop("panicked")
       [] SplitMoments(buffers[MomentPad(ins)]) /\ ~Sound(ins) -> Stop("undefined")
       [] OTHER -> Perform(ins)

-----------------------------------------------------------------------------
(* Block floating point.  A panic comes after the blocks and elements      *)
(* before it have been dealt with.                                         *)
UpTo(k) == 0 .. k - 1

InBounds(b) ==
  b \in DOMAIN memory_f32 /\ \A k \in BlockLanes(ins, b) : ins.src + k \in DOMAIN memory

BadBlocks(checked) ==
  {b \in Blocks(ins) :
     InBounds(b) => checked /\ \E k \in BlockLanes(ins, b) : memory[ins.src + k] = I16Min}

BlockScale ==
  /\ At("execute", {"BlockScale"})
  /\ \E checked \in Builds :
       LET bad == BadBlocks(checked) IN
       IF bad = {} THEN Perform(ins)
       ELSE StopAfter(ScaleBlocks(ins, buffers, UpTo(Min(bad))),
                      IF InBounds(Min(bad)) THEN "overflow" ELSE "panicked")

(* The elements without a scale, and those whose gradient has a square     *)
(* beyond i32: there the first moment has been updated already.            *)
NoScale == {k \in Lanes(ins) : ins.s + k \div BlockLen \notin DOMAIN memory_f32}

TooSteep ==
  {k \in Lanes(ins) \ NoScale : Abs(Gradient(ins, buffers, k)) > CheckedRoot}

FirstMomentOf(k) ==
  LET done == Step(ins, buffers, UpTo(k))
      one  == Step(ins, buffers, UpTo(k + 1))
  IN  [done EXCEPT !.i16[ins.m + k] = one.i16[ins.m + k]]

AIOStepBlock ==
  /\ At("execute", {"AIOStepBlock"})
  /\ \E checked \in Builds :
       LET steep == IF checked THEN TooSteep ELSE {}
           bad   == NoScale \union steep
       IN  CASE ~Sound(ins) -> Stop("undefined")
             [] Sound(ins) /\ ins.s > Size(memory_f32) -> Stop("panicked")
             [] Sound(ins) /\ ins.s <= Size(memory_f32) /\ bad = {} -> Perform(ins)
             [] OTHER ->
                  IF Min(bad) \in steep THEN StopAfter(FirstMomentOf(Min(bad)), "overflow")
                  ELSE StopAfter(Step(ins, buffers, UpTo(Min(bad))), "panicked")

-----------------------------------------------------------------------------
Instruction ==
  \/ Load  \/ Store  \/ Fill \/ Scalar \/ Vector
  \/ Load8 \/ Store8 \/ Vector8 \/ SkipI8
  \/ AdamWStep \/ AIOStep \/ BlockScale \/ AIOStepBlock

Next == Execute \/ ExecuteI8 \/ Return \/ Instruction

Spec == Init /\ [][Next]_vars

-----------------------------------------------------------------------------
TypeOK ==
  /\ status \in {"idle", "running", "ok", "panicked", "overflow", "undefined"}
  /\ call \in Calls \union {"none"} /\ calls \in 0 .. MaxCalls
  /\ ip \in 1 .. Len(graph.instructions) + 1
  /\ inputs \in InputSet \union {<<>>}
  /\ \A k \in DOMAIN memory : memory[k] \in I16
  /\ \A k \in DOMAIN memory_i8 : memory_i8[k] \in I8
  /\ \A k \in DOMAIN memory_f32 : memory_f32[k] \in 0 .. I16Max
  /\ \A k \in DOMAIN outputs : outputs[k] \in I16

(* The cells that the instructions in ops touch. *)
CellsOf(ops) == UNION {Touches(i) : i \in {j \in Program : j.op \in ops}}

(* The buffers of the call are as long as the loads and stores need.       *)
BuffersFit ==
  \A i \in Program :
    /\ i.op \in {"LoadVar", "LoadVarVec", "LoadVarVec8"} => Fits(inputs, i.var, i.len)
    /\ Stores(i) \subseteq DOMAIN outputs

(* Kernels with tensors apart, the moments of AIOStep in their order.      *)
TidyProgram ==
  \A i \in Program : Tidy(i) /\ (i.op = "AIOStep" => i.m + i.len <= i.v)

(* No tensor is empty: an empty one beyond the scratchpad has no cells for *)
(* the planner to count, but a slice of it is out of bounds.               *)
NoneEmpty == \A i \in Program : i.len > 0

(* Block steps take their scales from where BlockScale puts them.          *)
ScalesAtFront == \A i \in Program : i.op = "AIOStepBlock" => i.s = 0

(* The memory planner gives enough memory to a graph without empty tensors *)
(* in which the instructions it does not count (planner.rs:230-238) only   *)
(* work on the tensors of those it counts, and ensure_buffers enough       *)
(* scales: no kernel ever leaves the scratchpad, and a call can fail only  *)
(* for buffers that are too short or an overflow that a debug build checks. *)
PlannedSafe ==
  /\ graph = Plan(graph.instructions)
  /\ NoneEmpty /\ TidyProgram /\ ScalesAtFront
  /\ UNION {Touches(i) \ Scales(i) : i \in Program} \subseteq CellsOf(CountedOps)
  => /\ status # "undefined"
     /\ call = "execute" /\ BuffersFit => status # "panicked"

(* The scratchpads and the output buffer are never cleared between calls,  *)
(* yet a graph that writes every cell before it reads it and stores every  *)
(* output computes what it would on fresh buffers: no earlier call,        *)
(* whether it returned, panicked half-way or was one of execute_i8, shows  *)
(* in the outputs of a later one.                                          *)
ComputesMeaning ==
  /\ status = "ok" /\ call = "execute"
  /\ DefinedBeforeUse(graph.instructions)
  /\ DOMAIN outputs \subseteq StoredBy(graph.instructions, Len(graph.instructions))
  => outputs = Run(graph.instructions, NewBuffers(graph.memory_size, Size(outputs)), inputs).out

(* execute_i8 leaves the sizing of memory_i8 to execute: in a graph with   *)
(* memory for its i8 tensors, its kernels leave the scratchpad only when   *)
(* no call of execute has come before.                                     *)
SizedByExecute ==
  /\ TidyProgram
  /\ \A cell \in CellsOf(VecI8Ops) : cell[2] < graph.memory_size
  /\ call = "execute_i8" /\ status = "undefined"
  => memory_i8 = <<>>

(* memory_size is the required scratchpad memory size (ir.rs:79): with     *)
(* buffers that are long enough, no call on a planned graph fails.         *)
PlanIsEnough ==
  graph = Plan(graph.instructions) /\ call = "execute" /\ BuffersFit
    => status \notin {"panicked", "undefined"}
=============================================================================
