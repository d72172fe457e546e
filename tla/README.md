# XIM: specifications, model checking, proofs

TLA+ modules of the XIM runtime (`src/`), the TLC configurations that check them
on small instances, and TLAPS proofs of what holds for every instance. Paths
below are relative to the repository.

Run `tlc -config X.cfg M` for a configuration of module `M` (the table of runs),
and `tlapm M.tla` for a proof module.

## 1. The system

XIM executes integer tensor programs. A client (PyTorch, JAX or Rust) builds a
graph of instructions, the planner sizes a scratchpad, and a virtual machine, a
Cranelift JIT or compiled Rust code runs the graph. Several graphs can be
chained in a pipeline of threads.

| Component | State | Operations | Correct means | Hard part |
|---|---|---|---|---|
| Pipeline (`pipeline.rs`) | per layer: chunk counter, input buffer, executor, output buffer; channels | `execute` | rows of the sequential run, in order; Ok only when complete | interleaving, bounded channels, panics of a thread |
| Virtual machine (`executor.rs`) | scratchpads `memory`, `memory_i8`, `memory_i32`, `memory_f32`, alive across calls | `execute`, `execute_i8`, one arm per OpCode | stays in its scratchpads; earlier calls do not show in later ones | raw slices, dirty memory, panics half-way, overflow of `abs` |
| Optimizer steps (`executor.rs`) | weight and two moments per element | AdamWStep, AIOStep (i16, i32), AIOStepBlock | moments in range, weights move the right way | truncation, wrap-around, long runs |
| IR and builder (`ir.rs`) | instruction list, planned size | `add_op`, `finalize`, save, load | the loaded graph is the one that was built | failures while saving |
| Memory planner (`planner.rs`) | none | `plan` | enough memory for the graph | instructions it does not count |
| Fusion (`planner.rs`) | register map of a group | `fuse`, `fuse_kernels`, `optimize` | same results as unfused | overlapping tensors, dropped instructions |
| Engine (`ffi.rs`) | parameters, input buffer, output buffer, backends | `set_parameter`, `compile_*`, `execute_graph_*` | graph runs on inputs followed by parameters | buffer that is refreshed by length only |
| Compiler bindings (`ffi.rs`) | builder, file | `add_*`, `compile_and_save` | one whole graph per compiler | failed saves, shared file |
| JIT (`jit.rs`), AOT (`aot.rs`) | native code, artifact files | `compile`, `execute` | same results as the virtual machine | threads and chunks, unsupported instructions, no bounds |
| Lowering (`xim_torch.py`) | offsets of nodes | `compile` | the graph computes what the FX graph says | offset bookkeeping |
| Quantizer, calibrator (`quant.rs`), stochastic rounding (`autograd.rs`) | observed range; generator state | conversions, `observe`, `get_scale` | bounded error, saturation, a generator that lives | edges of the range, NaN |
| Mmap loader, bootstrap, errors | file mapping; none | I/O | | |

Interactions: the lowering gives instructions to the compiler bindings; the
engine owns an executor and a graph read from the file that the compiler
bindings wrote, and native code made of the same graph; the pipeline owns one
executor per thread and calls `execute` on it once per chunk. Pipeline threads
share nothing but channels and the read-only inputs. Within one executor there
is no concurrency other than rayon chunks of one kernel, which touch disjoint
parts of the destination. The threads of an AOT loop share the scratchpad
without locks.

## 2. The modules

| Module | Models | Builds on |
|---|---|---|
| `Pipeline` | `PipelineExecutor::execute`: threads, channels, collecting loop, panics | |
| `PipelineRef` | the sequential run as reference; invariants, refinement, liveness | `Pipeline`, `LayerStream` |
| `LayerStream` | abstract specification: rows appear in order, then the call returns | |
| `PipelineVM` | the pipeline with layers that run on virtual machines | `PipelineRef`, `Kernels` |
| `FixedPoint` | integer arithmetic of the virtual machine: saturation, wrap-around, shifts, optimizer rules | |
| `XimIR` | instructions, what they read and write, `MemoryPlanner::plan` | |
| `Kernels` | what each instruction does to the scratchpads | `FixedPoint`, `XimIR` |
| `Executor` | the control of the virtual machine, an instruction per step, over several calls | `Kernels` |
| `Optimizer` | the optimizer instructions over a training run of one element | `FixedPoint` |
| `Fusion` | `LoopFuser` and `KernelFuser` | `XimIR` |
| `Native` | code of the JIT and of the AOT compiler, its threads, and calls of it | `Fusion`, `Kernels` |
| `Lowering` | `XimBackend.compile`, node by node | `Kernels` |
| `Compiler` | `XimCompiler`, the graph file, `XimEngine::new` | `XimIR` |
| `Engine` | `XimEngine`: parameters, input assembly, choice of backend | |
| `Quantization` | quantizer, calibrator, `Block32`, stochastic quantizer | `FixedPoint` |
| `Recursion` | lemmas: induction on the natural numbers, greatest elements, functions defined by recursion | |
| `PipelineProofs`, `OptimizerProofs`, `BindingsProofs` (of `Compiler` and `Engine`), `QuantizationProofs`, `ExecutorProofs`, `NativeProofs`, `LoweringProofs` | theorems and proofs | their components, `Recursion` |
| `MC*` | instances for TLC | |

No module declares a RECURSIVE operator. What the code does in a loop over a
list is a function defined by recursion on `0 .. n`: `Stages` (the buffers after
each instruction of a program), `LoopFuser` and `KernelFuser` (what the fusers
hold after each instruction), `Flat` (the concatenated parameters), `Low24` (the
number in the lower bits of a word). The proofs reason about these functions.

A definition preceded by a comment that begins with "Fault" is not part of the
model: it is a variant of the definition that follows, with a mistake one could
make in that code. Replacing the definition by it violates a property, as
`PROJECT.json` lists; this is how each property was shown to be able to fail.

### Pipeline

One action per statement of a layer's loop that other threads can notice:
`Fetch` (recv and copy, or the slice of the shared inputs), `Execute`, `Send` /
`SendFinal`; `FetchPanics` and `ExecutePanics` when the slice copy or the call
panics. The main thread has `Collect` and `Join`. What a layer computes is the
constant operator `Exec(layer, state, token)`, where the state is the executor's
scratchpad together with the output buffer, since both outlive a chunk.

The main thread keeps `senders`, `receivers`, `final_tx` and `final_rx` until
`execute` returns, so a channel is never disconnected while somebody waits. A
panicked layer therefore leaves everybody else waiting. This is what
`PanicHangs` states, and `ImplementsFairStream` adds that the rows that precede
the failure in the sequential run are still delivered.

`Ref` is the table of the sequential run. It is a constant constrained by its
recurrence (`RefAssumption`), so that no recursion gets into the proofs;
`MCPipeline` computes it.

`PipelineVM` gives `Exec`: `VMExec` runs the layer's planned graph through the
effects of `Kernels`, on the token followed by the layer's parameters, unless an
instruction panics on what those before it have left. `RowsAreIndependent` is what
one would like to know of the composition: nobody clears the scratchpads and
output buffers between rows, and yet each row is what it would be by itself, for
layers that write cells before they read them and store all their outputs. The
layers use loads, stores, vector kernels and `BlockScale`, on tensors inside the
scratchpads (`LayerAssumption`). The scales are in
the state from the start, where the code adds them in the first
`ensure_buffers`; the difference cannot be seen, since the first call comes
before any read.

Left out: the early return without layers; a slice copy of `final_outputs` that
fails because the last layer's outputs do not have its declared size (cannot
happen: `output_buffer` has that size).

### Virtual machine

`Kernels` says what an instruction does to the buffers; `Executor` says when it
gets to do so. It has an action for each arm of `execute`, arms with the same
shape sharing one. Safe slice accesses panic when out of bounds
(`Stop("panicked")`). Kernels over `from_raw_parts` have no checks: out of
bounds, or with operands that partly overlap what they write, the status becomes
`undefined` and nothing is claimed any more. An operand equal to the destination
is taken as pointwise: lanes, tails and chunks read an element before they write
it. `Execute` contains `ensure_buffers`. After a panic the caller may call
again; it finds what the panicked call left in the scratchpads and in the output
buffer. `execute_i8` passes over every instruction but its two kernels
(`SkipI8`) and still returns Ok.

`PlannedSafe` says when the memory planner gives enough memory. One of its
conditions was met in the proof: no tensor is empty (`NoneEmpty`). The planner
counts no cells for an empty tensor, wherever it lies, and yet a slice such as
`memory[9..9]` of a scratchpad of four panics.

`BlockScale` and `AIOStepBlock` handle blocks of `BlockLen` elements (32 in the
code). A cell of `memory_f32` holds a float of the form x / 32767.0 and is
represented by x. `abs()` of the smallest i16 wraps in a release build and
panics in a debug build: `Builds` holds the builds considered, and an overflow
that is checked gives the status `overflow`. Blocks that end early, scales from
beyond `memory_f32` and elements behind the last whole block are as in the code.

Data are functions on `0 .. n-1`, as indexed in the code. Scalar instructions
have an explicit length of 1.

Left out: offsets whose sums exceed u32; the inside of a kernel (SIMD lanes,
tails, rayon chunks).

### Optimizer

The elements of a tensor do not interact but for the scale of their block, so
one element suffices. The four rules are `AdamWStep`, `AIOStep16`, `AIOStep32`
and `AIOStepBlock`. `Regimes` holds the trainings considered: rules, gradients,
scales, weights, number of steps, and whether the graph loads its moments from
(zero) inputs, as the test and the demonstration do, or keeps them in the
scratchpad. Gradients of a block step are 256 times as fine as the others, so
that its update is cut for gradients above `BlockLimit`, where a weight may move the
wrong way; `Descends` claims nothing of those. `MeanExact` is about gradients that
are i16, which those of the first three rules all are; block gradients beyond that
are clamped at `executor.rs:331`, which does change the moment. `VarExact` is about
the `as i16` of AIOStep, which does not saturate as AdamWStep does: with gradients
up to `VarLimit` the mean of squares comes to rest before it leaves i16; from 2908
on it does not, and wraps.

### Fusion and native code

`Fusion` is the two fusers as functions on instruction lists: `LoopFuser` with
its map from offsets to registers, `KernelFuser` with its renumbering and its
passing over scalar `Add` and `Mul` behind a loop. `SuperFuser` returns its
argument and is left out.

`Native` compiles a program with one of the two and runs what comes out,
operation by operation. The differences between the compilers are those of the
code:

| | JIT | AOT |
|---|---|---|
| fusers | both | `LoopFuser` only |
| raw instructions | `LoadVarVec`, others dropped | `LoadVarVec`, `StoreVec`, others dropped |
| arithmetic | wraps | saturates |
| constants, AdamW in loops | yes | not emitted; registers stay zero |
| threads | one, loops test at the end | one per processor, each with a chunk |
| registers | as many as needed | 64; `rustc` refuses a larger index (`rejected`) |

The threads of an AOT loop interleave memory access by memory access. An access
outside its array ends the model of the run (`undefined`).

`AotAgrees` compares AOT code with the virtual machine, for programs that consist
of what the compiler has code for. Any other program is compiled to something
else, and `AotComputes` and `JitComputes` say to what: `Seen` (a recursive
function `Kept` over the program) is the program without the instructions that
the compiler drops (for the JIT the raw ones but `LoadVarVec`, so that stores are
lost; for AOT the raw ones but `LoadVarVec` and `StoreVec`, and AdamWStep), and
for AOT with 0 in place of each scalar constant, since `aot.rs:56` emits nothing
for `LoadConst`. The two properties show that fusion, registers and threads add
nothing to these losses. The losses themselves disagree with the virtual machine:
`native_store` shows a store that the JIT drops, and AOT code of x + c computes
x + 0.

Conditions of these properties: tensors that may share a loop are equal or apart
(`Apart`), and for the JIT no tensor is empty (`NoneEmpty`) and nothing saturates
(`Unsaturated`). They are not decoration: an element-wise loop over partly
overlapping tensors, or a sum that saturates (JIT code wraps, `jit.rs:103`),
does compute something else.

`StaysInside` relies on the planner for the scratchpad and on the caller for long
enough arrays (`BuffersDo`). The planner does not count the tensors of AdamWStep,
nor the element that a loop of the JIT touches in an empty tensor; for these the
scratchpad must happen to do. A raw copy needs both its slices to fit, empty ones
too: `ptr.add` beyond the end of a buffer is undefined even when nothing is copied.

Cranelift, `rustc`, the artifact paths and the dynamic loader are taken to work.

### Lowering

`Lowering` takes an FX graph through the two passes of `XimBackend.compile`.
The first pass gives every input node its place in the engine's inputs; the
second emits instructions. `LowerInput` has the order of the code: `_alloc_mem`
overwrites the node's input place with its memory offset, and the load uses
what it finds. While all inputs come before the first call, callers' inputs
before parameters, the two are equal; `StoresFxResult` claims a right result
only then. Graphs in which a parameter node comes after a call, or before a
placeholder, load from another place; they are among the graphs of the run, and
`FitForEngine` still claims of them that the program is planned, tidy and
defines what it reads. Calls of unknown functions, and those that depend on one,
emit nothing. A scalar that is not an i16 raises in the bindings. Shapes come as
`numel`, as in the code, so broadcasting is not expressed; `SameSizes` excludes
it from the properties. `_get_or_create_const` has no caller.

The graphs are those that torch.fx makes (`IsFxGraph`): the output comes last,
nodes use nodes before them, and a call of two numbers is never traced. `FxValues`
is the reference: what each node stands for, for given inputs, or `Opaque` where
an unknown function is involved. It is a recursion on the nodes and knows nothing
of offsets. `StoresFxResult` compares it with the run of the lowered program for
every buffer of `InputSet` that is as long as the graph's inputs.

### Engine and compiler

`Engine` takes tensors after quantization, an elementwise function of the
client's floats. Of a graph only the lengths it needs matter; a call with
shorter buffers panics in the virtual machine and is undefined in native code.
`Compiler` has two compilers because `xim_torch.py` names the file after the
process, so all compilations of a process share it. A failing `fs::write`
leaves the file alone or torn; a torn file never decodes, because the encoding
ends with `memory_size`. Its initial condition, actions and type invariant are
called `CInit`, `CNext`, `CSpec` and `CTypeOK`, so that `BindingsProofs` can extend
it beside `Engine`.

### Quantization

A float is an integer number of units of 1 / `Unit`, or NaN; a scale is a
fraction, or infinite: in f32, `32767.0 / x` overflows for an x below about
9.6e-35, and then every value but zero saturates. `Tiny` is the largest x of that
kind. Products are exact; the rounding of f32 and infinite inputs are left out.
`Block32::quantize` takes the peak of all it is given and the elements from the
first `BlockLen` (32 in the code) values; a shorter slice panics
(`QuantizeBlockPanics`). A cast
saturates and takes NaN to 0; `round` goes away from zero; comparisons with NaN
are false. A word of the generator is the set of its ones, shifts and
exclusive-or are operations on sets, and the draw is the integer made of the
lower 24 bits. The draw reaches 1.0, against the comment at `autograd.rs:20`
(a word with its lower 24 bits set, which the runs draw); `RoundsToNeighbour` holds nevertheless, whatever the draw.

## 3. What the runs show

| Run | Module, cfg | Bounds | Shows |
|---|---|---|---|
| `pipeline` | `MCPipeline`, `MCPipeline.cfg` | 4 layers on virtual machines, 5 chunks, channels of 2 | all interleavings agree with the sequential run; back-pressure; the call returns |
| `pipeline_panic` | `MCPipeline`, `MCPipelinePanic.cfg` | 3 layers, 4 chunks, debug build; a saturated value makes `BlockScale` panic, one row missing | rows before the failure are delivered and independent, then a hang |
| `optimizer` | `MCOptimizer`, `Optimizer.cfg` | eight trainings: gradients and scales at the limits for 6 and 4 steps, persistent gradients of 25 and 30 for 30 steps, block gradients that are i16 and not for 4, second moments that come to rest for 2000, mixed gradients up to `VarLimit` for 6, rising block gradients for 8, reloaded moments for 10 | moments in range, no overflow, narrowings that change nothing, descent |
| `optimizer_test` (violation) | `MCOptimizer`, `OptimizerTest.cfg` | the test's graph, 10 steps | the test's weight stays at 256 |
| `executor` | `MCExecutor`, `Executor.cfg` | several thousand programs over four scratchpads, blocks of 2, both entry points, both builds, 3 calls, 3 inputs, 3 output lengths | planned kernels stay in bounds; calls compute the meaning of the graph; who sizes `memory_i8` |
| `executor_plan` (violation) | `MCExecutor`, `ExecutorDemo.cfg` | the i8 demonstration graph | the planner gives it no memory |
| `native` | `MCNative`, `Native.cfg` | some 400 programs on up to 4 cells, 2 and 3 threads, 5 registers, 2 calls, buffers long enough and too short | AOT code of supported programs agrees with the virtual machine, all code with what its compiler has seen; no races; inside the arrays; calls return |
| `native_store` (violation) | `MCNative`, `NativeStore.cfg` | the graph of x + x | the JIT drops its store without an error |
| `lowering` | `MCLowering`, `Lowering.cfg` | FX graphs of five nodes: two inputs in any order, two calls, an output | the program computes the FX graph, or stores nothing; it fits the engine |
| `engine` | `MCEngine`, `Engine.cfg` | 2 parameters, tensors of 1 and 2 values, 6 operations | layout of preloaded parameters; late parameters |
| `compiler` | `MCCompiler`, `Compiler.cfg` | 2 compilers, 2 instructions each | engines get whole graphs |
| `quantization` | `MCQuantization`, `Quantization.cfg` | hundredths up to saturation, one of them with a scale that overflows, NaN, blocks of 3 from slices of 2 to 4, 5 operations, seeds that draw both ends | calibrated values and blocks fit, ways to i8 agree, rounding, generator |

Why the bounds are enough. Pipeline: the channels' capacity of 2 with 5 chunks
lets every channel be empty, partly filled, full, and wrap through more tokens
than it holds; 4 layers give a first, a last and two inner ones; three of them
remember earlier tokens in their scratchpads or output buffers, so a lost,
repeated or overtaken token changes later rows. Optimizer: six steps reach
wrap-around and saturation of all the moments that have them; the ranges for
longer runs are proved. With `VarLimit` as its gradient the second moment of
AIOStep16 is at rest, at 32755, within 2000 steps. From 25 on the mean settles at 16 or more, where `>> 4`
lets it through, within 30 steps; with 24 it never does. Executor: two calls
suffice to soil the scratchpads (or to panic half-way) and compare, the third
adds a call of the other entry point in between; blocks of two make programs
with a whole block and a rest small. Native: two threads split three
elements into two and one, three threads split two into one, one and none; two
calls run the second one on dirty memory; 5 registers let some programs fit and reject others.
Lowering: two calls give one that depends on another, on both inputs, on one of
them twice, or on a function that is not known. Engine: six operations are two
parameters, two calls and a change of each kind. Compiler: with two, each may
save, fail and be loaded between the other's steps. Quantization: `Tiny` is 1, so
that the smallest value has a scale that overflows and the next one has not; two
observations, a scale and a conversion are four operations, the fifth is any of
them in between.

The violation runs are disagreements between the code and what its documents or
tests say. `PROJECT.json` quotes each of them under `findings`.

Fairness. `Pipeline!FairSpec`: weak fairness per layer thread and for the main
thread, i.e. the operating system schedules a thread that can go on; channels
wake their waiters. `Native!FairSpec`: the same for the caller's thread and the
threads of a loop. `Optimizer!FairSpec`: the training loop reaches its last
iteration. The other modules claim no liveness. Deadlock is not checked where
the client may simply stop calling (Executor, Engine, Compiler, Native,
Quantization), where the operation ends (Lowering), and where the hang is the
subject (`pipeline_panic`).

## 4. What is proved

Each theorem holds for every value of the constants that satisfies the
assumptions of its module; TLC evaluates the assumptions on the instances of the
runs. An inductive invariant named below is proved to hold initially, to be
preserved by every step (one step of the proof per action), and to imply the
theorem.

`PipelineProofs`, for any number of layers and chunks, any capacity, any layer
function and any inputs, from `SizeAssumption`, `DataAssumption` and
`RefAssumption`:

- `PipelineMatchesRef`: the inductive invariant `IInv`. The obvious invariant
  (the collected rows are those of the sequential run) is not inductive: a row
  is right because of the state of every layer, the token in its hands and the
  tokens in every channel. `IInv` says of each of them which entry of the
  sequential table it is, by chunk counters and channel lengths.
- `ReturnsComplete`, `FinalChannelHasRoom`: from `IInv` alone.
- `LayersStayClose`: needs `Flow` besides, that channels respect their capacity.
- `PanicNeverReturns`: the table has `Panic` from the failing chunk on, so the
  main thread never collects a full batch.
- `PipelineImplementsStream`: initial states map to initial states, `Collect`
  to `Deliver`, `Join` to `Return`, all else to stuttering.
- `RowsDoNotMix`, from `LayerAssumption` too (a layer's `Exec` is `VMExec`, its
  tensors are in its scratchpads): two executors of a layer, used or new, agree
  after each instruction on the cells written since the call began
  (`EffectAgrees`, `StagesAgree`), panic alike, and give the same outputs
  (`CallsAgree`). So an entry of the sequential table has the outputs of a new
  executor (`RefAlone`), layer after layer those of the row alone
  (`RefRowAlone`), and by `IInv` a collected row is such an entry.

`OptimizerProofs`, for any trainings and any number of steps, from
`OptimizerAssumption` (gradients and weights are i16; a scaled gradient is an
integer that keeps the sign of a gradient that is not negative):

- `MomentsInRange`: each recurrence maps its range into itself (decay rates
  that add up to one, rounding down); for the i32 second moment the range is
  0 .. 167773, the fixed point of the largest square.
- `MeanIsExact` (gradients that are i16), `No32BitOverflow`, `WeightsDescend`
  (block gradients up to `BlockLimit`): consequences of these ranges.
- `VarIsExact`: the second moment of AIOStep16 with gradients up to `VarLimit`
  stays in 0 .. 32755 (`RestRange`): (255 * v + S) / 256, rounded down, exceeds v
  only while v is 256 or more below the square S.

`BindingsProofs`, of `Compiler`: for any number of compilers, any instructions and any failing
saves, from `MaxLenAssumption`. It is not assumed that the marks for a taken
builder, an absent and a torn file differ from graphs or from each other.

- `CompilerTypes`, `EnginesGetWholeGraphs`: `EngineGraphIsWhole` is not
  inductive, since an engine takes what is in the file, and the file what is in
  a builder. `CInv` describes all three by what the compilers were told. A
  graph that is whole stays whole when a compiler is told more, because the
  first instructions of a list stay the first.
- `SavesAreComplete`, `FilesAreWrittenOnce`: what a step may do, from `CInv`.

`QuantizationProofs`, for any values, seeds and number of operations, from
`QuantizationAssumption`:

- `GeneratorNeverDies`: a word that is not zero is never equal to its own shift
  (following a one by the distance of the shift leads out of the word), so no
  xorshift of it is zero.
- `CalibratedValuesFit`: the range of the calibrator contains what was
  observed, the client's scale the range of when it was got, and the last
  conversion is the one by its scale (`QInv`); a value of the range times the
  scale is then at most 32767 without sign, and rounding is off by half a step
  at most. Of one value, the default scale must have it in its range; of several,
  one must be above `Tiny`, so that the scale is not infinite.
- `BlocksFit`, `WaysAgree`, `StochasticIsNeighbour`: `ConversionInv` says of the
  last conversion what its argument was and by which rule its result came about;
  the rest is arithmetic of rounding and of truncation by eight bits. A block's
  peak must be zero or above `Tiny`. Of a draw
  only its sign matters: `Low24` is a natural number, by induction, and so never
  below a fraction of zero.

`BindingsProofs`, of `Engine`: for any parameters, inputs, buffer lengths and operations, from
`EngineAssumption` (ids and tensors have their types):

- `EngineTypes`, and that `Flat` is a sequence of integers, by induction on the ids.
- `LayoutIsPreloaded`: of the buffer one must know, besides the property, that
  it is empty until the first call (`BufferInv`); otherwise the first call could
  find a buffer of the right length and leave its parameters as they were.
- `ParametersArriveLate`: a step property, from the types and the rule that a
  change of length refreshes the whole buffer.

`ExecutorProofs`, for any graphs, inputs, output lengths, builds, block length
and sequence of calls, from `ExecutorAssumption` (instructions of `OpCode`,
inputs of i16):

- `PlannedGraphsAreSafe`, `SizingIsLeftToExecute`: `VmInv` is `SizesInv` (each
  scratchpad has no cells or as many as the graph asks for, and all of them while
  `execute` runs), `UndefinedCause` and `PanicCause` (a call that has ended that
  way is still at the instruction that did it, whose bounds still fail). The
  causes then contradict the plan: every cell of a counted instruction is below
  `memory_size`, which is a maximum over them (`MaxOf`).
- `NothingLeaksBetweenCalls`: `MeaningInv` relates a running call to the same
  call on fresh buffers, `Meant`: they agree on the cells that are defined so
  far. This is inductive because an instruction that is given equal values in
  the cells it reads leaves equal values in those it writes, which is proved of
  every instruction, of the steps and of `BlockScale` element by element. At the
  end all outputs are among the cells that agree.
- `MachineTypes`: `TypesInv`. Every result is in the range of its array: sums
  saturate or wrap, moments of i8, i16 and i32, scales in 0 .. 32767, also when
  a panic stops a kernel half-way. Its premise `ScaledIsInteger` says that a
  gradient under its scale, which the code casts to i32, is an integer; it is
  proved of the arithmetic that the runs use (`ExactlyScaledIsInteger`).

`NativeProofs`, for any programs, numbers of threads, registers, inputs and
calls, from `NativeAssumption`. `MachineInv` says that the code is made of
items of the program (a raw instruction is one of the program; a loop of `n`
elements names only tensors of fusable instructions of length `n`), that each
thread of a loop is at or behind the start of its chunk, and why a run went
astray. That the two fusers make such code is proved by induction over the
program (`LoopFuserIs`, `KernelFuserIs`, `CompiledIs`).

- `NoRaces`: two threads of a loop are at different elements, since their chunks
  are disjoint for any length and any number of threads; an element of a tensor
  is another element of no tensor that is equal to it or apart from it.
- `NeverOutside`: an access outside needs a tensor of an instruction of the
  program, and an element of its length, that lies outside. The planner's
  `memory_size` is a maximum over the ends of the counted instructions
  (`PlanEndCovers`), and the scratchpad keeps that size (`SizeInv`).
- `AotAgreesWithMachine`: for a supported program nothing is dropped or replaced,
  so that `Seen` is the program (`SupportedIsSeen`); the rest is the next theorem.
- `AotComputesMeaning`, `JitComputesMeaning`: a simulation, `SimulationInv`. The
  fused code is cut into pieces that each stand for consecutive instructions
  (`Splits`), and a loop computes in each element what its instructions do there
  one after the other (`Computes`). For `LoopFuser` the invariant of the
  induction is that of its register map: the register of an offset holds what
  the instructions so far have made of the tensor at that offset, and a tensor
  that was written has been stored. For `KernelFuser` it is that a loop with its
  registers shifted computes the same, and that a loop after another of equal
  length may run with it, element by element, since tensors that are apart
  never meet. The virtual machine's buffers after each instruction are a trace
  (`Traced`, whose existence is a recursion); at an item the machine's buffers
  are those of the trace, and inside a loop each element is as far as its
  thread says (`ElementsOf`), whichever threads have run. By `NoRaces` and the
  chunks a thread only touches its own elements, and when all have joined, all
  elements are at the end of the loop (`JoinElements`).

`LoweringProofs`, for any FX graphs and any inputs, from `LoweringAssumption`
(torch.fx's promises above, inputs of i16):

- `LoweredProgramsFit`: `OffsetsInv` says that a node that has been lowered and
  has memory (`Ready`) ends at or before `memory_offset`, so that an instruction
  writes behind all that it reads; a node that is still ahead has at most the
  place of its input. `FitInv` adds that what a `Ready` node is behind has been
  written. `OrderInv`, the layout of memory while only inputs are lowered, places
  the loads within the inputs: it ties the offsets of the second pass to the sums
  of the first. Skipped calls, raised scalars and the output keep all three.
- `LoweringIsFaithful`: `ValueInv` is a simulation of the FX graph by the program
  emitted so far. For each input buffer, the run of that program on new buffers of
  any sufficient size leaves at the offset of each `Ready` node the value of that
  node, and a lowered node without memory is `Opaque`. One more instruction leaves
  what its node stands for (`InputMeans`, `VecMeans`, `ScalarMeans`; a scalar on
  the left is moved to the right, where addition and multiplication commute) and
  disturbs no node before it. `StoreInv` says when a result is stored, and that
  the planned memory holds every offset that was given out.

Induction over data is used through `Recursion`. The induction theorems of the
library take an operator as a parameter, which the provers cannot instantiate;
`SetInduction` takes the set of the numbers that have the property instead.
With it a recursion on `0 .. n` is shown to have a solution (`SolutionExists`,
and `StagesAre` for buffers, which belong to no set), so that the functions of
section 2 satisfy their equations.

Model-checked only:

- liveness (`AlwaysAnswers`, the fair part of `ImplementsFairStream`,
  `PersistentGradientMoves`, `Returns`), which is out of the prover's reach;
- the properties of the violation runs.

## 5. What is left, and what is not modelled

Next, in this order:

1. `VectorKernel`: rayon chunks and SIMD lanes of a kernel implement the
   pointwise step of `Kernels` in any order of the chunks (refinement).
2. `Lowering` composed with `Engine`: from an FX graph to the values a caller of
   the compiled function gets, with parameters preloaded.

Not modelled on purpose:

- the JAX plugin (a callback without state), the memory-mapped loader and the
  bootstrap (I/O and external tools), `XimError` (a type), the wording of logs;
- writing the AOT source, the `rustc` process, the library at its fixed path and
  the dynamic loader: what becomes of a mapped library that is overwritten is up
  to the operating system;
- the rounding of f32 and the way back from fixed point to floats;
- `SuperFuser`, `_get_or_create_const` and `variable_map`, which change nothing
  or are never used.
