------------------------------- MODULE Native -------------------------------
(***************************************************************************)
(* Native code: a graph compiled by CraneliftCompiler (src/src/jit.rs) or  *)
(* by AotCompiler (src/src/aot.rs), and calls of it.                       *)
(*                                                                         *)
(* Both run the loops of Fusion, element by element.  The JIT has one      *)
(* thread and its loops test at the end.  The AOT code spawns a thread per *)
(* processor for each loop and gives each of them a chunk of the elements. *)
(* Either gets pointers without lengths: an access outside its array ends  *)
(* the model of the run (status "undefined").                              *)
(***************************************************************************)
EXTENDS Kernels, Fusion

CONSTANTS
  Programs,     \* the instruction lists that occur
  InputSet,     \* the input buffers that occur
  OutputLens,   \* the lengths of the output buffer that occur
  Backends,     \* subset of {"jit", "aot"}
  Parallelism,  \* the values of available_parallelism that occur
  NumRegs,      \* virtual registers of an AOT loop, 64 in the code
  MaxCalls      \* bound on the number of calls, for model checking

ASSUME NativeAssumption ==
  /\ Programs \subseteq Seq(OpCode) /\ Backends \subseteq {"jit", "aot"}
  /\ \A a \in InputSet : IsFiniteSet(DOMAIN a) /\ a \in [0 .. Size(a) - 1 -> I16]
  /\ OutputLens \subseteq Nat /\ Parallelism \subseteq Nat \ {0}
  /\ NumRegs \in Nat /\ MaxCalls \in Nat

VARIABLES
  program, backend, parallelism,
  code,         \* the fused program
  status,       \* "source", "ready", "rejected", "running", "ok", "undefined"
  pc,           \* the next item of code
  workers,      \* threads in the loop at pc: element i, operation k, registers
  inputs, memory, outputs,
  calls,        \* number of calls so far
  before        \* history: memory and outputs at the beginning of the call

source == <<program, backend, parallelism>>
vars == <<source, code, status, pc, workers, inputs, memory, outputs, calls, before>>

Init ==
  /\ program \in Programs /\ backend \in Backends /\ parallelism \in Parallelism
  /\ backend = "jit" => parallelism = Min(Parallelism)
  /\ memory = Zeros(Plan(program).memory_size)
  /\ inputs = <<>> /\ outputs = <<>> /\ before = [i16 |-> memory, out |-> outputs]
  /\ status = "source" /\ code = <<>> /\ pc = 1 /\ workers = <<>> /\ calls = 0

-----------------------------------------------------------------------------
(* Compilation.  The AOT source names its registers by number, and rustc   *)
(* refuses a constant index beyond the array.  Constants and optimizer     *)
(* steps are not in that source.                                           *)
Emitted == {"Load", "Add", "Mul", "Store"}

LoopOps == UNION {Range(item.ops) : item \in {j \in Range(LoopFuser(program)) : j.kind = "loop"}}

Mentioned == UNION {Registers(op) : op \in {o \in LoopOps : o.op \in Emitted}}

Compile ==
  /\ status = "source"
  /\ LET local == LoopFuser(program) IN
     IF backend = "jit" THEN code' = KernelFuser(local) /\ status' = "ready"
     ELSE code' = local
          /\ status' = IF \E r \in Mentioned : r >= NumRegs THEN "rejected" ELSE "ready"
  /\ UNCHANGED <<source, pc, workers, inputs, memory, outputs, calls, before>>

Call ==
  /\ status \in {"ready", "ok"} /\ calls < MaxCalls
  /\ status' = "running" /\ pc' = 1 /\ calls' = calls + 1
  /\ inputs' \in InputSet
  /\ \E n \in OutputLens : outputs' = Resize(outputs, n)
  /\ before' = [i16 |-> memory, out |-> outputs']
  /\ UNCHANGED <<source, code, workers, memory>>

Return ==
  /\ status = "running" /\ pc > Len(code)
  /\ status' = "ok"
  /\ UNCHANGED <<source, code, pc, workers, inputs, memory, outputs, calls, before>>

-----------------------------------------------------------------------------
(* Raw instructions.  The JIT knows LoadVarVec, the AOT compiler StoreVec  *)
(* too; any other has no code.                                             *)
RawOpsLoads == {"LoadVarVec"}            \* fault: the AOT compiler has no store

RawOps == IF backend = "jit" THEN {"LoadVarVec"} ELSE {"LoadVarVec", "StoreVec"}

(* A loop of the JIT that tests at the end runs at least once. *)
Count(len) == IF backend = "jit" THEN Max({len, 1}) ELSE len

RawFits(ins) ==
  LET n == Count(ins.len) IN
  IF ins.op = "LoadVarVec" THEN Fits(inputs, ins.var, n) /\ Fits(memory, ins.dst, n)
                           ELSE Fits(memory, ins.src, n) /\ Fits(outputs, ins.out, n)

AtRaw == status = "running" /\ pc <= Len(code) /\ code[pc].kind = "raw"

RawEffect(ins) ==
  Effect([ins EXCEPT !.len = Count(@)], [i16 |-> memory, out |-> outputs], inputs)

RawInstruction ==
  /\ AtRaw /\ code[pc].ins.op \in RawOps
  /\ IF RawFits(code[pc].ins)
     THEN /\ memory'  = RawEffect(code[pc].ins).i16
          /\ outputs' = RawEffect(code[pc].ins).out
          /\ pc' = pc + 1 /\ UNCHANGED status
     ELSE status' = "undefined" /\ UNCHANGED <<memory, outputs, pc>>
  /\ UNCHANGED <<source, code, workers, inputs, calls, before>>

DropRaw ==
  /\ AtRaw /\ code[pc].ins.op \notin RawOps
  /\ pc' = pc + 1
  /\ UNCHANGED <<source, code, status, workers, inputs, memory, outputs, calls, before>>

-----------------------------------------------------------------------------
(* Loops.  The elements of thread t are those from its start to its end.   *)
AtLoop == status = "running" /\ pc <= Len(code) /\ code[pc].kind = "loop"

ChunkSize(len) == len \div parallelism + 1

(* Fault: the chunks cover one element too many. *)
EndsLate(t, len) ==
  IF backend = "jit" THEN Count(len) ELSE Min({t * ChunkSize(len) + ChunkSize(len) + 1, len})

(* Fault: the last chunk is as long as the others. *)
EndsBeyond(t, len) ==
  IF backend = "jit" THEN Count(len) ELSE t * ChunkSize(len) + ChunkSize(len)

Start(t, len) == IF backend = "jit" THEN 0 ELSE t * ChunkSize(len)
End(t, len) ==
  IF backend = "jit" THEN Count(len)
  ELSE Min({t * ChunkSize(len) + ChunkSize(len), len})

Threads == IF backend = "jit" THEN {0} ELSE 0 .. parallelism - 1

Spawn ==
  /\ AtLoop /\ workers = <<>>
  /\ workers' = [t \in Threads |-> [i |-> Start(t, code[pc].len), k |-> 1, regs |-> <<>>]]
  /\ UNCHANGED <<source, code, status, pc, inputs, memory, outputs, calls, before>>

Busy(t) == AtLoop /\ t \in DOMAIN workers /\ workers[t].i < End(t, code[pc].len)

(* What a thread does next, and the cell it does it to. *)
OpOf(t)   == code[pc].ops[workers[t].k]
CellOf(t) == OpOf(t).off + workers[t].i

(* The registers of the AOT code are zero at the beginning of an element.  *)
Reg(regs, r) == IF r \in DOMAIN regs THEN regs[r] ELSE 0

(* The JIT wraps; the AOT code saturates like the virtual machine. *)
Arith(op, a, b) ==
  IF backend = "jit" THEN Wrap16(Exact(op, a, b)) ELSE Combine(op, a, b)

(* Fault: the weight moves by the moment of the step before. *)
AdamWLate(op, regs) ==
  LET grad   == Reg(regs, op.g)
      mean   == Inserted(regs, op.m, Wrap16(Mean16(Reg(regs, op.m), grad)))
      square == Inserted(mean, op.v, Wrap16(Var16(Reg(mean, op.v), Square(grad))))
  IN  Inserted(square, op.w, Wrap16(Reg(square, op.w) - Reg(regs, op.m) \div 16))

(* The JIT's step updates its registers one after the other and wraps.     *)
AdamWJit(op, regs) ==
  LET grad   == Reg(regs, op.g)
      mean   == Inserted(regs, op.m, Wrap16(Mean16(Reg(regs, op.m), grad)))
      square == Inserted(mean, op.v, Wrap16(Var16(Reg(mean, op.v), Square(grad))))
  IN  Inserted(square, op.w, Wrap16(Reg(square, op.w) - Reg(mean, op.m) \div 16))

(* The registers after an operation that leaves memory alone. *)
Computed(op, regs) ==
  CASE op.op = "LoadConst" -> IF backend = "jit" THEN Inserted(regs, op.reg, op.val) ELSE regs
    [] op.op \in {"Add", "Mul"} ->
         Inserted(regs, op.reg, Arith(op.op, Reg(regs, op.l), Reg(regs, op.r)))
    [] op.op = "AdamWStep" ->
         IF backend = "jit" THEN AdamWJit(op, regs) ELSE regs

(* Fault: the counter of the loop is not stored back. *)
SameElement(worker) == [worker EXCEPT !.k = 1, !.regs = <<>>]

NextElement(worker) == [worker EXCEPT !.i = @ + 1, !.k = 1, !.regs = <<>>]

Advanced(worker) ==
  IF worker.k = Len(code[pc].ops) THEN NextElement(worker) ELSE [worker EXCEPT !.k = @ + 1]

Goes(t, regs) == workers' = [workers EXCEPT ![t] = Advanced([@ EXCEPT !.regs = regs])]

Stray(t) == status' = "undefined" /\ UNCHANGED <<workers, memory>>

Work(t) ==
  /\ Busy(t)
  /\ LET op == OpOf(t) regs == workers[t].regs IN
     CASE op.op = "Load" ->
            IF CellOf(t) \in DOMAIN memory
            THEN Goes(t, Inserted(regs, op.reg, memory[CellOf(t)])) /\ UNCHANGED <<status, memory>>
            ELSE Stray(t)
       [] op.op = "Store" ->
            IF CellOf(t) \in DOMAIN memory
            THEN /\ memory' = [memory EXCEPT ![CellOf(t)] = Reg(regs, op.reg)]
                 /\ Goes(t, regs) /\ UNCHANGED status
            ELSE Stray(t)
       [] OTHER -> Goes(t, Computed(op, regs)) /\ UNCHANGED <<status, memory>>
  /\ UNCHANGED <<source, code, pc, inputs, outputs, calls, before>>

(* The scope ends when all its threads have. *)
Join ==
  /\ AtLoop /\ workers # <<>> /\ \A t \in DOMAIN workers : ~Busy(t)
  /\ workers' = <<>> /\ pc' = pc + 1
  /\ UNCHANGED <<source, code, status, inputs, memory, outputs, calls, before>>

Main == Return \/ RawInstruction \/ DropRaw \/ Spawn \/ Join

Next == Compile \/ Call \/ Main \/ \E t \in Threads : Work(t)

Spec == Init /\ [][Next]_vars

(* The operating system runs the caller's thread and the threads of a loop. *)
FairSpec ==
  /\ Spec /\ WF_vars(Main)
  /\ \A t \in 0 .. Max(Parallelism) - 1 : WF_vars(t \in Threads /\ Work(t))

-----------------------------------------------------------------------------
(* The program as the compiler sees it: what it has code for.  The AOT     *)
(* code reads its constants from registers that nobody has set.            *)
Known ==
  RawOps \union (IF backend = "jit" THEN FusableOps ELSE FusableOps \ {"AdamWStep"})

Compiled(ins) ==
  IF backend = "aot" /\ ins.op \in VecOneOps THEN [ins EXCEPT !.val = 0] ELSE ins

Kept[n \in 0 .. Len(program)] ==
  IF n = 0 THEN <<>>
  ELSE IF program[n].op \in Known THEN Append(Kept[n - 1], Compiled(program[n]))
                                  ELSE Kept[n - 1]

Seen == Kept[Len(program)]

Loops == {ins \in Range(program) : ins.op \in FusableOps}

Tensors(ins) ==
  CASE ins.op \in {"AddVec", "MulVec"} -> {ins.lhs, ins.rhs, ins.dst}
    [] ins.op \in VecOneOps            -> {ins.lhs, ins.dst}
    [] ins.op = "AdamWStep"            -> {ins.w, ins.g, ins.m, ins.v}

(* The tensors of instructions that may share a loop are equal or apart.   *)
Apart ==
  /\ \A a \in Loops, b \in Loops : a.len = b.len =>
       \A x \in Tensors(a), y \in Tensors(b) : Aligned(x, y, a.len)
  /\ \A ins \in Loops : Tidy(ins)

NoneEmpty == \A ins \in Range(program) : ins.len > 0

(* No result of the instruction on the memory a leaves the range of i16.   *)
Narrow(ins, a) ==
  \A k \in 0 .. ins.len - 1 :
    CASE ins.op \in {"AddVec", "MulVec"} \union VecOneOps ->
           Exact(ins.op, a[ins.lhs + k], Rhs(ins, a, k)) \in I16
      [] ins.op = "AdamWStep" ->
           /\ Mean16(a[ins.m + k], a[ins.g + k]) \in I16
           /\ Var16(a[ins.v + k], Square(a[ins.g + k])) \in I16
           /\ a[ins.w + k] - Mean16(a[ins.m + k], a[ins.g + k]) \div 16 \in I16
      [] OTHER -> TRUE

(* The instructions of which the AOT compiler drops nothing.               *)
Supported ==
  \A ins \in Range(program) : ins.op \in {"LoadVarVec", "StoreVec", "AddVec", "MulVec"}

Unsaturated ==
  \A n \in DOMAIN Seen : Narrow(Seen[n], Run(SubSeq(Seen, 1, n - 1), before, inputs).i16)

(* What a call has left in the buffers, to be compared with what the       *)
(* virtual machine makes of those it found.                                *)
Left == [i16 |-> memory, out |-> outputs]

(* A program of vector sums and products, loads and stores, fused and      *)
(* spread over threads, leaves the memory and the outputs as the virtual   *)
(* machine does: registers that stand for tensors and elements that run in *)
(* any order make no difference while the tensors of a loop are equal or   *)
(* apart.                                                                  *)
AotAgrees ==
  backend = "aot" /\ status = "ok" /\ Apart /\ Supported
    => Left = Run(program, before, inputs)

(* Any other program is compiled as if it were Seen, where aot.rs:56 has   *)
(* left out every constant (x + c becomes x + 0) and every AdamWStep, and  *)
(* aot.rs:75 the raw instructions it does not know; that program is fused  *)
(* and run rightly.                                                        *)
AotComputes ==
  backend = "aot" /\ status = "ok" /\ Apart => Left = Run(Seen, before, inputs)

(* The JIT merges loops and renumbers their registers, and computes what   *)
(* the virtual machine does for the instructions it has code for (loads,   *)
(* vector arithmetic and AdamWStep, but no StoreVec), where nothing        *)
(* saturates in the virtual machine and no tensor is empty.                *)
JitComputes ==
  backend = "jit" /\ status = "ok" /\ Apart /\ NoneEmpty /\ Unsaturated
    => Left = Run(Seen, before, inputs)

(* No two threads of a loop are about to access the same cell, one of them *)
(* to write it: without locks the threads rely on their chunks.            *)
MemOps == {"Load", "Store"}

RaceFree ==
  Apart => \A s, t \in DOMAIN workers :
    ~ /\ s # t /\ Busy(s) /\ Busy(t)
      /\ OpOf(s).op = "Store" /\ OpOf(t).op \in MemOps
      /\ CellOf(s) = CellOf(t)

(* Native code has pointers and no lengths: when the caller's arrays are   *)
(* long enough, it stays inside them and inside the scratchpad that the    *)
(* planner has sized, whatever the chunks.  The planner does not see to    *)
(* the tensors of an AdamWStep, nor to the element that a loop of the JIT  *)
(* touches in an empty tensor: there the scratchpad must do.               *)
Places(ins) == IF ins.op = "LoadVarVec" THEN {ins.dst} ELSE Tensors(ins)

Unplanned(ins) == ins.op = "AdamWStep" \/ Count(ins.len) # ins.len

BuffersDo ==
  \A ins \in {i \in Range(program) : i.op \in RawOps \union FusableOps} :
    /\ ins.op = "LoadVarVec" => Fits(inputs, ins.var, Count(ins.len))
    /\ ins.op = "StoreVec"   => Fits(outputs, ins.out, ins.len)
    /\ Unplanned(ins) => \A off \in Places(ins) : Fits(memory, off, Count(ins.len))

StaysInside == BuffersDo => status # "undefined"

(* A call of native code returns, or goes astray. *)
Returns == status = "running" ~> status # "running"

(* "If an operation isn't supported, it must throw a clear, catchable      *)
(* XimError" (plan.md:80): code that ran knew all of its instructions.     *)
UnsupportedReported == status = "ok" => \A ins \in Range(program) : ins.op \in Known
=============================================================================
