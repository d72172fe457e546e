------------------------------ MODULE Kernels -------------------------------
(***************************************************************************)
(* What the instructions of the virtual machine compute (the arms of       *)
(* Executor::execute in src/src/executor.rs), as an effect on the          *)
(* scratchpads and the output buffer.  Whether an instruction gets to have *)
(* its effect, or panics, is left to Executor.                             *)
(*                                                                         *)
(* The buffers are a record [i16, i8, i32, f32, out].  Arrays are          *)
(* functions on 0 .. n - 1, as in the code.  A cell of memory_f32 holds    *)
(* the scale x / 32767.0 and is represented by x.                          *)
(***************************************************************************)
EXTENDS XimIR, SequencesExt

CONSTANT Scaled(_, _)   \* the gradient under a scale: (g * scale * 256.0) as i32

Zeros(n) == [k \in 0 .. n - 1 |-> 0]

Size(a) == Cardinality(DOMAIN a)

(* Vec::resize(n, 0), and the resize of a vector shorter than n. *)
Resize(a, n) == [k \in 0 .. n - 1 |-> IF k \in DOMAIN a THEN a[k] ELSE 0]
Grow(a, n)   == IF Size(a) < n THEN Resize(a, n) ELSE a

Fits(a, off, len)  == off + len <= Size(a)
Slice(a, off, len) == [k \in 0 .. len - 1 |-> a[off + k]]

(* copy_from_slice(b) into a at off. *)
Copy(a, off, b) == [k \in DOMAIN a |-> IF k - off \in DOMAIN b THEN b[k - off] ELSE a[k]]

(* The buffers of a new executor that has sized all its scratchpads.       *)
NewBuffers(size, outputs) ==
  [i16 |-> Zeros(size), i8 |-> Zeros(size), i32 |-> Zeros(size),
   f32 |-> Zeros(size \div BlockLen + 1), out |-> Zeros(outputs)]

-----------------------------------------------------------------------------
(* An arithmetic instruction on two operands, before and after saturation. *)
Exact(op, a, b) ==
  CASE op \in {"Add", "AddVec", "GradAdd", "AddScalarVec", "AddVec8"} -> a + b
    [] op = "Sub"                                                     -> a - b
    [] op \in {"Mul", "MulVec", "GradMul", "MulScalarVec"}            -> (a * b) \div 256
    [] op = "MulVec8"                                                 -> (a * b) \div 64

(* Fault: nothing saturates. *)
CombineWide(op, a, b) == Exact(op, a, b)

Combine(op, a, b) ==
  IF op \in VecI8Ops THEN Sat8(Exact(op, a, b)) ELSE Sat16(Exact(op, a, b))

Rhs(ins, a, k) == IF ins.op \in VecOneOps THEN ins.val ELSE a[ins.rhs + k]

Result(ins, a) ==
  [k \in 0 .. ins.len - 1 |-> Combine(ins.op, a[ins.lhs + k], Rhs(ins, a, k))]

-----------------------------------------------------------------------------
(* abs() of an i16, which wraps for the smallest where overflow is not     *)
(* checked, and the scale of a block: at least 1.                          *)
Abs16(x) == Wrap16(Abs(x))

BlockLanes(ins, b) == b * BlockLen .. Min({(b + 1) * BlockLen, ins.len}) - 1

ScaleOf(ins, a, b) == Max({1} \union {Abs16(a[ins.src + k]) : k \in BlockLanes(ins, b)})

(* BlockScale on the blocks of the set done. *)
ScaleBlocks(ins, p, done) ==
  [p EXCEPT !.f32 = [b \in DOMAIN p.f32 |->
                       IF b \in done THEN ScaleOf(ins, p.i16, b) ELSE p.f32[b]]]

(* The elements an optimizer step updates: AIOStepBlock whole blocks only. *)
Lanes(ins) == IF ins.op = "AIOStepBlock" THEN 0 .. (ins.len \div BlockLen) * BlockLen - 1
                                         ELSE 0 .. ins.len - 1

Gradient(ins, p, k) ==
  IF ins.op = "AIOStepBlock"
  THEN Scaled(p.i16[ins.g + k], p.f32[ins.s + k \div BlockLen])
  ELSE p.i16[ins.g + k]

(* An optimizer step on the elements of lanes, a prefix of all of them.    *)
Step(ins, p, lanes) ==
  LET pad   == MomentPad(ins)
      new   == [k \in lanes |->
                  Stepped(Rule(ins), [w |-> p.i16[ins.w + k], m |-> p[pad][ins.m + k],
                                      v |-> p[pad][ins.v + k]], Gradient(ins, p, k))]
      moved == [p EXCEPT ![pad] = Copy(Copy(@, ins.m, [k \in lanes |-> new[k].m]),
                                       ins.v, [k \in lanes |-> new[k].v])]
  IN  [moved EXCEPT !.i16 = Copy(@, ins.w, [k \in lanes |-> new[k].w])]

-----------------------------------------------------------------------------
(* The effect of an instruction on the buffers p. *)
Effect(ins, p, inputs) ==
  CASE ins.op \in {"LoadVar", "LoadVarVec"} ->
         [p EXCEPT !.i16 = Copy(@, ins.dst, Slice(inputs, ins.var, ins.len))]
    [] ins.op \in {"Store", "StoreVec"} ->
         [p EXCEPT !.out = Copy(@, ins.out, Slice(p.i16, ins.src, ins.len))]
    [] ins.op = "FillVec" ->
         [p EXCEPT !.i16 = Copy(@, ins.dst, [k \in 0 .. ins.len - 1 |-> ins.val])]
    [] ins.op \in ScalarOps \union VecBinOps \union VecOneOps ->
         [p EXCEPT !.i16 = Copy(@, ins.dst, Result(ins, @))]
    [] ins.op = "LoadVarVec8" ->
         [p EXCEPT !.i8 = Copy(@, ins.dst,
                               [k \in 0 .. ins.len - 1 |-> Crunch8(inputs[ins.var + k])])]
    [] ins.op = "StoreVec8" ->
         [p EXCEPT !.out = Copy(@, ins.out,
                                [k \in 0 .. ins.len - 1 |-> Widen8(p.i8[ins.src + k])])]
    [] ins.op \in VecI8Ops -> [p EXCEPT !.i8 = Copy(@, ins.dst, Result(ins, @))]
    [] ins.op = "BlockScale" -> ScaleBlocks(ins, p, Blocks(ins))
    [] ins.op \in StepOps -> Step(ins, p, Lanes(ins))

(* The buffers after the first k instructions, and after the whole         *)
(* program, if nothing stops it.                                           *)
Stages(instructions, buffers, inputs) ==
  LET stage[k \in 0 .. Len(instructions)] ==
        IF k = 0 THEN buffers ELSE Effect(instructions[k], stage[k - 1], inputs)
  IN  stage

Run(instructions, buffers, inputs) ==
  Stages(instructions, buffers, inputs)[Len(instructions)]
=============================================================================
