--------------------------- MODULE ExecutorProofs ---------------------------
(***************************************************************************)
(* Proofs about the virtual machine: for any graphs, buffers and number of *)
(* calls of either entry point.                                            *)
(***************************************************************************)
EXTENDS Executor, FiniteSetTheorems, Recursion, TLAPS

Pads == {"i16", "i8", "i32", "f32", "out"}

LoadOps  == {"LoadVar", "LoadVarVec"}
SaveOps  == {"Store", "StoreVec"}
ArithOps == ScalarOps \union VecBinOps \union VecOneOps

(* The cells an instruction writes, the outputs among them. *)
Targets(i) == Writes(i) \union ({"out"} \X Stores(i))

-----------------------------------------------------------------------------
(* Instructions. *)
LEMMA Fields ==
  ASSUME NEW i \in OpCode
  PROVE  /\ i.len \in Nat
         /\ i.op \in {"LoadVar", "LoadVarVec", "LoadVarVec8"} => i.var \in Nat /\ i.dst \in Nat
         /\ i.op \in {"Store", "StoreVec", "StoreVec8"} => i.src \in Nat /\ i.out \in Nat
         /\ i.op \in ScalarOps \union VecBinOps \union VecI8Ops =>
              i.lhs \in Nat /\ i.rhs \in Nat /\ i.dst \in Nat
         /\ i.op \in VecOneOps => i.lhs \in Nat /\ i.dst \in Nat /\ i.val \in I16
         /\ i.op = "FillVec" => i.dst \in Nat /\ i.val \in I16
         /\ i.op \in StepOps => i.w \in Nat /\ i.g \in Nat /\ i.m \in Nat /\ i.v \in Nat
         /\ i.op = "AIOStepBlock" => i.s \in Nat
         /\ i.op = "BlockScale" => i.src \in Nat
BY DEF OpCode, ScalarOps, VecBinOps, VecI8Ops, VecOneOps, StepOps

LEMMA Kinds ==
  ASSUME NEW i \in OpCode
  PROVE  i.op \in LoadOps \union SaveOps \union ArithOps \union VecI8Ops \union StepOps
                    \union {"FillVec", "LoadVarVec8", "StoreVec8", "BlockScale"}
BY DEF OpCode, LoadOps, SaveOps, ArithOps, ScalarOps, VecBinOps, VecI8Ops, VecOneOps, StepOps

-----------------------------------------------------------------------------
(* Arrays. *)
LEMMA SizeOfArray ==
  ASSUME NEW a, NEW n \in Nat, DOMAIN a = 0 .. n - 1
  PROVE  Size(a) = n
<1>1. Cardinality(0 .. n - 1) = IF 0 > n - 1 THEN 0 ELSE (n - 1) - 0 + 1
  BY FS_Interval
<1>2. QED
  BY <1>1 DEF Size

LEMMA FitsCovers ==
  ASSUME NEW a, NEW n \in Nat, DOMAIN a = 0 .. n - 1, NEW off \in Nat, NEW len \in Nat
  PROVE  /\ Fits(a, off, len) <=> off + len <= n
         /\ Fits(a, off, len) => Span(off, len) \subseteq DOMAIN a
<1>1. Size(a) = n
  BY SizeOfArray
<1>2. QED
  BY <1>1 DEF Fits, Span

LEMMA GrowsTo ==
  ASSUME NEW a, NEW n \in Nat, DOMAIN a = 0 .. n - 1, NEW m \in Nat, n <= m
  PROVE  DOMAIN Grow(a, m) = 0 .. m - 1
<1>1. Size(a) = n
  BY SizeOfArray
<1>2. QED
  BY <1>1 DEF Grow, Resize

IsFunction(a) == a = [k \in DOMAIN a |-> a[k]]

LEMMA CopyDomain ==
  ASSUME NEW a, NEW off, NEW b
  PROVE  DOMAIN Copy(a, off, b) = DOMAIN a /\ IsFunction(Copy(a, off, b))
BY DEF Copy, IsFunction

-----------------------------------------------------------------------------
(* Effects leave the sizes of the buffers alone. *)
Alike(p, q) ==
  /\ DOMAIN p = Pads
  /\ \A pad \in Pads :
       /\ DOMAIN p[pad] = DOMAIN q[pad]
       /\ IsFunction(q[pad]) => IsFunction(p[pad])

LEMMA AlikeTransitive ==
  ASSUME NEW p, NEW q, NEW r, Alike(p, q), Alike(q, r)
  PROVE  Alike(p, r)
<1>1. DOMAIN p = Pads
  BY DEF Alike
<1>2. ASSUME NEW pad \in Pads
      PROVE  DOMAIN p[pad] = DOMAIN r[pad] /\ (IsFunction(r[pad]) => IsFunction(p[pad]))
  <2>1. DOMAIN p[pad] = DOMAIN r[pad]
    BY DEF Alike
  <2>2. IsFunction(r[pad]) => IsFunction(p[pad])
    BY Zenon DEF Alike
  <2>3. QED
    BY <2>1, <2>2
<1>3. QED
  BY <1>1, <1>2 DEF Alike

LEMMA Replaced ==
  ASSUME NEW p, DOMAIN p = Pads, NEW pad \in Pads,
         NEW a, DOMAIN a = DOMAIN p[pad], IsFunction(a)
  PROVE  Alike([p EXCEPT ![pad] = a], p)
BY DEF Alike

LEMMA StepShape ==
  ASSUME NEW i \in OpCode, NEW p, DOMAIN p = Pads, NEW lanes
  PROVE  Alike(Step(i, p, lanes), p)
<1> DEFINE pad == MomentPad(i)
           new == [k \in lanes |->
                     Stepped(Rule(i), [w |-> p.i16[i.w + k], m |-> p[pad][i.m + k],
                                       v |-> p[pad][i.v + k]], Gradient(i, p, k))]
           M == [k \in lanes |-> new[k].m]
           V == [k \in lanes |-> new[k].v]
           W == [k \in lanes |-> new[k].w]
           moved == [p EXCEPT ![pad] = Copy(Copy(@, i.m, M), i.v, V)]
           done  == [moved EXCEPT !.i16 = Copy(@, i.w, W)]
<1>1. Step(i, p, lanes) = done
  BY DEF Step
<1>2. pad \in Pads /\ "i16" \in Pads
  BY DEF MomentPad, Pads
<1>3. Alike(moved, p)
  <2> HIDE DEF M, V, pad
  <2>1. /\ DOMAIN Copy(Copy(p[pad], i.m, M), i.v, V) = DOMAIN p[pad]
        /\ IsFunction(Copy(Copy(p[pad], i.m, M), i.v, V))
    BY CopyDomain
  <2>2. QED
    BY <1>2, <2>1, Replaced
<1>4. Alike(done, moved)
  <2> HIDE DEF W, moved
  <2>1. DOMAIN Copy(moved.i16, i.w, W) = DOMAIN moved.i16 /\ IsFunction(Copy(moved.i16, i.w, W))
    BY CopyDomain
  <2>2. DOMAIN moved = Pads
    BY <1>3 DEF Alike
  <2>3. QED
    BY <1>2, <2>1, <2>2, Replaced
<1>5. QED
  <2> HIDE DEF moved, done
  <2>1. QED
    BY <1>1, <1>3, <1>4, AlikeTransitive

LEMMA ScaleShape ==
  ASSUME NEW i \in OpCode, NEW p, DOMAIN p = Pads, NEW done
  PROVE  Alike(ScaleBlocks(i, p, done), p)
<1> DEFINE new == [b \in DOMAIN p.f32 |-> IF b \in done THEN ScaleOf(i, p.i16, b) ELSE p.f32[b]]
<1>1. DOMAIN new = DOMAIN p.f32 /\ IsFunction(new) /\ "f32" \in Pads
  BY DEF IsFunction, Pads
<1>2. ScaleBlocks(i, p, done) = [p EXCEPT !.f32 = new]
  BY DEF ScaleBlocks
<1>3. QED
  <2> HIDE DEF new
  <2>1. QED
    BY <1>1, <1>2, Replaced

(* The array an instruction other than a step or a scaling writes to, and  *)
(* where, and what.                                                        *)
PadOf(i) ==
  IF i.op \in SaveOps \union {"StoreVec8"} THEN "out"
  ELSE IF i.op \in VecI8Ops \union {"LoadVarVec8"} THEN "i8" ELSE "i16"

OffOf(i) == IF i.op \in SaveOps \union {"StoreVec8"} THEN i.out ELSE i.dst

ValuesOf(i, p, inp) ==
  CASE i.op \in LoadOps -> Slice(inp, i.var, i.len)
    [] i.op \in SaveOps -> Slice(p.i16, i.src, i.len)
    [] i.op = "FillVec" -> [k \in 0 .. i.len - 1 |-> i.val]
    [] i.op \in ArithOps -> Result(i, p.i16)
    [] i.op = "LoadVarVec8" -> [k \in 0 .. i.len - 1 |-> Crunch8(inp[i.var + k])]
    [] i.op = "StoreVec8" -> [k \in 0 .. i.len - 1 |-> Widen8(p.i8[i.src + k])]
    [] i.op \in VecI8Ops -> Result(i, p.i8)

LEMMA EffectIsCopy ==
  ASSUME NEW i \in OpCode, i.op \notin StepOps, i.op # "BlockScale", NEW p, DOMAIN p = Pads, NEW inp
  PROVE  /\ Effect(i, p, inp) = [p EXCEPT ![PadOf(i)] = Copy(@, OffOf(i), ValuesOf(i, p, inp))]
         /\ PadOf(i) \in Pads
<1>1. PadOf(i) \in Pads
  BY DEF PadOf, Pads
<1>2. CASE i.op \in LoadOps
  <2>1. PadOf(i) = "i16" /\ OffOf(i) = i.dst
    BY <1>2 DEF PadOf, OffOf, LoadOps, SaveOps, ArithOps, ScalarOps, VecBinOps, VecOneOps, VecI8Ops
  <2>2. ValuesOf(i, p, inp) = Slice(inp, i.var, i.len)
    BY <1>2 DEF ValuesOf, LoadOps, SaveOps, ArithOps, ScalarOps, VecBinOps, VecOneOps, VecI8Ops
  <2>3. Effect(i, p, inp) = [p EXCEPT !.i16 = Copy(@, i.dst, Slice(inp, i.var, i.len))]
    BY <1>2 DEF Effect, LoadOps, SaveOps, ArithOps, ScalarOps, VecBinOps, VecOneOps, VecI8Ops
  <2>4. QED
    BY <1>1, <2>1, <2>2, <2>3
<1>3. CASE i.op \in SaveOps
  <2>1. PadOf(i) = "out" /\ OffOf(i) = i.out
    BY <1>3 DEF PadOf, OffOf, LoadOps, SaveOps, ArithOps, ScalarOps, VecBinOps, VecOneOps, VecI8Ops
  <2>2. ValuesOf(i, p, inp) = Slice(p.i16, i.src, i.len)
    BY <1>3 DEF ValuesOf, LoadOps, SaveOps, ArithOps, ScalarOps, VecBinOps, VecOneOps, VecI8Ops
  <2>3. Effect(i, p, inp) = [p EXCEPT !.out = Copy(@, i.out, Slice(p.i16, i.src, i.len))]
    BY <1>3 DEF Effect, LoadOps, SaveOps, ArithOps, ScalarOps, VecBinOps, VecOneOps, VecI8Ops
  <2>4. QED
    BY <1>1, <2>1, <2>2, <2>3
<1>4. CASE i.op = "FillVec"
  <2>1. PadOf(i) = "i16" /\ OffOf(i) = i.dst
    BY <1>4 DEF PadOf, OffOf, LoadOps, SaveOps, ArithOps, ScalarOps, VecBinOps, VecOneOps, VecI8Ops
  <2>2. ValuesOf(i, p, inp) = [k \in 0 .. i.len - 1 |-> i.val]
    BY <1>4 DEF ValuesOf, LoadOps, SaveOps, ArithOps, ScalarOps, VecBinOps, VecOneOps, VecI8Ops
  <2>3. Effect(i, p, inp) = [p EXCEPT !.i16 = Copy(@, i.dst, [k \in 0 .. i.len - 1 |-> i.val])]
    BY <1>4 DEF Effect, LoadOps, SaveOps, ArithOps, ScalarOps, VecBinOps, VecOneOps, VecI8Ops
  <2>4. QED
    BY <1>1, <2>1, <2>2, <2>3
<1>5. CASE i.op \in ArithOps
  <2>1. PadOf(i) = "i16" /\ OffOf(i) = i.dst
    BY <1>5 DEF PadOf, OffOf, LoadOps, SaveOps, ArithOps, ScalarOps, VecBinOps, VecOneOps, VecI8Ops
  <2>2. ValuesOf(i, p, inp) = Result(i, p.i16)
    BY <1>5 DEF ValuesOf, LoadOps, SaveOps, ArithOps, ScalarOps, VecBinOps, VecOneOps, VecI8Ops
  <2>3. Effect(i, p, inp) = [p EXCEPT !.i16 = Copy(@, i.dst, Result(i, p.i16))]
    BY <1>5 DEF Effect, LoadOps, SaveOps, ArithOps, ScalarOps, VecBinOps, VecOneOps, VecI8Ops
  <2>4. QED
    BY <1>1, <2>1, <2>2, <2>3
<1>6. CASE i.op = "LoadVarVec8"
  <2>1. PadOf(i) = "i8" /\ OffOf(i) = i.dst
    BY <1>6 DEF PadOf, OffOf, LoadOps, SaveOps, ArithOps, ScalarOps, VecBinOps, VecOneOps, VecI8Ops
  <2>2. ValuesOf(i, p, inp) = [k \in 0 .. i.len - 1 |-> Crunch8(inp[i.var + k])]
    BY <1>6 DEF ValuesOf, LoadOps, SaveOps, ArithOps, ScalarOps, VecBinOps, VecOneOps, VecI8Ops
  <2>3. Effect(i, p, inp) = [p EXCEPT !.i8 = Copy(@, i.dst, [k \in 0 .. i.len - 1 |-> Crunch8(inp[i.var + k])])]
    BY <1>6 DEF Effect, LoadOps, SaveOps, ArithOps, ScalarOps, VecBinOps, VecOneOps, VecI8Ops
  <2>4. QED
    BY <1>1, <2>1, <2>2, <2>3
<1>7. CASE i.op = "StoreVec8"
  <2>1. PadOf(i) = "out" /\ OffOf(i) = i.out
    BY <1>7 DEF PadOf, OffOf, LoadOps, SaveOps, ArithOps, ScalarOps, VecBinOps, VecOneOps, VecI8Ops
  <2>2. ValuesOf(i, p, inp) = [k \in 0 .. i.len - 1 |-> Widen8(p.i8[i.src + k])]
    BY <1>7 DEF ValuesOf, LoadOps, SaveOps, ArithOps, ScalarOps, VecBinOps, VecOneOps, VecI8Ops
  <2>3. Effect(i, p, inp) = [p EXCEPT !.out = Copy(@, i.out, [k \in 0 .. i.len - 1 |-> Widen8(p.i8[i.src + k])])]
    BY <1>7 DEF Effect, LoadOps, SaveOps, ArithOps, ScalarOps, VecBinOps, VecOneOps, VecI8Ops
  <2>4. QED
    BY <1>1, <2>1, <2>2, <2>3
<1>8. CASE i.op \in VecI8Ops
  <2>1. PadOf(i) = "i8" /\ OffOf(i) = i.dst
    BY <1>8 DEF PadOf, OffOf, LoadOps, SaveOps, ArithOps, ScalarOps, VecBinOps, VecOneOps, VecI8Ops
  <2>2. ValuesOf(i, p, inp) = Result(i, p.i8)
    BY <1>8 DEF ValuesOf, LoadOps, SaveOps, ArithOps, ScalarOps, VecBinOps, VecOneOps, VecI8Ops
  <2>3. Effect(i, p, inp) = [p EXCEPT !.i8 = Copy(@, i.dst, Result(i, p.i8))]
    BY <1>8 DEF Effect, LoadOps, SaveOps, ArithOps, ScalarOps, VecBinOps, VecOneOps, VecI8Ops
  <2>4. QED
    BY <1>1, <2>1, <2>2, <2>3
<1>9. QED
  BY <1>1, <1>2, <1>3, <1>4, <1>5, <1>6, <1>7, <1>8, Kinds

LEMMA EffectShape ==
  ASSUME NEW i \in OpCode, NEW p, DOMAIN p = Pads, NEW inp
  PROVE  Alike(Effect(i, p, inp), p)
<1>1. CASE i.op \in StepOps
  <2>1. Effect(i, p, inp) = Step(i, p, Lanes(i))
    BY <1>1 DEF Effect, StepOps, ScalarOps, VecBinOps, VecOneOps, VecI8Ops
  <2>2. QED
    BY <2>1, StepShape
<1>2. CASE i.op = "BlockScale"
  <2>1. Effect(i, p, inp) = ScaleBlocks(i, p, Blocks(i))
    BY <1>2 DEF Effect, StepOps, ScalarOps, VecBinOps, VecOneOps, VecI8Ops
  <2>2. QED
    BY <2>1, ScaleShape
<1>3. CASE i.op \notin StepOps /\ i.op # "BlockScale"
  <2>1. /\ Effect(i, p, inp) = [p EXCEPT ![PadOf(i)] = Copy(@, OffOf(i), ValuesOf(i, p, inp))]
        /\ PadOf(i) \in Pads
    BY <1>3, EffectIsCopy
  <2> DEFINE pad == PadOf(i)
             new == Copy(p[pad], OffOf(i), ValuesOf(i, p, inp))
  <2>2. DOMAIN new = DOMAIN p[pad] /\ IsFunction(new)
    BY CopyDomain
  <2>3. Effect(i, p, inp) = [p EXCEPT ![pad] = new] /\ pad \in Pads
    BY <2>1
  <2>4. QED
    <3> HIDE DEF new, pad
    <3>1. Alike([p EXCEPT ![pad] = new], p)
      BY <2>2, <2>3, Replaced
    <3>2. QED
      BY <2>3, <3>1
<1>4. QED
  BY <1>1, <1>2, <1>3
-----------------------------------------------------------------------------
(* The sizes of the buffers at all times.  A scratchpad that a graph needs *)
(* has its full size from the first call of execute on.                    *)
Memory == 0 .. graph.memory_size - 1
Scratch8 == DOMAIN memory_i8 = Memory
Scratch32 == DOMAIN memory_i32 = Memory
ScratchF == DOMAIN memory_f32 = 0 .. graph.memory_size \div BlockLen

SizesInv ==
  /\ graph \in Graphs
  /\ ip \in 1 .. Len(graph.instructions) + 1
  /\ DOMAIN memory = Memory
  /\ DOMAIN memory_i8 = {} \/ Scratch8
  /\ DOMAIN memory_i32 = {} \/ Scratch32
  /\ DOMAIN memory_f32 = {} \/ ScratchF
  /\ \E n \in Nat : DOMAIN outputs = 0 .. n - 1
  /\ \E n \in Nat : DOMAIN inputs = 0 .. n - 1
  /\ IsFunction(memory_i8) /\ IsFunction(outputs)
  /\ call = "execute" => /\ NeedsI8 => Scratch8
                         /\ NeedsI32 => Scratch32
                         /\ NeedsF32 => ScratchF

(* Why a call stopped, which its buffers still show.                       *)
UndefinedCause ==
  status = "undefined" =>
    /\ ip \in DOMAIN graph.instructions /\ ~Sound(ins)
    /\ call = "execute_i8" => ins.op \in VecI8Ops

PanicCause ==
  status = "panicked" /\ call = "execute" =>
    /\ ip \in DOMAIN graph.instructions
    /\ \/ /\ ins.op \in LoadOps
          /\ ~Fits(inputs, ins.var, ins.len) \/ ~Fits(memory, ins.dst, ins.len)
       \/ /\ ins.op \in SaveOps
          /\ ~Fits(memory, ins.src, ins.len) \/ ~Fits(outputs, ins.out, ins.len)
       \/ ins.op = "FillVec" /\ ~Fits(memory, ins.dst, ins.len)
       \/ ins.op \in ScalarOps /\ ~Allocated(ins)
       \/ ins.op \in {"LoadVarVec8", "StoreVec8"}
       \/ ins.op = "AIOStep" /\ ~SplitMoments(buffers[MomentPad(ins)])
       \/ ins.op = "BlockScale" /\ \E b \in Blocks(ins) : ~InBounds(b)
       \/ ins.op = "AIOStepBlock" /\ (ins.s > Size(memory_f32) \/ NoScale # {})

VmInv == SizesInv /\ UndefinedCause /\ PanicCause

LEMMA GraphFacts ==
  ASSUME graph \in Graphs
  PROVE  /\ graph.instructions \in Seq(OpCode) /\ graph.memory_size \in Nat
         /\ Len(graph.instructions) \in Nat
         /\ DOMAIN graph.instructions = 1 .. Len(graph.instructions)
         /\ \A k \in DOMAIN graph.instructions : graph.instructions[k] \in OpCode
         /\ Program \subseteq OpCode
<1>1. graph.instructions \in Seq(OpCode) /\ graph.memory_size \in Nat
  BY ExecutorAssumption
<1>2. /\ Len(graph.instructions) \in Nat
      /\ DOMAIN graph.instructions = 1 .. Len(graph.instructions)
      /\ \A k \in DOMAIN graph.instructions : graph.instructions[k] \in OpCode
  BY <1>1
<1>3. QED
  BY <1>1, <1>2 DEF Program

(* A step keeps the sizes when all it does is to change contents.          *)
SameSizes(p) ==
  /\ DOMAIN p.i16 = DOMAIN memory /\ DOMAIN p.i8 = DOMAIN memory_i8
  /\ DOMAIN p.i32 = DOMAIN memory_i32 /\ DOMAIN p.f32 = DOMAIN memory_f32
  /\ DOMAIN p.out = DOMAIN outputs
  /\ IsFunction(p.i8) /\ IsFunction(p.out)

LEMMA BuffersArePads ==
  /\ DOMAIN buffers = Pads
  /\ buffers.i16 = memory /\ buffers.i8 = memory_i8 /\ buffers.i32 = memory_i32
  /\ buffers.f32 = memory_f32 /\ buffers.out = outputs
BY DEF buffers, Pads

LEMMA BecomeKeepsSizes ==
  ASSUME SizesInv, NEW p, SameSizes(p), Become(p), UNCHANGED control,
         ip' \in {ip, ip + 1}, ip \in DOMAIN graph.instructions
  PROVE  SizesInv'
<1>1. graph' = graph /\ call' = call /\ inputs' = inputs
  BY DEF control
<1>2. /\ DOMAIN memory' = DOMAIN memory /\ DOMAIN memory_i8' = DOMAIN memory_i8
      /\ DOMAIN memory_i32' = DOMAIN memory_i32 /\ DOMAIN memory_f32' = DOMAIN memory_f32
      /\ DOMAIN outputs' = DOMAIN outputs
      /\ IsFunction(memory_i8') /\ IsFunction(outputs')
  BY DEF Become, SameSizes
<1>3. ip' \in 1 .. Len(graph.instructions) + 1
  BY GraphFacts DEF SizesInv
<1>4. /\ Memory' = Memory /\ (NeedsI8 <=> NeedsI8') /\ (NeedsI32 <=> NeedsI32')
      /\ (NeedsF32 <=> NeedsF32')
  BY <1>1 DEF Memory, NeedsI8, NeedsI32, NeedsF32, Program
<1>5. Scratch8' = Scratch8 /\ Scratch32' = Scratch32 /\ ScratchF' = ScratchF
  BY <1>1, <1>2, <1>4 DEF Scratch8, Scratch32, ScratchF
<1>6. QED
  BY <1>1, <1>2, <1>3, <1>4, <1>5 DEF SizesInv

LEMMA AlikeBuffers ==
  ASSUME SizesInv, NEW p, Alike(p, buffers)
  PROVE  SameSizes(p)
<1>1. {"i16", "i8", "i32", "f32", "out"} = Pads
  BY DEF Pads
<1>2. /\ DOMAIN p.i16 = DOMAIN buffers.i16 /\ DOMAIN p.i8 = DOMAIN buffers.i8
      /\ DOMAIN p.i32 = DOMAIN buffers.i32 /\ DOMAIN p.f32 = DOMAIN buffers.f32
      /\ DOMAIN p.out = DOMAIN buffers.out
      /\ IsFunction(buffers.i8) => IsFunction(p.i8)
      /\ IsFunction(buffers.out) => IsFunction(p.out)
  BY <1>1 DEF Alike
<1>3. QED
  BY <1>2, BuffersArePads DEF SameSizes, SizesInv

LEMMA BuffersAlike == Alike(buffers, buffers)
BY BuffersArePads DEF Alike

LEMMA FirstMomentShape ==
  ASSUME NEW k, ins \in OpCode
  PROVE  Alike(FirstMomentOf(k), buffers)
<1> DEFINE done == Step(ins, buffers, UpTo(k))
           one  == Step(ins, buffers, UpTo(k + 1))
           new  == [done.i16 EXCEPT ![ins.m + k] = one.i16[ins.m + k]]
<1>1. Alike(done, buffers)
  BY BuffersArePads, StepShape
<1>2. DOMAIN new = DOMAIN done.i16 /\ IsFunction(new)
  BY DEF IsFunction
<1>3. FirstMomentOf(k) = [done EXCEPT !.i16 = new]
  BY DEF FirstMomentOf
<1>4. DOMAIN done = Pads /\ "i16" \in Pads
  BY <1>1 DEF Alike, Pads
<1>5. Alike(FirstMomentOf(k), done)
  <2> HIDE DEF done, new
  <2>1. QED
    BY <1>2, <1>3, <1>4, Replaced
<1>6. QED
  <2> HIDE DEF done
  <2>1. QED
    BY <1>1, <1>5, AlikeTransitive

(* An instruction changes contents only. *)
Steps(p) ==
  /\ Alike(p, buffers) /\ Become(p) /\ UNCHANGED control
  /\ ip \in DOMAIN graph.instructions /\ ip' \in {ip, ip + 1}

LEMMA AtFacts ==
  ASSUME SizesInv, ip <= Len(graph.instructions)
  PROVE  ip \in DOMAIN graph.instructions /\ ins \in OpCode /\ ins \in Program
<1>1. graph \in Graphs /\ ip \in 1 .. Len(graph.instructions) + 1
  BY DEF SizesInv
<1>2. ip \in DOMAIN graph.instructions
  BY <1>1, GraphFacts
<1>3. QED
  BY <1>1, <1>2, GraphFacts DEF ins, Program

LEMMA PerformSteps ==
  ASSUME SizesInv, Perform(ins), UNCHANGED control, ip <= Len(graph.instructions)
  PROVE  \E p : Steps(p)
<1>1. Alike(Effect(ins, buffers, inputs), buffers)
  BY AtFacts, BuffersArePads, EffectShape
<1>2. QED
  BY <1>1, AtFacts DEF Perform, Steps

LEMMA StopSteps ==
  ASSUME SizesInv, NEW p, NEW why, Alike(p, buffers), StopAfter(p, why), UNCHANGED control,
         ip <= Len(graph.instructions)
  PROVE  \E q : Steps(q)
BY AtFacts DEF StopAfter, Steps

LEMMA InstructionSteps ==
  ASSUME SizesInv, Instruction
  PROVE  (\E p : Steps(p)) \/ SkipI8
<1>1. ASSUME Load \/ Store \/ Fill \/ Scalar \/ Vector PROVE \E p : Steps(p)
  <2>1. UNCHANGED control /\ ip <= Len(graph.instructions)
    BY <1>1 DEF Load, Store, Fill, Scalar, Vector, At
  <2>2. Perform(ins) \/ \E why : StopAfter(buffers, why)
    BY <1>1 DEF Load, Store, Fill, Scalar, Vector, Stop
  <2>3. QED
    BY <2>1, <2>2, PerformSteps, StopSteps, BuffersAlike
<1>2. ASSUME Load8 \/ Store8 \/ Vector8 \/ AdamWStep \/ AIOStep PROVE \E p : Steps(p)
  <2>1. UNCHANGED control /\ ip <= Len(graph.instructions)
    BY <1>2 DEF Load8, Store8, Vector8, AdamWStep, AIOStep, At
  <2>2. Perform(ins) \/ \E why : StopAfter(buffers, why)
    BY <1>2 DEF Load8, Store8, Vector8, AdamWStep, AIOStep, Stop
  <2>3. QED
    BY <2>1, <2>2, PerformSteps, StopSteps, BuffersAlike
<1>3. ASSUME BlockScale PROVE \E p : Steps(p)
  <2>1. UNCHANGED control /\ ip <= Len(graph.instructions)
    BY <1>3 DEF BlockScale, At
  <2>2. Perform(ins) \/ \E done, why : StopAfter(ScaleBlocks(ins, buffers, done), why)
    BY <1>3 DEF BlockScale
  <2>3. \A done : Alike(ScaleBlocks(ins, buffers, done), buffers)
    BY <2>1, AtFacts, BuffersArePads, ScaleShape
  <2>4. QED
    BY <2>1, <2>2, <2>3, PerformSteps, StopSteps
<1>4. ASSUME AIOStepBlock PROVE \E p : Steps(p)
  <2>1. UNCHANGED control /\ ip <= Len(graph.instructions)
    BY <1>4 DEF AIOStepBlock, At
  <2>2. \/ Perform(ins) \/ \E why : StopAfter(buffers, why)
        \/ \E k, why : StopAfter(FirstMomentOf(k), why)
        \/ \E lanes, why : StopAfter(Step(ins, buffers, lanes), why)
    BY <1>4 DEF AIOStepBlock, Stop
  <2>3. /\ \A lanes : Alike(Step(ins, buffers, lanes), buffers)
        /\ \A k : Alike(FirstMomentOf(k), buffers)
    BY <2>1, AtFacts, BuffersArePads, StepShape, FirstMomentShape
  <2>4. QED
    BY <2>1, <2>2, <2>3, PerformSteps, StopSteps, BuffersAlike
<1>5. QED
  BY <1>1, <1>2, <1>3, <1>4 DEF Instruction

LEMMA InstructionKeepsSizes ==
  ASSUME SizesInv, Instruction
  PROVE  SizesInv'
<1>1. CASE \E p : Steps(p)
  <2>1. PICK p : Steps(p)
    BY <1>1
  <2>2. SameSizes(p)
    BY <2>1, AlikeBuffers DEF Steps
  <2>3. QED
    BY <2>1, <2>2, BecomeKeepsSizes DEF Steps
<1>2. CASE SkipI8
  <2>1. Become(buffers)
    BY <1>2, BuffersArePads DEF SkipI8, Become, scratch
  <2>2. SameSizes(buffers)
    BY BuffersAlike, AlikeBuffers
  <2>3. UNCHANGED control /\ ip' = ip + 1 /\ ip \in DOMAIN graph.instructions
    BY <1>2, AtFacts DEF SkipI8
  <2>4. QED
    BY <2>1, <2>2, <2>3, BecomeKeepsSizes
<1>3. QED
  BY <1>1, <1>2, InstructionSteps
(* A scratchpad that is empty or has its full size is grown to it.         *)
LEMMA EnsureSizes ==
  ASSUME SizesInv, EnsureBuffers
  PROVE  /\ DOMAIN memory' = Memory
         /\ DOMAIN memory_i8' = {} \/ DOMAIN memory_i8' = Memory
         /\ DOMAIN memory_i32' = {} \/ DOMAIN memory_i32' = Memory
         /\ DOMAIN memory_f32' = {} \/ DOMAIN memory_f32' = 0 .. graph.memory_size \div BlockLen
         /\ IsFunction(memory_i8')
         /\ NeedsI8 => DOMAIN memory_i8' = Memory
         /\ NeedsI32 => DOMAIN memory_i32' = Memory
         /\ NeedsF32 => DOMAIN memory_f32' = 0 .. graph.memory_size \div BlockLen
<1> DEFINE N == graph.memory_size
           F == N \div BlockLen + 1
<1>1. N \in Nat /\ F \in Nat /\ 0 .. F - 1 = 0 .. N \div BlockLen
  <2>1. N \in Nat /\ BlockLen \in Nat \ {0}
    BY GraphFacts, BlockLenAssumption DEF SizesInv
  <2>2. N \div BlockLen \in Nat
    BY <2>1
  <2>3. QED
    BY <2>1, <2>2
<1>2. ASSUME NEW a, NEW m \in Nat, DOMAIN a = {} \/ DOMAIN a = 0 .. m - 1
      PROVE  DOMAIN Grow(a, m) = 0 .. m - 1
  <2>1. {} = 0 .. 0 - 1
    OBVIOUS
  <2>2. CASE DOMAIN a = {}
    <3>1. 0 \in Nat /\ 0 <= m /\ DOMAIN a = 0 .. 0 - 1
      BY <1>2, <2>1, <2>2
    <3>2. QED
      BY <3>1, GrowsTo
  <2>3. CASE DOMAIN a = 0 .. m - 1
    BY <2>3, GrowsTo
  <2>4. QED
    BY <1>2, <2>2, <2>3
<1>3. /\ DOMAIN Grow(memory, N) = Memory
      /\ DOMAIN Grow(memory_i8, N) = Memory
      /\ DOMAIN Grow(memory_i32, N) = Memory
  BY <1>1, <1>2 DEF SizesInv, Memory, Scratch8, Scratch32
<1>4. DOMAIN Grow(memory_f32, F) = 0 .. N \div BlockLen
  <2>1. DOMAIN memory_f32 = {} \/ DOMAIN memory_f32 = 0 .. F - 1
    BY <1>1 DEF SizesInv, ScratchF
  <2> HIDE DEF F
  <2>2. QED
    BY <1>1, <1>2, <2>1
<1>5. IsFunction(memory_i8) /\ IsFunction(Grow(memory_i8, N))
  BY DEF SizesInv, Grow, Resize, IsFunction
<1>6. QED
  BY <1>3, <1>4, <1>5 DEF EnsureBuffers, SizesInv, Scratch8, Scratch32, ScratchF

LEMMA InputSizes ==
  ASSUME NEW a \in InputSet
  PROVE  \E n \in Nat : DOMAIN a = 0 .. n - 1 /\ \A k \in DOMAIN a : a[k] \in I16
<1>1. IsFiniteSet(DOMAIN a) /\ a \in [0 .. Size(a) - 1 -> I16]
  BY ExecutorAssumption
<1>2. Size(a) \in Nat
  BY <1>1, FS_CardinalityType DEF Size
<1>3. QED
  BY <1>1, <1>2

LEMMA ExecuteKeepsSizes ==
  ASSUME SizesInv, Execute
  PROVE  SizesInv'
<1>1. graph' = graph /\ graph \in Graphs /\ ip' = 1 /\ call' = "execute" /\ inputs' \in InputSet
  BY DEF Execute, Begin, SizesInv
<1>2. \E n \in Nat : DOMAIN inputs' = 0 .. n - 1
  BY <1>1, InputSizes
<1>3. PICK n \in OutputLens : outputs' = Resize(outputs, n)
  BY DEF Execute
<1>4. n \in Nat /\ DOMAIN outputs' = 0 .. n - 1 /\ IsFunction(outputs')
  BY <1>3, ExecutorAssumption DEF Resize, IsFunction
<1>5. /\ Memory' = Memory /\ (NeedsI8 <=> NeedsI8') /\ (NeedsI32 <=> NeedsI32')
      /\ (NeedsF32 <=> NeedsF32')
  BY <1>1 DEF Memory, NeedsI8, NeedsI32, NeedsF32, Program
<1>6. ip' \in 1 .. Len(graph'.instructions) + 1
  BY <1>1, GraphFacts
<1>7. EnsureBuffers
  BY DEF Execute
<1>8. QED
  BY <1>1, <1>2, <1>4, <1>5, <1>6, <1>7, EnsureSizes DEF SizesInv, Scratch8, Scratch32, ScratchF

LEMMA OthersKeepSizes ==
  ASSUME SizesInv, ExecuteI8 \/ Return \/ UNCHANGED vars
  PROVE  SizesInv'
<1>1. /\ graph' = graph /\ inputs' = inputs /\ outputs' = outputs /\ memory' = memory
      /\ memory_i8' = memory_i8 /\ memory_i32' = memory_i32 /\ memory_f32' = memory_f32
      /\ ip' \in {1, ip} /\ call' \in {"execute_i8", call}
  BY DEF ExecuteI8, Begin, Return, vars, control, scratch
<1>2. /\ Memory' = Memory /\ (NeedsI8 <=> NeedsI8') /\ (NeedsI32 <=> NeedsI32')
      /\ (NeedsF32 <=> NeedsF32')
  BY <1>1 DEF Memory, NeedsI8, NeedsI32, NeedsF32, Program
<1>3. ip' \in 1 .. Len(graph'.instructions) + 1
  BY <1>1, GraphFacts DEF SizesInv
<1>4. QED
  BY <1>1, <1>2, <1>3 DEF SizesInv, Scratch8, Scratch32, ScratchF

LEMMA InitSizes == Init => SizesInv
<1>1. SUFFICES ASSUME Init PROVE SizesInv
  OBVIOUS
<1>2. graph \in Graphs /\ graph.memory_size \in Nat /\ 1 \in 1 .. Len(graph.instructions) + 1
  BY <1>1, GraphFacts DEF Init
<1>3. DOMAIN <<>> = {} /\ {} = 0 .. 0 - 1 /\ IsFunction(<<>>)
  BY DEF IsFunction
<1>4. DOMAIN memory = Memory
  BY <1>1 DEF Init, Zeros, Memory
<1>5. QED
  BY <1>1, <1>2, <1>3, <1>4 DEF Init, SizesInv

-----------------------------------------------------------------------------
(* Causes. *)
LEMMA LeastOf ==
  ASSUME NEW S, S \subseteq Nat, S # {}
  PROVE  Min(S) \in S
BY LeastElement DEF Min

LEMMA BlocksAndLanes ==
  ASSUME NEW i \in OpCode
  PROVE  /\ i.op \in BlockOps => Blocks(i) \subseteq Nat
         /\ i.op \in StepOps => Lanes(i) \subseteq 0 .. i.len - 1
         /\ i.op = "AIOStepBlock" =>
              \A k \in Lanes(i) : k \div BlockLen \in Blocks(i)
<1>1. i.len \in Nat /\ BlockLen \in Nat \ {0}
  BY Fields, BlockLenAssumption
<1> DEFINE q == i.len \div BlockLen
<1>2. q \in Nat /\ q * BlockLen <= i.len /\ q * BlockLen \in Nat
  BY <1>1
<1>3. Blocks(i) \subseteq Nat
  BY <1>1, <1>2 DEF Blocks
<1>4. i.op \in StepOps => Lanes(i) \subseteq 0 .. i.len - 1
  <2> HIDE DEF q
  <2>1. q * BlockLen - 1 <= i.len - 1
    BY <1>1, <1>2
  <2>2. 0 .. q * BlockLen - 1 \subseteq 0 .. i.len - 1
    BY <1>1, <1>2, <2>1
  <2>3. Lanes(i) \in {0 .. q * BlockLen - 1, 0 .. i.len - 1}
    BY DEF Lanes, q
  <2>4. QED
    BY <2>2, <2>3
<1>5. ASSUME i.op = "AIOStepBlock", NEW k \in Lanes(i)
      PROVE  k \div BlockLen \in Blocks(i)
  <2>1. Lanes(i) = 0 .. q * BlockLen - 1 /\ Blocks(i) = 0 .. q - 1
    BY <1>5 DEF Lanes, Blocks
  <2> HIDE DEF q
  <2>2. k \in Nat /\ k < q * BlockLen
    BY <1>2, <1>5, <2>1
  <2>3. k \div BlockLen \in Nat /\ (k \div BlockLen) * BlockLen <= k
    BY <1>1, <2>2
  <2>4. k \div BlockLen < q
    <3> DEFINE d == k \div BlockLen
    <3> HIDE DEF d
    <3>1. d \in Nat /\ d * BlockLen < q * BlockLen
      BY <1>1, <1>2, <2>2, <2>3 DEF d
    <3>2. d >= q => d * BlockLen >= q * BlockLen
      BY <1>1, <1>2, <3>1
    <3>3. d < q
      BY <1>1, <1>2, <3>1, <3>2
    <3>4. QED
      BY <3>3 DEF d
  <2>5. QED
    BY <1>2, <2>1, <2>3, <2>4
<1>6. QED
  BY <1>3, <1>4, <1>5
(* A stop shows the same buffers, or the same sizes at least.              *)
LEMMA StopSame ==
  ASSUME NEW why, Stop(why), UNCHANGED control
  PROVE  /\ status' = why /\ call' = call /\ ip' = ip /\ graph' = graph
         /\ ins' = ins /\ Sound(ins)' = Sound(ins) /\ Allocated(ins)' = Allocated(ins)
         /\ inputs' = inputs /\ outputs' = outputs /\ memory' = memory
         /\ memory_f32' = memory_f32
         /\ SplitMoments(buffers[MomentPad(ins)])' = SplitMoments(buffers[MomentPad(ins)])
         /\ NoScale' = NoScale
<1>1. /\ status' = why /\ ip' = ip /\ graph' = graph /\ call' = call /\ inputs' = inputs
      /\ outputs' = outputs /\ memory' = memory /\ memory_i8' = memory_i8
      /\ memory_i32' = memory_i32 /\ memory_f32' = memory_f32
  BY BuffersArePads DEF Stop, StopAfter, Become, control
<1>2. ins' = ins /\ buffers' = buffers
  BY <1>1 DEF ins, buffers
<1>3. Allocated(ins)' = Allocated(ins)
  BY <1>2 DEF Allocated, Pad
<1>4. Sound(ins)' = Sound(ins)
  BY <1>2, <1>3 DEF Sound
<1>5. SplitMoments(buffers[MomentPad(ins)])' = SplitMoments(buffers[MomentPad(ins)])
  BY <1>2 DEF SplitMoments
<1>6. NoScale' = NoScale
  BY <1>1, <1>2 DEF NoScale
<1>7. QED
  BY <1>1, <1>2, <1>3, <1>4, <1>5, <1>6

LEMMA StepsSame ==
  ASSUME SizesInv, NEW p, Steps(p), ip' = ip
  PROVE  /\ ins' = ins /\ graph' = graph /\ call' = call /\ ip \in DOMAIN graph.instructions
         /\ DOMAIN memory' = DOMAIN memory /\ DOMAIN memory_f32' = DOMAIN memory_f32
<1>1. SameSizes(p)
  BY AlikeBuffers DEF Steps
<1>2. QED
  BY <1>1 DEF Steps, SameSizes, Become, control, ins

LEMMA SimpleCauses ==
  ASSUME SizesInv, Load \/ Store \/ Fill \/ Scalar \/ Vector \/ Load8 \/ Store8 \/ Vector8
                   \/ AdamWStep \/ AIOStep
  PROVE  UndefinedCause' /\ PanicCause'
<1>1. UNCHANGED control /\ status = "running" /\ ip \in DOMAIN graph.instructions
  BY AtFacts DEF Load, Store, Fill, Scalar, Vector, Load8, Store8, Vector8, AdamWStep, AIOStep, At
<1>2. CASE Perform(ins)
  <2>1. status' = "running"
    BY <1>1, <1>2 DEF Perform
  <2>2. QED
    BY <2>1 DEF UndefinedCause, PanicCause
<1>3. CASE Stop("undefined")
  <2>1. ~Sound(ins) /\ (call = "execute_i8" => ins.op \in VecI8Ops)
    <3>1. status' = "undefined"
      BY <1>1, <1>3, StopSame
    <3>2. ~Perform(ins) /\ ~Stop("panicked")
      BY <1>1, <3>1 DEF Perform, Stop, StopAfter
    <3>3. QED
      BY <3>2 DEF Load, Store, Fill, Scalar, Vector, Load8, Store8, Vector8, AdamWStep, AIOStep, At
  <2>2. QED
    BY <1>1, <1>3, <2>1, StopSame DEF UndefinedCause, PanicCause
<1>4. CASE Stop("panicked")
  <2>1. status' = "panicked"
    BY <1>1, <1>4, StopSame
  <2>2. ~Perform(ins) /\ ~Stop("undefined")
    BY <1>1, <2>1 DEF Perform, Stop, StopAfter
  <2>3. \/ /\ ins.op \in LoadOps
           /\ ~Fits(inputs, ins.var, ins.len) \/ ~Fits(memory, ins.dst, ins.len)
        \/ /\ ins.op \in SaveOps
           /\ ~Fits(memory, ins.src, ins.len) \/ ~Fits(outputs, ins.out, ins.len)
        \/ ins.op = "FillVec" /\ ~Fits(memory, ins.dst, ins.len)
        \/ ins.op \in ScalarOps /\ ~Allocated(ins)
        \/ ins.op \in {"LoadVarVec8", "StoreVec8"}
        \/ ins.op = "AIOStep" /\ ~SplitMoments(buffers[MomentPad(ins)])
    BY <2>2 DEF Load, Store, Fill, Scalar, Vector, Load8, Store8, Vector8, AdamWStep, AIOStep,
                At, LoadOps, SaveOps
  <2>4. QED
    BY <1>1, <1>4, <2>1, <2>3, StopSame DEF UndefinedCause, PanicCause
<1>5. QED
  BY <1>2, <1>3, <1>4
     DEF Load, Store, Fill, Scalar, Vector, Load8, Store8, Vector8, AdamWStep, AIOStep

LEMMA ScaleCauses ==
  ASSUME SizesInv, BlockScale
  PROVE  UndefinedCause' /\ PanicCause'
<1>1. /\ UNCHANGED control /\ status = "running" /\ ip \in DOMAIN graph.instructions
      /\ ins \in OpCode /\ ins.op = "BlockScale" /\ ip <= Len(graph.instructions)
  BY AtFacts DEF BlockScale, At
<1>2. PICK checked \in Builds :
        LET bad == BadBlocks(checked) IN
        IF bad = {} THEN Perform(ins)
        ELSE StopAfter(ScaleBlocks(ins, buffers, UpTo(Min(bad))),
                       IF InBounds(Min(bad)) THEN "overflow" ELSE "panicked")
  BY DEF BlockScale
<1> DEFINE bad == BadBlocks(checked)
           p   == ScaleBlocks(ins, buffers, UpTo(Min(bad)))
<1>3. CASE bad = {}
  BY <1>1, <1>2, <1>3 DEF Perform, UndefinedCause, PanicCause
<1>4. CASE bad # {}
  <2>1. status' = (IF InBounds(Min(bad)) THEN "overflow" ELSE "panicked") /\ ip' = ip /\ Become(p)
    BY <1>2, <1>4 DEF StopAfter
  <2>2. Steps(p)
    BY <1>1, <2>1, BuffersArePads, ScaleShape DEF Steps
  <2>3. /\ ins' = ins /\ DOMAIN memory' = DOMAIN memory /\ DOMAIN memory_f32' = DOMAIN memory_f32
        /\ graph' = graph
    BY <2>1, <2>2, StepsSame
  <2>4. bad \subseteq Blocks(ins) /\ Min(bad) \in bad
    <3>1. bad \subseteq Blocks(ins)
      BY DEF BadBlocks
    <3>2. bad \subseteq Nat
      BY <1>1, <3>1, BlocksAndLanes DEF BlockOps
    <3>3. QED
      <4> HIDE DEF bad
      <4>1. QED
        BY <1>4, <3>1, <3>2, LeastOf
  <2>5. PICK b : b = Min(bad)
    OBVIOUS
  <2>6. b \in Blocks(ins)
    BY <2>4, <2>5
  <2>7. InBounds(b)' = InBounds(b) /\ Blocks(ins)' = Blocks(ins)
    BY <2>3 DEF InBounds
  <2>8. status' = "panicked" => ~InBounds(b)
    BY <2>1, <2>5
  <2>9. ip' \in DOMAIN graph'.instructions /\ ins'.op = "BlockScale"
    BY <1>1, <2>1, <2>3
  <2>10. status' # "undefined"
    BY <2>1
  <2>11. status' = "panicked" => \E c \in Blocks(ins)' : ~InBounds(c)'
    BY <2>6, <2>7, <2>8
  <2>12. QED
    BY <2>9, <2>10, <2>11 DEF UndefinedCause, PanicCause
<1>5. QED
  BY <1>3, <1>4
(* Each scratchpad is an array.                                             *)
LEMMA ArraySizes ==
  ASSUME SizesInv
  PROVE  \E n \in Nat : DOMAIN memory_f32 = 0 .. n - 1 /\ Size(memory_f32) = n
<1>1. graph.memory_size \in Nat /\ BlockLen \in Nat \ {0}
  BY GraphFacts, BlockLenAssumption DEF SizesInv
<1>2. graph.memory_size \div BlockLen \in Nat
  BY <1>1
<1> DEFINE q == graph.memory_size \div BlockLen
<1>3. 0 .. (q + 1) - 1 = 0 .. q /\ 0 .. 0 - 1 = {} /\ q + 1 \in Nat
  BY <1>2
<1>4. DOMAIN memory_f32 = {} \/ DOMAIN memory_f32 = 0 .. q
  BY DEF SizesInv, ScratchF
<1>5. CASE DOMAIN memory_f32 = {}
  BY <1>3, <1>5, SizeOfArray
<1>6. CASE DOMAIN memory_f32 = 0 .. q
  <2> HIDE DEF q
  <2>1. q + 1 \in Nat /\ DOMAIN memory_f32 = 0 .. (q + 1) - 1
    BY <1>3, <1>6
  <2>2. QED
    BY <2>1, SizeOfArray
<1>7. QED
  BY <1>4, <1>5, <1>6

LEMMA BlockStepCauses ==
  ASSUME SizesInv, AIOStepBlock
  PROVE  UndefinedCause' /\ PanicCause'
<1>1. /\ UNCHANGED control /\ status = "running" /\ ip \in DOMAIN graph.instructions
      /\ ins \in OpCode /\ ins.op = "AIOStepBlock" /\ call = "execute"
  BY AtFacts DEF AIOStepBlock, At
<1>2. PICK checked \in Builds :
        LET steep == IF checked THEN TooSteep ELSE {}
            bad   == NoScale \union steep
        IN  CASE ~Sound(ins) -> Stop("undefined")
              [] Sound(ins) /\ ins.s > Size(memory_f32) -> Stop("panicked")
              [] Sound(ins) /\ ins.s <= Size(memory_f32) /\ bad = {} -> Perform(ins)
              [] OTHER ->
                   IF Min(bad) \in steep THEN StopAfter(FirstMomentOf(Min(bad)), "overflow")
                   ELSE StopAfter(Step(ins, buffers, UpTo(Min(bad))), "panicked")
  BY DEF AIOStepBlock
<1> DEFINE steep == IF checked THEN TooSteep ELSE {}
           bad   == NoScale \union steep
<1>3. ins.s \in Nat /\ Size(memory_f32) \in Nat
  BY <1>1, Fields, ArraySizes
<1>4. CASE ~Sound(ins)
  <2>1. Stop("undefined")
    BY <1>2, <1>4
  <2>2. QED
    BY <1>1, <1>4, <2>1, StopSame DEF UndefinedCause, PanicCause
<1>5. CASE Sound(ins) /\ ins.s > Size(memory_f32)
  <2>1. ~(ins.s <= Size(memory_f32)) /\ Sound(ins)
    BY <1>5, <1>3
  <2>2. Stop("panicked")
    BY <1>2, <1>5, <2>1
  <2>3. status' = "panicked" /\ ins' = ins /\ ip' = ip /\ graph' = graph /\ memory_f32' = memory_f32
    BY <1>1, <2>2, StopSame
  <2>4. ins'.s > Size(memory_f32')
    BY <1>5, <2>3
  <2>5. QED
    BY <1>1, <2>3, <2>4 DEF UndefinedCause, PanicCause
<1>6. CASE Sound(ins) /\ ~(ins.s > Size(memory_f32)) /\ bad = {}
  <2>1. ins.s <= Size(memory_f32)
    BY <1>6, <1>3
  <2>2. Perform(ins)
    BY <1>2, <1>6, <2>1
  <2>3. QED
    BY <1>1, <2>2 DEF Perform, UndefinedCause, PanicCause
<1>7. CASE Sound(ins) /\ ~(ins.s > Size(memory_f32)) /\ bad # {}
  <2>1. IF Min(bad) \in steep THEN StopAfter(FirstMomentOf(Min(bad)), "overflow")
        ELSE StopAfter(Step(ins, buffers, UpTo(Min(bad))), "panicked")
    BY <1>2, <1>7
  <2>2. CASE Min(bad) \in steep
    BY <2>1, <2>2 DEF StopAfter, UndefinedCause, PanicCause
  <2>3. CASE Min(bad) \notin steep
    <3>1. /\ status' = "panicked" /\ ip' = ip /\ Become(Step(ins, buffers, UpTo(Min(bad))))
      BY <2>1, <2>3 DEF StopAfter
    <3>2. Steps(Step(ins, buffers, UpTo(Min(bad))))
      BY <1>1, <3>1, BuffersArePads, StepShape DEF Steps
    <3>3. /\ ins' = ins /\ DOMAIN memory_f32' = DOMAIN memory_f32 /\ graph' = graph
      BY <3>1, <3>2, StepsSame
    <3>4. Min(bad) \in bad
      <4>1. Lanes(ins) \subseteq 0 .. ins.len - 1 /\ ins.len \in Nat
        BY <1>1, BlocksAndLanes, Fields DEF StepOps
      <4>2. bad \subseteq Lanes(ins)
        BY DEF NoScale, TooSteep
      <4>3. bad \subseteq Nat
        BY <4>1, <4>2
      <4>4. QED
        <5> HIDE DEF bad
        <5>1. QED
          BY <1>7, <4>3, LeastOf
    <3>5. NoScale # {}
      BY <2>3, <3>4
    <3>6. NoScale' = NoScale
      BY <3>3 DEF NoScale
    <3>7. QED
      BY <1>1, <3>1, <3>3, <3>5, <3>6 DEF UndefinedCause, PanicCause
  <2>4. QED
    BY <2>2, <2>3
<1>8. QED
  BY <1>4, <1>5, <1>6, <1>7

LEMMA NextKeepsVmInv == VmInv /\ [Next]_vars => VmInv'
<1>1. SUFFICES ASSUME VmInv, [Next]_vars PROVE VmInv'
  OBVIOUS
<1>2. CASE Instruction
  <2>1. SizesInv'
    BY <1>1, <1>2, InstructionKeepsSizes DEF VmInv
  <2>2. CASE SkipI8
    BY <2>1, <2>2 DEF SkipI8, VmInv, UndefinedCause, PanicCause
  <2>3. CASE ~SkipI8
    BY <1>1, <1>2, <2>1, <2>3, SimpleCauses, ScaleCauses, BlockStepCauses DEF VmInv, Instruction
  <2>4. QED
    BY <2>2, <2>3
<1>3. CASE Execute
  <2>1. SizesInv' /\ status' = "running"
    BY <1>1, <1>3, ExecuteKeepsSizes DEF VmInv, Execute, Begin
  <2>2. QED
    BY <2>1 DEF VmInv, UndefinedCause, PanicCause
<1>4. CASE ExecuteI8
  <2>1. SizesInv' /\ status' = "running"
    BY <1>1, <1>4, OthersKeepSizes DEF VmInv, ExecuteI8, Begin
  <2>2. QED
    BY <2>1 DEF VmInv, UndefinedCause, PanicCause
<1>5. CASE Return
  <2>1. SizesInv' /\ status' = "ok"
    BY <1>1, <1>5, OthersKeepSizes DEF VmInv, Return
  <2>2. QED
    BY <2>1 DEF VmInv, UndefinedCause, PanicCause
<1>6. CASE UNCHANGED vars
  <2>1. SizesInv'
    BY <1>1, <1>6, OthersKeepSizes DEF VmInv
  <2>2. Stop(status) /\ UNCHANGED control
    BY <1>6, BuffersArePads DEF Stop, StopAfter, Become, vars, control, scratch
  <2>3. UndefinedCause' /\ PanicCause'
    <3>1. buffers' = buffers /\ ins' = ins
      BY <1>6 DEF buffers, ins, vars, control, scratch
    <3>2. \A b : InBounds(b)' = InBounds(b)
      BY <1>6, <3>1 DEF InBounds, vars, scratch
    <3>3. QED
      BY <1>1, <2>2, <3>1, <3>2, StopSame DEF VmInv, UndefinedCause, PanicCause
  <2>4. QED
    BY <2>1, <2>3 DEF VmInv
<1>7. QED
  BY <1>1, <1>2, <1>3, <1>4, <1>5, <1>6 DEF Next

LEMMA VmInvariant == Spec => []VmInv
<1>1. Init => VmInv
  BY InitSizes DEF Init, VmInv, UndefinedCause, PanicCause
<1>2. QED
  BY <1>1, NextKeepsVmInv, PTL DEF Spec
-----------------------------------------------------------------------------
(* The end of the operands of an instruction, which the planner counts. *)
LEMMA PlanEndFacts ==
  ASSUME NEW i \in OpCode
  PROVE  /\ PlanEnd(i) \in Nat
         /\ i.op \in CountedOps =>
              Touches(i) \subseteq {"i16"} \X (0 .. PlanEnd(i) - 1)
<1>1. i.len \in Nat
  BY Fields
<1>2. ASSUME NEW x \in Nat, NEW y \in Nat, NEW z \in Nat
      PROVE  /\ Max({x, y, z}) \in Nat /\ Max({x, y}) \in Nat
             /\ x <= Max({x, y, z}) /\ y <= Max({x, y, z}) /\ z <= Max({x, y, z})
             /\ x <= Max({x, y}) /\ y <= Max({x, y})
  <2>1. x + y + z \in Nat /\ \A u \in {x, y, z} : u <= x + y + z
    OBVIOUS
  <2> DEFINE S == {x, y, z}
             T == {x, y}
             B == x + y + z
  <2>2. S # {} /\ S \subseteq Nat /\ T # {} /\ T \subseteq Nat /\ \A u \in T : u \in S
    OBVIOUS
  <2>3. /\ Max(S) \in S /\ \A u \in S : u <= Max(S)
        /\ Max(T) \in T /\ \A u \in T : u <= Max(T)
    <3> HIDE DEF S, T, B
    <3>1. B \in Int /\ (\A u \in S : u <= B) /\ \A u \in T : u <= B
      BY <2>1, <2>2 DEF S, B
    <3>2. S \subseteq Int /\ T \subseteq Int
      BY <2>2
    <3>3. /\ Max(S) \in S /\ \A u \in S : u <= Max(S)
      BY <2>2, <3>1, <3>2, MaxOf
    <3>4. /\ Max(T) \in T /\ \A u \in T : u <= Max(T)
      BY <2>2, <3>1, <3>2, MaxOf
    <3>5. QED
      BY <3>3, <3>4
  <2>4. QED
    BY <2>3
<1>3. ASSUME NEW off \in Nat, NEW end \in Nat, off + i.len <= end
      PROVE  Cells("i16", off, i.len) \subseteq {"i16"} \X (0 .. end - 1)
  BY <1>1, <1>3 DEF Cells, Span
<1>4. CASE i.op = "LoadVarVec"
  <2>1. PlanEnd(i) = i.dst + i.len /\ Touches(i) = Cells("i16", i.dst, i.len) /\ i.dst \in Nat
    BY <1>4, Fields DEF PlanEnd, Touches, Reads, Writes, ScalarOps, VecBinOps, VecOneOps, VecI8Ops, StepOps
  <2>2. QED
    BY <1>1, <1>3, <2>1
<1>5. CASE i.op = "StoreVec"
  <2>1. PlanEnd(i) = i.src + i.len /\ Touches(i) = Cells("i16", i.src, i.len) /\ i.src \in Nat
    BY <1>5, Fields DEF PlanEnd, Touches, Reads, Writes, ScalarOps, VecBinOps, VecOneOps, VecI8Ops, StepOps
  <2>2. QED
    BY <1>1, <1>3, <2>1
<1>6. CASE i.op \in {"AddVec", "MulVec"}
  <2> DEFINE top == Max({i.lhs, i.rhs, i.dst})
  <2>1. PlanEnd(i) = top + i.len /\ i.lhs \in Nat /\ i.rhs \in Nat /\ i.dst \in Nat
    BY <1>6, Fields DEF PlanEnd, VecBinOps, VecOneOps
  <2>2. Touches(i) = Cells("i16", i.lhs, i.len) \union Cells("i16", i.rhs, i.len)
                       \union Cells("i16", i.dst, i.len)
    BY <1>6 DEF Touches, Reads, Writes, ScalarOps, VecBinOps, VecOneOps, VecI8Ops, StepOps
  <2>3. top \in Nat /\ i.lhs <= top /\ i.rhs <= top /\ i.dst <= top
    BY <1>2, <2>1
  <2> HIDE DEF top
  <2>4. top + i.len \in Nat /\ i.lhs + i.len <= top + i.len /\ i.rhs + i.len <= top + i.len
          /\ i.dst + i.len <= top + i.len
    BY <1>1, <2>1, <2>3
  <2>5. /\ Cells("i16", i.lhs, i.len) \subseteq {"i16"} \X (0 .. PlanEnd(i) - 1)
        /\ Cells("i16", i.rhs, i.len) \subseteq {"i16"} \X (0 .. PlanEnd(i) - 1)
        /\ Cells("i16", i.dst, i.len) \subseteq {"i16"} \X (0 .. PlanEnd(i) - 1)
    BY <1>3, <2>1, <2>4
  <2>6. QED
    BY <2>1, <2>2, <2>4, <2>5
<1>7. CASE i.op \in VecOneOps
  <2> DEFINE top == Max({i.lhs, i.dst})
  <2>1. PlanEnd(i) = top + i.len /\ i.lhs \in Nat /\ i.dst \in Nat
    BY <1>7, Fields DEF PlanEnd, VecBinOps, VecOneOps
  <2>2. Touches(i) = Cells("i16", i.lhs, i.len) \union Cells("i16", i.dst, i.len)
    BY <1>7 DEF Touches, Reads, Writes, ScalarOps, VecBinOps, VecOneOps, VecI8Ops, StepOps
  <2>3. top \in Nat /\ i.lhs <= top /\ i.dst <= top
    BY <1>2, <2>1
  <2> HIDE DEF top
  <2>4. top + i.len \in Nat /\ i.lhs + i.len <= top + i.len /\ i.dst + i.len <= top + i.len
    BY <1>1, <2>1, <2>3
  <2>5. /\ Cells("i16", i.lhs, i.len) \subseteq {"i16"} \X (0 .. PlanEnd(i) - 1)
        /\ Cells("i16", i.dst, i.len) \subseteq {"i16"} \X (0 .. PlanEnd(i) - 1)
    BY <1>3, <2>1, <2>4
  <2>6. QED
    BY <2>1, <2>2, <2>4, <2>5
<1>8. CASE i.op \notin CountedOps
  BY <1>8 DEF PlanEnd, CountedOps
<1>9. QED
  BY <1>4, <1>5, <1>6, <1>7, <1>8 DEF CountedOps

(* The planner has looked at every instruction it counts.                  *)
LEMMA PlanCovers ==
  ASSUME graph \in Graphs, graph = Plan(graph.instructions), NEW i \in Program
  PROVE  PlanEnd(i) <= graph.memory_size
<1> DEFINE prog == graph.instructions
           n    == Len(prog)
           ends == [k \in 1 .. n |-> PlanEnd(prog[k])]
           S    == {0} \union {PlanEnd(prog[k]) : k \in DOMAIN prog}
<1>1. n \in Nat /\ DOMAIN prog = 1 .. n /\ \A k \in 1 .. n : prog[k] \in OpCode
  BY GraphFacts
<1>2. \A k \in 1 .. n : ends[k] \in Nat /\ ends[k] = PlanEnd(prog[k])
  BY <1>1, PlanEndFacts
<1>3. PICK B \in Nat : \A k \in 1 .. n : ends[k] <= B
  <2> HIDE DEF ends, n
  <2>1. QED
    BY <1>1, <1>2, Bounded
<1>4. S # {} /\ S \subseteq Nat /\ \A x \in S : x <= B
  <2> HIDE DEF ends, n
  <2>1. QED
    BY <1>1, <1>2, <1>3
<1>5. graph.memory_size = Max(S)
  BY DEF Plan
<1>6. PlanEnd(i) \in S
  BY DEF Program
<1>7. QED
  <2> HIDE DEF S
  <2>1. S \subseteq Int /\ B \in Int
    BY <1>3, <1>4
  <2>2. \A x \in S : x <= Max(S)
    BY <1>3, <1>4, <2>1, MaxOf
  <2>3. QED
    BY <1>5, <1>6, <2>2
(* What PlannedSafe asks of a graph.                                       *)
Planned ==
  /\ graph = Plan(graph.instructions)
  /\ NoneEmpty /\ TidyProgram /\ ScalesAtFront
  /\ UNION {Touches(i) \ Scales(i) : i \in Program} \subseteq CellsOf(CountedOps)

(* Then all the cells its instructions touch are in the i16 scratchpad.    *)
LEMMA AllInside ==
  ASSUME SizesInv, Planned, NEW i \in Program
  PROVE  Touches(i) \ Scales(i) \subseteq {"i16"} \X Memory
<1>1. SUFFICES ASSUME NEW c \in Touches(i) \ Scales(i) PROVE c \in {"i16"} \X Memory
  OBVIOUS
<1>2. c \in CellsOf(CountedOps)
  BY <1>1 DEF Planned
<1>3. PICK j \in Program : j.op \in CountedOps /\ c \in Touches(j)
  BY <1>2 DEF CellsOf
<1>4. graph \in Graphs /\ j \in OpCode /\ graph.memory_size \in Nat
  BY GraphFacts DEF SizesInv
<1>5. PlanEnd(j) \in Nat /\ c \in {"i16"} \X (0 .. PlanEnd(j) - 1)
  BY <1>3, <1>4, PlanEndFacts
<1>6. PlanEnd(j) <= graph.memory_size
  BY <1>4, PlanCovers DEF Planned
<1>7. 0 .. PlanEnd(j) - 1 \subseteq Memory
  BY <1>4, <1>5, <1>6 DEF Memory
<1>8. QED
  BY <1>5, <1>7

LEMMA AllSound ==
  ASSUME SizesInv, Planned, NEW i \in Program
  PROVE  Allocated(i) /\ Sound(i)
<1>1. Touches(i) \ Scales(i) \subseteq {"i16"} \X Memory
  BY AllInside
<1>2. DOMAIN buffers.i16 = Memory
  BY BuffersArePads DEF SizesInv
<1>3. Allocated(i)
  BY <1>1, <1>2 DEF Allocated, Pad
<1>4. QED
  BY <1>3 DEF Sound, Planned, TidyProgram

LEMMA TensorsInside ==
  ASSUME SizesInv, Planned, NEW i \in Program, NEW pad, NEW off \in Nat,
         Cells(pad, off, i.len) \subseteq Touches(i) \ Scales(i)
  PROVE  pad = "i16" /\ off + i.len <= graph.memory_size
<1>1. i \in OpCode /\ i.len \in Nat /\ i.len > 0 /\ graph.memory_size \in Nat
  BY GraphFacts, Fields DEF SizesInv, Planned, NoneEmpty
<1>2. <<pad, off + i.len - 1>> \in Cells(pad, off, i.len)
  BY <1>1 DEF Cells, Span
<1>3. <<pad, off + i.len - 1>> \in {"i16"} \X Memory
  BY <1>2, AllInside
<1>4. off + i.len - 1 <= graph.memory_size - 1
  BY <1>3 DEF Memory
<1>5. QED
  BY <1>1, <1>3, <1>4

LEMMA TensorsOf ==
  ASSUME NEW i \in OpCode
  PROVE  /\ i.op \in LoadOps \union {"FillVec"} =>
              Cells("i16", i.dst, i.len) \subseteq Touches(i) \ Scales(i)
         /\ i.op \in SaveOps \union {"BlockScale"} =>
              Cells("i16", i.src, i.len) \subseteq Touches(i) \ Scales(i)
         /\ i.op = "LoadVarVec8" => Cells("i8", i.dst, i.len) \subseteq Touches(i) \ Scales(i)
         /\ i.op = "StoreVec8" => Cells("i8", i.src, i.len) \subseteq Touches(i) \ Scales(i)
         /\ i.op = "AIOStep" =>
              /\ Cells(MomentPad(i), i.m, i.len) \subseteq Touches(i) \ Scales(i)
              /\ Cells(MomentPad(i), i.v, i.len) \subseteq Touches(i) \ Scales(i)
         /\ i.op = "AIOStepBlock" => Cells("i16", i.w, i.len) \subseteq Touches(i) \ Scales(i)
<1>1. Scales(i) \subseteq {"f32"} \X UNION {Blocks(i), {i.s + b : b \in Blocks(i)}}
  BY DEF Scales
<1>2. ASSUME NEW pad, pad # "f32", NEW off, Cells(pad, off, i.len) \subseteq Touches(i)
      PROVE  Cells(pad, off, i.len) \subseteq Touches(i) \ Scales(i)
  BY <1>1, <1>2 DEF Cells
<1>3. i.op \in LoadOps \union {"FillVec"} => Cells("i16", i.dst, i.len) \subseteq Touches(i)
  BY DEF Touches, Writes, LoadOps, ScalarOps, VecBinOps, VecOneOps, VecI8Ops, StepOps
<1>4. i.op \in SaveOps \union {"BlockScale"} => Cells("i16", i.src, i.len) \subseteq Touches(i)
  BY DEF Touches, Reads, SaveOps, ScalarOps, VecBinOps, VecOneOps, VecI8Ops, StepOps
<1>5. i.op = "LoadVarVec8" => Cells("i8", i.dst, i.len) \subseteq Touches(i)
  BY DEF Touches, Writes, ScalarOps, VecBinOps, VecOneOps, VecI8Ops, StepOps
<1>6. i.op = "StoreVec8" => Cells("i8", i.src, i.len) \subseteq Touches(i)
  BY DEF Touches, Reads, ScalarOps, VecBinOps, VecOneOps, VecI8Ops, StepOps
<1>7. i.op = "AIOStep" => /\ Cells(MomentPad(i), i.m, i.len) \subseteq Touches(i)
                          /\ Cells(MomentPad(i), i.v, i.len) \subseteq Touches(i)
  BY DEF Touches, Writes, Moments, ScalarOps, VecBinOps, VecOneOps, VecI8Ops, StepOps
<1>8. i.op = "AIOStepBlock" => Cells("i16", i.w, i.len) \subseteq Touches(i)
  BY DEF Touches, Writes, ScalarOps, VecBinOps, VecOneOps, VecI8Ops, StepOps
<1>9. MomentPad(i) # "f32"
  BY DEF MomentPad
<1>10. QED
  BY <1>2, <1>3, <1>4, <1>5, <1>6, <1>7, <1>8, <1>9

(* The scratchpad of the scales has room for every block of a tensor.      *)
LEMMA BlocksFitScales ==
  ASSUME NEW N \in Nat, NEW k \in Nat, k <= N
  PROVE  k \div BlockLen \in 0 .. N \div BlockLen
<1>1. BlockLen \in Nat \ {0}
  BY BlockLenAssumption
<1> DEFINE p == k \div BlockLen
           q == N \div BlockLen
<1>2. p \in Nat /\ q \in Nat /\ p * BlockLen <= k /\ N < (q + 1) * BlockLen
  BY <1>1
<1>3. p <= q
  <2> HIDE DEF p, q
  <2>1. p * BlockLen < (q + 1) * BlockLen
    BY <1>1, <1>2
  <2>2. p >= q + 1 => p * BlockLen >= (q + 1) * BlockLen
    BY <1>1, <1>2
  <2>3. QED
    BY <1>1, <1>2, <2>1, <2>2
<1>4. QED
  BY <1>2, <1>3

LEMMA LanesOfBlock ==
  ASSUME NEW i \in OpCode, NEW b \in Nat
  PROVE  BlockLanes(i, b) \subseteq 0 .. i.len - 1
<1>1. i.len \in Nat /\ BlockLen \in Nat \ {0} /\ b * BlockLen \in Nat /\ (b + 1) * BlockLen \in Nat
  BY Fields, BlockLenAssumption
<1> DEFINE S == {(b + 1) * BlockLen, i.len}
           low == b * BlockLen
<1>2. Min(S) \in S /\ \A x \in S : Min(S) <= x
  <2>1. S \subseteq Nat /\ S # {}
    BY <1>1
  <2> HIDE DEF S
  <2>2. QED
    BY <2>1, LeastElement DEF Min
<1>3. Min(S) \in Int /\ Min(S) <= i.len
  BY <1>1, <1>2
<1>4. BlockLanes(i, b) = low .. Min(S) - 1
  BY DEF BlockLanes
<1>5. QED
  <2> HIDE DEF S, low
  <2>1. low \in Nat
    BY <1>1 DEF low
  <2>2. QED
    BY <1>1, <1>3, <1>4, <2>1

(* No instruction of a planned graph panics on buffers that fit it.        *)
LEMMA PlannedDoesNotPanic ==
  ASSUME VmInv, Planned, call = "execute", BuffersFit
  PROVE  status # "panicked"
<1>1. SUFFICES ASSUME status = "panicked" PROVE FALSE
  OBVIOUS
<1>2. SizesInv /\ ip \in DOMAIN graph.instructions
  BY <1>1 DEF VmInv, PanicCause
<1> DEFINE N == graph.memory_size
<1>3. /\ ins \in Program /\ ins \in OpCode /\ ins.len \in Nat /\ ins.len > 0 /\ N \in Nat
      /\ BlockLen \in Nat \ {0}
  BY <1>2, GraphFacts, Fields, BlockLenAssumption DEF SizesInv, ins, Program, Planned, NoneEmpty
<1>4. DOMAIN memory = 0 .. N - 1
  BY <1>2 DEF SizesInv, Memory
<1>5. ASSUME NEW pad, NEW off \in Nat, Cells(pad, off, ins.len) \subseteq Touches(ins) \ Scales(ins)
      PROVE  pad = "i16" /\ off + ins.len <= N /\ Fits(memory, off, ins.len)
  <2>1. pad = "i16" /\ off + ins.len <= N
    BY <1>2, <1>3, <1>5, TensorsInside
  <2>2. QED
    BY <1>3, <1>4, <2>1, FitsCovers
<1>6. ins.op \in LoadOps => Fits(inputs, ins.var, ins.len) /\ Fits(memory, ins.dst, ins.len)
  BY <1>3, <1>5, TensorsOf, Fields DEF BuffersFit, LoadOps
<1>7. ins.op \in SaveOps => Fits(memory, ins.src, ins.len) /\ Fits(outputs, ins.out, ins.len)
  <2>1. SUFFICES ASSUME ins.op \in SaveOps
                 PROVE  Fits(memory, ins.src, ins.len) /\ Fits(outputs, ins.out, ins.len)
    OBVIOUS
  <2>2. ins.src \in Nat /\ ins.out \in Nat
    BY <1>3, <2>1, Fields DEF SaveOps
  <2>3. Span(ins.out, ins.len) \subseteq DOMAIN outputs
    BY <1>3, <2>1 DEF BuffersFit, Stores, SaveOps
  <2>4. ins.out + ins.len - 1 \in DOMAIN outputs
    BY <1>3, <2>2, <2>3 DEF Span
  <2>5. PICK n \in Nat : DOMAIN outputs = 0 .. n - 1
    BY <1>2 DEF SizesInv
  <2>6. ins.out + ins.len <= n
    BY <1>3, <2>2, <2>4, <2>5
  <2>7. Fits(outputs, ins.out, ins.len)
    BY <1>3, <2>2, <2>5, <2>6, FitsCovers
  <2>8. QED
    BY <1>3, <1>5, <2>1, <2>2, <2>7, TensorsOf
<1>8. ins.op = "FillVec" => Fits(memory, ins.dst, ins.len)
  BY <1>3, <1>5, TensorsOf, Fields
<1>9. Allocated(ins)
  BY <1>2, <1>3, AllSound
<1>10. ins.op \notin {"LoadVarVec8", "StoreVec8"}
  BY <1>3, <1>5, TensorsOf, Fields
<1>11. ins.op = "AIOStep" => SplitMoments(buffers[MomentPad(ins)])
  <2>1. SUFFICES ASSUME ins.op = "AIOStep" PROVE SplitMoments(buffers[MomentPad(ins)])
    OBVIOUS
  <2>2. ins.m \in Nat /\ ins.v \in Nat
    BY <1>3, <2>1, Fields DEF StepOps
  <2>3. MomentPad(ins) = "i16" /\ Fits(memory, ins.m, ins.len) /\ Fits(memory, ins.v, ins.len)
    BY <1>3, <1>5, <2>1, <2>2, TensorsOf
  <2>4. ins.m + ins.len <= ins.v
    BY <1>3, <2>1 DEF Planned, TidyProgram
  <2>5. QED
    BY <2>3, <2>4, BuffersArePads DEF SplitMoments
<1>12. ins.op \in BlockOps => DOMAIN memory_f32 = 0 .. N \div BlockLen
  BY <1>2, <1>3 DEF SizesInv, NeedsF32, ScratchF
<1>13. ins.op = "BlockScale" => \A b \in Blocks(ins) : InBounds(b)
  <2>1. SUFFICES ASSUME ins.op = "BlockScale", NEW b \in Blocks(ins) PROVE InBounds(b)
    OBVIOUS
  <2>2. ins.src \in Nat /\ ins.src + ins.len <= N
    BY <1>3, <1>5, <2>1, TensorsOf, Fields
  <2> DEFINE last == ins.len - 1
             q == N \div BlockLen
             r == last \div BlockLen
  <2>3. r \in 0 .. q
    <3>1. last \in Nat /\ last <= N
      BY <1>3, <2>2
    <3> HIDE DEF last
    <3>2. QED
      BY <1>3, <3>1, BlocksFitScales
  <2>4. Blocks(ins) = 0 .. r /\ q \in Nat
    BY <1>3, <2>1 DEF Blocks
  <2>5. b \in Nat /\ b \in 0 .. q
    <3> HIDE DEF q, r
    <3>1. QED
      BY <2>1, <2>3, <2>4
  <2>6. b \in DOMAIN memory_f32
    BY <1>12, <2>1, <2>5 DEF BlockOps
  <2>7. \A k \in BlockLanes(ins, b) : ins.src + k \in DOMAIN memory
    <3>1. BlockLanes(ins, b) \subseteq 0 .. ins.len - 1
      BY <1>3, <2>5, LanesOfBlock
    <3>2. QED
      BY <1>3, <1>4, <2>2, <3>1
  <2>8. QED
    BY <2>6, <2>7 DEF InBounds
<1>14. ins.op = "AIOStepBlock" => ~(ins.s > Size(memory_f32)) /\ NoScale = {}
  <2>1. SUFFICES ASSUME ins.op = "AIOStepBlock" PROVE ~(ins.s > Size(memory_f32)) /\ NoScale = {}
    OBVIOUS
  <2>2. ins.s = 0 /\ ins.w \in Nat /\ ins.w + ins.len <= N
    BY <1>3, <1>5, <2>1, TensorsOf, Fields DEF Planned, ScalesAtFront, StepOps
  <2>3. Size(memory_f32) \in Nat
    BY <1>2, ArraySizes
  <2>4. ASSUME NEW k \in Lanes(ins) PROVE ins.s + k \div BlockLen \in DOMAIN memory_f32
    <3>1. k \in Nat /\ k <= N
      BY <1>3, <2>1, <2>2, BlocksAndLanes DEF StepOps
    <3>2. k \div BlockLen \in 0 .. N \div BlockLen /\ k \div BlockLen \in Nat
      BY <1>3, <3>1, BlocksFitScales
    <3>3. QED
      BY <1>12, <2>1, <2>2, <3>2 DEF BlockOps
  <2>5. QED
    BY <2>2, <2>3, <2>4 DEF NoScale
<1>15. QED
  BY <1>1, <1>6, <1>7, <1>8, <1>9, <1>10, <1>11, <1>13, <1>14 DEF VmInv, PanicCause

(* The memory planner keeps the kernels inside the scratchpad: a planned   *)
(* graph without empty tensors, whose uncounted instructions work on the   *)
(* tensors of the counted ones, never reaches undefined behaviour, and     *)
(* never panics on buffers that are long enough.                           *)
THEOREM PlannedGraphsAreSafe == Spec => []PlannedSafe
<1>1. VmInv => PlannedSafe
  <2>1. SUFFICES ASSUME VmInv, Planned
                 PROVE  status # "undefined" /\ (call = "execute" /\ BuffersFit => status # "panicked")
    BY DEF PlannedSafe, Planned
  <2>2. status # "undefined"
    BY <2>1, AllSound DEF VmInv, UndefinedCause, SizesInv, Program, ins
  <2>3. QED
    BY <2>1, <2>2, PlannedDoesNotPanic
<1>2. QED
  BY <1>1, VmInvariant, PTL

(* A kernel of execute_i8 leaves the scratchpad only while memory_i8 is    *)
(* empty: a call of execute has sized it for the graph.                    *)
THEOREM SizingIsLeftToExecute == Spec => []SizedByExecute
<1>1. VmInv => SizedByExecute
  <2>1. SUFFICES ASSUME VmInv, TidyProgram, call = "execute_i8", status = "undefined",
                        \A cell \in CellsOf(VecI8Ops) : cell[2] < graph.memory_size
                 PROVE  memory_i8 = <<>>
    BY DEF SizedByExecute
  <2>2. /\ SizesInv /\ ins \in Program /\ ins \in OpCode /\ ins.op \in VecI8Ops /\ ~Sound(ins)
        /\ graph.memory_size \in Nat
    BY <2>1, GraphFacts DEF VmInv, UndefinedCause, SizesInv, Program, ins
  <2>3. ~Allocated(ins)
    BY <2>1, <2>2 DEF Sound, TidyProgram
  <2>4. ins.lhs \in Nat /\ ins.rhs \in Nat /\ ins.dst \in Nat /\ ins.len \in Nat
    BY <2>2, Fields
  <2>5. Touches(ins) \subseteq {"i8"} \X Nat
    BY <2>2, <2>4 DEF Touches, Reads, Writes, Cells, Span, ScalarOps, VecBinOps, VecOneOps,
                      VecI8Ops, StepOps
  <2>6. Touches(ins) \subseteq CellsOf(VecI8Ops)
    BY <2>2 DEF CellsOf
  <2>7. ~Scratch8
    BY <2>1, <2>2, <2>3, <2>5, <2>6, BuffersArePads DEF Allocated, Pad, Scratch8, Memory
  <2>8. DOMAIN memory_i8 = {} /\ IsFunction(memory_i8)
    BY <2>2, <2>7 DEF SizesInv
  <2>9. QED
    BY <2>8 DEF IsFunction
<1>2. QED
  BY <1>1, VmInvariant, PTL
-----------------------------------------------------------------------------
(* The buffers a program leaves.  Stages is defined by recursion: there is *)
(* a function that satisfies its equation, built stage by stage.           *)
LEMMA StagesAre ==
  ASSUME NEW prog \in Seq(OpCode), NEW b, NEW inp
  PROVE  /\ Stages(prog, b, inp)[0] = b
         /\ \A k \in 1 .. Len(prog) :
              Stages(prog, b, inp)[k] = Effect(prog[k], Stages(prog, b, inp)[k - 1], inp)
<1> DEFINE n == Len(prog)
           Next1(k, x) == Effect(prog[k], x, inp)
           F(f) == [k \in 0 .. n |-> IF k = 0 THEN b ELSE Effect(prog[k], f[k - 1], inp)]
           G(f, m) == [k \in 0 .. m |-> IF k = 0 THEN b ELSE Next1(k, f[k - 1])]
           stage == CHOOSE f : f = F(f)
           Good == {m \in Nat : \E f : f = G(f, m)}
<1>1. Stages(prog, b, inp) = stage
  BY DEF Stages
<1>2. n \in Nat
  OBVIOUS
<1>3. 0 \in Good
  <2> HIDE DEF Next1
  <2> DEFINE f == [k \in 0 .. 0 |-> b]
  <2>1. f = G(f, 0)
    OBVIOUS
  <2>2. QED
    BY <2>1
<1>4. ASSUME NEW m \in Nat, m \in Good PROVE m + 1 \in Good
  <2> HIDE DEF Next1
  <2>1. PICK f : f = G(f, m)
    BY <1>4
  <2> DEFINE g == [k \in 0 .. m + 1 |-> IF k = m + 1 THEN Next1(m + 1, f[m]) ELSE f[k]]
  <2>2. ASSUME NEW k \in 0 .. m + 1 PROVE g[k] = IF k = 0 THEN b ELSE Next1(k, g[k - 1])
    <3>1. \A j \in 0 .. m : f[j] = IF j = 0 THEN b ELSE Next1(j, f[j - 1])
      BY <2>1
    <3>2. CASE k = m + 1
      <4>1. k - 1 = m /\ m \in 0 .. m + 1 /\ m # m + 1 /\ k # 0
        BY <3>2
      <4>2. g[m] = f[m] /\ g[k] = Next1(m + 1, f[m])
        BY <3>2, <4>1
      <4>3. QED
        <5> HIDE DEF g
        <5>1. QED
          BY <3>2, <4>1, <4>2
    <3>3. CASE k = 0
      <4>1. g[0] = f[0] /\ f[0] = b
        BY <3>1
      <4>2. QED
        BY <3>3, <4>1
    <3>4. CASE k # m + 1 /\ k # 0
      <4>1. k \in 0 .. m /\ k - 1 \in 0 .. m + 1 /\ k - 1 # m + 1
        BY <3>4
      <4>2. g[k] = f[k] /\ g[k - 1] = f[k - 1] /\ f[k] = Next1(k, f[k - 1])
        BY <3>1, <3>4, <4>1
      <4>3. QED
        <5> HIDE DEF g
        <5>1. QED
          BY <3>4, <4>2
    <3>5. QED
      BY <3>2, <3>3, <3>4
  <2>3. g = G(g, m + 1)
    <3> DEFINE h == G(g, m + 1)
    <3>1. \A k \in 0 .. m + 1 : h[k] = IF k = 0 THEN b ELSE Next1(k, g[k - 1])
      <4> HIDE DEF g
      <4>1. QED
        OBVIOUS
    <3>2. DOMAIN g = 0 .. m + 1 /\ DOMAIN h = 0 .. m + 1
      OBVIOUS
    <3>3. \A k \in 0 .. m + 1 : g[k] = h[k]
      <4> HIDE DEF g, h
      <4>1. QED
        BY <2>2, <3>1
    <3>4. g = [k \in 0 .. m + 1 |-> g[k]] /\ h = [k \in 0 .. m + 1 |-> h[k]]
      OBVIOUS
    <3>5. g = h
      <4> HIDE DEF g, h
      <4>1. QED
        BY <3>3, <3>4
    <3>6. QED
      BY <3>5
  <2>4. \E e : e = G(e, m + 1)
    <3> HIDE DEF g
    <3>1. QED
      BY <2>3
  <2>5. QED
    BY <2>4
<1>5. n \in Good
  <2>1. Nat \subseteq Good
    <3> HIDE DEF Good
    <3>1. QED
      BY <1>3, <1>4, SetInduction
  <2>2. QED
    BY <1>2, <2>1
<1>6. \E f : f = F(f)
  <2>1. PICK f : f = G(f, n)
    BY <1>5
  <2>2. G(f, n) = F(f)
    OBVIOUS
  <2>3. QED
    BY <2>1, <2>2
<1>7. stage = F(stage)
  <2> HIDE DEF F
  <2>1. QED
    BY <1>6
<1>8. \A k \in 0 .. n : stage[k] = IF k = 0 THEN b ELSE Next1(k, stage[k - 1])
  <2> HIDE DEF stage
  <2>1. QED
    BY <1>7
<1>9. stage[0] = b /\ \A k \in 1 .. n : stage[k] = Next1(k, stage[k - 1])
  <2> HIDE DEF stage, Next1
  <2>1. 0 \in 0 .. n /\ \A k \in 1 .. n : k \in 0 .. n /\ k # 0
    BY <1>2
  <2>2. QED
    BY <1>8, <2>1
<1>10. QED
  BY <1>1, <1>9

LEMMA StagesAlike ==
  ASSUME NEW prog \in Seq(OpCode), NEW b, DOMAIN b = Pads, NEW inp, NEW k \in 0 .. Len(prog)
  PROVE  Alike(Stages(prog, b, inp)[k], b)
<1> DEFINE R == Stages(prog, b, inp)
           Good == {m \in Nat : m <= Len(prog) => Alike(R[m], b)}
<1>1. R[0] = b /\ \A m \in 1 .. Len(prog) : R[m] = Effect(prog[m], R[m - 1], inp)
  BY StagesAre
<1>2. 0 \in Good
  BY <1>1 DEF Alike
<1>3. ASSUME NEW m \in Nat, m \in Good PROVE m + 1 \in Good
  <2> HIDE DEF R
  <2>1. SUFFICES ASSUME m + 1 <= Len(prog) PROVE Alike(R[m + 1], b)
    OBVIOUS
  <2>2. Alike(R[m], b) /\ m + 1 \in 1 .. Len(prog) /\ (m + 1) - 1 = m /\ prog[m + 1] \in OpCode
    BY <1>3, <2>1
  <2>3. R[m + 1] = Effect(prog[m + 1], R[m], inp)
    BY <1>1, <2>2
  <2>4. Alike(R[m + 1], R[m])
    BY <2>2, <2>3, EffectShape DEF Alike
  <2>5. QED
    BY <2>2, <2>4, AlikeTransitive
<1>4. Nat \subseteq Good
  <2> HIDE DEF Good
  <2>1. QED
    BY <1>2, <1>3, SetInduction
<1>5. k \in Good /\ k <= Len(prog)
  BY <1>4
<1>6. QED
  BY <1>5
-----------------------------------------------------------------------------
(* An instruction makes the same of buffers that agree on the cells it     *)
(* reads: they then agree on the cells it writes as well.                  *)
Same(cells, p, q) ==
  \A c \in cells :
    /\ c[1] \in Pads /\ c[2] \in DOMAIN p[c[1]] /\ c[2] \in DOMAIN q[c[1]]
    /\ p[c[1]][c[2]] = q[c[1]][c[2]]

LEMMA ReadSame ==
  ASSUME NEW W, NEW p, NEW q, Same(W, p, q), NEW pad, NEW off \in Nat, NEW len \in Nat,
         Cells(pad, off, len) \subseteq W
  PROVE  \A k \in 0 .. len - 1 : p[pad][off + k] = q[pad][off + k]
<1>1. SUFFICES ASSUME NEW k \in 0 .. len - 1 PROVE p[pad][off + k] = q[pad][off + k]
  OBVIOUS
<1>2. <<pad, off + k>> \in W
  BY DEF Cells, Span
<1>3. QED
  BY <1>2 DEF Same

LEMMA ReadsOf ==
  ASSUME NEW i \in OpCode
  PROVE  /\ i.op \in SaveOps \union {"BlockScale"} => Cells("i16", i.src, i.len) \subseteq Reads(i)
         /\ i.op = "StoreVec8" => Cells("i8", i.src, i.len) \subseteq Reads(i)
         /\ i.op \in ArithOps => Cells("i16", i.lhs, i.len) \subseteq Reads(i)
         /\ i.op \in ScalarOps \union VecBinOps => Cells("i16", i.rhs, i.len) \subseteq Reads(i)
         /\ i.op \in VecI8Ops => /\ Cells("i8", i.lhs, i.len) \subseteq Reads(i)
                                 /\ Cells("i8", i.rhs, i.len) \subseteq Reads(i)
         /\ i.op \in StepOps => /\ Cells("i16", i.w, i.len) \subseteq Reads(i)
                                /\ Cells("i16", i.g, i.len) \subseteq Reads(i)
                                /\ Cells(MomentPad(i), i.m, i.len) \subseteq Reads(i)
                                /\ Cells(MomentPad(i), i.v, i.len) \subseteq Reads(i)
                                /\ Scales(i) \subseteq Reads(i)
                                /\ Targets(i) \subseteq Reads(i)
<1>1. CASE i.op \in StepOps
  <2>1. Reads(i) = Moments(i) \union Scales(i)
                     \union UNION {Cells("i16", off, i.len) : off \in {i.w, i.g}}
    BY <1>1 DEF Reads, ScalarOps, VecBinOps, VecOneOps, VecI8Ops, StepOps
  <2>2. /\ Cells(MomentPad(i), i.m, i.len) \subseteq Moments(i)
        /\ Cells(MomentPad(i), i.v, i.len) \subseteq Moments(i)
    BY DEF Moments
  <2>3. Targets(i) = Moments(i) \union Cells("i16", i.w, i.len)
    BY <1>1 DEF Targets, Stores, Writes, ScalarOps, VecBinOps, VecOneOps, VecI8Ops, StepOps
  <2>4. QED
    BY <1>1, <2>1, <2>2, <2>3
       DEF SaveOps, ArithOps, ScalarOps, VecBinOps, VecOneOps, VecI8Ops, StepOps
<1>2. CASE i.op \notin StepOps
  BY <1>2 DEF Reads, SaveOps, ArithOps, ScalarOps, VecBinOps, VecOneOps, VecI8Ops, StepOps
<1>3. QED
  BY <1>1, <1>2

LEMMA TargetsOfCopy ==
  ASSUME NEW i \in OpCode, i.op \notin StepOps, i.op # "BlockScale"
  PROVE  /\ Targets(i) = {PadOf(i)} \X Span(OffOf(i), i.len)
         /\ OffOf(i) \in Nat
<1>1. CASE i.op \in SaveOps \union {"StoreVec8"}
  <2>1. Targets(i) = {"out"} \X Span(i.out, i.len)
    BY <1>1 DEF Targets, Writes, Stores, SaveOps, ScalarOps, VecBinOps, VecOneOps, VecI8Ops, StepOps
  <2>2. PadOf(i) = "out" /\ OffOf(i) = i.out /\ i.out \in Nat
    BY <1>1, Fields DEF PadOf, OffOf, SaveOps
  <2>3. QED
    BY <2>1, <2>2
<1>2. CASE i.op \in VecI8Ops \union {"LoadVarVec8"}
  <2>1. Targets(i) = {"i8"} \X Span(i.dst, i.len)
    BY <1>2 DEF Targets, Writes, Stores, Cells, ScalarOps, VecBinOps, VecOneOps, VecI8Ops, StepOps
  <2>2. PadOf(i) = "i8" /\ OffOf(i) = i.dst /\ i.dst \in Nat
    BY <1>2, Fields DEF PadOf, OffOf, SaveOps, VecI8Ops
  <2>3. QED
    BY <2>1, <2>2
<1>3. CASE i.op \in LoadOps \union ArithOps \union {"FillVec"}
  <2>1. Targets(i) = {"i16"} \X Span(i.dst, i.len)
    BY <1>3 DEF Targets, Writes, Stores, Cells, LoadOps, ArithOps, ScalarOps, VecBinOps, VecOneOps,
                VecI8Ops, StepOps
  <2>2. PadOf(i) = "i16" /\ OffOf(i) = i.dst
    BY <1>3 DEF PadOf, OffOf, LoadOps, SaveOps, ArithOps, ScalarOps, VecBinOps, VecOneOps, VecI8Ops
  <2>3. i.dst \in Nat
    BY <1>3, Fields DEF LoadOps, ArithOps
  <2>4. QED
    BY <2>1, <2>2, <2>3
<1>4. QED
  BY <1>1, <1>2, <1>3, Kinds

LEMMA ResultSame ==
  ASSUME NEW i \in OpCode, NEW a, NEW b,
         \A k \in 0 .. i.len - 1 : a[i.lhs + k] = b[i.lhs + k],
         i.op \notin VecOneOps => \A k \in 0 .. i.len - 1 : a[i.rhs + k] = b[i.rhs + k]
  PROVE  Result(i, a) = Result(i, b)
<1>1. \A k \in 0 .. i.len - 1 : Rhs(i, a, k) = Rhs(i, b, k)
  BY DEF Rhs
<1>2. QED
  BY <1>1 DEF Result

LEMMA ValuesAre ==
  ASSUME NEW i \in OpCode, NEW p, NEW inp
  PROVE  /\ i.op \in LoadOps => ValuesOf(i, p, inp) = Slice(inp, i.var, i.len)
         /\ i.op \in SaveOps => ValuesOf(i, p, inp) = Slice(p.i16, i.src, i.len)
         /\ i.op = "FillVec" => ValuesOf(i, p, inp) = [k \in 0 .. i.len - 1 |-> i.val]
         /\ i.op \in ArithOps => ValuesOf(i, p, inp) = Result(i, p.i16)
         /\ i.op = "LoadVarVec8" =>
              ValuesOf(i, p, inp) = [k \in 0 .. i.len - 1 |-> Crunch8(inp[i.var + k])]
         /\ i.op = "StoreVec8" =>
              ValuesOf(i, p, inp) = [k \in 0 .. i.len - 1 |-> Widen8(p.i8[i.src + k])]
         /\ i.op \in VecI8Ops => ValuesOf(i, p, inp) = Result(i, p.i8)
<1>1. i.op \in LoadOps => ValuesOf(i, p, inp) = Slice(inp, i.var, i.len)
  BY DEF ValuesOf, LoadOps, SaveOps, ArithOps, ScalarOps, VecBinOps, VecOneOps, VecI8Ops
<1>2. i.op \in SaveOps => ValuesOf(i, p, inp) = Slice(p.i16, i.src, i.len)
  BY DEF ValuesOf, LoadOps, SaveOps, ArithOps, ScalarOps, VecBinOps, VecOneOps, VecI8Ops
<1>3. i.op = "FillVec" => ValuesOf(i, p, inp) = [k \in 0 .. i.len - 1 |-> i.val]
  BY DEF ValuesOf, LoadOps, SaveOps, ArithOps, ScalarOps, VecBinOps, VecOneOps, VecI8Ops
<1>4. i.op \in ArithOps => ValuesOf(i, p, inp) = Result(i, p.i16)
  BY DEF ValuesOf, LoadOps, SaveOps, ArithOps, ScalarOps, VecBinOps, VecOneOps, VecI8Ops
<1>5. i.op = "LoadVarVec8" => ValuesOf(i, p, inp) = [k \in 0 .. i.len - 1 |-> Crunch8(inp[i.var + k])]
  BY DEF ValuesOf, LoadOps, SaveOps, ArithOps, ScalarOps, VecBinOps, VecOneOps, VecI8Ops
<1>6. i.op = "StoreVec8" => ValuesOf(i, p, inp) = [k \in 0 .. i.len - 1 |-> Widen8(p.i8[i.src + k])]
  BY DEF ValuesOf, LoadOps, SaveOps, ArithOps, ScalarOps, VecBinOps, VecOneOps, VecI8Ops
<1>7. i.op \in VecI8Ops => ValuesOf(i, p, inp) = Result(i, p.i8)
  BY DEF ValuesOf, LoadOps, SaveOps, ArithOps, ScalarOps, VecBinOps, VecOneOps, VecI8Ops
<1>8. QED
  BY <1>1, <1>2, <1>3, <1>4, <1>5, <1>6, <1>7

LEMMA ValuesSame ==
  ASSUME NEW i \in OpCode, i.op \notin StepOps, i.op # "BlockScale", NEW inp,
         NEW W, NEW p, NEW q, Same(W, p, q), Reads(i) \subseteq W
  PROVE  /\ ValuesOf(i, p, inp) = ValuesOf(i, q, inp)
         /\ DOMAIN ValuesOf(i, p, inp) = 0 .. i.len - 1
<1>1. i.len \in Nat
  BY Fields
<1>2. ASSUME NEW pad, NEW off \in Nat, Cells(pad, off, i.len) \subseteq Reads(i)
      PROVE  \A k \in 0 .. i.len - 1 : p[pad][off + k] = q[pad][off + k]
  <2>1. Cells(pad, off, i.len) \subseteq W
    BY <1>2
  <2>2. QED
    BY <1>1, <2>1, ReadSame
<1>3. CASE i.op \in LoadOps
  <2>1. ValuesOf(i, p, inp) = Slice(inp, i.var, i.len) /\ ValuesOf(i, q, inp) = Slice(inp, i.var, i.len)
    BY <1>3, ValuesAre
  <2>2. QED
    BY <2>1 DEF Slice
<1>4. CASE i.op \in SaveOps
  <2>1. /\ ValuesOf(i, p, inp) = Slice(p.i16, i.src, i.len)
        /\ ValuesOf(i, q, inp) = Slice(q.i16, i.src, i.len)
    BY <1>4, ValuesAre
  <2>2. i.src \in Nat /\ Cells("i16", i.src, i.len) \subseteq Reads(i)
    BY <1>4, Fields, ReadsOf DEF SaveOps
  <2>3. \A k \in 0 .. i.len - 1 : p.i16[i.src + k] = q.i16[i.src + k]
    BY <1>2, <2>2
  <2>4. QED
    BY <2>1, <2>3 DEF Slice
<1>5. CASE i.op = "FillVec"
  <2>1. /\ ValuesOf(i, p, inp) = [k \in 0 .. i.len - 1 |-> i.val]
        /\ ValuesOf(i, q, inp) = [k \in 0 .. i.len - 1 |-> i.val]
    BY <1>5, ValuesAre
  <2>2. QED
    BY <2>1
<1>6. CASE i.op \in ArithOps
  <2>1. ValuesOf(i, p, inp) = Result(i, p.i16) /\ ValuesOf(i, q, inp) = Result(i, q.i16)
    BY <1>6, ValuesAre
  <2>2. i.lhs \in Nat /\ Cells("i16", i.lhs, i.len) \subseteq Reads(i)
    BY <1>6, Fields, ReadsOf DEF ArithOps
  <2>3. \A k \in 0 .. i.len - 1 : p.i16[i.lhs + k] = q.i16[i.lhs + k]
    BY <1>2, <2>2
  <2>4. i.op \notin VecOneOps => \A k \in 0 .. i.len - 1 : p.i16[i.rhs + k] = q.i16[i.rhs + k]
    <3>1. SUFFICES ASSUME i.op \in ScalarOps \union VecBinOps
                   PROVE  \A k \in 0 .. i.len - 1 : p.i16[i.rhs + k] = q.i16[i.rhs + k]
      BY <1>6 DEF ArithOps
    <3>2. i.rhs \in Nat /\ Cells("i16", i.rhs, i.len) \subseteq Reads(i)
      BY <3>1, Fields, ReadsOf
    <3>3. QED
      BY <1>2, <3>2
  <2>5. Result(i, p.i16) = Result(i, q.i16)
    BY <2>3, <2>4, ResultSame
  <2>6. QED
    BY <2>1, <2>5 DEF Result
<1>7. CASE i.op = "LoadVarVec8"
  <2>1. /\ ValuesOf(i, p, inp) = [k \in 0 .. i.len - 1 |-> Crunch8(inp[i.var + k])]
        /\ ValuesOf(i, q, inp) = [k \in 0 .. i.len - 1 |-> Crunch8(inp[i.var + k])]
    BY <1>7, ValuesAre
  <2>2. QED
    BY <2>1
<1>8. CASE i.op = "StoreVec8"
  <2>1. /\ ValuesOf(i, p, inp) = [k \in 0 .. i.len - 1 |-> Widen8(p.i8[i.src + k])]
        /\ ValuesOf(i, q, inp) = [k \in 0 .. i.len - 1 |-> Widen8(q.i8[i.src + k])]
    BY <1>8, ValuesAre
  <2>2. i.src \in Nat /\ Cells("i8", i.src, i.len) \subseteq Reads(i)
    BY <1>8, Fields, ReadsOf
  <2>3. \A k \in 0 .. i.len - 1 : p.i8[i.src + k] = q.i8[i.src + k]
    BY <1>2, <2>2
  <2>4. QED
    BY <2>1, <2>3
<1>9. CASE i.op \in VecI8Ops
  <2>1. ValuesOf(i, p, inp) = Result(i, p.i8) /\ ValuesOf(i, q, inp) = Result(i, q.i8)
    BY <1>9, ValuesAre
  <2>2. /\ i.lhs \in Nat /\ Cells("i8", i.lhs, i.len) \subseteq Reads(i)
        /\ i.rhs \in Nat /\ Cells("i8", i.rhs, i.len) \subseteq Reads(i)
    BY <1>9, Fields, ReadsOf
  <2>3. /\ \A k \in 0 .. i.len - 1 : p.i8[i.lhs + k] = q.i8[i.lhs + k]
        /\ \A k \in 0 .. i.len - 1 : p.i8[i.rhs + k] = q.i8[i.rhs + k]
    BY <1>2, <2>2
  <2>4. Result(i, p.i8) = Result(i, q.i8)
    BY <2>3, ResultSame
  <2>5. QED
    BY <2>1, <2>4 DEF Result
<1>10. QED
  BY <1>3, <1>4, <1>5, <1>6, <1>7, <1>8, <1>9, Kinds

LEMMA CopySame ==
  ASSUME NEW a, NEW b, NEW off, NEW vals, NEW x, x \in DOMAIN a, x \in DOMAIN b,
         a[x] = b[x] \/ x - off \in DOMAIN vals
  PROVE  Copy(a, off, vals)[x] = Copy(b, off, vals)[x]
BY DEF Copy

(* Replacing an array on both sides.                                       *)
LEMMA ReplacedSame ==
  ASSUME NEW W, NEW p, NEW q, DOMAIN p = Pads, DOMAIN q = Pads, Same(W, p, q),
         NEW pad \in Pads, NEW a, NEW b, DOMAIN a = DOMAIN p[pad], DOMAIN b = DOMAIN q[pad],
         NEW X, \A x \in X : x \in DOMAIN a /\ x \in DOMAIN b /\ a[x] = b[x],
         \A x : <<pad, x>> \in W => a[x] = b[x],
         \A c \in W : c = <<c[1], c[2]>>
  PROVE  Same(W \union ({pad} \X X), [p EXCEPT ![pad] = a], [q EXCEPT ![pad] = b])
<1> DEFINE P == [p EXCEPT ![pad] = a]
           Q == [q EXCEPT ![pad] = b]
<1>1. P[pad] = a /\ Q[pad] = b /\ \A o \in Pads \ {pad} : P[o] = p[o] /\ Q[o] = q[o]
  OBVIOUS
<1>2. ASSUME NEW c \in {pad} \X X
      PROVE  /\ c[1] \in Pads /\ c[2] \in DOMAIN P[c[1]] /\ c[2] \in DOMAIN Q[c[1]]
             /\ P[c[1]][c[2]] = Q[c[1]][c[2]]
  <2> HIDE DEF P, Q
  <2>1. QED
    BY <1>1, <1>2
<1>3. ASSUME NEW c \in W
      PROVE  /\ c[1] \in Pads /\ c[2] \in DOMAIN P[c[1]] /\ c[2] \in DOMAIN Q[c[1]]
             /\ P[c[1]][c[2]] = Q[c[1]][c[2]]
  <2> HIDE DEF P, Q
  <2>1. /\ c[1] \in Pads /\ c[2] \in DOMAIN p[c[1]] /\ c[2] \in DOMAIN q[c[1]]
        /\ p[c[1]][c[2]] = q[c[1]][c[2]] /\ c = <<c[1], c[2]>>
    BY <1>3 DEF Same
  <2>2. CASE c[1] = pad
    BY <1>1, <1>3, <2>1, <2>2
  <2>3. CASE c[1] # pad
    BY <1>1, <2>1, <2>3
  <2>4. QED
    BY <2>2, <2>3
<1>4. QED
  <2> HIDE DEF P, Q
  <2>1. QED
    BY <1>2, <1>3 DEF Same, P, Q
Valid(cells, p) == \A c \in cells : c[2] \in DOMAIN p[c[1]]

LEMMA CopyEffectSame ==
  ASSUME NEW i \in OpCode, i.op \notin StepOps, i.op # "BlockScale", NEW inp,
         NEW W \in SUBSET (Pads \X Int), NEW p, NEW q, DOMAIN p = Pads, DOMAIN q = Pads,
         Same(W, p, q), Reads(i) \subseteq W, Valid(Targets(i), p), Valid(Targets(i), q)
  PROVE  Same(W \union Targets(i), Effect(i, p, inp), Effect(i, q, inp))
<1> DEFINE pad  == PadOf(i)
           off  == OffOf(i)
           vals == ValuesOf(i, p, inp)
           X    == Span(off, i.len)
           a    == Copy(p[pad], off, vals)
           b    == Copy(q[pad], off, vals)
<1>1. /\ Effect(i, p, inp) = [p EXCEPT ![pad] = a]
      /\ Effect(i, q, inp) = [q EXCEPT ![pad] = b]
      /\ pad \in Pads
  <2>1. ValuesOf(i, q, inp) = vals
    BY ValuesSame
  <2>2. /\ Effect(i, p, inp) = [p EXCEPT ![pad] = Copy(@, off, vals)]
        /\ pad \in Pads
    BY EffectIsCopy
  <2>3. Effect(i, q, inp) = [q EXCEPT ![pad] = Copy(@, off, ValuesOf(i, q, inp))]
    BY EffectIsCopy
  <2>4. QED
    <3> HIDE DEF pad, off, vals
    <3>1. QED
      BY <2>1, <2>2, <2>3
<1>2. Targets(i) = {pad} \X X /\ off \in Nat /\ i.len \in Nat
  BY TargetsOfCopy, Fields
<1>3. DOMAIN vals = 0 .. i.len - 1
  BY ValuesSame
<1>4. \A x \in X : x \in DOMAIN p[pad] /\ x \in DOMAIN q[pad] /\ x - off \in DOMAIN vals
  <2> HIDE DEF pad, off, vals
  <2>1. \A x \in X : <<pad, x>> \in Targets(i) /\ x - off \in 0 .. i.len - 1
    BY <1>2 DEF Span
  <2>2. QED
    BY <1>3, <2>1 DEF Valid
<1>5. DOMAIN a = DOMAIN p[pad] /\ DOMAIN b = DOMAIN q[pad]
  BY CopyDomain
<1>6. \A x \in X : x \in DOMAIN a /\ x \in DOMAIN b /\ a[x] = b[x]
  <2> HIDE DEF pad, off, vals, X
  <2>1. QED
    BY <1>4, <1>5, CopySame
<1>7. \A x : <<pad, x>> \in W => a[x] = b[x]
  <2> HIDE DEF pad, off, vals, X
  <2>1. \A x : <<pad, x>> \in W => /\ x \in DOMAIN p[pad] /\ x \in DOMAIN q[pad]
                                   /\ p[pad][x] = q[pad][x]
    BY DEF Same
  <2>2. QED
    BY <2>1, CopySame
<1>8. \A c \in W : c = <<c[1], c[2]>>
  OBVIOUS
<1>9. QED
  <2> HIDE DEF pad, X, a, b
  <2>1. Same(W \union ({pad} \X X), [p EXCEPT ![pad] = a], [q EXCEPT ![pad] = b])
    BY <1>1, <1>5, <1>6, <1>7, <1>8, ReplacedSame
  <2>2. QED
    BY <1>1, <1>2, <2>1

LEMMA ScaleEffectSame ==
  ASSUME NEW i \in OpCode, i.op = "BlockScale", NEW inp,
         NEW W \in SUBSET (Pads \X Int), NEW p, NEW q, DOMAIN p = Pads, DOMAIN q = Pads,
         Same(W, p, q), Reads(i) \subseteq W, Valid(Targets(i), p), Valid(Targets(i), q)
  PROVE  Same(W \union Targets(i), Effect(i, p, inp), Effect(i, q, inp))
<1> DEFINE X == Blocks(i)
           a == [b \in DOMAIN p.f32 |-> IF b \in X THEN ScaleOf(i, p.i16, b) ELSE p.f32[b]]
           b == [c \in DOMAIN q.f32 |-> IF c \in X THEN ScaleOf(i, q.i16, c) ELSE q.f32[c]]
<1>1. /\ Effect(i, p, inp) = [p EXCEPT !["f32"] = a]
      /\ Effect(i, q, inp) = [q EXCEPT !["f32"] = b]
      /\ "f32" \in Pads
  <2>1. \A r : Effect(i, r, inp) = ScaleBlocks(i, r, X)
    BY DEF Effect, ScalarOps, VecBinOps, VecOneOps, VecI8Ops, StepOps
  <2>2. QED
    BY <2>1 DEF ScaleBlocks, Pads
<1>2. Targets(i) = {"f32"} \X X
  BY DEF Targets, Writes, Stores, Scales, ScalarOps, VecBinOps, VecOneOps, VecI8Ops, StepOps
<1>3. X \subseteq Nat
  BY BlocksAndLanes DEF BlockOps
<1>4. ASSUME NEW x \in X
      PROVE  x \in DOMAIN p.f32 /\ x \in DOMAIN q.f32 /\ ScaleOf(i, p.i16, x) = ScaleOf(i, q.i16, x)
  <2>1. <<"f32", x>> \in Targets(i)
    BY <1>2
  <2>2. x \in DOMAIN p["f32"] /\ x \in DOMAIN q["f32"]
    BY <2>1 DEF Valid
  <2>3. BlockLanes(i, x) \subseteq 0 .. i.len - 1
    BY <1>3, LanesOfBlock
  <2>4. i.src \in Nat /\ i.len \in Nat /\ Cells("i16", i.src, i.len) \subseteq W
    BY Fields, ReadsOf
  <2>5. \A k \in 0 .. i.len - 1 : p.i16[i.src + k] = q.i16[i.src + k]
    <3>1. \A k \in 0 .. i.len - 1 : <<"i16", i.src + k>> \in W
      BY <2>4 DEF Cells, Span
    <3>2. QED
      BY <3>1 DEF Same
  <2>6. \A k \in BlockLanes(i, x) : p.i16[i.src + k] = q.i16[i.src + k]
    BY <2>3, <2>5
  <2>7. {Abs16(p.i16[i.src + k]) : k \in BlockLanes(i, x)}
          = {Abs16(q.i16[i.src + k]) : k \in BlockLanes(i, x)}
    BY <2>6
  <2>8. QED
    BY <2>2, <2>7 DEF ScaleOf
<1>5. \A x \in X : x \in DOMAIN a /\ x \in DOMAIN b /\ a[x] = b[x]
  BY <1>4
<1>6. \A x : <<"f32", x>> \in W => a[x] = b[x]
  <2>1. \A x : <<"f32", x>> \in W => /\ x \in DOMAIN p.f32 /\ x \in DOMAIN q.f32
                                     /\ p.f32[x] = q.f32[x]
    BY DEF Same
  <2>2. QED
    BY <1>4, <2>1
<1>7. DOMAIN a = DOMAIN p.f32 /\ DOMAIN b = DOMAIN q.f32 /\ \A c \in W : c = <<c[1], c[2]>>
  OBVIOUS
<1>8. QED
  <2> HIDE DEF X, a, b
  <2>1. Same(W \union ({"f32"} \X X), [p EXCEPT !["f32"] = a], [q EXCEPT !["f32"] = b])
    BY <1>1, <1>5, <1>6, <1>7, ReplacedSame
  <2>2. QED
    BY <1>1, <1>2, <2>1

LEMMA StepEffectSame ==
  ASSUME NEW i \in OpCode, i.op \in StepOps, NEW inp,
         NEW W \in SUBSET (Pads \X Int), NEW p, NEW q, DOMAIN p = Pads, DOMAIN q = Pads,
         Same(W, p, q), Reads(i) \subseteq W
  PROVE  Same(W \union Targets(i), Effect(i, p, inp), Effect(i, q, inp))
<1> DEFINE L == Lanes(i)
           pad == MomentPad(i)
           New(r) == [k \in L |->
                        Stepped(Rule(i), [w |-> r.i16[i.w + k], m |-> r[pad][i.m + k],
                                          v |-> r[pad][i.v + k]], Gradient(i, r, k))]
           new == New(p)
           M == [k \in L |-> new[k].m]
           V == [k \in L |-> new[k].v]
           U == [k \in L |-> new[k].w]
           Moved(r) == [r EXCEPT ![pad] = Copy(Copy(@, i.m, M), i.v, V)]
           Done(r)  == [Moved(r) EXCEPT !["i16"] = Copy(@, i.w, U)]
<1>1. /\ i.w \in Nat /\ i.g \in Nat /\ i.m \in Nat /\ i.v \in Nat /\ i.len \in Nat
      /\ i.op = "AIOStepBlock" => i.s \in Nat
      /\ pad \in Pads /\ "i16" \in Pads
  BY Fields DEF MomentPad, Pads
<1>2. L \subseteq 0 .. i.len - 1
  BY BlocksAndLanes
<1>3. ASSUME NEW o, NEW off \in Nat, Cells(o, off, i.len) \subseteq Reads(i)
      PROVE  \A k \in L : p[o][off + k] = q[o][off + k]
  <2>1. Cells(o, off, i.len) \subseteq W
    BY <1>3
  <2>2. \A k \in 0 .. i.len - 1 : p[o][off + k] = q[o][off + k]
    <3>1. \A k \in 0 .. i.len - 1 : <<o, off + k>> \in W
      BY <1>1, <2>1 DEF Cells, Span
    <3>2. QED
      BY <3>1 DEF Same
  <2>3. QED
    BY <1>2, <2>2
<1>4. /\ \A k \in L : p.i16[i.w + k] = q.i16[i.w + k]
      /\ \A k \in L : p.i16[i.g + k] = q.i16[i.g + k]
      /\ \A k \in L : p[pad][i.m + k] = q[pad][i.m + k]
      /\ \A k \in L : p[pad][i.v + k] = q[pad][i.v + k]
  <2> HIDE DEF L
  <2>1. /\ Cells("i16", i.w, i.len) \subseteq Reads(i) /\ Cells("i16", i.g, i.len) \subseteq Reads(i)
        /\ Cells(pad, i.m, i.len) \subseteq Reads(i) /\ Cells(pad, i.v, i.len) \subseteq Reads(i)
    BY ReadsOf
  <2>2. QED
    BY <1>1, <1>3, <2>1
<1>5. ASSUME NEW k \in L PROVE Gradient(i, p, k) = Gradient(i, q, k)
  <2>1. CASE i.op = "AIOStepBlock"
    <3>1. k \div BlockLen \in Blocks(i) /\ Scales(i) = {<<"f32", i.s + b>> : b \in Blocks(i)}
      BY <2>1, BlocksAndLanes DEF Scales
    <3>2. <<"f32", i.s + k \div BlockLen>> \in W
      BY <3>1, ReadsOf
    <3>3. p["f32"][i.s + k \div BlockLen] = q["f32"][i.s + k \div BlockLen]
      BY <3>2 DEF Same
    <3>4. QED
      BY <1>4, <3>3 DEF Gradient
  <2>2. CASE i.op # "AIOStepBlock"
    BY <1>4, <2>2 DEF Gradient
  <2>3. QED
    BY <2>1, <2>2
<1>6. New(q) = new
  <2> HIDE DEF L, pad
  <2>1. QED
    BY <1>4, <1>5
<1>7. Effect(i, p, inp) = Done(p) /\ Effect(i, q, inp) = Done(q)
  <2>1. \A r : Effect(i, r, inp) = Step(i, r, L)
    BY DEF Effect, ScalarOps, VecBinOps, VecOneOps, VecI8Ops, StepOps
  <2>2. Step(i, p, L) = Done(p)
    BY DEF Step
  <2>3. Step(i, q, L) = [[q EXCEPT ![pad] = Copy(Copy(@, i.m, [k \in L |-> New(q)[k].m]), i.v,
                                                 [k \in L |-> New(q)[k].v])]
                           EXCEPT !["i16"] = Copy(@, i.w, [k \in L |-> New(q)[k].w])]
    BY DEF Step
  <2>4. Step(i, q, L) = Done(q)
    <3> HIDE DEF New, new, pad, L
    <3>1. QED
      BY <1>6, <2>3
  <2>5. QED
    BY <2>1, <2>2, <2>4
(* Writing the same values at the same place of two arrays. *)
<1>8. ASSUME NEW o \in Pads, NEW r, NEW s, DOMAIN r = Pads, DOMAIN s = Pads, Same(W, r, s),
             NEW off, NEW vals
      PROVE  Same(W, [r EXCEPT ![o] = Copy(@, off, vals)], [s EXCEPT ![o] = Copy(@, off, vals)])
  <2> DEFINE a == Copy(r[o], off, vals)
             b == Copy(s[o], off, vals)
  <2>1. DOMAIN a = DOMAIN r[o] /\ DOMAIN b = DOMAIN s[o]
    BY CopyDomain
  <2>2. \A x : <<o, x>> \in W => a[x] = b[x]
    <3>1. \A x : <<o, x>> \in W => x \in DOMAIN r[o] /\ x \in DOMAIN s[o] /\ r[o][x] = s[o][x]
      BY <1>8 DEF Same
    <3>2. QED
      BY <3>1, CopySame
  <2>3. \A c \in W : c = <<c[1], c[2]>>
    OBVIOUS
  <2>4. Same(W \union ({o} \X {}), [r EXCEPT ![o] = a], [s EXCEPT ![o] = b])
    <3> HIDE DEF a, b
    <3> DEFINE X == {}
    <3>1. \A x \in X : x \in DOMAIN a /\ x \in DOMAIN b /\ a[x] = b[x]
      OBVIOUS
    <3> HIDE DEF X
    <3>2. Same(W \union ({o} \X X), [r EXCEPT ![o] = a], [s EXCEPT ![o] = b])
      BY <1>8, <2>1, <2>2, <2>3, <3>1, ReplacedSame
    <3>3. QED
      BY <3>2 DEF X
  <2>5. W \union ({o} \X {}) = W
    OBVIOUS
  <2>6. QED
    BY <2>4, <2>5
<1>9. Same(W, Done(p), Done(q))
  <2> HIDE DEF pad, M, V, U
  <2> DEFINE First(r) == [r EXCEPT ![pad] = Copy(@, i.m, M)]
  <2>1. Same(W, First(p), First(q)) /\ DOMAIN First(p) = Pads /\ DOMAIN First(q) = Pads
    BY <1>1, <1>8
  <2>2. /\ Moved(p) = [First(p) EXCEPT ![pad] = Copy(@, i.v, V)]
        /\ Moved(q) = [First(q) EXCEPT ![pad] = Copy(@, i.v, V)]
    BY <1>1
  <2>3. Same(W, Moved(p), Moved(q)) /\ DOMAIN Moved(p) = Pads /\ DOMAIN Moved(q) = Pads
    <3>1. DOMAIN Moved(p) = Pads /\ DOMAIN Moved(q) = Pads
      OBVIOUS
    <3> HIDE DEF First
    <3>2. Same(W, [First(p) EXCEPT ![pad] = Copy(@, i.v, V)], [First(q) EXCEPT ![pad] = Copy(@, i.v, V)])
      BY <1>1, <1>8, <2>1
    <3>3. QED
      <4> HIDE DEF Moved
      <4>1. QED
        BY <2>2, <3>1, <3>2
  <2> HIDE DEF Moved
  <2>4. QED
    BY <1>1, <1>8, <2>3
<1>10. W \union Targets(i) = W
  BY ReadsOf
<1>11. QED
  <2> HIDE DEF Done
  <2>1. QED
    BY <1>7, <1>9, <1>10

LEMMA EffectSame ==
  ASSUME NEW i \in OpCode, NEW inp, NEW W \in SUBSET (Pads \X Int), NEW p, NEW q,
         DOMAIN p = Pads, DOMAIN q = Pads, Same(W, p, q), Reads(i) \subseteq W,
         i.op \notin StepOps => Valid(Targets(i), p) /\ Valid(Targets(i), q)
  PROVE  Same(W \union Targets(i), Effect(i, p, inp), Effect(i, q, inp))
<1>1. CASE i.op \in StepOps
  BY <1>1, StepEffectSame
<1>2. CASE i.op = "BlockScale"
  <2>1. Valid(Targets(i), p) /\ Valid(Targets(i), q)
    BY <1>2 DEF StepOps
  <2>2. QED
    BY <1>2, <2>1, ScaleEffectSame
<1>3. CASE i.op \notin StepOps /\ i.op # "BlockScale"
  BY <1>3, CopyEffectSame
<1>4. QED
  BY <1>1, <1>2, <1>3
-----------------------------------------------------------------------------
(* A call of execute on fresh buffers, and the cells that are defined      *)
(* after k instructions: those agree with it.                              *)
Fresh == NewBuffers(graph.memory_size, Size(outputs))
Meant == Stages(graph.instructions, Fresh, inputs)

Defined(k) ==
  WrittenBy(graph.instructions, k) \union ({"out"} \X StoredBy(graph.instructions, k))

MeaningInv ==
  /\ status = "ok" => ip = Len(graph.instructions) + 1
  /\ call = "execute" /\ status \in {"running", "ok"} /\ DefinedBeforeUse(graph.instructions)
       => Same(Defined(ip - 1), buffers, Meant[ip - 1])

LEMMA CellsAreCells ==
  ASSUME NEW pad, NEW off \in Nat, NEW len \in Nat
  PROVE  Cells(pad, off, len) \subseteq {pad} \X Int
BY DEF Cells, Span

LEMMA TargetsAreCells ==
  ASSUME NEW i \in OpCode
  PROVE  Targets(i) \subseteq Pads \X Int
<1>1. i.len \in Nat
  BY Fields
<1>2. CASE i.op \in StepOps
  <2>1. i.w \in Nat /\ i.m \in Nat /\ i.v \in Nat
    BY <1>2, Fields
  <2>2. MomentPad(i) \in Pads /\ "i16" \in Pads
    BY DEF MomentPad, Pads
  <2>3. Targets(i) = Cells(MomentPad(i), i.m, i.len) \union Cells(MomentPad(i), i.v, i.len)
                       \union Cells("i16", i.w, i.len)
    BY <1>2 DEF Targets, Stores, Writes, Moments, ScalarOps, VecBinOps, VecOneOps, VecI8Ops, StepOps
  <2>4. /\ Cells(MomentPad(i), i.m, i.len) \subseteq {MomentPad(i)} \X Int
        /\ Cells(MomentPad(i), i.v, i.len) \subseteq {MomentPad(i)} \X Int
        /\ Cells("i16", i.w, i.len) \subseteq {"i16"} \X Int
    BY <1>1, <2>1, CellsAreCells
  <2>5. QED
    BY <2>2, <2>3, <2>4
<1>3. CASE i.op = "BlockScale"
  <2>1. Targets(i) = {"f32"} \X Blocks(i) /\ "f32" \in Pads
    BY <1>3 DEF Targets, Writes, Stores, Scales, Pads, ScalarOps, VecBinOps, VecOneOps, VecI8Ops,
                StepOps
  <2>2. Blocks(i) \subseteq Nat
    BY <1>3, BlocksAndLanes DEF BlockOps
  <2>3. QED
    BY <2>1, <2>2
<1>4. CASE i.op \notin StepOps /\ i.op # "BlockScale"
  <2>1. Targets(i) = {PadOf(i)} \X Span(OffOf(i), i.len) /\ OffOf(i) \in Nat
    BY <1>4, TargetsOfCopy
  <2>2. PadOf(i) \in Pads
    BY DEF PadOf, Pads
  <2>3. QED
    BY <1>1, <2>1, <2>2 DEF Span
<1>5. QED
  BY <1>2, <1>3, <1>4

LEMMA DefinedFacts ==
  ASSUME SizesInv
  PROVE  /\ Defined(0) = {}
         /\ \A k \in 1 .. Len(graph.instructions) :
              Defined(k) = Defined(k - 1) \union Targets(graph.instructions[k])
         /\ \A k \in 0 .. Len(graph.instructions) : Defined(k) \in SUBSET (Pads \X Int)
<1> DEFINE prog == graph.instructions
           n    == Len(prog)
<1>1. n \in Nat /\ \A k \in 1 .. n : prog[k] \in OpCode
  BY GraphFacts DEF SizesInv
<1>2. Defined(0) = {}
  <2>1. 1 .. 0 = {}
    OBVIOUS
  <2>2. WrittenBy(prog, 0) = {} /\ StoredBy(prog, 0) = {}
    BY <2>1 DEF WrittenBy, StoredBy
  <2>3. QED
    BY <2>2 DEF Defined
<1>3. ASSUME NEW k \in 1 .. n
      PROVE  Defined(k) = Defined(k - 1) \union Targets(prog[k])
  <2>1. 1 .. k = (1 .. k - 1) \union {k}
    BY <1>1
  <2>2. WrittenBy(prog, k) = WrittenBy(prog, k - 1) \union Writes(prog[k])
    BY <2>1 DEF WrittenBy
  <2>3. StoredBy(prog, k) = StoredBy(prog, k - 1) \union Stores(prog[k])
    BY <2>1 DEF StoredBy
  <2>4. QED
    BY <2>2, <2>3 DEF Defined, Targets
<1>4. ASSUME NEW k \in 0 .. n, NEW c \in Defined(k) PROVE c \in Pads \X Int
  <2>1. PICK j \in 1 .. k : c \in Targets(prog[j])
    BY <1>4 DEF Defined, Targets, WrittenBy, StoredBy
  <2>2. prog[j] \in OpCode
    BY <1>1, <2>1
  <2>3. QED
    BY <2>1, <2>2, TargetsAreCells
<1>5. QED
  BY <1>2, <1>3, <1>4

LEMMA FreshFacts ==
  ASSUME SizesInv
  PROVE  /\ DOMAIN Fresh = Pads /\ IsFunction(Fresh.out)
         /\ DOMAIN Fresh.out = DOMAIN outputs
         /\ \A pad \in Pads : DOMAIN buffers[pad] \subseteq DOMAIN Fresh[pad]
<1>1. graph.memory_size \in Nat /\ BlockLen \in Nat \ {0}
  BY GraphFacts, BlockLenAssumption DEF SizesInv
<1>2. graph.memory_size \div BlockLen \in Nat
  BY <1>1
<1> DEFINE q == graph.memory_size \div BlockLen
<1>3. 0 .. (q + 1) - 1 = 0 .. q
  BY <1>2
<1>4. PICK n \in Nat : DOMAIN outputs = 0 .. n - 1
  BY DEF SizesInv
<1>5. Size(outputs) = n
  BY <1>4, SizeOfArray
<1>6. DOMAIN Fresh = Pads
  BY DEF Fresh, NewBuffers, Pads
<1>7. /\ DOMAIN Fresh.i16 = Memory /\ DOMAIN Fresh.i8 = Memory /\ DOMAIN Fresh.i32 = Memory
      /\ DOMAIN Fresh.f32 = 0 .. (q + 1) - 1 /\ DOMAIN Fresh.out = 0 .. n - 1
      /\ IsFunction(Fresh.out)
  BY <1>5 DEF Fresh, NewBuffers, Zeros, Memory, IsFunction
<1>8. DOMAIN Fresh.f32 = 0 .. q
  BY <1>3, <1>7
<1>9. /\ DOMAIN buffers.i16 \subseteq DOMAIN Fresh.i16 /\ DOMAIN buffers.i8 \subseteq DOMAIN Fresh.i8
      /\ DOMAIN buffers.i32 \subseteq DOMAIN Fresh.i32 /\ DOMAIN buffers.out \subseteq DOMAIN Fresh.out
  BY <1>4, <1>7, BuffersArePads DEF SizesInv, Scratch8, Scratch32
<1>10. DOMAIN buffers.f32 \subseteq DOMAIN Fresh.f32
  BY <1>8, BuffersArePads DEF SizesInv, ScratchF
<1>11. QED
  BY <1>4, <1>6, <1>7, <1>9, <1>10 DEF Pads

LEMMA MeantAlike ==
  ASSUME SizesInv, NEW k \in 0 .. Len(graph.instructions)
  PROVE  Alike(Meant[k], Fresh)
BY GraphFacts, FreshFacts, StagesAlike DEF SizesInv, Meant

(* An instruction of execute that has its effect finds the cells it        *)
(* writes.                                                                 *)
LEMMA PerformedIsValid ==
  ASSUME SizesInv, Instruction, call = "execute", status' = "running"
  PROVE  /\ Perform(ins) /\ UNCHANGED control /\ status = "running"
         /\ ip <= Len(graph.instructions)
         /\ ins.op \notin StepOps => Valid(Targets(ins), buffers)
<1>1. /\ status = "running" /\ ip <= Len(graph.instructions) /\ UNCHANGED control /\ ~SkipI8
  BY DEF Instruction, Load, Store, Fill, Scalar, Vector, Load8, Store8, Vector8, SkipI8,
         AdamWStep, AIOStep, BlockScale, AIOStepBlock, At
<1>2. /\ ins \in OpCode /\ ins.len \in Nat
  BY <1>1, AtFacts, Fields
<1>3. \A p, why : StopAfter(p, why) => why = "running"
  BY DEF StopAfter
<1>4. ~Stop("panicked") /\ ~Stop("undefined")
  BY <1>3 DEF Stop
<1>5. ASSUME NEW a, NEW n \in Nat, DOMAIN a = 0 .. n - 1, NEW pad, buffers[pad] = a,
             NEW off \in Nat, Fits(a, off, ins.len), Targets(ins) = {pad} \X Span(off, ins.len)
      PROVE  Valid(Targets(ins), buffers)
  <2>1. Span(off, ins.len) \subseteq DOMAIN a
    BY <1>2, <1>5, FitsCovers
  <2>2. QED
    BY <1>5, <2>1 DEF Valid
<1>6. /\ \E n \in Nat : DOMAIN memory = 0 .. n - 1
      /\ \E n \in Nat : DOMAIN memory_i8 = 0 .. n - 1
      /\ \E n \in Nat : DOMAIN outputs = 0 .. n - 1
  <2>1. graph.memory_size \in Nat /\ 0 \in Nat /\ {} = 0 .. 0 - 1
    BY GraphFacts DEF SizesInv
  <2>2. QED
    BY <2>1 DEF SizesInv, Memory, Scratch8
<1>7. ins.op \notin StepOps \union {"BlockScale"} =>
        Targets(ins) = {PadOf(ins)} \X Span(OffOf(ins), ins.len) /\ OffOf(ins) \in Nat
  BY <1>2, TargetsOfCopy
<1>8. CASE Load \/ Fill
  <2>1. Perform(ins) /\ Fits(memory, ins.dst, ins.len) /\ ins.op \in LoadOps \union {"FillVec"}
    BY <1>4, <1>8 DEF Load, Fill, At, LoadOps
  <2>2. PadOf(ins) = "i16" /\ OffOf(ins) = ins.dst /\ ins.op \notin StepOps \union {"BlockScale"}
    BY <2>1 DEF PadOf, OffOf, LoadOps, SaveOps, VecI8Ops, StepOps
  <2>3. QED
    BY <1>1, <1>5, <1>6, <1>7, <2>1, <2>2, BuffersArePads
<1>9. CASE Store \/ Store8
  <2>1. Perform(ins) /\ Fits(outputs, ins.out, ins.len) /\ ins.op \in SaveOps \union {"StoreVec8"}
    BY <1>4, <1>9 DEF Store, Store8, At, SaveOps
  <2>2. PadOf(ins) = "out" /\ OffOf(ins) = ins.out /\ ins.op \notin StepOps \union {"BlockScale"}
    BY <2>1 DEF PadOf, OffOf, SaveOps, StepOps
  <2>3. QED
    BY <1>1, <1>5, <1>6, <1>7, <2>1, <2>2, BuffersArePads
<1>10. CASE Load8
  <2>1. Perform(ins) /\ Fits(memory_i8, ins.dst, ins.len) /\ ins.op = "LoadVarVec8"
    BY <1>4, <1>10 DEF Load8, At
  <2>2. PadOf(ins) = "i8" /\ OffOf(ins) = ins.dst /\ ins.op \notin StepOps \union {"BlockScale"}
    BY <2>1 DEF PadOf, OffOf, SaveOps, StepOps
  <2>3. QED
    BY <1>1, <1>5, <1>6, <1>7, <2>1, <2>2, BuffersArePads
<1>11. CASE Scalar \/ Vector \/ Vector8
  <2>1. Perform(ins) /\ Allocated(ins) /\ ins.op \in ArithOps \union VecI8Ops
    BY <1>4, <1>11 DEF Scalar, Vector, Vector8, At, ArithOps, Sound
  <2>2. Targets(ins) \subseteq Touches(ins) \ Scales(ins)
    <3>1. Stores(ins) = {} /\ Scales(ins) = {}
      BY <2>1 DEF Stores, Scales, ArithOps, ScalarOps, VecBinOps, VecOneOps, VecI8Ops
    <3>2. QED
      BY <3>1 DEF Targets, Touches
  <2>3. QED
    BY <1>1, <2>1, <2>2 DEF Valid, Allocated, Pad
<1>12. CASE AdamWStep \/ AIOStep
  <2>1. Perform(ins) /\ ins.op \in StepOps
    BY <1>4, <1>12 DEF AdamWStep, AIOStep, At, StepOps
  <2>2. QED
    BY <1>1, <2>1
<1>13. CASE AIOStepBlock
  <2>1. Perform(ins) /\ ins.op \in StepOps
    BY <1>3, <1>4, <1>13 DEF AIOStepBlock, At, StepOps
  <2>2. QED
    BY <1>1, <2>1
<1>14. CASE BlockScale
  <2>1. PICK checked \in Builds : BadBlocks(checked) = {} /\ Perform(ins)
    BY <1>3, <1>14 DEF BlockScale
  <2>2. ins.op = "BlockScale" /\ \A b \in Blocks(ins) : b \in DOMAIN memory_f32
    BY <1>14, <2>1 DEF BlockScale, At, BadBlocks, InBounds
  <2>3. Targets(ins) = {"f32"} \X Blocks(ins)
    BY <2>2 DEF Targets, Writes, Stores, Scales, ScalarOps, VecBinOps, VecOneOps, VecI8Ops, StepOps
  <2>4. Valid(Targets(ins), buffers)
    BY <2>2, <2>3, BuffersArePads DEF Valid
  <2>5. QED
    BY <1>1, <2>1, <2>4
<1>15. QED
  BY <1>1, <1>8, <1>9, <1>10, <1>11, <1>12, <1>13, <1>14 DEF Instruction
LEMMA PerformKeepsMeaning ==
  ASSUME SizesInv, MeaningInv, Instruction, call = "execute", status' = "running",
         DefinedBeforeUse(graph.instructions)
  PROVE  Same(Defined(ip), buffers', Meant[ip]) /\ ip' = ip + 1 /\ Meant' = Meant
<1> DEFINE prog == graph.instructions
           k    == ip - 1
<1>1. /\ Perform(ins) /\ UNCHANGED control /\ status = "running" /\ ip <= Len(prog)
      /\ ins.op \notin StepOps => Valid(Targets(ins), buffers)
  BY PerformedIsValid
<1>2. /\ ip \in 1 .. Len(prog) /\ k \in 0 .. Len(prog) /\ ins = prog[ip] /\ ins \in OpCode
      /\ prog \in Seq(OpCode)
  BY <1>1, AtFacts, GraphFacts DEF SizesInv, ins
<1>3. ip' = ip + 1 /\ buffers' = Effect(ins, buffers, inputs)
  <2>1. Become(Effect(ins, buffers, inputs)) /\ ip' = ip + 1
    BY <1>1 DEF Perform
  <2>2. Alike(Effect(ins, buffers, inputs), buffers)
    BY <1>2, BuffersArePads, EffectShape
  <2> DEFINE e == Effect(ins, buffers, inputs)
  <2>3. e = [i16 |-> e.i16, i8 |-> e.i8, i32 |-> e.i32, f32 |-> e.f32, out |-> e.out]
    <3>1. CASE ins.op \in StepOps
      <4>1. e = Step(ins, buffers, Lanes(ins))
        BY <3>1 DEF Effect, StepOps, ScalarOps, VecBinOps, VecOneOps, VecI8Ops
      <4>2. QED
        BY <4>1 DEF Step, buffers
    <3>2. CASE ins.op = "BlockScale"
      <4>1. e = ScaleBlocks(ins, buffers, Blocks(ins))
        BY <3>2 DEF Effect, StepOps, ScalarOps, VecBinOps, VecOneOps, VecI8Ops
      <4>2. QED
        BY <4>1 DEF ScaleBlocks, buffers
    <3>3. CASE ins.op \notin StepOps /\ ins.op # "BlockScale"
      <4>1. DOMAIN buffers = Pads
        BY BuffersArePads
      <4>2. ins \in OpCode
        BY <1>2
      <4>3. e = [buffers EXCEPT ![PadOf(ins)] =
                   Copy(@, OffOf(ins), ValuesOf(ins, buffers, inputs))]
        BY <3>3, <4>1, <4>2, EffectIsCopy
      <4>4. QED
        BY <4>3 DEF buffers
    <3>4. QED
      BY <3>1, <3>2, <3>3
  <2>4. buffers' = e
    <3> HIDE DEF e
    <3>1. QED
      BY <2>1, <2>3 DEF Become, buffers, e
  <2>5. QED
    BY <2>1, <2>4
<1>4. Meant' = Meant
  <2>1. Alike(Effect(ins, buffers, inputs), buffers)
    BY <1>2, BuffersArePads, EffectShape
  <2>2. DOMAIN outputs' = DOMAIN outputs
    BY <1>1, <2>1, BuffersArePads DEF Perform, Become, Alike, Pads
  <2>3. Size(outputs)' = Size(outputs) /\ graph' = graph /\ inputs' = inputs
    BY <1>1, <2>2 DEF Size, control
  <2>4. QED
    BY <2>3 DEF Meant, Fresh
<1>5. Meant[ip] = Effect(ins, Meant[k], inputs)
  BY <1>2, StagesAre DEF Meant
<1>6. Same(Defined(k), buffers, Meant[k])
  BY <1>1 DEF MeaningInv
<1>7. Reads(ins) \subseteq Defined(k)
  BY <1>2, GraphFacts DEF DefinedBeforeUse, Defined, SizesInv
<1>8. Defined(k) \in SUBSET (Pads \X Int) /\ Defined(ip) = Defined(k) \union Targets(ins)
  BY <1>2, DefinedFacts
<1>9. Alike(Meant[k], Fresh) /\ DOMAIN Meant[k] = Pads
  BY <1>2, MeantAlike DEF Alike
<1>10. Valid(Targets(ins), buffers) => Valid(Targets(ins), Meant[k])
  <2>1. SUFFICES ASSUME Valid(Targets(ins), buffers), NEW c \in Targets(ins)
                 PROVE  c[2] \in DOMAIN Meant[k][c[1]]
    BY DEF Valid
  <2>2. c[1] \in Pads
    BY <1>2, TargetsAreCells
  <2>3. c[2] \in DOMAIN buffers[c[1]]
    BY <2>1 DEF Valid
  <2>4. DOMAIN Meant[k][c[1]] = DOMAIN Fresh[c[1]]
    BY <1>9, <2>2 DEF Alike
  <2>5. QED
    BY <2>2, <2>3, <2>4, FreshFacts
<1>11. Same(Defined(k) \union Targets(ins), Effect(ins, buffers, inputs), Effect(ins, Meant[k], inputs))
  <2> HIDE DEF k
  <2>1. QED
    BY <1>1, <1>2, <1>6, <1>7, <1>8, <1>9, <1>10, BuffersArePads, EffectSame
<1>12. QED
  BY <1>3, <1>4, <1>5, <1>8, <1>11

LEMMA NextKeepsMeaning ==
  ASSUME SizesInv, MeaningInv, [Next]_vars
  PROVE  MeaningInv'
<1>1. CASE Instruction
  <2>1. /\ status' # "ok" /\ graph' = graph /\ call' = call
        /\ status' \in {"running", "ok"} => status' = "running"
    BY <1>1 DEF Instruction, Load, Store, Fill, Scalar, Vector, Load8, Store8, Vector8, SkipI8,
                AdamWStep, AIOStep, BlockScale, AIOStepBlock, At, Perform, Stop, StopAfter, control
  <2>2. SUFFICES ASSUME call = "execute", status' = "running",
                        DefinedBeforeUse(graph.instructions)
                 PROVE  Same(Defined(ip - 1)', buffers', Meant'[ip' - 1])
    BY <2>1 DEF MeaningInv
  <2>3. Same(Defined(ip), buffers', Meant[ip]) /\ ip' = ip + 1 /\ Meant' = Meant
    BY <1>1, <2>2, PerformKeepsMeaning
  <2>4. ip' - 1 = ip
    BY <2>3 DEF SizesInv
  <2>5. Defined(ip - 1)' = Defined(ip)
    BY <2>1, <2>4 DEF Defined
  <2>6. QED
    BY <2>3, <2>4, <2>5
<1>2. CASE Execute
  <2>1. status' = "running" /\ ip' = 1 /\ graph' = graph
    BY <1>2 DEF Execute, Begin
  <2>2. Defined(ip - 1)' = {}
    <3>1. Defined(ip - 1)' = Defined(0)
      BY <2>1 DEF Defined
    <3>2. QED
      BY <3>1, DefinedFacts
  <2>3. QED
    BY <2>1, <2>2 DEF MeaningInv, Same
<1>3. CASE ExecuteI8
  BY <1>3 DEF ExecuteI8, Begin, MeaningInv
<1>4. CASE Return \/ UNCHANGED vars
  <2>1. /\ graph' = graph /\ inputs' = inputs /\ outputs' = outputs /\ ip' = ip /\ call' = call
        /\ buffers' = buffers
    BY <1>4 DEF Return, vars, control, scratch, buffers
  <2>2. Meant' = Meant /\ Defined(ip - 1)' = Defined(ip - 1)
    BY <2>1 DEF Meant, Fresh, Defined
  <2>3. status' = "ok" => ip = Len(graph.instructions) + 1
    <3>1. CASE Return
      BY <3>1, GraphFacts DEF Return, SizesInv
    <3>2. CASE UNCHANGED vars
      BY <3>2 DEF MeaningInv, vars
    <3>3. QED
      BY <1>4, <3>1, <3>2
  <2>4. status' \in {"running", "ok"} => status \in {"running", "ok"}
    BY <1>4 DEF Return, vars
  <2>5. QED
    BY <2>1, <2>2, <2>3, <2>4 DEF MeaningInv
<1>5. QED
  BY <1>1, <1>2, <1>3, <1>4 DEF Next

(* A call of execute that returns has computed what the program means: a   *)
(* program that writes every cell before it reads it, and stores every     *)
(* output, does not see what earlier calls, of either entry point, left in *)
(* the scratchpads and in the outputs.                                     *)
THEOREM NothingLeaksBetweenCalls == Spec => []ComputesMeaning
<1>1. Init => MeaningInv
  BY DEF Init, MeaningInv
<1>2. VmInv /\ MeaningInv /\ [Next]_vars => MeaningInv'
  BY NextKeepsMeaning DEF VmInv
<1>3. VmInv /\ MeaningInv => ComputesMeaning
  <2> DEFINE n    == Len(graph.instructions)
             goal == Run(graph.instructions, NewBuffers(graph.memory_size, Size(outputs)), inputs)
  <2>1. SUFFICES ASSUME SizesInv, MeaningInv, status = "ok", call = "execute",
                        DefinedBeforeUse(graph.instructions),
                        DOMAIN outputs \subseteq StoredBy(graph.instructions, n)
                 PROVE  outputs = goal.out
    BY DEF VmInv, ComputesMeaning
  <2>2. goal = Meant[n]
    BY DEF Run, Meant, Fresh
  <2>3. n \in Nat /\ n \in 0 .. n
    BY <2>1, GraphFacts DEF SizesInv
  <2>4. ip - 1 = n
    BY <2>1, <2>3 DEF MeaningInv
  <2>5. Same(Defined(n), buffers, Meant[n])
    BY <2>1, <2>4 DEF MeaningInv
  <2>6. DOMAIN goal.out = DOMAIN outputs /\ IsFunction(goal.out)
    <3>1. Alike(Meant[n], Fresh)
      BY <2>1, <2>3, MeantAlike
    <3>2. "out" \in Pads
      BY DEF Pads
    <3>3. DOMAIN Meant[n].out = DOMAIN Fresh.out
      BY <3>1, <3>2 DEF Alike
    <3>4. IsFunction(Meant[n].out)
      BY <2>1, <3>1, <3>2, FreshFacts DEF Alike
    <3>5. QED
      BY <2>1, <2>2, <3>3, <3>4, FreshFacts
  <2>7. \A x \in DOMAIN outputs : outputs[x] = goal.out[x]
    <3>1. SUFFICES ASSUME NEW x \in DOMAIN outputs PROVE outputs[x] = goal.out[x]
      OBVIOUS
    <3>2. <<"out", x>> \in Defined(n)
      BY <2>1, <3>1 DEF Defined
    <3>3. buffers["out"][x] = Meant[n]["out"][x]
      BY <2>5, <3>2 DEF Same
    <3>4. QED
      BY <2>2, <3>3, BuffersArePads
  <2>8. IsFunction(outputs)
    BY <2>1 DEF SizesInv
  <2>9. QED
    <3> HIDE DEF goal
    <3>1. QED
      BY <2>6, <2>7, <2>8 DEF IsFunction
<1>4. QED
  BY <1>1, <1>2, <1>3, VmInvariant, PTL DEF Spec
-----------------------------------------------------------------------------
(* The types of what an instruction computes. *)
LEMMA Ranges ==
  /\ \A x : x \in I16 <=> x \in Int /\ I16Min <= x /\ x <= I16Max
  /\ \A x : x \in I8 <=> x \in Int /\ I8Min <= x /\ x <= I8Max
<1>1. I16Min \in Int /\ I16Max \in Int /\ I8Min \in Int /\ I8Max \in Int
  BY DEF I16Min, I16Max, I8Min, I8Max
<1>2. QED
  BY <1>1 DEF I16, I8

LEMMA Saturates ==
  ASSUME NEW x \in Int
  PROVE  Sat16(x) \in I16 /\ Sat8(x) \in I8 /\ Wrap16(x) \in I16
<1>1. Sat16(x) \in Int /\ I16Min <= Sat16(x) /\ Sat16(x) <= I16Max
  BY DEF Sat16, Clamp, I16Min, I16Max
<1>2. Sat8(x) \in Int /\ I8Min <= Sat8(x) /\ Sat8(x) <= I8Max
  BY DEF Sat8, Clamp, I8Min, I8Max
<1>3. Wrap16(x) \in Int /\ I16Min <= Wrap16(x) /\ Wrap16(x) <= I16Max
  <2> DEFINE r == (x + 32768) % 65536
  <2>1. r \in Int /\ 0 <= r /\ r <= 65535
    OBVIOUS
  <2>2. Wrap16(x) = r - 32768
    BY DEF Wrap16
  <2> HIDE DEF r
  <2>3. QED
    BY <2>1, <2>2 DEF I16Min, I16Max
<1>4. QED
  BY <1>1, <1>2, <1>3, Ranges

LEMMA CombineTypes ==
  ASSUME NEW op, NEW a \in Int, NEW b \in Int
  PROVE  /\ op \in ArithOps => Combine(op, a, b) \in I16
         /\ op \in VecI8Ops => Combine(op, a, b) \in I8
<1>1. a * b \in Int /\ a + b \in Int /\ a - b \in Int
  OBVIOUS
<1> DEFINE c == a * b
<1>2. c \div 256 \in Int /\ c \div 64 \in Int
  <2> HIDE DEF c
  <2>1. c \in Int
    BY <1>1 DEF c
  <2>2. QED
    BY <2>1
<1>3. op \in ArithOps \union VecI8Ops => Exact(op, a, b) \in Int
  <2> DEFINE d == c \div 256
             e == c \div 64
  <2>1. d \in Int /\ e \in Int
    BY <1>2
  <2>2. op \in ArithOps \union VecI8Ops => Exact(op, a, b) \in {a + b, a - b, d, e}
    BY DEF Exact, ArithOps, ScalarOps, VecBinOps, VecOneOps, VecI8Ops
  <2> HIDE DEF d, e, c
  <2>3. QED
    BY <1>1, <2>1, <2>2
<1>4. op \in ArithOps => op \notin VecI8Ops
  BY DEF ArithOps, ScalarOps, VecBinOps, VecOneOps, VecI8Ops
<1>5. QED
  BY <1>3, <1>4, Saturates DEF Combine

LEMMA SteppedTypes ==
  ASSUME NEW rule \in {"AdamWStep", "AIOStep16", "AIOStep32", "AIOStepBlock"},
         NEW s, s.w \in Int, s.m \in Int, s.v \in Int, NEW g \in Int
  PROVE  /\ Stepped(rule, s, g).w \in I16
         /\ Stepped(rule, s, g).m \in Int /\ Stepped(rule, s, g).v \in Int
         /\ rule # "AIOStep32" => Stepped(rule, s, g).m \in I16 /\ Stepped(rule, s, g).v \in I16
<1>1. I16 \subseteq Int
  BY Ranges
<1>2. Mean16(s.m, g) \in Int /\ Mean32(s.m, g) \in Int
  BY DEF Mean16, Mean32
<1>3. \A sq \in Int : Var16(s.v, sq) \in Int /\ Var32(s.v, sq) \in Int
  BY DEF Var16, Var32
<1>4. Square(g) \in Int
  <2> DEFINE c == g * g
  <2>1. c \in Int
    OBVIOUS
  <2>2. c \div 256 \in Int
    <3> HIDE DEF c
    <3>1. QED
      BY <2>1
  <2>3. QED
    BY <2>2 DEF Square
<1>5. WrapSquare(g) \in Int
  <2> DEFINE g1 == Abs(g) \div 4096
             g0 == Abs(g) % 4096
             h  == g1 * g1
             l  == g0 * g0
             x  == g1 * g0
             low24 == (h % 256) * 65536 + x * 32 + l \div 256
  <2>1. Abs(g) \in Nat
    BY DEF Abs
  <2>2. g1 \in Int /\ g0 \in Int
    BY <2>1
  <2>3. h \in Int /\ l \in Int /\ x \in Int
    <3> HIDE DEF g1, g0
    <3>1. QED
      BY <2>2
  <2>4. low24 \in Int
    <3> HIDE DEF h, l, x
    <3>1. QED
      BY <2>3
  <2>5. WrapSquare(g) = ((low24 + 8388608) % 16777216) - 8388608
    BY DEF WrapSquare
  <2>6. QED
    <3> HIDE DEF low24
    <3>1. QED
      BY <2>4, <2>5
<1>6. \A a, b \in Int : Sub16(a, b) \in I16 /\ a \div 16 \in Int /\ a \div 256 \in Int
  BY Saturates DEF Sub16
<1>7. \A a \in Int : Sat16(a) \in I16 /\ Wrap16(a) \in I16 /\ Wrap16(a) \in Int
  BY <1>1, Saturates
<1>8. CASE rule = "AdamWStep"
  <2>1. Stepped(rule, s, g) = AdamW(s, g)
    BY <1>8 DEF Stepped
  <2> DEFINE mean == Mean16(s.m, g)
             var  == Var16(s.v, Square(g))
  <2>2. Stepped(rule, s, g) = [m |-> Sat16(mean), v |-> Sat16(var), w |-> Sub16(s.w, Wrap16(mean \div 16))]
    BY <2>1 DEF AdamW
  <2>3. mean \in Int /\ var \in Int
    BY <1>2, <1>3, <1>4
  <2> HIDE DEF mean, var
  <2>4. Sub16(s.w, Wrap16(mean \div 16)) \in I16
    BY <1>6, <1>7, <2>3
  <2>5. Sat16(mean) \in I16 /\ Sat16(var) \in I16
    BY <1>7, <2>3
  <2>6. Sat16(mean) \in Int /\ Sat16(var) \in Int
    BY <1>1, <2>5
  <2>7. QED
    BY <2>2, <2>4, <2>5, <2>6
<1>9. CASE rule = "AIOStep16"
  <2>1. Stepped(rule, s, g) = AIO16(s, g)
    BY <1>9 DEF Stepped
  <2> DEFINE mean == Wrap16(Mean16(s.m, g))
             var  == Var16(s.v, Square(g))
  <2>2. Stepped(rule, s, g) = [m |-> mean, v |-> Wrap16(var), w |-> Sub16(s.w, mean \div 16)]
    BY <2>1 DEF AIO16
  <2>3. mean \in Int /\ mean \in I16 /\ var \in Int
    BY <1>2, <1>3, <1>4, <1>7
  <2> HIDE DEF mean, var
  <2>4. Sub16(s.w, mean \div 16) \in I16
    BY <1>6, <2>3
  <2>5. QED
    BY <1>1, <1>7, <1>9, <2>2, <2>3, <2>4
<1>10. CASE rule = "AIOStep32"
  <2>1. Stepped(rule, s, g) = AIO32(s, g)
    BY <1>10 DEF Stepped
  <2> DEFINE mean == Mean32(s.m, g)
             var  == Var32(s.v, Square(g))
  <2>2. Stepped(rule, s, g) = [m |-> mean, v |-> var, w |-> Sub16(s.w, Wrap16(mean \div 256))]
    BY <2>1 DEF AIO32
  <2>3. mean \in Int /\ var \in Int
    BY <1>2, <1>3, <1>4
  <2> HIDE DEF mean, var
  <2>4. Sub16(s.w, Wrap16(mean \div 256)) \in I16
    BY <1>6, <1>7, <2>3
  <2>5. QED
    BY <1>1, <1>7, <1>10, <2>2, <2>3, <2>4
<1>11. CASE rule = "AIOStepBlock"
  <2>1. Stepped(rule, s, g) = AIOBlock(s, g)
    BY <1>11 DEF Stepped
  <2> DEFINE mean == Mean16(s.m, g)
             var  == Var16(s.v, WrapSquare(g))
  <2>2. Stepped(rule, s, g) = [m |-> Sat16(mean), v |-> Sat16(var), w |-> Sub16(s.w, Wrap16(mean \div 16))]
    BY <2>1 DEF AIOBlock
  <2>3. mean \in Int /\ var \in Int
    BY <1>2, <1>3, <1>5
  <2> HIDE DEF mean, var
  <2>4. Sub16(s.w, Wrap16(mean \div 16)) \in I16
    BY <1>6, <1>7, <2>3
  <2>5. Sat16(mean) \in I16 /\ Sat16(var) \in I16
    BY <1>7, <2>3
  <2>6. Sat16(mean) \in Int /\ Sat16(var) \in Int
    BY <1>1, <2>5
  <2>7. QED
    BY <2>2, <2>4, <2>5, <2>6
<1>12. QED
  BY <1>8, <1>9, <1>10, <1>11

LEMMA ScaleTypes ==
  ASSUME NEW i \in OpCode, NEW a, NEW b \in Nat,
         \A k \in BlockLanes(i, b) : a[i.src + k] \in I16
  PROVE  ScaleOf(i, a, b) \in 0 .. I16Max
<1> DEFINE S == {1} \union {Abs16(a[i.src + k]) : k \in BlockLanes(i, b)}
<1>1. \A x \in I16 : Abs16(x) \in Int /\ Abs16(x) <= I16Max
  <2>1. \A x \in I16 : Abs(x) \in Int
    BY Ranges DEF Abs
  <2>2. QED
    BY <2>1, Saturates, Ranges DEF Abs16
<1>2. S # {} /\ S \subseteq Int /\ I16Max \in Int /\ \A x \in S : x <= I16Max
  <2>1. 1 <= I16Max /\ I16Max \in Int
    BY DEF I16Max
  <2>2. QED
    BY <1>1, <2>1
<1>3. Max(S) \in S /\ \A x \in S : x <= Max(S)
  <2> HIDE DEF S
  <2>1. QED
    BY <1>2, MaxOf
<1>4. Max(S) \in Int /\ 1 <= Max(S) /\ Max(S) <= I16Max
  BY <1>2, <1>3
<1>5. ScaleOf(i, a, b) = Max(S)
  BY DEF ScaleOf
<1>6. QED
  <2> HIDE DEF S
  <2>1. QED
    BY <1>2, <1>4, <1>5

(* The scaled gradients are integers (the cast to i32): so is the value in *)
(* exact arithmetic that the runs take for them.                           *)
ScaledIsInteger == \A g \in I16, M \in 0 .. I16Max : Scaled(g, M) \in Int

LEMMA ExactlyScaledIsInteger ==
  ASSUME NEW g \in I16, NEW M \in 0 .. I16Max
  PROVE  ExactlyScaled(g, M) \in Int
<1> DEFINE p == Abs(g) * M
           q == (p \div 32767) * 256 + ((p % 32767) * 256) \div 32767
<1>1. g \in Int /\ M \in Nat
  BY Ranges DEF I16Max
<1>2. p \in Int
  BY <1>1 DEF Abs
<1>3. q \in Int
  <2> HIDE DEF p
  <2>1. QED
    BY <1>2
<1>4. ExactlyScaled(g, M) = IF g < 0 THEN -q ELSE q
  BY DEF ExactlyScaled
<1>5. QED
  <2> HIDE DEF q
  <2>1. QED
    BY <1>3, <1>4
(* Every cell of a buffer holds a value of the type of the buffer.         *)
Of(a, S) == \A k \in DOMAIN a : a[k] \in S

PadType == [i16 |-> I16, i8 |-> I8, i32 |-> Int, f32 |-> 0 .. I16Max, out |-> I16]

Typed(p) == DOMAIN p = Pads /\ \A pad \in Pads : Of(p[pad], PadType[pad])

LEMMA ReplacedTyped ==
  ASSUME NEW p, Typed(p), NEW pad \in Pads, NEW a, Of(a, PadType[pad])
  PROVE  Typed([p EXCEPT ![pad] = a])
BY DEF Typed

LEMMA CopyOf ==
  ASSUME NEW S, NEW a, NEW b, NEW off, Of(a, S), Of(b, S)
  PROVE  Of(Copy(a, off, b), S)
BY DEF Of, Copy

LEMMA CopyEffectTyped ==
  ASSUME NEW i \in OpCode, i.op \notin StepOps, i.op # "BlockScale", NEW inp, NEW p, Typed(p),
         Of(ValuesOf(i, p, inp), PadType[PadOf(i)])
  PROVE  Typed(Effect(i, p, inp))
<1> DEFINE pad == PadOf(i)
           a   == Copy(p[pad], OffOf(i), ValuesOf(i, p, inp))
<1>1. Effect(i, p, inp) = [p EXCEPT ![pad] = a] /\ pad \in Pads
  BY EffectIsCopy DEF Typed
<1>2. Of(a, PadType[pad])
  <2>1. Of(p[pad], PadType[pad])
    BY <1>1 DEF Typed
  <2>2. QED
    BY <2>1, CopyOf
<1>3. QED
  <2> HIDE DEF pad, a
  <2>1. Typed([p EXCEPT ![pad] = a])
    BY <1>1, <1>2, ReplacedTyped
  <2>2. QED
    BY <1>1, <2>1

LEMMA ValuesTyped ==
  ASSUME NEW i \in OpCode, i.op \notin StepOps, i.op # "BlockScale", NEW inp, NEW p, Typed(p),
         i.op \in LoadOps \union {"LoadVarVec8"} =>
           \A k \in 0 .. i.len - 1 : inp[i.var + k] \in I16,
         Valid(Reads(i), p)
  PROVE  Of(ValuesOf(i, p, inp), PadType[PadOf(i)])
<1>1. i.len \in Nat
  BY Fields
<1>2. ASSUME NEW pad \in Pads, NEW off \in Nat, Cells(pad, off, i.len) \subseteq Reads(i)
      PROVE  \A k \in 0 .. i.len - 1 : p[pad][off + k] \in PadType[pad]
  <2>1. \A k \in 0 .. i.len - 1 : <<pad, off + k>> \in Reads(i)
    BY <1>1, <1>2 DEF Cells, Span
  <2>2. \A k \in 0 .. i.len - 1 : off + k \in DOMAIN p[pad]
    BY <2>1 DEF Valid
  <2>3. QED
    BY <1>2, <2>2 DEF Typed, Of
<1>3. /\ "i16" \in Pads /\ "i8" \in Pads /\ I16 \subseteq Int /\ I8 \subseteq Int
      /\ PadType["i16"] = I16 /\ PadType["i8"] = I8 /\ PadType["out"] = I16
  BY Ranges DEF Pads, PadType
<1>4. CASE i.op \in LoadOps
  <2>1. ValuesOf(i, p, inp) = Slice(inp, i.var, i.len) /\ PadOf(i) = "i16"
    BY <1>4, ValuesAre DEF PadOf, LoadOps, SaveOps, VecI8Ops
  <2>2. QED
    BY <1>3, <1>4, <2>1 DEF Of, Slice
<1>5. CASE i.op \in SaveOps
  <2>1. ValuesOf(i, p, inp) = Slice(p.i16, i.src, i.len) /\ PadOf(i) = "out"
    BY <1>5, ValuesAre DEF PadOf
  <2>2. i.src \in Nat /\ Cells("i16", i.src, i.len) \subseteq Reads(i)
    BY <1>5, Fields, ReadsOf DEF SaveOps
  <2>3. \A k \in 0 .. i.len - 1 : p.i16[i.src + k] \in I16
    BY <1>2, <1>3, <2>2
  <2>4. QED
    BY <1>3, <2>1, <2>3 DEF Of, Slice
<1>6. CASE i.op = "FillVec"
  <2>1. ValuesOf(i, p, inp) = [k \in 0 .. i.len - 1 |-> i.val] /\ PadOf(i) = "i16" /\ i.val \in I16
    BY <1>6, ValuesAre, Fields DEF PadOf, SaveOps, VecI8Ops
  <2>2. QED
    BY <1>3, <2>1 DEF Of
<1>7. CASE i.op \in ArithOps
  <2>1. ValuesOf(i, p, inp) = Result(i, p.i16) /\ PadOf(i) = "i16"
    BY <1>7, ValuesAre DEF PadOf, SaveOps, VecI8Ops, ArithOps, ScalarOps, VecBinOps, VecOneOps
  <2>2. i.lhs \in Nat /\ Cells("i16", i.lhs, i.len) \subseteq Reads(i)
    BY <1>7, Fields, ReadsOf DEF ArithOps
  <2>3. \A k \in 0 .. i.len - 1 : p.i16[i.lhs + k] \in Int
    BY <1>2, <1>3, <2>2
  <2>4. \A k \in 0 .. i.len - 1 : Rhs(i, p.i16, k) \in Int
    <3>1. CASE i.op \in VecOneOps
      <4>1. i.val \in Int
        BY <1>3, <3>1, Fields
      <4>2. QED
        BY <3>1, <4>1 DEF Rhs
    <3>2. CASE i.op \notin VecOneOps
      <4>1. i.op \in ScalarOps \union VecBinOps
        BY <1>7, <3>2 DEF ArithOps
      <4>2. i.rhs \in Nat /\ Cells("i16", i.rhs, i.len) \subseteq Reads(i)
        BY <4>1, Fields, ReadsOf
      <4>3. \A k \in 0 .. i.len - 1 : p.i16[i.rhs + k] \in Int
        BY <1>2, <1>3, <4>2
      <4>4. QED
        BY <3>2, <4>3 DEF Rhs
    <3>3. QED
      BY <3>1, <3>2
  <2>5. \A k \in 0 .. i.len - 1 : Combine(i.op, p.i16[i.lhs + k], Rhs(i, p.i16, k)) \in I16
    BY <1>7, <2>3, <2>4, CombineTypes
  <2>6. QED
    BY <1>3, <2>1, <2>5 DEF Of, Result
<1>8. CASE i.op = "LoadVarVec8"
  <2>1. /\ ValuesOf(i, p, inp) = [k \in 0 .. i.len - 1 |-> Crunch8(inp[i.var + k])]
        /\ PadOf(i) = "i8"
    BY <1>8, ValuesAre DEF PadOf, SaveOps
  <2>2. \A x \in Int : x \div 4 \in Int
    OBVIOUS
  <2>3. \A x \in I16 : Crunch8(x) \in I8
    BY <1>3, <2>2, Saturates DEF Crunch8
  <2>4. QED
    BY <1>3, <1>8, <2>1, <2>3 DEF Of
<1>9. CASE i.op = "StoreVec8"
  <2>1. /\ ValuesOf(i, p, inp) = [k \in 0 .. i.len - 1 |-> Widen8(p.i8[i.src + k])]
        /\ PadOf(i) = "out"
    BY <1>9, ValuesAre DEF PadOf
  <2>2. i.src \in Nat /\ Cells("i8", i.src, i.len) \subseteq Reads(i)
    BY <1>9, Fields, ReadsOf
  <2>3. \A k \in 0 .. i.len - 1 : p.i8[i.src + k] \in I8
    BY <1>2, <1>3, <2>2
  <2>4. \A x \in I8 : Widen8(x) \in I16
    <3>1. \A x \in I8 : Widen8(x) \in Int /\ I16Min <= Widen8(x) /\ Widen8(x) <= I16Max
      BY Ranges DEF Widen8, I8Min, I8Max, I16Min, I16Max
    <3>2. QED
      BY <3>1, Ranges
  <2>5. QED
    BY <1>3, <2>1, <2>3, <2>4 DEF Of
<1>10. CASE i.op \in VecI8Ops
  <2>1. ValuesOf(i, p, inp) = Result(i, p.i8) /\ PadOf(i) = "i8"
    BY <1>10, ValuesAre DEF PadOf, SaveOps, VecI8Ops
  <2>2. /\ i.lhs \in Nat /\ Cells("i8", i.lhs, i.len) \subseteq Reads(i)
        /\ i.rhs \in Nat /\ Cells("i8", i.rhs, i.len) \subseteq Reads(i)
    BY <1>10, Fields, ReadsOf
  <2>3. /\ \A k \in 0 .. i.len - 1 : p.i8[i.lhs + k] \in Int
        /\ \A k \in 0 .. i.len - 1 : p.i8[i.rhs + k] \in Int
    BY <1>2, <1>3, <2>2
  <2>4. \A k \in 0 .. i.len - 1 : Rhs(i, p.i8, k) \in Int
    BY <1>10, <2>3 DEF Rhs, VecI8Ops, VecOneOps
  <2>5. \A k \in 0 .. i.len - 1 : Combine(i.op, p.i8[i.lhs + k], Rhs(i, p.i8, k)) \in I8
    BY <1>10, <2>3, <2>4, CombineTypes
  <2>6. QED
    BY <1>3, <2>1, <2>5 DEF Of, Result
<1>11. QED
  BY <1>4, <1>5, <1>6, <1>7, <1>8, <1>9, <1>10, Kinds

(* Some of the blocks of BlockScale, and some of the lanes of a step, as a *)
(* panic leaves them.                                                      *)
LEMMA ScaleBlocksTyped ==
  ASSUME NEW i \in OpCode, NEW p, Typed(p), NEW done, done \subseteq Nat,
         \A b \in done : \A k \in BlockLanes(i, b) : i.src + k \in DOMAIN p.i16
  PROVE  Typed(ScaleBlocks(i, p, done))
<1> DEFINE a == [b \in DOMAIN p.f32 |-> IF b \in done THEN ScaleOf(i, p.i16, b) ELSE p.f32[b]]
<1>1. /\ "f32" \in Pads /\ "i16" \in Pads
      /\ PadType["f32"] = 0 .. I16Max /\ PadType["i16"] = I16
  BY DEF Pads, PadType
<1>2. \A b \in done : ScaleOf(i, p.i16, b) \in 0 .. I16Max
  <2>1. SUFFICES ASSUME NEW b \in done PROVE ScaleOf(i, p.i16, b) \in 0 .. I16Max
    OBVIOUS
  <2>2. \A k \in BlockLanes(i, b) : p.i16[i.src + k] \in I16
    BY <1>1 DEF Typed, Of
  <2>3. QED
    BY <2>2, ScaleTypes
<1>3. Of(a, PadType["f32"])
  BY <1>1, <1>2 DEF Typed, Of
<1>4. ScaleBlocks(i, p, done) = [p EXCEPT !["f32"] = a]
  BY DEF ScaleBlocks
<1>5. QED
  <2> HIDE DEF a
  <2>1. Typed([p EXCEPT !["f32"] = a])
    BY <1>1, <1>3, ReplacedTyped
  <2>2. QED
    BY <1>4, <2>1

LEMMA StepTyped ==
  ASSUME ScaledIsInteger, NEW i \in OpCode, i.op \in StepOps, NEW p, Typed(p),
         NEW lanes, lanes \subseteq Lanes(i),
         \A cell \in Touches(i) \ Scales(i) : cell[2] \in DOMAIN p[cell[1]],
         i.op = "AIOStepBlock" => \A k \in lanes : i.s + k \div BlockLen \in DOMAIN p.f32
  PROVE  Typed(Step(i, p, lanes))
<1> DEFINE pad == MomentPad(i)
           old(k) == [w |-> p.i16[i.w + k], m |-> p[pad][i.m + k], v |-> p[pad][i.v + k]]
           new == [k \in lanes |-> Stepped(Rule(i), old(k), Gradient(i, p, k))]
           M == [k \in lanes |-> new[k].m]
           V == [k \in lanes |-> new[k].v]
           U == [k \in lanes |-> new[k].w]
           moved == [p EXCEPT ![pad] = Copy(Copy(@, i.m, M), i.v, V)]
<1>1. Step(i, p, lanes) = [moved EXCEPT !["i16"] = Copy(@, i.w, U)]
  BY DEF Step
<1>2. /\ i.w \in Nat /\ i.g \in Nat /\ i.m \in Nat /\ i.v \in Nat /\ i.len \in Nat
      /\ lanes \subseteq 0 .. i.len - 1
      /\ pad \in {"i16", "i32"} /\ pad \in Pads /\ "i16" \in Pads /\ "f32" \in Pads
      /\ I16 \subseteq Int
  BY Fields, BlocksAndLanes, Ranges DEF MomentPad, Pads
<1>3. PadType["i16"] = I16 /\ PadType["i32"] = Int /\ PadType["f32"] = 0 .. I16Max
  BY DEF PadType
<1>4. ASSUME NEW o \in {"i16", "i32"}, NEW off \in Nat, Cells(o, off, i.len) \subseteq Reads(i)
      PROVE  \A k \in lanes : p[o][off + k] \in PadType[o]
  <2>1. \A k \in lanes : <<o, off + k>> \in Reads(i)
    BY <1>2, <1>4 DEF Cells, Span
  <2>2. \A k \in lanes : <<o, off + k>> \in Touches(i) \ Scales(i)
    BY <2>1 DEF Touches, Scales
  <2>3. \A k \in lanes : off + k \in DOMAIN p[o]
    BY <2>2
  <2>4. o \in Pads
    BY DEF Pads
  <2>5. QED
    BY <2>3, <2>4 DEF Typed, Of
<1>5. /\ \A k \in lanes : p.i16[i.w + k] \in I16
      /\ \A k \in lanes : p.i16[i.g + k] \in I16
      /\ \A k \in lanes : p[pad][i.m + k] \in Int
      /\ \A k \in lanes : p[pad][i.v + k] \in Int
  <2>1. /\ Cells("i16", i.w, i.len) \subseteq Reads(i) /\ Cells("i16", i.g, i.len) \subseteq Reads(i)
        /\ Cells(pad, i.m, i.len) \subseteq Reads(i) /\ Cells(pad, i.v, i.len) \subseteq Reads(i)
    BY ReadsOf
  <2> HIDE DEF pad
  <2>2. PadType[pad] \subseteq Int
    BY <1>2, <1>3
  <2>3. /\ \A k \in lanes : p["i16"][i.w + k] \in PadType["i16"]
        /\ \A k \in lanes : p["i16"][i.g + k] \in PadType["i16"]
        /\ \A k \in lanes : p[pad][i.m + k] \in PadType[pad]
        /\ \A k \in lanes : p[pad][i.v + k] \in PadType[pad]
    BY <1>2, <1>4, <2>1
  <2>4. QED
    BY <1>3, <2>2, <2>3
<1>6. ASSUME NEW k \in lanes PROVE Gradient(i, p, k) \in Int
  <2>1. CASE i.op = "AIOStepBlock"
    <3>1. p.f32[i.s + k \div BlockLen] \in 0 .. I16Max
      BY <1>2, <1>3, <2>1 DEF Typed, Of
    <3>2. QED
      BY <1>5, <2>1, <3>1 DEF Gradient, ScaledIsInteger
  <2>2. CASE i.op # "AIOStepBlock"
    BY <1>2, <1>5, <2>2 DEF Gradient
  <2>3. QED
    BY <2>1, <2>2
<1>7. /\ Rule(i) \in {"AdamWStep", "AIOStep16", "AIOStep32", "AIOStepBlock"}
      /\ pad = IF Rule(i) = "AIOStep32" THEN "i32" ELSE "i16"
  BY DEF Rule, MomentPad, StepOps
<1>8. ASSUME NEW k \in lanes
      PROVE  new[k].w \in I16 /\ new[k].m \in PadType[pad] /\ new[k].v \in PadType[pad]
  <2> DEFINE s == old(k)
             g == Gradient(i, p, k)
  <2>1. s.w \in Int /\ s.m \in Int /\ s.v \in Int /\ g \in Int
    BY <1>2, <1>5, <1>6
  <2>2. new[k] = Stepped(Rule(i), s, g)
    OBVIOUS
  <2> HIDE DEF new, s, g, pad
  <2>3. /\ Stepped(Rule(i), s, g).w \in I16
        /\ Stepped(Rule(i), s, g).m \in Int /\ Stepped(Rule(i), s, g).v \in Int
        /\ Rule(i) # "AIOStep32" =>
             Stepped(Rule(i), s, g).m \in I16 /\ Stepped(Rule(i), s, g).v \in I16
    BY <1>7, <2>1, SteppedTypes
  <2>4. QED
    BY <1>3, <1>7, <2>2, <2>3
<1>9. Of(M, PadType[pad]) /\ Of(V, PadType[pad]) /\ Of(U, PadType["i16"])
  <2> HIDE DEF new, pad
  <2>1. QED
    BY <1>3, <1>8 DEF Of
<1>10. Typed(moved)
  <2> HIDE DEF M, V, pad
  <2>1. Of(p[pad], PadType[pad])
    BY <1>2 DEF Typed
  <2>2. Of(Copy(p[pad], i.m, M), PadType[pad])
    BY <1>9, <2>1, CopyOf
  <2>3. Of(Copy(Copy(p[pad], i.m, M), i.v, V), PadType[pad])
    BY <1>9, <2>2, CopyOf
  <2>4. QED
    BY <1>2, <2>3, ReplacedTyped
<1>11. QED
  <2> HIDE DEF moved, U
  <2>1. Of(moved["i16"], PadType["i16"])
    BY <1>2, <1>10 DEF Typed
  <2>2. Of(Copy(moved["i16"], i.w, U), PadType["i16"])
    BY <1>9, <2>1, CopyOf
  <2>3. Typed([moved EXCEPT !["i16"] = Copy(moved["i16"], i.w, U)])
    BY <1>2, <1>10, <2>2, ReplacedTyped
  <2>4. QED
    BY <1>1, <2>3
-----------------------------------------------------------------------------
(* The type invariant needs the moments of i32 as well. *)
TypesInv == TypeOK /\ Of(memory_i32, Int)

LEMMA BuffersTyped ==
  ASSUME TypesInv
  PROVE  Typed(buffers) /\ Of(inputs, I16)
<1>1. Of(inputs, I16)
  <2>1. CASE inputs \in InputSet
    BY <2>1, InputSizes DEF Of
  <2>2. CASE inputs = <<>>
    BY <2>2 DEF Of
  <2>3. QED
    BY <2>1, <2>2 DEF TypesInv, TypeOK
<1>2. \A pad \in Pads : Of(buffers[pad], PadType[pad])
  <2>1. /\ Of(memory, PadType["i16"]) /\ Of(memory_i8, PadType["i8"])
        /\ Of(memory_i32, PadType["i32"]) /\ Of(memory_f32, PadType["f32"])
        /\ Of(outputs, PadType["out"])
    BY DEF TypesInv, TypeOK, Of, PadType
  <2>2. QED
    BY <2>1, BuffersArePads DEF Pads
<1>3. QED
  BY <1>1, <1>2, BuffersArePads DEF Typed

LEMMA LeastIs ==
  ASSUME NEW S, S \subseteq Nat, S # {}
  PROVE  Min(S) \in S /\ \A x \in S : Min(S) <= x
BY LeastElement DEF Min

LEMMA SimpleTypes ==
  ASSUME SizesInv, TypesInv, Load \/ Store \/ Fill \/ Scalar \/ Vector \/ Load8 \/ Store8 \/ Vector8
  PROVE  \E p : Typed(p) /\ Become(p)
<1>1. Typed(buffers) /\ Of(inputs, I16)
  BY BuffersTyped
<1>2. ins \in OpCode /\ ins.len \in Nat
  BY AtFacts, Fields DEF Load, Store, Fill, Scalar, Vector, Load8, Store8, Vector8, At
<1>3. CASE Stop("panicked") \/ Stop("undefined")
  BY <1>1, <1>3 DEF Stop, StopAfter
<1>4. CASE ~(Stop("panicked") \/ Stop("undefined"))
  <2>1. Perform(ins)
    BY <1>4 DEF Load, Store, Fill, Scalar, Vector, Load8, Store8, Vector8
  <2>2. /\ ins.op \in LoadOps \union {"FillVec", "LoadVarVec8", "StoreVec8"} \union SaveOps
                       \union ArithOps \union VecI8Ops
        /\ ins.op \in LoadOps \union {"LoadVarVec8"} => Fits(inputs, ins.var, ins.len)
        /\ ins.op \in SaveOps => Fits(memory, ins.src, ins.len)
        /\ ins.op = "StoreVec8" => Fits(memory_i8, ins.src, ins.len)
        /\ ins.op \in ArithOps \union VecI8Ops => Allocated(ins)
    BY <1>4 DEF Load, Store, Fill, Scalar, Vector, Load8, Store8, Vector8, At, Sound,
                LoadOps, SaveOps, ArithOps, ScalarOps, VecBinOps, VecOneOps, VecI8Ops
  <2>3. ins.op \notin StepOps /\ ins.op # "BlockScale"
    BY <2>2 DEF StepOps, LoadOps, SaveOps, ArithOps, ScalarOps, VecBinOps, VecOneOps, VecI8Ops
  <2>4. /\ \E n \in Nat : DOMAIN memory = 0 .. n - 1
        /\ \E n \in Nat : DOMAIN memory_i8 = 0 .. n - 1
        /\ \E n \in Nat : DOMAIN inputs = 0 .. n - 1
    <3>1. graph.memory_size \in Nat /\ 0 \in Nat /\ {} = 0 .. 0 - 1
      BY GraphFacts DEF SizesInv
    <3>2. QED
      BY <3>1 DEF SizesInv, Memory, Scratch8
  <2>5. ASSUME ins.op \in LoadOps \union {"LoadVarVec8"}, NEW k \in 0 .. ins.len - 1
        PROVE  inputs[ins.var + k] \in I16
    <3>1. ins.var \in Nat
      BY <1>2, <2>5, Fields DEF LoadOps
    <3>2. Span(ins.var, ins.len) \subseteq DOMAIN inputs
      BY <1>2, <2>2, <2>4, <2>5, <3>1, FitsCovers
    <3>3. ins.var + k \in Span(ins.var, ins.len)
      BY <1>2, <2>5, <3>1 DEF Span
    <3>4. QED
      BY <1>1, <3>2, <3>3 DEF Of
  <2>6. Valid(Reads(ins), buffers)
    <3>1. CASE ins.op \in LoadOps \union {"FillVec", "LoadVarVec8"}
      <4>1. Reads(ins) = {}
        BY <3>1 DEF Reads, LoadOps, ScalarOps, VecBinOps, VecOneOps, VecI8Ops, StepOps
      <4>2. QED
        BY <4>1 DEF Valid
    <3>2. CASE ins.op \in SaveOps
      <4>1. Reads(ins) = {"i16"} \X Span(ins.src, ins.len) /\ ins.src \in Nat
        BY <1>2, <3>2, Fields DEF Reads, Cells, SaveOps, ScalarOps, VecBinOps, VecOneOps,
                                  VecI8Ops, StepOps
      <4>2. Span(ins.src, ins.len) \subseteq DOMAIN memory
        BY <1>2, <2>2, <2>4, <3>2, <4>1, FitsCovers
      <4>3. QED
        BY <4>1, <4>2, BuffersArePads DEF Valid
    <3>3. CASE ins.op = "StoreVec8"
      <4>1. Reads(ins) = {"i8"} \X Span(ins.src, ins.len) /\ ins.src \in Nat
        BY <1>2, <3>3, Fields DEF Reads, Cells, ScalarOps, VecBinOps, VecOneOps, VecI8Ops, StepOps
      <4>2. Span(ins.src, ins.len) \subseteq DOMAIN memory_i8
        BY <1>2, <2>2, <2>4, <3>3, <4>1, FitsCovers
      <4>3. QED
        BY <4>1, <4>2, BuffersArePads DEF Valid
    <3>4. CASE ins.op \in ArithOps \union VecI8Ops
      <4>1. Scales(ins) = {}
        BY <3>4 DEF Scales, ArithOps, ScalarOps, VecBinOps, VecOneOps, VecI8Ops
      <4>2. QED
        BY <2>2, <3>4, <4>1 DEF Valid, Allocated, Pad, Touches
    <3>5. QED
      BY <2>2, <3>1, <3>2, <3>3, <3>4
  <2>7. Of(ValuesOf(ins, buffers, inputs), PadType[PadOf(ins)])
    BY <1>1, <1>2, <2>3, <2>5, <2>6, ValuesTyped
  <2>8. Typed(Effect(ins, buffers, inputs))
    BY <1>1, <1>2, <2>3, <2>7, CopyEffectTyped
  <2>9. QED
    BY <2>1, <2>8 DEF Perform
<1>5. QED
  BY <1>3, <1>4

LEMMA ScaleActionTypes ==
  ASSUME SizesInv, TypesInv, BlockScale
  PROVE  \E p : Typed(p) /\ Become(p)
<1>1. Typed(buffers) /\ buffers.i16 = memory
  BY BuffersTyped, BuffersArePads
<1>2. ins \in OpCode /\ ins.op = "BlockScale" /\ Blocks(ins) \subseteq Nat
  BY AtFacts, BlocksAndLanes DEF BlockScale, At, BlockOps
<1>3. PICK checked \in Builds :
        LET bad == BadBlocks(checked) IN
        IF bad = {} THEN Perform(ins)
        ELSE StopAfter(ScaleBlocks(ins, buffers, UpTo(Min(bad))),
                       IF InBounds(Min(bad)) THEN "overflow" ELSE "panicked")
  BY DEF BlockScale
<1> DEFINE bad == BadBlocks(checked)
<1>4. bad \subseteq Blocks(ins) /\ \A b \in Blocks(ins) : b \notin bad => InBounds(b)
  BY DEF BadBlocks
<1>5. ASSUME NEW done, done \subseteq Blocks(ins) \ bad
      PROVE  Typed(ScaleBlocks(ins, buffers, done))
  <2> HIDE DEF bad
  <2>1. \A b \in done : \A k \in BlockLanes(ins, b) : ins.src + k \in DOMAIN buffers.i16
    BY <1>1, <1>4, <1>5 DEF InBounds
  <2>2. done \subseteq Nat
    BY <1>2, <1>5
  <2>3. QED
    BY <1>1, <1>2, <2>1, <2>2, ScaleBlocksTyped
<1>6. CASE bad = {}
  <2>1. Perform(ins)
    BY <1>3, <1>6
  <2>2. Effect(ins, buffers, inputs) = ScaleBlocks(ins, buffers, Blocks(ins))
    BY <1>2 DEF Effect, StepOps, ScalarOps, VecBinOps, VecOneOps, VecI8Ops
  <2>3. QED
    BY <1>5, <1>6, <2>1, <2>2 DEF Perform
<1>7. CASE bad # {}
  <2>1. Become(ScaleBlocks(ins, buffers, UpTo(Min(bad))))
    BY <1>3, <1>7 DEF StopAfter
  <2>2. Min(bad) \in bad /\ \A b \in bad : Min(bad) <= b
    <3>1. bad \subseteq Nat
      BY <1>2, <1>4
    <3> HIDE DEF bad
    <3>2. QED
      BY <1>7, <3>1, LeastIs
  <2>3. UpTo(Min(bad)) \subseteq Blocks(ins) \ bad
    <3> HIDE DEF bad
    <3> DEFINE last == (ins.len - 1) \div BlockLen
    <3>1. last \in Int /\ Blocks(ins) = 0 .. last
      <4>1. ins.len - 1 \in Int /\ BlockLen \in Nat \ {0}
        BY <1>2, Fields, BlockLenAssumption
      <4>2. last \in Int
        BY <4>1
      <4>3. QED
        BY <1>2, <4>2 DEF Blocks
    <3> HIDE DEF last
    <3>2. Min(bad) \in 0 .. last
      BY <1>4, <2>2, <3>1
    <3>3. QED
      BY <2>2, <3>1, <3>2 DEF UpTo
  <2>4. QED
    BY <1>5, <2>1, <2>3
<1>8. QED
  BY <1>6, <1>7

LEMMA StepActionTypes ==
  ASSUME ScaledIsInteger, SizesInv, TypesInv, AdamWStep \/ AIOStep
  PROVE  \E p : Typed(p) /\ Become(p)
<1>1. Typed(buffers)
  BY BuffersTyped
<1>2. ins \in OpCode /\ ins.op \in {"AdamWStep", "AIOStep"}
  BY AtFacts DEF AdamWStep, AIOStep, At
<1>3. CASE Stop("panicked") \/ Stop("undefined")
  BY <1>1, <1>3 DEF Stop, StopAfter
<1>4. CASE ~(Stop("panicked") \/ Stop("undefined"))
  <2>1. Perform(ins) /\ Allocated(ins)
    BY <1>4 DEF AdamWStep, AIOStep, Sound
  <2>2. Effect(ins, buffers, inputs) = Step(ins, buffers, Lanes(ins))
    BY <1>2 DEF Effect, StepOps, ScalarOps, VecBinOps, VecOneOps, VecI8Ops
  <2>3. /\ ins.op \in StepOps /\ ins.op # "AIOStepBlock"
        /\ \A cell \in Touches(ins) \ Scales(ins) : cell[2] \in DOMAIN buffers[cell[1]]
    BY <1>2, <2>1 DEF StepOps, Allocated, Pad
  <2>4. Typed(Step(ins, buffers, Lanes(ins)))
    <3> DEFINE L == Lanes(ins)
    <3>1. L \subseteq Lanes(ins)
      OBVIOUS
    <3> HIDE DEF L
    <3>2. Typed(Step(ins, buffers, L))
      BY <1>1, <1>2, <2>3, <3>1, StepTyped
    <3>3. QED
      BY <3>2 DEF L
  <2>5. QED
    BY <2>1, <2>2, <2>4 DEF Perform
<1>5. QED
  BY <1>3, <1>4

LEMMA BlockStepActionTypes ==
  ASSUME ScaledIsInteger, SizesInv, TypesInv, AIOStepBlock
  PROVE  \E p : Typed(p) /\ Become(p)
<1>1. Typed(buffers) /\ buffers.f32 = memory_f32 /\ DOMAIN buffers = Pads
  BY BuffersTyped, BuffersArePads
<1>2. ins \in OpCode /\ ins.op = "AIOStepBlock" /\ ins.op \in StepOps /\ ins.len \in Nat
  BY AtFacts, Fields DEF AIOStepBlock, At, StepOps
<1>3. PICK checked \in Builds :
        LET steep == IF checked THEN TooSteep ELSE {}
            bad   == NoScale \union steep
        IN  CASE ~Sound(ins) -> Stop("undefined")
              [] Sound(ins) /\ ins.s > Size(memory_f32) -> Stop("panicked")
              [] Sound(ins) /\ ins.s <= Size(memory_f32) /\ bad = {} -> Perform(ins)
              [] OTHER ->
                   IF Min(bad) \in steep THEN StopAfter(FirstMomentOf(Min(bad)), "overflow")
                   ELSE StopAfter(Step(ins, buffers, UpTo(Min(bad))), "panicked")
  BY DEF AIOStepBlock
<1> DEFINE steep == IF checked THEN TooSteep ELSE {}
           bad   == NoScale \union steep
           first == Min(bad)
<1>4. ins.s \in Nat /\ Size(memory_f32) \in Nat
  BY <1>2, Fields, ArraySizes
<1>5. ASSUME Sound(ins), NEW lanes, lanes \subseteq Lanes(ins) \ NoScale
      PROVE  Typed(Step(ins, buffers, lanes))
  <2>1. \A cell \in Touches(ins) \ Scales(ins) : cell[2] \in DOMAIN buffers[cell[1]]
    BY <1>5 DEF Sound, Allocated, Pad
  <2>2. \A k \in lanes : ins.s + k \div BlockLen \in DOMAIN buffers.f32
    BY <1>1, <1>5 DEF NoScale
  <2>3. lanes \subseteq Lanes(ins)
    BY <1>5
  <2>4. QED
    BY <1>1, <1>2, <2>1, <2>2, <2>3, StepTyped
<1>6. CASE ~Sound(ins) \/ ins.s > Size(memory_f32)
  <2>1. Stop("undefined") \/ Stop("panicked")
    <3>1. CASE ~Sound(ins)
      BY <1>3, <3>1
    <3>2. CASE Sound(ins) /\ ins.s > Size(memory_f32)
      <4>1. ~(ins.s <= Size(memory_f32)) /\ Sound(ins)
        BY <1>4, <3>2
      <4>2. QED
        BY <1>3, <3>2, <4>1
    <3>3. QED
      BY <1>6, <3>1, <3>2
  <2>2. QED
    BY <1>1, <2>1 DEF Stop, StopAfter
<1>7. CASE Sound(ins) /\ ~(ins.s > Size(memory_f32)) /\ bad = {}
  <2>1. ins.s <= Size(memory_f32)
    BY <1>4, <1>7
  <2>2. Perform(ins)
    BY <1>3, <1>7, <2>1
  <2>3. Effect(ins, buffers, inputs) = Step(ins, buffers, Lanes(ins))
    BY <1>2 DEF Effect, StepOps, ScalarOps, VecBinOps, VecOneOps, VecI8Ops
  <2>4. Lanes(ins) \subseteq Lanes(ins) \ NoScale
    BY <1>7
  <2>5. QED
    BY <1>5, <1>7, <2>2, <2>3, <2>4 DEF Perform
<1>8. CASE Sound(ins) /\ ~(ins.s > Size(memory_f32)) /\ bad # {}
  <2>1. IF first \in steep THEN StopAfter(FirstMomentOf(first), "overflow")
        ELSE StopAfter(Step(ins, buffers, UpTo(first)), "panicked")
    BY <1>3, <1>8
  <2>2. PICK n \in Int : Lanes(ins) = 0 .. n - 1
    <3>1. ins.len \div BlockLen \in Int
      BY <1>2, BlockLenAssumption
    <3> DEFINE q == ins.len \div BlockLen
    <3> HIDE DEF q
    <3>2. q * BlockLen \in Int
      BY <3>1, BlockLenAssumption DEF q
    <3>3. QED
      BY <1>2, <3>2 DEF Lanes, q
  <2>3. bad \subseteq Lanes(ins)
    BY DEF NoScale, TooSteep
  <2>4. first \in bad /\ \A k \in bad : first <= k
    <3>1. bad \subseteq Nat
      BY <2>2, <2>3
    <3> HIDE DEF bad
    <3>2. QED
      BY <1>8, <3>1, LeastIs
  <2>5. UpTo(first) \subseteq Lanes(ins) \ NoScale
    <3> HIDE DEF first
    <3>1. first \in 0 .. n - 1 /\ \A k \in NoScale : first <= k
      BY <2>2, <2>3, <2>4
    <3>2. QED
      BY <2>2, <3>1 DEF UpTo
  <2>6. CASE first \notin steep
    BY <1>5, <1>8, <2>1, <2>5, <2>6 DEF StopAfter
  <2>7. CASE first \in steep
    <3>1. UpTo(first + 1) \subseteq Lanes(ins) \ NoScale
      <4>1. first \in Lanes(ins) \ NoScale
        BY <2>7 DEF TooSteep
      <4> HIDE DEF first
      <4>2. UpTo(first + 1) \subseteq UpTo(first) \union {first}
        BY <2>2, <4>1 DEF UpTo
      <4>3. QED
        BY <2>5, <4>1, <4>2
    <3> DEFINE done == Step(ins, buffers, UpTo(first))
               one  == Step(ins, buffers, UpTo(first + 1))
               x    == ins.m + first
               a    == [done.i16 EXCEPT ![x] = one.i16[x]]
    <3>2. Typed(done) /\ Typed(one)
      BY <1>5, <1>8, <2>5, <3>1
    <3>3. DOMAIN done.i16 = DOMAIN one.i16
      <4>1. Alike(done, buffers) /\ Alike(one, buffers)
        BY <1>1, <1>2, StepShape
      <4>2. QED
        BY <4>1 DEF Alike, Pads
    <3>4. "i16" \in Pads /\ Of(a, PadType["i16"])
      <4>1. "i16" \in Pads
        BY DEF Pads
      <4> HIDE DEF done, one, x
      <4>2. Of(done.i16, PadType["i16"]) /\ Of(one.i16, PadType["i16"])
        BY <3>2, <4>1 DEF Typed
      <4>3. QED
        BY <3>3, <4>1, <4>2 DEF Of
    <3>5. FirstMomentOf(first) = [done EXCEPT !["i16"] = a]
      BY DEF FirstMomentOf
    <3>6. Typed([done EXCEPT !["i16"] = a])
      <4> HIDE DEF done, a
      <4>1. QED
        BY <3>2, <3>4, ReplacedTyped
    <3>7. QED
      BY <2>1, <2>7, <3>5, <3>6 DEF StopAfter
  <2>8. QED
    BY <2>6, <2>7
<1>9. QED
  BY <1>6, <1>7, <1>8
LEMMA NextKeepsTypes ==
  ASSUME ScaledIsInteger, SizesInv, SizesInv', TypesInv, [Next]_vars
  PROVE  TypesInv'
<1>1. /\ graph \in Graphs /\ graph' \in Graphs /\ ip' \in 1 .. Len(graph'.instructions) + 1
      /\ OutputLens \subseteq Nat /\ MaxCalls \in Nat
  BY ExecutorAssumption DEF SizesInv
<1>2. ASSUME NEW p, Typed(p), Become(p)
      PROVE  /\ Of(memory', I16) /\ Of(memory_i8', I8) /\ Of(memory_i32', Int)
             /\ Of(memory_f32', 0 .. I16Max) /\ Of(outputs', I16)
  <2>1. /\ Of(p["i16"], PadType["i16"]) /\ Of(p["i8"], PadType["i8"])
        /\ Of(p["i32"], PadType["i32"]) /\ Of(p["f32"], PadType["f32"])
        /\ Of(p["out"], PadType["out"])
    BY <1>2 DEF Typed, Pads
  <2>2. QED
    BY <1>2, <2>1 DEF Become, PadType
<1>3. CASE Instruction
  <2>1. \E p : Typed(p) /\ Become(p)
    <3>1. CASE SkipI8
      BY <3>1, BuffersTyped, BuffersArePads DEF SkipI8, scratch, Become
    <3>2. CASE ~SkipI8
      BY <1>3, <3>2, SimpleTypes, ScaleActionTypes, StepActionTypes, BlockStepActionTypes
         DEF Instruction
    <3>3. QED
      BY <3>1, <3>2
  <2>2. UNCHANGED control /\ status' \in {status, "panicked", "overflow", "undefined"}
    <3>1. CASE SkipI8
      BY <3>1 DEF SkipI8
    <3>2. CASE Load \/ Store \/ Fill \/ Scalar \/ Vector \/ Load8 \/ Store8 \/ Vector8
                 \/ AdamWStep \/ AIOStep
      BY <3>2 DEF Load, Store, Fill, Scalar, Vector, Load8, Store8, Vector8, AdamWStep, AIOStep,
                  At, Perform, Stop, StopAfter
    <3>3. CASE BlockScale \/ AIOStepBlock
      BY <3>3 DEF BlockScale, AIOStepBlock, At, Perform, Stop, StopAfter
    <3>4. QED
      BY <1>3, <3>1, <3>2, <3>3 DEF Instruction
  <2>3. QED
    BY <1>1, <1>2, <2>1, <2>2 DEF TypesInv, TypeOK, Of, control
<1>4. CASE Execute
  <2>1. /\ status' = "running" /\ call' \in Calls /\ calls' = calls + 1 /\ calls < MaxCalls
        /\ inputs' \in InputSet
    BY <1>4 DEF Execute, Begin
  <2>2. ASSUME NEW S, 0 \in S, NEW a, Of(a, S), NEW n
        PROVE  Of(Resize(a, n), S) /\ Of(Grow(a, n), S)
    <3>1. Of(Resize(a, n), S)
      BY <2>2 DEF Of, Resize
    <3>2. QED
      BY <2>2, <3>1 DEF Grow
  <2>3. 0 \in I16 /\ 0 \in I8 /\ 0 \in Int /\ 0 \in 0 .. I16Max
    <3>1. I16Min <= 0 /\ 0 <= I16Max /\ I8Min <= 0 /\ 0 <= I8Max /\ I16Max \in Int
      BY DEF I16Min, I16Max, I8Min, I8Max
    <3>2. QED
      BY <3>1, Ranges
  <2>4. /\ Of(memory, I16) /\ Of(memory_i8, I8) /\ Of(memory_i32, Int)
        /\ Of(memory_f32, 0 .. I16Max) /\ Of(outputs, I16)
    BY DEF TypesInv, TypeOK, Of
  <2>5. PICK n \in OutputLens : outputs' = Resize(outputs, n)
    BY <1>4 DEF Execute
  <2>6. Of(outputs', I16)
    BY <2>2, <2>3, <2>4, <2>5
  <2>7. /\ Of(memory', I16) /\ Of(memory_i8', I8) /\ Of(memory_i32', Int)
        /\ Of(memory_f32', 0 .. I16Max)
    <3>1. EnsureBuffers
      BY <1>4 DEF Execute
    <3>2. \A n1 : /\ Of(Grow(memory, n1), I16) /\ Of(Grow(memory_i8, n1), I8)
                  /\ Of(Grow(memory_i32, n1), Int) /\ Of(Grow(memory_f32, n1), 0 .. I16Max)
      BY <2>2, <2>3, <2>4
    <3>3. QED
      BY <2>4, <3>1, <3>2 DEF EnsureBuffers
  <2>8. calls' \in 0 .. MaxCalls
    BY <1>1, <2>1 DEF TypesInv, TypeOK
  <2>9. QED
    BY <1>1, <2>1, <2>6, <2>7, <2>8 DEF TypesInv, TypeOK, Of
<1>5. CASE ExecuteI8
  <2>1. calls' \in 0 .. MaxCalls
    BY <1>1, <1>5 DEF ExecuteI8, Begin, TypesInv, TypeOK
  <2>2. QED
    BY <1>1, <1>5, <2>1 DEF ExecuteI8, Begin, scratch, TypesInv, TypeOK, Of
<1>6. CASE Return \/ UNCHANGED vars
  BY <1>1, <1>6 DEF Return, vars, control, scratch, TypesInv, TypeOK, Of
<1>7. QED
  BY <1>3, <1>4, <1>5, <1>6 DEF Next

(* Every value stays in the range of its array: no arithmetic of any       *)
(* instruction leaves i16, i8 or a scale of 0 .. 32767, even when a panic  *)
(* stops it half-way, and no instruction pointer leaves the program.  The  *)
(* gradient under a scale is cast to i32, hence the premise.               *)
THEOREM MachineTypes ==
  ASSUME ScaledIsInteger
  PROVE  Spec => []TypeOK
<1>1. Init => TypesInv
  <2>1. SUFFICES ASSUME Init PROVE TypesInv
    OBVIOUS
  <2>2. ip \in 1 .. Len(graph.instructions) + 1
    BY <2>1, InitSizes DEF SizesInv
  <2>3. 0 \in I16 /\ MaxCalls \in Nat
    <3>1. I16Min <= 0 /\ 0 <= I16Max
      BY DEF I16Min, I16Max
    <3>2. QED
      BY <3>1, Ranges, ExecutorAssumption
  <2>4. QED
    BY <2>1, <2>2, <2>3 DEF Init, TypesInv, TypeOK, Of, Zeros
<1>2. VmInv /\ VmInv' /\ TypesInv /\ [Next]_vars => TypesInv'
  BY NextKeepsTypes DEF VmInv
<1>3. TypesInv => TypeOK
  BY DEF TypesInv
<1>4. QED
  BY <1>1, <1>2, <1>3, VmInvariant, PTL DEF Spec
=============================================================================
