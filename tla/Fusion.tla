------------------------------- MODULE Fusion -------------------------------
(***************************************************************************)
(* The fusers of src/src/planner.rs: LoopFuser and KernelFuser turn a list *)
(* of instructions into a list of loops and raw instructions.  A loop runs *)
(* its operations, on registers, once per element of its tensors.          *)
(*                                                                         *)
(* SuperFuser, the third stage, pushes every operation as it finds it: its *)
(* register promotion is a placeholder (planner.rs:207) and it leaves the  *)
(* list as it is.                                                          *)
(***************************************************************************)
EXTENDS XimIR, SequencesExt

FusableOps == {"AddVec", "MulVec"} \union VecOneOps \union {"AdamWStep"}

Adds == {"AddVec", "AddScalarVec"}

(* A fused program is a sequence of these two. *)
Raw(ins)     == [kind |-> "raw", ins |-> ins]
NewLoop(len) == [kind |-> "loop", len |-> len, ops |-> <<>>, reg |-> <<>>, next |-> 0]

IsLoop(item, len) == item.kind = "loop" /\ item.len = len

(* The operations of a loop.  Constants are loaded like elements, from no  *)
(* offset.                                                                 *)
LoadOp(off, reg)       == [op |-> "Load", off |-> off, reg |-> reg]
ConstOp(val, reg)      == [op |-> "LoadConst", val |-> val, reg |-> reg]
ArithOp(op, l, r, d)   == [op |-> op, l |-> l, r |-> r, reg |-> d]
StoreOp(reg, off)      == [op |-> "Store", off |-> off, reg |-> reg]
StepOp(w, g, m, v)     == [op |-> "AdamWStep", w |-> w, g |-> g, m |-> m, v |-> v]

-----------------------------------------------------------------------------
(* HashMap::insert, here and for the registers of native code.             *)
Inserted(map, key, val) ==
  [x \in {key} \union DOMAIN map |-> IF x = key THEN val ELSE map[x]]

(* LoopFuser.  A group knows which register holds the element of a tensor, *)
(* by the offset of the tensor (mem_to_reg), and the next free register.   *)
Push(group, op) == [group EXCEPT !.ops = Append(@, op)]

(* The group with the element of the tensor at off in a register. *)
Use(group, off) ==
  IF off \in DOMAIN group.reg THEN group
  ELSE [Push(group, LoadOp(off, group.next)) EXCEPT
          !.reg = Inserted(@, off, group.next), !.next = @ + 1]

(* Fault: the register of the destination is not recorded. *)
IntoUnrecorded(group, ins, l, r, next) ==
  LET op == IF ins.op \in Adds THEN "Add" ELSE "Mul"
  IN  [Push(Push(group, ArithOp(op, l, r, next)), StoreOp(next, ins.dst)) EXCEPT
         !.next = next + 1]

(* The group with the result of two registers in a new one, and stored.    *)
Into(group, ins, l, r, next) ==
  LET op == IF ins.op \in Adds THEN "Add" ELSE "Mul"
  IN  [Push(Push(group, ArithOp(op, l, r, next)), StoreOp(next, ins.dst)) EXCEPT
         !.reg = Inserted(@, ins.dst, next), !.next = next + 1]

Emit(group, ins) ==
  CASE ins.op \in {"AddVec", "MulVec"} ->
         LET u == Use(Use(group, ins.lhs), ins.rhs)
         IN  Into(u, ins, u.reg[ins.lhs], u.reg[ins.rhs], u.next)
    [] ins.op \in VecOneOps ->
         LET u == Use(group, ins.lhs)
         IN  Into(Push(u, ConstOp(ins.val, u.next)), ins, u.reg[ins.lhs], u.next, u.next + 1)
    [] ins.op = "AdamWStep" ->
         LET u == Use(Use(Use(Use(group, ins.w), ins.g), ins.m), ins.v)
             step == StepOp(u.reg[ins.w], u.reg[ins.g], u.reg[ins.m], u.reg[ins.v])
             Kept(g, off) == Push(g, StoreOp(u.reg[off], off))
         IN  Kept(Kept(Kept(Push(u, step), ins.w), ins.m), ins.v)

(* Consecutive instructions on tensors of one length share a loop. *)
FuseNext(fused, ins) ==
  IF ins.op \notin FusableOps THEN Append(fused, Raw(ins))
  ELSE IF fused # <<>> /\ IsLoop(Last(fused), ins.len)
       THEN [fused EXCEPT ![Len(fused)] = Emit(@, ins)]
       ELSE Append(fused, Emit(NewLoop(ins.len), ins))

LoopFuser(instructions) ==
  LET fused[k \in 0 .. Len(instructions)] ==
        IF k = 0 THEN <<>> ELSE FuseNext(fused[k - 1], instructions[k])
  IN  fused[Len(instructions)]

-----------------------------------------------------------------------------
(* KernelFuser.  Loops of one length are merged, the registers of the next *)
(* one shifted; scalar Add and Mul instructions behind a loop are passed   *)
(* over, and lost.                                                         *)
Registers(op) ==
  IF op.op = "AdamWStep" THEN {op.w, op.g, op.m, op.v} ELSE {op.reg}

Shifted(op, by) ==
  CASE op.op \in {"Add", "Mul"} -> [op EXCEPT !.l = @ + by, !.r = @ + by, !.reg = @ + by]
    [] op.op = "AdamWStep" ->
         [op EXCEPT !.w = @ + by, !.g = @ + by, !.m = @ + by, !.v = @ + by]
    [] OTHER -> [op EXCEPT !.reg = @ + by]

Merged(loop, next) ==
  LET by == Max(UNION {Registers(loop.ops[k]) : k \in DOMAIN loop.ops}) + 1
  IN  [loop EXCEPT !.ops = @ \o [k \in DOMAIN next.ops |-> Shifted(next.ops[k], by)]]

MergeNext(fused, item) ==
  IF fused = <<>> \/ Last(fused).kind # "loop" THEN Append(fused, item)
  ELSE CASE IsLoop(item, Last(fused).len) -> [fused EXCEPT ![Len(fused)] = Merged(@, item)]
         [] item.kind = "raw" /\ item.ins.op \in {"Add", "Mul"} -> fused
         [] OTHER -> Append(fused, item)

KernelFuser(fused) ==
  LET merged[k \in 0 .. Len(fused)] ==
        IF k = 0 THEN <<>> ELSE MergeNext(merged[k - 1], fused[k])
  IN  merged[Len(fused)]
=============================================================================
