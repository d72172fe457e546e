---------------------------- MODULE NativeProofs -----------------------------
(***************************************************************************)
(* Theorems about Native, for any programs, buffers and numbers of         *)
(* threads: the threads of a loop do not race, native code stays inside    *)
(* its buffers, and a call of it that returns has done what the virtual    *)
(* machine does for the instructions that the compiler has code for.       *)
(*                                                                         *)
(* The first two rest on what the fusers make of a program: the operations *)
(* of a loop only name tensors of the loop's instructions.  The third is a *)
(* simulation.  Each item of the fused code stands for some consecutive    *)
(* instructions (Splits): a loop computes, in each element of its tensors, *)
(* what the instructions do there (Computes), which LoopFuser keeps true   *)
(* by its map from tensors to registers and KernelFuser by renumbering     *)
(* them.  The virtual machine's buffers after each instruction are a trace *)
(* (Traced), and the machine of Native follows it from item to item; in a  *)
(* loop, each element is as far on its way as its thread says (ElementsOf).*)
(***************************************************************************)
EXTENDS Native, FiniteSetTheorems, Recursion, TLAPS

LEMMA Fields ==
  ASSUME NEW i \in OpCode
  PROVE  /\ i.len \in Nat
         /\ i.op = "LoadVarVec" => i.var \in Nat /\ i.dst \in Nat
         /\ i.op = "StoreVec" => i.src \in Nat /\ i.out \in Nat
         /\ i.op \in {"AddVec", "MulVec"} => i.lhs \in Nat /\ i.rhs \in Nat /\ i.dst \in Nat
         /\ i.op \in VecOneOps => i.lhs \in Nat /\ i.dst \in Nat /\ i.val \in I16
         /\ i.op = "AdamWStep" => i.w \in Nat /\ i.g \in Nat /\ i.m \in Nat /\ i.v \in Nat
BY DEF OpCode, ScalarOps, VecBinOps, VecI8Ops, VecOneOps, StepOps

LEMMA InRange ==
  ASSUME NEW S, NEW p \in Seq(S), NEW i \in Range(p)
  PROVE  i \in S
BY DEF Range

-----------------------------------------------------------------------------
(* What the fusers make.  The map from offsets to registers, an operation  *)
(* on the tensors at offs, a loop, and an item of a fused program.         *)
Maps == UNION {[D -> Nat] : D \in SUBSET Nat}

OpsOn(offs) ==
  [op : {"Load"}, off : offs, reg : Nat]
    \union [op : {"LoadConst"}, val : I16, reg : Nat]
    \union [op : {"Add", "Mul"}, l : Nat, r : Nat, reg : Nat]
    \union [op : {"Store"}, off : offs, reg : Nat]
    \union [op : {"AdamWStep"}, w : Nat, g : Nat, m : Nat, v : Nat]

Fused(p, len) == {i \in Range(p) : i.op \in FusableOps /\ i.len = len}
Offsets(p, len) == UNION {Tensors(i) : i \in Fused(p, len)}

LoopOf(p, len) ==
  [kind : {"loop"}, len : {len}, ops : Seq(OpsOn(Offsets(p, len))), reg : Maps, next : Nat]

Items(p) ==
  [kind : {"raw"}, ins : Range(p)]
    \union {item \in UNION {LoopOf(p, len) : len \in Nat} : Len(item.ops) > 0}

LEMMA Recorded ==
  ASSUME NEW f \in Maps, NEW off \in Nat, NEW r \in Nat
  PROVE  /\ Inserted(f, off, r) \in Maps
         /\ DOMAIN Inserted(f, off, r) = {off} \union DOMAIN f
         /\ \A x \in DOMAIN f : f[x] \in Nat
<1>1. PICK D \in SUBSET Nat : f \in [D -> Nat]
  BY DEF Maps
<1>2. Inserted(f, off, r) \in [{off} \union D -> Nat] /\ {off} \union D \in SUBSET Nat
  BY <1>1 DEF Inserted
<1>3. QED
  BY <1>1, <1>2 DEF Maps

LEMMA OffsetsAreNat ==
  ASSUME NEW p \in Seq(OpCode), NEW len
  PROVE  Offsets(p, len) \subseteq Nat
<1>1. ASSUME NEW i \in Fused(p, len) PROVE Tensors(i) \subseteq Nat
  <2>1. i \in OpCode /\ i.op \in FusableOps
    BY InRange DEF Fused
  <2>2. CASE i.op \in {"AddVec", "MulVec"}
    BY <2>1, <2>2, Fields DEF Tensors
  <2>3. CASE i.op \in VecOneOps
    BY <2>1, <2>3, Fields DEF Tensors, VecOneOps
  <2>4. CASE i.op = "AdamWStep"
    BY <2>1, <2>4, Fields DEF Tensors, VecOneOps
  <2>5. QED
    BY <2>1, <2>2, <2>3, <2>4 DEF FusableOps
<1>2. QED
  BY <1>1 DEF Offsets

LEMMA PushTyped ==
  ASSUME NEW p, NEW len, NEW group \in LoopOf(p, len), NEW op \in OpsOn(Offsets(p, len))
  PROVE  /\ Push(group, op) \in LoopOf(p, len)
         /\ Len(Push(group, op).ops) > 0
         /\ Push(group, op).reg = group.reg /\ Push(group, op).next = group.next
BY DEF Push, LoopOf

LEMMA UseTyped ==
  ASSUME NEW p \in Seq(OpCode), NEW len, NEW group \in LoopOf(p, len),
         NEW off \in Offsets(p, len)
  PROVE  /\ Use(group, off) \in LoopOf(p, len)
         /\ off \in DOMAIN Use(group, off).reg
         /\ DOMAIN group.reg \subseteq DOMAIN Use(group, off).reg
<1>1. CASE off \in DOMAIN group.reg
  BY <1>1 DEF Use
<1>2. CASE off \notin DOMAIN group.reg
  <2> DEFINE u == Push(group, LoadOp(off, group.next))
             f == Inserted(group.reg, off, group.next)
  <2>1. group.reg \in Maps /\ group.next \in Nat /\ off \in Nat
    BY OffsetsAreNat DEF LoopOf
  <2>2. LoadOp(off, group.next) \in OpsOn(Offsets(p, len))
    BY <2>1 DEF LoadOp, OpsOn
  <2>3. u \in LoopOf(p, len) /\ u.reg = group.reg /\ u.next = group.next
    BY <2>2, PushTyped
  <2>4. f \in Maps /\ DOMAIN f = {off} \union DOMAIN group.reg
    BY <2>1, Recorded
  <2>5. Use(group, off) = [u EXCEPT !.reg = f, !.next = group.next + 1]
    BY <1>2, <2>3 DEF Use
  <2>6. QED
    <3> HIDE DEF u, f
    <3> DEFINE n == group.next + 1
    <3>1. n \in Nat
      BY <2>1
    <3> HIDE DEF n
    <3> DEFINE O == Seq(OpsOn(Offsets(p, len)))
               L == [kind : {"loop"}, len : {len}, ops : O, reg : Maps, next : Nat]
    <3>2. L = LoopOf(p, len)
      BY DEF LoopOf
    <3> HIDE DEF O
    <3>3. [u EXCEPT !.reg = f, !.next = n] \in L /\ [u EXCEPT !.reg = f, !.next = n].reg = f
      <4>1. u \in L /\ f \in Maps
        BY <2>3, <2>4, <3>2
      <4>2. QED
        BY <3>1, <4>1
    <3>4. Use(group, off) = [u EXCEPT !.reg = f, !.next = n]
      BY <2>5 DEF n
    <3> HIDE DEF L
    <3>5. QED
      BY <2>4, <3>2, <3>3, <3>4
<1>3. QED
  BY <1>1, <1>2

LEMMA RegisterTyped ==
  ASSUME NEW p, NEW len, NEW group \in LoopOf(p, len), NEW off \in DOMAIN group.reg
  PROVE  group.reg[off] \in Nat
<1>1. PICK D \in SUBSET Nat : group.reg \in [D -> Nat]
  BY DEF LoopOf, Maps
<1>2. QED
  BY <1>1

LEMMA IntoTyped ==
  ASSUME NEW p \in Seq(OpCode), NEW len, NEW group \in LoopOf(p, len),
         NEW i \in Fused(p, len), i.dst \in Tensors(i),
         NEW l \in Nat, NEW r \in Nat, NEW next \in Nat
  PROVE  Into(group, i, l, r, next) \in LoopOf(p, len) /\ Len(Into(group, i, l, r, next).ops) > 0
<1> DEFINE op == IF i.op \in Adds THEN "Add" ELSE "Mul"
           a  == Push(group, ArithOp(op, l, r, next))
           b  == Push(a, StoreOp(next, i.dst))
           f  == Inserted(b.reg, i.dst, next)
<1>1. i.dst \in Offsets(p, len) /\ i.dst \in Nat
  BY OffsetsAreNat DEF Offsets
<1>2. a \in LoopOf(p, len)
  <2>1. ArithOp(op, l, r, next) \in OpsOn(Offsets(p, len))
    BY DEF ArithOp, OpsOn
  <2>2. QED
    BY <2>1, PushTyped
<1>3. b \in LoopOf(p, len) /\ Len(b.ops) > 0
  <2>1. StoreOp(next, i.dst) \in OpsOn(Offsets(p, len))
    BY <1>1 DEF StoreOp, OpsOn
  <2> HIDE DEF a
  <2>2. QED
    BY <1>2, <2>1, PushTyped
<1>4. f \in Maps
  <2> HIDE DEF b
  <2>1. b.reg \in Maps
    BY <1>3 DEF LoopOf
  <2>2. QED
    BY <1>1, <2>1, Recorded
<1>5. Into(group, i, l, r, next) = [b EXCEPT !.reg = f, !.next = next + 1]
  BY DEF Into
<1>6. QED
  <2> HIDE DEF b, f
  <2> DEFINE n == next + 1
  <2>1. n \in Nat
    OBVIOUS
  <2> HIDE DEF n
  <2> DEFINE O == Seq(OpsOn(Offsets(p, len)))
             L == [kind : {"loop"}, len : {len}, ops : O, reg : Maps, next : Nat]
  <2>2. L = LoopOf(p, len)
    BY DEF LoopOf
  <2> HIDE DEF O
  <2>3. /\ [b EXCEPT !.reg = f, !.next = n] \in L
        /\ [b EXCEPT !.reg = f, !.next = n].ops = b.ops
    <3>1. b \in L /\ f \in Maps
      BY <1>3, <1>4, <2>2
    <3>2. QED
      BY <2>1, <3>1
  <2>4. Into(group, i, l, r, next) = [b EXCEPT !.reg = f, !.next = n]
    BY <1>5 DEF n
  <2> HIDE DEF L
  <2>5. QED
    BY <1>3, <2>2, <2>3, <2>4

LEMMA EmitTyped ==
  ASSUME NEW p \in Seq(OpCode), NEW len, NEW group \in LoopOf(p, len), NEW i \in Fused(p, len)
  PROVE  Emit(group, i) \in LoopOf(p, len) /\ Len(Emit(group, i).ops) > 0
<1>1. i \in OpCode /\ i.op \in FusableOps
  BY InRange DEF Fused
<1>2. \A off \in Tensors(i) : off \in Offsets(p, len)
  BY DEF Offsets
<1>3. CASE i.op \in {"AddVec", "MulVec"}
  <2> DEFINE a == Use(group, i.lhs)
             u == Use(a, i.rhs)
  <2>1. {i.lhs, i.rhs, i.dst} \subseteq Tensors(i)
    BY <1>3 DEF Tensors, VecOneOps
  <2>2. a \in LoopOf(p, len) /\ i.lhs \in DOMAIN a.reg
    BY <1>2, <2>1, UseTyped
  <2>3. u \in LoopOf(p, len) /\ i.lhs \in DOMAIN u.reg /\ i.rhs \in DOMAIN u.reg
    <3> HIDE DEF a
    <3>1. QED
      BY <1>2, <2>1, <2>2, UseTyped
  <2>4. Emit(group, i) = Into(u, i, u.reg[i.lhs], u.reg[i.rhs], u.next)
    BY <1>3 DEF Emit, VecOneOps
  <2> HIDE DEF u
  <2>5. u.reg[i.lhs] \in Nat /\ u.reg[i.rhs] \in Nat
    BY <2>3, RegisterTyped
  <2>6. u.next \in Nat
    BY <2>3 DEF LoopOf
  <2>7. QED
    BY <2>1, <2>3, <2>4, <2>5, <2>6, IntoTyped
<1>4. CASE i.op \in VecOneOps
  <2> DEFINE a == Use(group, i.lhs)
             u == Push(a, ConstOp(i.val, a.next))
  <2>1. {i.lhs, i.dst} \subseteq Tensors(i)
    BY <1>4 DEF Tensors, VecOneOps
  <2>2. a \in LoopOf(p, len) /\ i.lhs \in DOMAIN a.reg
    BY <1>2, <2>1, UseTyped
  <2>3. Emit(group, i) = Into(u, i, a.reg[i.lhs], a.next, a.next + 1)
    BY <1>4 DEF Emit, VecOneOps
  <2> HIDE DEF a
  <2>4. a.next \in Nat /\ a.next + 1 \in Nat /\ a.reg[i.lhs] \in Nat
    BY <2>2, RegisterTyped DEF LoopOf
  <2>5. u \in LoopOf(p, len)
    <3>1. ConstOp(i.val, a.next) \in OpsOn(Offsets(p, len))
      BY <1>1, <1>4, <2>4, Fields DEF ConstOp, OpsOn
    <3>2. QED
      BY <2>2, <3>1, PushTyped
  <2> HIDE DEF u
  <2>6. QED
    BY <2>1, <2>3, <2>4, <2>5, IntoTyped
<1>5. CASE i.op = "AdamWStep"
  <2> DEFINE a == Use(group, i.w)
             b == Use(a, i.g)
             c == Use(b, i.m)
             u == Use(c, i.v)
             s == Push(u, StepOp(u.reg[i.w], u.reg[i.g], u.reg[i.m], u.reg[i.v]))
             x == Push(s, StoreOp(u.reg[i.w], i.w))
             y == Push(x, StoreOp(u.reg[i.m], i.m))
             z == Push(y, StoreOp(u.reg[i.v], i.v))
  <2>1. {i.w, i.g, i.m, i.v} \subseteq Tensors(i)
    BY <1>5 DEF Tensors, VecOneOps
  <2>2. Emit(group, i) = z
    BY <1>5 DEF Emit, VecOneOps
  <2>3. a \in LoopOf(p, len) /\ i.w \in DOMAIN a.reg
    BY <1>2, <2>1, UseTyped
  <2> HIDE DEF a
  <2>4. b \in LoopOf(p, len) /\ {i.w, i.g} \subseteq DOMAIN b.reg
    BY <1>2, <2>1, <2>3, UseTyped
  <2> HIDE DEF b
  <2>5. c \in LoopOf(p, len) /\ {i.w, i.g, i.m} \subseteq DOMAIN c.reg
    BY <1>2, <2>1, <2>4, UseTyped
  <2> HIDE DEF c
  <2>6. u \in LoopOf(p, len) /\ {i.w, i.g, i.m, i.v} \subseteq DOMAIN u.reg
    BY <1>2, <2>1, <2>5, UseTyped
  <2> HIDE DEF u
  <2>7. \A off \in {i.w, i.g, i.m, i.v} : u.reg[off] \in Nat
    BY <2>6, RegisterTyped
  <2>8. s \in LoopOf(p, len)
    <3>1. StepOp(u.reg[i.w], u.reg[i.g], u.reg[i.m], u.reg[i.v]) \in OpsOn(Offsets(p, len))
      BY <2>7 DEF StepOp, OpsOn
    <3>2. QED
      BY <2>6, <3>1, PushTyped
  <2> HIDE DEF s
  <2>9. \A off \in {i.w, i.m, i.v} : StoreOp(u.reg[off], off) \in OpsOn(Offsets(p, len))
    BY <1>2, <2>1, <2>7 DEF StoreOp, OpsOn
  <2>10. x \in LoopOf(p, len)
    BY <2>8, <2>9, PushTyped
  <2> HIDE DEF x
  <2>11. y \in LoopOf(p, len)
    BY <2>9, <2>10, PushTyped
  <2> HIDE DEF y
  <2>12. z \in LoopOf(p, len) /\ Len(z.ops) > 0
    BY <2>9, <2>11, PushTyped
  <2>13. QED
    BY <2>2, <2>12
<1>6. QED
  BY <1>1, <1>3, <1>4, <1>5 DEF FusableOps
-----------------------------------------------------------------------------
(* The fusers. *)
LEMMA FuseNextTyped ==
  ASSUME NEW p \in Seq(OpCode), NEW f \in Seq(Items(p)), NEW i \in Range(p)
  PROVE  FuseNext(f, i) \in Seq(Items(p))
<1>1. i \in OpCode /\ i.len \in Nat
  BY InRange, Fields
<1>2. CASE i.op \notin FusableOps
  <2>1. Raw(i) \in Items(p)
    BY DEF Raw, Items
  <2> HIDE DEF Items
  <2>2. QED
    BY <1>2, <2>1 DEF FuseNext
<1>3. CASE i.op \in FusableOps /\ f # <<>> /\ IsLoop(Last(f), i.len)
  <2>1. Len(f) \in 1 .. Len(f) /\ f[Len(f)] \in Items(p)
    BY <1>3
  <2>2. f[Len(f)] \in LoopOf(p, i.len)
    BY <1>3, <2>1 DEF Items, LoopOf, IsLoop, Last
  <2>3. i \in Fused(p, i.len)
    BY <1>3 DEF Fused
  <2>4. Emit(f[Len(f)], i) \in Items(p)
    <3>1. Emit(f[Len(f)], i) \in LoopOf(p, i.len) /\ Len(Emit(f[Len(f)], i).ops) > 0
      BY <2>2, <2>3, EmitTyped
    <3>2. QED
      BY <1>1, <3>1 DEF Items
  <2>5. FuseNext(f, i) = [f EXCEPT ![Len(f)] = Emit(f[Len(f)], i)]
    BY <1>3 DEF FuseNext
  <2> HIDE DEF Items
  <2>6. QED
    BY <2>1, <2>4, <2>5
<1>4. CASE i.op \in FusableOps /\ ~(f # <<>> /\ IsLoop(Last(f), i.len))
  <2>1. NewLoop(i.len) \in LoopOf(p, i.len)
    <3>1. <<>> \in Maps
      BY DEF Maps
    <3>2. QED
      BY <3>1 DEF NewLoop, LoopOf
  <2>2. Emit(NewLoop(i.len), i) \in LoopOf(p, i.len) /\ Len(Emit(NewLoop(i.len), i).ops) > 0
    <3>1. i \in Fused(p, i.len)
      BY <1>4 DEF Fused
    <3>2. QED
      BY <2>1, <3>1, EmitTyped
  <2>3. Emit(NewLoop(i.len), i) \in Items(p)
    BY <1>1, <2>2 DEF Items
  <2>4. FuseNext(f, i) = Append(f, Emit(NewLoop(i.len), i))
    BY <1>4 DEF FuseNext
  <2> HIDE DEF Items
  <2>5. QED
    BY <2>3, <2>4
<1>5. QED
  BY <1>2, <1>3, <1>4

LEMMA LoopFuserIs ==
  ASSUME NEW p \in Seq(OpCode)
  PROVE  \E fused \in [0 .. Len(p) -> Seq(Items(p))] :
           /\ fused[0] = <<>>
           /\ \A k \in 1 .. Len(p) : fused[k] = FuseNext(fused[k - 1], p[k])
           /\ LoopFuser(p) = fused[Len(p)]
<1> DEFINE S == Seq(Items(p))
           n == Len(p)
           F(f) == [k \in 0 .. n |-> IF k = 0 THEN <<>> ELSE FuseNext(f[k - 1], p[k])]
           chosen == CHOOSE f : f = F(f)
           step == [x \in (1 .. n) \X S |-> FuseNext(x[2], p[x[1]])]
<1>1. n \in Nat /\ <<>> \in S /\ \A k \in 1 .. n : p[k] \in Range(p)
  BY DEF Range
<1>2. step \in [(1 .. n) \X S -> S]
  BY <1>1, FuseNextTyped
<1>3. PICK g \in [0 .. n -> S] : Solves(g, n, <<>>, step)
  <2> HIDE DEF S, step, n
  <2>1. QED
    BY <1>1, <1>2, SolutionExists
<1>4. \A k \in 1 .. n : g[k] = FuseNext(g[k - 1], p[k])
  <2>1. SUFFICES ASSUME NEW k \in 1 .. n PROVE g[k] = FuseNext(g[k - 1], p[k])
    OBVIOUS
  <2>2. k - 1 \in 0 .. n /\ g[k] = step[<<k, g[k - 1]>>]
    <3>1. k - 1 \in 0 .. n
      BY <1>1
    <3> HIDE DEF S, step
    <3>2. g[k] = step[<<k, g[k - 1]>>]
      BY <1>3 DEF Solves
    <3>3. QED
      BY <3>1, <3>2
  <2>3. g[k - 1] \in S
    BY <2>2
  <2> HIDE DEF S
  <2>4. <<k, g[k - 1]>> \in (1 .. n) \X S
    BY <2>3
  <2>5. step[<<k, g[k - 1]>>] = FuseNext(g[k - 1], p[k])
    BY <2>4
  <2>6. QED
    BY <2>2, <2>5
<1>5. g = F(g)
  <2> HIDE DEF S
  <2>1. g[0] = <<>>
    BY <1>3 DEF Solves
  <2>2. \A k \in 0 .. n : g[k] = IF k = 0 THEN <<>> ELSE FuseNext(g[k - 1], p[k])
    BY <1>1, <1>4, <2>1
  <2>3. QED
    BY <2>2
<1>6. chosen = F(chosen)
  BY <1>5
<1>7. LoopFuser(p) = chosen[n]
  BY DEF LoopFuser
<1> HIDE DEF chosen
<1>8. /\ chosen[0] = <<>>
      /\ \A k \in 1 .. n : chosen[k] = FuseNext(chosen[k - 1], p[k])
      /\ chosen = [k \in 0 .. n |-> chosen[k]]
  BY <1>1, <1>6
<1> DEFINE Good == {k \in Nat : k <= n => chosen[k] \in S}
<1>9. Nat \subseteq Good
  <2>1. 0 \in Good
    BY <1>1, <1>8
  <2>2. ASSUME NEW k \in Nat, k \in Good PROVE k + 1 \in Good
    <3>1. SUFFICES ASSUME k + 1 <= n PROVE chosen[k + 1] \in S
      OBVIOUS
    <3>2. k + 1 \in 1 .. n /\ (k + 1) - 1 = k /\ chosen[k] \in S
      BY <1>1, <2>2, <3>1
    <3>3. chosen[k + 1] = FuseNext(chosen[k], p[k + 1])
      BY <1>8, <3>2
    <3>4. QED
      BY <1>1, <3>2, <3>3, FuseNextTyped
  <2> HIDE DEF Good
  <2>3. QED
    BY <2>1, <2>2, SetInduction
<1>10. chosen \in [0 .. n -> S]
  <2> HIDE DEF S
  <2>1. \A k \in 0 .. n : chosen[k] \in S
    BY <1>1, <1>9
  <2>2. QED
    BY <1>8, <2>1
<1>11. QED
  BY <1>7, <1>8, <1>10
LEMMA ShiftedTyped ==
  ASSUME NEW offs, NEW op \in OpsOn(offs), NEW by \in Nat
  PROVE  Shifted(op, by) \in OpsOn(offs)
<1>1. CASE op.op \in {"Add", "Mul"}
  <2>1. op \in [op : {"Add", "Mul"}, l : Nat, r : Nat, reg : Nat]
    BY <1>1 DEF OpsOn
  <2> DEFINE l == op.l + by
             r == op.r + by
             d == op.reg + by
  <2>2. Shifted(op, by) = [op EXCEPT !.l = l, !.r = r, !.reg = d]
    BY <1>1 DEF Shifted
  <2>3. l \in Nat /\ r \in Nat /\ d \in Nat
    BY <2>1
  <2>4. Shifted(op, by) \in [op : {"Add", "Mul"}, l : Nat, r : Nat, reg : Nat]
    <3> HIDE DEF l, r, d
    <3>1. QED
      BY <2>1, <2>2, <2>3
  <2>5. QED
    BY <2>4 DEF OpsOn
<1>2. CASE op.op = "AdamWStep"
  <2>1. op \in [op : {"AdamWStep"}, w : Nat, g : Nat, m : Nat, v : Nat]
    BY <1>2 DEF OpsOn
  <2> DEFINE w == op.w + by
             g == op.g + by
             m == op.m + by
             v == op.v + by
  <2>2. Shifted(op, by) = [op EXCEPT !.w = w, !.g = g, !.m = m, !.v = v]
    BY <1>2 DEF Shifted
  <2>3. w \in Nat /\ g \in Nat /\ m \in Nat /\ v \in Nat
    BY <2>1
  <2>4. Shifted(op, by) \in [op : {"AdamWStep"}, w : Nat, g : Nat, m : Nat, v : Nat]
    <3> HIDE DEF w, g, m, v
    <3>1. QED
      BY <2>1, <2>2, <2>3
  <2>5. QED
    BY <2>4 DEF OpsOn
<1>3. CASE op.op \in {"Load", "LoadConst", "Store"}
  <2>1. Shifted(op, by) = [op EXCEPT !.reg = op.reg + by]
    BY <1>3 DEF Shifted
  <2>2. op.reg + by \in Nat
    BY <1>3 DEF OpsOn
  <2>3. CASE op.op = "LoadConst"
    <3>1. op \in [op : {"LoadConst"}, val : I16, reg : Nat]
      BY <2>3 DEF OpsOn
    <3>2. Shifted(op, by) \in [op : {"LoadConst"}, val : I16, reg : Nat]
      BY <2>1, <2>2, <3>1
    <3>3. QED
      BY <3>2 DEF OpsOn
  <2>4. CASE op.op = "Load"
    <3>1. op \in [op : {"Load"}, off : offs, reg : Nat]
      BY <2>4 DEF OpsOn
    <3>2. Shifted(op, by) \in [op : {"Load"}, off : offs, reg : Nat]
      BY <2>1, <2>2, <3>1
    <3>3. QED
      BY <3>2 DEF OpsOn
  <2>5. CASE op.op = "Store"
    <3>1. op \in [op : {"Store"}, off : offs, reg : Nat]
      BY <2>5 DEF OpsOn
    <3>2. Shifted(op, by) \in [op : {"Store"}, off : offs, reg : Nat]
      BY <2>1, <2>2, <3>1
    <3>3. QED
      BY <3>2 DEF OpsOn
  <2>6. QED
    BY <1>3, <2>3, <2>4, <2>5
<1>4. op.op \in {"Load", "LoadConst", "Add", "Mul", "Store", "AdamWStep"}
  BY DEF OpsOn
<1>5. QED
  BY <1>1, <1>2, <1>3, <1>4

(* The registers of a loop have a greatest one. *)
LEMMA HighestRegister ==
  ASSUME NEW offs, NEW ops \in Seq(OpsOn(offs)), Len(ops) > 0
  PROVE  /\ Max(UNION {Registers(ops[k]) : k \in DOMAIN ops}) \in Nat
         /\ \A k \in 1 .. Len(ops) : \A r \in Registers(ops[k]) :
              r \in Nat /\ r <= Max(UNION {Registers(ops[j]) : j \in DOMAIN ops})
<1> DEFINE Top(op) == IF op.op = "AdamWStep" THEN op.w + op.g + op.m + op.v ELSE op.reg
           top == [k \in 1 .. Len(ops) |-> Top(ops[k])]
           R == UNION {Registers(ops[k]) : k \in DOMAIN ops}
<1>1. ASSUME NEW k \in 1 .. Len(ops)
      PROVE  /\ top[k] \in Nat /\ Registers(ops[k]) \subseteq Nat /\ Registers(ops[k]) # {}
             /\ \A r \in Registers(ops[k]) : r <= top[k]
  <2>1. ops[k] \in OpsOn(offs) /\ top[k] = Top(ops[k])
    OBVIOUS
  <2>2. CASE ops[k].op = "AdamWStep"
    <3>1. ops[k] \in [op : {"AdamWStep"}, w : Nat, g : Nat, m : Nat, v : Nat]
      BY <2>1, <2>2 DEF OpsOn
    <3>2. Registers(ops[k]) = {ops[k].w, ops[k].g, ops[k].m, ops[k].v}
      BY <2>2 DEF Registers
    <3>3. QED
      BY <2>1, <2>2, <3>1, <3>2
  <2>3. CASE ops[k].op # "AdamWStep"
    <3>1. ops[k].reg \in Nat
      BY <2>1, <2>3 DEF OpsOn
    <3>2. Registers(ops[k]) = {ops[k].reg}
      BY <2>3 DEF Registers
    <3>3. QED
      BY <2>1, <2>3, <3>1, <3>2
  <2>4. QED
    BY <2>2, <2>3
<1>2. Len(ops) \in Nat /\ DOMAIN ops = 1 .. Len(ops) /\ 1 \in 1 .. Len(ops)
  OBVIOUS
<1> HIDE DEF top
<1>3. PICK B \in Nat : \A k \in 1 .. Len(ops) : top[k] <= B
  BY <1>1, <1>2, Bounded
<1>4. R \subseteq Nat /\ R # {}
  BY <1>1, <1>2
<1>5. \A r \in R : r <= B
  <2>1. SUFFICES ASSUME NEW k \in 1 .. Len(ops), NEW r \in Registers(ops[k]) PROVE r <= B
    BY <1>2
  <2>2. r \in Nat /\ r <= top[k] /\ top[k] <= B /\ top[k] \in Nat
    BY <1>1, <1>3
  <2>3. QED
    BY <2>2
<1> HIDE DEF R
<1>6. Max(R) \in R /\ \A r \in R : r <= Max(R)
  <2>1. R \subseteq Int /\ B \in Int
    BY <1>4
  <2>2. QED
    BY <1>4, <1>5, <2>1, MaxOf
<1>7. \A k \in 1 .. Len(ops) : Registers(ops[k]) \subseteq R
  BY <1>2 DEF R
<1>8. Max(R) \in Nat /\ \A k \in 1 .. Len(ops) : \A r \in Registers(ops[k]) : r \in Nat /\ r <= Max(R)
  BY <1>4, <1>6, <1>7
<1>9. QED
  BY <1>8 DEF R

LEMMA MergedTyped ==
  ASSUME NEW p, NEW len, NEW a \in LoopOf(p, len), NEW b \in LoopOf(p, len),
         Len(a.ops) > 0
  PROVE  Merged(a, b) \in LoopOf(p, len) /\ Len(Merged(a, b).ops) > 0
<1> DEFINE O == OpsOn(Offsets(p, len))
           by == Max(UNION {Registers(a.ops[k]) : k \in DOMAIN a.ops}) + 1
           moved == [k \in DOMAIN b.ops |-> Shifted(b.ops[k], by)]
           L == [kind : {"loop"}, len : {len}, ops : Seq(O), reg : Maps, next : Nat]
<1>1. a \in L /\ b \in L
  BY DEF LoopOf
<1>2. a.ops \in Seq(O) /\ b.ops \in Seq(O)
  BY <1>1
<1>3. by \in Nat
  <2>1. Max(UNION {Registers(a.ops[k]) : k \in DOMAIN a.ops}) \in Nat
    BY <1>2, HighestRegister
  <2>2. QED
    BY <2>1
<1> HIDE DEF by
<1>4. moved \in Seq(O)
  <2>1. \A k \in DOMAIN b.ops : b.ops[k] \in O
    BY <1>2
  <2>2. \A k \in DOMAIN b.ops : Shifted(b.ops[k], by) \in O
    BY <1>3, <2>1, ShiftedTyped
  <2>3. DOMAIN b.ops = 1 .. Len(b.ops) /\ Len(b.ops) \in Nat
    BY <1>2
  <2> HIDE DEF O
  <2>4. QED
    BY <2>2, <2>3
<1> HIDE DEF moved, O
<1>5. a.ops \o moved \in Seq(O) /\ Len(a.ops \o moved) > 0
  BY <1>2, <1>4
<1>6. Merged(a, b) = [a EXCEPT !.ops = a.ops \o moved]
  BY DEF Merged, moved, by
<1>7. Merged(a, b) \in L /\ Merged(a, b).ops = a.ops \o moved
  <2> DEFINE s == a.ops \o moved
  <2>1. s \in Seq(O)
    BY <1>5
  <2> HIDE DEF s
  <2>2. [a EXCEPT !.ops = s] \in L /\ [a EXCEPT !.ops = s].ops = s
    BY <1>1, <2>1
  <2>3. QED
    BY <1>6, <2>2 DEF s
<1>8. QED
  BY <1>5, <1>7 DEF LoopOf, O

LEMMA MergeNextTyped ==
  ASSUME NEW p, NEW f \in Seq(Items(p)), NEW item \in Items(p)
  PROVE  MergeNext(f, item) \in Seq(Items(p))
<1>1. Append(f, item) \in Seq(Items(p))
  BY DEF Items
<1>2. CASE f # <<>> /\ Last(f).kind = "loop" /\ IsLoop(item, Last(f).len)
  <2>1. Len(f) \in 1 .. Len(f) /\ f[Len(f)] \in Items(p)
    <3> HIDE DEF Items
    <3>1. QED
      BY <1>2
  <2>2. PICK len \in Nat : f[Len(f)] \in LoopOf(p, len) /\ Len(f[Len(f)].ops) > 0
    BY <1>2, <2>1 DEF Items, Last
  <2>3. item \in LoopOf(p, len)
    BY <1>2, <2>2 DEF Items, LoopOf, Last, IsLoop
  <2>4. Merged(f[Len(f)], item) \in Items(p)
    <3>1. Merged(f[Len(f)], item) \in LoopOf(p, len) /\ Len(Merged(f[Len(f)], item).ops) > 0
      BY <2>2, <2>3, MergedTyped
    <3>2. QED
      BY <3>1 DEF Items
  <2>5. MergeNext(f, item) = [f EXCEPT ![Len(f)] = Merged(f[Len(f)], item)]
    BY <1>2 DEF MergeNext, IsLoop
  <2> HIDE DEF Items
  <2>6. QED
    BY <2>1, <2>4, <2>5
<1>3. CASE ~(f # <<>> /\ Last(f).kind = "loop" /\ IsLoop(item, Last(f).len))
  <2>1. MergeNext(f, item) = Append(f, item) \/ MergeNext(f, item) = f
    BY <1>3 DEF MergeNext
  <2>2. QED
    BY <1>1, <2>1
<1>4. QED
  BY <1>2, <1>3

LEMMA KernelFuserIs ==
  ASSUME NEW p, NEW items \in Seq(Items(p))
  PROVE  \E merged \in [0 .. Len(items) -> Seq(Items(p))] :
           /\ merged[0] = <<>>
           /\ \A k \in 1 .. Len(items) : merged[k] = MergeNext(merged[k - 1], items[k])
           /\ KernelFuser(items) = merged[Len(items)]
<1> DEFINE S == Seq(Items(p))
           n == Len(items)
           F(f) == [k \in 0 .. n |-> IF k = 0 THEN <<>> ELSE MergeNext(f[k - 1], items[k])]
           chosen == CHOOSE f : f = F(f)
           step == [x \in (1 .. n) \X S |-> MergeNext(x[2], items[x[1]])]
<1>1. n \in Nat /\ <<>> \in S /\ \A k \in 1 .. n : items[k] \in Items(p)
  <2> HIDE DEF Items
  <2>1. QED
    OBVIOUS
<1>2. step \in [(1 .. n) \X S -> S]
  BY <1>1, MergeNextTyped
<1>3. PICK g \in [0 .. n -> S] : Solves(g, n, <<>>, step)
  <2> HIDE DEF S, step, n
  <2>1. QED
    BY <1>1, <1>2, SolutionExists
<1>4. \A k \in 1 .. n : g[k] = MergeNext(g[k - 1], items[k])
  <2>1. SUFFICES ASSUME NEW k \in 1 .. n PROVE g[k] = MergeNext(g[k - 1], items[k])
    OBVIOUS
  <2>2. k - 1 \in 0 .. n /\ g[k] = step[<<k, g[k - 1]>>]
    <3>1. k - 1 \in 0 .. n
      BY <1>1
    <3> HIDE DEF S, step
    <3>2. g[k] = step[<<k, g[k - 1]>>]
      BY <1>3 DEF Solves
    <3>3. QED
      BY <3>1, <3>2
  <2>3. g[k - 1] \in S
    BY <2>2
  <2> HIDE DEF S
  <2>4. <<k, g[k - 1]>> \in (1 .. n) \X S
    BY <2>3
  <2>5. step[<<k, g[k - 1]>>] = MergeNext(g[k - 1], items[k])
    BY <2>4
  <2>6. QED
    BY <2>2, <2>5
<1>5. g = F(g)
  <2> HIDE DEF S
  <2>1. g[0] = <<>>
    BY <1>3 DEF Solves
  <2>2. \A k \in 0 .. n : g[k] = IF k = 0 THEN <<>> ELSE MergeNext(g[k - 1], items[k])
    BY <1>1, <1>4, <2>1
  <2>3. QED
    BY <2>2
<1>6. chosen = F(chosen)
  BY <1>5
<1>7. KernelFuser(items) = chosen[n]
  BY DEF KernelFuser
<1> HIDE DEF chosen
<1>8. /\ chosen[0] = <<>>
      /\ \A k \in 1 .. n : chosen[k] = MergeNext(chosen[k - 1], items[k])
      /\ chosen = [k \in 0 .. n |-> chosen[k]]
  BY <1>1, <1>6
<1> DEFINE Good == {k \in Nat : k <= n => chosen[k] \in S}
<1>9. Nat \subseteq Good
  <2>1. 0 \in Good
    BY <1>1, <1>8
  <2>2. ASSUME NEW k \in Nat, k \in Good PROVE k + 1 \in Good
    <3>1. SUFFICES ASSUME k + 1 <= n PROVE chosen[k + 1] \in S
      OBVIOUS
    <3>2. k + 1 \in 1 .. n /\ (k + 1) - 1 = k /\ chosen[k] \in S
      BY <1>1, <2>2, <3>1
    <3>3. chosen[k + 1] = MergeNext(chosen[k], items[k + 1])
      BY <1>8, <3>2
    <3>4. QED
      BY <1>1, <3>2, <3>3, MergeNextTyped
  <2> HIDE DEF Good
  <2>3. QED
    BY <2>1, <2>2, SetInduction
<1>10. chosen \in [0 .. n -> S]
  <2> HIDE DEF S
  <2>1. \A k \in 0 .. n : chosen[k] \in S
    BY <1>1, <1>9
  <2>2. QED
    BY <1>8, <2>1
<1>11. QED
  BY <1>7, <1>8, <1>10

LEMMA CompiledIs ==
  ASSUME NEW p \in Seq(OpCode)
  PROVE  LoopFuser(p) \in Seq(Items(p)) /\ KernelFuser(LoopFuser(p)) \in Seq(Items(p))
<1>1. LoopFuser(p) \in Seq(Items(p))
  <2>1. Len(p) \in 0 .. Len(p)
    OBVIOUS
  <2>2. QED
    BY <2>1, LoopFuserIs
<1>2. Len(LoopFuser(p)) \in 0 .. Len(LoopFuser(p))
  <2> HIDE DEF Items
  <2>1. QED
    BY <1>1
<1>3. KernelFuser(LoopFuser(p)) \in Seq(Items(p))
  BY <1>1, <1>2, KernelFuserIs
<1>4. QED
  BY <1>1, <1>3
-----------------------------------------------------------------------------
(* Arrays, and the size of the scratchpad. *)
Array(a) == \E n \in Nat : DOMAIN a = 0 .. n - 1

LEMMA SizeOfArray ==
  ASSUME NEW a, NEW n \in Nat, DOMAIN a = 0 .. n - 1
  PROVE  Size(a) = n
<1>1. Cardinality(0 .. n - 1) = IF 0 > n - 1 THEN 0 ELSE (n - 1) - 0 + 1
  BY FS_Interval
<1>2. QED
  BY <1>1 DEF Size

LEMMA PlanEndIsNat ==
  ASSUME NEW i \in OpCode
  PROVE  PlanEnd(i) \in Nat
<1>1. ASSUME NEW x \in Nat, NEW y \in Nat, NEW z \in Nat
      PROVE  Max({x, y, z}) \in Nat /\ Max({x, y}) \in Nat
  <2>1. x + y + z \in Int /\ \A u \in {x, y, z} : u <= x + y + z
    OBVIOUS
  <2>2. {x, y, z} \subseteq Int /\ {x, y} \subseteq Int /\ {x, y, z} # {} /\ {x, y} # {}
    OBVIOUS
  <2>3. Max({x, y, z}) \in {x, y, z}
    BY <2>1, <2>2, MaxOf
  <2>4. Max({x, y}) \in {x, y}
    <3>1. \A u \in {x, y} : u <= x + y + z
      BY <2>1
    <3>2. QED
      BY <2>1, <2>2, <3>1, MaxOf
  <2>5. QED
    BY <2>3, <2>4
<1>2. i.len \in Nat
  BY Fields
<1>3. CASE i.op = "LoadVarVec"
  BY <1>2, <1>3, Fields DEF PlanEnd, VecOneOps
<1>4. CASE i.op = "StoreVec"
  BY <1>2, <1>4, Fields DEF PlanEnd, VecOneOps
<1>5. CASE i.op \in {"AddVec", "MulVec"}
  <2>1. Max({i.lhs, i.rhs, i.dst}) \in Nat
    BY <1>1, <1>5, Fields
  <2>2. PlanEnd(i) = Max({i.lhs, i.rhs, i.dst}) + i.len
    BY <1>5 DEF PlanEnd, VecOneOps
  <2>3. QED
    BY <1>2, <2>1, <2>2
<1>6. CASE i.op \in VecOneOps
  <2>1. Max({i.lhs, i.dst}) \in Nat
    BY <1>1, <1>6, Fields
  <2>2. PlanEnd(i) = Max({i.lhs, i.dst}) + i.len
    BY <1>6 DEF PlanEnd, VecOneOps
  <2>3. QED
    BY <1>2, <2>1, <2>2
<1>7. CASE i.op \notin {"LoadVarVec", "StoreVec", "AddVec", "MulVec"} \union VecOneOps
  BY <1>7 DEF PlanEnd
<1>8. QED
  BY <1>3, <1>4, <1>5, <1>6, <1>7

LEMMA PlanIsNat ==
  ASSUME NEW p \in Seq(OpCode)
  PROVE  /\ Plan(p).memory_size \in Nat
         /\ \A i \in Range(p) : PlanEnd(i) <= Plan(p).memory_size
<1> DEFINE ends == [k \in 1 .. Len(p) |-> PlanEnd(p[k])]
           E == {0} \union {PlanEnd(p[k]) : k \in DOMAIN p}
<1>1. Len(p) \in Nat /\ DOMAIN p = 1 .. Len(p)
  OBVIOUS
<1>2. \A k \in 1 .. Len(p) : PlanEnd(p[k]) \in Nat /\ ends[k] = PlanEnd(p[k])
  BY PlanEndIsNat
<1>3. PICK B \in Nat : \A k \in 1 .. Len(p) : ends[k] <= B
  <2> HIDE DEF ends
  <2>1. QED
    BY <1>1, <1>2, Bounded
<1>4. E \subseteq Nat /\ E # {} /\ \A x \in E : x <= B
  <2> HIDE DEF ends
  <2>1. QED
    BY <1>1, <1>2, <1>3
<1>5. Max(E) \in E /\ \A x \in E : x <= Max(E)
  <2> HIDE DEF E
  <2>1. E \subseteq Int /\ B \in Int
    BY <1>4
  <2>2. QED
    BY <1>4, <2>1, MaxOf
<1>6. Plan(p).memory_size = Max(E)
  BY DEF Plan
<1>7. \A i \in Range(p) : PlanEnd(i) \in E
  BY DEF Range
<1>8. QED
  <2> HIDE DEF E
  <2>1. QED
    BY <1>4, <1>5, <1>6, <1>7

(* What the planner counts: where a load puts its tensor, where a store    *)
(* finds it, and the tensors of vector arithmetic.                         *)
LEMMA PlanEndCovers ==
  ASSUME NEW i \in OpCode, NEW off,
         \/ i.op = "LoadVarVec" /\ off = i.dst
         \/ i.op = "StoreVec" /\ off = i.src
         \/ i.op \in FusableOps \ {"AdamWStep"} /\ off \in Tensors(i)
  PROVE  off \in Nat /\ off + i.len <= PlanEnd(i)
<1>1. i.len \in Nat
  BY Fields
<1>2. CASE i.op = "LoadVarVec" /\ off = i.dst
  BY <1>1, <1>2, Fields DEF PlanEnd, VecOneOps
<1>3. CASE i.op = "StoreVec" /\ off = i.src
  BY <1>1, <1>3, Fields DEF PlanEnd, VecOneOps
<1>4. ASSUME NEW S, S # {}, S \subseteq Nat, NEW B \in Nat, \A x \in S : x <= B, off \in S,
             PlanEnd(i) = Max(S) + i.len
      PROVE  off \in Nat /\ off + i.len <= PlanEnd(i)
  <2>1. Max(S) \in S /\ \A x \in S : x <= Max(S)
    <3>1. S \subseteq Int /\ B \in Int
      BY <1>4
    <3>2. QED
      BY <1>4, <3>1, MaxOf
  <2>2. off \in Nat /\ Max(S) \in Nat /\ off <= Max(S)
    BY <1>4, <2>1
  <2>3. QED
    BY <1>1, <1>4, <2>2
<1>5. CASE i.op \in {"AddVec", "MulVec"} /\ off \in Tensors(i)
  <2> DEFINE S == {i.lhs, i.rhs, i.dst}
  <2>1. off \in S /\ PlanEnd(i) = Max(S) + i.len
    BY <1>5 DEF Tensors, PlanEnd, VecOneOps
  <2>2. i.lhs \in Nat /\ i.rhs \in Nat /\ i.dst \in Nat
    BY <1>5, Fields
  <2>3. /\ S # {} /\ S \subseteq Nat /\ i.lhs + i.rhs + i.dst \in Nat
        /\ \A x \in S : x <= i.lhs + i.rhs + i.dst
    BY <2>2
  <2> HIDE DEF S
  <2>4. QED
    BY <1>4, <2>1, <2>3
<1>6. CASE i.op \in VecOneOps /\ off \in Tensors(i)
  <2> DEFINE S == {i.lhs, i.dst}
  <2>1. off \in S /\ PlanEnd(i) = Max(S) + i.len
    BY <1>6 DEF Tensors, PlanEnd, VecOneOps
  <2>2. i.lhs \in Nat /\ i.dst \in Nat
    BY <1>6, Fields
  <2>3. S # {} /\ S \subseteq Nat /\ i.lhs + i.dst \in Nat /\ \A x \in S : x <= i.lhs + i.dst
    BY <2>2
  <2> HIDE DEF S
  <2>4. QED
    BY <1>4, <2>1, <2>3
<1>7. QED
  BY <1>2, <1>3, <1>5, <1>6 DEF FusableOps

-----------------------------------------------------------------------------
(* The machine.  The threads of a loop are at an operation of it, each     *)
(* behind its start, and what ends a run astray is a raw instruction whose *)
(* arrays do not fit, or a thread at a cell that is not there.             *)
Astray(t) ==
  /\ workers[t].i < End(t, code[pc].len)
  /\ OpOf(t).op \in MemOps /\ CellOf(t) \notin DOMAIN memory

WorkersInv ==
  \/ workers = <<>>
  \/ /\ status \in {"running", "undefined"}
     /\ pc <= Len(code) /\ code[pc].kind = "loop"
     /\ DOMAIN workers = Threads
     /\ \A t \in Threads :
          /\ DOMAIN workers[t] = {"i", "k", "regs"}
          /\ workers[t].i \in Nat /\ Start(t, code[pc].len) <= workers[t].i
          /\ workers[t].k \in 1 .. Len(code[pc].ops)

UndefinedCause ==
  status = "undefined" =>
    /\ pc <= Len(code)
    /\ \/ code[pc].kind = "raw" /\ code[pc].ins.op \in RawOps /\ ~RawFits(code[pc].ins)
       \/ code[pc].kind = "loop" /\ \E t \in DOMAIN workers : Astray(t)

MachineInv ==
  /\ program \in Seq(OpCode) /\ backend \in {"jit", "aot"} /\ parallelism \in Nat \ {0}
  /\ code \in Seq(Items(program)) /\ pc \in Nat \ {0}
  /\ Array(inputs) /\ Array(memory) /\ Array(outputs)
  /\ WorkersInv /\ UndefinedCause

(* The parts of the invariant that an operation may disturb.               *)
LEMMA KeepsMachine ==
  ASSUME MachineInv, UNCHANGED source, code' \in Seq(Items(program)), pc' \in Nat \ {0},
         Array(inputs'), Array(memory'), Array(outputs'), WorkersInv', UndefinedCause'
  PROVE  MachineInv'
<1>1. program' = program /\ backend' = backend /\ parallelism' = parallelism
  BY DEF source
<1>2. Items(program)' = Items(program)
  <2> HIDE DEF Items
  <2>1. QED
    BY <1>1
<1>3. program' \in Seq(OpCode) /\ backend' \in {"jit", "aot"} /\ parallelism' \in Nat \ {0}
  BY <1>1 DEF MachineInv
<1>4. code' \in Seq(Items(program))'
  BY <1>2
<1>5. Array(inputs)' /\ Array(memory)' /\ Array(outputs)'
  BY DEF Array
<1>6. QED
  <2> HIDE DEF Items, WorkersInv, UndefinedCause, Array
  <2>1. QED
    BY <1>3, <1>4, <1>5 DEF MachineInv

(* Between two loops there are no threads. *)
LEMMA AloneAndWell ==
  ASSUME workers' = <<>>, status' # "undefined"
  PROVE  WorkersInv' /\ UndefinedCause'
BY DEF WorkersInv, UndefinedCause

LEMMA Parts ==
  ASSUME MachineInv
  PROVE  /\ code \in Seq(Items(program)) /\ pc \in Nat \ {0}
         /\ Array(inputs) /\ Array(memory) /\ Array(outputs)
BY DEF MachineInv

LEMMA InitMachine == Init => MachineInv
<1>1. SUFFICES ASSUME Init PROVE MachineInv
  OBVIOUS
<1>2. program \in Seq(OpCode) /\ backend \in {"jit", "aot"} /\ parallelism \in Nat \ {0}
  BY <1>1, NativeAssumption DEF Init
<1>3. Array(<<>>)
  <2>1. DOMAIN <<>> = 0 .. 0 - 1
    OBVIOUS
  <2>2. QED
    BY <2>1 DEF Array
<1>4. Array(memory)
  <2>1. memory = Zeros(Plan(program).memory_size) /\ Plan(program).memory_size \in Nat
    BY <1>1, <1>2, PlanIsNat DEF Init
  <2>2. QED
    BY <2>1 DEF Array, Zeros
<1>5. QED
  BY <1>1, <1>2, <1>3, <1>4 DEF Init, MachineInv, WorkersInv, UndefinedCause

LEMMA CompileKeeps == MachineInv /\ Compile => MachineInv'
<1>1. SUFFICES ASSUME MachineInv, Compile PROVE MachineInv'
  OBVIOUS
<1>2. code' \in Seq(Items(program))
  BY <1>1, CompiledIs DEF MachineInv, Compile
<1>3. program' = program /\ status' \in {"ready", "rejected"} /\ workers = <<>> /\ workers' = workers
  BY <1>1 DEF MachineInv, Compile, source, WorkersInv
<1>4. WorkersInv' /\ UndefinedCause'
  BY <1>3, AloneAndWell
<1>5. UNCHANGED <<source, pc, inputs, memory, outputs>>
  BY <1>1 DEF Compile
<1>6. QED
  BY <1>1, <1>2, <1>4, <1>5, Parts, KeepsMachine

LEMMA CallKeeps == MachineInv /\ Call => MachineInv'
<1>1. SUFFICES ASSUME MachineInv, Call PROVE MachineInv'
  OBVIOUS
<1>2. Array(inputs')
  <2>1. inputs' \in InputSet
    BY <1>1 DEF Call
  <2>2. DOMAIN inputs' = 0 .. Size(inputs') - 1 /\ Size(inputs') \in Nat
    BY <2>1, NativeAssumption, FS_CardinalityType DEF Size
  <2>3. QED
    BY <2>2 DEF Array
<1>3. Array(outputs')
  <2>1. PICK n \in OutputLens : outputs' = Resize(outputs, n)
    BY <1>1 DEF Call
  <2>2. QED
    BY <2>1, NativeAssumption DEF Array, Resize
<1>4. status' = "running" /\ workers = <<>> /\ workers' = <<>>
  BY <1>1 DEF MachineInv, Call, WorkersInv
<1>5. WorkersInv' /\ UndefinedCause'
  BY <1>4, AloneAndWell
<1>6. UNCHANGED <<source, code, memory>> /\ pc' = 1
  BY <1>1 DEF Call
<1>7. QED
  BY <1>1, <1>2, <1>3, <1>5, <1>6, Parts, KeepsMachine

LEMMA ReturnKeeps == MachineInv /\ Return => MachineInv'
<1>1. SUFFICES ASSUME MachineInv, Return PROVE MachineInv'
  OBVIOUS
<1>2. workers = <<>>
  <2>1. pc \in Nat /\ Len(code) \in Nat /\ ~(pc <= Len(code))
    BY <1>1 DEF MachineInv, Return
  <2>2. QED
    BY <1>1, <2>1 DEF MachineInv, WorkersInv
<1>3. UNCHANGED <<source, code, pc, workers, inputs, memory, outputs>> /\ status' = "ok"
  BY <1>1 DEF Return
<1>4. WorkersInv' /\ UndefinedCause'
  BY <1>2, <1>3, AloneAndWell
<1>5. QED
  BY <1>1, <1>3, <1>4, Parts, KeepsMachine

LEMMA RawEffectKeepsSizes ==
  ASSUME NEW i, i.op \in {"LoadVarVec", "StoreVec"}
  PROVE  DOMAIN RawEffect(i).i16 = DOMAIN memory /\ DOMAIN RawEffect(i).out = DOMAIN outputs
<1> DEFINE x == [i EXCEPT !.len = Count(@)]
           p == [i16 |-> memory, out |-> outputs]
<1>1. RawEffect(i) = Effect(x, p, inputs) /\ x.op = i.op
  BY DEF RawEffect
<1> HIDE DEF x
<1>2. CASE i.op = "LoadVarVec"
  <2>1. Effect(x, p, inputs) = [p EXCEPT !.i16 = Copy(@, x.dst, Slice(inputs, x.var, x.len))]
    BY <1>1, <1>2 DEF Effect, ScalarOps, VecBinOps, VecOneOps, VecI8Ops, StepOps
  <2>2. QED
    BY <1>1, <2>1 DEF Copy
<1>3. CASE i.op = "StoreVec"
  <2>1. Effect(x, p, inputs) = [p EXCEPT !.out = Copy(@, x.out, Slice(p.i16, x.src, x.len))]
    BY <1>1, <1>3 DEF Effect, ScalarOps, VecBinOps, VecOneOps, VecI8Ops, StepOps
  <2>2. QED
    BY <1>1, <2>1 DEF Copy
<1>4. QED
  BY <1>2, <1>3

LEMMA RawKeeps == MachineInv /\ RawInstruction => MachineInv'
<1>1. SUFFICES ASSUME MachineInv, RawInstruction PROVE MachineInv'
  OBVIOUS
<1>2. workers = <<>> /\ workers' = <<>>
  BY <1>1 DEF MachineInv, RawInstruction, AtRaw, WorkersInv
<1>3. CASE RawFits(code[pc].ins)
  <2> DEFINE i == code[pc].ins
  <2>1. i.op \in {"LoadVarVec", "StoreVec"}
    BY <1>1 DEF RawInstruction, RawOps
  <2>2. /\ memory' = RawEffect(i).i16 /\ outputs' = RawEffect(i).out
        /\ pc' = pc + 1 /\ status' = "running"
    BY <1>1, <1>3 DEF RawInstruction, AtRaw
  <2> HIDE DEF i
  <2>3. DOMAIN memory' = DOMAIN memory /\ DOMAIN outputs' = DOMAIN outputs
    BY <2>1, <2>2, RawEffectKeepsSizes
  <2>4. Array(memory') /\ Array(outputs')
    BY <1>1, <2>3 DEF MachineInv, Array
  <2>5. WorkersInv' /\ UndefinedCause'
    BY <1>2, <2>2, AloneAndWell
  <2>6. UNCHANGED <<source, code, inputs>>
    BY <1>1 DEF RawInstruction
  <2>7. pc' \in Nat \ {0}
    BY <1>1, <2>2, Parts
  <2>8. QED
    BY <1>1, <2>4, <2>5, <2>6, <2>7, Parts, KeepsMachine
<1>4. CASE ~RawFits(code[pc].ins)
  <2>1. UNCHANGED <<source, code, pc, inputs, memory, outputs>> /\ status' = "undefined"
    BY <1>1, <1>4 DEF RawInstruction
  <2>2. UndefinedCause'
    BY <1>1, <1>4, <2>1
       DEF RawInstruction, AtRaw, UndefinedCause, RawFits, RawOps, Count, source
  <2>3. WorkersInv'
    BY <1>2 DEF WorkersInv
  <2>4. QED
    BY <1>1, <2>1, <2>2, <2>3, Parts, KeepsMachine
<1>5. QED
  BY <1>3, <1>4

LEMMA DropKeeps == MachineInv /\ DropRaw => MachineInv'
<1>1. SUFFICES ASSUME MachineInv, DropRaw PROVE MachineInv'
  OBVIOUS
<1>2. workers = <<>> /\ status = "running"
  BY <1>1 DEF MachineInv, DropRaw, AtRaw, WorkersInv
<1>3. UNCHANGED <<source, code, status, workers, inputs, memory, outputs>> /\ pc' = pc + 1
  BY <1>1 DEF DropRaw
<1>4. WorkersInv' /\ UndefinedCause'
  BY <1>2, <1>3, AloneAndWell
<1>5. pc' \in Nat \ {0}
  BY <1>1, <1>3, Parts
<1>6. QED
  BY <1>1, <1>3, <1>4, <1>5, Parts, KeepsMachine

LEMMA LoopFacts ==
  ASSUME MachineInv, pc <= Len(code), code[pc].kind = "loop"
  PROVE  /\ code[pc].len \in Nat /\ Len(code[pc].ops) \in Nat \ {0}
         /\ \A k \in 1 .. Len(code[pc].ops) :
              code[pc].ops[k] \in OpsOn(Offsets(program, code[pc].len))
<1>1. code[pc] \in Items(program)
  <2> HIDE DEF Items
  <2>1. QED
    BY DEF MachineInv
<1>2. PICK len \in Nat : code[pc] \in LoopOf(program, len) /\ Len(code[pc].ops) > 0
  BY <1>1 DEF Items
<1>3. code[pc].len = len /\ code[pc].ops \in Seq(OpsOn(Offsets(program, len)))
  BY <1>2 DEF LoopOf
<1>4. QED
  BY <1>2, <1>3

LEMMA ChunkSizeIsNat ==
  ASSUME MachineInv, NEW n \in Nat
  PROVE  ChunkSize(n) \in Nat
<1>1. parallelism \in Nat \ {0}
  BY DEF MachineInv
<1>2. QED
  BY <1>1 DEF ChunkSize

LEMMA SpawnKeeps == MachineInv /\ Spawn => MachineInv'
<1>1. SUFFICES ASSUME MachineInv, Spawn PROVE MachineInv'
  OBVIOUS
<1>2. UNCHANGED <<source, code, status, pc, inputs, memory, outputs>> /\ status = "running"
  BY <1>1 DEF Spawn, AtLoop
<1>3. code[pc].len \in Nat /\ Len(code[pc].ops) \in Nat \ {0} /\ pc <= Len(code) /\ code[pc].kind = "loop"
  BY <1>1, LoopFacts DEF Spawn, AtLoop
<1>4. \A t \in Threads : Start(t, code[pc].len) \in Nat
  <2>1. ASSUME NEW t \in Threads PROVE t \in Nat
    BY <1>1 DEF Threads, MachineInv
  <2>2. ChunkSize(code[pc].len) \in Nat
    BY <1>1, <1>3, ChunkSizeIsNat
  <2>3. QED
    BY <2>1, <2>2 DEF Start
<1>5. /\ DOMAIN workers' = Threads
      /\ \A t \in Threads : workers'[t] = [i |-> Start(t, code[pc].len), k |-> 1, regs |-> <<>>]
  BY <1>1 DEF Spawn
<1>6. WorkersInv'
  <2>1. Threads' = Threads /\ \A t : Start(t, code[pc].len)' = Start(t, code[pc].len)
    BY <1>2 DEF Threads, Start, ChunkSize, source
  <2>2. \A t \in Threads :
          /\ DOMAIN workers'[t] = {"i", "k", "regs"}
          /\ workers'[t].i \in Nat /\ Start(t, code[pc].len) <= workers'[t].i
          /\ workers'[t].k \in 1 .. Len(code[pc].ops)
    BY <1>3, <1>4, <1>5
  <2>3. QED
    BY <1>2, <1>3, <1>5, <2>1, <2>2 DEF WorkersInv
<1>7. UndefinedCause'
  BY <1>2 DEF UndefinedCause
<1>8. QED
  BY <1>1, <1>2, <1>6, <1>7, Parts, KeepsMachine

LEMMA JoinKeeps == MachineInv /\ Join => MachineInv'
<1>1. SUFFICES ASSUME MachineInv, Join PROVE MachineInv'
  OBVIOUS
<1>2. /\ UNCHANGED <<source, code, status, inputs, memory, outputs>> /\ status = "running"
      /\ workers' = <<>> /\ pc' = pc + 1
  BY <1>1 DEF Join, AtLoop
<1>3. WorkersInv' /\ UndefinedCause'
  BY <1>2, AloneAndWell
<1>4. pc' \in Nat \ {0}
  BY <1>1, <1>2, Parts
<1>5. QED
  BY <1>1, <1>2, <1>3, <1>4, Parts, KeepsMachine

(* A thread goes on to its next operation or its next element. *)
LEMMA AdvancedShape ==
  ASSUME NEW w, DOMAIN w = {"i", "k", "regs"}, w.i \in Nat, w.k \in 1 .. Len(code[pc].ops),
         Len(code[pc].ops) \in Nat, NEW regs
  PROVE  LET next == Advanced([w EXCEPT !.regs = regs]) IN
         /\ DOMAIN next = {"i", "k", "regs"}
         /\ next.i \in Nat /\ w.i <= next.i
         /\ next.k \in 1 .. Len(code[pc].ops)
<1> DEFINE x == [w EXCEPT !.regs = regs]
<1>1. DOMAIN x = {"i", "k", "regs"} /\ x.i = w.i /\ x.k = w.k
  OBVIOUS
<1> HIDE DEF x
<1>2. CASE x.k = Len(code[pc].ops)
  <2>1. Advanced(x) = [x EXCEPT !.i = x.i + 1, !.k = 1, !.regs = <<>>]
    BY <1>2 DEF Advanced, NextElement
  <2> DEFINE i == x.i + 1
  <2>2. i \in Nat /\ w.i <= i /\ 1 \in 1 .. Len(code[pc].ops)
    BY <1>1
  <2>3. Advanced(x).i = i /\ Advanced(x).k = 1 /\ DOMAIN Advanced(x) = {"i", "k", "regs"}
    BY <1>1, <2>1
  <2> HIDE DEF i
  <2>4. QED
    BY <2>2, <2>3 DEF x
<1>3. CASE x.k # Len(code[pc].ops)
  <2>1. Advanced(x) = [x EXCEPT !.k = x.k + 1]
    BY <1>3 DEF Advanced
  <2>2. x.k + 1 \in 1 .. Len(code[pc].ops)
    BY <1>1, <1>3
  <2>3. Advanced(x).i = x.i /\ Advanced(x).k = x.k + 1 /\ DOMAIN Advanced(x) = {"i", "k", "regs"}
    BY <1>1, <2>1
  <2>4. QED
    BY <1>1, <2>2, <2>3 DEF x
<1>4. QED
  BY <1>2, <1>3

LEMMA GoesKeeps ==
  ASSUME MachineInv, NEW t, Busy(t), NEW regs, Goes(t, regs),
         UNCHANGED <<source, code, status, pc>>
  PROVE  WorkersInv'
<1>1. /\ workers # <<>> /\ t \in Threads /\ DOMAIN workers = Threads
      /\ pc <= Len(code) /\ code[pc].kind = "loop" /\ status \in {"running", "undefined"}
      /\ \A s \in Threads :
           /\ DOMAIN workers[s] = {"i", "k", "regs"}
           /\ workers[s].i \in Nat /\ Start(s, code[pc].len) <= workers[s].i
           /\ workers[s].k \in 1 .. Len(code[pc].ops)
  BY DEF MachineInv, WorkersInv, Busy
<1> DEFINE next == Advanced([workers[t] EXCEPT !.regs = regs])
<1>2. /\ DOMAIN next = {"i", "k", "regs"}
      /\ next.i \in Nat /\ workers[t].i <= next.i
      /\ next.k \in 1 .. Len(code[pc].ops)
  BY <1>1, LoopFacts, AdvancedShape
<1>3. workers' = [workers EXCEPT ![t] = next]
  BY DEF Goes
<1>4. Start(t, code[pc].len) \in Int
  <2>1. t \in Nat
    BY <1>1 DEF Threads, MachineInv
  <2>2. ChunkSize(code[pc].len) \in Nat
    BY <1>1, LoopFacts, ChunkSizeIsNat
  <2>3. QED
    BY <2>1, <2>2 DEF Start
<1> HIDE DEF next
<1>5. \A s \in Threads :
        /\ DOMAIN workers'[s] = {"i", "k", "regs"}
        /\ workers'[s].i \in Nat /\ Start(s, code[pc].len) <= workers'[s].i
        /\ workers'[s].k \in 1 .. Len(code[pc].ops)
  <2>1. SUFFICES ASSUME NEW s \in Threads
                 PROVE  /\ DOMAIN workers'[s] = {"i", "k", "regs"}
                        /\ workers'[s].i \in Nat /\ Start(s, code[pc].len) <= workers'[s].i
                        /\ workers'[s].k \in 1 .. Len(code[pc].ops)
    OBVIOUS
  <2>2. CASE s = t
    <3>1. workers'[s] = next
      BY <1>1, <1>3, <2>2
    <3>2. Start(t, code[pc].len) <= next.i
      BY <1>1, <1>2, <1>4
    <3>3. QED
      BY <1>2, <2>2, <3>1, <3>2
  <2>3. CASE s # t
    <3>1. workers'[s] = workers[s]
      BY <1>1, <1>3, <2>3
    <3>2. QED
      BY <1>1, <3>1
  <2>4. QED
    BY <2>2, <2>3
<1>6. DOMAIN workers' = Threads
  BY <1>1, <1>3
<1>7. Threads' = Threads /\ code'[pc'] = code[pc] /\ Len(code') = Len(code) /\ pc' = pc
      /\ \A s : Start(s, code[pc].len)' = Start(s, code[pc].len)
  BY DEF Threads, Start, ChunkSize, source
<1>8. QED
  BY <1>1, <1>5, <1>6, <1>7 DEF WorkersInv

LEMMA WorkKeeps ==
  ASSUME MachineInv, NEW t, Work(t)
  PROVE  MachineInv'
<1>1. Busy(t) /\ status = "running" /\ pc <= Len(code) /\ code[pc].kind = "loop"
  BY DEF Work, Busy, AtLoop
<1>2. UNCHANGED <<source, code, pc, inputs, outputs>>
  BY DEF Work
<1>3. CASE OpOf(t).op \in MemOps /\ CellOf(t) \notin DOMAIN memory
  <2>1. Stray(t)
    BY <1>3 DEF Work, MemOps
  <2>2. status' = "undefined" /\ UNCHANGED <<workers, memory>>
    BY <2>1 DEF Stray
  <2>3. Astray(t) /\ t \in DOMAIN workers
    BY <1>1, <1>3 DEF Busy, Astray
  <2>4. Astray(t)'
    BY <1>2, <2>2, <2>3 DEF Astray, OpOf, CellOf, End, Count, ChunkSize, source
  <2>5. UndefinedCause'
    BY <1>1, <1>2, <2>2, <2>3, <2>4 DEF UndefinedCause
  <2>6. WorkersInv'
    <3>1. Threads' = Threads /\ \A s : Start(s, code[pc].len)' = Start(s, code[pc].len)
      BY <1>2 DEF Threads, Start, ChunkSize, source
    <3>2. QED
      BY <1>2, <2>2, <3>1 DEF WorkersInv, MachineInv
  <2>7. QED
    BY <1>2, <2>2, <2>5, <2>6, Parts, KeepsMachine
<1>4. CASE ~(OpOf(t).op \in MemOps /\ CellOf(t) \notin DOMAIN memory)
  <2>1. /\ \E regs : Goes(t, regs)
        /\ UNCHANGED status /\ DOMAIN memory' = DOMAIN memory
    <3>1. CASE OpOf(t).op = "Load"
      BY <1>4, <3>1 DEF Work, MemOps
    <3>2. CASE OpOf(t).op = "Store"
      BY <1>4, <3>2 DEF Work, MemOps
    <3>3. CASE OpOf(t).op \notin MemOps
      BY <3>3 DEF Work, MemOps
    <3>4. QED
      BY <3>1, <3>2, <3>3 DEF MemOps
  <2>2. WorkersInv'
    BY <1>1, <1>2, <2>1, GoesKeeps
  <2>3. UndefinedCause'
    BY <1>1, <2>1 DEF UndefinedCause
  <2>4. Array(memory')
    BY <2>1, Parts DEF Array
  <2>5. QED
    BY <1>2, <2>2, <2>3, <2>4, Parts, KeepsMachine
<1>5. QED
  BY <1>3, <1>4

LEMMA NextKeepsMachine == MachineInv /\ [Next]_vars => MachineInv'
<1>1. ASSUME MachineInv, UNCHANGED vars PROVE MachineInv'
  BY <1>1 DEF MachineInv, vars, source, WorkersInv, UndefinedCause, Array, Threads, Start,
              ChunkSize, RawOps, RawFits, Count, Astray, OpOf, CellOf, End
<1>2. QED
  BY <1>1, CompileKeeps, CallKeeps, ReturnKeeps, RawKeeps, DropKeeps, SpawnKeeps, JoinKeeps,
     WorkKeeps DEF Next, Main

LEMMA MachineInvariant == Spec => []MachineInv
<1>1. QED
  BY InitMachine, NextKeepsMachine, PTL DEF Spec

-----------------------------------------------------------------------------
LEMMA MinOfTwo ==
  ASSUME NEW a \in Int, NEW b \in Int
  PROVE  Min({a, b}) \in {a, b} /\ Min({a, b}) <= a /\ Min({a, b}) <= b
<1>1. \E m \in {a, b} : \A x \in {a, b} : m <= x
  OBVIOUS
<1>2. Min({a, b}) \in {a, b} /\ \A x \in {a, b} : Min({a, b}) <= x
  BY <1>1 DEF Min
<1>3. QED
  BY <1>2

(* The elements of a thread with work left to do. *)
InLoop(t) ==
  /\ pc <= Len(code) /\ code[pc].kind = "loop"
  /\ t \in DOMAIN workers /\ workers[t].i < End(t, code[pc].len)

LEMMA Elements ==
  ASSUME MachineInv, NEW t, InLoop(t)
  PROVE  /\ code[pc].len \in Nat /\ workers[t].i \in Nat /\ t \in Threads
         /\ backend = "jit" => workers[t].i < Count(code[pc].len)
         /\ backend = "aot" =>
              /\ workers[t].i < code[pc].len
              /\ t * ChunkSize(code[pc].len) <= workers[t].i
              /\ workers[t].i < t * ChunkSize(code[pc].len) + ChunkSize(code[pc].len)
<1>1. /\ pc <= Len(code) /\ code[pc].kind = "loop"
      /\ t \in Threads /\ workers[t].i \in Nat /\ Start(t, code[pc].len) <= workers[t].i
      /\ workers[t].i < End(t, code[pc].len)
  BY DEF MachineInv, WorkersInv, InLoop
<1>2. code[pc].len \in Nat
  BY <1>1, LoopFacts
<1>3. CASE backend = "jit"
  BY <1>1, <1>2, <1>3 DEF End
<1>4. CASE backend = "aot"
  <2> DEFINE e == t * ChunkSize(code[pc].len) + ChunkSize(code[pc].len)
  <2>1. t \in Nat /\ ChunkSize(code[pc].len) \in Nat
    <3>1. t \in Nat
      BY <1>1 DEF Threads, MachineInv
    <3>2. QED
      BY <1>2, <3>1, ChunkSizeIsNat
  <2>2. e \in Int
    BY <2>1
  <2>3. End(t, code[pc].len) = Min({e, code[pc].len})
    BY <1>4 DEF End
  <2> HIDE DEF e
  <2>4. Min({e, code[pc].len}) \in Int /\ Min({e, code[pc].len}) <= e
        /\ Min({e, code[pc].len}) <= code[pc].len
    <3>1. code[pc].len \in Int
      BY <1>2
    <3>2. QED
      BY <2>2, <3>1, MinOfTwo
  <2>5. workers[t].i < e /\ workers[t].i < code[pc].len
    BY <1>1, <1>2, <2>2, <2>3, <2>4
  <2>6. t * ChunkSize(code[pc].len) <= workers[t].i
    BY <1>1, <1>4 DEF Start
  <2>7. QED
    BY <1>1, <1>2, <1>4, <2>5, <2>6 DEF e
<1>5. QED
  BY <1>3, <1>4 DEF MachineInv

(* The cell of a thread belongs to a tensor of one of the instructions     *)
(* that the loop was made of.                                              *)
LEMMA TensorOf ==
  ASSUME MachineInv, NEW t, InLoop(t), OpOf(t).op \in MemOps
  PROVE  \E a \in Loops : /\ a.len = code[pc].len /\ a \in OpCode
                          /\ OpOf(t).off \in Tensors(a) /\ OpOf(t).off \in Nat
<1>1. /\ pc <= Len(code) /\ code[pc].kind = "loop"
      /\ workers[t].k \in 1 .. Len(code[pc].ops)
  BY DEF MachineInv, WorkersInv, InLoop
<1>2. OpOf(t) \in OpsOn(Offsets(program, code[pc].len))
  BY <1>1, LoopFacts DEF OpOf
<1>3. OpOf(t).off \in Offsets(program, code[pc].len)
  BY <1>2 DEF OpsOn, MemOps
<1>4. OpOf(t).off \in Nat
  BY <1>3, OffsetsAreNat DEF MachineInv
<1>5. PICK a \in Fused(program, code[pc].len) : OpOf(t).off \in Tensors(a)
  BY <1>3 DEF Offsets
<1>6. a \in OpCode
  BY InRange DEF MachineInv, Fused
<1>7. QED
  BY <1>4, <1>5, <1>6 DEF Fused, Loops

LEMMA ChunksApart ==
  ASSUME NEW s \in Nat, NEW t \in Nat, s < t, NEW c \in Nat
  PROVE  s * c + c <= t * c
<1>1. PICK d \in Nat : t = s + 1 + d
  <2>1. t - s - 1 \in Nat /\ t = s + 1 + (t - s - 1)
    OBVIOUS
  <2>2. QED
    BY <2>1
<1>2. (s + 1 + d) * c = s * c + c + d * c
  OBVIOUS
<1>3. d * c \in Nat /\ s * c \in Nat
  OBVIOUS
<1>4. QED
  BY <1>1, <1>2, <1>3

(* No two threads of a loop of tensors that are equal or apart are about   *)
(* to access the same cell while one of them writes it, for any number of  *)
(* threads and any length: their chunks have no element in common, and an  *)
(* element of a tensor is no other element of any tensor of the loop.      *)
THEOREM NoRaces == Spec => []RaceFree
<1>1. MachineInv => RaceFree
  <2>1. SUFFICES ASSUME MachineInv, Apart, NEW s \in DOMAIN workers, NEW t \in DOMAIN workers,
                        s # t, InLoop(s), InLoop(t),
                        OpOf(s).op \in MemOps, OpOf(t).op \in MemOps,
                        CellOf(s) = CellOf(t)
                 PROVE  FALSE
    BY DEF RaceFree, MemOps, Busy, AtLoop, InLoop
  <2> DEFINE len == code[pc].len
             c == ChunkSize(len)
             x == OpOf(s).off
             y == OpOf(t).off
             i == workers[s].i
             j == workers[t].i
  <2>2. backend = "aot" /\ s \in Nat /\ t \in Nat
    BY <2>1, Elements DEF Threads, MachineInv
  <2>3. /\ len \in Nat /\ i \in Nat /\ j \in Nat /\ i < len /\ j < len
        /\ s * c <= i /\ i < s * c + c /\ t * c <= j /\ j < t * c + c
    BY <2>1, <2>2, Elements
  <2>4. c \in Nat
    BY <2>1, <2>3, ChunkSizeIsNat
  <2>5. PICK a \in Loops : a.len = len /\ x \in Tensors(a) /\ x \in Nat
    BY <2>1, TensorOf
  <2>6. PICK b \in Loops : b.len = len /\ y \in Tensors(b) /\ y \in Nat
    BY <2>1, TensorOf
  <2>7. Aligned(x, y, len)
    BY <2>1, <2>5, <2>6 DEF Apart
  <2>8. x + i = y + j
    BY <2>1 DEF CellOf
  <2> HIDE DEF len, c, x, y, i, j
  <2>9. i = j
    BY <2>3, <2>5, <2>6, <2>7, <2>8 DEF Aligned, Disjoint
  <2>10. s * c \in Nat /\ t * c \in Nat
    BY <2>2, <2>4
  <2>11. CASE s < t
    <3>1. s * c + c <= t * c
      BY <2>2, <2>4, <2>11, ChunksApart
    <3>2. QED
      BY <2>3, <2>4, <2>9, <2>10, <3>1
  <2>12. CASE t < s
    <3>1. t * c + c <= s * c
      BY <2>2, <2>4, <2>12, ChunksApart
    <3>2. QED
      BY <2>3, <2>4, <2>9, <2>10, <3>1
  <2>13. QED
    BY <2>1, <2>2, <2>11, <2>12
<1>2. QED
  BY <1>1, MachineInvariant, PTL

LEMMA CountOf ==
  ASSUME NEW n \in Nat, backend = "jit" => n > 0
  PROVE  Count(n) = n
<1>1. CASE backend = "jit"
  <2>1. \A u \in {n, 1} : u <= n
    BY <1>1
  <2>2. {n, 1} # {} /\ {n, 1} \subseteq Int /\ n \in Int
    OBVIOUS
  <2>3. Max({n, 1}) \in {n, 1} /\ \A u \in {n, 1} : u <= Max({n, 1})
    BY <2>1, <2>2, MaxOf
  <2>4. QED
    BY <1>1, <2>1, <2>3 DEF Count
<1>2. QED
  BY <1>1 DEF Count

LEMMA CountIs ==
  ASSUME NEW n \in Nat
  PROVE  /\ Count(n) \in Nat
         /\ backend # "jit" => Count(n) = n
<1>1. CASE backend = "jit"
  <2>1. {n, 1} # {} /\ {n, 1} \subseteq Int /\ n + 1 \in Int /\ \A u \in {n, 1} : u <= n + 1
    OBVIOUS
  <2>2. Max({n, 1}) \in {n, 1}
    BY <2>1, MaxOf
  <2>3. QED
    BY <1>1, <2>2 DEF Count
<1>2. QED
  BY <1>1 DEF Count

(* The scratchpad keeps the size that the planner has given it.            *)
SizeInv == DOMAIN memory = 0 .. Plan(program).memory_size - 1

LEMMA SizeInvariant == Spec => []SizeInv
<1>1. Init => SizeInv
  BY DEF Init, SizeInv, Zeros
<1>2. SizeInv /\ [Next]_vars => SizeInv'
  <2>1. SUFFICES ASSUME SizeInv, [Next]_vars PROVE SizeInv'
    OBVIOUS
  <2>2. SUFFICES program' = program /\ DOMAIN memory' = DOMAIN memory
    BY <2>1 DEF SizeInv
  <2>3. CASE UNCHANGED <<source, memory>>
    BY <2>3 DEF source
  <2>4. CASE RawInstruction
    <3>1. CASE RawFits(code[pc].ins)
      <4>1. code[pc].ins.op \in {"LoadVarVec", "StoreVec"}
        BY <2>4 DEF RawInstruction, RawOps
      <4>2. memory' = RawEffect(code[pc].ins).i16
        BY <2>4, <3>1 DEF RawInstruction
      <4>3. DOMAIN RawEffect(code[pc].ins).i16 = DOMAIN memory
        BY <4>1, RawEffectKeepsSizes
      <4>4. QED
        BY <2>4, <4>2, <4>3 DEF RawInstruction, source
    <3>2. CASE ~RawFits(code[pc].ins)
      BY <2>4, <3>2 DEF RawInstruction, source
    <3>3. QED
      BY <3>1, <3>2
  <2>5. ASSUME NEW t, Work(t) PROVE program' = program /\ DOMAIN memory' = DOMAIN memory
    <3>1. program' = program
      BY <2>5 DEF Work, source
    <3>2. CASE OpOf(t).op = "Load"
      BY <2>5, <3>1, <3>2 DEF Work, Stray
    <3>3. CASE OpOf(t).op = "Store"
      BY <2>5, <3>1, <3>3 DEF Work, Stray
    <3>4. CASE OpOf(t).op \notin MemOps
      BY <2>5, <3>1, <3>4 DEF Work, MemOps
    <3>5. QED
      BY <3>2, <3>3, <3>4 DEF MemOps
  <2>6. QED
    BY <2>1, <2>3, <2>4, <2>5 DEF Next, Main, vars, Compile, Call, Return, DropRaw, Spawn, Join
<1>3. QED
  BY <1>1, <1>2, PTL DEF Spec

(* What BuffersDo says and what the planner has seen to: a tensor that the *)
(* compiler has code for is inside the scratchpad, with the element that   *)
(* the JIT touches of an empty one.                                        *)
LEMMA PlacesFit ==
  ASSUME MachineInv, SizeInv, BuffersDo, NEW i \in Range(program), NEW off,
         \/ i.op = "LoadVarVec" /\ off = i.dst
         \/ i.op = "StoreVec" /\ backend = "aot" /\ off = i.src
         \/ i.op \in FusableOps /\ off \in Tensors(i)
  PROVE  Fits(memory, off, Count(i.len))
<1>1. program \in Seq(OpCode) /\ i \in OpCode /\ i.len \in Nat
  BY InRange, Fields DEF MachineInv
<1>2. Plan(program).memory_size \in Nat /\ PlanEnd(i) <= Plan(program).memory_size
  BY <1>1, PlanIsNat
<1>3. Size(memory) = Plan(program).memory_size
  BY <1>2, SizeOfArray DEF SizeInv
<1>4. CASE Unplanned(i)
  <2>1. CASE i.op = "StoreVec"
    <3>1. backend = "aot"
      BY <2>1 DEF FusableOps, VecOneOps
    <3>2. Count(i.len) = i.len
      BY <1>1, <3>1, CountIs
    <3>3. QED
      BY <1>4, <2>1, <3>2 DEF Unplanned
  <2>2. CASE i.op # "StoreVec"
    <3>1. i.op \in RawOps \union FusableOps
      BY <2>2 DEF RawOps
    <3>2. off \in Places(i)
      BY <2>2 DEF Places, FusableOps, VecOneOps
    <3>3. QED
      BY <1>4, <3>1, <3>2 DEF BuffersDo
  <2>3. QED
    BY <2>1, <2>2
<1>5. CASE ~Unplanned(i)
  <2>1. Count(i.len) = i.len /\ i.op # "AdamWStep"
    BY <1>5 DEF Unplanned
  <2>2. off \in Nat /\ off + i.len <= PlanEnd(i) /\ PlanEnd(i) \in Nat
    BY <1>1, <2>1, PlanEndCovers, PlanEndIsNat
  <2>3. QED
    BY <1>1, <1>2, <1>3, <2>1, <2>2 DEF Fits
<1>6. QED
  BY <1>4, <1>5

(* For any program, any chunks and any sequence of calls, native code      *)
(* whose caller's arrays are long enough accesses no element outside of    *)
(* them, and none outside of the scratchpad, whose size the planner has    *)
(* reckoned; what the planner does not count (BuffersDo) must fit besides. *)
THEOREM NeverOutside == Spec => []StaysInside
<1>1. MachineInv /\ SizeInv => StaysInside
  <2>1. SUFFICES ASSUME MachineInv, SizeInv, BuffersDo, status = "undefined"
                 PROVE  FALSE
    BY DEF StaysInside
  <2>2. pc <= Len(code) /\ pc \in Nat \ {0} /\ code \in Seq(Items(program))
    BY <2>1 DEF MachineInv, UndefinedCause
  <2>3. code[pc] \in Items(program)
    <3> HIDE DEF Items
    <3>1. QED
      BY <2>2
  <2>4. CASE code[pc].kind = "raw" /\ code[pc].ins.op \in RawOps /\ ~RawFits(code[pc].ins)
    <3> DEFINE i == code[pc].ins
    <3>1. i \in Range(program)
      BY <2>3, <2>4 DEF Items, LoopOf
    <3>2. i.op \in RawOps /\ ~RawFits(i)
      BY <2>4
    <3>3. i \in OpCode /\ i.len \in Nat
      BY <2>1, <3>1, InRange, Fields DEF MachineInv
    <3> HIDE DEF i
    <3>4. CASE i.op = "LoadVarVec"
      <4>1. Fits(memory, i.dst, Count(i.len))
        BY <2>1, <3>1, <3>4, PlacesFit
      <4>2. Fits(inputs, i.var, Count(i.len))
        BY <2>1, <3>1, <3>2, <3>4 DEF BuffersDo
      <4>3. QED
        BY <3>2, <3>4, <4>1, <4>2 DEF RawFits
    <3>5. CASE i.op # "LoadVarVec"
      <4>1. i.op = "StoreVec" /\ backend = "aot"
        BY <2>1, <3>2, <3>5 DEF RawOps, MachineInv
      <4>2. Count(i.len) = i.len
        BY <3>3, <4>1, CountIs
      <4>3. Fits(memory, i.src, Count(i.len))
        BY <2>1, <3>1, <4>1, PlacesFit
      <4>4. Fits(outputs, i.out, Count(i.len))
        BY <2>1, <3>1, <3>2, <4>1, <4>2 DEF BuffersDo
      <4>5. QED
        BY <3>2, <3>5, <4>3, <4>4 DEF RawFits
    <3>6. QED
      BY <3>4, <3>5
  <2>5. CASE code[pc].kind = "loop" /\ \E t \in DOMAIN workers : Astray(t)
    <3>1. PICK t \in DOMAIN workers : Astray(t)
      BY <2>5
    <3> DEFINE off == OpOf(t).off
               i   == workers[t].i
    <3>2. InLoop(t) /\ OpOf(t).op \in MemOps /\ off + i \notin DOMAIN memory
      BY <2>2, <2>5, <3>1 DEF Astray, InLoop, CellOf
    <3>3. PICK a \in Loops : a.len = code[pc].len /\ a \in OpCode /\ off \in Tensors(a) /\ off \in Nat
      BY <2>1, <3>2, TensorOf
    <3>4. a \in Range(program) /\ a.op \in FusableOps
      BY DEF Loops
    <3>5. i \in Nat /\ i < Count(a.len) /\ Count(a.len) \in Nat
      <4>1. a.len \in Nat
        BY <3>3, Fields
      <4>2. Count(a.len) \in Nat /\ (backend # "jit" => Count(a.len) = a.len)
        BY <4>1, CountIs
      <4>3. QED
        BY <2>1, <3>2, <3>3, <4>1, <4>2, Elements DEF MachineInv
    <3> HIDE DEF off, i
    <3>6. Fits(memory, off, Count(a.len))
      BY <2>1, <3>3, <3>4, PlacesFit
    <3>7. Size(memory) = Plan(program).memory_size /\ Plan(program).memory_size \in Nat
      BY <2>1, PlanIsNat, SizeOfArray DEF SizeInv, MachineInv
    <3>8. off + i \in 0 .. Plan(program).memory_size - 1
      BY <3>3, <3>5, <3>6, <3>7 DEF Fits
    <3>9. QED
      BY <2>1, <3>2, <3>8 DEF SizeInv
  <2>6. QED
    BY <2>1, <2>4, <2>5 DEF MachineInv, UndefinedCause
<1>2. QED
  BY <1>1, MachineInvariant, SizeInvariant, PTL

(* One element of a loop: the state s has the elements of the tensors, by  *)
(* offset, and the registers.                                              *)
After(op, s) ==
  CASE op.op = "Load"  -> [mem |-> s.mem, regs |-> Inserted(s.regs, op.reg, s.mem[op.off])]
    [] op.op = "Store" ->
         [mem |-> [s.mem EXCEPT ![op.off] = Reg(s.regs, op.reg)], regs |-> s.regs]
    [] OTHER           -> [mem |-> s.mem, regs |-> Computed(op, s.regs)]

(* f is the states of an element during the first n operations. *)
IsRun(f, ops, n) == \A j \in 1 .. n : f[j] = After(ops[j], f[j - 1])

(* What native code makes of the element of each tensor, by an instruction *)
(* that it has in a loop: without constants and steps if it is AOT code.   *)
Kind(ins) == IF ins.op \in Adds THEN "Add" ELSE "Mul"

Column(ins, c) ==
  CASE ins.op \in {"AddVec", "MulVec"} ->
         [c EXCEPT ![ins.dst] = Arith(Kind(ins), c[ins.lhs], c[ins.rhs])]
    [] ins.op \in VecOneOps ->
         [c EXCEPT ![ins.dst] = Arith(Kind(ins), c[ins.lhs],
                                      IF backend = "jit" THEN ins.val ELSE 0)]
    [] ins.op = "AdamWStep" /\ backend = "jit" ->
         LET mean   == [c EXCEPT ![ins.m] = Wrap16(Mean16(c[ins.m], c[ins.g]))]
             square == [mean EXCEPT ![ins.v] = Wrap16(Var16(mean[ins.v], Square(c[ins.g])))]
         IN  [square EXCEPT ![ins.w] = Wrap16(square[ins.w] - mean[ins.m] \div 16)]
    [] OTHER -> c

(* The registers of a group hold the elements of the tensors it knows:     *)
(* each tensor has a register of its own, and the next one is free.        *)
Agree(reg, regs, c) ==
  /\ \A off \in DOMAIN reg :
       off \in DOMAIN c /\ reg[off] \in DOMAIN regs /\ regs[reg[off]] = c[off]
  /\ \A x, y \in DOMAIN reg : reg[x] = reg[y] => x = y

Holds(reg, next, s, c) ==
  /\ next \in Nat /\ c = [off \in DOMAIN c |-> c[off]] /\ s.mem = c
  /\ \A r \in DOMAIN s.regs : r \in Nat /\ r < next
  /\ Agree(reg, s.regs, c)

(* The tensors that a list of operations loads or stores. *)
Named(ops) == {ops[j].off : j \in {k \in DOMAIN ops : ops[k].op \in MemOps}}

(* An operation more. *)
LEMMA Appended ==
  ASSUME NEW S, NEW ops \in Seq(S), NEW op \in S, NEW f
  PROVE  /\ Len(Append(ops, op)) = Len(ops) + 1 /\ Append(ops, op) \in Seq(S)
         /\ IsRun(f, Append(ops, op), Len(ops) + 1) <=>
              IsRun(f, ops, Len(ops)) /\ f[Len(ops) + 1] = After(op, f[Len(ops)])
         /\ Named(Append(ops, op)) = Named(ops) \union (IF op.op \in MemOps THEN {op.off} ELSE {})
<1> DEFINE all == Append(ops, op)
           n   == Len(ops)
<1>1. /\ n \in Nat /\ Len(all) = n + 1 /\ all \in Seq(S)
      /\ DOMAIN all = 1 .. n + 1 /\ DOMAIN ops = 1 .. n
      /\ all[n + 1] = op /\ \A j \in 1 .. n : all[j] = ops[j]
  OBVIOUS
<1> HIDE DEF all, n
<1>2. IsRun(f, all, n + 1) <=> IsRun(f, ops, n) /\ f[n + 1] = After(op, f[n])
  <2>1. ASSUME IsRun(f, all, n + 1) PROVE IsRun(f, ops, n) /\ f[n + 1] = After(op, f[n])
    <3>1. f[n + 1] = After(all[n + 1], f[(n + 1) - 1]) /\ (n + 1) - 1 = n
      BY <1>1, <2>1 DEF IsRun
    <3>2. \A j \in 1 .. n : j \in 1 .. n + 1 /\ all[j] = ops[j]
      BY <1>1
    <3>3. QED
      BY <1>1, <2>1, <3>1, <3>2 DEF IsRun
  <2>2. ASSUME IsRun(f, ops, n), f[n + 1] = After(op, f[n]) PROVE IsRun(f, all, n + 1)
    <3>1. ASSUME NEW j \in 1 .. n + 1 PROVE f[j] = After(all[j], f[j - 1])
      <4>1. CASE j = n + 1
        <5>1. j - 1 = n /\ all[j] = op
          BY <1>1, <4>1
        <5>2. QED
          BY <2>2, <4>1, <5>1
      <4>2. CASE j # n + 1
        <5>1. j \in 1 .. n /\ all[j] = ops[j]
          BY <1>1, <4>2
        <5>2. QED
          BY <2>2, <5>1 DEF IsRun
      <4>3. QED
        BY <4>1, <4>2
    <3>2. QED
      BY <3>1 DEF IsRun
  <2>3. QED
    BY <2>1, <2>2
<1>3. Named(all) = Named(ops) \union (IF op.op \in MemOps THEN {op.off} ELSE {})
  <2>1. ASSUME NEW x \in Named(all)
        PROVE  x \in Named(ops) \union (IF op.op \in MemOps THEN {op.off} ELSE {})
    <3>1. PICK j \in 1 .. n + 1 : all[j].op \in MemOps /\ x = all[j].off
      BY <1>1 DEF Named
    <3>2. CASE j = n + 1
      BY <1>1, <3>1, <3>2
    <3>3. CASE j # n + 1
      <4>1. j \in 1 .. n
        BY <1>1, <3>3
      <4>2. QED
        BY <1>1, <3>1, <4>1 DEF Named
    <3>4. QED
      BY <3>2, <3>3
  <2>2. ASSUME NEW x \in Named(ops) PROVE x \in Named(all)
    <3>1. PICK j \in 1 .. n : ops[j].op \in MemOps /\ x = ops[j].off
      BY <1>1 DEF Named
    <3>2. j \in 1 .. n + 1 /\ all[j] = ops[j]
      BY <1>1
    <3>3. QED
      BY <1>1, <3>1, <3>2 DEF Named
  <2>3. ASSUME op.op \in MemOps PROVE op.off \in Named(all)
    <3>1. n + 1 \in 1 .. n + 1
      BY <1>1
    <3>2. QED
      BY <1>1, <2>3, <3>1 DEF Named
  <2>4. QED
    BY <2>1, <2>2, <2>3
<1>4. QED
  BY <1>1, <1>2, <1>3 DEF all, n

(* The operations of a group have run, and the state they leave.           *)
Reaches(f, g) == IsRun(f, g.ops, Len(g.ops))
At(f, g)      == f[Len(g.ops)]

(* The tensors of a group, those it has in registers, and whether it does. *)
Names(g)      == Named(g.ops)
Registered(g)     == DOMAIN g.reg
KeepsTo(g, next, s, c) == Holds(g.reg, next, s, c)
Keeps(g, s, c) == KeepsTo(g, g.next, s, c)
Operand(s, r) == Reg(s.regs, r)

LEMMA PushRuns ==
  ASSUME NEW p, NEW len, NEW g \in LoopOf(p, len), NEW op \in OpsOn(Offsets(p, len)), NEW f
  PROVE  /\ Reaches(f, Push(g, op)) <=> Reaches(f, g) /\ At(f, Push(g, op)) = After(op, At(f, g))
         /\ Named(Push(g, op).ops)
              = Named(g.ops) \union (IF op.op \in MemOps THEN {op.off} ELSE {})
<1> DEFINE O == OpsOn(Offsets(p, len))
<1>1. g.ops \in Seq(O) /\ Push(g, op).ops = Append(g.ops, op) /\ op \in O
  BY DEF LoopOf, Push
<1> HIDE DEF O
<1>2. /\ Len(Append(g.ops, op)) = Len(g.ops) + 1
      /\ IsRun(f, Append(g.ops, op), Len(g.ops) + 1) <=>
              IsRun(f, g.ops, Len(g.ops)) /\ f[Len(g.ops) + 1] = After(op, f[Len(g.ops)])
      /\ Named(Append(g.ops, op))
           = Named(g.ops) \union (IF op.op \in MemOps THEN {op.off} ELSE {})
  BY <1>1, Appended
<1>3. QED
  BY <1>1, <1>2 DEF Reaches, At

(* A tensor is loaded into the next register, unless it is in one. *)
LEMMA UseHolds ==
  ASSUME NEW p \in Seq(OpCode), NEW len, NEW g \in LoopOf(p, len),
         NEW off \in Offsets(p, len), NEW f, NEW c
  PROVE  /\ Reaches(f, Use(g, off)) => Reaches(f, g)
         /\ Reaches(f, Use(g, off)) /\ Holds(g.reg, g.next, At(f, g), c) /\ off \in DOMAIN c
              => Holds(Use(g, off).reg, Use(g, off).next, At(f, Use(g, off)), c)
         /\ Named(Use(g, off).ops) \subseteq Named(g.ops) \union {off}
         /\ Named(g.ops) \subseteq Named(Use(g, off).ops)
         /\ DOMAIN g.reg \subseteq Named(g.ops)
              => DOMAIN Use(g, off).reg \subseteq Named(Use(g, off).ops)
<1>1. CASE off \in DOMAIN g.reg
  BY <1>1 DEF Use
<1>2. CASE off \notin DOMAIN g.reg
  <2> DEFINE op == LoadOp(off, g.next)
             u  == Push(g, op)
             r  == Inserted(g.reg, off, g.next)
             v  == Use(g, off)
             n  == g.next + 1
  <2>1. g.reg \in Maps /\ g.next \in Nat /\ off \in Nat
    BY OffsetsAreNat DEF LoopOf
  <2>2. op \in OpsOn(Offsets(p, len)) /\ op = [op |-> "Load", off |-> off, reg |-> g.next]
    BY <2>1 DEF LoadOp, OpsOn
  <2>3. u \in LoopOf(p, len) /\ u.reg = g.reg /\ u.next = g.next
    BY <2>2, PushTyped
  <2>4. v = [u EXCEPT !.reg = r, !.next = n]
    BY <1>2, <2>3 DEF Use
  <2>5. /\ Reaches(f, u) <=> Reaches(f, g) /\ At(f, u) = After(op, At(f, g))
        /\ Named(u.ops) = Named(g.ops) \union {off}
    <3> HIDE DEF op
    <3>1. op.op \in MemOps /\ op.off = off
      BY <2>2 DEF MemOps
    <3>2. QED
      BY <2>2, <3>1, PushRuns
  <2> HIDE DEF u, r, n, op
  <2>6. v.ops = u.ops /\ v.reg = r /\ v.next = n
    <3>1. DOMAIN u = {"kind", "len", "ops", "reg", "next"}
      BY <2>3 DEF LoopOf
    <3>2. QED
      BY <2>4, <3>1
  <2> HIDE DEF v
  <2>7. Reaches(f, v) <=> Reaches(f, u)
    BY <2>6 DEF Reaches
  <2>8. At(f, v) = At(f, u)
    BY <2>6 DEF At
  <2>9. DOMAIN r = {off} \union DOMAIN g.reg
    BY DEF r, Inserted
  <2>10. ASSUME Reaches(f, v), Holds(g.reg, g.next, At(f, g), c), off \in DOMAIN c
         PROVE  Holds(v.reg, v.next, At(f, v), c)
    <3> DEFINE s == At(f, g)
               t == At(f, v)
    <3>1. t = [mem |-> s.mem, regs |-> Inserted(s.regs, g.next, s.mem[off])]
      BY <2>2, <2>5, <2>7, <2>8, <2>10 DEF After
    <3>2. Holds(g.reg, g.next, s, c)
      BY <2>10
    <3> HIDE DEF s, t
    <3>3. t.mem = c /\ t.regs = Inserted(s.regs, g.next, c[off])
      BY <3>1, <3>2 DEF Holds
    <3>4. DOMAIN t.regs = {g.next} \union DOMAIN s.regs /\ t.regs[g.next] = c[off]
          /\ \A x \in DOMAIN s.regs : x # g.next => t.regs[x] = s.regs[x]
      BY <3>3 DEF Inserted
    <3>5. n \in Nat /\ \A x \in DOMAIN t.regs : x \in Nat /\ x < n
      BY <2>1, <3>2, <3>4 DEF Holds, n
    <3>6. r[off] = g.next /\ \A x \in DOMAIN g.reg : x # off /\ r[x] = g.reg[x]
      BY <1>2 DEF r, Inserted
    <3>7. \A x \in DOMAIN g.reg : x \in DOMAIN c /\ g.reg[x] \in DOMAIN s.regs
                                /\ s.regs[g.reg[x]] = c[x] /\ g.reg[x] \in Nat /\ g.reg[x] < g.next
      BY <3>2 DEF Holds, Agree
    <3>8. \A x \in DOMAIN g.reg : g.reg[x] # g.next
      BY <2>1, <3>7
    <3>9. \A x \in DOMAIN r : x \in DOMAIN c /\ r[x] \in DOMAIN t.regs /\ t.regs[r[x]] = c[x]
      BY <2>9, <2>10, <3>4, <3>6, <3>7, <3>8
    <3>10. \A x, y \in DOMAIN r : r[x] = r[y] => x = y
      <4>1. \A x, y \in DOMAIN g.reg : g.reg[x] = g.reg[y] => x = y
        BY <3>2 DEF Holds, Agree
      <4>2. QED
        BY <2>9, <3>6, <3>8, <4>1
    <3>11. QED
      BY <2>6, <3>2, <3>3, <3>5, <3>9, <3>10 DEF Holds, Agree, t
  <2>11. QED
    BY <2>5, <2>6, <2>7, <2>9, <2>10 DEF v
<1>3. QED
  BY <1>1, <1>2

(* The state of memory with a new element. *)
Put(c, off, v) == [c EXCEPT ![off] = v]

(* The result of two registers goes to a new one and to its tensor.        *)
LEMMA IntoRecords ==
  ASSUME NEW p \in Seq(OpCode), NEW len, NEW g \in LoopOf(p, len),
         NEW i \in Fused(p, len), NEW dst, dst = i.dst, i.dst \in Tensors(i),
         NEW l \in Nat, NEW r \in Nat, NEW next \in Nat,
         NEW u, u = Into(g, i, l, r, next), NEW h, h = Inserted(g.reg, dst, next)
  PROVE  u.reg = h
<1> DEFINE op == ArithOp(Kind(i), l, r, next)
           st == StoreOp(next, dst)
           a  == Push(g, op)
           b  == Push(a, st)
           n  == next + 1
<1>1. dst \in Offsets(p, len) /\ dst \in Nat
  BY OffsetsAreNat DEF Offsets
<1>2. op \in OpsOn(Offsets(p, len)) /\ st \in OpsOn(Offsets(p, len))
  BY <1>1 DEF ArithOp, StoreOp, OpsOn, Kind
<1>3. b \in LoopOf(p, len) /\ b.reg = g.reg
  <2> HIDE DEF op, st
  <2>1. a \in LoopOf(p, len) /\ a.reg = g.reg
    BY <1>2, PushTyped
  <2> HIDE DEF a
  <2>2. QED
    BY <1>2, <2>1, PushTyped
<1>4. u = [b EXCEPT !.reg = h, !.next = n]
  BY <1>3 DEF Into, Kind
<1> HIDE DEF b, n
<1>5. DOMAIN b = {"kind", "len", "ops", "reg", "next"}
  BY <1>3 DEF LoopOf
<1>6. QED
  BY <1>4, <1>5

LEMMA IntoIs ==
  ASSUME NEW p \in Seq(OpCode), NEW len, NEW g \in LoopOf(p, len),
         NEW i \in Fused(p, len), NEW dst, dst = i.dst, i.dst \in Tensors(i),
         NEW l \in Nat, NEW r \in Nat, NEW next \in Nat
  PROVE  /\ ArithOp(Kind(i), l, r, next) \in OpsOn(Offsets(p, len))
         /\ StoreOp(next, dst) \in OpsOn(Offsets(p, len))
         /\ Push(g, ArithOp(Kind(i), l, r, next)) \in LoopOf(p, len)
         /\ Into(g, i, l, r, next).ops
              = Push(Push(g, ArithOp(Kind(i), l, r, next)), StoreOp(next, dst)).ops
         /\ Into(g, i, l, r, next).reg = Inserted(g.reg, dst, next)
         /\ Into(g, i, l, r, next).next = next + 1
<1> DEFINE op == ArithOp(Kind(i), l, r, next)
           st == StoreOp(next, dst)
           a  == Push(g, op)
           b  == Push(a, st)
           h  == Inserted(g.reg, dst, next)
           n  == next + 1
           u  == Into(g, i, l, r, next)
<1>1. dst \in Offsets(p, len) /\ dst \in Nat
  BY OffsetsAreNat DEF Offsets
<1>2. /\ op \in OpsOn(Offsets(p, len)) /\ st \in OpsOn(Offsets(p, len))
  BY <1>1 DEF ArithOp, StoreOp, OpsOn, Kind
<1>3. a \in LoopOf(p, len) /\ b \in LoopOf(p, len) /\ b.reg = g.reg
  <2> HIDE DEF op, st
  <2>1. a \in LoopOf(p, len) /\ a.reg = g.reg
    BY <1>2, PushTyped
  <2> HIDE DEF a
  <2>2. QED
    BY <1>2, <2>1, PushTyped
<1>4. u = [b EXCEPT !.reg = h, !.next = n]
  BY <1>3 DEF Into, Kind
<1>5. u.ops = b.ops /\ u.reg = h /\ u.next = n
  <2> HIDE DEF u, b, h, n
  <2>1. DOMAIN b = {"kind", "len", "ops", "reg", "next"}
    BY <1>3 DEF LoopOf
  <2>2. QED
    BY <1>4, <2>1
<1>6. QED
  BY <1>2, <1>3, <1>5

LEMMA IntoRuns ==
  ASSUME NEW p \in Seq(OpCode), NEW len, NEW g \in LoopOf(p, len),
         NEW i \in Fused(p, len), NEW dst, dst = i.dst, i.dst \in Tensors(i),
         NEW l \in Nat, NEW r \in Nat, NEW next \in Nat, NEW f,
         Reaches(f, Into(g, i, l, r, next))
  PROVE  /\ Reaches(f, g)
         /\ At(f, Into(g, i, l, r, next))
              = After(StoreOp(next, dst), After(ArithOp(Kind(i), l, r, next), At(f, g)))
<1> DEFINE op == ArithOp(Kind(i), l, r, next)
           st == StoreOp(next, dst)
           a  == Push(g, op)
           b  == Push(a, st)
           u  == Into(g, i, l, r, next)
<1>1. op \in OpsOn(Offsets(p, len)) /\ st \in OpsOn(Offsets(p, len))
  BY IntoIs
<1>2. a \in LoopOf(p, len) /\ u.ops = b.ops
  BY IntoIs
<1>3. Reaches(f, b) /\ At(f, u) = At(f, b)
  BY <1>2 DEF Reaches, At
<1> HIDE DEF op, st, u
<1>4. Reaches(f, a) /\ At(f, b) = After(st, At(f, a))
  <2> HIDE DEF a
  <2>1. QED
    BY <1>1, <1>2, <1>3, PushRuns
<1>5. Reaches(f, g) /\ At(f, a) = After(op, At(f, g))
  BY <1>1, <1>4, PushRuns
<1>6. QED
  BY <1>3, <1>4, <1>5 DEF op, st, u

LEMMA IntoNames ==
  ASSUME NEW p \in Seq(OpCode), NEW len, NEW g \in LoopOf(p, len),
         NEW i \in Fused(p, len), NEW dst, dst = i.dst, i.dst \in Tensors(i),
         NEW l \in Nat, NEW r \in Nat, NEW next \in Nat
  PROVE  /\ Names(Into(g, i, l, r, next)) = Names(g) \union {dst}
         /\ Registered(Into(g, i, l, r, next)) = Registered(g) \union {dst}
<1> DEFINE op == ArithOp(Kind(i), l, r, next)
           st == StoreOp(next, dst)
           a  == Push(g, op)
           b  == Push(a, st)
           u  == Into(g, i, l, r, next)
<1>1. op \in OpsOn(Offsets(p, len)) /\ st \in OpsOn(Offsets(p, len))
  BY IntoIs
<1>2. a \in LoopOf(p, len) /\ u.ops = b.ops
  BY IntoIs
<1>3. op.op \notin MemOps /\ st.op \in MemOps /\ st.off = dst
  BY DEF ArithOp, StoreOp, Kind, MemOps
<1>4. DOMAIN u.reg = DOMAIN g.reg \union {dst}
  <2> DEFINE h == Inserted(g.reg, dst, next)
  <2>1. u = Into(g, i, l, r, next) /\ h = Inserted(g.reg, dst, next)
    OBVIOUS
  <2>2. DOMAIN h = DOMAIN g.reg \union {dst}
    BY DEF Inserted
  <2> HIDE DEF op, st, a, b, u, h
  <2>3. u.reg = h
    BY <2>1, IntoRecords
  <2>4. QED
    BY <2>2, <2>3
<1> HIDE DEF op, st, u
<1>5. Named(b.ops) = Named(a.ops) \union (IF st.op \in MemOps THEN {st.off} ELSE {})
  <2> HIDE DEF a
  <2>1. QED
    BY <1>1, <1>2, PushRuns
<1>6. Named(a.ops) = Named(g.ops) \union (IF op.op \in MemOps THEN {op.off} ELSE {})
  BY <1>1, PushRuns
<1> HIDE DEF a, b
<1>7. Named(u.ops) = Named(g.ops) \union {dst}
  BY <1>2, <1>3, <1>5, <1>6
<1>8. QED
  BY <1>4, <1>7 DEF u, Names, Registered

LEMMA IntoHolds ==
  ASSUME NEW p \in Seq(OpCode), NEW len, NEW g \in LoopOf(p, len),
         NEW i \in Fused(p, len), NEW dst, dst = i.dst, i.dst \in Tensors(i),
         NEW l \in Nat, NEW r \in Nat, NEW next \in Nat, NEW f, NEW c,
         Reaches(f, Into(g, i, l, r, next)), KeepsTo(g, next, At(f, g), c), dst \in DOMAIN c
  PROVE  Keeps(Into(g, i, l, r, next), At(f, Into(g, i, l, r, next)),
               Put(c, dst, Arith(Kind(i), Operand(At(f, g), l), Operand(At(f, g), r))))
<1>2. At(f, Into(g, i, l, r, next))
        = After(StoreOp(next, dst), After(ArithOp(Kind(i), l, r, next), At(f, g)))
  BY IntoRuns
<1> DEFINE op == ArithOp(Kind(i), l, r, next)
           st == StoreOp(next, dst)
           h  == Inserted(g.reg, dst, next)
           n  == next + 1
           u  == Into(g, i, l, r, next)
           s  == At(f, g)
           a  == After(op, s)
           t  == At(f, u)
           v  == Arith(Kind(i), Reg(s.regs, l), Reg(s.regs, r))
           d  == Put(c, dst, v)
<1>1. u.reg = h /\ u.next = n
  BY IntoIs
<1>3. Holds(g.reg, next, s, c)
  BY DEF KeepsTo
<1>4. a = [mem |-> s.mem, regs |-> Inserted(s.regs, next, v)]
  <2>1. op.op \in {"Add", "Mul"} /\ op.op = Kind(i) /\ op.l = l /\ op.r = r /\ op.reg = next
    BY DEF ArithOp, Kind
  <2> HIDE DEF op
  <2>2. QED
    BY <2>1 DEF After, Computed, MemOps
<1>5. After(st, a) = [mem |-> [a.mem EXCEPT ![dst] = Reg(a.regs, next)], regs |-> a.regs]
  BY DEF After, StoreOp
<1>17. t = After(st, a)
  BY <1>2
<1> HIDE DEF s, t, op, st, a, v, u, h
<1>6. /\ t.mem = [c EXCEPT ![dst] = Reg(t.regs, next)]
      /\ t.regs = Inserted(s.regs, next, v)
  <2>1. a.mem = c /\ a.regs = Inserted(s.regs, next, v)
    BY <1>3, <1>4 DEF Holds
  <2>2. t = [mem |-> [c EXCEPT ![dst] = Reg(a.regs, next)], regs |-> a.regs]
    BY <1>5, <1>17, <2>1
  <2>3. QED
    BY <2>1, <2>2
<1>7. /\ DOMAIN t.regs = {next} \union DOMAIN s.regs /\ t.regs[next] = v
      /\ \A x \in DOMAIN s.regs : x # next => t.regs[x] = s.regs[x]
  BY <1>6 DEF Inserted
<1>8. t.mem = d /\ DOMAIN d = DOMAIN c /\ d = [off \in DOMAIN d |-> d[off]]
      /\ d[dst] = v /\ \A x \in DOMAIN c : x # dst => d[x] = c[x]
  BY <1>6, <1>7 DEF Reg, Put
<1> HIDE DEF d
<1>9. n \in Nat /\ \A x \in DOMAIN t.regs : x \in Nat /\ x < n
  BY <1>3, <1>7 DEF Holds
<1>10. h[dst] = next /\ DOMAIN h = DOMAIN g.reg \union {dst}
       /\ \A x \in DOMAIN g.reg : x # dst => h[x] = g.reg[x]
  BY DEF h, Inserted
<1>11. \A x \in DOMAIN g.reg : x \in DOMAIN c /\ g.reg[x] \in DOMAIN s.regs
                             /\ s.regs[g.reg[x]] = c[x] /\ g.reg[x] \in Nat /\ g.reg[x] < next
  BY <1>3 DEF Holds, Agree
<1>12. \A x \in DOMAIN g.reg : g.reg[x] # next
  BY <1>11
<1>13. \A x \in DOMAIN h : x \in DOMAIN d /\ h[x] \in DOMAIN t.regs /\ t.regs[h[x]] = d[x]
  BY <1>7, <1>8, <1>10, <1>11, <1>12
<1>14. \A x, y \in DOMAIN h : h[x] = h[y] => x = y
  <2>1. \A x, y \in DOMAIN g.reg : g.reg[x] = g.reg[y] => x = y
    BY <1>3 DEF Holds, Agree
  <2>2. QED
    BY <1>10, <1>12, <2>1
<1>15. Holds(h, n, t, d)
  BY <1>8, <1>9, <1>13, <1>14 DEF Holds, Agree
<1>16. QED
  <2> HIDE DEF n
  <2>1. Holds(u.reg, u.next, t, d)
    BY <1>1, <1>15
  <2>2. QED
    BY <2>1 DEF u, t, d, v, s, Keeps, KeepsTo, Operand

LEMMA IntoHoldsAll ==
  ASSUME NEW p \in Seq(OpCode), NEW len, NEW g \in LoopOf(p, len),
         NEW i \in Fused(p, len), NEW dst, dst = i.dst, i.dst \in Tensors(i), NEW f, NEW c
  PROVE  \A l, r, next \in Nat :
           Reaches(f, Into(g, i, l, r, next)) /\ KeepsTo(g, next, At(f, g), c) /\ dst \in DOMAIN c
             => Keeps(Into(g, i, l, r, next), At(f, Into(g, i, l, r, next)),
                      Put(c, dst, Arith(Kind(i), Operand(At(f, g), l), Operand(At(f, g), r))))
<1>1. ASSUME NEW l \in Nat, NEW r \in Nat, NEW next \in Nat,
             Reaches(f, Into(g, i, l, r, next)), KeepsTo(g, next, At(f, g), c), dst \in DOMAIN c
      PROVE  Keeps(Into(g, i, l, r, next), At(f, Into(g, i, l, r, next)),
                   Put(c, dst, Arith(Kind(i), Operand(At(f, g), l), Operand(At(f, g), r))))
  BY <1>1, IntoHolds
<1>2. QED
  BY <1>1

(* A register changes with the tensor it stands for. *)
LEMMA Updated ==
  ASSUME NEW reg, NEW regs, NEW c, Agree(reg, regs, c), NEW y \in DOMAIN reg, NEW v
  PROVE  /\ Agree(reg, Inserted(regs, reg[y], v), [c EXCEPT ![y] = v])
         /\ DOMAIN Inserted(regs, reg[y], v) = DOMAIN regs
<1> DEFINE new == Inserted(regs, reg[y], v)
           d   == [c EXCEPT ![y] = v]
<1>1. /\ DOMAIN new = DOMAIN regs /\ new[reg[y]] = v
      /\ \A r \in DOMAIN regs : r # reg[y] => new[r] = regs[r]
  BY DEF Inserted, Agree
<1>2. DOMAIN d = DOMAIN c /\ d[y] = v /\ \A x \in DOMAIN c : x # y => d[x] = c[x]
  BY DEF Agree
<1> HIDE DEF new, d
<1>3. QED
  BY <1>1, <1>2 DEF Agree, new, d

(* An optimizer step on the registers of four tensors. *)
LEMMA StepAgrees ==
  ASSUME NEW i, i.op = "AdamWStep", NEW reg, NEW regs, NEW c, Agree(reg, regs, c),
         c = [off \in DOMAIN c |-> c[off]],
         {i.w, i.g, i.m, i.v} \subseteq DOMAIN reg
  PROVE  LET op == StepOp(reg[i.w], reg[i.g], reg[i.m], reg[i.v])
             d  == Column(i, c)
         IN  /\ Agree(reg, Computed(op, regs), d)
             /\ DOMAIN Computed(op, regs) = DOMAIN regs /\ DOMAIN d = DOMAIN c
             /\ d = [off \in DOMAIN d |-> d[off]]
             /\ \A x \in DOMAIN c : x \notin {i.w, i.m, i.v} => d[x] = c[x]
<1> DEFINE op == StepOp(reg[i.w], reg[i.g], reg[i.m], reg[i.v])
           a  == Wrap16(Mean16(c[i.m], c[i.g]))
           c1 == [c EXCEPT ![i.m] = a]
           r1 == Inserted(regs, reg[i.m], a)
           b  == Wrap16(Var16(c1[i.v], Square(c[i.g])))
           c2 == [c1 EXCEPT ![i.v] = b]
           r2 == Inserted(r1, reg[i.v], b)
           e  == Wrap16(c2[i.w] - c1[i.m] \div 16)
           c3 == [c2 EXCEPT ![i.w] = e]
           r3 == Inserted(r2, reg[i.w], e)
<1>1. /\ op.op = "AdamWStep" /\ op.w = reg[i.w] /\ op.g = reg[i.g]
      /\ op.m = reg[i.m] /\ op.v = reg[i.v]
  BY DEF StepOp
<1> HIDE DEF op
<1>2. CASE backend # "jit"
  <2>1. Column(i, c) = c
    BY <1>2 DEF Column, VecOneOps
  <2>2. Computed(op, regs) = regs
    BY <1>1, <1>2 DEF Computed
  <2>3. QED
    BY <2>1, <2>2 DEF op
<1>3. CASE backend = "jit"
  <2>1. Column(i, c) = c3
    BY <1>3 DEF Column, VecOneOps
  <2>2. /\ Reg(regs, reg[i.g]) = c[i.g] /\ Reg(regs, reg[i.m]) = c[i.m]
        /\ {i.w, i.g, i.m, i.v} \subseteq DOMAIN c
    BY DEF Agree, Reg
  <2>3. /\ Agree(reg, r1, c1) /\ DOMAIN r1 = DOMAIN regs /\ DOMAIN c1 = DOMAIN c
        /\ c1 = [off \in DOMAIN c1 |-> c1[off]]
        /\ \A x \in DOMAIN c : x # i.m => c1[x] = c[x]
    <3> HIDE DEF a
    <3>1. QED
      BY Updated
  <2>4. Reg(r1, reg[i.v]) = c1[i.v] /\ Reg(r1, reg[i.m]) = c1[i.m]
    BY <2>3 DEF Agree, Reg
  <2>5. /\ Agree(reg, r2, c2) /\ DOMAIN r2 = DOMAIN regs /\ DOMAIN c2 = DOMAIN c
        /\ c2 = [off \in DOMAIN c2 |-> c2[off]]
        /\ \A x \in DOMAIN c : x # i.m /\ x # i.v => c2[x] = c[x]
    <3> HIDE DEF b, r1, c1
    <3>1. Agree(reg, r2, c2) /\ DOMAIN r2 = DOMAIN r1
      <4>1. Agree(reg, r1, c1) /\ i.v \in DOMAIN reg
        BY <2>3
      <4>2. QED
        BY <4>1, Updated
    <3>2. QED
      BY <2>3, <3>1
  <2>6. Reg(r2, reg[i.w]) = c2[i.w]
    BY <2>5 DEF Agree, Reg
  <2>7. /\ Agree(reg, r3, c3) /\ DOMAIN r3 = DOMAIN regs /\ DOMAIN c3 = DOMAIN c
        /\ c3 = [off \in DOMAIN c3 |-> c3[off]]
        /\ \A x \in DOMAIN c : x \notin {i.w, i.m, i.v} => c3[x] = c[x]
    <3> HIDE DEF e, r2, c2
    <3>1. Agree(reg, r3, c3) /\ DOMAIN r3 = DOMAIN r2
      <4>1. Agree(reg, r2, c2) /\ i.w \in DOMAIN reg
        BY <2>5
      <4>2. QED
        BY <4>1, Updated
    <3>2. QED
      BY <2>5, <3>1
  <2>8. Computed(op, regs) = AdamWJit(op, regs)
    BY <1>1, <1>3 DEF Computed
  <2>9. AdamWJit(op, regs)
          = LET mean   == Inserted(regs, reg[i.m],
                                   Wrap16(Mean16(Reg(regs, reg[i.m]), Reg(regs, reg[i.g]))))
                square == Inserted(mean, reg[i.v],
                                   Wrap16(Var16(Reg(mean, reg[i.v]), Square(Reg(regs, reg[i.g])))))
            IN  Inserted(square, reg[i.w],
                         Wrap16(Reg(square, reg[i.w]) - Reg(mean, reg[i.m]) \div 16))
    BY <1>1 DEF AdamWJit
  <2>10. Inserted(regs, reg[i.m], Wrap16(Mean16(Reg(regs, reg[i.m]), Reg(regs, reg[i.g])))) = r1
    BY <2>2
  <2>11. Inserted(r1, reg[i.v], Wrap16(Var16(Reg(r1, reg[i.v]), Square(Reg(regs, reg[i.g]))))) = r2
    <3> HIDE DEF r1, c1
    <3>1. QED
      BY <2>2, <2>4
  <2>12. Inserted(r2, reg[i.w], Wrap16(Reg(r2, reg[i.w]) - Reg(r1, reg[i.m]) \div 16)) = r3
    <3> HIDE DEF r1, c1, r2, c2
    <3>1. QED
      BY <2>4, <2>6
  <2>13. Computed(op, regs) = r3
    <3> HIDE DEF r1, r2, r3
    <3>1. QED
      BY <2>8, <2>9, <2>10, <2>11, <2>12
  <2>14. QED
    <3> HIDE DEF r3, c3
    <3>1. QED
      BY <2>1, <2>7, <2>13 DEF op
<1>4. QED
  BY <1>2, <1>3

(* The group stores the register of a tensor to it. *)
Stored(g, off) == Push(g, StoreOp(g.reg[off], off))

LEMMA StoreIs ==
  ASSUME NEW p \in Seq(OpCode), NEW len, NEW g \in LoopOf(p, len),
         NEW off \in Offsets(p, len), off \in DOMAIN g.reg
  PROVE  /\ StoreOp(g.reg[off], off) \in OpsOn(Offsets(p, len))
         /\ StoreOp(g.reg[off], off).op = "Store"
         /\ StoreOp(g.reg[off], off).reg = g.reg[off] /\ StoreOp(g.reg[off], off).off = off
<1>1. g.reg[off] \in Nat
  BY RegisterTyped
<1>2. QED
  BY <1>1 DEF StoreOp, OpsOn

LEMMA StoreTyped ==
  ASSUME NEW p \in Seq(OpCode), NEW len, NEW g \in LoopOf(p, len),
         NEW off \in Offsets(p, len), off \in DOMAIN g.reg
  PROVE  /\ Stored(g, off) \in LoopOf(p, len)
         /\ Stored(g, off).reg = g.reg /\ Stored(g, off).next = g.next
<1> DEFINE op == StoreOp(g.reg[off], off)
<1>1. op \in OpsOn(Offsets(p, len))
  BY StoreIs
<1> HIDE DEF op
<1>2. QED
  BY <1>1, PushTyped DEF Stored, op

LEMMA StoreNames ==
  ASSUME NEW p \in Seq(OpCode), NEW len, NEW g \in LoopOf(p, len),
         NEW off \in Offsets(p, len), off \in DOMAIN g.reg
  PROVE  Named(Stored(g, off).ops) = Named(g.ops) \union {off}
<1> DEFINE op == StoreOp(g.reg[off], off)
<1>1. op \in OpsOn(Offsets(p, len)) /\ op.op \in MemOps /\ op.off = off
  BY StoreIs DEF MemOps
<1> HIDE DEF op
<1>2. Named(Push(g, op).ops) = Named(g.ops) \union (IF op.op \in MemOps THEN {op.off} ELSE {})
  BY <1>1, PushRuns
<1>3. QED
  BY <1>1, <1>2 DEF Stored, op

LEMMA StoreRuns ==
  ASSUME NEW p \in Seq(OpCode), NEW len, NEW g \in LoopOf(p, len),
         NEW off \in Offsets(p, len), off \in DOMAIN g.reg, NEW f, Reaches(f, Stored(g, off))
  PROVE  /\ Reaches(f, g) /\ At(f, Stored(g, off)).regs = At(f, g).regs
         /\ At(f, Stored(g, off)).mem = Put(At(f, g).mem, off, Reg(At(f, g).regs, g.reg[off]))
<1> DEFINE op == StoreOp(g.reg[off], off)
<1>1. /\ op \in OpsOn(Offsets(p, len)) /\ op.op = "Store"
      /\ op.reg = g.reg[off] /\ op.off = off
  BY StoreIs
<1> HIDE DEF op
<1>2. Reaches(f, g) /\ At(f, Push(g, op)) = After(op, At(f, g))
  <2>1. Reaches(f, Push(g, op))
    BY DEF Stored, op
  <2>2. QED
    BY <1>1, <2>1, PushRuns
<1>3. After(op, At(f, g)) = [mem |-> [At(f, g).mem EXCEPT ![off] = Reg(At(f, g).regs, g.reg[off])],
                             regs |-> At(f, g).regs]
  BY <1>1 DEF After
<1>4. QED
  BY <1>2, <1>3 DEF op, Stored, Put

(* A register that agrees with d is stored. *)
LEMMA StoreHolds ==
  ASSUME NEW p \in Seq(OpCode), NEW len, NEW g \in LoopOf(p, len),
         NEW off \in Offsets(p, len), off \in DOMAIN g.reg, NEW f, NEW d,
         Reaches(f, Stored(g, off)), Agree(g.reg, At(f, g).regs, d)
  PROVE  /\ At(f, Stored(g, off)).regs = At(f, g).regs
         /\ At(f, Stored(g, off)).mem = Put(At(f, g).mem, off, d[off])
<1>1. Reg(At(f, g).regs, g.reg[off]) = d[off]
  BY DEF Agree, Reg
<1>2. QED
  BY <1>1, StoreRuns

(* An instruction joins a group: the registers of the group hold what the  *)
(* instruction makes of the element, and memory does.                      *)
LEMMA EmitHolds ==
  ASSUME NEW p \in Seq(OpCode), NEW len, NEW g \in LoopOf(p, len), NEW i \in Fused(p, len),
         NEW f, NEW c
  PROVE  LET u == Emit(g, i) IN
         /\ Reaches(f, u) => Reaches(f, g)
         /\ Reaches(f, u) /\ Holds(g.reg, g.next, At(f, g), c) /\ Tensors(i) \subseteq DOMAIN c
              => Holds(u.reg, u.next, At(f, u), Column(i, c))
         /\ DOMAIN g.reg \subseteq Named(g.ops)
              => /\ DOMAIN u.reg \subseteq Named(u.ops)
                 /\ Named(g.ops) \union Tensors(i) \subseteq Named(u.ops)
<1>1. i \in OpCode /\ i.op \in FusableOps
  BY InRange DEF Fused
<1>2. \A off \in Tensors(i) : off \in Offsets(p, len)
  BY DEF Offsets
<1>3. CASE i.op \in {"AddVec", "MulVec"}
  <2> DEFINE a == Use(g, i.lhs)
             b == Use(a, i.rhs)
             u == Into(b, i, b.reg[i.lhs], b.reg[i.rhs], b.next)
  <2>1. Tensors(i) = {i.lhs, i.rhs, i.dst}
    BY <1>3 DEF Tensors, VecOneOps
  <2>2. Emit(g, i) = u
    BY <1>3 DEF Emit, VecOneOps
  <2>3. Column(i, c) = Put(c, i.dst, Arith(Kind(i), c[i.lhs], c[i.rhs]))
    BY <1>3 DEF Column, VecOneOps, Put
  <2>4. /\ a \in LoopOf(p, len) /\ i.lhs \in DOMAIN a.reg
        /\ Reaches(f, a) => Reaches(f, g)
        /\ Reaches(f, a) /\ Holds(g.reg, g.next, At(f, g), c) /\ i.lhs \in DOMAIN c
             => Holds(a.reg, a.next, At(f, a), c)
        /\ Named(g.ops) \subseteq Named(a.ops)
        /\ DOMAIN g.reg \subseteq Named(g.ops) => DOMAIN a.reg \subseteq Named(a.ops)
    BY <1>2, <2>1, UseTyped, UseHolds
  <2> HIDE DEF a
  <2>5. /\ b \in LoopOf(p, len) /\ {i.lhs, i.rhs} \subseteq DOMAIN b.reg
        /\ Reaches(f, b) => Reaches(f, a)
        /\ Reaches(f, b) /\ Holds(a.reg, a.next, At(f, a), c) /\ i.rhs \in DOMAIN c
             => Holds(b.reg, b.next, At(f, b), c)
        /\ Named(a.ops) \subseteq Named(b.ops)
        /\ DOMAIN a.reg \subseteq Named(a.ops) => DOMAIN b.reg \subseteq Named(b.ops)
    BY <1>2, <2>1, <2>4, UseTyped, UseHolds
  <2> HIDE DEF b
  <2>6. b.reg[i.lhs] \in Nat /\ b.reg[i.rhs] \in Nat /\ b.next \in Nat
    BY <2>5, RegisterTyped DEF LoopOf
  <2> DEFINE v == Arith(Kind(i), Reg(At(f, b).regs, b.reg[i.lhs]), Reg(At(f, b).regs, b.reg[i.rhs]))
  <2>7. /\ Reaches(f, u) => Reaches(f, b)
        /\ Reaches(f, u) /\ Holds(b.reg, b.next, At(f, b), c) /\ i.dst \in DOMAIN c
                  => Holds(u.reg, u.next, At(f, u), Put(c, i.dst, v))
        /\ Named(u.ops) = Named(b.ops) \union {i.dst}
        /\ DOMAIN u.reg = DOMAIN b.reg \union {i.dst}
    <3> DEFINE l == b.reg[i.lhs]
               r == b.reg[i.rhs]
               dst == i.dst
               n == b.next
    <3>1. b \in LoopOf(p, len) /\ dst = i.dst /\ i.dst \in Tensors(i) /\ l \in Nat /\ r \in Nat /\ n \in Nat
      BY <2>1, <2>5, <2>6
    <3> HIDE DEF l, r, n, dst
    <3>2. Reaches(f, Into(b, i, l, r, n)) => Reaches(f, b)
      BY <3>1, IntoRuns
    <3>3. Reaches(f, Into(b, i, l, r, n)) /\ KeepsTo(b, n, At(f, b), c) /\ dst \in DOMAIN c
            => Keeps(Into(b, i, l, r, n), At(f, Into(b, i, l, r, n)),
                     Put(c, dst, Arith(Kind(i), Operand(At(f, b), l), Operand(At(f, b), r))))
      BY <3>1, IntoHoldsAll
    <3>4. Names(Into(b, i, l, r, n)) = Names(b) \union {dst}
      BY <3>1, IntoNames
    <3>5. Registered(Into(b, i, l, r, n)) = Registered(b) \union {dst}
      BY <3>1, IntoNames
    <3>6. QED
      BY <3>2, <3>3, <3>4, <3>5 DEF l, r, n, dst, Names, Registered, Keeps, KeepsTo, Operand
  <2>8. Holds(b.reg, b.next, At(f, b), c) => v = Arith(Kind(i), c[i.lhs], c[i.rhs])
    BY <2>5 DEF Holds, Agree, Reg
  <2> HIDE DEF u, v
  <2>9. ASSUME Reaches(f, u), Holds(g.reg, g.next, At(f, g), c), Tensors(i) \subseteq DOMAIN c
        PROVE  Holds(u.reg, u.next, At(f, u), Column(i, c))
    <3>1. i.lhs \in DOMAIN c /\ i.rhs \in DOMAIN c /\ i.dst \in DOMAIN c
      BY <2>1, <2>9
    <3>2. Holds(b.reg, b.next, At(f, b), c)
      BY <2>4, <2>5, <2>7, <2>9, <3>1
    <3>3. QED
      BY <2>3, <2>7, <2>8, <2>9, <3>1, <3>2
  <2>10. QED
    BY <2>1, <2>2, <2>4, <2>5, <2>7, <2>9
<1>4. CASE i.op \in VecOneOps
  <2> DEFINE a  == Use(g, i.lhs)
             op == ConstOp(i.val, a.next)
             b  == Push(a, op)
             n  == a.next + 1
             u  == Into(b, i, a.reg[i.lhs], a.next, n)
             k  == IF backend = "jit" THEN i.val ELSE 0
  <2>1. Tensors(i) = {i.lhs, i.dst}
    BY <1>4 DEF Tensors, VecOneOps
  <2>2. Emit(g, i) = u
    BY <1>4 DEF Emit, VecOneOps
  <2>3. Column(i, c) = Put(c, i.dst, Arith(Kind(i), c[i.lhs], k))
    BY <1>4 DEF Column, VecOneOps, Put
  <2>4. /\ a \in LoopOf(p, len) /\ i.lhs \in DOMAIN a.reg
        /\ Reaches(f, a) => Reaches(f, g)
        /\ Reaches(f, a) /\ Holds(g.reg, g.next, At(f, g), c) /\ i.lhs \in DOMAIN c
             => Holds(a.reg, a.next, At(f, a), c)
        /\ Named(g.ops) \subseteq Named(a.ops)
        /\ DOMAIN g.reg \subseteq Named(g.ops) => DOMAIN a.reg \subseteq Named(a.ops)
    BY <1>2, <2>1, UseTyped, UseHolds
  <2> HIDE DEF a
  <2>5. a.next \in Nat /\ n \in Nat /\ a.reg[i.lhs] \in Nat
    BY <2>4, RegisterTyped DEF LoopOf
  <2>6. /\ op \in OpsOn(Offsets(p, len)) /\ op.op = "LoadConst"
        /\ op.reg = a.next /\ op.val = i.val
    BY <1>1, <1>4, <2>5, Fields DEF ConstOp, OpsOn
  <2> HIDE DEF op
  <2>7. b \in LoopOf(p, len) /\ b.reg = a.reg
    BY <2>4, <2>6, PushTyped
  <2>8. /\ Reaches(f, b) <=> Reaches(f, a) /\ At(f, b) = After(op, At(f, a))
        /\ Named(b.ops) = Named(a.ops)
    <3>1. op.op \notin MemOps
      BY <2>6 DEF MemOps
    <3>2. /\ Reaches(f, b) <=> Reaches(f, a) /\ At(f, b) = After(op, At(f, a))
          /\ Named(b.ops) = Named(a.ops) \union (IF op.op \in MemOps THEN {op.off} ELSE {})
      BY <2>4, <2>6, PushRuns
    <3> HIDE DEF b
    <3>3. QED
      BY <3>1, <3>2
  <2>9. After(op, At(f, a))
          = [mem |-> At(f, a).mem,
             regs |-> IF backend = "jit" THEN Inserted(At(f, a).regs, a.next, i.val)
                                         ELSE At(f, a).regs]
    BY <2>6 DEF After, Computed
  <2> DEFINE v == Arith(Kind(i), Reg(At(f, b).regs, a.reg[i.lhs]), Reg(At(f, b).regs, a.next))
  <2> HIDE DEF b, n
  <2>10. /\ Reaches(f, u) => Reaches(f, b)
         /\ Reaches(f, u) /\ Holds(b.reg, n, At(f, b), c) /\ i.dst \in DOMAIN c
                  => Holds(u.reg, u.next, At(f, u), Put(c, i.dst, v))
         /\ Named(u.ops) = Named(b.ops) \union {i.dst}
         /\ DOMAIN u.reg = DOMAIN b.reg \union {i.dst}
    <3> DEFINE l == a.reg[i.lhs]
               r == a.next
               dst == i.dst
    <3>1. b \in LoopOf(p, len) /\ dst = i.dst /\ i.dst \in Tensors(i) /\ l \in Nat /\ r \in Nat /\ n \in Nat
      BY <2>1, <2>5, <2>7
    <3> HIDE DEF l, r, dst
    <3>2. Reaches(f, Into(b, i, l, r, n)) => Reaches(f, b)
      BY <3>1, IntoRuns
    <3>3. Reaches(f, Into(b, i, l, r, n)) /\ KeepsTo(b, n, At(f, b), c) /\ dst \in DOMAIN c
            => Keeps(Into(b, i, l, r, n), At(f, Into(b, i, l, r, n)),
                     Put(c, dst, Arith(Kind(i), Operand(At(f, b), l), Operand(At(f, b), r))))
      BY <3>1, IntoHoldsAll
    <3>4. Names(Into(b, i, l, r, n)) = Names(b) \union {dst}
      BY <3>1, IntoNames
    <3>5. Registered(Into(b, i, l, r, n)) = Registered(b) \union {dst}
      BY <3>1, IntoNames
    <3>6. QED
      BY <3>2, <3>3, <3>4, <3>5 DEF l, r, dst, Names, Registered, Keeps, KeepsTo, Operand
  <2>11. ASSUME Reaches(f, b), Holds(a.reg, a.next, At(f, a), c)
         PROVE  Holds(b.reg, n, At(f, b), c) /\ v = Arith(Kind(i), c[i.lhs], k)
    <3> DEFINE s == At(f, a)
               t == At(f, b)
    <3>1. t = [mem |-> s.mem, regs |-> IF backend = "jit" THEN Inserted(s.regs, a.next, i.val)
                                                          ELSE s.regs]
      BY <2>8, <2>9, <2>11
    <3>2. Holds(a.reg, a.next, s, c)
      BY <2>11
    <3> HIDE DEF s, t, k
    <3>3. /\ \A r \in DOMAIN s.regs : r \in Nat /\ r < a.next
          /\ Agree(a.reg, s.regs, c) /\ s.mem = c /\ c = [off \in DOMAIN c |-> c[off]]
      BY <3>2 DEF Holds
    <3>4. a.next \notin DOMAIN s.regs
      BY <2>5, <3>3
    <3>5. /\ t.mem = c
          /\ \A r \in DOMAIN t.regs : r \in Nat /\ r < n
          /\ \A r \in DOMAIN s.regs : r \in DOMAIN t.regs /\ t.regs[r] = s.regs[r]
          /\ Reg(t.regs, a.next) = k
      <4>1. CASE backend = "jit"
        <5>1. t.regs = Inserted(s.regs, a.next, i.val) /\ t.mem = c
          BY <3>1, <3>3, <4>1
        <5>2. /\ DOMAIN t.regs = {a.next} \union DOMAIN s.regs /\ t.regs[a.next] = i.val
              /\ \A r \in DOMAIN s.regs : t.regs[r] = s.regs[r]
          BY <3>4, <5>1 DEF Inserted
        <5>3. k = i.val
          BY <4>1 DEF k
        <5>4. QED
          BY <2>5, <3>3, <5>1, <5>2, <5>3 DEF Reg, n
      <4>2. CASE backend # "jit"
        <5>1. t.regs = s.regs /\ t.mem = c /\ k = 0
          BY <3>1, <3>3, <4>2 DEF k
        <5>2. QED
          BY <2>5, <3>3, <3>4, <5>1 DEF Reg, n
      <4>3. QED
        BY <4>1, <4>2
    <3>6. Agree(b.reg, t.regs, c)
      BY <2>7, <3>3, <3>5 DEF Agree
    <3>7. Reg(t.regs, a.reg[i.lhs]) = c[i.lhs]
      BY <2>4, <2>7, <3>6 DEF Agree, Reg
    <3>8. QED
      BY <2>5, <3>3, <3>5, <3>6, <3>7 DEF Holds, t
  <2> HIDE DEF u, v, k
  <2>12. ASSUME Reaches(f, u), Holds(g.reg, g.next, At(f, g), c), Tensors(i) \subseteq DOMAIN c
        PROVE  Holds(u.reg, u.next, At(f, u), Column(i, c))
    <3>1. i.lhs \in DOMAIN c /\ i.dst \in DOMAIN c
      BY <2>1, <2>12
    <3>2. Holds(a.reg, a.next, At(f, a), c) /\ Reaches(f, b)
      BY <2>4, <2>8, <2>10, <2>12, <3>1
    <3>3. QED
      BY <2>3, <2>10, <2>11, <2>12, <3>1, <3>2
  <2>13. ASSUME DOMAIN g.reg \subseteq Named(g.ops)
         PROVE  /\ DOMAIN u.reg \subseteq Named(u.ops)
                /\ Named(g.ops) \union Tensors(i) \subseteq Named(u.ops)
    BY <2>1, <2>4, <2>7, <2>8, <2>10, <2>13
  <2>14. QED
    BY <2>2, <2>4, <2>8, <2>10, <2>12, <2>13
<1>5. CASE i.op = "AdamWStep"
  <2> DEFINE a == Use(g, i.w)
             b == Use(a, i.g)
             e == Use(b, i.m)
             u == Use(e, i.v)
             op == StepOp(u.reg[i.w], u.reg[i.g], u.reg[i.m], u.reg[i.v])
             s == Push(u, op)
             x == Push(s, StoreOp(u.reg[i.w], i.w))
             y == Push(x, StoreOp(u.reg[i.m], i.m))
             z == Push(y, StoreOp(u.reg[i.v], i.v))
             d == Column(i, c)
  <2>1. Tensors(i) = {i.w, i.g, i.m, i.v}
    BY <1>5 DEF Tensors, VecOneOps
  <2>2. Emit(g, i) = z
    BY <1>5 DEF Emit, VecOneOps
  <2>3. /\ a \in LoopOf(p, len) /\ {i.w} \subseteq DOMAIN a.reg
        /\ Reaches(f, a) => Reaches(f, g)
        /\ Reaches(f, a) /\ Holds(g.reg, g.next, At(f, g), c) /\ i.w \in DOMAIN c
             => Holds(a.reg, a.next, At(f, a), c)
        /\ Named(g.ops) \subseteq Named(a.ops)
        /\ DOMAIN g.reg \subseteq Named(g.ops) => DOMAIN a.reg \subseteq Named(a.ops)
    BY <1>2, <2>1, UseTyped, UseHolds
  <2> HIDE DEF a
  <2>4. /\ b \in LoopOf(p, len) /\ {i.w, i.g} \subseteq DOMAIN b.reg
        /\ Reaches(f, b) => Reaches(f, a)
        /\ Reaches(f, b) /\ Holds(a.reg, a.next, At(f, a), c) /\ i.g \in DOMAIN c
             => Holds(b.reg, b.next, At(f, b), c)
        /\ Named(a.ops) \subseteq Named(b.ops)
        /\ DOMAIN a.reg \subseteq Named(a.ops) => DOMAIN b.reg \subseteq Named(b.ops)
    BY <1>2, <2>1, <2>3, UseTyped, UseHolds
  <2> HIDE DEF b
  <2>5. /\ e \in LoopOf(p, len) /\ {i.w, i.g, i.m} \subseteq DOMAIN e.reg
        /\ Reaches(f, e) => Reaches(f, b)
        /\ Reaches(f, e) /\ Holds(b.reg, b.next, At(f, b), c) /\ i.m \in DOMAIN c
             => Holds(e.reg, e.next, At(f, e), c)
        /\ Named(b.ops) \subseteq Named(e.ops)
        /\ DOMAIN b.reg \subseteq Named(b.ops) => DOMAIN e.reg \subseteq Named(e.ops)
    BY <1>2, <2>1, <2>4, UseTyped, UseHolds
  <2> HIDE DEF e
  <2>6. /\ u \in LoopOf(p, len) /\ {i.w, i.g, i.m, i.v} \subseteq DOMAIN u.reg
        /\ Reaches(f, u) => Reaches(f, e)
        /\ Reaches(f, u) /\ Holds(e.reg, e.next, At(f, e), c) /\ i.v \in DOMAIN c
             => Holds(u.reg, u.next, At(f, u), c)
        /\ Named(e.ops) \subseteq Named(u.ops)
        /\ DOMAIN e.reg \subseteq Named(e.ops) => DOMAIN u.reg \subseteq Named(u.ops)
    <3>1. i.v \in Tensors(i) /\ e \in LoopOf(p, len)
      BY <2>1, <2>5
    <3>2. {i.w, i.g, i.m} \subseteq DOMAIN e.reg
      BY <2>5
    <3>3. i.v \in Offsets(p, len)
      BY <1>2, <3>1
    <3>4. u \in LoopOf(p, len) /\ i.v \in DOMAIN u.reg /\ DOMAIN e.reg \subseteq DOMAIN u.reg
      BY <3>1, <3>3, UseTyped
    <3>5. /\ Reaches(f, u) => Reaches(f, e)
          /\ Reaches(f, u) /\ Holds(e.reg, e.next, At(f, e), c) /\ i.v \in DOMAIN c
               => Holds(u.reg, u.next, At(f, u), c)
          /\ Named(e.ops) \subseteq Named(u.ops)
          /\ DOMAIN e.reg \subseteq Named(e.ops) => DOMAIN u.reg \subseteq Named(u.ops)
      BY <3>1, <3>3, UseHolds
    <3>6. QED
      BY <3>2, <3>4, <3>5
  <2> HIDE DEF u
  <2>7. /\ op \in OpsOn(Offsets(p, len)) /\ op.op = "AdamWStep"
    <3>1. \A off \in {i.w, i.g, i.m, i.v} : u.reg[off] \in Nat
      BY <2>6, RegisterTyped
    <3>2. QED
      BY <3>1 DEF StepOp, OpsOn
  <2>8. /\ s \in LoopOf(p, len) /\ s.reg = u.reg /\ s.next = u.next
        /\ Reaches(f, s) <=> Reaches(f, u) /\ At(f, s) = After(op, At(f, u))
        /\ Named(s.ops) = Named(u.ops)
    <3> HIDE DEF op
    <3>1. s \in LoopOf(p, len) /\ s.reg = u.reg /\ s.next = u.next
      BY <2>6, <2>7, PushTyped
    <3>2. op.op \notin MemOps
      BY <2>7 DEF MemOps
    <3>3. /\ Reaches(f, s) <=> Reaches(f, u) /\ At(f, s) = After(op, At(f, u))
          /\ Named(s.ops) = Named(u.ops) \union (IF op.op \in MemOps THEN {op.off} ELSE {})
      BY <2>6, <2>7, PushRuns
    <3> HIDE DEF s
    <3>4. QED
      BY <3>1, <3>2, <3>3
  <2>9. After(op, At(f, u)) = [mem |-> At(f, u).mem, regs |-> Computed(op, At(f, u).regs)]
    <3> HIDE DEF op
    <3>1. QED
      BY <2>7 DEF After
  <2> HIDE DEF s
  <2>10. /\ x \in LoopOf(p, len) /\ x.reg = u.reg /\ x.next = u.next
         /\ Reaches(f, x) => Reaches(f, s)
         /\ Reaches(f, x) /\ Agree(u.reg, At(f, s).regs, d)
              => /\ At(f, x).regs = At(f, s).regs
                 /\ At(f, x).mem = Put(At(f, s).mem, i.w, d[i.w])
         /\ Named(x.ops) = Named(s.ops) \union {i.w}
    <3> HIDE DEF d
    <3> DEFINE off == i.w
    <3>1. s \in LoopOf(p, len) /\ off \in Offsets(p, len) /\ off \in DOMAIN s.reg
      BY <1>2, <2>1, <2>6, <2>8
    <3> HIDE DEF off
    <3>2. /\ Stored(s, off) \in LoopOf(p, len)
          /\ Stored(s, off).reg = s.reg /\ Stored(s, off).next = s.next
      BY <3>1, StoreTyped
    <3>3. Reaches(f, Stored(s, off)) => Reaches(f, s)
      BY <3>1, StoreRuns
    <3>4. Reaches(f, Stored(s, off)) /\ Agree(s.reg, At(f, s).regs, d)
            => /\ At(f, Stored(s, off)).regs = At(f, s).regs
               /\ At(f, Stored(s, off)).mem = Put(At(f, s).mem, off, d[off])
      BY <3>1, StoreHolds
    <3>5. Named(Stored(s, off).ops) = Named(s.ops) \union {off}
      BY <3>1, StoreNames
    <3>8. x = Stored(s, off) /\ s.reg = u.reg /\ s.next = u.next
      BY <2>8 DEF Stored, off
    <3> HIDE DEF x
    <3>9. QED
      BY <3>2, <3>3, <3>4, <3>5, <3>8 DEF off
  <2> HIDE DEF x
  <2>11. /\ y \in LoopOf(p, len) /\ y.reg = u.reg /\ y.next = u.next
         /\ Reaches(f, y) => Reaches(f, x)
         /\ Reaches(f, y) /\ Agree(u.reg, At(f, x).regs, d)
              => /\ At(f, y).regs = At(f, x).regs
                 /\ At(f, y).mem = Put(At(f, x).mem, i.m, d[i.m])
         /\ Named(y.ops) = Named(x.ops) \union {i.m}
    <3> HIDE DEF d
    <3> DEFINE off == i.m
    <3>1. x \in LoopOf(p, len) /\ off \in Offsets(p, len) /\ off \in DOMAIN x.reg
      BY <1>2, <2>1, <2>6, <2>10
    <3> HIDE DEF off
    <3>2. /\ Stored(x, off) \in LoopOf(p, len)
          /\ Stored(x, off).reg = x.reg /\ Stored(x, off).next = x.next
      BY <3>1, StoreTyped
    <3>3. Reaches(f, Stored(x, off)) => Reaches(f, x)
      BY <3>1, StoreRuns
    <3>4. Reaches(f, Stored(x, off)) /\ Agree(x.reg, At(f, x).regs, d)
            => /\ At(f, Stored(x, off)).regs = At(f, x).regs
               /\ At(f, Stored(x, off)).mem = Put(At(f, x).mem, off, d[off])
      BY <3>1, StoreHolds
    <3>5. Named(Stored(x, off).ops) = Named(x.ops) \union {off}
      BY <3>1, StoreNames
    <3>8. y = Stored(x, off) /\ x.reg = u.reg /\ x.next = u.next
      BY <2>10 DEF Stored, off
    <3> HIDE DEF y
    <3>9. QED
      BY <3>2, <3>3, <3>4, <3>5, <3>8 DEF off
  <2> HIDE DEF y
  <2>12. /\ z \in LoopOf(p, len) /\ z.reg = u.reg /\ z.next = u.next
         /\ Reaches(f, z) => Reaches(f, y)
         /\ Reaches(f, z) /\ Agree(u.reg, At(f, y).regs, d)
              => /\ At(f, z).regs = At(f, y).regs
                 /\ At(f, z).mem = Put(At(f, y).mem, i.v, d[i.v])
         /\ Named(z.ops) = Named(y.ops) \union {i.v}
    <3> HIDE DEF d
    <3> DEFINE off == i.v
    <3>1. y \in LoopOf(p, len) /\ off \in Offsets(p, len) /\ off \in DOMAIN y.reg
      BY <1>2, <2>1, <2>6, <2>11
    <3> HIDE DEF off
    <3>2. /\ Stored(y, off) \in LoopOf(p, len)
          /\ Stored(y, off).reg = y.reg /\ Stored(y, off).next = y.next
      BY <3>1, StoreTyped
    <3>3. Reaches(f, Stored(y, off)) => Reaches(f, y)
      BY <3>1, StoreRuns
    <3>4. Reaches(f, Stored(y, off)) /\ Agree(y.reg, At(f, y).regs, d)
            => /\ At(f, Stored(y, off)).regs = At(f, y).regs
               /\ At(f, Stored(y, off)).mem = Put(At(f, y).mem, off, d[off])
      BY <3>1, StoreHolds
    <3>5. Named(Stored(y, off).ops) = Named(y.ops) \union {off}
      BY <3>1, StoreNames
    <3>8. z = Stored(y, off) /\ y.reg = u.reg /\ y.next = u.next
      BY <2>11 DEF Stored, off
    <3> HIDE DEF z
    <3>9. QED
      BY <3>2, <3>3, <3>4, <3>5, <3>8 DEF off
  <2> HIDE DEF z
  <2>13. ASSUME Reaches(f, z), Holds(g.reg, g.next, At(f, g), c), Tensors(i) \subseteq DOMAIN c
         PROVE  Holds(z.reg, z.next, At(f, z), d)
    <3>1. i.w \in DOMAIN c /\ i.g \in DOMAIN c /\ i.m \in DOMAIN c /\ i.v \in DOMAIN c
      BY <2>1, <2>13
    <3>2. /\ Reaches(f, s) /\ Reaches(f, x) /\ Reaches(f, y)
          /\ Reaches(f, u) /\ Reaches(f, e) /\ Reaches(f, b) /\ Reaches(f, a)
      BY <2>4, <2>5, <2>6, <2>8, <2>10, <2>11, <2>12, <2>13
    <3>3. Holds(u.reg, u.next, At(f, u), c)
      BY <2>3, <2>4, <2>5, <2>6, <2>13, <3>1, <3>2
    <3> DEFINE r == At(f, u).regs
    <3>4. Agree(u.reg, r, c) /\ c = [off \in DOMAIN c |-> c[off]] /\ At(f, u).mem = c
          /\ u.next \in Nat /\ \A k \in DOMAIN r : k \in Nat /\ k < u.next
      BY <3>3 DEF Holds
    <3> HIDE DEF r
    <3>5. /\ Agree(u.reg, Computed(op, r), d)
          /\ DOMAIN Computed(op, r) = DOMAIN r /\ DOMAIN d = DOMAIN c
          /\ d = [off \in DOMAIN d |-> d[off]]
          /\ \A k \in DOMAIN c : k \notin {i.w, i.m, i.v} => d[k] = c[k]
      BY <1>5, <2>6, <3>4, StepAgrees
    <3>6. At(f, s).regs = Computed(op, r) /\ At(f, s).mem = c
      BY <2>8, <2>9, <3>2, <3>4 DEF r
    <3> HIDE DEF d, op
    <3>7. /\ At(f, z).regs = Computed(op, r)
          /\ At(f, z).mem = Put(Put(Put(c, i.w, d[i.w]), i.m, d[i.m]), i.v, d[i.v])
      <4>1. At(f, x).regs = Computed(op, r) /\ At(f, x).mem = Put(c, i.w, d[i.w])
        BY <2>10, <3>2, <3>5, <3>6
      <4>2. /\ At(f, y).regs = Computed(op, r)
            /\ At(f, y).mem = Put(Put(c, i.w, d[i.w]), i.m, d[i.m])
        BY <2>11, <3>2, <3>5, <4>1
      <4>3. QED
        BY <2>12, <2>13, <3>5, <4>2
    <3>8. Put(Put(Put(c, i.w, d[i.w]), i.m, d[i.m]), i.v, d[i.v]) = d
      <4> DEFINE m == Put(Put(Put(c, i.w, d[i.w]), i.m, d[i.m]), i.v, d[i.v])
      <4>1. DOMAIN m = DOMAIN c /\ m = [off \in DOMAIN m |-> m[off]]
        BY DEF Put
      <4>2. \A k \in DOMAIN c : m[k] = d[k]
        BY <3>1, <3>5 DEF Put
      <4> HIDE DEF m
      <4>3. m = d
        BY <3>5, <4>1, <4>2
      <4>4. QED
        BY <4>3 DEF m
    <3>9. QED
      BY <2>12, <3>4, <3>5, <3>7, <3>8 DEF Holds
  <2>14. ASSUME DOMAIN g.reg \subseteq Named(g.ops)
         PROVE  /\ DOMAIN z.reg \subseteq Named(z.ops)
                /\ Named(g.ops) \union Tensors(i) \subseteq Named(z.ops)
    <3>1. /\ DOMAIN u.reg \subseteq Named(u.ops) /\ Named(g.ops) \subseteq Named(u.ops)
          /\ Named(u.ops) \subseteq Named(z.ops)
      BY <2>3, <2>4, <2>5, <2>6, <2>8, <2>10, <2>11, <2>12, <2>14
    <3>2. QED
      BY <2>1, <2>6, <2>12, <3>1
  <2>15. Reaches(f, z) => Reaches(f, g)
    BY <2>3, <2>4, <2>5, <2>6, <2>8, <2>10, <2>11, <2>12
  <2>16. QED
    BY <2>2, <2>13, <2>14, <2>15
<1>6. QED
  BY <1>1, <1>3, <1>4, <1>5 DEF FusableOps

-----------------------------------------------------------------------------
(* h is the elements of the tensors, by offset, after each instruction of  *)
(* p from a to b; f begins with the elements c.                            *)
Chain(p, h, a, b) ==
  /\ h[a] = [off \in DOMAIN h[a] |-> h[a][off]]
  /\ \A n \in a + 1 .. b : h[n] = Column(p[n], h[n - 1])

Begins(f, c) == f[0].mem = c /\ DOMAIN f[0].regs = {}

(* A group stands for the instructions from a + 1 to b. *)
Group(p, g, a, b) ==
  /\ \A n \in a + 1 .. b : p[n] \in Fused(p, g.len) /\ Tensors(p[n]) \subseteq Names(g)
  /\ Registered(g) \subseteq Names(g)
  /\ \A h, f : Chain(p, h, a, b) /\ Names(g) \subseteq DOMAIN h[a]
                 /\ Begins(f, h[a]) /\ Reaches(f, g) => Keeps(g, At(f, g), h[b])

LEMMA ColumnShape ==
  ASSUME NEW i, NEW c, c = [off \in DOMAIN c |-> c[off]]
  PROVE  DOMAIN Column(i, c) = DOMAIN c /\ Column(i, c) = [off \in DOMAIN c |-> Column(i, c)[off]]
<1>1. CASE i.op \in {"AddVec", "MulVec"}
  BY <1>1 DEF Column, VecOneOps
<1>2. CASE i.op \in VecOneOps
  BY <1>2 DEF Column, VecOneOps
<1>3. CASE i.op = "AdamWStep" /\ backend = "jit"
  BY <1>3 DEF Column, VecOneOps
<1>4. CASE ~(i.op \in {"AddVec", "MulVec"} \/ i.op \in VecOneOps
               \/ (i.op = "AdamWStep" /\ backend = "jit"))
  BY <1>4 DEF Column
<1>5. QED
  BY <1>1, <1>2, <1>3, <1>4

LEMMA ChainShape ==
  ASSUME NEW p, NEW h, NEW a \in Nat, NEW b \in Nat, Chain(p, h, a, b), NEW n \in a .. b
  PROVE  DOMAIN h[n] = DOMAIN h[a] /\ h[n] = [off \in DOMAIN h[a] |-> h[n][off]]
<1> DEFINE Good == {d \in Nat : a + d <= b =>
                      /\ DOMAIN h[a + d] = DOMAIN h[a]
                      /\ h[a + d] = [off \in DOMAIN h[a] |-> h[a + d][off]]}
<1>1. 0 \in Good
  BY DEF Chain
<1>2. ASSUME NEW d \in Nat, d \in Good PROVE d + 1 \in Good
  <2>1. SUFFICES ASSUME a + d + 1 <= b
                 PROVE  /\ DOMAIN h[a + (d + 1)] = DOMAIN h[a]
                        /\ h[a + (d + 1)] = [off \in DOMAIN h[a] |-> h[a + (d + 1)][off]]
    OBVIOUS
  <2> DEFINE m == a + d + 1
  <2>2. m = a + (d + 1) /\ m \in a + 1 .. b /\ m - 1 = a + d
    BY <2>1
  <2>3. DOMAIN h[m - 1] = DOMAIN h[a] /\ h[m - 1] = [off \in DOMAIN h[a] |-> h[m - 1][off]]
    BY <1>2, <2>1, <2>2
  <2> HIDE DEF m
  <2>4. h[m] = Column(p[m], h[m - 1])
    BY <2>2 DEF Chain
  <2>5. DOMAIN h[m] = DOMAIN h[m - 1] /\ h[m] = [off \in DOMAIN h[m - 1] |-> h[m][off]]
    BY <2>3, <2>4, ColumnShape
  <2>6. QED
    BY <2>2, <2>3, <2>5
<1>3. Nat \subseteq Good
  <2> HIDE DEF Good
  <2>1. QED
    BY <1>1, <1>2, SetInduction
<1>4. n - a \in Good /\ n - a \in Nat /\ a + (n - a) = n /\ n <= b
  BY <1>3
<1>5. QED
  BY <1>4

LEMMA ChainDomain ==
  ASSUME NEW p, NEW h, NEW a \in Nat, NEW b \in Nat, a <= b, Chain(p, h, a, b)
  PROVE  DOMAIN h[b] = DOMAIN h[a]
<1>1. PICK n \in a .. b : n = b
  OBVIOUS
<1>2. DOMAIN h[n] = DOMAIN h[a] /\ h[n] = [off \in DOMAIN h[a] |-> h[n][off]]
  BY ChainShape
<1>3. QED
  BY <1>1, <1>2

LEMMA ChainParts ==
  ASSUME NEW p, NEW h, NEW a \in Nat, NEW b \in Nat, NEW m \in a .. b, Chain(p, h, a, b)
  PROVE  Chain(p, h, a, m) /\ Chain(p, h, m, b)
<1>1. \A n \in a + 1 .. m : n \in a + 1 .. b
  OBVIOUS
<1>2. \A n \in m + 1 .. b : n \in a + 1 .. b
  OBVIOUS
<1>3. DOMAIN h[m] = DOMAIN h[a] /\ h[m] = [off \in DOMAIN h[a] |-> h[m][off]]
  BY ChainShape
<1>4. QED
  BY <1>1, <1>2, <1>3 DEF Chain

(* A new loop stands for no instruction yet. *)
LEMMA NewGroup ==
  ASSUME NEW p, NEW len, NEW a \in Nat
  PROVE  Group(p, NewLoop(len), a, a)
<1> DEFINE g == NewLoop(len)
<1>1. g.ops = <<>> /\ g.reg = <<>> /\ g.next = 0 /\ Len(g.ops) = 0 /\ DOMAIN g.reg = {}
  BY DEF NewLoop
<1> HIDE DEF g
<1>2. ASSUME NEW h, NEW f, Chain(p, h, a, a), Begins(f, h[a])
      PROVE  Keeps(g, At(f, g), h[a])
  <2>1. At(f, g) = f[0]
    BY <1>1 DEF At
  <2>2. QED
    BY <1>1, <1>2, <2>1 DEF Keeps, KeepsTo, Holds, Agree, Begins, Chain
<1>3. Registered(g) = {}
  BY <1>1 DEF Registered
<1>4. QED
  BY <1>2, <1>3 DEF Group, g

(* An instruction joins a group. *)
LEMMA GroupGrows ==
  ASSUME NEW p \in Seq(OpCode), NEW len, NEW g \in LoopOf(p, len),
         NEW a \in Nat, NEW b \in Nat, a <= b, Group(p, g, a, b), p[b + 1] \in Fused(p, len)
  PROVE  Group(p, Emit(g, p[b + 1]), a, b + 1)
<1> DEFINE i == p[b + 1]
           u == Emit(g, i)
<1>1. u \in LoopOf(p, len) /\ u.len = len /\ g.len = len
  BY EmitTyped DEF LoopOf
<1>2. Names(g) \union Tensors(i) \subseteq Names(u) /\ Registered(u) \subseteq Names(u)
  BY EmitHolds DEF Names, Registered, Group
<1> HIDE DEF u
<1>3. ASSUME NEW n \in a + 1 .. b + 1
      PROVE  p[n] \in Fused(p, u.len) /\ Tensors(p[n]) \subseteq Names(u)
  <2>1. CASE n = b + 1
    BY <1>1, <1>2, <2>1
  <2>2. CASE n # b + 1
    <3>1. n \in a + 1 .. b
      BY <2>2
    <3>2. QED
      BY <1>1, <1>2, <3>1 DEF Group
  <2>3. QED
    BY <2>1, <2>2
<1>4. ASSUME NEW h, NEW f, Chain(p, h, a, b + 1), Names(u) \subseteq DOMAIN h[a],
             Begins(f, h[a]), Reaches(f, u)
      PROVE  Keeps(u, At(f, u), h[b + 1])
  <2>1. b \in a .. b + 1 /\ b + 1 \in a + 1 .. b + 1 /\ (b + 1) - 1 = b
    OBVIOUS
  <2>2. Chain(p, h, a, b) /\ h[b + 1] = Column(i, h[b]) /\ DOMAIN h[b] = DOMAIN h[a]
    <3>1. b + 1 \in Nat
      OBVIOUS
    <3>2. Chain(p, h, a, b)
      BY <1>4, <2>1, <3>1, ChainParts
    <3>3. DOMAIN h[b] = DOMAIN h[a]
      BY <3>2, ChainDomain
    <3>4. QED
      BY <1>4, <2>1, <3>2, <3>3 DEF Chain
  <2>3. Reaches(f, g)
    BY <1>4, EmitHolds DEF u
  <2>4. Keeps(g, At(f, g), h[b])
    BY <1>2, <1>4, <2>2, <2>3 DEF Group
  <2>5. Tensors(i) \subseteq DOMAIN h[b]
    BY <1>2, <1>4, <2>2
  <2> HIDE DEF i
  <2>6. Keeps(u, At(f, u), Column(i, h[b]))
    BY <1>4, <2>4, <2>5, EmitHolds DEF Keeps, KeepsTo, u, i
  <2>7. QED
    BY <2>2, <2>6
<1> HIDE DEF i
<1>5. QED
  BY <1>2, <1>3, <1>4 DEF Group, u, i

(* An item of a fused program stands for the instructions from a + 1 to b: *)
(* a loop computes the element of each of its tensors as they do.  Scalar  *)
(* instructions behind a loop may be among them.                           *)
Computes(p, item, a, b) ==
  /\ p[a + 1] \in Fused(p, item.len)
  /\ \A n \in a + 1 .. b :
       \/ p[n] \in Fused(p, item.len) /\ Tensors(p[n]) \subseteq Names(item)
       \/ p[n].op \in {"Add", "Mul"}
  /\ \A h, f : Chain(p, h, a, b) /\ Names(item) \subseteq DOMAIN h[a]
                 /\ Begins(f, h[a]) /\ Reaches(f, item) => At(f, item).mem = h[b]

Stands(p, item, a, b) ==
  /\ a < b
  /\ \/ item.kind = "raw" /\ b = a + 1 /\ item.ins = p[b] /\ p[b].op \notin FusableOps
     \/ item.kind = "loop" /\ Computes(p, item, a, b)

(* The items of a fused program stand for the first n instructions.        *)
Splits(p, items, upto, n) ==
  /\ upto[0] = 0 /\ upto[Len(items)] = n
  /\ \A j \in 0 .. Len(items) : upto[j] \in 0 .. n
  /\ \A j \in 1 .. Len(items) : Stands(p, items[j], upto[j - 1], upto[j])

LEMMA GroupComputes ==
  ASSUME NEW p, NEW g, NEW a \in Nat, NEW b \in Nat, a < b, g.kind = "loop", Group(p, g, a, b)
  PROVE  Stands(p, g, a, b)
<1>1. a + 1 \in a + 1 .. b
  OBVIOUS
<1>2. \A h, f : Chain(p, h, a, b) /\ Names(g) \subseteq DOMAIN h[a]
                  /\ Begins(f, h[a]) /\ Reaches(f, g) => At(f, g).mem = h[b]
  BY DEF Group, Keeps, KeepsTo, Holds
<1>3. QED
  BY <1>1, <1>2 DEF Group, Stands, Computes

LEMMA SplitsMore ==
  ASSUME NEW p, NEW S, NEW items \in Seq(S), NEW item \in S, NEW upto,
         NEW n \in Nat, NEW m \in Nat, Splits(p, items, upto, n), Stands(p, item, n, m)
  PROVE  \E u : Splits(p, Append(items, item), u, m) /\ u[Len(items)] = n
<1> DEFINE L == Len(items)
           all == Append(items, item)
           u == [j \in 0 .. L + 1 |-> IF j = L + 1 THEN m ELSE upto[j]]
<1>1. /\ L \in Nat /\ Len(all) = L + 1 /\ all[L + 1] = item
      /\ \A j \in 1 .. L : all[j] = items[j]
  OBVIOUS
<1>2. u[L + 1] = m /\ \A j \in 0 .. L : u[j] = upto[j]
  BY <1>1
<1>3. n < m
  BY DEF Stands
<1>4. /\ upto[0] = 0 /\ upto[L] = n
      /\ \A j \in 0 .. L : upto[j] \in 0 .. n
      /\ \A j \in 1 .. L : Stands(p, items[j], upto[j - 1], upto[j])
  BY DEF Splits
<1> HIDE DEF u, all, L
<1>5. u[0] = 0 /\ u[L] = n /\ \A j \in 0 .. L + 1 : u[j] \in 0 .. m
  <2>1. ASSUME NEW j \in 0 .. L + 1 PROVE u[j] \in 0 .. m
    <3>1. CASE j = L + 1
      BY <1>2, <3>1
    <3>2. CASE j # L + 1
      <4>1. j \in 0 .. L
        BY <1>1, <3>2
      <4>2. u[j] \in 0 .. n
        BY <1>2, <1>4, <4>1
      <4>3. QED
        BY <1>3, <4>2
    <3>3. QED
      BY <3>1, <3>2
  <2>2. 0 \in 0 .. L /\ L \in 0 .. L
    BY <1>1
  <2>3. QED
    BY <1>2, <1>4, <2>1, <2>2
<1>6. ASSUME NEW j \in 1 .. L + 1 PROVE Stands(p, all[j], u[j - 1], u[j])
  <2>1. CASE j = L + 1
    <3>1. j - 1 = L
      BY <1>1, <2>1
    <3>2. QED
      BY <1>1, <1>2, <1>5, <2>1, <3>1
  <2>2. CASE j # L + 1
    <3>1. j \in 1 .. L /\ j - 1 \in 0 .. L /\ j \in 0 .. L
      BY <1>1, <2>2
    <3>2. QED
      BY <1>1, <1>2, <1>4, <3>1
  <2>3. QED
    BY <2>1, <2>2
<1>7. Splits(p, all, u, m) /\ u[L] = n
  BY <1>1, <1>2, <1>5, <1>6 DEF Splits
<1>8. QED
  BY <1>7 DEF all, L

LEMMA SplitsLonger ==
  ASSUME NEW p, NEW S, NEW items \in Seq(S), NEW item \in S, NEW upto,
         NEW n \in Nat, NEW m \in Nat, Splits(p, items, upto, n), n <= m, items # <<>>,
         Stands(p, item, upto[Len(items) - 1], m)
  PROVE  \E u : /\ Splits(p, [items EXCEPT ![Len(items)] = item], u, m)
                /\ u[Len(items) - 1] = upto[Len(items) - 1]
<1> DEFINE L == Len(items)
           all == [items EXCEPT ![L] = item]
           u == [j \in 0 .. L |-> IF j = L THEN m ELSE upto[j]]
<1>1. /\ L \in Nat \ {0} /\ Len(all) = L /\ all[L] = item
      /\ \A j \in 1 .. L : j # L => all[j] = items[j]
  OBVIOUS
<1>2. u[L] = m /\ \A j \in 0 .. L : j # L => u[j] = upto[j]
  <2>1. L \in Nat /\ L \in 0 .. L
    OBVIOUS
  <2> HIDE DEF L
  <2>2. QED
    BY <2>1
<1>4. /\ upto[0] = 0 /\ upto[L] = n
      /\ \A j \in 0 .. L : upto[j] \in 0 .. n
      /\ \A j \in 1 .. L : Stands(p, items[j], upto[j - 1], upto[j])
  BY DEF Splits
<1>8. Stands(p, item, upto[L - 1], m)
  OBVIOUS
<1> HIDE DEF u, all, L
<1>5. u[0] = 0 /\ \A j \in 0 .. L : u[j] \in 0 .. m
  <2>1. ASSUME NEW j \in 0 .. L PROVE u[j] \in 0 .. m
    <3>1. CASE j = L
      BY <1>2, <3>1
    <3>2. CASE j # L
      <4>1. u[j] \in 0 .. n
        BY <1>2, <1>4, <3>2
      <4>2. QED
        BY <4>1
    <3>3. QED
      BY <3>1, <3>2
  <2>2. 0 \in 0 .. L /\ 0 # L
    BY <1>1
  <2>3. QED
    BY <1>2, <1>4, <2>1, <2>2
<1>6. ASSUME NEW j \in 1 .. L PROVE Stands(p, all[j], u[j - 1], u[j])
  <2>1. j - 1 \in 0 .. L /\ j - 1 # L /\ j \in 0 .. L
    BY <1>1
  <2>2. CASE j = L
    BY <1>1, <1>2, <1>8, <2>1, <2>2
  <2>3. CASE j # L
    BY <1>1, <1>2, <1>4, <2>1, <2>3
  <2>4. QED
    BY <2>2, <2>3
<1>7. Splits(p, all, u, m) /\ u[L - 1] = upto[L - 1]
  <2>1. L - 1 \in 0 .. L /\ L - 1 # L
    BY <1>1
  <2>2. QED
    BY <1>1, <1>2, <1>5, <1>6, <2>1 DEF Splits
<1>9. QED
  BY <1>7 DEF all, L

LEMMA NewLoopTyped ==
  ASSUME NEW p, NEW len
  PROVE  NewLoop(len) \in LoopOf(p, len)
<1>1. <<>> \in Maps
  BY DEF Maps
<1>2. QED
  BY <1>1 DEF NewLoop, LoopOf

(* In LoopFuser, the last loop is the group that may grow. *)
Grown(p, items, upto, n) ==
  /\ Splits(p, items, upto, n)
  /\ items # <<>> /\ Last(items).kind = "loop"
       => Group(p, Last(items), upto[Len(items) - 1], n)

LEMMA FuseNextSplits ==
  ASSUME NEW p \in Seq(OpCode), NEW items \in Seq(Items(p)), NEW upto, NEW n \in Nat,
         n + 1 \in 1 .. Len(p), Grown(p, items, upto, n)
  PROVE  \E u : Grown(p, FuseNext(items, p[n + 1]), u, n + 1)
<1> DEFINE i == p[n + 1]
           L == Len(items)
           m == n + 1
<1>1. i \in Range(p) /\ m \in Nat /\ n < m /\ n <= m
  BY DEF Range
<1>2. i \in OpCode /\ i.len \in Nat
  BY <1>1, InRange, Fields
<1>3. Splits(p, items, upto, n)
  BY DEF Grown
<1>4. CASE i.op \notin FusableOps
  <2> DEFINE item == Raw(i)
  <2>1. item \in Items(p) /\ item.kind = "raw" /\ item.ins = p[m]
    BY <1>1 DEF Raw, Items
  <2>2. Stands(p, item, n, m)
    BY <1>1, <1>4, <2>1 DEF Stands
  <2>3. FuseNext(items, i) = Append(items, item)
    BY <1>4 DEF FuseNext
  <2> HIDE DEF item, i, m
  <2>4. PICK u : Splits(p, Append(items, item), u, m)
    BY <1>1, <1>3, <2>1, <2>2, SplitsMore
  <2>5. Last(Append(items, item)) = item
    <3> HIDE DEF Items
    <3>1. QED
      BY <2>1 DEF Last
  <2>6. Grown(p, FuseNext(items, i), u, m)
    BY <2>1, <2>3, <2>4, <2>5 DEF Grown
  <2>7. QED
    BY <2>6 DEF i, m
<1>5. CASE i.op \in FusableOps /\ items # <<>> /\ IsLoop(Last(items), i.len)
  <2> DEFINE g == items[L]
             e == Emit(g, i)
             a == upto[L - 1]
  <2>1. L \in 1 .. L /\ g \in Items(p) /\ Last(items) = g /\ L - 1 \in 0 .. L /\ L \in Nat
    <3> HIDE DEF Items
    <3>1. QED
      BY <1>5 DEF Last
  <2>2. g \in LoopOf(p, i.len) /\ g.kind = "loop"
    BY <1>5, <2>1 DEF Items, LoopOf, IsLoop
  <2>3. p[n + 1] \in Fused(p, i.len)
    BY <1>1, <1>5 DEF Fused
  <2>4. a \in 0 .. n /\ Group(p, g, a, n)
    BY <1>3, <1>5, <2>1, <2>2 DEF Grown, Splits
  <2>5. Group(p, e, a, n + 1)
    <3> HIDE DEF g, a
    <3>1. a \in Nat /\ a <= n
      BY <2>4
    <3> HIDE DEF e
    <3> DEFINE l == i.len
    <3>2. g \in LoopOf(p, l) /\ p[n + 1] \in Fused(p, l)
      BY <2>2, <2>3
    <3> HIDE DEF l
    <3>3. Group(p, Emit(g, p[n + 1]), a, n + 1)
      BY <2>4, <3>1, <3>2, GroupGrows
    <3>4. QED
      BY <3>3 DEF e
  <2>6. e \in LoopOf(p, i.len) /\ Len(e.ops) > 0
    BY <2>2, <2>3, EmitTyped
  <2>7. e \in Items(p) /\ e.kind = "loop"
    BY <1>2, <2>6 DEF Items, LoopOf
  <2>8. FuseNext(items, i) = [items EXCEPT ![L] = e]
    BY <1>5 DEF FuseNext
  <2>9. a \in Nat /\ a < m
    BY <2>4
  <2> HIDE DEF e, i, g
  <2>10. Stands(p, e, a, m)
    <3> HIDE DEF a
    <3>0. Group(p, e, a, m)
      BY <2>5
    <3> HIDE DEF m
    <3>1. QED
      BY <1>1, <2>7, <2>9, <3>0, GroupComputes
  <2>11. PICK u : Splits(p, [items EXCEPT ![L] = e], u, m) /\ u[L - 1] = a
    <3> HIDE DEF m, Items
    <3>1. QED
      BY <1>1, <1>3, <1>5, <2>7, <2>10, SplitsLonger
  <2>12. Len([items EXCEPT ![L] = e]) = L /\ Last([items EXCEPT ![L] = e]) = e
    <3> HIDE DEF Items
    <3>1. QED
      BY <2>1 DEF Last
  <2>13. Grown(p, [items EXCEPT ![L] = e], u, m)
    <3>1. Group(p, e, u[L - 1], m)
      BY <2>5, <2>11
    <3> HIDE DEF m
    <3>2. QED
      BY <2>11, <2>12, <3>1 DEF Grown
  <2>14. QED
    BY <2>8, <2>13 DEF i
<1>6. CASE i.op \in FusableOps /\ ~(items # <<>> /\ IsLoop(Last(items), i.len))
  <2> DEFINE g == NewLoop(i.len)
             e == Emit(g, i)
  <2>1. g \in LoopOf(p, i.len)
    BY NewLoopTyped
  <2>2. p[n + 1] \in Fused(p, i.len)
    BY <1>1, <1>6 DEF Fused
  <2>3. Group(p, g, n, n)
    BY NewGroup
  <2>4. e \in LoopOf(p, i.len) /\ Len(e.ops) > 0
    BY <2>1, <2>2, EmitTyped
  <2>5. Group(p, e, n, n + 1)
    <3> HIDE DEF g
    <3> HIDE DEF e
    <3> DEFINE l == i.len
    <3>1. g \in LoopOf(p, l) /\ p[n + 1] \in Fused(p, l) /\ n <= n
      BY <2>1, <2>2
    <3> HIDE DEF l
    <3>2. Group(p, Emit(g, p[n + 1]), n, n + 1)
      BY <2>3, <3>1, GroupGrows
    <3>3. QED
      BY <3>2 DEF e
  <2>6. e \in Items(p) /\ e.kind = "loop"
    BY <1>2, <2>4 DEF Items, LoopOf
  <2>7. FuseNext(items, i) = Append(items, e)
    BY <1>6 DEF FuseNext
  <2> HIDE DEF e, i, g
  <2>8. Stands(p, e, n, m)
    <3>0. Group(p, e, n, m)
      BY <2>5
    <3> HIDE DEF m
    <3>1. QED
      BY <1>1, <2>6, <3>0, GroupComputes
  <2>9. PICK u : Splits(p, Append(items, e), u, m) /\ u[L] = n
    <3> HIDE DEF m
    <3>1. QED
      BY <1>1, <1>3, <2>6, <2>8, SplitsMore
  <2>10. Len(Append(items, e)) - 1 = L /\ Last(Append(items, e)) = e
    <3> HIDE DEF Items
    <3>1. QED
      BY <2>6 DEF Last
  <2>11. Grown(p, Append(items, e), u, m)
    <3>1. Group(p, e, n, m)
      BY <2>5
    <3> HIDE DEF m, L
    <3>2. QED
      BY <2>9, <2>10, <3>1 DEF Grown
  <2>12. QED
    BY <2>7, <2>11 DEF i
<1>7. QED
  BY <1>4, <1>5, <1>6

LEMMA LoopFuserSplits ==
  ASSUME NEW p \in Seq(OpCode)
  PROVE  \E upto : Splits(p, LoopFuser(p), upto, Len(p))
<1>1. PICK fused \in [0 .. Len(p) -> Seq(Items(p))] :
        /\ fused[0] = <<>>
        /\ \A k \in 1 .. Len(p) : fused[k] = FuseNext(fused[k - 1], p[k])
        /\ LoopFuser(p) = fused[Len(p)]
  BY LoopFuserIs
<1> DEFINE Good == {k \in Nat : k <= Len(p) => \E upto : Grown(p, fused[k], upto, k)}
<1>2. 0 \in Good
  <2> DEFINE u == [j \in {0} |-> 0]
  <2>1. Grown(p, <<>>, u, 0)
    BY DEF Grown, Splits
  <2>2. QED
    BY <1>1, <2>1
<1>3. ASSUME NEW k \in Nat, k \in Good PROVE k + 1 \in Good
  <2>1. SUFFICES ASSUME k + 1 <= Len(p) PROVE \E upto : Grown(p, fused[k + 1], upto, k + 1)
    OBVIOUS
  <2>2. k \in 0 .. Len(p) /\ k + 1 \in 1 .. Len(p) /\ (k + 1) - 1 = k
    BY <2>1
  <2>3. PICK upto : Grown(p, fused[k], upto, k)
    BY <1>3, <2>2
  <2>4. fused[k] \in Seq(Items(p)) /\ fused[k + 1] = FuseNext(fused[k], p[k + 1])
    <3> HIDE DEF Items
    <3>1. QED
      BY <1>1, <2>2
  <2> DEFINE items == fused[k]
  <2>5. items \in Seq(Items(p)) /\ Grown(p, items, upto, k)
    BY <2>3, <2>4
  <2> HIDE DEF items
  <2>6. \E u : Grown(p, FuseNext(items, p[k + 1]), u, k + 1)
    BY <2>2, <2>5, FuseNextSplits
  <2>7. QED
    BY <2>4, <2>6 DEF items
<1>4. Nat \subseteq Good
  <2> HIDE DEF Good
  <2>1. QED
    BY <1>2, <1>3, SetInduction
<1>5. Len(p) \in Good /\ Len(p) <= Len(p)
  BY <1>4
<1>6. QED
  BY <1>1, <1>5 DEF Grown

-----------------------------------------------------------------------------
(* KernelFuser.  A loop with its registers shifted runs as it did, on the  *)
(* registers from by on.                                                   *)
Lowered(regs, by) == [r \in {x \in Nat : x + by \in DOMAIN regs} |-> regs[r + by]]

LoweredState(s, by) == [mem |-> s.mem, regs |-> Lowered(s.regs, by)]

LEMMA LoweredReg ==
  ASSUME NEW regs, NEW by \in Nat, NEW r \in Nat
  PROVE  Reg(Lowered(regs, by), r) = Reg(regs, r + by)
BY DEF Reg, Lowered

LEMMA LoweredInserted ==
  ASSUME NEW regs, NEW by \in Nat, NEW r \in Nat, NEW v
  PROVE  Lowered(Inserted(regs, r + by, v), by) = Inserted(Lowered(regs, by), r, v)
<1> DEFINE a == Lowered(Inserted(regs, r + by, v), by)
           b == Inserted(Lowered(regs, by), r, v)
<1>1. DOMAIN a = {x \in Nat : x + by \in {r + by} \union DOMAIN regs}
      /\ a = [x \in DOMAIN a |-> a[x]]
  BY DEF Lowered, Inserted
<1>2. DOMAIN b = {r} \union {x \in Nat : x + by \in DOMAIN regs}
      /\ b = [x \in DOMAIN b |-> b[x]]
  BY DEF Lowered, Inserted
<1>3. DOMAIN a = DOMAIN b
  <2>1. \A x \in Nat : x + by = r + by <=> x = r
    OBVIOUS
  <2> HIDE DEF a, b
  <2>2. QED
    BY <1>1, <1>2, <2>1
<1>4. ASSUME NEW x \in DOMAIN a PROVE a[x] = b[x]
  <2>1. x \in Nat /\ (x + by = r + by <=> x = r)
    BY <1>1
  <2>2. a[x] = IF x + by = r + by THEN v ELSE regs[x + by]
    BY <2>1 DEF Lowered, Inserted
  <2>3. b[x] = IF x = r THEN v ELSE Lowered(regs, by)[x]
    BY <1>3 DEF Inserted
  <2>4. x # r => Lowered(regs, by)[x] = regs[x + by]
    <3>1. x # r => x \in {y \in Nat : y + by \in DOMAIN regs}
      BY <1>2, <1>3
    <3>2. QED
      BY <3>1 DEF Lowered
  <2> HIDE DEF a, b
  <2>5. QED
    BY <2>1, <2>2, <2>3, <2>4
<1> HIDE DEF a, b
<1>5. a = b
  BY <1>1, <1>2, <1>3, <1>4
<1>6. QED
  BY <1>5 DEF a, b

LEMMA ShiftedStep ==
  ASSUME NEW op, NEW q, NEW by \in Nat, NEW regs, backend = "jit",
         op.w \in Nat, op.g \in Nat, op.m \in Nat, op.v \in Nat,
         q.w = op.w + by, q.g = op.g + by, q.m = op.m + by, q.v = op.v + by
  PROVE  Lowered(AdamWJit(q, regs), by) = AdamWJit(op, Lowered(regs, by))
<1> DEFINE low == Lowered(regs, by)
           a == Wrap16(Mean16(Reg(regs, q.m), Reg(regs, q.g)))
           r1 == Inserted(regs, q.m, a)
           l1 == Inserted(low, op.m, a)
           b == Wrap16(Var16(Reg(r1, q.v), Square(Reg(regs, q.g))))
           r2 == Inserted(r1, q.v, b)
           l2 == Inserted(l1, op.v, b)
           c == Wrap16(Reg(r2, q.w) - Reg(r1, q.m) \div 16)
           r3 == Inserted(r2, q.w, c)
           l3 == Inserted(l2, op.w, c)
<1>1. AdamWJit(q, regs) = r3
  BY DEF AdamWJit
<1>2. Reg(low, op.m) = Reg(regs, q.m) /\ Reg(low, op.g) = Reg(regs, q.g)
  BY LoweredReg
<1>3. Lowered(r1, by) = l1
  <2> HIDE DEF a
  <2>1. QED
    BY LoweredInserted
<1>4. Reg(l1, op.v) = Reg(r1, q.v) /\ Reg(l1, op.m) = Reg(r1, q.m)
  <2> HIDE DEF r1, l1
  <2>1. QED
    BY <1>3, LoweredReg
<1>5. Lowered(r2, by) = l2
  <2> HIDE DEF r1, l1, b
  <2>1. QED
    BY <1>3, LoweredInserted
<1>6. Reg(l2, op.w) = Reg(r2, q.w)
  <2> HIDE DEF r2, l2
  <2>1. QED
    BY <1>5, LoweredReg
<1>7. Lowered(r3, by) = l3
  <2> HIDE DEF r2, l2, c
  <2>1. QED
    BY <1>5, LoweredInserted
<1>8. AdamWJit(op, low) = l3
  <2>1. AdamWJit(op, low)
          = LET mean   == Inserted(low, op.m, Wrap16(Mean16(Reg(low, op.m), Reg(low, op.g))))
                square == Inserted(mean, op.v,
                                   Wrap16(Var16(Reg(mean, op.v), Square(Reg(low, op.g)))))
            IN  Inserted(square, op.w, Wrap16(Reg(square, op.w) - Reg(mean, op.m) \div 16))
    BY DEF AdamWJit
  <2>2. Inserted(low, op.m, Wrap16(Mean16(Reg(low, op.m), Reg(low, op.g)))) = l1
    BY <1>2
  <2>3. Inserted(l1, op.v, Wrap16(Var16(Reg(l1, op.v), Square(Reg(low, op.g))))) = l2
    <3> HIDE DEF l1, r1
    <3>1. QED
      BY <1>2, <1>4
  <2>4. Inserted(l2, op.w, Wrap16(Reg(l2, op.w) - Reg(l1, op.m) \div 16)) = l3
    <3> HIDE DEF l1, r1, l2, r2
    <3>1. QED
      BY <1>4, <1>6
  <2> HIDE DEF l1, l2, l3, low
  <2>5. QED
    BY <2>1, <2>2, <2>3, <2>4
<1> HIDE DEF r3, l3
<1>9. QED
  BY <1>1, <1>7, <1>8

LEMMA ShiftedRuns ==
  ASSUME NEW offs, NEW op \in OpsOn(offs), NEW by \in Nat, NEW s
  PROVE  LoweredState(After(Shifted(op, by), s), by) = After(op, LoweredState(s, by))
<1> DEFINE q == Shifted(op, by)
           low == Lowered(s.regs, by)
<1>1. LoweredState(s, by) = [mem |-> s.mem, regs |-> low]
  BY DEF LoweredState
<1>2. CASE op.op = "Load"
  <2>1. op \in [op : {"Load"}, off : offs, reg : Nat]
    BY <1>2 DEF OpsOn
  <2> DEFINE r == op.reg + by
  <2>2. q = [op EXCEPT !.reg = r]
    BY <1>2 DEF Shifted
  <2> HIDE DEF q, r
  <2>3. q.op = "Load" /\ q.off = op.off /\ q.reg = r
    BY <2>1, <2>2
  <2>4. After(q, s) = [mem |-> s.mem, regs |-> Inserted(s.regs, r, s.mem[op.off])]
    BY <2>3 DEF After
  <2>5. Lowered(Inserted(s.regs, r, s.mem[op.off]), by) = Inserted(low, op.reg, s.mem[op.off])
    BY <2>1, LoweredInserted DEF r
  <2>6. After(op, [mem |-> s.mem, regs |-> low])
          = [mem |-> s.mem, regs |-> Inserted(low, op.reg, s.mem[op.off])]
    BY <1>2 DEF After
  <2>7. QED
    BY <1>1, <2>4, <2>5, <2>6 DEF LoweredState, q
<1>3. CASE op.op = "Store"
  <2>1. op \in [op : {"Store"}, off : offs, reg : Nat]
    BY <1>3 DEF OpsOn
  <2> DEFINE r == op.reg + by
  <2>2. q = [op EXCEPT !.reg = r]
    BY <1>3 DEF Shifted
  <2> HIDE DEF q, r
  <2>3. q.op = "Store" /\ q.off = op.off /\ q.reg = r
    BY <2>1, <2>2
  <2>4. After(q, s) = [mem |-> [s.mem EXCEPT ![op.off] = Reg(s.regs, r)], regs |-> s.regs]
    BY <2>3 DEF After
  <2>5. Reg(low, op.reg) = Reg(s.regs, r)
    BY <2>1, LoweredReg DEF r
  <2>6. After(op, [mem |-> s.mem, regs |-> low])
          = [mem |-> [s.mem EXCEPT ![op.off] = Reg(low, op.reg)], regs |-> low]
    BY <1>3 DEF After
  <2>7. QED
    BY <1>1, <2>4, <2>5, <2>6 DEF LoweredState, q
<1>4. CASE op.op \in {"LoadConst", "Add", "Mul", "AdamWStep"}
  <2>1. q.op = op.op /\ Lowered(Computed(q, s.regs), by) = Computed(op, low)
    <3>1. CASE op.op = "LoadConst"
      <4>1. op \in [op : {"LoadConst"}, val : I16, reg : Nat]
        BY <3>1 DEF OpsOn
      <4> DEFINE r == op.reg + by
      <4>2. q = [op EXCEPT !.reg = r]
        BY <3>1 DEF Shifted
      <4> HIDE DEF q, r
      <4>3. q.op = "LoadConst" /\ q.val = op.val /\ q.reg = r
        BY <4>1, <4>2
      <4>4. Lowered(Inserted(s.regs, r, op.val), by) = Inserted(low, op.reg, op.val)
        BY <4>1, LoweredInserted DEF r
      <4>5. QED
        BY <3>1, <4>3, <4>4 DEF Computed
    <3>2. CASE op.op \in {"Add", "Mul"}
      <4>1. op \in [op : {"Add", "Mul"}, l : Nat, r : Nat, reg : Nat]
        BY <3>2 DEF OpsOn
      <4> DEFINE d == op.reg + by
                 x == op.l + by
                 y == op.r + by
      <4>2. q = [op EXCEPT !.l = x, !.r = y, !.reg = d]
        BY <3>2 DEF Shifted
      <4> HIDE DEF q, d, x, y
      <4>3. q.op = op.op /\ q.l = x /\ q.r = y /\ q.reg = d
        BY <4>1, <4>2
      <4>4. Reg(low, op.l) = Reg(s.regs, x) /\ Reg(low, op.r) = Reg(s.regs, y)
        BY <4>1, LoweredReg DEF x, y
      <4> DEFINE v == Arith(op.op, Reg(s.regs, x), Reg(s.regs, y))
      <4>5. Computed(q, s.regs) = Inserted(s.regs, d, v)
        BY <3>2, <4>3 DEF Computed
      <4>6. Computed(op, low) = Inserted(low, op.reg, v)
        BY <3>2, <4>4 DEF Computed
      <4> HIDE DEF v
      <4>7. Lowered(Inserted(s.regs, d, v), by) = Inserted(low, op.reg, v)
        BY <4>1, LoweredInserted DEF d
      <4>8. QED
        BY <4>3, <4>5, <4>6, <4>7
    <3>3. CASE op.op = "AdamWStep"
      <4>1. op \in [op : {"AdamWStep"}, w : Nat, g : Nat, m : Nat, v : Nat]
        BY <3>3 DEF OpsOn
      <4> DEFINE w == op.w + by
                 g == op.g + by
                 m == op.m + by
                 v == op.v + by
      <4>2. q = [op EXCEPT !.w = w, !.g = g, !.m = m, !.v = v]
        BY <3>3 DEF Shifted
      <4>3. q.op = "AdamWStep" /\ q.w = w /\ q.g = g /\ q.m = m /\ q.v = v
        <5> HIDE DEF q, w, g, m, v
        <5>1. QED
          BY <4>1, <4>2
      <4> HIDE DEF q
      <4>4. CASE backend = "jit"
        <5>1. Lowered(AdamWJit(q, s.regs), by) = AdamWJit(op, low)
          BY <4>1, <4>3, <4>4, ShiftedStep
        <5>2. QED
          BY <3>3, <4>3, <4>4, <5>1 DEF Computed
      <4>5. CASE backend # "jit"
        BY <3>3, <4>3, <4>5 DEF Computed
      <4>6. QED
        BY <4>4, <4>5
    <3>4. QED
      BY <1>4, <3>1, <3>2, <3>3
  <2> HIDE DEF q
  <2>2. After(q, s) = [mem |-> s.mem, regs |-> Computed(q, s.regs)]
    BY <1>4, <2>1 DEF After
  <2>3. After(op, [mem |-> s.mem, regs |-> low]) = [mem |-> s.mem, regs |-> Computed(op, low)]
    BY <1>4 DEF After
  <2>4. QED
    BY <1>1, <2>1, <2>2, <2>3 DEF LoweredState, q
<1>5. op.op \in {"Load", "LoadConst", "Add", "Mul", "Store", "AdamWStep"}
  BY DEF OpsOn
<1>6. QED
  BY <1>2, <1>3, <1>4, <1>5

(* A run only sets registers of its operations. *)
LEMMA StepRegisters ==
  ASSUME NEW offs, NEW op \in OpsOn(offs), NEW s
  PROVE  DOMAIN After(op, s).regs \subseteq DOMAIN s.regs \union Registers(op)
<1>1. CASE op.op = "Load"
  BY <1>1 DEF After, Inserted, Registers
<1>2. CASE op.op = "Store"
  BY <1>2 DEF After
<1>3. CASE op.op \in {"LoadConst", "Add", "Mul", "AdamWStep"}
  <2>1. After(op, s) = [mem |-> s.mem, regs |-> Computed(op, s.regs)]
    BY <1>3 DEF After
  <2>2. CASE op.op = "LoadConst"
    BY <2>1, <2>2 DEF Computed, Inserted, Registers
  <2>3. CASE op.op \in {"Add", "Mul"}
    <3>1. Computed(op, s.regs)
            = Inserted(s.regs, op.reg, Arith(op.op, Reg(s.regs, op.l), Reg(s.regs, op.r)))
      BY <2>3 DEF Computed
    <3>2. QED
      BY <2>1, <2>3, <3>1 DEF Inserted, Registers
  <2>4. CASE op.op = "AdamWStep"
    <3>1. Computed(op, s.regs) = AdamWJit(op, s.regs) \/ Computed(op, s.regs) = s.regs
      BY <2>4 DEF Computed
    <3>2. DOMAIN AdamWJit(op, s.regs) = DOMAIN s.regs \union {op.m, op.v, op.w}
      BY DEF AdamWJit, Inserted
    <3>3. QED
      BY <2>1, <2>4, <3>1, <3>2 DEF Registers
  <2>5. QED
    BY <1>3, <2>2, <2>3, <2>4
<1>4. QED
  BY <1>1, <1>2, <1>3 DEF OpsOn

LEMMA RunRegisters ==
  ASSUME NEW offs, NEW ops \in Seq(OpsOn(offs)), NEW B \in Nat, NEW f,
         \A k \in 1 .. Len(ops) : \A r \in Registers(ops[k]) : r \in Nat /\ r <= B,
         IsRun(f, ops, Len(ops)), DOMAIN f[0].regs = {}
  PROVE  \A r \in DOMAIN f[Len(ops)].regs : r \in Nat /\ r <= B
<1> DEFINE n == Len(ops)
           Good == {j \in Nat : j <= n => \A r \in DOMAIN f[j].regs : r \in Nat /\ r <= B}
<1>1. 0 \in Good
  OBVIOUS
<1>2. ASSUME NEW j \in Nat, j \in Good PROVE j + 1 \in Good
  <2>1. SUFFICES ASSUME j + 1 <= n, NEW r \in DOMAIN f[j + 1].regs PROVE r \in Nat /\ r <= B
    OBVIOUS
  <2>2. n \in Nat /\ j + 1 \in 1 .. n /\ (j + 1) - 1 = j /\ ops[j + 1] \in OpsOn(offs)
    BY <2>1
  <2>3. f[j + 1] = After(ops[j + 1], f[j])
    BY <2>2 DEF IsRun
  <2>4. r \in DOMAIN f[j].regs \union Registers(ops[j + 1])
    BY <2>2, <2>3, StepRegisters
  <2>5. QED
    BY <1>2, <2>2, <2>4
<1>3. Nat \subseteq Good
  <2> HIDE DEF Good
  <2>1. QED
    BY <1>1, <1>2, SetInduction
<1>4. n \in Good /\ n <= n
  BY <1>3
<1>5. QED
  BY <1>4

LEMMA Joined ==
  ASSUME NEW S, NEW x \in Seq(S), NEW y \in Seq(S)
  PROVE  /\ Len(x \o y) = Len(x) + Len(y)
         /\ \A k \in 1 .. Len(x) : (x \o y)[k] = x[k]
         /\ \A k \in 1 .. Len(y) : (x \o y)[Len(x) + k] = y[k]
<1>1. Len(x) \in Nat /\ Len(y) \in Nat /\ Len(x \o y) = Len(x) + Len(y)
  OBVIOUS
<1>2. ASSUME NEW k \in 1 .. Len(x) PROVE (x \o y)[k] = x[k]
  <2>1. k \in 1 .. Len(x) + Len(y) /\ k <= Len(x)
    BY <1>1
  <2>2. QED
    BY <2>1
<1>3. ASSUME NEW k \in 1 .. Len(y) PROVE (x \o y)[Len(x) + k] = y[k]
  <2>1. Len(x) + k \in 1 .. Len(x) + Len(y) /\ ~(Len(x) + k <= Len(x)) /\ Len(x) + k - Len(x) = k
    BY <1>1
  <2>2. QED
    BY <2>1
<1>4. QED
  BY <1>1, <1>2, <1>3

(* The first register behind those of a loop. *)
Behind(loop) == Max(UNION {Registers(loop.ops[k]) : k \in DOMAIN loop.ops}) + 1

(* z is x, and then y with registers from by on, where x has none. *)
Follows(z, x, y, by) ==
  /\ by \in Nat
  /\ \A k \in 1 .. Len(x) : \A r \in Registers(x[k]) : r \in Nat /\ r < by
  /\ Len(z) = Len(x) + Len(y)
  /\ \A k \in 1 .. Len(x) : z[k] = x[k]
  /\ \A k \in 1 .. Len(y) : z[Len(x) + k] = Shifted(y[k], by)

LEMMA MergedIs ==
  ASSUME NEW p, NEW len, NEW a \in LoopOf(p, len), NEW b \in LoopOf(p, len), Len(a.ops) > 0,
         NEW m, m = Merged(a, b)
  PROVE  Follows(m.ops, a.ops, b.ops, Behind(a))
<1> DEFINE O == OpsOn(Offsets(p, len))
           by == Behind(a)
           moved == [k \in DOMAIN b.ops |-> Shifted(b.ops[k], by)]
<1>1. a.ops \in Seq(O) /\ b.ops \in Seq(O)
  BY DEF LoopOf
<1>2. /\ by \in Nat
      /\ \A k \in 1 .. Len(a.ops) : \A r \in Registers(a.ops[k]) : r \in Nat /\ r < by
  <2> DEFINE top == Max(UNION {Registers(a.ops[k]) : k \in DOMAIN a.ops})
  <2>1. top \in Nat /\ \A k \in 1 .. Len(a.ops) : \A r \in Registers(a.ops[k]) : r \in Nat /\ r <= top
    BY <1>1, HighestRegister
  <2>2. by = top + 1
    BY DEF Behind
  <2> HIDE DEF top, by
  <2>3. SUFFICES ASSUME NEW k \in 1 .. Len(a.ops), NEW r \in Registers(a.ops[k])
                 PROVE  r \in Nat /\ r < by
    BY <2>1, <2>2
  <2>4. r \in Nat /\ r <= top
    BY <2>1
  <2>5. QED
    BY <2>1, <2>2, <2>4
<1>3. Merged(a, b) = [a EXCEPT !.ops = a.ops \o moved]
  BY DEF Merged, Behind
<1>4. DOMAIN a = {"kind", "len", "ops", "reg", "next"}
  BY DEF LoopOf
<1> HIDE DEF by
<1>5. /\ moved \in Seq(O)
      /\ Len(moved) = Len(b.ops) /\ \A k \in 1 .. Len(b.ops) : moved[k] = Shifted(b.ops[k], by)
  <2>1. DOMAIN b.ops = 1 .. Len(b.ops) /\ Len(b.ops) \in Nat /\ \A k \in 1 .. Len(b.ops) : b.ops[k] \in O
    BY <1>1
  <2>2. \A k \in 1 .. Len(b.ops) : Shifted(b.ops[k], by) \in O
    BY <1>2, <2>1, ShiftedTyped
  <2> HIDE DEF O
  <2>3. QED
    BY <2>1, <2>2
<1> HIDE DEF moved
<1>6. m.ops = a.ops \o moved
  BY <1>3, <1>4
<1> HIDE DEF O
<1>7. /\ Len(a.ops \o moved) = Len(a.ops) + Len(b.ops)
      /\ \A k \in 1 .. Len(a.ops) : (a.ops \o moved)[k] = a.ops[k]
      /\ \A k \in 1 .. Len(b.ops) : (a.ops \o moved)[Len(a.ops) + k] = moved[k]
  <2>1. a.ops \in Seq(O)
    BY <1>1
  <2>2. moved \in Seq(O)
    BY <1>5
  <2>3. Len(a.ops \o moved) = Len(a.ops) + Len(moved)
    BY <2>1, <2>2, Joined
  <2>4. \A k \in 1 .. Len(a.ops) : (a.ops \o moved)[k] = a.ops[k]
    BY <2>1, <2>2, Joined
  <2>5. \A k \in 1 .. Len(moved) : (a.ops \o moved)[Len(a.ops) + k] = moved[k]
    BY <2>1, <2>2, Joined
  <2>6. QED
    BY <1>5, <2>3, <2>4, <2>5
<1>8. QED
  BY <1>2, <1>5, <1>6, <1>7 DEF by, Follows

(* The tensors of operations in turn are those of both. *)
LEMMA FollowsNames ==
  ASSUME NEW O, NEW offs, O = OpsOn(offs), NEW x \in Seq(O), NEW y \in Seq(O), NEW z \in Seq(O),
         NEW by, Follows(z, x, y, by)
  PROVE  Named(x) \union Named(y) \subseteq Named(z)
<1> DEFINE L == Len(x)
           M == Len(y)
<1>1. /\ L \in Nat /\ M \in Nat /\ DOMAIN x = 1 .. L /\ DOMAIN y = 1 .. M
      /\ Len(z) = L + M /\ DOMAIN z = 1 .. L + M
      /\ \A k \in 1 .. L : z[k] = x[k]
      /\ \A k \in 1 .. M : z[L + k] = Shifted(y[k], by)
      /\ \A k \in 1 .. M : y[k] \in O
  BY DEF Follows
<1> HIDE DEF L, M
<1>2. ASSUME NEW k \in 1 .. L, x[k].op \in MemOps PROVE x[k].off \in Named(z)
  <2>1. k \in 1 .. L + M
    BY <1>1
  <2>2. QED
    BY <1>1, <1>2, <2>1 DEF Named
<1>3. ASSUME NEW k \in 1 .. M, y[k].op \in MemOps PROVE y[k].off \in Named(z)
  <2> DEFINE o == y[k]
             q == Shifted(o, by)
             r == o.reg + by
  <2>1. o \in OpsOn(offs) /\ o.op \in {"Load", "Store"}
    BY <1>1, <1>3 DEF MemOps
  <2>2. q = [o EXCEPT !.reg = r]
    BY <2>1 DEF Shifted
  <2>3. DOMAIN o = {"op", "off", "reg"}
    <3> HIDE DEF o
    <3>1. QED
      BY <2>1 DEF OpsOn
  <2> HIDE DEF q, r
  <2>4. q.op = o.op /\ q.off = o.off
    BY <2>2, <2>3
  <2>5. L + k \in 1 .. L + M /\ z[L + k] = q
    BY <1>1 DEF q
  <2>6. QED
    BY <1>1, <1>3, <2>4, <2>5 DEF Named
<1>4. QED
  BY <1>1, <1>2, <1>3 DEF Named

LEMMA MergedNames ==
  ASSUME NEW p, NEW len, NEW a \in LoopOf(p, len), NEW b \in LoopOf(p, len), Len(a.ops) > 0
  PROVE  Names(a) \union Names(b) \subseteq Names(Merged(a, b))
<1> DEFINE O == OpsOn(Offsets(p, len))
           m == Merged(a, b)
<1>1. m \in LoopOf(p, len)
  BY MergedTyped
<1>2. Follows(m.ops, a.ops, b.ops, Behind(a))
  BY MergedIs
<1> HIDE DEF m
<1>3. a.ops \in Seq(O) /\ b.ops \in Seq(O) /\ m.ops \in Seq(O) /\ O = OpsOn(Offsets(p, len))
  BY <1>1 DEF LoopOf
<1> HIDE DEF O
<1> DEFINE x == a.ops
           y == b.ops
           z == m.ops
<1>4. x \in Seq(O) /\ y \in Seq(O) /\ z \in Seq(O) /\ Follows(z, x, y, Behind(a))
  BY <1>2, <1>3
<1> HIDE DEF x, y, z
<1>5. Named(x) \union Named(y) \subseteq Named(z)
  BY <1>3, <1>4, FollowsNames
<1>6. QED
  BY <1>5 DEF x, y, z, m, Names

(* The states of the second loop in those of both. *)
Later(f, n, m, by) == [j \in 0 .. m |-> LoweredState(f[n + j], by)]

(* Operations in turn: first x, and then y on the registers from by on.    *)
LEMMA FollowsRuns ==
  ASSUME NEW O, NEW offs, O = OpsOn(offs), NEW x \in Seq(O), NEW y \in Seq(O), NEW z \in Seq(O),
         NEW by, Follows(z, x, y, by), NEW f, IsRun(f, z, Len(z)), DOMAIN f[0].regs = {},
         NEW g, g = Later(f, Len(x), Len(y), by)
  PROVE  /\ IsRun(f, x, Len(x)) /\ IsRun(g, y, Len(y))
         /\ g[0].mem = f[Len(x)].mem /\ DOMAIN g[0].regs = {}
         /\ g[Len(y)].mem = f[Len(z)].mem
<1> DEFINE L == Len(x)
           M == Len(y)
<1>1. /\ L \in Nat /\ M \in Nat /\ by \in Nat
      /\ Len(z) = L + M
      /\ \A k \in 1 .. L : z[k] = x[k]
      /\ \A k \in 1 .. M : z[L + k] = Shifted(y[k], by)
      /\ \A k \in 1 .. M : y[k] \in O
  BY DEF Follows
<1>2. g = [j \in 0 .. M |-> LoweredState(f[L + j], by)]
  BY DEF Later
<1>3. \A k \in 1 .. L : \A r \in Registers(x[k]) : r \in Nat /\ r < by
  BY DEF Follows
<1>4. \A j \in 1 .. L + M : f[j] = After(z[j], f[j - 1])
  BY <1>1 DEF IsRun
<1>5. IsRun(f, x, L)
  <2>1. \A j \in 1 .. L : j \in 1 .. L + M /\ z[j] = x[j]
    BY <1>1
  <2> HIDE DEF L, M
  <2>2. QED
    BY <1>4, <2>1 DEF IsRun
<1>6. \A r \in DOMAIN f[L].regs : r \in Nat /\ r < by
  <2>1. CASE L = 0
    BY <2>1
  <2>2. CASE L # 0
    <3> DEFINE B == by - 1
    <3>1. PICK r0 : r0 \in Registers(x[1])
      <4>1. 1 \in 1 .. L /\ x[1] \in OpsOn(offs)
        BY <1>1, <2>2
      <4>2. QED
        BY <4>1 DEF OpsOn, Registers
    <3>2. by > 0 /\ B \in Nat
      <4>1. 1 \in 1 .. L
        BY <1>1, <2>2
      <4>2. r0 \in Nat /\ r0 < by
        BY <1>3, <3>1, <4>1
      <4>3. QED
        BY <1>1, <4>2
    <3>3. ASSUME NEW k \in 1 .. L, NEW r \in Registers(x[k]) PROVE r \in Nat /\ r <= B
      <4>1. r \in Nat /\ r < by
        BY <1>3
      <4>2. QED
        BY <1>1, <4>1
    <3> HIDE DEF B
    <3>4. x \in Seq(OpsOn(offs)) /\ IsRun(f, x, Len(x))
      BY <1>5
    <3>5. \A r \in DOMAIN f[Len(x)].regs : r \in Nat /\ r <= B
      BY <3>2, <3>3, <3>4, RunRegisters
    <3>6. QED
      BY <1>1, <3>2, <3>5 DEF B
  <2>3. QED
    BY <2>1, <2>2
<1> HIDE DEF L, M
<1>7. \A j \in 0 .. M : g[j] = LoweredState(f[L + j], by)
  BY <1>2
<1>8. g[0].mem = f[L].mem /\ DOMAIN g[0].regs = {} /\ g[M].mem = f[L + M].mem
  <2>1. 0 \in 0 .. M /\ M \in 0 .. M /\ L + 0 = L
    BY <1>1
  <2>2. g[0] = LoweredState(f[L], by) /\ g[M] = LoweredState(f[L + M], by)
    BY <1>7, <2>1
  <2>3. \A r \in Nat : r + by \notin DOMAIN f[L].regs
    BY <1>1, <1>6
  <2>4. DOMAIN Lowered(f[L].regs, by) = {}
    BY <2>3 DEF Lowered
  <2>5. QED
    BY <2>2, <2>4 DEF LoweredState
<1>9. IsRun(g, y, M)
  <2>1. SUFFICES ASSUME NEW j \in 1 .. M PROVE g[j] = After(y[j], g[j - 1])
    BY DEF IsRun
  <2>2. /\ j \in 0 .. M /\ j - 1 \in 0 .. M /\ L + j \in 1 .. L + M
        /\ (L + j) - 1 = L + (j - 1)
    BY <1>1
  <2>3. f[L + j] = After(z[L + j], f[L + (j - 1)]) /\ z[L + j] = Shifted(y[j], by)
    BY <1>1, <1>4, <2>2
  <2>4. y[j] \in OpsOn(offs)
    BY <1>1
  <2> DEFINE s == f[L + (j - 1)]
             op == y[j]
  <2>5. f[L + j] = After(Shifted(op, by), s) /\ op \in OpsOn(offs)
    BY <2>3, <2>4
  <2>6. g[j] = LoweredState(f[L + j], by) /\ g[j - 1] = LoweredState(s, by)
    BY <1>7, <2>2
  <2> HIDE DEF s, op
  <2>7. LoweredState(After(Shifted(op, by), s), by) = After(op, LoweredState(s, by))
    BY <1>1, <2>5, ShiftedRuns
  <2>8. QED
    BY <2>5, <2>6, <2>7 DEF op
<1>10. QED
  BY <1>1, <1>5, <1>8, <1>9 DEF L, M

-----------------------------------------------------------------------------
(* Merged loops do what they did one after the other.                      *)
LEMMA MergedComputes ==
  ASSUME NEW p, NEW len, NEW a \in LoopOf(p, len), NEW b \in LoopOf(p, len), Len(a.ops) > 0,
         NEW x \in Nat, NEW y \in Nat, NEW z \in Nat, x < y, y < z,
         Computes(p, a, x, y), Computes(p, b, y, z)
  PROVE  Computes(p, Merged(a, b), x, z)
<1> DEFINE m == Merged(a, b)
<1>1. m \in LoopOf(p, len) /\ m.len = len /\ a.len = len /\ b.len = len
  BY MergedTyped DEF LoopOf
<1>2. Names(a) \union Names(b) \subseteq Names(m)
  BY MergedNames
<1>3. Follows(m.ops, a.ops, b.ops, Behind(a))
  BY MergedIs
<1> HIDE DEF m
<1>4. ASSUME NEW n \in x + 1 .. z
      PROVE  \/ p[n] \in Fused(p, m.len) /\ Tensors(p[n]) \subseteq Names(m)
             \/ p[n].op \in {"Add", "Mul"}
  <2>1. CASE n <= y
    <3>1. n \in x + 1 .. y
      BY <2>1
    <3>2. QED
      BY <1>1, <1>2, <3>1 DEF Computes
  <2>2. CASE ~(n <= y)
    <3>1. n \in y + 1 .. z
      BY <2>2
    <3>2. QED
      BY <1>1, <1>2, <3>1 DEF Computes
  <2>3. QED
    BY <2>1, <2>2
<1>5. ASSUME NEW h, NEW f, Chain(p, h, x, z), Names(m) \subseteq DOMAIN h[x],
             Begins(f, h[x]), Reaches(f, m)
      PROVE  At(f, m).mem = h[z]
  <2> DEFINE O == OpsOn(Offsets(p, len))
             u == a.ops
             v == b.ops
             w == m.ops
             by == Behind(a)
             g == Later(f, Len(u), Len(v), by)
  <2>1. /\ u \in Seq(O) /\ v \in Seq(O) /\ w \in Seq(O) /\ O = OpsOn(Offsets(p, len))
        /\ Follows(w, u, v, by) /\ IsRun(f, w, Len(w)) /\ DOMAIN f[0].regs = {}
        /\ g = Later(f, Len(u), Len(v), by)
    BY <1>1, <1>3, <1>5 DEF LoopOf, Reaches, Begins
  <2> HIDE DEF O, u, v, w, by, g
  <2>2. /\ IsRun(f, u, Len(u)) /\ IsRun(g, v, Len(v))
        /\ g[0].mem = f[Len(u)].mem /\ DOMAIN g[0].regs = {}
        /\ g[Len(v)].mem = f[Len(w)].mem
    BY <2>1, FollowsRuns
  <2>3. Chain(p, h, x, y) /\ Chain(p, h, y, z) /\ DOMAIN h[y] = DOMAIN h[x]
    <3>1. y \in x .. z /\ x <= y
      OBVIOUS
    <3>2. Chain(p, h, x, y) /\ Chain(p, h, y, z)
      BY <1>5, <3>1, ChainParts
    <3>3. QED
      BY <3>1, <3>2, ChainDomain
  <2>4. At(f, a).mem = h[y]
    <3>1. Reaches(f, a)
      BY <2>2 DEF Reaches, u
    <3>2. QED
      BY <1>2, <1>5, <2>3, <3>1 DEF Computes
  <2>5. Reaches(g, b) /\ Begins(g, h[y])
    BY <2>2, <2>4 DEF Reaches, Begins, At, u, v
  <2>6. At(g, b).mem = h[z]
    BY <1>2, <1>5, <2>3, <2>5 DEF Computes
  <2>7. QED
    BY <2>2, <2>6 DEF At, v, w
<1>6. x + 1 \in x + 1 .. y /\ p[x + 1] \in Fused(p, m.len)
  BY <1>1 DEF Computes
<1>7. QED
  BY <1>4, <1>5, <1>6 DEF Computes, m

(* A loop computes nothing for a scalar instruction. *)
LEMMA ScalarDropped ==
  ASSUME NEW p, NEW item, NEW a \in Nat, NEW n \in Nat, a < n, Computes(p, item, a, n),
         p[n + 1].op \in {"Add", "Mul"}
  PROVE  Computes(p, item, a, n + 1)
<1>1. ASSUME NEW k \in a + 1 .. n + 1
      PROVE  \/ p[k] \in Fused(p, item.len) /\ Tensors(p[k]) \subseteq Names(item)
             \/ p[k].op \in {"Add", "Mul"}
  <2>1. CASE k = n + 1
    BY <2>1
  <2>2. CASE k # n + 1
    <3>1. k \in a + 1 .. n
      BY <2>2
    <3>2. QED
      BY <3>1 DEF Computes
  <2>3. QED
    BY <2>1, <2>2
<1>2. ASSUME NEW h, NEW f, Chain(p, h, a, n + 1), Names(item) \subseteq DOMAIN h[a],
             Begins(f, h[a]), Reaches(f, item)
      PROVE  At(f, item).mem = h[n + 1]
  <2>1. n \in a .. n + 1 /\ n + 1 \in a + 1 .. n + 1 /\ (n + 1) - 1 = n /\ n + 1 \in Nat
    OBVIOUS
  <2>2. Chain(p, h, a, n)
    BY <1>2, <2>1, ChainParts
  <2>3. h[n + 1] = Column(p[n + 1], h[n])
    BY <1>2, <2>1 DEF Chain
  <2>4. Column(p[n + 1], h[n]) = h[n]
    BY DEF Column, VecOneOps
  <2>5. At(f, item).mem = h[n]
    BY <1>2, <2>2 DEF Computes
  <2>6. QED
    BY <2>3, <2>4, <2>5
<1>3. p[a + 1] \in Fused(p, item.len)
  BY DEF Computes
<1>4. QED
  BY <1>1, <1>2, <1>3 DEF Computes

LEMMA MergeNextSplits ==
  ASSUME NEW p \in Seq(OpCode), NEW items \in Seq(Items(p)), NEW item \in Items(p), NEW upto,
         NEW n \in Nat, NEW m \in Nat, Splits(p, items, upto, n), Stands(p, item, n, m)
  PROVE  \E u : Splits(p, MergeNext(items, item), u, m)
<1> DEFINE L == Len(items)
           g == items[L]
           a == upto[L - 1]
<1>0. n < m /\ n <= m
  BY DEF Stands
<1>1. ASSUME items # <<>>
      PROVE  /\ L \in 1 .. L /\ g \in Items(p) /\ Last(items) = g /\ a \in Nat
             /\ Stands(p, g, a, n)
  <2>1. L \in 1 .. L /\ g \in Items(p) /\ Last(items) = g /\ L - 1 \in 0 .. L
    <3> HIDE DEF Items
    <3>1. QED
      BY <1>1 DEF Last
  <2>2. upto[L] = n /\ upto[L - 1] \in 0 .. n /\ Stands(p, items[L], upto[L - 1], upto[L])
    BY <2>1 DEF Splits
  <2>3. QED
    BY <2>1, <2>2
<1>2. CASE MergeNext(items, item) = Append(items, item)
  <2> HIDE DEF Items
  <2>1. \E u : Splits(p, Append(items, item), u, m) /\ u[Len(items)] = n
    BY SplitsMore
  <2>2. QED
    BY <1>2, <2>1
<1>3. CASE /\ items # <<>> /\ Last(items).kind = "loop" /\ IsLoop(item, Last(items).len)
  <2> DEFINE e == Merged(g, item)
  <2>1. PICK len \in Nat : g \in LoopOf(p, len) /\ Len(g.ops) > 0
    BY <1>1, <1>3 DEF Items
  <2>2. item \in LoopOf(p, len) /\ item.kind = "loop"
    BY <1>1, <1>3, <2>1 DEF Items, LoopOf, IsLoop
  <2>3. MergeNext(items, item) = [items EXCEPT ![L] = e]
    BY <1>1, <1>3 DEF MergeNext, IsLoop
  <2>4. e \in LoopOf(p, len) /\ Len(e.ops) > 0
    BY <2>1, <2>2, MergedTyped
  <2>5. e \in Items(p) /\ e.kind = "loop" /\ g.kind = "loop"
    BY <2>1, <2>4 DEF Items, LoopOf
  <2>6. a < n /\ Computes(p, g, a, n) /\ Computes(p, item, n, m)
    BY <1>1, <1>3, <2>2, <2>5 DEF Stands
  <2> HIDE DEF e, g, a
  <2>7. Computes(p, e, a, m)
    BY <1>0, <1>1, <1>3, <2>1, <2>2, <2>6, MergedComputes DEF e
  <2>8. Stands(p, e, a, m)
    BY <1>0, <1>1, <1>3, <2>5, <2>6, <2>7 DEF Stands
  <2>9. \E u : Splits(p, [items EXCEPT ![L] = e], u, m) /\ u[L - 1] = upto[L - 1]
    <3> HIDE DEF Items
    <3>1. Stands(p, e, upto[Len(items) - 1], m)
      BY <2>8 DEF a
    <3>2. QED
      BY <1>0, <1>3, <2>5, <3>1, SplitsLonger
  <2>10. QED
    BY <2>3, <2>9
<1>4. CASE /\ items # <<>> /\ Last(items).kind = "loop" /\ ~IsLoop(item, Last(items).len)
           /\ item.kind = "raw" /\ item.ins.op \in {"Add", "Mul"}
  <2>1. MergeNext(items, item) = items
    BY <1>4 DEF MergeNext
  <2>2. m = n + 1 /\ p[n + 1].op \in {"Add", "Mul"}
    BY <1>4 DEF Stands
  <2>3. g.kind = "loop" /\ a < n /\ Computes(p, g, a, n)
    BY <1>1, <1>4, <1>0 DEF Stands
  <2> HIDE DEF g, a
  <2>4. Computes(p, g, a, m)
    BY <1>1, <1>4, <2>2, <2>3, ScalarDropped
  <2>5. Stands(p, g, a, m)
    BY <1>0, <1>1, <1>4, <2>3, <2>4 DEF Stands
  <2>6. \E u : Splits(p, [items EXCEPT ![L] = g], u, m) /\ u[L - 1] = upto[L - 1]
    <3> HIDE DEF Items
    <3>1. Stands(p, g, upto[Len(items) - 1], m)
      BY <2>5 DEF a
    <3>2. QED
      BY <1>0, <1>1, <1>4, <3>1, SplitsLonger
  <2>7. [items EXCEPT ![L] = g] = items
    <3> HIDE DEF Items
    <3>1. QED
      BY DEF g
  <2>8. QED
    BY <2>1, <2>6, <2>7
<1>5. QED
  BY <1>2, <1>3, <1>4 DEF MergeNext

LEMMA KernelFuserSplits ==
  ASSUME NEW p \in Seq(OpCode), NEW items \in Seq(Items(p)), NEW upto, NEW n \in Nat,
         Splits(p, items, upto, n)
  PROVE  \E u : Splits(p, KernelFuser(items), u, n)
<1> DEFINE L == Len(items)
<1>1. PICK merged \in [0 .. L -> Seq(Items(p))] :
        /\ merged[0] = <<>>
        /\ \A k \in 1 .. L : merged[k] = MergeNext(merged[k - 1], items[k])
        /\ KernelFuser(items) = merged[L]
  BY KernelFuserIs
<1>2. /\ L \in Nat /\ upto[0] = 0 /\ upto[L] = n
      /\ \A j \in 0 .. L : upto[j] \in 0 .. n
      /\ \A j \in 1 .. L : Stands(p, items[j], upto[j - 1], upto[j]) /\ items[j] \in Items(p)
  <2> HIDE DEF Items
  <2>1. QED
    BY DEF Splits
<1> HIDE DEF L
<1> DEFINE Good == {k \in Nat : k <= L => \E u : Splits(p, merged[k], u, upto[k])}
<1>3. 0 \in Good
  <2> DEFINE u == [j \in {0} |-> 0]
  <2>1. Splits(p, <<>>, u, 0)
    BY DEF Splits
  <2>2. QED
    BY <1>1, <1>2, <2>1
<1>4. ASSUME NEW k \in Nat, k \in Good PROVE k + 1 \in Good
  <2>1. SUFFICES ASSUME k + 1 <= L PROVE \E u : Splits(p, merged[k + 1], u, upto[k + 1])
    OBVIOUS
  <2>2. k \in 0 .. L /\ k + 1 \in 0 .. L /\ k + 1 \in 1 .. L /\ (k + 1) - 1 = k
    BY <1>2, <2>1
  <2>3. PICK u : Splits(p, merged[k], u, upto[k])
    BY <1>2, <1>4, <2>2
  <2> DEFINE x == merged[k]
             i == items[k + 1]
             a == upto[k]
             b == upto[k + 1]
  <2>4. /\ x \in Seq(Items(p)) /\ i \in Items(p) /\ a \in Nat /\ b \in Nat
        /\ merged[k + 1] = MergeNext(x, i)
        /\ Splits(p, x, u, a) /\ Stands(p, i, a, b)
    <3> HIDE DEF Items
    <3>1. x \in Seq(Items(p))
      BY <1>1, <2>2
    <3>2. merged[k + 1] = MergeNext(x, i)
      BY <1>1, <2>2
    <3>3. a \in 0 .. n /\ b \in 0 .. n
      BY <1>2, <2>2
    <3>4. i \in Items(p) /\ Stands(p, i, a, b)
      BY <1>2, <2>2
    <3>5. QED
      BY <2>3, <3>1, <3>2, <3>3, <3>4
  <2> HIDE DEF x, i, a, b
  <2>5. \E v : Splits(p, MergeNext(x, i), v, b)
    BY <2>4, MergeNextSplits
  <2>6. QED
    BY <2>4, <2>5 DEF b
<1>5. Nat \subseteq Good
  <2> HIDE DEF Good
  <2>1. QED
    BY <1>3, <1>4, SetInduction
<1>6. L \in Good /\ L <= L
  BY <1>2, <1>5
<1>7. QED
  BY <1>1, <1>2, <1>6

-----------------------------------------------------------------------------
(* What the virtual machine computes: the buffers after each instruction,  *)
(* by the recursion of Stages and of Kept.                                 *)
LEMMA StagesAre ==
  ASSUME NEW S, NEW prog \in Seq(S), NEW b, NEW inp
  PROVE  /\ Stages(prog, b, inp)[0] = b
         /\ \A k \in 1 .. Len(prog) :
              Stages(prog, b, inp)[k] = Effect(prog[k], Stages(prog, b, inp)[k - 1], inp)
<1> DEFINE n == Len(prog)
           Next1(k, x) == Effect(prog[k], x, inp)
           F(f) == [k \in 0 .. n |-> IF k = 0 THEN b ELSE Effect(prog[k], f[k - 1], inp)]
           G(f, m) == [k \in 0 .. m |-> IF k = 0 THEN b ELSE Next1(k, f[k - 1])]
           stage == CHOOSE f : f = F(f)
           Good == {m \in Nat : \E f : f = G(f, m)}
<1>1. Stages(prog, b, inp) = stage
  BY DEF Stages
<1>2. n \in Nat
  OBVIOUS
<1>3. 0 \in Good
  <2> HIDE DEF Next1
  <2> DEFINE f == [k \in 0 .. 0 |-> b]
  <2>1. f = G(f, 0)
    OBVIOUS
  <2>2. QED
    BY <2>1
<1>4. ASSUME NEW m \in Nat, m \in Good PROVE m + 1 \in Good
  <2> HIDE DEF Next1
  <2>1. PICK f : f = G(f, m)
    BY <1>4
  <2> DEFINE g == [k \in 0 .. m + 1 |-> IF k = m + 1 THEN Next1(m + 1, f[m]) ELSE f[k]]
  <2>2. ASSUME NEW k \in 0 .. m + 1 PROVE g[k] = IF k = 0 THEN b ELSE Next1(k, g[k - 1])
    <3>1. \A j \in 0 .. m : f[j] = IF j = 0 THEN b ELSE Next1(j, f[j - 1])
      BY <2>1
    <3>2. CASE k = m + 1
      <4>1. k - 1 = m /\ m \in 0 .. m + 1 /\ m # m + 1 /\ k # 0
        BY <3>2
      <4>2. g[m] = f[m] /\ g[k] = Next1(m + 1, f[m])
        BY <3>2, <4>1
      <4>3. QED
        <5> HIDE DEF g
        <5>1. QED
          BY <3>2, <4>1, <4>2
    <3>3. CASE k = 0
      <4>1. g[0] = f[0] /\ f[0] = b
        BY <3>1
      <4>2. QED
        BY <3>3, <4>1
    <3>4. CASE k # m + 1 /\ k # 0
      <4>1. k \in 0 .. m /\ k - 1 \in 0 .. m + 1 /\ k - 1 # m + 1
        BY <3>4
      <4>2. g[k] = f[k] /\ g[k - 1] = f[k - 1] /\ f[k] = Next1(k, f[k - 1])
        BY <3>1, <3>4, <4>1
      <4>3. QED
        <5> HIDE DEF g
        <5>1. QED
          BY <3>4, <4>2
    <3>5. QED
      BY <3>2, <3>3, <3>4
  <2>3. g = G(g, m + 1)
    <3> DEFINE h == G(g, m + 1)
    <3>1. \A k \in 0 .. m + 1 : h[k] = IF k = 0 THEN b ELSE Next1(k, g[k - 1])
      <4> HIDE DEF g
      <4>1. QED
        OBVIOUS
    <3>2. DOMAIN g = 0 .. m + 1 /\ DOMAIN h = 0 .. m + 1
      OBVIOUS
    <3>3. \A k \in 0 .. m + 1 : g[k] = h[k]
      <4> HIDE DEF g, h
      <4>1. QED
        BY <2>2, <3>1
    <3>4. g = [k \in 0 .. m + 1 |-> g[k]] /\ h = [k \in 0 .. m + 1 |-> h[k]]
      OBVIOUS
    <3>5. g = h
      <4> HIDE DEF g, h
      <4>1. QED
        BY <3>3, <3>4
    <3>6. QED
      BY <3>5
  <2>4. \E e : e = G(e, m + 1)
    <3> HIDE DEF g
    <3>1. QED
      BY <2>3
  <2>5. QED
    BY <2>4
<1>5. n \in Good
  <2>1. Nat \subseteq Good
    <3> HIDE DEF Good
    <3>1. QED
      BY <1>3, <1>4, SetInduction
  <2>2. QED
    BY <1>2, <2>1
<1>6. \E f : f = F(f)
  <2>1. PICK f : f = G(f, n)
    BY <1>5
  <2>2. G(f, n) = F(f)
    OBVIOUS
  <2>3. QED
    BY <2>1, <2>2
<1>7. stage = F(stage)
  <2> HIDE DEF F
  <2>1. QED
    BY <1>6
<1>8. \A k \in 0 .. n : stage[k] = IF k = 0 THEN b ELSE Next1(k, stage[k - 1])
  <2> HIDE DEF stage
  <2>1. QED
    BY <1>7
<1>9. stage[0] = b /\ \A k \in 1 .. n : stage[k] = Next1(k, stage[k - 1])
  <2> HIDE DEF stage, Next1
  <2>1. 0 \in 0 .. n /\ \A k \in 1 .. n : k \in 0 .. n /\ k # 0
    BY <1>2
  <2>2. QED
    BY <1>8, <2>1
<1>10. QED
  BY <1>1, <1>9

(* The buffers after the first j instructions are those of a program of    *)
(* these.                                                                  *)
LEMMA RunOfPrefix ==
  ASSUME NEW S, NEW prog \in Seq(S), NEW b, NEW inp, NEW j \in 0 .. Len(prog)
  PROVE  Run(SubSeq(prog, 1, j), b, inp) = Stages(prog, b, inp)[j]
<1> DEFINE q == SubSeq(prog, 1, j)
           X == Stages(prog, b, inp)
           Y == Stages(q, b, inp)
           Good == {k \in Nat : k <= j => X[k] = Y[k]}
<1>1. q \in Seq(S) /\ Len(q) = j /\ (\A k \in 1 .. j : q[k] = prog[k]) /\ j \in Nat /\ j <= Len(prog)
  OBVIOUS
<1> HIDE DEF q
<1>2. /\ X[0] = b /\ Y[0] = b
      /\ \A k \in 1 .. Len(prog) : X[k] = Effect(prog[k], X[k - 1], inp)
      /\ \A k \in 1 .. Len(q) : Y[k] = Effect(q[k], Y[k - 1], inp)
  BY <1>1, StagesAre
<1> HIDE DEF X, Y
<1>3. 0 \in Good
  BY <1>2
<1>4. ASSUME NEW k \in Nat, k \in Good PROVE k + 1 \in Good
  <2>1. SUFFICES ASSUME k + 1 <= j PROVE X[k + 1] = Y[k + 1]
    OBVIOUS
  <2>2. k + 1 \in 1 .. j /\ k + 1 \in 1 .. Len(prog) /\ (k + 1) - 1 = k /\ X[k] = Y[k]
    BY <1>1, <1>4, <2>1
  <2>3. X[k + 1] = Effect(prog[k + 1], X[k], inp) /\ Y[k + 1] = Effect(q[k + 1], Y[k], inp)
    BY <1>1, <1>2, <2>2
  <2>4. QED
    BY <1>1, <2>2, <2>3
<1>5. Nat \subseteq Good
  <2> HIDE DEF Good
  <2>1. QED
    BY <1>3, <1>4, SetInduction
<1>6. X[j] = Y[j]
  BY <1>1, <1>5
<1>7. QED
  BY <1>1, <1>6 DEF Run, X, Y, q

(* The instructions that the compiler sees among the first n. *)
LEMMA KeptIs ==
  ASSUME program \in Seq(OpCode)
  PROVE  \E S : /\ Kept[0] = <<>>
                /\ \A n \in 0 .. Len(program) : Kept[n] \in Seq(S)
                /\ \A n \in 1 .. Len(program) :
                     Kept[n] = IF program[n].op \in Known
                               THEN Append(Kept[n - 1], Compiled(program[n])) ELSE Kept[n - 1]
<1> DEFINE n == Len(program)
           C == {Compiled(x) : x \in Range(program)}
           S == Seq(C)
           Add1(k, x) == IF program[k].op \in Known THEN Append(x, Compiled(program[k])) ELSE x
           F(f) == [k \in 0 .. n |-> IF k = 0 THEN <<>>
                                     ELSE IF program[k].op \in Known
                                          THEN Append(f[k - 1], Compiled(program[k])) ELSE f[k - 1]]
           chosen == CHOOSE f : f = F(f)
           step == [x \in (1 .. n) \X S |-> Add1(x[1], x[2])]
<1>1. n \in Nat /\ <<>> \in S /\ \A k \in 1 .. n : Compiled(program[k]) \in C
  BY DEF Range
<1>2. \A k \in 1 .. n : \A x \in S : Add1(k, x) \in S
  <2> HIDE DEF C
  <2>1. QED
    BY <1>1
<1>3. step \in [(1 .. n) \X S -> S]
  <2> HIDE DEF Add1, S, n
  <2>1. QED
    BY <1>2
<1>4. PICK g \in [0 .. n -> S] : Solves(g, n, <<>>, step)
  <2> HIDE DEF S, step, n
  <2>1. QED
    BY <1>1, <1>3, SolutionExists
<1>5. g[0] = <<>> /\ \A k \in 1 .. n : g[k] = Add1(k, g[k - 1])
  <2> HIDE DEF Add1, S
  <2>1. SUFFICES ASSUME NEW k \in 1 .. n PROVE g[k] = Add1(k, g[k - 1])
    BY <1>4 DEF Solves
  <2>2. k - 1 \in 0 .. n
    BY <1>1
  <2>3. g[k] = step[<<k, g[k - 1]>>]
    <3> HIDE DEF step
    <3>1. QED
      BY <1>4 DEF Solves
  <2>4. <<k, g[k - 1]>> \in (1 .. n) \X S
    BY <2>2
  <2>5. QED
    BY <2>3, <2>4
<1>6. g = F(g)
  <2> HIDE DEF S
  <2>1. \A k \in 0 .. n : g[k] = IF k = 0 THEN <<>>
                                 ELSE IF program[k].op \in Known
                                      THEN Append(g[k - 1], Compiled(program[k])) ELSE g[k - 1]
    <3>1. SUFFICES ASSUME NEW k \in 0 .. n
                   PROVE  g[k] = IF k = 0 THEN <<>> ELSE Add1(k, g[k - 1])
      OBVIOUS
    <3>2. k # 0 => k \in 1 .. n
      BY <1>1
    <3> HIDE DEF Add1
    <3>3. QED
      BY <1>5, <3>2
  <2>2. QED
    BY <2>1
<1>7. chosen = F(chosen)
  BY <1>6
<1>8. Kept = chosen
  BY DEF Kept
<1> HIDE DEF chosen
<1>9. /\ Kept[0] = <<>>
      /\ \A k \in 1 .. n : Kept[k] = Add1(k, Kept[k - 1])
  <2>1. \A k \in 0 .. n : chosen[k] = IF k = 0 THEN <<>> ELSE Add1(k, chosen[k - 1])
    BY <1>7
  <2>2. 0 \in 0 .. n /\ \A k \in 1 .. n : k \in 0 .. n /\ k # 0
    BY <1>1
  <2> HIDE DEF Add1
  <2>3. QED
    BY <1>8, <2>1, <2>2
<1> DEFINE Good == {k \in Nat : k <= n => Kept[k] \in S}
<1>10. Nat \subseteq Good
  <2> HIDE DEF S, Add1
  <2>1. 0 \in Good
    BY <1>1, <1>9
  <2>2. ASSUME NEW k \in Nat, k \in Good PROVE k + 1 \in Good
    <3>1. SUFFICES ASSUME k + 1 <= n PROVE Kept[k + 1] \in S
      OBVIOUS
    <3>2. k + 1 \in 1 .. n /\ (k + 1) - 1 = k /\ Kept[k] \in S
      BY <1>1, <2>2, <3>1
    <3>3. Kept[k + 1] = Add1(k + 1, Kept[k])
      BY <1>9, <3>2
    <3>4. QED
      BY <1>2, <3>2, <3>3
  <2> HIDE DEF Good
  <2>3. QED
    BY <2>1, <2>2, SetInduction
<1>11. \A k \in 0 .. n : Kept[k] \in Seq(C)
  <2> HIDE DEF C
  <2>1. QED
    BY <1>1, <1>10
<1> HIDE DEF C
<1>12. QED
  BY <1>9, <1>11

(* M is the buffers after each instruction of the program, when those that *)
(* the compiler does not see do nothing; and nothing on the way leaves the *)
(* range of i16.                                                           *)
Traced(M) ==
  /\ M[0] = before
  /\ \A n \in 1 .. Len(program) :
       M[n] = IF program[n].op \in Known THEN Effect(Compiled(program[n]), M[n - 1], inputs)
                                         ELSE M[n - 1]

NarrowAlong(M) ==
  \A n \in 1 .. Len(program) :
    program[n].op \in Known => Narrow(Compiled(program[n]), M[n - 1].i16)

(* What is kept of the first n instructions begins what is kept of all. *)
LEMMA KeptBegins ==
  ASSUME program \in Seq(OpCode), NEW n \in 0 .. Len(program)
  PROVE  /\ Len(Kept[n]) \in Nat /\ Len(Kept[n]) <= Len(Seen)
         /\ \A j \in 1 .. Len(Kept[n]) : Seen[j] = Kept[n][j]
<1> DEFINE N == Len(program)
           Begun(k) == /\ Len(Kept[k]) \in Nat /\ Len(Kept[k]) <= Len(Seen)
                       /\ \A j \in 1 .. Len(Kept[k]) : Seen[j] = Kept[k][j]
           Good == {d \in Nat : d <= N => Begun(N - d)}
<1>1. N \in Nat /\ n \in Nat /\ n <= N /\ n \in 0 .. N
  OBVIOUS
<1>2. PICK S : /\ Kept[0] = <<>>
               /\ \A k \in 0 .. N : Kept[k] \in Seq(S)
               /\ \A k \in 1 .. N :
                    Kept[k] = IF program[k].op \in Known
                              THEN Append(Kept[k - 1], Compiled(program[k])) ELSE Kept[k - 1]
  BY KeptIs
<1>10. Seen = Kept[N]
  BY DEF Seen
<1> HIDE DEF N
<1>3. 0 \in Good
  <2>1. N - 0 = N /\ Kept[N] \in Seq(S)
    BY <1>1, <1>2
  <2>2. Len(Kept[N]) \in Nat
    BY <2>1
  <2>3. QED
    BY <1>10, <2>1, <2>2
<1>4. ASSUME NEW d \in Nat, d \in Good PROVE d + 1 \in Good
  <2>1. SUFFICES ASSUME d + 1 <= N PROVE Begun(N - (d + 1))
    OBVIOUS
  <2> DEFINE k == N - d
  <2>2. k \in 1 .. N /\ k - 1 \in 0 .. N /\ k - 1 = N - (d + 1) /\ d <= N
    BY <1>1, <2>1
  <2>3. Begun(k)
    BY <1>4, <2>2
  <2> HIDE DEF k
  <2> DEFINE x == Kept[k - 1]
             y == Kept[k]
             c == Compiled(program[k])
  <2>4. x \in Seq(S) /\ y \in Seq(S) /\ (y = x \/ y = Append(x, c))
    <3>1. k \in 0 .. N
      BY <1>1, <2>2
    <3>2. Kept[k] \in Seq(S) /\ Kept[k - 1] \in Seq(S)
      BY <1>2, <2>2, <3>1
    <3>3. Kept[k] = IF program[k].op \in Known THEN Append(Kept[k - 1], c) ELSE Kept[k - 1]
      BY <1>2, <2>2
    <3>4. QED
      BY <3>2, <3>3
  <2>5. Len(y) \in Nat /\ Len(y) <= Len(Seen) /\ \A j \in 1 .. Len(y) : Seen[j] = y[j]
    BY <2>3
  <2>6. Len(Seen) \in Nat
    <3>1. Seen \in Seq(S)
      BY <1>1, <1>2, <1>10
    <3>2. QED
      BY <3>1
  <2> HIDE DEF x, y, c
  <2>7. Len(x) \in Nat /\ Len(x) <= Len(y) /\ \A j \in 1 .. Len(x) : y[j] = x[j]
    BY <2>4
  <2>8. Len(x) <= Len(Seen) /\ \A j \in 1 .. Len(x) : j \in 1 .. Len(y)
    BY <2>5, <2>6, <2>7
  <2>9. \A j \in 1 .. Len(x) : Seen[j] = x[j]
    BY <2>5, <2>7, <2>8
  <2>10. QED
    BY <2>2, <2>7, <2>8, <2>9 DEF x
<1>5. Nat \subseteq Good
  <2> HIDE DEF Good
  <2>1. QED
    BY <1>3, <1>4, SetInduction
<1>6. N - n \in Nat /\ N - n <= N /\ N - (N - n) = n
  BY <1>1
<1>7. Begun(N - (N - n))
  <2> HIDE DEF Begun
  <2>1. N - n \in Good
    BY <1>5, <1>6
  <2>2. QED
    BY <1>6, <2>1
<1>8. QED
  BY <1>6, <1>7

LEMMA TraceExists ==
  ASSUME program \in Seq(OpCode)
  PROVE  \E M : /\ Traced(M) /\ M[Len(program)] = Run(Seen, before, inputs)
                /\ Unsaturated => NarrowAlong(M)
<1> DEFINE N == Len(program)
           X == Stages(Seen, before, inputs)
           M == [n \in 0 .. N |-> X[Len(Kept[n])]]
<1>1. PICK S : /\ Kept[0] = <<>>
               /\ \A k \in 0 .. N : Kept[k] \in Seq(S)
               /\ \A k \in 1 .. N :
                    Kept[k] = IF program[k].op \in Known
                              THEN Append(Kept[k - 1], Compiled(program[k])) ELSE Kept[k - 1]
  BY KeptIs
<1>2. N \in Nat /\ Seen = Kept[N] /\ Seen \in Seq(S)
  <2>1. N \in Nat /\ Seen = Kept[N] /\ N \in 0 .. N
    BY DEF Seen
  <2>2. QED
    BY <1>1, <2>1
<1>3. /\ X[0] = before
      /\ \A k \in 1 .. Len(Seen) : X[k] = Effect(Seen[k], X[k - 1], inputs)
  BY <1>2, StagesAre
<1>8. Run(Seen, before, inputs) = X[Len(Kept[N])]
  BY <1>2 DEF Run
<1>9. \A j \in 0 .. Len(Seen) : Run(SubSeq(Seen, 1, j), before, inputs) = X[j]
  <2> DEFINE s == Seen
  <2>1. s \in Seq(S)
    BY <1>2
  <2> HIDE DEF s, X
  <2>2. \A j \in 0 .. Len(s) : Run(SubSeq(s, 1, j), before, inputs) = Stages(s, before, inputs)[j]
    BY <2>1, RunOfPrefix
  <2>3. QED
    BY <2>2 DEF s, X
<1>11. \A n \in 0 .. N : /\ Len(Kept[n]) \in Nat /\ Len(Kept[n]) <= Len(Seen)
                         /\ \A j \in 1 .. Len(Kept[n]) : Seen[j] = Kept[n][j]
  BY KeptBegins
<1> HIDE DEF N, X
<1>4. ASSUME NEW n \in 1 .. N, program[n].op \in Known
      PROVE  \E k \in 1 .. Len(Seen) :
               k = Len(Kept[n]) /\ k - 1 = Len(Kept[n - 1]) /\ Seen[k] = Compiled(program[n])
  <2> DEFINE x == Kept[n - 1]
             y == Kept[n]
             c == Compiled(program[n])
  <2>1. n - 1 \in 0 .. N /\ n \in 0 .. N
    BY <1>2
  <2>2. x \in Seq(S) /\ y = Append(x, c)
    BY <1>1, <1>4, <2>1
  <2>3. Len(y) <= Len(Seen) /\ \A j \in 1 .. Len(y) : Seen[j] = y[j]
    BY <1>11, <2>1
  <2> HIDE DEF x, y, c
  <2>4. Len(x) \in Nat /\ Len(y) = Len(x) + 1 /\ y[Len(x) + 1] = c
    BY <2>2
  <2>5. Len(Seen) \in Nat
    BY <1>2
  <2>6. Len(x) + 1 \in 1 .. Len(Seen) /\ Len(x) + 1 \in 1 .. Len(y) /\ Len(x) + 1 - 1 = Len(x)
    BY <2>3, <2>4, <2>5
  <2>7. Seen[Len(x) + 1] = c
    BY <2>3, <2>4, <2>6
  <2>8. QED
    BY <2>4, <2>6, <2>7 DEF x, y, c
<1>5. \A n \in 0 .. N : M[n] = X[Len(Kept[n])]
  OBVIOUS
<1> HIDE DEF M
<1>6. Traced(M)
  <2>1. M[0] = before
    <3>1. 0 \in 0 .. N /\ Len(Kept[0]) = 0
      BY <1>1, <1>2
    <3>2. QED
      BY <1>3, <1>5, <3>1
  <2>2. ASSUME NEW n \in 1 .. N
        PROVE  M[n] = IF program[n].op \in Known
                      THEN Effect(Compiled(program[n]), M[n - 1], inputs) ELSE M[n - 1]
    <3>1. n \in 0 .. N /\ n - 1 \in 0 .. N
      BY <1>2
    <3>2. M[n] = X[Len(Kept[n])] /\ M[n - 1] = X[Len(Kept[n - 1])]
      BY <1>5, <3>1
    <3>3. CASE program[n].op \in Known
      <4>1. PICK k \in 1 .. Len(Seen) :
               k = Len(Kept[n]) /\ k - 1 = Len(Kept[n - 1]) /\ Seen[k] = Compiled(program[n])
        BY <1>4, <3>3
      <4>2. QED
        BY <1>3, <3>2, <3>3, <4>1
    <3>4. CASE program[n].op \notin Known
      BY <1>1, <3>2, <3>4
    <3>5. QED
      BY <3>3, <3>4
  <2>3. QED
    BY <2>1, <2>2 DEF Traced, N
<1>7. ASSUME Unsaturated PROVE NarrowAlong(M)
  <2>1. SUFFICES ASSUME NEW n \in 1 .. N, program[n].op \in Known
                 PROVE  Narrow(Compiled(program[n]), M[n - 1].i16)
    BY DEF NarrowAlong, N
  <2>2. PICK k \in 1 .. Len(Seen) :
           k = Len(Kept[n]) /\ k - 1 = Len(Kept[n - 1]) /\ Seen[k] = Compiled(program[n])
    BY <1>4, <2>1
  <2>3. k \in DOMAIN Seen /\ k - 1 \in 0 .. Len(Seen)
    BY <1>2
  <2>4. Narrow(Seen[k], Run(SubSeq(Seen, 1, k - 1), before, inputs).i16)
    BY <1>7, <2>3 DEF Unsaturated
  <2>5. n - 1 \in 0 .. N
    BY <1>2
  <2>6. Run(SubSeq(Seen, 1, k - 1), before, inputs) = M[n - 1]
    BY <1>5, <1>9, <2>2, <2>3, <2>5
  <2>7. QED
    BY <2>2, <2>4, <2>6
<1>10. M[N] = Run(Seen, before, inputs)
  <2>1. N \in 0 .. N
    BY <1>2
  <2>2. QED
    BY <1>5, <1>8, <2>1
<1>12. QED
  BY <1>6, <1>7, <1>10 DEF N

-----------------------------------------------------------------------------
(* One element of an instruction of the virtual machine.                   *)
Col(a, D, e) == [off \in D |-> a[off + e]]

VectorOps == {"AddVec", "MulVec"} \union VecOneOps

LEMMA WithinI16 ==
  ASSUME NEW x \in I16
  PROVE  Wrap16(x) = x /\ Sat16(x) = x
<1>1. x \in Int /\ I16Min <= x /\ x <= I16Max
  <2>1. I16Min \in Int /\ I16Max \in Int
    BY DEF I16Min, I16Max
  <2>2. QED
    BY <2>1 DEF I16
<1>2. (x + 32768) % 65536 = x + 32768
  BY <1>1 DEF I16Min, I16Max
<1>3. Wrap16(x) = x
  BY <1>1, <1>2 DEF Wrap16
<1>4. Sat16(x) = x
  BY <1>1 DEF Sat16, Clamp, I16Min, I16Max
<1>5. QED
  BY <1>3, <1>4

LEMMA ArithIs ==
  ASSUME backend \in {"jit", "aot"}, NEW i, i.op \in VectorOps, NEW l, NEW r,
         backend = "jit" => Exact(i.op, l, r) \in I16
  PROVE  Arith(Kind(i), l, r) = Combine(i.op, l, r)
<1>1. Exact(Kind(i), l, r) = Exact(i.op, l, r)
  BY DEF Exact, Kind, Adds, VectorOps, VecOneOps
<1>2. Kind(i) \notin VecI8Ops /\ i.op \notin VecI8Ops
  BY DEF Kind, VecI8Ops, VectorOps, VecOneOps
<1>3. Combine(i.op, l, r) = Sat16(Exact(i.op, l, r)) /\ Combine(Kind(i), l, r) = Sat16(Exact(i.op, l, r))
  BY <1>1, <1>2 DEF Combine
<1>4. CASE backend = "jit"
  <2> DEFINE x == Exact(i.op, l, r)
  <2>1. x \in I16
    BY <1>4
  <2>2. Arith(Kind(i), l, r) = Wrap16(x)
    BY <1>1, <1>4 DEF Arith
  <2> HIDE DEF x
  <2>3. Wrap16(x) = Sat16(x)
    BY <2>1, WithinI16
  <2>4. QED
    BY <1>3, <2>2, <2>3 DEF x
<1>5. CASE backend # "jit"
  BY <1>3, <1>5 DEF Arith
<1>6. QED
  BY <1>4, <1>5

LEMMA CompiledFields ==
  ASSUME NEW i \in OpCode, i.op \in FusableOps, NEW c, c = Compiled(i)
  PROVE  /\ c.op = i.op /\ c.len = i.len
         /\ i.op \in VectorOps => c.lhs = i.lhs /\ c.dst = i.dst
         /\ i.op \in {"AddVec", "MulVec"} => c.rhs = i.rhs
         /\ i.op \in VecOneOps => c.val = IF backend = "aot" THEN 0 ELSE i.val
         /\ i.op = "AdamWStep" => c = i
<1>1. CASE backend = "aot" /\ i.op \in VecOneOps
  <2>1. DOMAIN i = {"op", "lhs", "dst", "len", "val"}
    BY <1>1 DEF OpCode, VecOneOps, ScalarOps, VecBinOps, VecI8Ops, StepOps
  <2>2. c = [i EXCEPT !.val = 0]
    BY <1>1 DEF Compiled
  <2>3. QED
    BY <1>1, <2>1, <2>2 DEF VecOneOps
<1>2. CASE ~(backend = "aot" /\ i.op \in VecOneOps)
  BY <1>2 DEF Compiled
<1>3. QED
  BY <1>1, <1>2

(* The cells that an instruction writes. *)
LEMMA Copied ==
  ASSUME NEW a, NEW dst \in Nat, NEW n \in Nat, NEW b, DOMAIN b = 0 .. n - 1,
         NEW z, z = Copy(a, dst, b)
  PROVE  /\ DOMAIN z = DOMAIN a /\ z = [x \in DOMAIN a |-> z[x]]
         /\ \A k \in 0 .. n - 1 : dst + k \in DOMAIN a => z[dst + k] = b[k]
         /\ \A x \in DOMAIN a : (\A k \in 0 .. n - 1 : x # dst + k) /\ x \in Int => z[x] = a[x]
<1>1. /\ DOMAIN z = DOMAIN a /\ z = [x \in DOMAIN a |-> z[x]]
      /\ \A x \in DOMAIN a : z[x] = IF x - dst \in 0 .. n - 1 THEN b[x - dst] ELSE a[x]
  BY DEF Copy
<1>2. \A k \in 0 .. n - 1 : dst + k - dst = k
  OBVIOUS
<1>3. ASSUME NEW x \in DOMAIN a, \A k \in 0 .. n - 1 : x # dst + k, x \in Int
      PROVE  z[x] = a[x]
  <2>1. dst + (x - dst) = x
    BY <1>3
  <2>2. x - dst \notin 0 .. n - 1
    BY <1>3, <2>1
  <2>3. QED
    BY <1>1, <2>2
<1>4. QED
  BY <1>1, <1>2, <1>3

(* A tensor that is that of dst or apart from it: its element e. *)
LEMMA CopiedColumn ==
  ASSUME NEW a, NEW dst \in Nat, NEW n \in Nat, NEW b, DOMAIN b = 0 .. n - 1,
         NEW z, z = Copy(a, dst, b), NEW off \in Nat, Aligned(off, dst, n),
         NEW e \in Nat, e < n, off + e \in DOMAIN a
  PROVE  z[off + e] = IF off = dst THEN b[e] ELSE a[off + e]
<1>1. CASE off = dst
  <2>1. e \in 0 .. n - 1
    OBVIOUS
  <2>2. QED
    BY <1>1, <2>1, Copied
<1>2. CASE off # dst
  <2>1. \A k \in 0 .. n - 1 : off + e # dst + k
    BY <1>2 DEF Aligned, Disjoint
  <2>2. off + e \in Int
    OBVIOUS
  <2>3. QED
    BY <1>2, <2>1, <2>2, Copied
<1>3. QED
  BY <1>1, <1>2

(* A set of tensors in which those of an instruction are, equal or apart.  *)
Columns(i, D, a, e) ==
  /\ D \subseteq Nat /\ Tensors(i) \subseteq D
  /\ \A x \in D, y \in Tensors(i) : Aligned(x, y, i.len)
  /\ e \in Nat /\ e < i.len
  /\ \A off \in D : off + e \in DOMAIN a

LEMMA VectorColumn ==
  ASSUME backend \in {"jit", "aot"}, NEW i \in OpCode, i.op \in VectorOps, NEW c, c = Compiled(i),
         NEW a, NEW D, NEW e, Columns(i, D, a, e), backend = "jit" => Narrow(c, a),
         NEW z, z = Copy(a, c.dst, Result(c, a))
  PROVE  Col(z, D, e) = Column(i, Col(a, D, e))
<1>1. i.op \in FusableOps /\ i.len \in Nat /\ i.dst \in Nat /\ i.lhs \in Nat
  BY Fields DEF FusableOps, VectorOps
<1>2. /\ c.op = i.op /\ c.len = i.len /\ c.lhs = i.lhs /\ c.dst = i.dst
      /\ i.op \in {"AddVec", "MulVec"} => c.rhs = i.rhs
      /\ i.op \in VecOneOps => c.val = IF backend = "aot" THEN 0 ELSE i.val
  BY <1>1, CompiledFields
<1>3. /\ D \subseteq Nat /\ e \in Nat /\ e < i.len
      /\ \A x \in D, y \in Tensors(i) : Aligned(x, y, i.len)
      /\ \A off \in D : off + e \in DOMAIN a
      /\ Tensors(i) \subseteq D /\ e \in 0 .. i.len - 1
  BY <1>1 DEF Columns
<1>4. i.dst \in Tensors(i) /\ i.lhs \in Tensors(i)
      /\ (i.op \in {"AddVec", "MulVec"} => i.rhs \in Tensors(i))
  BY DEF Tensors, VectorOps, VecOneOps
<1> DEFINE m == Col(a, D, e)
           l == a[i.lhs + e]
           r == IF i.op \in VecOneOps THEN IF backend = "jit" THEN i.val ELSE 0 ELSE a[i.rhs + e]
           v == Combine(i.op, l, r)
           b == Result(c, a)
<1>5. Rhs(c, a, e) = r
  BY <1>2 DEF Rhs, VectorOps
<1>6. DOMAIN b = 0 .. i.len - 1 /\ b[e] = v
  BY <1>2, <1>3, <1>5 DEF Result
<1>7. m[i.lhs] = l /\ (i.op \in {"AddVec", "MulVec"} => m[i.rhs] = a[i.rhs + e])
      /\ DOMAIN m = D /\ \A off \in D : m[off] = a[off + e]
  BY <1>3, <1>4 DEF Col
<1>8. Arith(Kind(i), l, r) = v
  <2>1. backend = "jit" => Exact(i.op, l, r) \in I16
    <3>1. SUFFICES ASSUME Narrow(c, a) PROVE Exact(i.op, l, r) \in I16
      OBVIOUS
    <3>2. Exact(c.op, a[c.lhs + e], Rhs(c, a, e)) \in I16
      <4>1. e \in 0 .. c.len - 1 /\ c.op \in {"AddVec", "MulVec"} \union VecOneOps
            /\ c.op # "AdamWStep"
        BY <1>2, <1>3 DEF VectorOps, VecOneOps
      <4>2. QED
        BY <3>1, <4>1 DEF Narrow
    <3>3. QED
      BY <1>2, <1>5, <3>2
  <2> HIDE DEF l, r
  <2>2. QED
    BY <2>1, ArithIs
<1>9. Column(i, m) = [m EXCEPT ![i.dst] = v]
  <2>1. CASE i.op \in {"AddVec", "MulVec"}
    <3>1. Column(i, m) = [m EXCEPT ![i.dst] = Arith(Kind(i), m[i.lhs], m[i.rhs])]
      BY <2>1 DEF Column, VecOneOps
    <3>2. r = m[i.rhs]
      BY <1>7, <2>1 DEF VecOneOps
    <3>3. QED
      BY <1>7, <1>8, <3>1, <3>2
  <2>2. CASE i.op \in VecOneOps
    <3>1. Column(i, m) = [m EXCEPT ![i.dst] = Arith(Kind(i), m[i.lhs],
                                                   IF backend = "jit" THEN i.val ELSE 0)]
      BY <2>2 DEF Column, VecOneOps
    <3>2. r = IF backend = "jit" THEN i.val ELSE 0
      BY <2>2
    <3>3. QED
      BY <1>7, <1>8, <3>1, <3>2
  <2>3. QED
    BY <2>1, <2>2 DEF VectorOps
<1> HIDE DEF m, l, r, v, b
<1>10. \A off \in D : z[off + e] = IF off = i.dst THEN v ELSE a[off + e]
  <2>1. SUFFICES ASSUME NEW off \in D
                 PROVE  z[off + e] = IF off = i.dst THEN v ELSE a[off + e]
    OBVIOUS
  <2>2. off \in Nat /\ Aligned(off, i.dst, i.len) /\ off + e \in DOMAIN a
    BY <1>3, <1>4
  <2>3. z = Copy(a, i.dst, b)
    BY <1>2 DEF b
  <2>4. QED
    BY <1>1, <1>3, <1>6, <2>2, <2>3, CopiedColumn
<1>11. Column(i, m) = [off \in D |-> IF off = i.dst THEN v ELSE a[off + e]]
  BY <1>7, <1>9
<1>12. Col(z, D, e) = [off \in D |-> IF off = i.dst THEN v ELSE a[off + e]]
  BY <1>10 DEF Col
<1>13. QED
  BY <1>11, <1>12 DEF m

(* An optimizer step. *)
NewM(i, a) == [k \in 0 .. i.len - 1 |-> Sat16(Mean16(a[i.m + k], a[i.g + k]))]
NewV(i, a) == [k \in 0 .. i.len - 1 |-> Sat16(Var16(a[i.v + k], Square(a[i.g + k])))]
NewW(i, a) ==
  [k \in 0 .. i.len - 1 |-> Sub16(a[i.w + k], Wrap16(Mean16(a[i.m + k], a[i.g + k]) \div 16))]

Moved(i, a) == Copy(Copy(Copy(a, i.m, NewM(i, a)), i.v, NewV(i, a)), i.w, NewW(i, a))

LEMMA StepColumn ==
  ASSUME backend = "jit", NEW i \in OpCode, i.op = "AdamWStep", Tidy(i),
         NEW a, NEW D, NEW e, Columns(i, D, a, e), Narrow(i, a), NEW z, z = Moved(i, a)
  PROVE  Col(z, D, e) = Column(i, Col(a, D, e))
<1>1. i.len \in Nat /\ i.w \in Nat /\ i.g \in Nat /\ i.m \in Nat /\ i.v \in Nat
  BY Fields
<1>2. Tensors(i) = {i.w, i.g, i.m, i.v}
  BY DEF Tensors, VecOneOps
<1>3. /\ D \subseteq Nat /\ e \in Nat /\ e < i.len
      /\ \A x \in D, y \in Tensors(i) : Aligned(x, y, i.len)
      /\ \A off \in D : off + e \in DOMAIN a
      /\ {i.w, i.g, i.m, i.v} \subseteq D /\ e \in 0 .. i.len - 1
  BY <1>1, <1>2 DEF Columns
<1>4. i.m # i.v /\ i.w # i.m /\ i.w # i.v
  <2>1. Disjoint(i.m, i.v, i.len) /\ Disjoint(i.w, i.m, i.len) /\ Disjoint(i.w, i.v, i.len)
    BY DEF Tidy, TidyStep, MomentPad, Rule, VecBinOps, VecI8Ops, VecOneOps, StepOps
  <2>2. QED
    BY <1>1, <1>3, <2>1 DEF Disjoint
<1> DEFINE mean == Mean16(a[i.m + e], a[i.g + e])
           var  == Var16(a[i.v + e], Square(a[i.g + e]))
           part == mean \div 16
           w1   == a[i.w + e] - part
<1>5. mean \in I16 /\ var \in I16 /\ w1 \in I16
  BY <1>3 DEF Narrow, VecOneOps
<1> HIDE DEF mean, var
<1>6. part \in I16
  <2>1. mean \in Int /\ I16Min <= mean /\ mean <= I16Max
    <3>1. I16Min \in Int /\ I16Max \in Int
      BY DEF I16Min, I16Max
    <3>2. QED
      BY <1>5, <3>1 DEF I16
  <2>2. part \in Int /\ I16Min <= part /\ part <= I16Max
    BY <2>1 DEF I16Min, I16Max
  <2>3. I16Min \in Int /\ I16Max \in Int
    BY DEF I16Min, I16Max
  <2>4. QED
    BY <2>2, <2>3 DEF I16
<1> HIDE DEF part
<1>7. /\ NewM(i, a)[e] = mean /\ DOMAIN NewM(i, a) = 0 .. i.len - 1
      /\ NewV(i, a)[e] = var /\ DOMAIN NewV(i, a) = 0 .. i.len - 1
      /\ NewW(i, a)[e] = w1 /\ DOMAIN NewW(i, a) = 0 .. i.len - 1
  <2>1. NewM(i, a)[e] = Sat16(mean) /\ DOMAIN NewM(i, a) = 0 .. i.len - 1
    BY <1>3 DEF NewM, mean
  <2>2. NewV(i, a)[e] = Sat16(var) /\ DOMAIN NewV(i, a) = 0 .. i.len - 1
    BY <1>3 DEF NewV, var
  <2>3. NewW(i, a)[e] = Sat16(a[i.w + e] - Wrap16(part)) /\ DOMAIN NewW(i, a) = 0 .. i.len - 1
    BY <1>3 DEF NewW, mean, part, Sub16
  <2>4. Wrap16(part) = part
    BY <1>6, WithinI16
  <2>5. Sat16(mean) = mean /\ Sat16(var) = var
    BY <1>5, WithinI16
  <2>6. Sat16(a[i.w + e] - Wrap16(part)) = Sat16(w1)
    BY <2>4
  <2> HIDE DEF w1
  <2>7. Sat16(w1) = w1
    BY <1>5, WithinI16
  <2>8. QED
    BY <2>1, <2>2, <2>3, <2>5, <2>6, <2>7
<1> DEFINE y1 == Copy(a, i.m, NewM(i, a))
           y2 == Copy(y1, i.v, NewV(i, a))
<1>8. DOMAIN y1 = DOMAIN a /\ DOMAIN y2 = DOMAIN a /\ z = Copy(y2, i.w, NewW(i, a))
  BY DEF Copy, Moved
<1>9. \A off \in D : z[off + e] = IF off = i.w THEN w1
                                  ELSE IF off = i.v THEN var
                                  ELSE IF off = i.m THEN mean ELSE a[off + e]
  <2>1. SUFFICES ASSUME NEW off \in D
                 PROVE  z[off + e] = IF off = i.w THEN w1
                                     ELSE IF off = i.v THEN var
                                     ELSE IF off = i.m THEN mean ELSE a[off + e]
    OBVIOUS
  <2>2. /\ off \in Nat /\ off + e \in DOMAIN a
        /\ Aligned(off, i.w, i.len) /\ Aligned(off, i.v, i.len) /\ Aligned(off, i.m, i.len)
    BY <1>2, <1>3
  <2>3. y1[off + e] = IF off = i.m THEN NewM(i, a)[e] ELSE a[off + e]
    BY <1>1, <1>3, <1>7, <2>2, CopiedColumn
  <2> HIDE DEF y1
  <2>4. y2[off + e] = IF off = i.v THEN NewV(i, a)[e] ELSE y1[off + e]
    BY <1>1, <1>3, <1>7, <1>8, <2>2, CopiedColumn
  <2> HIDE DEF y2
  <2>5. z[off + e] = IF off = i.w THEN NewW(i, a)[e] ELSE y2[off + e]
    BY <1>1, <1>3, <1>7, <1>8, <2>2, CopiedColumn
  <2> HIDE DEF w1
  <2>6. QED
    BY <1>7, <2>3, <2>4, <2>5
<1>10. Column(i, Col(a, D, e))
         = [off \in D |-> IF off = i.w THEN w1
                          ELSE IF off = i.v THEN var
                          ELSE IF off = i.m THEN mean ELSE a[off + e]]
  <2> DEFINE c == Col(a, D, e)
             c1 == [c EXCEPT ![i.m] = Wrap16(Mean16(c[i.m], c[i.g]))]
             c2 == [c1 EXCEPT ![i.v] = Wrap16(Var16(c1[i.v], Square(c[i.g])))]
             c3 == [c2 EXCEPT ![i.w] = Wrap16(c2[i.w] - c1[i.m] \div 16)]
  <2>1. Column(i, c) = c3
    BY DEF Column, VecOneOps
  <2>2. DOMAIN c = D /\ (\A off \in D : c[off] = a[off + e])
    BY DEF Col
  <2>3. c = [off \in D |-> a[off + e]]
    BY DEF Col
  <2> HIDE DEF c
  <2>4. Wrap16(Mean16(c[i.m], c[i.g])) = mean
    <3>1. Mean16(c[i.m], c[i.g]) = mean
      BY <1>3, <2>2 DEF mean
    <3>2. QED
      BY <1>5, <3>1, WithinI16
  <2>5. c1 = [off \in D |-> IF off = i.m THEN mean ELSE a[off + e]]
    BY <1>3, <2>3, <2>4
  <2>6. c1[i.v] = a[i.v + e] /\ c1[i.m] = mean
    BY <1>3, <1>4, <2>5
  <2> HIDE DEF c1
  <2>7. Wrap16(Var16(c1[i.v], Square(c[i.g]))) = var
    <3>1. Var16(c1[i.v], Square(c[i.g])) = var
      BY <1>3, <2>2, <2>6 DEF var
    <3>2. QED
      BY <1>5, <3>1, WithinI16
  <2>8. c2 = [off \in D |-> IF off = i.v THEN var ELSE IF off = i.m THEN mean ELSE a[off + e]]
    BY <1>3, <2>5, <2>7
  <2>9. c2[i.w] = a[i.w + e]
    BY <1>3, <1>4, <2>8
  <2> HIDE DEF c2
  <2>10. Wrap16(c2[i.w] - c1[i.m] \div 16) = w1
    <3>1. c2[i.w] - c1[i.m] \div 16 = w1
      BY <2>6, <2>9 DEF part
    <3> HIDE DEF w1
    <3>2. QED
      BY <1>5, <3>1, WithinI16
  <2> HIDE DEF w1
  <2>11. c3 = [off \in D |-> IF off = i.w THEN w1
                             ELSE IF off = i.v THEN var
                             ELSE IF off = i.m THEN mean ELSE a[off + e]]
    BY <1>3, <2>8, <2>10
  <2>12. QED
    BY <2>1, <2>11 DEF c
<1> HIDE DEF w1
<1>11. Col(z, D, e) = [off \in D |-> IF off = i.w THEN w1
                                     ELSE IF off = i.v THEN var
                                     ELSE IF off = i.m THEN mean ELSE a[off + e]]
  BY <1>9 DEF Col
<1>12. QED
  BY <1>10, <1>11

-----------------------------------------------------------------------------
(* The memory and the outputs, and what an instruction does to them.       *)
Buffers(b) ==
  /\ b = [i16 |-> b.i16, out |-> b.out]
  /\ b.i16 = [x \in DOMAIN b.i16 |-> b.i16[x]] /\ b.out = [x \in DOMAIN b.out |-> b.out[x]]

LEMMA VectorEffect ==
  ASSUME NEW c, c.op \in VectorOps, NEW b, Buffers(b), NEW inp
  PROVE  Effect(c, b, inp) = [i16 |-> Copy(b.i16, c.dst, Result(c, b.i16)), out |-> b.out]
<1> DEFINE x == Copy(b.i16, c.dst, Result(c, b.i16))
<1>1. Effect(c, b, inp) = [b EXCEPT !.i16 = x]
  BY DEF Effect, VectorOps, ScalarOps, VecBinOps, VecOneOps, VecI8Ops, StepOps
<1>2. b = [i16 |-> b.i16, out |-> b.out]
  BY DEF Buffers
<1> HIDE DEF x
<1>3. [b EXCEPT !.i16 = x] = [i16 |-> x, out |-> b.out]
  BY <1>2
<1>4. QED
  BY <1>1, <1>3 DEF x

LEMMA StepEffect ==
  ASSUME NEW i, i.op = "AdamWStep", NEW b, Buffers(b), NEW inp
  PROVE  Effect(i, b, inp) = [i16 |-> Moved(i, b.i16), out |-> b.out]
<1> DEFINE a == b.i16
           lanes == 0 .. i.len - 1
           new == [k \in lanes |->
                     Stepped("AdamWStep", [w |-> a[i.w + k], m |-> a[i.m + k], v |-> a[i.v + k]],
                             a[i.g + k])]
           x1 == Copy(Copy(a, i.m, [k \in lanes |-> new[k].m]), i.v, [k \in lanes |-> new[k].v])
           moved == [b EXCEPT !["i16"] = x1]
           x2 == Copy(moved.i16, i.w, [k \in lanes |-> new[k].w])
<1>1. MomentPad(i) = "i16" /\ Rule(i) = "AdamWStep" /\ Lanes(i) = lanes
  BY DEF MomentPad, Rule, Lanes
<1>2. \A k : Gradient(i, b, k) = a[i.g + k]
  BY DEF Gradient
<1>3. Effect(i, b, inp) = Step(i, b, lanes)
  BY <1>1 DEF Effect, ScalarOps, VecBinOps, VecOneOps, VecI8Ops, StepOps
<1>4. Step(i, b, lanes) = [moved EXCEPT !.i16 = x2]
  <2> DEFINE raw == [k \in lanes |->
                       Stepped(Rule(i), [w |-> b.i16[i.w + k], m |-> b[MomentPad(i)][i.m + k],
                                         v |-> b[MomentPad(i)][i.v + k]], Gradient(i, b, k))]
  <2>1. raw = new
    BY <1>1, <1>2
  <2>2. Step(i, b, lanes)
          = LET y == [b EXCEPT ![MomentPad(i)] = Copy(Copy(@, i.m, [k \in lanes |-> raw[k].m]),
                                                      i.v, [k \in lanes |-> raw[k].v])]
            IN  [y EXCEPT !.i16 = Copy(@, i.w, [k \in lanes |-> raw[k].w])]
    BY DEF Step
  <2> HIDE DEF raw, new
  <2>3. QED
    BY <1>1, <2>1, <2>2
<1>5. /\ [k \in lanes |-> new[k].m] = NewM(i, a)
      /\ [k \in lanes |-> new[k].v] = NewV(i, a)
      /\ [k \in lanes |-> new[k].w] = NewW(i, a)
  <2>1. \A k \in lanes :
          new[k] = [m |-> Sat16(Mean16(a[i.m + k], a[i.g + k])),
                    v |-> Sat16(Var16(a[i.v + k], Square(a[i.g + k]))),
                    w |-> Sub16(a[i.w + k], Wrap16(Mean16(a[i.m + k], a[i.g + k]) \div 16))]
    BY DEF Stepped, AdamW
  <2> HIDE DEF new
  <2> DEFINE M(k) == Sat16(Mean16(a[i.m + k], a[i.g + k]))
             V(k) == Sat16(Var16(a[i.v + k], Square(a[i.g + k])))
             W(k) == Sub16(a[i.w + k], Wrap16(Mean16(a[i.m + k], a[i.g + k]) \div 16))
  <2>2. \A k \in lanes : new[k] = [m |-> M(k), v |-> V(k), w |-> W(k)]
    BY <2>1
  <2> HIDE DEF M, V, W
  <2>3. ASSUME NEW k \in lanes PROVE new[k].m = M(k) /\ new[k].v = V(k) /\ new[k].w = W(k)
    <3> DEFINE x == M(k)
               y == V(k)
               u == W(k)
    <3>1. new[k] = [m |-> x, v |-> y, w |-> u]
      BY <2>2
    <3> HIDE DEF x, y, u, lanes
    <3>2. new[k].m = x /\ new[k].v = y /\ new[k].w = u
      BY <3>1
    <3>3. QED
      BY <3>2 DEF x, y, u
  <2>5. [k \in lanes |-> new[k].m] = NewM(i, a)
    BY <2>3 DEF NewM, M
  <2>6. [k \in lanes |-> new[k].v] = NewV(i, a)
    BY <2>3 DEF NewV, V
  <2>7. [k \in lanes |-> new[k].w] = NewW(i, a)
    BY <2>3 DEF NewW, W
  <2>8. QED
    BY <2>5, <2>6, <2>7
<1>6. b = [i16 |-> a, out |-> b.out]
  BY DEF Buffers
<1> HIDE DEF a
<1>7. moved = [i16 |-> x1, out |-> b.out]
  <2> HIDE DEF x1
  <2>1. moved = [b EXCEPT !.i16 = x1]
    OBVIOUS
  <2> HIDE DEF moved
  <2>2. QED
    BY <1>6, <2>1
<1>8. x1 = Copy(Copy(a, i.m, NewM(i, a)), i.v, NewV(i, a)) /\ x2 = Copy(x1, i.w, NewW(i, a))
  BY <1>5, <1>7
<1> HIDE DEF moved, x1, x2
<1>9. [moved EXCEPT !.i16 = x2] = [i16 |-> x2, out |-> b.out]
  BY <1>7
<1>10. QED
  BY <1>3, <1>4, <1>8, <1>9 DEF Moved, a

(* The instructions in loops write their tensors, and no output. *)
LEMMA FusedEffect ==
  ASSUME backend \in {"jit", "aot"}, NEW i \in OpCode, i.op \in FusableOps, NEW b, Buffers(b),
         NEW inp, NEW z, z = Effect(Compiled(i), b, inp)
  PROVE  /\ Buffers(z) /\ DOMAIN z.i16 = DOMAIN b.i16 /\ z.out = b.out
         /\ \A x \in DOMAIN b.i16 :
              (\A off \in Tensors(i), k \in 0 .. i.len - 1 : x # off + k) /\ x \in Int
                => z.i16[x] = b.i16[x]
<1> DEFINE a == b.i16
           c == Compiled(i)
<1>1. /\ c.op = i.op /\ c.len = i.len
      /\ i.op \in VectorOps => c.lhs = i.lhs /\ c.dst = i.dst
      /\ i.op = "AdamWStep" => c = i
  BY CompiledFields
<1>2. i.len \in Nat
  BY Fields
<1>3. ASSUME NEW y, z = [i16 |-> y, out |-> b.out], y = [x \in DOMAIN a |-> y[x]]
      PROVE  Buffers(z) /\ z.i16 = y /\ DOMAIN z.i16 = DOMAIN b.i16 /\ z.out = b.out
  <2>1. z.i16 = y /\ z.out = b.out /\ z = [i16 |-> z.i16, out |-> z.out]
    BY <1>3
  <2>2. z.out = [x \in DOMAIN z.out |-> z.out[x]]
    BY <2>1 DEF Buffers
  <2>3. DOMAIN y = DOMAIN a
    BY <1>3
  <2>4. y = [x \in DOMAIN y |-> y[x]]
    BY <1>3, <2>3
  <2>5. QED
    BY <2>1, <2>2, <2>3, <2>4 DEF Buffers
<1>4. CASE i.op \in VectorOps
  <2> DEFINE y == Copy(a, c.dst, Result(c, a))
  <2>1. z = [i16 |-> y, out |-> b.out]
    BY <1>1, <1>4, VectorEffect
  <2>2. c.dst = i.dst /\ i.dst \in Nat /\ DOMAIN Result(c, a) = 0 .. i.len - 1
    BY <1>1, <1>4, Fields DEF Result, VectorOps
  <2> HIDE DEF c
  <2>3. y = [x \in DOMAIN a |-> y[x]]
        /\ \A x \in DOMAIN a : (\A k \in 0 .. i.len - 1 : x # i.dst + k) /\ x \in Int => y[x] = a[x]
    BY <1>2, <2>2, Copied
  <2> HIDE DEF y
  <2>4. Buffers(z) /\ z.i16 = y /\ DOMAIN z.i16 = DOMAIN b.i16 /\ z.out = b.out
    BY <1>3, <2>1, <2>3
  <2>5. i.dst \in Tensors(i)
    BY <1>4 DEF Tensors, VectorOps, VecOneOps
  <2>6. QED
    BY <2>3, <2>4, <2>5
<1>5. CASE i.op = "AdamWStep"
  <2> DEFINE y1 == Copy(a, i.m, NewM(i, a))
             y2 == Copy(y1, i.v, NewV(i, a))
             y  == Copy(y2, i.w, NewW(i, a))
  <2>1. z = [i16 |-> y, out |-> b.out]
    BY <1>1, <1>5, StepEffect DEF Moved
  <2>2. i.w \in Nat /\ i.m \in Nat /\ i.v \in Nat
        /\ DOMAIN NewM(i, a) = 0 .. i.len - 1 /\ DOMAIN NewV(i, a) = 0 .. i.len - 1
        /\ DOMAIN NewW(i, a) = 0 .. i.len - 1
    BY <1>5, Fields DEF NewM, NewV, NewW
  <2>3. DOMAIN y1 = DOMAIN a
        /\ \A x \in DOMAIN a : (\A k \in 0 .. i.len - 1 : x # i.m + k) /\ x \in Int => y1[x] = a[x]
    BY <1>2, <2>2, Copied
  <2> HIDE DEF y1
  <2>4. DOMAIN y2 = DOMAIN a
        /\ \A x \in DOMAIN a : (\A k \in 0 .. i.len - 1 : x # i.v + k) /\ x \in Int => y2[x] = y1[x]
    BY <1>2, <2>2, <2>3, Copied
  <2> HIDE DEF y2
  <2>5. y = [x \in DOMAIN a |-> y[x]]
        /\ \A x \in DOMAIN a : (\A k \in 0 .. i.len - 1 : x # i.w + k) /\ x \in Int => y[x] = y2[x]
    BY <1>2, <2>2, <2>4, Copied
  <2> HIDE DEF y
  <2>6. Buffers(z) /\ z.i16 = y /\ DOMAIN z.i16 = DOMAIN b.i16 /\ z.out = b.out
    BY <1>3, <2>1, <2>5
  <2>7. i.w \in Tensors(i) /\ i.m \in Tensors(i) /\ i.v \in Tensors(i)
    BY <1>5 DEF Tensors, VecOneOps
  <2>8. ASSUME NEW x \in DOMAIN b.i16, x \in Int,
               \A off \in Tensors(i), k \in 0 .. i.len - 1 : x # off + k
        PROVE  z.i16[x] = b.i16[x]
    <3>1. y[x] = y2[x]
      BY <2>5, <2>7, <2>8
    <3>2. y2[x] = y1[x]
      BY <2>4, <2>7, <2>8
    <3>3. y1[x] = a[x]
      BY <2>3, <2>7, <2>8
    <3>4. QED
      BY <2>6, <3>1, <3>2, <3>3
  <2>9. QED
    BY <2>6, <2>8
<1>6. QED
  BY <1>4, <1>5 DEF FusableOps, VectorOps

(* So do the others that the compilers have code for. *)
LEMMA RawShape ==
  ASSUME backend \in {"jit", "aot"}, NEW i \in OpCode, i.op \in RawOps, NEW b, Buffers(b),
         NEW inp, NEW z, z = Effect(i, b, inp)
  PROVE  Buffers(z) /\ DOMAIN z.i16 = DOMAIN b.i16 /\ DOMAIN z.out = DOMAIN b.out
<1>1. b = [i16 |-> b.i16, out |-> b.out]
  BY DEF Buffers
<1>2. CASE i.op = "LoadVarVec"
  <2> DEFINE y == Copy(b.i16, i.dst, Slice(inp, i.var, i.len))
  <2>1. z = [b EXCEPT !.i16 = y]
    BY <1>2 DEF Effect, ScalarOps, VecBinOps, VecOneOps, VecI8Ops, StepOps
  <2>2. DOMAIN y = DOMAIN b.i16 /\ y = [x \in DOMAIN b.i16 |-> y[x]]
    BY DEF Copy
  <2> HIDE DEF y
  <2>3. z = [i16 |-> y, out |-> b.out]
    BY <1>1, <2>1
  <2>4. QED
    BY <2>2, <2>3 DEF Buffers
<1>3. CASE i.op = "StoreVec"
  <2> DEFINE y == Copy(b.out, i.out, Slice(b.i16, i.src, i.len))
  <2>1. z = [b EXCEPT !.out = y]
    BY <1>3 DEF Effect, ScalarOps, VecBinOps, VecOneOps, VecI8Ops, StepOps
  <2>2. DOMAIN y = DOMAIN b.out /\ y = [x \in DOMAIN b.out |-> y[x]]
    BY DEF Copy
  <2> HIDE DEF y
  <2>3. z = [i16 |-> b.i16, out |-> y]
    BY <1>1, <2>1
  <2>4. QED
    BY <2>2, <2>3 DEF Buffers
<1>4. QED
  BY <1>2, <1>3 DEF RawOps

LEMMA KnownIs ==
  ASSUME NEW i
  PROVE  /\ i.op \notin FusableOps => (i.op \in Known <=> i.op \in RawOps) /\ Compiled(i) = i
         /\ i.op \in FusableOps => (i.op \in Known <=> backend = "jit" \/ i.op # "AdamWStep")
         /\ i.op \in {"Add", "Mul"} => i.op \notin Known
BY DEF Known, RawOps, Compiled, FusableOps, VecOneOps

LEMMA TraceShape ==
  ASSUME program \in Seq(OpCode), backend \in {"jit", "aot"}, Buffers(before),
         NEW M, Traced(M), NEW n \in 0 .. Len(program)
  PROVE  Buffers(M[n]) /\ DOMAIN M[n].i16 = DOMAIN before.i16 /\ DOMAIN M[n].out = DOMAIN before.out
<1> DEFINE N == Len(program)
           Shaped(z) == /\ Buffers(z) /\ DOMAIN z.i16 = DOMAIN before.i16
                        /\ DOMAIN z.out = DOMAIN before.out
           Good == {k \in Nat : k <= N => Shaped(M[k])}
<1>1. 0 \in Good
  BY DEF Traced
<1>2. ASSUME NEW k \in Nat, k \in Good PROVE k + 1 \in Good
  <2>1. SUFFICES ASSUME k + 1 <= N PROVE Shaped(M[k + 1])
    OBVIOUS
  <2> DEFINE i == program[k + 1]
             b == M[k]
             z == M[k + 1]
  <2>2. k + 1 \in 1 .. N /\ (k + 1) - 1 = k /\ Shaped(b) /\ i \in OpCode
    BY <1>2, <2>1
  <2>3. z = IF i.op \in Known THEN Effect(Compiled(i), b, inputs) ELSE b
    BY <2>2 DEF Traced
  <2> HIDE DEF i, b, z
  <2>4. CASE i.op \in Known /\ i.op \in FusableOps
    <3>1. z = Effect(Compiled(i), b, inputs)
      BY <2>3, <2>4
    <3>2. Buffers(z) /\ DOMAIN z.i16 = DOMAIN b.i16 /\ z.out = b.out
      BY <2>2, <2>4, <3>1, FusedEffect
    <3>3. QED
      BY <2>2, <3>2 DEF z
  <2>5. CASE i.op \in Known /\ i.op \notin FusableOps
    <3>1. i.op \in RawOps /\ z = Effect(i, b, inputs)
      BY <2>3, <2>5, KnownIs
    <3>2. Buffers(z) /\ DOMAIN z.i16 = DOMAIN b.i16 /\ DOMAIN z.out = DOMAIN b.out
      BY <2>2, <3>1, RawShape
    <3>3. QED
      BY <2>2, <3>2 DEF z
  <2>6. CASE i.op \notin Known
    BY <2>2, <2>3, <2>6 DEF z
  <2>7. QED
    BY <2>4, <2>5, <2>6
<1>3. Nat \subseteq Good
  <2> HIDE DEF Good
  <2>1. QED
    BY <1>1, <1>2, SetInduction
<1>4. n \in Good /\ n <= N
  BY <1>3
<1>5. QED
  BY <1>4

(* What the virtual machine does in the instructions a loop stands for: no *)
(* output, no cell that is not of the loop's tensors, and in each element  *)
(* of these what the loop computes.                                        *)
LEMMA NamesAreNat ==
  ASSUME NEW p \in Seq(OpCode), NEW len, NEW item \in LoopOf(p, len)
  PROVE  Names(item) \subseteq Offsets(p, len) /\ Names(item) \subseteq Nat
<1> DEFINE O == OpsOn(Offsets(p, len))
<1>1. item.ops \in Seq(O)
  BY DEF LoopOf
<1>2. ASSUME NEW x \in Names(item) PROVE x \in Offsets(p, len)
  <2>1. PICK j \in DOMAIN item.ops : item.ops[j].op \in MemOps /\ x = item.ops[j].off
    BY <1>2 DEF Names, Named
  <2>2. item.ops[j] \in O
    <3> HIDE DEF O
    <3>1. QED
      BY <1>1
  <2> DEFINE o == item.ops[j]
  <2>3. o \in O /\ o.op \in MemOps /\ x = o.off
    BY <2>1, <2>2
  <2> HIDE DEF o
  <2>4. QED
    BY <2>3 DEF OpsOn, MemOps
<1>3. QED
  BY <1>2, OffsetsAreNat

Like(M, len, D, n, m) ==
  /\ M[n].out = M[m].out
  /\ \A x \in DOMAIN before.i16 :
       (\A off \in D, k \in 0 .. len - 1 : x # off + k) /\ x \in Int
         => M[n].i16[x] = M[m].i16[x]

InElements(M, len, D, n) ==
  \A e \in 0 .. len - 1 :
    (\A off \in D : off + e \in DOMAIN before.i16)
      => Col(M[n].i16, D, e) = Column(program[n], Col(M[n - 1].i16, D, e))

LEMMA OneOfLoop ==
  ASSUME program \in Seq(OpCode), backend \in {"jit", "aot"}, Apart, Buffers(before),
         NEW M, Traced(M), backend = "jit" => NarrowAlong(M),
         NEW len \in Nat, NEW D, D \subseteq Offsets(program, len), D \subseteq Nat,
         NEW n \in 1 .. Len(program),
         \/ program[n] \in Fused(program, len) /\ Tensors(program[n]) \subseteq D
         \/ program[n].op \in {"Add", "Mul"}
  PROVE  Like(M, len, D, n, n - 1) /\ InElements(M, len, D, n)
<1> DEFINE i == program[n]
           b == M[n - 1]
           z == M[n]
           a == b.i16
<1>1. z = IF i.op \in Known THEN Effect(Compiled(i), b, inputs) ELSE b
  BY DEF Traced
<1>2. n - 1 \in 0 .. Len(program) /\ i \in OpCode
  OBVIOUS
<1>3. Buffers(b) /\ DOMAIN a = DOMAIN before.i16
  BY <1>2, TraceShape
<1>4. CASE i.op \notin Known
  <2>1. z = b
    BY <1>1, <1>4
  <2>2. i.op \in {"Add", "Mul"} \/ (i.op \in FusableOps /\ i.op = "AdamWStep" /\ backend # "jit")
    BY <1>4, KnownIs DEF Fused
  <2>3. \A c : Column(i, c) = c
    BY <2>2 DEF Column, VecOneOps
  <2> HIDE DEF i, b, z
  <2>4. QED
    BY <2>1, <2>3 DEF i, b, z, Like, InElements
<1>5. CASE i.op \in Known
  <2>1. i \in Fused(program, len) /\ Tensors(i) \subseteq D
    BY <1>5, KnownIs
  <2>2. i.op \in FusableOps /\ i.len = len /\ i \in Loops
    BY <2>1 DEF Fused, Loops
  <2>3. z = Effect(Compiled(i), b, inputs)
    BY <1>1, <1>5
  <2>4. backend = "jit" => Narrow(Compiled(i), a)
    BY <1>5 DEF NarrowAlong
  <2>5. i.op \in VectorOps \/ (i.op = "AdamWStep" /\ backend = "jit")
    BY <1>5, <2>2, KnownIs DEF FusableOps, VectorOps
  <2>6. \A x \in D, y \in Tensors(i) : Aligned(x, y, len)
    <3>1. SUFFICES ASSUME NEW x \in D, NEW y \in Tensors(i) PROVE Aligned(x, y, len)
      OBVIOUS
    <3>2. PICK j \in Fused(program, len) : x \in Tensors(j)
      BY DEF Offsets
    <3>3. j \in Loops /\ j.len = len
      BY DEF Fused, Loops
    <3>4. QED
      BY <2>2, <3>2, <3>3 DEF Apart
  <2>7. Tidy(i)
    BY <2>2 DEF Apart
  <2> HIDE DEF i, b, z
  <2>8. Buffers(z) /\ DOMAIN z.i16 = DOMAIN b.i16 /\ z.out = b.out
         /\ \A x \in DOMAIN b.i16 :
              (\A off \in Tensors(i), k \in 0 .. i.len - 1 : x # off + k) /\ x \in Int
                => z.i16[x] = b.i16[x]
    BY <1>2, <1>3, <2>2, <2>3, FusedEffect
  <2>9. ASSUME NEW x \in DOMAIN before.i16, x \in Int,
               \A off \in D, k \in 0 .. len - 1 : x # off + k
        PROVE  z.i16[x] = b.i16[x]
    <3>1. \A off \in Tensors(i), k \in 0 .. i.len - 1 : x # off + k
      BY <2>1, <2>2, <2>9
    <3>2. QED
      BY <1>3, <2>8, <2>9, <3>1
  <2>10. ASSUME NEW e \in 0 .. len - 1, \A off \in D : off + e \in DOMAIN before.i16
         PROVE  Col(z.i16, D, e) = Column(i, Col(a, D, e))
    <3>1. Columns(i, D, a, e)
      <4>1. e \in Nat /\ e < i.len
        BY <2>2
      <4>2. QED
        BY <1>3, <2>1, <2>2, <2>6, <2>10, <4>1 DEF Columns
    <3>2. CASE i.op \in VectorOps
      <4> DEFINE c == Compiled(i)
                 y == z.i16
      <4>1. c.op = i.op
        BY <1>2, <2>2, CompiledFields
      <4>2. z = [i16 |-> Copy(b.i16, c.dst, Result(c, b.i16)), out |-> b.out]
        <5> HIDE DEF c
        <5>1. c.op \in VectorOps /\ z = Effect(c, b, inputs)
          BY <2>3, <3>2, <4>1 DEF c
        <5>2. QED
          BY <1>3, <5>1, VectorEffect
      <4>3. y = Copy(a, c.dst, Result(c, a))
        BY <4>2
      <4> HIDE DEF y, c, a
      <4>4. backend = "jit" => Narrow(c, a)
        BY <2>4 DEF c
      <4>5. Col(y, D, e) = Column(i, Col(a, D, e))
        BY <1>2, <3>1, <3>2, <4>3, <4>4, VectorColumn DEF c
      <4>6. QED
        BY <4>5 DEF y
    <3>3. CASE i.op = "AdamWStep" /\ backend = "jit"
      <4> DEFINE y == z.i16
      <4>1. Compiled(i) = i
        BY <1>2, <2>2, <3>3, CompiledFields
      <4>2. z = [i16 |-> Moved(i, b.i16), out |-> b.out]
        BY <1>3, <2>3, <3>3, <4>1, StepEffect
      <4>3. y = Moved(i, a)
        BY <4>2
      <4> HIDE DEF y, a
      <4>4. Col(y, D, e) = Column(i, Col(a, D, e))
        BY <1>2, <2>4, <2>7, <3>1, <3>3, <4>1, <4>3, StepColumn
      <4>5. QED
        BY <4>4 DEF y
    <3>4. QED
      BY <2>5, <3>2, <3>3
  <2>11. QED
    BY <2>8, <2>9, <2>10 DEF i, b, z, Like, InElements
<1>6. QED
  BY <1>4, <1>5

LEMMA LoopTrace ==
  ASSUME program \in Seq(OpCode), backend \in {"jit", "aot"}, Apart, Buffers(before),
         NEW M, Traced(M), backend = "jit" => NarrowAlong(M),
         NEW len \in Nat, NEW item \in LoopOf(program, len),
         NEW a \in Nat, NEW b \in Nat, a <= b, b <= Len(program),
         \A n \in a + 1 .. b :
           \/ program[n] \in Fused(program, len) /\ Tensors(program[n]) \subseteq Names(item)
           \/ program[n].op \in {"Add", "Mul"},
         NEW D, D = Names(item)
  PROVE  /\ Like(M, len, D, b, a)
         /\ \A e \in 0 .. len - 1 :
              (\A off \in D : off + e \in DOMAIN before.i16)
                => Chain(program, [n \in a .. b |-> Col(M[n].i16, D, e)], a, b)
<1>1. D \subseteq Offsets(program, len) /\ D \subseteq Nat
  BY NamesAreNat
<1>2. ASSUME NEW n \in a + 1 .. b
      PROVE  Like(M, len, D, n, n - 1) /\ InElements(M, len, D, n)
  <2>1. n \in 1 .. Len(program)
    OBVIOUS
  <2>2. \/ program[n] \in Fused(program, len) /\ Tensors(program[n]) \subseteq D
        \/ program[n].op \in {"Add", "Mul"}
    OBVIOUS
  <2>3. QED
    BY <1>1, <2>1, <2>2, OneOfLoop
<1> DEFINE Good == {d \in Nat : a + d <= b => Like(M, len, D, a + d, a)}
<1>3. Like(M, len, D, b, a)
  <2>1. 0 \in Good
    <3>1. Like(M, len, D, a, a) /\ a + 0 = a
      BY DEF Like
    <3>2. QED
      BY <3>1
  <2>2. ASSUME NEW d \in Nat, d \in Good PROVE d + 1 \in Good
    <3>1. SUFFICES ASSUME a + (d + 1) <= b PROVE Like(M, len, D, a + (d + 1), a)
      OBVIOUS
    <3> DEFINE n == a + (d + 1)
    <3>2. n \in a + 1 .. b /\ n - 1 = a + d /\ a + d <= b
      BY <3>1
    <3>3. Like(M, len, D, n - 1, a)
      <4> HIDE DEF n
      <4>1. QED
        BY <2>2, <3>2
    <3> HIDE DEF n
    <3>4. Like(M, len, D, n, a)
      <4>1. Like(M, len, D, n, n - 1)
        BY <1>2, <3>2
      <4>2. QED
        BY <3>3, <4>1 DEF Like
    <3>5. QED
      BY <3>4 DEF n
  <2>3. Nat \subseteq Good
    <3> HIDE DEF Good
    <3>1. QED
      BY <2>1, <2>2, SetInduction
  <2>4. b - a \in Good /\ a + (b - a) = b
    BY <2>3
  <2>5. QED
    BY <2>4
<1>4. ASSUME NEW e \in 0 .. len - 1, \A off \in D : off + e \in DOMAIN before.i16
      PROVE  Chain(program, [n \in a .. b |-> Col(M[n].i16, D, e)], a, b)
  <2> DEFINE h == [n \in a .. b |-> Col(M[n].i16, D, e)]
  <2>1. \A n \in a .. b : h[n] = Col(M[n].i16, D, e)
    OBVIOUS
  <2>2. a \in a .. b /\ \A n \in a + 1 .. b : n \in a .. b /\ n - 1 \in a .. b
    OBVIOUS
  <2> HIDE DEF h
  <2>3. h[a] = [off \in DOMAIN h[a] |-> h[a][off]]
    BY <2>1, <2>2 DEF Col
  <2>4. \A n \in a + 1 .. b : h[n] = Column(program[n], h[n - 1])
    BY <1>2, <1>4, <2>1, <2>2 DEF InElements
  <2>5. QED
    BY <2>3, <2>4 DEF Chain, h
<1>5. QED
  BY <1>3, <1>4

(* An element begins with what the tensors have of it, and no registers. *)
Fresh(f, c) == f[0] = [mem |-> c, regs |-> <<>>]

LEMMA FreshRun ==
  ASSUME NEW ops, NEW c, NEW n \in Nat
  PROVE  \E f : Fresh(f, c) /\ IsRun(f, ops, n)
<1> DEFINE Good == {k \in Nat : \E f : Fresh(f, c) /\ IsRun(f, ops, k)}
<1>1. 0 \in Good
  <2> DEFINE f == [j \in {0} |-> [mem |-> c, regs |-> <<>>]]
  <2>1. Fresh(f, c) /\ IsRun(f, ops, 0)
    BY DEF Fresh, IsRun
  <2>2. QED
    BY <2>1
<1>2. ASSUME NEW k \in Nat, k \in Good PROVE k + 1 \in Good
  <2>1. PICK f : Fresh(f, c) /\ IsRun(f, ops, k)
    BY <1>2
  <2> DEFINE z == After(ops[k + 1], f[k])
             g == [j \in 0 .. k + 1 |-> IF j = k + 1 THEN z ELSE f[j]]
  <2>2. g[k + 1] = z /\ \A j \in 0 .. k : g[j] = f[j]
    <3> HIDE DEF z
    <3>1. QED
      OBVIOUS
  <2> HIDE DEF g
  <2>3. Fresh(g, c)
    <3>1. 0 \in 0 .. k
      OBVIOUS
    <3>2. QED
      BY <2>1, <2>2, <3>1 DEF Fresh
  <2>4. ASSUME NEW j \in 1 .. k + 1 PROVE g[j] = After(ops[j], g[j - 1])
    <3>1. CASE j = k + 1
      <4>1. j - 1 = k /\ k \in 0 .. k
        BY <3>1
      <4>2. QED
        BY <2>2, <3>1, <4>1 DEF z
    <3>2. CASE j # k + 1
      <4>1. j \in 1 .. k /\ j \in 0 .. k /\ j - 1 \in 0 .. k
        BY <3>2
      <4>2. f[j] = After(ops[j], f[j - 1])
        BY <2>1, <4>1 DEF IsRun
      <4>3. QED
        BY <2>2, <4>1, <4>2
    <3>3. QED
      BY <3>1, <3>2
  <2>5. IsRun(g, ops, k + 1)
    BY <2>4 DEF IsRun
  <2>6. QED
    BY <2>3, <2>5
<1>3. Nat \subseteq Good
  <2> HIDE DEF Good
  <2>1. QED
    BY <1>1, <1>2, SetInduction
<1>4. QED
  BY <1>3

(* Every element is one of a thread. *)
Within(t, c, e) == t * c <= e /\ e < t * c + c

LEMMA ElementHasChunk ==
  ASSUME NEW c \in Nat \ {0}, NEW e \in Nat
  PROVE  \E t \in Nat : Within(t, c, e)
<1> DEFINE Good == {k \in Nat : \E t \in Nat : Within(t, c, k)}
<1>1. 0 \in Good
  <2>1. Within(0, c, 0)
    BY DEF Within
  <2>2. QED
    BY <2>1
<1>2. ASSUME NEW k \in Nat, k \in Good PROVE k + 1 \in Good
  <2>1. PICK t \in Nat : Within(t, c, k)
    BY <1>2
  <2> DEFINE q == t * c
  <2>2. q \in Nat /\ (t + 1) * c = q + c
    OBVIOUS
  <2>3. CASE k + 1 < q + c
    <3>1. Within(t, c, k + 1)
      <4>1. q <= k
        BY <2>1 DEF Within
      <4>2. q <= k + 1 /\ k + 1 < q + c
        BY <2>2, <2>3, <4>1
      <4>3. QED
        BY <4>2 DEF Within
    <3>2. QED
      BY <3>1
  <2>4. CASE ~(k + 1 < q + c)
    <3>1. Within(t + 1, c, k + 1)
      <4>1. k < q + c
        BY <2>1 DEF Within
      <4>2. (t + 1) * c <= k + 1 /\ k + 1 < (t + 1) * c + c
        <5> HIDE DEF q
        <5>1. QED
          BY <2>2, <2>4, <4>1
      <4>3. QED
        BY <4>2 DEF Within
    <3>2. t + 1 \in Nat
      OBVIOUS
    <3>3. QED
      BY <3>1, <3>2
  <2>5. QED
    BY <2>3, <2>4
<1>3. Nat \subseteq Good
  <2> HIDE DEF Good
  <2>1. QED
    BY <1>1, <1>2, SetInduction
<1>4. QED
  BY <1>3

LEMMA ChunksCover ==
  ASSUME NEW n \in Nat, NEW P \in Nat \ {0}, NEW e \in Nat, e < n,
         NEW c, c = n \div P + 1
  PROVE  \E t \in 0 .. P - 1 : t * c <= e /\ e < t * c + c
<1>1. c \in Nat \ {0} /\ n < P * c
  <2> DEFINE q == n \div P
  <2>1. q \in Nat /\ n < P * q + P
    OBVIOUS
  <2>2. P * (q + 1) = P * q + P /\ P * q \in Nat
    BY <2>1
  <2>3. QED
    BY <2>1, <2>2
<1>2. PICK t \in Nat : t * c <= e /\ e < t * c + c
  BY <1>1, ElementHasChunk DEF Within
<1>3. t < P
  <2>1. SUFFICES ASSUME ~(t < P) PROVE FALSE
    OBVIOUS
  <2>2. CASE t = P
    <3>1. P * c <= e /\ P * c \in Nat
      BY <1>1, <1>2, <2>2
    <3>2. QED
      BY <1>1, <3>1
  <2>3. CASE t # P
    <3>1. P < t
      BY <2>1, <2>3
    <3>2. P * c + c <= t * c
      BY <1>1, <3>1, ChunksApart
    <3>3. P * c \in Nat /\ t * c \in Nat
      BY <1>1
    <3>4. QED
      BY <1>1, <1>2, <3>2, <3>3
  <2>4. QED
    BY <2>2, <2>3
<1>4. t \in 0 .. P - 1
  BY <1>3
<1>5. QED
  BY <1>2, <1>4

-----------------------------------------------------------------------------
(* What an operation leaves alone: all this depends on the backend only.   *)
LEMMA SameArith ==
  ASSUME backend' = backend
  PROVE  \A op, a, b : Arith(op, a, b)' = Arith(op, a, b)
BY DEF Arith

LEMMA SameColumn ==
  ASSUME backend' = backend
  PROVE  \A ins, c : Column(ins, c)' = Column(ins, c)
<1>1. \A op, a, b : Arith(op, a, b)' = Arith(op, a, b)
  BY SameArith
<1>2. QED
  BY <1>1 DEF Column

LEMMA SameAfter ==
  ASSUME backend' = backend
  PROVE  \A op, s : After(op, s)' = After(op, s)
<1>1. \A op, a, b : Arith(op, a, b)' = Arith(op, a, b)
  BY SameArith
<1>2. \A op, regs : Computed(op, regs)' = Computed(op, regs)
  BY <1>1 DEF Computed
<1>3. QED
  BY <1>2 DEF After

LEMMA SameSplits ==
  ASSUME backend' = backend
  PROVE  \A p, items, upto, n : Splits(p, items, upto, n)' <=> Splits(p, items, upto, n)
<1>1. \A ins, c : Column(ins, c)' = Column(ins, c)
  BY SameColumn
<1>2. \A op, s : After(op, s)' = After(op, s)
  BY SameAfter
<1>3. \A p, h, a, b : Chain(p, h, a, b)' <=> Chain(p, h, a, b)
  BY <1>1 DEF Chain
<1>4. \A f, g : Reaches(f, g)' <=> Reaches(f, g)
  BY <1>2 DEF Reaches, IsRun
<1>5. \A p, item, a, b : Computes(p, item, a, b)' <=> Computes(p, item, a, b)
  BY <1>3, <1>4 DEF Computes
<1>6. \A p, item, a, b : Stands(p, item, a, b)' <=> Stands(p, item, a, b)
  BY <1>5 DEF Stands
<1>7. QED
  BY <1>6 DEF Splits

-----------------------------------------------------------------------------
(* Element e of the tensors at D after n operations of a loop: when it had *)
(* the elements m0 at first, the memory has those of its run, and the      *)
(* thread its registers.                                                   *)
Reached(ops, D, m0, e, n, mem) ==
  /\ \A j \in 1 .. n : ops[j].op \in MemOps => ops[j].off + e \in DOMAIN mem
  /\ \A f : Fresh(f, Col(m0, D, e)) /\ IsRun(f, ops, n)
              => \A off \in D : off + e \in DOMAIN mem => mem[off + e] = f[n].mem[off]

RegsAt(ops, D, m0, e, n, regs) ==
  \A f : Fresh(f, Col(m0, D, e)) /\ IsRun(f, ops, n) => regs = f[n].regs

LEMMA RunShape ==
  ASSUME NEW ops, NEW f, NEW D, NEW c, c = [off \in D |-> c[off]], Fresh(f, c),
         NEW n \in Nat, IsRun(f, ops, n)
  PROVE  f[n].mem = [off \in D |-> f[n].mem[off]]
<1> DEFINE Good == {k \in Nat : k <= n => f[k].mem = [off \in D |-> f[k].mem[off]]}
<1>1. 0 \in Good
  BY DEF Fresh
<1>2. ASSUME NEW k \in Nat, k \in Good PROVE k + 1 \in Good
  <2>1. SUFFICES ASSUME k + 1 <= n
                 PROVE  f[k + 1].mem = [off \in D |-> f[k + 1].mem[off]]
    OBVIOUS
  <2> DEFINE m == f[k].mem
             op == ops[k + 1]
             s == f[k + 1]
  <2>2. m = [off \in D |-> m[off]]
    BY <1>2, <2>1
  <2>3. s = After(op, f[k])
    <3>1. k + 1 \in 1 .. n /\ (k + 1) - 1 = k
      BY <2>1
    <3>2. f[k + 1] = After(ops[k + 1], f[(k + 1) - 1])
      BY <3>1 DEF IsRun
    <3>3. QED
      BY <3>1, <3>2
  <2>4. s.mem = m \/ s.mem = [m EXCEPT ![op.off] = Reg(f[k].regs, op.reg)]
    <3> HIDE DEF s, op
    <3>1. QED
      BY <2>3 DEF After
  <2> HIDE DEF m, op
  <2>5. s.mem = [off \in D |-> s.mem[off]]
    <3> DEFINE z == s.mem
               v == Reg(f[k].regs, op.reg)
    <3>1. z = m \/ z = [m EXCEPT ![op.off] = v]
      BY <2>4
    <3> HIDE DEF z, v, s
    <3>2. z = [off \in D |-> z[off]]
      BY <2>2, <3>1
    <3>3. QED
      BY <3>2 DEF z
  <2>6. QED
    BY <2>5
<1>3. Nat \subseteq Good
  <2> HIDE DEF Good
  <2>1. QED
    BY <1>1, <1>2, SetInduction
<1>4. n \in Good
  BY <1>3
<1>5. QED
  BY <1>4

LEMMA RunShorter ==
  ASSUME NEW ops, NEW f, NEW n \in Nat, IsRun(f, ops, n + 1)
  PROVE  IsRun(f, ops, n) /\ f[n + 1] = After(ops[n + 1], f[n])
<1>1. \A j \in 1 .. n : j \in 1 .. n + 1
  OBVIOUS
<1>2. n + 1 \in 1 .. n + 1 /\ (n + 1) - 1 = n
  OBVIOUS
<1>3. f[n + 1] = After(ops[n + 1], f[(n + 1) - 1])
  BY <1>2 DEF IsRun
<1>4. QED
  BY <1>1, <1>2, <1>3 DEF IsRun

(* An operation on the element: what the thread makes of its registers and *)
(* the memory is what the run says.                                        *)
Does(op, e, mem, regs, mem2, regs2) ==
  CASE op.op = "Load"  -> mem2 = mem /\ regs2 = Inserted(regs, op.reg, mem[op.off + e])
    [] op.op = "Store" -> mem2 = [mem EXCEPT ![op.off + e] = Reg(regs, op.reg)] /\ regs2 = regs
    [] OTHER           -> mem2 = mem /\ regs2 = Computed(op, regs)

LEMMA ReachedNext ==
  ASSUME NEW ops, NEW D, D \subseteq Nat, NEW m0, NEW e \in Nat, NEW n \in Nat, NEW mem,
         NEW regs, Reached(ops, D, m0, e, n, mem), RegsAt(ops, D, m0, e, n, regs),
         NEW op, op = ops[n + 1],
         op.op \in MemOps => op.off \in D /\ op.off + e \in DOMAIN mem,
         NEW mem2, NEW regs2, Does(op, e, mem, regs, mem2, regs2)
  PROVE  Reached(ops, D, m0, e, n + 1, mem2) /\ RegsAt(ops, D, m0, e, n + 1, regs2)
<1>1. DOMAIN mem2 = DOMAIN mem
  BY DEF Does
<1>2. ASSUME NEW j \in 1 .. n + 1, ops[j].op \in MemOps
      PROVE  ops[j].off + e \in DOMAIN mem2
  <2>1. CASE j = n + 1
    BY <1>1, <1>2, <2>1
  <2>2. CASE j # n + 1
    <3>1. j \in 1 .. n
      BY <2>2
    <3>2. QED
      BY <1>1, <1>2, <3>1 DEF Reached
  <2>3. QED
    BY <2>1, <2>2
<1>3. ASSUME NEW f, Fresh(f, Col(m0, D, e)), IsRun(f, ops, n + 1)
      PROVE  /\ \A off \in D : off + e \in DOMAIN mem2 => mem2[off + e] = f[n + 1].mem[off]
             /\ regs2 = f[n + 1].regs
  <2> DEFINE s == f[n]
             z == f[n + 1]
             m == s.mem
  <2>1. IsRun(f, ops, n) /\ z = After(op, s)
    BY <1>3, RunShorter
  <2>2. m = [off \in D |-> m[off]]
    <3>1. Col(m0, D, e) = [off \in D |-> Col(m0, D, e)[off]]
      BY DEF Col
    <3>2. QED
      BY <1>3, <2>1, <3>1, RunShape
  <2>3. regs = s.regs /\ \A off \in D : off + e \in DOMAIN mem => mem[off + e] = m[off]
    BY <1>3, <2>1 DEF Reached, RegsAt
  <2> HIDE DEF s, z, m
  <2>4. CASE op.op = "Load"
    <3>1. mem2 = mem /\ regs2 = Inserted(regs, op.reg, mem[op.off + e])
      BY <2>4 DEF Does
    <3>2. z = [mem |-> m, regs |-> Inserted(s.regs, op.reg, m[op.off])]
      BY <2>1, <2>4 DEF After, m
    <3>3. mem[op.off + e] = m[op.off]
      BY <2>3, <2>4 DEF MemOps
    <3>4. QED
      BY <2>3, <3>1, <3>2, <3>3 DEF z
  <2>5. CASE op.op = "Store"
    <3> DEFINE v == Reg(regs, op.reg)
               x == op.off
    <3>1. mem2 = [mem EXCEPT ![x + e] = v] /\ regs2 = regs
      BY <2>5 DEF Does
    <3>2. z = [mem |-> [m EXCEPT ![x] = v], regs |-> s.regs]
      BY <2>1, <2>3, <2>5 DEF After, m
    <3>3. x \in D /\ x + e \in DOMAIN mem
      BY <2>5 DEF MemOps
    <3> HIDE DEF v, x
    <3>4. ASSUME NEW off \in D, off + e \in DOMAIN mem2
          PROVE  mem2[off + e] = [m EXCEPT ![x] = v][off]
      <4>1. CASE off = x
        BY <2>2, <3>1, <3>3, <4>1
      <4>2. CASE off # x
        <5>1. off + e # x + e
          <6>1. off \in Nat /\ x \in Nat
            BY <3>3
          <6>2. QED
            BY <4>2, <6>1
        <5>2. mem2[off + e] = mem[off + e]
          BY <1>1, <3>1, <3>4, <5>1
        <5>3. [m EXCEPT ![x] = v][off] = m[off]
          BY <2>2, <4>2
        <5>4. QED
          BY <1>1, <2>3, <3>4, <5>2, <5>3
      <4>3. QED
        BY <4>1, <4>2
    <3>5. QED
      BY <2>3, <3>1, <3>2, <3>4 DEF z
  <2>6. CASE op.op # "Load" /\ op.op # "Store"
    <3>1. mem2 = mem /\ regs2 = Computed(op, regs)
      BY <2>6 DEF Does
    <3>2. z = [mem |-> m, regs |-> Computed(op, s.regs)]
      BY <2>1, <2>6 DEF After, m
    <3>3. QED
      BY <2>3, <3>1, <3>2 DEF z
  <2>7. QED
    BY <2>4, <2>5, <2>6
<1>4. QED
  BY <1>2, <1>3 DEF Reached, RegsAt

(* Other elements do not notice. *)
LEMMA ReachedOther ==
  ASSUME NEW ops, NEW D, NEW m0, NEW e, NEW n, NEW mem, Reached(ops, D, m0, e, n, mem),
         NEW mem2, DOMAIN mem2 = DOMAIN mem,
         \A off \in D : off + e \in DOMAIN mem => mem2[off + e] = mem[off + e]
  PROVE  Reached(ops, D, m0, e, n, mem2)
BY DEF Reached

(* An element before its first operation. *)
LEMMA ReachedFirst ==
  ASSUME NEW ops, NEW D, NEW m0, NEW e
  PROVE  Reached(ops, D, m0, e, 0, m0) /\ RegsAt(ops, D, m0, e, 0, <<>>)
BY DEF Reached, RegsAt, Fresh, Col

LEMMA SameReached ==
  ASSUME backend' = backend
  PROVE  /\ \A ops, D, m0, e, n, mem :
              Reached(ops, D, m0, e, n, mem)' <=> Reached(ops, D, m0, e, n, mem)
         /\ \A ops, D, m0, e, n, regs :
              RegsAt(ops, D, m0, e, n, regs)' <=> RegsAt(ops, D, m0, e, n, regs)
<1>1. \A op, s : After(op, s)' = After(op, s)
  BY SameAfter
<1>2. \A f, ops, n : IsRun(f, ops, n)' <=> IsRun(f, ops, n)
  BY <1>1 DEF IsRun
<1>3. QED
  BY <1>2 DEF Reached, RegsAt, Fresh, Col, MemOps

-----------------------------------------------------------------------------
(* The threads of a loop.  How many of the n operations the worker w has   *)
(* done on element e, and which elements are those of thread t.            *)
DoneIn(w, n, e) == IF e < w.i THEN n ELSE IF e = w.i THEN w.k - 1 ELSE 0

Mine(t, e) == e \in Nat /\ Start(t, code[pc].len) <= e /\ e < End(t, code[pc].len)

ElsewhereAs(D, len, m0, mem) ==
  \A x \in DOMAIN m0 :
    x \in Int /\ (\A off \in D, k \in 0 .. len - 1 : x # off + k) => mem[x] = m0[x]

(* With workers ws, the memory mem that was m0 before the loop at pc.      *)
ElementsOf(m0, ws, mem) ==
  /\ DOMAIN mem = DOMAIN m0
  /\ ElsewhereAs(Names(code[pc]), code[pc].len, m0, mem)
  /\ \A t \in Threads, e \in Nat :
       Mine(t, e) => Reached(code[pc].ops, Names(code[pc]), m0, e,
                             DoneIn(ws[t], Len(code[pc].ops), e), mem)
  /\ \A t \in Threads :
       Mine(t, ws[t].i) => RegsAt(code[pc].ops, Names(code[pc]), m0, ws[t].i,
                                  ws[t].k - 1, ws[t].regs)

LEMMA MineIs ==
  ASSUME MachineInv, pc <= Len(code), code[pc].kind = "loop", NEW t \in Threads,
         NEW e, Mine(t, e)
  PROVE  /\ code[pc].len \in Nat /\ e \in Nat
         /\ backend = "jit" => t = 0 /\ e < Count(code[pc].len)
         /\ backend = "aot" =>
              /\ t \in Nat /\ e < code[pc].len
              /\ t * ChunkSize(code[pc].len) <= e
              /\ e < t * ChunkSize(code[pc].len) + ChunkSize(code[pc].len)
<1>1. e \in Nat /\ Start(t, code[pc].len) <= e /\ e < End(t, code[pc].len)
  BY DEF Mine
<1>2. code[pc].len \in Nat
  BY LoopFacts
<1>3. CASE backend = "jit"
  BY <1>1, <1>2, <1>3 DEF End, Threads
<1>4. CASE backend = "aot"
  <2> DEFINE last == t * ChunkSize(code[pc].len) + ChunkSize(code[pc].len)
  <2>1. t \in Nat /\ ChunkSize(code[pc].len) \in Nat
    <3>1. t \in Nat
      BY DEF Threads, MachineInv
    <3>2. QED
      BY <1>2, <3>1, ChunkSizeIsNat
  <2>2. last \in Int
    BY <2>1
  <2>3. End(t, code[pc].len) = Min({last, code[pc].len})
    BY <1>4 DEF End
  <2> HIDE DEF last
  <2>4. Min({last, code[pc].len}) \in Int /\ Min({last, code[pc].len}) <= last
        /\ Min({last, code[pc].len}) <= code[pc].len
    <3>1. last \in Int /\ code[pc].len \in Int
      BY <1>2, <2>2
    <3>2. QED
      BY <3>1, MinOfTwo
  <2>5. e < last /\ e < code[pc].len
    BY <1>1, <1>2, <2>2, <2>3, <2>4
  <2>6. t * ChunkSize(code[pc].len) <= e
    BY <1>1, <1>4 DEF Start
  <2>7. QED
    BY <1>1, <1>2, <1>4, <2>1, <2>5, <2>6 DEF last
<1>5. QED
  BY <1>3, <1>4 DEF MachineInv

(* No element is that of two threads. *)
LEMMA MineAlone ==
  ASSUME MachineInv, pc <= Len(code), code[pc].kind = "loop",
         NEW s \in Threads, NEW t \in Threads, NEW e, Mine(s, e), Mine(t, e)
  PROVE  s = t
<1>1. CASE backend = "jit"
  BY <1>1, MineIs
<1>2. CASE backend = "aot"
  <2> DEFINE c == ChunkSize(code[pc].len)
  <2>1. s \in Nat /\ t \in Nat /\ e \in Nat /\ c \in Nat
    BY <1>2, MineIs, ChunkSizeIsNat
  <2>2. s * c <= e /\ e < s * c + c /\ t * c <= e /\ e < t * c + c
    BY <1>2, MineIs
  <2>3. s * c \in Nat /\ t * c \in Nat
    BY <2>1
  <2> HIDE DEF c
  <2>4. CASE s < t
    <3>1. s * c + c <= t * c
      BY <2>1, <2>4, ChunksApart
    <3>2. QED
      BY <2>1, <2>2, <2>3, <3>1
  <2>5. CASE t < s
    <3>1. t * c + c <= s * c
      BY <2>1, <2>5, ChunksApart
    <3>2. QED
      BY <2>1, <2>2, <2>3, <3>1
  <2>6. QED
    BY <2>1, <2>4, <2>5
<1>3. QED
  BY <1>1, <1>2 DEF MachineInv

(* Every element is that of a thread. *)
LEMMA MineSome ==
  ASSUME MachineInv, pc <= Len(code), code[pc].kind = "loop", NEW e \in Nat, e < code[pc].len
  PROVE  \E t \in Threads : Mine(t, e)
<1>1. code[pc].len \in Nat /\ parallelism \in Nat \ {0} /\ backend \in {"jit", "aot"}
  BY LoopFacts DEF MachineInv
<1>2. CASE backend = "jit"
  <2>1. Count(code[pc].len) = code[pc].len
    <3>1. code[pc].len > 0
      BY <1>1
    <3>2. QED
      BY <1>1, <3>1, CountOf
  <2>2. 0 \in Threads /\ Start(0, code[pc].len) = 0 /\ End(0, code[pc].len) = code[pc].len
    BY <1>2, <2>1 DEF Threads, Start, End
  <2>3. Mine(0, e)
    BY <2>2 DEF Mine
  <2>4. QED
    BY <2>2, <2>3
<1>3. CASE backend = "aot"
  <2> DEFINE len == code[pc].len
             c == ChunkSize(len)
  <2>1. c = len \div parallelism + 1
    BY DEF ChunkSize
  <2>2. PICK t \in 0 .. parallelism - 1 : t * c <= e /\ e < t * c + c
    <3> HIDE DEF c, len
    <3>1. len \in Nat /\ e < len
      BY <1>1 DEF len
    <3>2. QED
      BY <1>1, <2>1, <3>1, ChunksCover
  <2>3. t \in Threads
    BY <1>3 DEF Threads
  <2>4. t \in Nat /\ c \in Nat /\ len \in Nat
    <3>1. t \in Nat /\ len \in Nat
      BY <1>1, <2>2
    <3>2. QED
      BY <1>1, <3>1, ChunkSizeIsNat
  <2> DEFINE x == t * c + c
  <2>5. x \in Int /\ e < x /\ e < len
    BY <2>2, <2>4
  <2>6. Start(t, len) = t * c /\ End(t, len) = Min({x, len})
    BY <1>3 DEF Start, End
  <2> HIDE DEF x
  <2>7. Min({x, len}) = x \/ Min({x, len}) = len
    <3>1. x \in Int /\ len \in Int
      BY <2>4, <2>5
    <3> HIDE DEF len
    <3>2. QED
      BY <3>1, MinOfTwo
  <2>8. Mine(t, e)
    BY <2>2, <2>5, <2>6, <2>7 DEF Mine
  <2>9. QED
    BY <2>3, <2>8
<1>4. QED
  BY <1>1, <1>2, <1>3

(* Cells of elements of one loop. *)
LEMMA ElementsApart ==
  ASSUME NEW x \in Nat, NEW y \in Nat, NEW len \in Nat, Aligned(x, y, len),
         NEW i \in Nat, NEW j \in Nat, i < len, j < len, x + i = y + j
  PROVE  i = j
BY DEF Aligned, Disjoint

LEMMA SameMine ==
  ASSUME UNCHANGED <<source, code, pc>>
  PROVE  /\ Threads' = Threads
         /\ \A t, e : Mine(t, e)' <=> Mine(t, e)
BY DEF Threads, Mine, Start, End, Count, ChunkSize, source

(* A worker that has done one operation more. *)
LEMMA AdvancedDone ==
  ASSUME NEW w, NEW n \in Nat \ {0}, n = Len(code[pc].ops),
         w.i \in Nat, w.k \in 1 .. n, NEW regs,
         NEW x, DOMAIN x = {"i", "k", "regs"}, x.i = w.i, x.k = w.k, x.regs = regs,
         NEW z, z = Advanced(x)
  PROVE  /\ \A e \in Nat : DoneIn(z, n, e) = IF e = w.i THEN w.k ELSE DoneIn(w, n, e)
         /\ \/ z.i = w.i /\ z.k = w.k + 1 /\ z.regs = regs
            \/ z.i = w.i + 1 /\ z.k = 1 /\ z.regs = <<>>
<1>1. DOMAIN x = {"i", "k", "regs"} /\ x.i = w.i /\ x.k = w.k /\ x.regs = regs
  OBVIOUS
<1>2. CASE x.k = n
  <2>1. z = [x EXCEPT !.i = x.i + 1, !.k = 1, !.regs = <<>>]
    BY <1>2 DEF Advanced, NextElement
  <2>2. z.i = w.i + 1 /\ z.k = 1 /\ z.regs = <<>>
    BY <1>1, <2>1
  <2>3. \A e \in Nat : DoneIn(z, n, e) = IF e = w.i THEN w.k ELSE DoneIn(w, n, e)
    <3> DEFINE i == w.i
    <3>1. i \in Nat /\ z.i = i + 1 /\ z.k - 1 = 0 /\ w.k = n
      BY <1>1, <1>2, <2>2
    <3> HIDE DEF i
    <3>2. \A e \in Nat : (e < i + 1 <=> e < i \/ e = i) /\ ~(e = i + 1 /\ (e < i \/ e = i))
      BY <3>1
    <3>3. QED
      BY <3>1, <3>2 DEF DoneIn, i
  <2>4. QED
    BY <2>2, <2>3
<1>3. CASE x.k # n
  <2>1. z = [x EXCEPT !.k = x.k + 1]
    BY <1>3 DEF Advanced
  <2>2. z.i = w.i /\ z.k = w.k + 1 /\ z.regs = regs
    BY <1>1, <2>1
  <2>3. (w.k + 1) - 1 = w.k
    OBVIOUS
  <2>4. \A e \in Nat : DoneIn(z, n, e) = IF e = w.i THEN w.k ELSE DoneIn(w, n, e)
    BY <2>2, <2>3 DEF DoneIn
  <2>5. QED
    BY <2>2, <2>4
<1>4. QED
  BY <1>2, <1>3

(* What these depend on. *)
LEMMA SameNames ==
  ASSUME TRUE
  PROVE  /\ \A item : Names(item)' = Names(item)
         /\ \A w, n, e : DoneIn(w, n, e)' = DoneIn(w, n, e)
         /\ \A D, len, m0, mem : ElsewhereAs(D, len, m0, mem)' <=> ElsewhereAs(D, len, m0, mem)
BY DEF Names, Named, MemOps, DoneIn, ElsewhereAs

LEMMA SameElements ==
  ASSUME UNCHANGED <<source, code, pc>>
  PROVE  \A m0, ws, mem : ElementsOf(m0, ws, mem)' <=> ElementsOf(m0, ws, mem)
<1>1. backend' = backend /\ code' = code /\ pc' = pc
  BY DEF source
<1>2. /\ \A o, d, m, e, n, mem : Reached(o, d, m, e, n, mem)' <=> Reached(o, d, m, e, n, mem)
      /\ \A o, d, m, e, n, r : RegsAt(o, d, m, e, n, r)' <=> RegsAt(o, d, m, e, n, r)
  BY <1>1, SameReached
<1>3. Threads' = Threads /\ \A t, e : Mine(t, e)' <=> Mine(t, e)
  BY SameMine
<1>4. QED
  BY <1>1, <1>2, <1>3, SameNames DEF ElementsOf

(* The threads of a loop begin with the memory as it was. *)
LEMMA SpawnElements ==
  ASSUME MachineInv, Spawn
  PROVE  ElementsOf(memory, workers', memory)
<1> DEFINE len == code[pc].len
           ops == code[pc].ops
           D == Names(code[pc])
           ws == workers'
<1>1. pc <= Len(code) /\ code[pc].kind = "loop"
  BY DEF Spawn, AtLoop, source
<1>2. len \in Nat
  BY <1>1, LoopFacts
<1>3. ASSUME NEW t \in Threads
      PROVE  /\ ws[t].i = Start(t, len) /\ Start(t, len) \in Nat
             /\ ws[t].k = 1 /\ ws[t].regs = <<>>
  <2>1. t \in Nat
    BY <1>3 DEF Threads, MachineInv
  <2>2. ChunkSize(len) \in Nat
    BY <1>2, ChunkSizeIsNat
  <2>3. Start(t, len) \in Nat
    BY <2>1, <2>2 DEF Start
  <2>4. ws[t] = [i |-> Start(t, len), k |-> 1, regs |-> <<>>]
    BY DEF Spawn
  <2> HIDE DEF ws
  <2>5. QED
    BY <2>3, <2>4
<1>4. \A t, e : Mine(t, e) => Start(t, len) <= e
  BY DEF Mine
<1> HIDE DEF ws, len, ops, D
<1>5. ASSUME NEW t \in Threads, NEW e \in Nat, Mine(t, e)
      PROVE  Reached(ops, D, memory, e, DoneIn(ws[t], Len(ops), e), memory)
  <2> DEFINE w == ws[t]
  <2>1. w.i = Start(t, len) /\ w.k - 1 = 0 /\ Start(t, len) <= e /\ Start(t, len) \in Nat
    BY <1>3, <1>4, <1>5
  <2> HIDE DEF w
  <2>2. DoneIn(w, Len(ops), e) = 0
    BY <2>1 DEF DoneIn
  <2>3. QED
    BY <2>2, ReachedFirst DEF w
<1>6. ASSUME NEW t \in Threads
      PROVE  RegsAt(ops, D, memory, ws[t].i, ws[t].k - 1, ws[t].regs)
  <2>1. ws[t].k - 1 = 0 /\ ws[t].regs = <<>>
    BY <1>3
  <2>2. QED
    BY <2>1, ReachedFirst
<1>7. ElsewhereAs(D, len, memory, memory)
  BY DEF ElsewhereAs
<1>8. QED
  BY <1>5, <1>6, <1>7 DEF ElementsOf, ws, len, ops, D

(* A thread that does not go astray does the operation it is at. *)
LEMMA WorkDoes ==
  ASSUME NEW t, Work(t), status' # "undefined"
  PROVE  /\ Busy(t) /\ status' = status
         /\ OpOf(t).op \in MemOps => CellOf(t) \in DOMAIN memory
         /\ \E regs : Goes(t, regs) /\ Does(OpOf(t), workers[t].i, memory, workers[t].regs, memory', regs)
<1>1. Busy(t) /\ CellOf(t) = OpOf(t).off + workers[t].i
  BY DEF Work, CellOf
<1>2. CASE OpOf(t).op = "Load"
  <2>1. CellOf(t) \in DOMAIN memory
    BY <1>2 DEF Work, Stray
  <2>2. /\ Goes(t, Inserted(workers[t].regs, OpOf(t).reg, memory[CellOf(t)]))
        /\ status' = status /\ memory' = memory
    BY <1>2, <2>1 DEF Work
  <2>3. QED
    BY <1>1, <1>2, <2>1, <2>2 DEF Does
<1>3. CASE OpOf(t).op = "Store"
  <2>1. CellOf(t) \in DOMAIN memory
    BY <1>3 DEF Work, Stray
  <2>2. /\ memory' = [memory EXCEPT ![CellOf(t)] = Reg(workers[t].regs, OpOf(t).reg)]
        /\ Goes(t, workers[t].regs) /\ status' = status
    BY <1>3, <2>1 DEF Work
  <2>3. QED
    BY <1>1, <1>3, <2>1, <2>2 DEF Does
<1>4. CASE OpOf(t).op \notin MemOps
  <2>1. Goes(t, Computed(OpOf(t), workers[t].regs)) /\ status' = status /\ memory' = memory
    BY <1>4 DEF Work, MemOps
  <2>2. QED
    BY <1>1, <1>4, <2>1 DEF Does, MemOps
<1>5. QED
  BY <1>2, <1>3, <1>4 DEF MemOps

(* What an operation does to the memory besides its own element. *)
LEMMA DoesElsewhere ==
  ASSUME NEW op, NEW e, NEW mem, NEW regs, NEW mem2, NEW regs2, Does(op, e, mem, regs, mem2, regs2)
  PROVE  /\ DOMAIN mem2 = DOMAIN mem
         /\ mem = [x \in DOMAIN mem |-> mem[x]] => mem2 = [x \in DOMAIN mem2 |-> mem2[x]]
         /\ op.op # "Store" => mem2 = mem
         /\ \A x \in DOMAIN mem : x # op.off + e => mem2[x] = mem[x]
BY DEF Does

LEMMA WorkElements ==
  ASSUME MachineInv, Apart, backend = "jit" => NoneEmpty,
         NEW t, Work(t), status' # "undefined", NEW m0, ElementsOf(m0, workers, memory)
  PROVE  ElementsOf(m0, workers', memory')
<1> DEFINE len == code[pc].len
           ops == code[pc].ops
           D == Names(code[pc])
           L == Len(ops)
           w == workers[t]
           i == w.i
           op == OpOf(t)
           mem == memory'
<1>1. /\ Busy(t)
      /\ op.op \in MemOps => op.off + i \in DOMAIN memory
  BY WorkDoes DEF CellOf
<1>2. PICK regs : Goes(t, regs) /\ Does(op, i, memory, w.regs, mem, regs)
  BY WorkDoes
<1>3. pc <= Len(code) /\ code[pc].kind = "loop" /\ t \in DOMAIN workers /\ i < End(t, len)
  BY <1>1 DEF Busy, AtLoop
<1>4. InLoop(t)
  BY <1>3 DEF InLoop
<1>5. len \in Nat /\ L \in Nat \ {0} /\ code[pc] \in LoopOf(program, len)
  <2>1. code[pc] \in Items(program)
    <3>1. pc \in 1 .. Len(code) /\ code \in Seq(Items(program))
      <4> HIDE DEF Items
      <4>1. QED
        BY <1>3 DEF MachineInv
    <3> HIDE DEF Items
    <3>2. QED
      BY <3>1
  <2>2. QED
    BY <1>3, <2>1, LoopFacts DEF Items, LoopOf
<1>6. /\ DOMAIN workers = Threads /\ t \in Threads /\ i \in Nat /\ Start(t, len) <= i
      /\ DOMAIN w = {"i", "k", "regs"} /\ w.k \in 1 .. L
  <2>1. workers # <<>> /\ WorkersInv
    BY <1>3 DEF MachineInv
  <2>2. QED
    BY <1>3, <2>1 DEF WorkersInv
<1>7. Mine(t, i)
  BY <1>3, <1>6 DEF Mine
<1>8. op = ops[w.k] /\ (op.op \in MemOps => op.off \in D)
  <2>1. op = ops[w.k]
    BY DEF OpOf
  <2>2. w.k \in DOMAIN ops
    <3>1. ops \in Seq(OpsOn(Offsets(program, len)))
      BY <1>5 DEF LoopOf
    <3> HIDE DEF ops
    <3>2. QED
      BY <1>6, <3>1
  <2> HIDE DEF ops, op
  <2>3. op.op \in MemOps => op.off \in Named(ops)
    BY <2>1, <2>2 DEF Named
  <2>4. QED
    BY <2>1, <2>3 DEF Names, ops
<1>9. D \subseteq Nat /\ MachineInv /\ D \subseteq Offsets(program, len)
  BY <1>5, NamesAreNat DEF MachineInv

(* The next worker. *)
<1> DEFINE z == Advanced([w EXCEPT !.regs = regs])
<1>10. \A s \in Threads : workers'[s] = IF s = t THEN z ELSE workers[s]
  BY <1>2, <1>6 DEF Goes
<1>11. /\ \A e \in Nat : DoneIn(z, L, e) = IF e = i THEN w.k ELSE DoneIn(w, L, e)
       /\ \/ z.i = i /\ z.k = w.k + 1 /\ z.regs = regs
          \/ z.i = i + 1 /\ z.k = 1 /\ z.regs = <<>>
  <2> DEFINE x == [w EXCEPT !.regs = regs]
  <2>1. L = Len(code[pc].ops) /\ z = Advanced(x)
    OBVIOUS
  <2>2. L \in Nat \ {0} /\ w.i \in Nat /\ w.k \in 1 .. L
    BY <1>5, <1>6
  <2>3. DOMAIN x = {"i", "k", "regs"} /\ x.i = w.i /\ x.k = w.k /\ x.regs = regs
    <3> HIDE DEF w
    <3>1. QED
      BY <1>6
  <2> HIDE DEF L, w, z, x
  <2>4. /\ \A e \in Nat : DoneIn(z, L, e) = IF e = w.i THEN w.k ELSE DoneIn(w, L, e)
        /\ \/ z.i = w.i /\ z.k = w.k + 1 /\ z.regs = regs
           \/ z.i = w.i + 1 /\ z.k = 1 /\ z.regs = <<>>
    BY <2>1, <2>2, <2>3, AdvancedDone
  <2>5. QED
    BY <2>4
<1>12. /\ DOMAIN memory = DOMAIN m0
       /\ ElsewhereAs(D, len, m0, memory)
       /\ \A s \in Threads, e \in Nat :
            Mine(s, e) => Reached(ops, D, m0, e, DoneIn(workers[s], L, e), memory)
       /\ \A s \in Threads :
            Mine(s, workers[s].i) =>
              RegsAt(ops, D, m0, workers[s].i, workers[s].k - 1, workers[s].regs)
  BY DEF ElementsOf
<1>13. DOMAIN mem = DOMAIN memory /\ (op.op # "Store" => mem = memory)
       /\ \A x \in DOMAIN memory : x # op.off + i => mem[x] = memory[x]
  BY <1>2, DoesElsewhere

(* No other element has this cell. *)
<1>14. ASSUME NEW s \in Threads, NEW e \in Nat, Mine(s, e), s # t \/ e # i, op.op = "Store"
       PROVE  e < len /\ i < len /\ \A off \in D : off + e # op.off + i
  <2>1. PICK a \in Loops : a.len = len /\ a \in OpCode /\ op.off \in Tensors(a) /\ op.off \in Nat
    BY <1>4, <1>14, TensorOf DEF MemOps
  <2>2. backend = "jit" => Count(len) = len
    <3>1. backend = "jit" => len > 0
      BY <2>1 DEF NoneEmpty, Loops
    <3>2. QED
      BY <1>5, <3>1, CountOf
  <2>3. e < len /\ i < len
    BY <1>3, <1>6, <1>7, <1>14, <2>2, MineIs DEF MachineInv
  <2>4. e # i
    BY <1>3, <1>6, <1>7, <1>14, MineAlone
  <2>5. ASSUME NEW off \in D PROVE off + e # op.off + i
    <3>1. PICK b \in Fused(program, len) : off \in Tensors(b)
      BY <1>9 DEF Offsets
    <3>2. b \in Loops /\ b.len = len /\ off \in Nat
      BY <1>9 DEF Fused, Loops
    <3>3. Aligned(off, op.off, len)
      BY <2>1, <3>1, <3>2 DEF Apart
    <3>4. QED
      BY <1>5, <1>6, <2>1, <2>3, <2>4, <3>2, <3>3, ElementsApart
  <2>6. QED
    BY <2>3, <2>5
<1> HIDE DEF z, w, i, op, ops, D, L, mem, len
<1>15. Reached(ops, D, m0, i, w.k, mem) /\ RegsAt(ops, D, m0, i, w.k, regs)
  <2> DEFINE n == w.k - 1
  <2>1. n \in Nat /\ n + 1 = w.k
    BY <1>6
  <2>2. Reached(ops, D, m0, i, n, memory)
    <3>1. DoneIn(w, L, i) = n
      BY <1>6 DEF DoneIn, i
    <3>2. QED
      BY <1>6, <1>7, <1>12, <3>1 DEF w
  <2>3. RegsAt(ops, D, m0, i, n, w.regs)
    BY <1>6, <1>7, <1>12 DEF w, i
  <2> HIDE DEF n
  <2>4. op = ops[n + 1]
    BY <1>8, <2>1
  <2>5. Reached(ops, D, m0, i, n + 1, mem) /\ RegsAt(ops, D, m0, i, n + 1, regs)
    BY <1>1, <1>2, <1>6, <1>8, <1>9, <2>1, <2>2, <2>3, <2>4, ReachedNext
  <2>6. QED
    BY <2>1, <2>5
<1>16. ASSUME NEW s \in Threads, NEW e \in Nat, Mine(s, e)
       PROVE  Reached(ops, D, m0, e, DoneIn(workers'[s], L, e), mem)
  <2>1. CASE s = t /\ e = i
    BY <1>10, <1>11, <1>15, <2>1
  <2>2. CASE s # t \/ e # i
    <3>1. DoneIn(workers'[s], L, e) = DoneIn(workers[s], L, e)
      BY <1>10, <1>11, <2>2 DEF w
    <3>2. Reached(ops, D, m0, e, DoneIn(workers[s], L, e), memory)
      BY <1>12, <1>16
    <3>3. \A off \in D : off + e \in DOMAIN memory => mem[off + e] = memory[off + e]
      BY <1>13, <1>14, <1>16, <2>2
    <3>4. QED
      BY <1>13, <3>1, <3>2, <3>3, ReachedOther
  <2>3. QED
    BY <2>1, <2>2
<1>17. ASSUME NEW s \in Threads, Mine(s, workers'[s].i)
       PROVE  RegsAt(ops, D, m0, workers'[s].i, workers'[s].k - 1, workers'[s].regs)
  <2>1. CASE s # t
    BY <1>10, <1>12, <1>17, <2>1
  <2>2. CASE s = t
    <3>1. workers'[s] = z
      BY <1>10, <2>2
    <3>2. CASE z.i = i /\ z.k = w.k + 1 /\ z.regs = regs
      <4>1. z.k - 1 = w.k
        BY <1>6, <3>2
      <4>2. QED
        BY <1>15, <3>1, <3>2, <4>1
    <3>3. CASE z.i = i + 1 /\ z.k = 1 /\ z.regs = <<>>
      <4>1. z.k - 1 = 0
        BY <3>3
      <4>2. QED
        BY <3>1, <3>3, <4>1, ReachedFirst
    <3>4. QED
      BY <1>11, <3>2, <3>3
  <2>3. QED
    BY <2>1, <2>2
<1>18. ElsewhereAs(D, len, m0, mem)
  <2>1. CASE op.op # "Store"
    BY <1>12, <1>13, <2>1
  <2>2. CASE op.op = "Store"
    <3>1. i < len
      <4>1. PICK a \in Loops : a.len = len /\ a \in OpCode
        BY <1>4, <2>2, TensorOf DEF MemOps, op, len
      <4>2. backend = "jit" => Count(len) = len
        <5>1. backend = "jit" => len > 0
          BY <4>1 DEF NoneEmpty, Loops
        <5>2. QED
          BY <1>5, <5>1, CountOf
      <4>3. QED
        BY <1>3, <1>6, <1>7, <4>2, MineIs DEF MachineInv, len
    <3>2. op.off \in D /\ i \in 0 .. len - 1
      BY <1>5, <1>6, <1>8, <2>2, <3>1 DEF MemOps
    <3>3. QED
      BY <1>12, <1>13, <3>2 DEF ElsewhereAs
  <2>3. QED
    BY <2>1, <2>2
<1>19. QED
  BY <1>12, <1>13, <1>16, <1>17, <1>18 DEF ElementsOf, mem, D, ops, L, len

(* When all its threads have ended, a loop has done what the virtual       *)
(* machine does in the instructions it stands for.                         *)
LEMMA JoinElements ==
  ASSUME MachineInv, Apart, Buffers(before), Join,
         NEW M, Traced(M), backend = "jit" => NarrowAlong(M),
         NEW a \in Nat, NEW b \in Nat, a < b, b <= Len(program),
         Computes(program, code[pc], a, b),
         NEW m0, m0 = M[a].i16, ElementsOf(m0, workers, memory),
         memory = [x \in DOMAIN memory |-> memory[x]]
  PROVE  memory = M[b].i16 /\ M[b].out = M[a].out
<1> DEFINE item == code[pc]
           len == item.len
           ops == item.ops
           D == Names(item)
           L == Len(ops)
           m1 == M[b].i16
<1>1. /\ pc <= Len(code) /\ item.kind = "loop" /\ workers # <<>>
      /\ \A t \in DOMAIN workers : ~Busy(t)
  BY DEF Join, AtLoop
<1>2. len \in Nat /\ L \in Nat /\ item \in LoopOf(program, len)
  <2>1. item \in Items(program)
    <3>1. pc \in 1 .. Len(code) /\ code \in Seq(Items(program))
      <4> HIDE DEF Items
      <4>1. QED
        BY <1>1 DEF MachineInv
    <3> HIDE DEF Items
    <3>2. QED
      BY <3>1
  <2>2. QED
    BY <1>1, <2>1, LoopFacts DEF Items, LoopOf
<1>3. program \in Seq(OpCode) /\ backend \in {"jit", "aot"}
  BY DEF MachineInv
<1>4. /\ program[a + 1] \in Fused(program, len)
      /\ \A n \in a + 1 .. b :
           \/ program[n] \in Fused(program, len) /\ Tensors(program[n]) \subseteq D
           \/ program[n].op \in {"Add", "Mul"}
      /\ \A h, f : Chain(program, h, a, b) /\ D \subseteq DOMAIN h[a]
                     /\ Begins(f, h[a]) /\ Reaches(f, item) => At(f, item).mem = h[b]
  BY DEF Computes
<1>5. /\ Like(M, len, D, b, a)
      /\ \A e \in 0 .. len - 1 :
           (\A off \in D : off + e \in DOMAIN before.i16)
             => Chain(program, [n \in a .. b |-> Col(M[n].i16, D, e)], a, b)
  <2>1. a <= b
    OBVIOUS
  <2> DEFINE i == item
             E == D
  <2>2. i \in LoopOf(program, len) /\ E = Names(i)
    BY <1>2
  <2>3. \A n \in a + 1 .. b :
           \/ program[n] \in Fused(program, len) /\ Tensors(program[n]) \subseteq Names(i)
           \/ program[n].op \in {"Add", "Mul"}
    BY <1>4
  <2>4. len \in Nat
    BY <1>2
  <2> HIDE DEF len, i, E
  <2>5. /\ Like(M, len, E, b, a)
        /\ \A e \in 0 .. len - 1 :
             (\A off \in E : off + e \in DOMAIN before.i16)
               => Chain(program, [n \in a .. b |-> Col(M[n].i16, E, e)], a, b)
    BY <1>3, <2>1, <2>2, <2>3, <2>4, LoopTrace
  <2>6. QED
    BY <2>5 DEF E
<1>6. /\ DOMAIN m0 = DOMAIN before.i16 /\ DOMAIN m1 = DOMAIN before.i16
      /\ m1 = [x \in DOMAIN m1 |-> m1[x]]
  <2>1. a \in 0 .. Len(program) /\ b \in 0 .. Len(program)
    BY <1>3
  <2>2. /\ DOMAIN M[a].i16 = DOMAIN before.i16 /\ DOMAIN M[b].i16 = DOMAIN before.i16
        /\ Buffers(M[b])
    BY <1>3, <2>1, TraceShape
  <2>3. QED
    BY <2>2 DEF Buffers
<1>7. /\ DOMAIN memory = DOMAIN m0 /\ ElsewhereAs(D, len, m0, memory)
      /\ \A t \in Threads, e \in Nat :
           Mine(t, e) => Reached(ops, D, m0, e, DoneIn(workers[t], L, e), memory)
  BY DEF ElementsOf
<1>8. ASSUME NEW e \in 0 .. len - 1, NEW off \in D
      PROVE  memory[off + e] = m1[off + e]
  <2>1. PICK t \in Threads : Mine(t, e)
    <3>1. e \in Nat /\ e < code[pc].len
      BY <1>2
    <3>2. QED
      BY <1>1, <3>1, MineSome
  <2>2. e \in Nat /\ DoneIn(workers[t], L, e) = L
    <3>1. t \in DOMAIN workers /\ workers[t].i \in Nat
      BY <1>1 DEF MachineInv, WorkersInv
    <3>2. ~(workers[t].i < End(t, len))
      BY <1>1, <3>1 DEF Busy, Join
    <3>3. e < End(t, len) /\ End(t, len) \in Int /\ e \in Nat
      <4>1. e < End(t, len) /\ e \in Nat
        BY <2>1 DEF Mine
      <4>2. End(t, len) \in Int
        <5>1. CASE backend = "jit"
          <6>1. len > 0
            BY <1>2
          <6>2. Count(len) = len
            BY <1>2, <6>1, CountOf
          <6>3. QED
            BY <1>2, <5>1, <6>2 DEF End
        <5>2. CASE backend = "aot"
          <6> DEFINE last == t * ChunkSize(len) + ChunkSize(len)
          <6>1. t \in Nat /\ ChunkSize(len) \in Nat
            <7>1. t \in Nat
              BY DEF Threads, MachineInv
            <7>2. QED
              BY <1>2, <7>1, ChunkSizeIsNat
          <6>2. last \in Int /\ len \in Int
            BY <1>2, <6>1
          <6>3. End(t, len) = Min({last, len})
            BY <5>2 DEF End
          <6> HIDE DEF last, len
          <6>4. Min({last, len}) \in {last, len}
            BY <6>2, MinOfTwo
          <6>5. QED
            BY <6>2, <6>3, <6>4
        <5>3. QED
          BY <1>3, <5>1, <5>2
      <4>3. QED
        BY <4>1, <4>2
    <3> HIDE DEF L, len
    <3>4. e < workers[t].i
      BY <3>1, <3>2, <3>3
    <3>5. QED
      BY <3>3, <3>4 DEF DoneIn
  <2>3. Reached(ops, D, m0, e, L, memory)
    BY <1>7, <2>1, <2>2
  <2>4. \A x \in D : x + e \in DOMAIN memory
    <3>1. SUFFICES ASSUME NEW x \in D PROVE x + e \in DOMAIN memory
      OBVIOUS
    <3>2. PICK j \in DOMAIN ops : ops[j].op \in MemOps /\ x = ops[j].off
      BY DEF Names, Named
    <3>3. j \in 1 .. L
      <4>1. ops \in Seq(OpsOn(Offsets(program, len)))
        BY <1>2 DEF LoopOf
      <4> HIDE DEF ops
      <4>2. QED
        BY <3>2, <4>1
    <3>4. QED
      BY <2>3, <3>2, <3>3 DEF Reached
  <2> DEFINE h == [n \in a .. b |-> Col(M[n].i16, D, e)]
             c == Col(m0, D, e)
  <2>5. Chain(program, h, a, b)
    BY <1>5, <1>6, <1>7, <2>4
  <2>6. h[a] = c /\ h[b] = Col(m1, D, e) /\ DOMAIN c = D
    <3>1. a \in a .. b /\ b \in a .. b
      OBVIOUS
    <3>2. QED
      BY <3>1 DEF Col
  <2>7. PICK f : Fresh(f, c) /\ IsRun(f, ops, L)
    BY <1>2, FreshRun
  <2> HIDE DEF h, c, L, ops, D, item, m1
  <2>8. Begins(f, h[a])
    <3>1. f[0].mem = c /\ f[0].regs = <<>> /\ DOMAIN <<>> = {}
      BY <2>7 DEF Fresh
    <3>2. QED
      BY <2>6, <3>1 DEF Begins
  <2>9. f[L].mem = h[b]
    <3>1. Reaches(f, item) /\ At(f, item) = f[L]
      BY <2>7 DEF Reaches, At, L, ops
    <3>2. D \subseteq DOMAIN h[a]
      BY <2>6
    <3>3. QED
      BY <1>4, <2>5, <2>8, <3>1, <3>2
  <2>10. memory[off + e] = f[L].mem[off]
    BY <1>8, <2>3, <2>4, <2>7 DEF Reached, c
  <2>11. Col(m1, D, e)[off] = m1[off + e]
    BY DEF Col
  <2>12. QED
    BY <2>6, <2>9, <2>10, <2>11
<1>9. \A x \in DOMAIN memory : x \in Int
  BY DEF MachineInv, Array
<1> HIDE DEF D, L, ops, item, m1, len
<1>10. ASSUME NEW x \in DOMAIN memory PROVE memory[x] = m1[x]
  <2>1. CASE \E off \in D, k \in 0 .. len - 1 : x = off + k
    BY <1>8, <2>1
  <2>2. CASE \A off \in D, k \in 0 .. len - 1 : x # off + k
    <3>1. memory[x] = m0[x]
      BY <1>7, <1>9, <2>2 DEF ElsewhereAs
    <3>2. m1[x] = m0[x]
      BY <1>5, <1>6, <1>7, <1>9, <2>2 DEF Like, m1
    <3>3. QED
      BY <3>1, <3>2
  <2>3. QED
    BY <2>1, <2>2
<1>11. memory = m1
  BY <1>6, <1>7, <1>10
<1>12. QED
  BY <1>5, <1>11 DEF Like, m1

-----------------------------------------------------------------------------
(* The machine runs the trace of the program: between two items it has the *)
(* buffers of the instructions behind it, and in a loop its elements are   *)
(* on their way from there.                                                *)
CodeInv ==
  status # "source" =>
    code = IF backend = "jit" THEN KernelFuser(LoopFuser(program)) ELSE LoopFuser(program)

FilledInv ==
  /\ Buffers(before)
  /\ memory  = [x \in DOMAIN memory  |-> memory[x]]
  /\ outputs = [x \in DOMAIN outputs |-> outputs[x]]

Explains(M, upto) ==
  /\ Traced(M) /\ (backend = "jit" => NarrowAlong(M))
  /\ Splits(program, code, upto, Len(program))

Progress(M, upto) ==
  LET now == M[upto[pc - 1]] IN
  /\ pc <= Len(code) + 1 /\ outputs = now.out
  /\ workers =  <<>> => memory = now.i16
  /\ workers # <<>> => ElementsOf(now.i16, workers, memory)
  /\ status = "ok" => pc = Len(code) + 1 /\ workers = <<>>

Intact == status \in {"running", "ok"} /\ Apart /\ (backend = "jit" => NoneEmpty)

ProgressInv == Intact => \A M, upto : Explains(M, upto) => Progress(M, upto)

SimulationInv == MachineInv /\ CodeInv /\ FilledInv /\ ProgressInv

(* What these depend on. *)
LEMMA SameProgram ==
  ASSUME UNCHANGED source
  PROVE  (Apart' <=> Apart) /\ (NoneEmpty' <=> NoneEmpty)
BY DEF Apart, NoneEmpty, Loops, source

LEMMA SameTrace ==
  ASSUME UNCHANGED <<source, inputs, before>>
  PROVE  \A M : (Traced(M)' <=> Traced(M)) /\ (NarrowAlong(M)' <=> NarrowAlong(M))
<1>1. program' = program /\ backend' = backend /\ inputs' = inputs /\ before' = before
  BY DEF source
<1>2. Known' = Known /\ \A i : Compiled(i)' = Compiled(i)
  BY <1>1 DEF Known, RawOps, Compiled
<1>3. QED
  BY <1>1, <1>2 DEF Traced, NarrowAlong

LEMMA SameExplains ==
  ASSUME UNCHANGED <<source, code, inputs, before>>
  PROVE  \A M, upto : Explains(M, upto)' <=> Explains(M, upto)
<1>1. program' = program /\ backend' = backend /\ code' = code
  BY DEF source
<1>2. \A M : (Traced(M)' <=> Traced(M)) /\ (NarrowAlong(M)' <=> NarrowAlong(M))
  BY SameTrace
<1>3. \A p, items, u, n : Splits(p, items, u, n)' <=> Splits(p, items, u, n)
  BY <1>1, SameSplits
<1>4. QED
  BY <1>1, <1>2, <1>3 DEF Explains

(* A step of a call in progress. *)
LEMMA ProgressKept ==
  ASSUME UNCHANGED <<source, code, inputs, before>>, ProgressInv,
         Intact' => Intact,
         Intact => \A M, upto : Explains(M, upto) /\ Progress(M, upto) /\ Intact' => Progress(M, upto)'
  PROVE  ProgressInv'
<1>1. \A M, upto : Explains(M, upto)' <=> Explains(M, upto)
  BY SameExplains
<1>2. QED
  BY <1>1 DEF ProgressInv

LEMMA CodeKeeps == MachineInv /\ CodeInv /\ [Next]_vars => CodeInv'
<1>1. SUFFICES ASSUME MachineInv, CodeInv, [Next]_vars PROVE CodeInv'
  OBVIOUS
<1>2. CASE Compile
  <2>1. program' = program /\ backend' = backend
    BY <1>2 DEF Compile, source
  <2>2. code' = IF backend = "jit" THEN KernelFuser(LoopFuser(program)) ELSE LoopFuser(program)
    BY <1>2 DEF Compile
  <2>3. LoopFuser(program)' = LoopFuser(program)
        /\ KernelFuser(LoopFuser(program))' = KernelFuser(LoopFuser(program))
    BY <2>1
  <2>4. QED
    BY <2>1, <2>2, <2>3 DEF CodeInv
<1>3. CASE UNCHANGED <<source, code>> /\ (status = "source" => status' = "source")
  <2>1. program' = program /\ backend' = backend /\ code' = code
    BY <1>3 DEF source
  <2>2. LoopFuser(program)' = LoopFuser(program)
        /\ KernelFuser(LoopFuser(program))' = KernelFuser(LoopFuser(program))
    BY <2>1
  <2>3. QED
    BY <1>1, <1>3, <2>1, <2>2 DEF CodeInv
<1>4. CASE Call
  BY <1>3, <1>4 DEF Call
<1>5. CASE Main
  BY <1>3, <1>5 DEF Main, Return, RawInstruction, DropRaw, Spawn, Join, AtRaw, AtLoop
<1>6. CASE \E t \in Threads : Work(t)
  BY <1>3, <1>6 DEF Work, Busy, AtLoop
<1>7. CASE UNCHANGED vars
  BY <1>3, <1>7 DEF vars
<1>8. QED
  BY <1>1, <1>2, <1>4, <1>5, <1>6, <1>7 DEF Next

LEMMA FilledSame ==
  ASSUME FilledInv, UNCHANGED <<before, memory, outputs>>
  PROVE  FilledInv'
BY DEF FilledInv, Buffers

LEMMA RawFilled ==
  ASSUME MachineInv, FilledInv, RawInstruction
  PROVE  FilledInv'
<1>1. UNCHANGED before
  BY DEF RawInstruction
<1>2. CASE ~RawFits(code[pc].ins)
  BY <1>1, <1>2, FilledSame DEF RawInstruction
<1>3. CASE RawFits(code[pc].ins)
  <2> DEFINE i == code[pc].ins
             x == [i EXCEPT !.len = Count(@)]
             b == [i16 |-> memory, out |-> outputs]
             z == RawEffect(i)
  <2>1. memory' = z.i16 /\ outputs' = z.out /\ i.op \in {"LoadVarVec", "StoreVec"}
    BY <1>3 DEF RawInstruction, RawOps
  <2>2. z = Effect(x, b, inputs) /\ x.op = i.op
    BY DEF RawEffect
  <2>3. memory = [k \in DOMAIN memory |-> memory[k]] /\ outputs = [k \in DOMAIN outputs |-> outputs[k]]
    BY DEF FilledInv
  <2> HIDE DEF x, z, i
  <2>4. /\ z.i16 = [k \in DOMAIN z.i16 |-> z.i16[k]]
        /\ z.out = [k \in DOMAIN z.out |-> z.out[k]]
    <3>1. CASE i.op = "LoadVarVec"
      <4> DEFINE y == Copy(memory, x.dst, Slice(inputs, x.var, x.len))
      <4>1. z = [b EXCEPT !.i16 = y]
        BY <2>2, <3>1 DEF Effect, ScalarOps, VecBinOps, VecOneOps, VecI8Ops, StepOps
      <4>2. y = [k \in DOMAIN y |-> y[k]]
        BY DEF Copy
      <4> HIDE DEF y
      <4>3. z.i16 = y /\ z.out = outputs
        BY <4>1
      <4>4. QED
        BY <2>3, <4>2, <4>3
    <3>2. CASE i.op = "StoreVec"
      <4> DEFINE y == Copy(outputs, x.out, Slice(memory, x.src, x.len))
      <4>1. z = [b EXCEPT !.out = y]
        BY <2>2, <3>2 DEF Effect, ScalarOps, VecBinOps, VecOneOps, VecI8Ops, StepOps
      <4>2. y = [k \in DOMAIN y |-> y[k]]
        BY DEF Copy
      <4> HIDE DEF y
      <4>3. z.i16 = memory /\ z.out = y
        BY <4>1
      <4>4. QED
        BY <2>3, <4>2, <4>3
    <3>3. QED
      BY <2>1, <3>1, <3>2
  <2>5. QED
    BY <1>1, <2>1, <2>4 DEF FilledInv, Buffers
<1>4. QED
  BY <1>2, <1>3

LEMMA FilledKeeps == MachineInv /\ FilledInv /\ [Next]_vars => FilledInv'
<1>1. SUFFICES ASSUME MachineInv, FilledInv, [Next]_vars PROVE FilledInv'
  OBVIOUS
<1>2. CASE Compile
  BY <1>1, <1>2, FilledSame DEF Compile
<1>3. CASE Call
  <2>1. memory' = memory /\ before' = [i16 |-> memory, out |-> outputs']
    BY <1>3 DEF Call
  <2>2. outputs' = [k \in DOMAIN outputs' |-> outputs'[k]]
    <3>1. PICK n \in OutputLens : outputs' = Resize(outputs, n)
      BY <1>3 DEF Call
    <3>2. QED
      BY <3>1 DEF Resize
  <2>3. before'.i16 = memory /\ before'.out = outputs'
    BY <2>1
  <2>4. memory = [k \in DOMAIN memory |-> memory[k]]
    BY <1>1 DEF FilledInv
  <2>5. Buffers(before')
    BY <2>1, <2>2, <2>3, <2>4 DEF Buffers
  <2>6. QED
    BY <2>1, <2>2, <2>4, <2>5 DEF FilledInv, Buffers
<1>4. CASE Main
  <2>1. CASE RawInstruction
    BY <1>1, <2>1, RawFilled
  <2>2. CASE Return \/ DropRaw \/ Spawn \/ Join
    <3>1. UNCHANGED <<before, memory, outputs>>
      BY <2>2 DEF Return, DropRaw, Spawn, Join
    <3>2. QED
      BY <1>1, <3>1, FilledSame
  <2>3. QED
    BY <1>4, <2>1, <2>2 DEF Main
<1>5. CASE \E t \in Threads : Work(t)
  <2>1. PICK t \in Threads : Work(t)
    BY <1>5
  <2>2. UNCHANGED <<before, outputs>>
    BY <2>1 DEF Work
  <2>3. CASE memory' = memory
    BY <1>1, <2>2, <2>3, FilledSame
  <2>4. CASE memory' # memory
    <3>1. memory' = [memory EXCEPT ![CellOf(t)] = Reg(workers[t].regs, OpOf(t).reg)]
      <4>1. CASE OpOf(t).op = "Load"
        BY <2>1, <2>4, <4>1 DEF Work, Stray
      <4>2. CASE OpOf(t).op = "Store"
        BY <2>1, <2>4, <4>2 DEF Work, Stray
      <4>3. CASE OpOf(t).op \notin MemOps
        BY <2>1, <2>4, <4>3 DEF Work, MemOps
      <4>4. QED
        BY <4>1, <4>2, <4>3 DEF MemOps
    <3>2. memory = [k \in DOMAIN memory |-> memory[k]]
      BY <1>1 DEF FilledInv
    <3>3. memory' = [k \in DOMAIN memory' |-> memory'[k]]
      BY <3>1, <3>2
    <3>4. QED
      BY <1>1, <2>2, <3>3 DEF FilledInv, Buffers
  <2>5. QED
    BY <2>3, <2>4
<1>6. CASE UNCHANGED vars
  BY <1>1, <1>6, FilledSame DEF vars
<1>7. QED
  BY <1>1, <1>2, <1>3, <1>4, <1>5, <1>6 DEF Next

LEMMA InitSimulates == Init => SimulationInv
<1>1. SUFFICES ASSUME Init PROVE SimulationInv
  OBVIOUS
<1>2. MachineInv
  BY <1>1, InitMachine
<1>3. CodeInv /\ ProgressInv
  BY <1>1 DEF Init, CodeInv, ProgressInv, Intact
<1>4. FilledInv
  <2>1. memory = Zeros(Plan(program).memory_size) /\ outputs = <<>>
        /\ before = [i16 |-> memory, out |-> outputs]
    BY <1>1 DEF Init
  <2>2. memory = [k \in DOMAIN memory |-> memory[k]]
    BY <2>1 DEF Zeros
  <2>3. outputs = [k \in DOMAIN outputs |-> outputs[k]]
    BY <2>1
  <2>4. before.i16 = memory /\ before.out = outputs
    BY <2>1
  <2>5. QED
    BY <2>1, <2>2, <2>3, <2>4 DEF FilledInv, Buffers
<1>5. QED
  BY <1>2, <1>3, <1>4 DEF SimulationInv

(* The instructions that the item at pc stands for. *)
LEMMA AtItem ==
  ASSUME MachineInv, NEW M, NEW upto, Explains(M, upto), pc <= Len(code)
  PROVE  /\ upto[pc - 1] \in Nat /\ upto[pc] \in Nat /\ (pc + 1) - 1 = pc
         /\ upto[pc - 1] < upto[pc] /\ upto[pc] <= Len(program)
         /\ Stands(program, code[pc], upto[pc - 1], upto[pc])
<1>1. pc \in Nat \ {0} /\ Len(code) \in Nat /\ Len(program) \in Nat
  <2> HIDE DEF Items
  <2>1. QED
    BY DEF MachineInv
<1>2. pc \in 1 .. Len(code) /\ pc \in 0 .. Len(code) /\ pc - 1 \in 0 .. Len(code)
  BY <1>1
<1>3. Splits(program, code, upto, Len(program))
  BY DEF Explains
<1>4. /\ upto[pc - 1] \in 0 .. Len(program) /\ upto[pc] \in 0 .. Len(program)
      /\ Stands(program, code[pc], upto[pc - 1], upto[pc])
  BY <1>2, <1>3 DEF Splits
<1>5. upto[pc - 1] < upto[pc]
  BY <1>4 DEF Stands
<1>6. QED
  BY <1>1, <1>4, <1>5

(* Between two items, with the next one still to run or not. *)
LEMMA ProgressAt ==
  ASSUME NEW M, NEW upto, UNCHANGED code, workers' = <<>>, pc' \in Nat, Len(code) \in Nat,
         pc' <= Len(code) + 1, status' = "ok" => pc' = Len(code) + 1,
         NEW z, z = M[upto[pc' - 1]], memory' = z.i16, outputs' = z.out
  PROVE  Progress(M, upto)'
BY DEF Progress

LEMMA CallProgress == SimulationInv /\ Call => ProgressInv'
<1>1. SUFFICES ASSUME SimulationInv, Call, NEW M, NEW upto, Explains(M, upto)'
               PROVE  Progress(M, upto)'
  BY DEF ProgressInv
<1>2. /\ pc' = 1 /\ status' = "running" /\ UNCHANGED <<code, workers, memory>>
      /\ before' = [i16 |-> memory, out |-> outputs']
  BY <1>1 DEF Call
<1>3. workers' = <<>>
  BY <1>1, <1>2 DEF SimulationInv, MachineInv, WorkersInv, Call
<1>4. M[0] = before' /\ upto[0] = 0
  BY <1>1 DEF Explains, Traced, Splits
<1>5. Len(code) \in Nat
  <2> HIDE DEF Items
  <2>1. QED
    BY <1>1 DEF SimulationInv, MachineInv
<1> DEFINE z == M[upto[pc' - 1]]
<1>6. z = before'
  BY <1>2, <1>4
<1>7. memory' = z.i16 /\ outputs' = z.out
  BY <1>2, <1>6
<1> HIDE DEF z
<1>8. pc' \in Nat /\ pc' <= Len(code) + 1 /\ status' # "ok"
  BY <1>2, <1>5
<1>9. QED
  BY <1>2, <1>3, <1>5, <1>7, <1>8, ProgressAt DEF z

LEMMA ReturnProgress == SimulationInv /\ Return => ProgressInv'
<1>1. SUFFICES ASSUME SimulationInv, Return PROVE ProgressInv'
  OBVIOUS
<1>2. /\ UNCHANGED <<source, code, pc, workers, inputs, memory, outputs, before>>
      /\ status = "running" /\ status' = "ok" /\ pc > Len(code)
  BY <1>1 DEF Return
<1>3. Intact' => Intact
  BY <1>2, SameProgram DEF Intact, source
<1>4. ASSUME NEW M, NEW upto, Progress(M, upto) PROVE Progress(M, upto)'
  <2>1. pc \in Nat /\ Len(code) \in Nat
    <3> HIDE DEF Items
    <3>1. QED
      BY <1>1 DEF SimulationInv, MachineInv
  <2>2. workers = <<>>
    BY <1>1, <1>2, <2>1 DEF SimulationInv, MachineInv, WorkersInv
  <2> DEFINE z == M[upto[pc - 1]]
  <2>3. pc <= Len(code) + 1 /\ memory = z.i16 /\ outputs = z.out
    BY <1>4, <2>2 DEF Progress
  <2> HIDE DEF z
  <2>4. pc = Len(code) + 1
    BY <1>2, <2>1, <2>3
  <2>5. pc' = pc /\ memory' = z.i16 /\ outputs' = z.out /\ workers' = <<>>
    BY <1>2, <2>2, <2>3
  <2>6. QED
    BY <1>2, <2>1, <2>3, <2>4, <2>5, ProgressAt DEF z
<1>5. QED
  BY <1>1, <1>2, <1>3, <1>4, ProgressKept DEF SimulationInv

LEMMA DropProgress == SimulationInv /\ DropRaw => ProgressInv'
<1>1. SUFFICES ASSUME SimulationInv, DropRaw PROVE ProgressInv'
  OBVIOUS
<1>2. /\ UNCHANGED <<source, code, status, workers, inputs, memory, outputs, before>>
      /\ pc' = pc + 1 /\ pc <= Len(code) /\ code[pc].kind = "raw"
      /\ code[pc].ins.op \notin RawOps /\ status = "running"
  BY <1>1 DEF DropRaw, AtRaw
<1>3. Intact' => Intact
  BY <1>2, SameProgram DEF Intact, source
<1>4. ASSUME NEW M, NEW upto, Explains(M, upto), Progress(M, upto) PROVE Progress(M, upto)'
  <2> DEFINE a == upto[pc - 1]
             b == upto[pc]
  <2>1. a \in Nat /\ b \in Nat /\ a < b /\ b <= Len(program) /\ Stands(program, code[pc], a, b)
        /\ (pc + 1) - 1 = pc
    BY <1>1, <1>2, <1>4, AtItem DEF SimulationInv
  <2>2. b = a + 1 /\ code[pc].ins = program[b] /\ program[b].op \notin FusableOps
    BY <1>2, <2>1 DEF Stands
  <2>3. program[b].op \notin Known
    BY <1>2, <2>2, KnownIs
  <2> HIDE DEF a, b
  <2>4. M[b] = M[a]
    <3>1. b \in 1 .. Len(program) /\ b - 1 = a
      BY <2>1, <2>2
    <3>2. Traced(M)
      BY <1>4 DEF Explains
    <3>3. QED
      BY <2>3, <3>1, <3>2 DEF Traced
  <2>5. workers = <<>> /\ pc \in Nat /\ Len(code) \in Nat
    <3> HIDE DEF Items
    <3>1. QED
      BY <1>1, <1>2 DEF SimulationInv, MachineInv, WorkersInv
  <2> DEFINE z == M[b]
  <2>6. memory = z.i16 /\ outputs = z.out
    BY <1>4, <2>4, <2>5 DEF Progress, a
  <2>7. pc' - 1 = pc /\ z = M[upto[pc' - 1]]
    BY <1>2, <2>1 DEF b
  <2> HIDE DEF z
  <2>8. pc' \in Nat /\ pc' <= Len(code) + 1 /\ status' # "ok" /\ workers' = <<>> /\ code' = code
        /\ memory' = z.i16 /\ outputs' = z.out
    BY <1>2, <2>5, <2>6
  <2>9. QED
    BY <2>5, <2>7, <2>8, ProgressAt
<1>5. QED
  BY <1>1, <1>2, <1>3, <1>4, ProgressKept DEF SimulationInv

LEMMA RawProgress == SimulationInv /\ RawInstruction => ProgressInv'
<1>1. SUFFICES ASSUME SimulationInv, RawInstruction, status' # "undefined" PROVE ProgressInv'
  BY DEF ProgressInv, Intact
<1>2. /\ UNCHANGED <<source, code, workers, inputs, before>> /\ status' = status
      /\ pc' = pc + 1 /\ pc <= Len(code) /\ code[pc].kind = "raw"
      /\ code[pc].ins.op \in RawOps /\ status = "running"
      /\ memory' = RawEffect(code[pc].ins).i16 /\ outputs' = RawEffect(code[pc].ins).out
  BY <1>1 DEF RawInstruction, AtRaw
<1>3. Intact' => Intact
  BY <1>2, SameProgram DEF Intact, source
<1>4. ASSUME NEW M, NEW upto, Intact, Explains(M, upto), Progress(M, upto) PROVE Progress(M, upto)'
  <2> DEFINE a == upto[pc - 1]
             b == upto[pc]
             i == program[b]
  <2>1. a \in Nat /\ b \in Nat /\ a < b /\ b <= Len(program) /\ Stands(program, code[pc], a, b)
        /\ (pc + 1) - 1 = pc
    BY <1>1, <1>2, <1>4, AtItem DEF SimulationInv
  <2>2. b = a + 1 /\ code[pc].ins = i /\ i.op \notin FusableOps
    BY <1>2, <2>1 DEF Stands
  <2>3. i.op \in Known /\ Compiled(i) = i /\ i.op \in RawOps
    BY <1>2, <2>2, KnownIs
  <2>4. MachineInv /\ FilledInv /\ Traced(M)
    BY <1>1, <1>4 DEF SimulationInv, Explains
  <2>5. program \in Seq(OpCode) /\ backend \in {"jit", "aot"}
    BY <2>4 DEF MachineInv
  <2> HIDE DEF a, b
  <2>6. b \in 1 .. Len(program) /\ b - 1 = a /\ a \in 0 .. Len(program)
    BY <2>1, <2>2
  <2>7. i \in OpCode /\ i \in Range(program)
    BY <2>5, <2>6 DEF Range
  <2> HIDE DEF i
  <2>8. M[b] = Effect(i, M[a], inputs)
    BY <2>3, <2>4, <2>6 DEF Traced, i
  <2>9. workers = <<>> /\ pc \in Nat /\ Len(code) \in Nat
    <3> HIDE DEF Items
    <3>1. QED
      BY <1>1, <1>2 DEF SimulationInv, MachineInv, WorkersInv
  <2>10. M[a] = [i16 |-> memory, out |-> outputs]
    <3>1. Buffers(M[a])
      BY <2>4, <2>5, <2>6, TraceShape DEF FilledInv
    <3>2. memory = M[a].i16 /\ outputs = M[a].out
      BY <1>4, <2>9 DEF Progress, a
    <3>3. QED
      BY <3>1, <3>2 DEF Buffers
  <2>11. [i EXCEPT !.len = Count(@)] = i
    <3>1. i.len \in Nat
      BY <2>7, Fields
    <3>2. backend = "jit" => i.len > 0
      BY <1>4, <2>7 DEF Intact, NoneEmpty
    <3>3. Count(i.len) = i.len
      BY <3>1, <3>2, CountOf
    <3>4. i.op \in {"LoadVarVec", "StoreVec"}
      BY <2>3 DEF RawOps
    <3>5. [i EXCEPT !.len = i.len] = i
      BY <2>7, <3>4 DEF OpCode, ScalarOps, VecBinOps, VecI8Ops, VecOneOps, StepOps
    <3>6. QED
      BY <3>3, <3>5
  <2> DEFINE z == M[b]
  <2>12. z = RawEffect(i)
    BY <2>8, <2>10, <2>11 DEF RawEffect
  <2>13. pc' - 1 = pc /\ z = M[upto[pc' - 1]]
    BY <1>2, <2>1 DEF b
  <2> HIDE DEF z
  <2>14. pc' \in Nat /\ pc' <= Len(code) + 1 /\ status' # "ok" /\ workers' = <<>> /\ code' = code
        /\ memory' = z.i16 /\ outputs' = z.out
    BY <1>2, <2>2, <2>9, <2>12
  <2>15. QED
    BY <2>9, <2>13, <2>14, ProgressAt
<1>5. QED
  BY <1>1, <1>2, <1>3, <1>4, ProgressKept DEF SimulationInv

LEMMA SpawnProgress == SimulationInv /\ Spawn => ProgressInv'
<1>1. SUFFICES ASSUME SimulationInv, Spawn PROVE ProgressInv'
  OBVIOUS
<1>2. /\ UNCHANGED <<source, code, status, pc, inputs, memory, outputs, before>>
      /\ pc <= Len(code) /\ workers = <<>> /\ status = "running"
  BY <1>1 DEF Spawn, AtLoop
<1>3. Intact' => Intact
  BY <1>2, SameProgram DEF Intact, source
<1>4. ASSUME NEW M, NEW upto, Progress(M, upto) PROVE Progress(M, upto)'
  <2> DEFINE m0 == M[upto[pc - 1]].i16
  <2>1. memory = m0 /\ outputs = M[upto[pc - 1]].out /\ pc <= Len(code) + 1
    BY <1>2, <1>4 DEF Progress
  <2>2. ElementsOf(m0, workers', memory')
    <3>1. ElementsOf(memory, workers', memory)
      BY <1>1, SpawnElements DEF SimulationInv
    <3>2. QED
      BY <1>2, <2>1, <3>1
  <2>3. ElementsOf(m0, workers, memory)'
    BY <1>2, <2>2, SameElements
  <2>4. workers' # <<>>
    <3>1. DOMAIN workers' = Threads
      BY <1>1 DEF Spawn
    <3>2. 0 \in Threads
      BY <1>1 DEF SimulationInv, MachineInv, Threads
    <3>3. QED
      BY <3>1, <3>2
  <2>5. QED
    BY <1>2, <2>1, <2>3, <2>4 DEF Progress
<1>5. QED
  BY <1>1, <1>2, <1>3, <1>4, ProgressKept DEF SimulationInv

LEMMA WorkProgress ==
  ASSUME SimulationInv, NEW t, Work(t)
  PROVE  ProgressInv'
<1>1. SUFFICES ASSUME status' # "undefined" PROVE ProgressInv'
  BY DEF ProgressInv, Intact
<1>2. UNCHANGED <<source, code, pc, inputs, outputs, calls, before>>
  BY DEF Work
<1>3. /\ Busy(t) /\ status' = status
      /\ \E regs : Goes(t, regs)
  BY <1>1, WorkDoes
<1>4. status = "running" /\ workers # <<>> /\ t \in DOMAIN workers
  BY <1>3 DEF Busy, AtLoop
<1>5. workers' # <<>>
  <2>1. DOMAIN workers' = DOMAIN workers
    BY <1>3 DEF Goes
  <2>2. QED
    BY <1>4, <2>1
<1>6. Intact' => Intact
  BY <1>2, <1>3, SameProgram DEF Intact, source
<1>7. ASSUME NEW M, NEW upto, Intact, Progress(M, upto) PROVE Progress(M, upto)'
  <2> DEFINE m0 == M[upto[pc - 1]].i16
  <2>1. /\ outputs = M[upto[pc - 1]].out /\ pc <= Len(code) + 1
        /\ ElementsOf(m0, workers, memory)
    BY <1>4, <1>7 DEF Progress
  <2> HIDE DEF m0
  <2>2. ElementsOf(m0, workers', memory')
    BY <1>1, <1>7, <2>1, WorkElements DEF SimulationInv, Intact
  <2> USE DEF m0
  <2>3. ElementsOf(m0, workers, memory)'
    BY <1>2, <2>2, SameElements
  <2>4. QED
    BY <1>2, <1>3, <1>4, <1>5, <2>1, <2>3 DEF Progress
<1>8. QED
  BY <1>2, <1>6, <1>7, ProgressKept DEF SimulationInv

LEMMA JoinProgress == SimulationInv /\ Join => ProgressInv'
<1>1. SUFFICES ASSUME SimulationInv, Join PROVE ProgressInv'
  OBVIOUS
<1>2. /\ UNCHANGED <<source, code, status, inputs, memory, outputs, before>>
      /\ workers' = <<>> /\ pc' = pc + 1 /\ pc <= Len(code) /\ code[pc].kind = "loop"
      /\ workers # <<>> /\ status = "running"
  BY <1>1 DEF Join, AtLoop
<1>3. Intact' => Intact
  BY <1>2, SameProgram DEF Intact, source
<1>4. ASSUME NEW M, NEW upto, Intact, Explains(M, upto), Progress(M, upto) PROVE Progress(M, upto)'
  <2> DEFINE a == upto[pc - 1]
             b == upto[pc]
             m0 == M[a].i16
  <2>1. a \in Nat /\ b \in Nat /\ a < b /\ b <= Len(program) /\ Stands(program, code[pc], a, b)
        /\ (pc + 1) - 1 = pc
    BY <1>1, <1>2, <1>4, AtItem DEF SimulationInv
  <2>2. Computes(program, code[pc], a, b)
    BY <1>2, <2>1 DEF Stands
  <2>3. ElementsOf(m0, workers, memory) /\ outputs = M[a].out
    BY <1>2, <1>4 DEF Progress
  <2>4. /\ MachineInv /\ Apart /\ Buffers(before) /\ Traced(M)
        /\ backend = "jit" => NarrowAlong(M)
    BY <1>1, <1>4 DEF SimulationInv, FilledInv, Intact, Explains
  <2>5. memory = [x \in DOMAIN memory |-> memory[x]]
    BY <1>1 DEF SimulationInv, FilledInv
  <2>6. m0 = M[a].i16
    OBVIOUS
  <2> HIDE DEF a, b, m0
  <2>7. memory = M[b].i16 /\ M[b].out = M[a].out
    BY <1>1, <2>1, <2>2, <2>3, <2>4, <2>5, <2>6, JoinElements
  <2> DEFINE z == M[b]
  <2>8. memory = z.i16 /\ outputs = z.out
    BY <2>3, <2>7
  <2>9. pc' - 1 = pc /\ z = M[upto[pc' - 1]]
    BY <1>2, <2>1 DEF b
  <2>10. pc \in Nat /\ Len(code) \in Nat
    <3> HIDE DEF Items
    <3>1. QED
      BY <2>4 DEF MachineInv
  <2> HIDE DEF z
  <2>11. pc' \in Nat /\ pc' <= Len(code) + 1 /\ status' # "ok" /\ code' = code
         /\ memory' = z.i16 /\ outputs' = z.out
    BY <1>2, <2>8, <2>10
  <2>12. QED
    BY <1>2, <2>9, <2>10, <2>11, ProgressAt
<1>5. QED
  BY <1>1, <1>2, <1>3, <1>4, ProgressKept DEF SimulationInv

LEMMA NextSimulates == SimulationInv /\ [Next]_vars => SimulationInv'
<1>1. SUFFICES ASSUME SimulationInv, [Next]_vars PROVE SimulationInv'
  OBVIOUS
<1>2. MachineInv' /\ CodeInv' /\ FilledInv'
  BY <1>1, NextKeepsMachine, CodeKeeps, FilledKeeps DEF SimulationInv
<1>3. ProgressInv'
  <2>1. CASE Compile
    <3>1. status' \in {"ready", "rejected"}
      BY <2>1 DEF Compile
    <3>2. QED
      BY <3>1 DEF ProgressInv, Intact
  <2>2. CASE UNCHANGED vars
    <3>1. UNCHANGED <<source, code, inputs, before, pc, workers, status, memory, outputs>>
      BY <2>2 DEF vars
    <3>2. Intact' => Intact
      BY <3>1, SameProgram DEF Intact, source
    <3>3. \A m0, ws, mem : ElementsOf(m0, ws, mem)' <=> ElementsOf(m0, ws, mem)
      BY <3>1, SameElements
    <3>4. ASSUME NEW M, NEW upto, Progress(M, upto) PROVE Progress(M, upto)'
      BY <3>1, <3>3, <3>4 DEF Progress
    <3>5. QED
      BY <1>1, <3>1, <3>2, <3>4, ProgressKept DEF SimulationInv
  <2>3. QED
    BY <1>1, <2>1, <2>2, CallProgress, ReturnProgress, RawProgress, DropProgress, SpawnProgress,
       JoinProgress, WorkProgress DEF Next, Main
<1>4. QED
  BY <1>2, <1>3 DEF SimulationInv

LEMMA Simulation == Spec => []SimulationInv
<1>1. QED
  BY InitSimulates, NextSimulates, PTL DEF Spec

(* A call that has returned has done what the virtual machine does. *)
LEMMA CodeSplits ==
  ASSUME MachineInv, CodeInv, status # "source"
  PROVE  \E upto : Splits(program, code, upto, Len(program))
<1>1. program \in Seq(OpCode) /\ Len(program) \in Nat
  BY DEF MachineInv
<1>2. PICK upto : Splits(program, LoopFuser(program), upto, Len(program))
  BY <1>1, LoopFuserSplits
<1>3. LoopFuser(program) \in Seq(Items(program))
  BY <1>1, CompiledIs
<1> HIDE DEF Items
<1>4. \E u : Splits(program, KernelFuser(LoopFuser(program)), u, Len(program))
  BY <1>1, <1>2, <1>3, KernelFuserSplits
<1>5. QED
  BY <1>2, <1>4 DEF CodeInv

LEMMA CallComputes ==
  ASSUME SimulationInv, status = "ok", Apart, backend = "jit" => NoneEmpty /\ Unsaturated
  PROVE  [i16 |-> memory, out |-> outputs] = Run(Seen, before, inputs)
<1> DEFINE N == Len(program)
<1>1. /\ MachineInv /\ CodeInv /\ FilledInv /\ ProgressInv /\ Intact
      /\ program \in Seq(OpCode) /\ backend \in {"jit", "aot"}
  BY DEF SimulationInv, MachineInv, Intact
<1>2. PICK M : /\ Traced(M) /\ M[N] = Run(Seen, before, inputs)
               /\ Unsaturated => NarrowAlong(M)
  BY <1>1, TraceExists
<1>3. PICK upto : Splits(program, code, upto, N)
  BY <1>1, CodeSplits
<1>4. Progress(M, upto)
  <2>1. Explains(M, upto)
    BY <1>2, <1>3 DEF Explains
  <2>2. QED
    BY <1>1, <2>1 DEF ProgressInv
<1>5. upto[pc - 1] = N
  <2>1. pc = Len(code) + 1 /\ Len(code) \in Nat
    <3> HIDE DEF Items
    <3>1. QED
      BY <1>1, <1>4 DEF Progress, MachineInv
  <2>2. pc - 1 = Len(code)
    BY <2>1
  <2>3. QED
    BY <1>3, <2>2 DEF Splits
<1>6. memory = M[N].i16 /\ outputs = M[N].out
  BY <1>4, <1>5 DEF Progress
<1>7. Buffers(M[N])
  <2>1. N \in 0 .. Len(program)
    BY <1>1
  <2>2. QED
    BY <1>1, <1>2, <2>1, TraceShape DEF FilledInv
<1>8. QED
  BY <1>2, <1>6, <1>7 DEF Buffers

(* Whatever the program, the buffers, the number of threads and the order  *)
(* in which they run: a call of AOT code whose tensors are equal or apart  *)
(* leaves the memory and the outputs as the virtual machine does for Seen, *)
(* the program that aot.rs has code for: with every scalar constant 0      *)
(* (aot.rs:56), and without AdamWStep and the raw instructions that are    *)
(* neither LoadVarVec nor StoreVec.                                        *)
THEOREM AotComputesMeaning == Spec => []AotComputes
<1>1. SimulationInv => AotComputes
  <2>1. SUFFICES ASSUME SimulationInv, backend = "aot", status = "ok", Apart
                 PROVE  [i16 |-> memory, out |-> outputs] = Run(Seen, before, inputs)
    BY DEF AotComputes, Left
  <2>2. QED
    BY <2>1, CallComputes
<1>2. QED
  BY <1>1, Simulation, PTL

(* A program of which the compiler drops nothing is the one it sees. *)
LEMMA SupportedIsSeen ==
  ASSUME MachineInv, backend = "aot", Supported
  PROVE  Seen = program
<1> DEFINE N == Len(program)
           Good == {n \in Nat : n <= N => Kept[n] = SubSeq(program, 1, n)}
<1>1. program \in Seq(OpCode) /\ N \in Nat
  BY DEF MachineInv
<1>2. \A n \in 1 .. N : program[n].op \in Known /\ Compiled(program[n]) = program[n]
  <2>1. SUFFICES ASSUME NEW n \in 1 .. N
                 PROVE  program[n].op \in Known /\ Compiled(program[n]) = program[n]
    OBVIOUS
  <2>2. program[n].op \in {"LoadVarVec", "StoreVec", "AddVec", "MulVec"}
    BY <1>1 DEF Supported, Range
  <2>3. QED
    BY <2>2 DEF Known, RawOps, FusableOps, VecOneOps, Compiled
<1>3. Kept[0] = <<>> /\ \A n \in 1 .. N : Kept[n] = Append(Kept[n - 1], program[n])
  BY <1>1, <1>2, KeptIs
<1>4. 0 \in Good
  <2>1. SubSeq(program, 1, 0) = <<>>
    BY <1>1
  <2>2. QED
    BY <1>3, <2>1
<1>5. ASSUME NEW n \in Nat, n \in Good PROVE n + 1 \in Good
  <2>1. SUFFICES ASSUME n + 1 <= N PROVE Kept[n + 1] = SubSeq(program, 1, n + 1)
    OBVIOUS
  <2>2. Kept[n] = SubSeq(program, 1, n) /\ n + 1 \in 1 .. N /\ (n + 1) - 1 = n
    BY <1>1, <1>5, <2>1
  <2>3. Kept[n + 1] = Append(SubSeq(program, 1, n), program[n + 1])
    BY <1>3, <2>2
  <2>4. Append(SubSeq(program, 1, n), program[n + 1]) = SubSeq(program, 1, n + 1)
    <3> HIDE DEF N
    <3>1. N = Len(program)
      BY DEF N
    <3>2. QED
      BY <1>1, <2>2, <3>1
  <2>5. QED
    BY <2>3, <2>4
<1>6. Nat \subseteq Good
  <2> HIDE DEF Good
  <2>1. QED
    BY <1>4, <1>5, SetInduction
<1>7. Kept[N] = SubSeq(program, 1, N)
  BY <1>1, <1>6
<1>8. SubSeq(program, 1, N) = program
  BY <1>1
<1>9. QED
  BY <1>7, <1>8 DEF Seen

(* A call of AOT code for vector sums and products, loads and stores whose *)
(* tensors are equal or apart leaves the memory and the outputs as the     *)
(* virtual machine leaves them for the program itself.                     *)
THEOREM AotAgreesWithMachine == Spec => []AotAgrees
<1>1. SimulationInv => AotAgrees
  <2>1. SUFFICES ASSUME SimulationInv, backend = "aot", status = "ok", Apart, Supported
                 PROVE  Left = Run(program, before, inputs)
    BY DEF AotAgrees
  <2>2. Left = Run(Seen, before, inputs)
    BY <2>1, CallComputes DEF Left
  <2>3. Seen = program
    BY <2>1, SupportedIsSeen DEF SimulationInv
  <2>4. QED
    BY <2>2, <2>3
<1>2. QED
  BY <1>1, Simulation, PTL

(* A call of JIT code, whose loops are merged and whose arithmetic wraps,  *)
(* leaves what the virtual machine does for the instructions that the JIT  *)
(* has code for (StoreVec is not one of them, jit.rs:193), where no result *)
(* leaves the range of i16 and no tensor is empty.                         *)
THEOREM JitComputesMeaning == Spec => []JitComputes
<1>1. SimulationInv => JitComputes
  <2>1. SUFFICES ASSUME SimulationInv, backend = "jit", status = "ok", Apart, NoneEmpty, Unsaturated
                 PROVE  [i16 |-> memory, out |-> outputs] = Run(Seen, before, inputs)
    BY DEF JitComputes, Left
  <2>2. QED
    BY <2>1, CallComputes
<1>2. QED
  BY <1>1, Simulation, PTL
=============================================================================
