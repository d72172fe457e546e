--------------------------- MODULE LoweringProofs ---------------------------
(***************************************************************************)
(* Proofs about the lowering: for any FX graphs and any inputs.            *)
(***************************************************************************)
EXTENDS Lowering, FiniteSetTheorems, Recursion, TLAPS

LEMMA Graph ==
  ASSUME fx \in FxGraphs
  PROVE  /\ Len(fx) \in Nat \ {0} /\ DOMAIN fx = 1 .. Len(fx)
         /\ \A n \in 1 .. Len(fx) :
              /\ fx[n].op \in {"placeholder", "get_attr", "call", "output"}
              /\ fx[n].op # "output" => fx[n].numel \in Nat
              /\ fx[n].op = "output" <=> n = Len(fx)
              /\ fx[n].op = "output" => fx[n].of \in 1 .. n - 1
<1>1. IsFxGraph(fx)
  BY LoweringAssumption
<1>2. fx \in Seq(FxNode) /\ fx # <<>>
  BY <1>1 DEF IsFxGraph
<1>3. Len(fx) \in Nat \ {0} /\ DOMAIN fx = 1 .. Len(fx)
  BY <1>2
<1>4. ASSUME NEW n \in 1 .. Len(fx)
      PROVE  /\ fx[n].op \in {"placeholder", "get_attr", "call", "output"}
             /\ fx[n].op # "output" => fx[n].numel \in Nat
  <2>1. fx[n] \in FxNode
    BY <1>2
  <2>2. QED
    BY <2>1 DEF FxNode
<1>5. QED
  BY <1>1, <1>3, <1>4 DEF IsFxGraph

LEMMA CallNode ==
  ASSUME fx \in FxGraphs, NEW n \in 1 .. Len(fx), fx[n].op = "call"
  PROVE  /\ fx[n].lhs \in Argument /\ fx[n].rhs \in Argument
         /\ fx[n].lhs.kind = "node" => fx[n].lhs.of \in 1 .. n - 1
         /\ fx[n].rhs.kind = "node" => fx[n].rhs.of \in 1 .. n - 1
         /\ fx[n].lhs.kind = "node" \/ fx[n].rhs.kind = "node"
<1>1. IsFxGraph(fx) /\ fx \in Seq(FxNode) /\ n \in DOMAIN fx
  BY LoweringAssumption, Graph DEF IsFxGraph
<1>2. fx[n].lhs \in Argument /\ fx[n].rhs \in Argument
  <2>1. fx[n] \in FxNode
    BY <1>1
  <2>2. QED
    BY <2>1 DEF FxNode
<1>3. /\ \A arg \in {fx[n].lhs, fx[n].rhs} : arg.kind = "node" => arg.of \in 1 .. n - 1
      /\ "node" \in {fx[n].lhs.kind, fx[n].rhs.kind}
  BY <1>1 DEF IsFxGraph
<1>4. QED
  BY <1>2, <1>3

LEMMA ArgumentKinds ==
  ASSUME NEW arg \in Argument
  PROVE  /\ arg.kind \in {"node", "scalar"}
         /\ arg.kind = "scalar" => arg.of \in Int
BY DEF Argument

-----------------------------------------------------------------------------
(* The places of the inputs. *)
LEMMA ElementsAre ==
  ASSUME fx \in FxGraphs, NEW op \in {"placeholder", "get_attr"}
  PROVE  /\ \A n \in 0 .. Len(fx) : Elements(op)[n] \in Nat
         /\ Elements(op)[0] = 0
         /\ \A n \in 1 .. Len(fx) :
              Elements(op)[n] = Elements(op)[n - 1] + (IF fx[n].op = op THEN fx[n].numel ELSE 0)
<1> DEFINE N == Len(fx)
           More(n, x) == IF fx[n].op = op THEN x + fx[n].numel ELSE x
           F(f) == [n \in 0 .. N |-> IF n = 0 THEN 0 ELSE More(n, f[n - 1])]
           sum  == CHOOSE f : f = F(f)
           step == [pair \in (1 .. N) \X Nat |-> More(pair[1], pair[2])]
<1>1. Elements(op) = sum
  BY DEF Elements
<1>2. N \in Nat
  BY Graph
<1>3. ASSUME NEW n \in 1 .. N, NEW x \in Nat
      PROVE  More(n, x) \in Nat /\ More(n, x) = x + (IF fx[n].op = op THEN fx[n].numel ELSE 0)
  <2>1. fx[n].op = op => fx[n].numel \in Nat
    BY Graph
  <2>2. CASE fx[n].op = op
    BY <2>1, <2>2
  <2>3. CASE fx[n].op # op
    BY <2>3
  <2>4. QED
    BY <2>2, <2>3
<1>4. step \in [(1 .. N) \X Nat -> Nat]
  <2> HIDE DEF More
  <2>1. QED
    BY <1>3
<1>5. PICK f \in [0 .. N -> Nat] : Solves(f, N, 0, step)
  <2> HIDE DEF step
  <2>1. 0 \in Nat
    OBVIOUS
  <2>2. QED
    BY <1>2, <1>4, <2>1, SolutionExists
<1>6. f = F(f)
  <2> HIDE DEF More
  <2>1. \A n \in 1 .. N : f[n] = More(n, f[n - 1])
    <3>1. \A n \in 1 .. N : <<n, f[n - 1]>> \in (1 .. N) \X Nat
      BY <1>2
    <3>2. \A n \in 1 .. N : step[<<n, f[n - 1]>>] = More(n, f[n - 1])
      BY <3>1
    <3>3. QED
      <4> HIDE DEF step
      <4>1. QED
        BY <1>5, <3>2 DEF Solves
  <2>2. f[0] = 0
    BY <1>5 DEF Solves
  <2>3. QED
    BY <1>2, <2>1, <2>2
<1>7. sum = F(sum)
  <2> HIDE DEF F
  <2>1. QED
    BY <1>6
<1>8. sum[0] = 0 /\ \A n \in 1 .. N : sum[n] = More(n, sum[n - 1])
  <2> HIDE DEF sum, More
  <2>1. \A n \in 0 .. N : sum[n] = IF n = 0 THEN 0 ELSE More(n, sum[n - 1])
    BY <1>7
  <2>2. 0 \in 0 .. N /\ \A n \in 1 .. N : n \in 0 .. N /\ n # 0
    BY <1>2
  <2>3. QED
    BY <2>1, <2>2
<1>9. \A n \in Nat : n <= N => sum[n] \in Nat
  <2> HIDE DEF sum, More
  <2> DEFINE Good == {n \in Nat : n <= N => sum[n] \in Nat}
  <2>1. 0 \in Good
    BY <1>8
  <2>2. ASSUME NEW n \in Nat, n \in Good PROVE n + 1 \in Good
    <3>1. SUFFICES ASSUME n + 1 <= N PROVE sum[n + 1] \in Nat
      OBVIOUS
    <3>2. sum[n] \in Nat /\ n + 1 \in 1 .. N /\ n + 1 - 1 = n
      BY <1>2, <2>2, <3>1
    <3>3. sum[n + 1] = More(n + 1, sum[n])
      BY <1>8, <3>2
    <3>4. QED
      BY <1>3, <3>2, <3>3
  <2>3. Nat \subseteq Good
    <3> HIDE DEF Good
    <3>1. QED
      BY <2>1, <2>2, SetInduction
  <2>4. QED
    BY <2>3
<1>10. \A n \in 1 .. N : sum[n] = sum[n - 1] + (IF fx[n].op = op THEN fx[n].numel ELSE 0)
  <2> HIDE DEF sum, More
  <2>1. ASSUME NEW n \in 1 .. N PROVE sum[n - 1] \in Nat
    <3>1. n - 1 \in Nat /\ n - 1 <= N
      BY <1>2
    <3>2. QED
      BY <1>9, <3>1
  <2>2. QED
    BY <1>3, <1>8, <2>1
<1>11. QED
  <2> HIDE DEF sum
  <2>1. QED
    BY <1>1, <1>2, <1>8, <1>9, <1>10

(* From one node to a later one there are more elements, and as many if no *)
(* node of the kind is between them. *)
LEMMA ElementsGrow ==
  ASSUME fx \in FxGraphs, NEW op \in {"placeholder", "get_attr"},
         NEW m \in 0 .. Len(fx), NEW n \in 0 .. Len(fx), m <= n
  PROVE  /\ Elements(op)[m] <= Elements(op)[n]
         /\ (\A k \in m + 1 .. n : fx[k].op # op) => Elements(op)[n] = Elements(op)[m]
<1> DEFINE E == Elements(op)
           Good == {j \in Nat : m + j <= n =>
                      /\ E[m] <= E[m + j]
                      /\ (\A k \in m + 1 .. m + j : fx[k].op # op) => E[m + j] = E[m]}
<1>1. /\ Len(fx) \in Nat /\ \A k \in 0 .. Len(fx) : E[k] \in Nat
      /\ \A k \in 1 .. Len(fx) : E[k] = E[k - 1] + (IF fx[k].op = op THEN fx[k].numel ELSE 0)
      /\ \A k \in 1 .. Len(fx) : fx[k].op = op => fx[k].numel \in Nat
  BY Graph, ElementsAre
<1> HIDE DEF E
<1>2. 0 \in Good
  BY <1>1
<1>3. ASSUME NEW j \in Nat, j \in Good PROVE j + 1 \in Good
  <2>1. SUFFICES ASSUME m + j + 1 <= n
                 PROVE  /\ E[m] <= E[m + j + 1]
                        /\ (\A k \in m + 1 .. m + j + 1 : fx[k].op # op) => E[m + j + 1] = E[m]
    OBVIOUS
  <2>2. /\ m + j + 1 \in 1 .. Len(fx) /\ (m + j + 1) - 1 = m + j
        /\ m + j \in 0 .. Len(fx) /\ m + j <= n
    BY <1>1, <2>1
  <2>3. E[m] \in Nat /\ E[m + j] \in Nat /\ E[m + j + 1] \in Nat
    BY <1>1, <2>2
  <2>4. E[m + j + 1] = E[m + j] + (IF fx[m + j + 1].op = op THEN fx[m + j + 1].numel ELSE 0)
    BY <1>1, <2>2
  <2>5. E[m] <= E[m + j + 1]
    BY <1>1, <1>3, <2>2, <2>3, <2>4
  <2>6. ASSUME \A k \in m + 1 .. m + j + 1 : fx[k].op # op PROVE E[m + j + 1] = E[m]
    <3>1. fx[m + j + 1].op # op /\ \A k \in m + 1 .. m + j : fx[k].op # op
      BY <2>2, <2>6
    <3>2. QED
      BY <1>3, <2>2, <2>3, <2>4, <3>1
  <2>7. QED
    BY <2>5, <2>6
<1>4. n - m \in Good
  <2>1. Nat \subseteq Good
    <3> HIDE DEF Good
    <3>1. QED
      BY <1>2, <1>3, SetInduction
  <2>2. n - m \in Nat
    BY <1>1
  <2>3. QED
    <3> HIDE DEF Good
    <3>1. QED
      BY <2>1, <2>2
<1>5. m + (n - m) = n
  BY <1>1
<1>6. QED
  BY <1>4, <1>5 DEF E

(* An input lies within the inputs of the engine.  Where the inputs come   *)
(* in order, it lies behind the inputs before it.                          *)
LEMMA InputPlaces ==
  ASSUME fx \in FxGraphs, NEW n \in 1 .. Len(fx), IsInput(n)
  PROVE  /\ InputOffset(n) \in Nat /\ InputOffset(n) + fx[n].numel <= InputLen
         /\ InputLen \in Nat
         /\ InputsInOrder =>
              InputOffset(n) = Elements("placeholder")[n - 1] + Elements("get_attr")[n - 1]
<1> DEFINE P == Elements("placeholder")
           G == Elements("get_attr")
           N == Len(fx)
<1>1. /\ N \in Nat /\ fx[n].numel \in Nat /\ fx[n].op \in {"placeholder", "get_attr"}
      /\ n - 1 \in 0 .. N /\ n \in 0 .. N /\ N \in 0 .. N /\ 0 \in 0 .. N /\ n - 1 <= n /\ n <= N
  <2>1. /\ N \in Nat /\ fx[n].op \in {"placeholder", "get_attr"}
        /\ fx[n].op # "output" => fx[n].numel \in Nat
    BY Graph DEF IsInput
  <2>2. fx[n].numel \in Nat
    BY <2>1
  <2> HIDE DEF N
  <2>3. n \in 1 .. N
    BY DEF N
  <2>4. /\ n - 1 \in 0 .. N /\ n \in 0 .. N /\ N \in 0 .. N /\ 0 \in 0 .. N
        /\ n - 1 <= n /\ n <= N
    BY <2>1, <2>3
  <2>5. QED
    BY <2>1, <2>2, <2>4
<1>2. /\ P[n - 1] \in Nat /\ P[n] \in Nat /\ P[N] \in Nat
      /\ G[n - 1] \in Nat /\ G[n] \in Nat /\ G[N] \in Nat /\ P[0] = 0 /\ G[0] = 0
      /\ P[n] = P[n - 1] + (IF fx[n].op = "placeholder" THEN fx[n].numel ELSE 0)
      /\ G[n] = G[n - 1] + (IF fx[n].op = "get_attr" THEN fx[n].numel ELSE 0)
  BY <1>1, ElementsAre
<1>3. P[n] <= P[N] /\ G[n] <= G[N]
  BY <1>1, ElementsGrow
<1>4. /\ InputOffset(n) = IF fx[n].op = "placeholder" THEN P[n - 1] ELSE P[N] + G[n - 1]
      /\ InputLen = P[N] + G[N]
  BY <1>1, <1>2 DEF InputOffset, InputLen, param_start_offset
<1>5. ASSUME InputsInOrder PROVE InputOffset(n) = P[n - 1] + G[n - 1]
  <2>1. CASE fx[n].op = "placeholder"
    <3>1. \A k \in 0 + 1 .. n - 1 : fx[k].op # "get_attr"
      <4>1. SUFFICES ASSUME NEW k \in 1 .. n - 1 PROVE fx[k].op # "get_attr"
        OBVIOUS
      <4>2. k \in DOMAIN fx /\ n \in DOMAIN fx /\ k < n
        BY <1>1, Graph
      <4>3. fx[k].op \in {"placeholder", fx[n].op}
        BY <1>5, <4>2 DEF InputsInOrder
      <4>4. QED
        BY <2>1, <4>3
    <3>2. G[n - 1] = G[0]
      BY <1>1, <3>1, ElementsGrow
    <3>3. QED
      <4> HIDE DEF P, G, N
      <4>1. QED
        BY <1>2, <1>4, <2>1, <3>2
  <2>2. CASE fx[n].op = "get_attr"
    <3>1. \A k \in (n - 1) + 1 .. N : fx[k].op # "placeholder"
      <4>1. SUFFICES ASSUME NEW k \in n .. N, fx[k].op = "placeholder" PROVE FALSE
        BY <1>1
      <4>2. k \in DOMAIN fx /\ n \in DOMAIN fx /\ n < k /\ IsInput(k)
        BY <1>1, <2>2, <4>1, Graph DEF IsInput
      <4>3. fx[n].op \in {"placeholder", fx[k].op}
        BY <1>5, <4>2 DEF InputsInOrder
      <4>4. QED
        BY <2>2, <4>1, <4>3
    <3>2. P[N] = P[n - 1]
      <4>1. n - 1 <= N
        BY <1>1
      <4>2. QED
        BY <1>1, <3>1, <4>1, ElementsGrow
    <3>3. QED
      <4> HIDE DEF P, G, N
      <4>1. QED
        BY <1>2, <1>4, <2>2, <3>2
  <2>3. QED
    BY <1>1, <2>1, <2>2
<1>6. QED
  <2> HIDE DEF P, G, N
  <2>1. InputLen \in Nat
    BY <1>2, <1>4
  <2>2. InputOffset(n) \in Nat /\ InputOffset(n) + fx[n].numel <= InputLen
    <3>1. /\ InputLen = P[N] + G[N] /\ P[N] \in Nat /\ G[N] \in Nat
          /\ P[n - 1] \in Nat /\ G[n - 1] \in Nat /\ fx[n].numel \in Nat
          /\ P[n] <= P[N] /\ G[n] <= G[N]
      BY <1>1, <1>2, <1>3, <1>4
    <3>2. \A x, k, y, z \in Nat : x + k <= y => x + k <= y + z /\ (z + x) + k <= z + y
      OBVIOUS
    <3>3. CASE fx[n].op = "placeholder"
      <4>1. InputOffset(n) = P[n - 1] /\ P[n] = P[n - 1] + fx[n].numel
        BY <1>2, <1>4, <3>3
      <4>2. P[n - 1] + fx[n].numel <= P[N]
        BY <3>1, <4>1
      <4>3. QED
        BY <3>1, <3>2, <4>1, <4>2
    <3>4. CASE fx[n].op = "get_attr"
      <4>1. InputOffset(n) = P[N] + G[n - 1] /\ G[n] = G[n - 1] + fx[n].numel
        BY <1>2, <1>4, <3>4
      <4>2. G[n - 1] + fx[n].numel <= G[N]
        BY <3>1, <4>1
      <4>3. QED
        BY <3>1, <3>2, <4>1, <4>2
    <3>5. QED
      BY <1>1, <3>3, <3>4
  <2>3. QED
    BY <1>5, <2>1, <2>2 DEF P, G

-----------------------------------------------------------------------------
(* What a node stands for depends on the nodes before it only, so that the *)
(* recursion of FxValues has a solution. *)
LEMMA ValueAgrees ==
  ASSUME fx \in FxGraphs, NEW n \in 1 .. Len(fx), NEW inputs, NEW f, NEW g,
         \A j \in 1 .. n - 1 : f[j] = g[j]
  PROVE  ValueOf(f, n, inputs) = ValueOf(g, n, inputs)
<1>1. CASE fx[n].op = "call"
  <2> DEFINE l == fx[n].lhs
             r == fx[n].rhs
  <2>1. \A arg \in {l, r} : arg.kind \in {"node", "scalar"} /\ (arg.kind = "node" => f[arg.of] = g[arg.of])
    BY <1>1, CallNode, ArgumentKinds
  <2> HIDE DEF l, r
  <2>2. ASSUME NEW arg \in {l, r}
        PROVE  /\ OpaqueArg(f, arg) = OpaqueArg(g, arg)
               /\ \A k : Operand(f, arg, k) = Operand(g, arg, k)
    <3>1. CASE arg.kind = "node"
      BY <2>1, <3>1 DEF OpaqueArg, Operand
    <3>2. CASE arg.kind = "scalar"
      BY <3>2 DEF OpaqueArg, Operand
    <3>3. QED
      BY <2>1, <3>1, <3>2
  <2>3. /\ OpaqueArg(f, l) = OpaqueArg(g, l) /\ OpaqueArg(f, r) = OpaqueArg(g, r)
        /\ \A k : Operand(f, l, k) = Operand(g, l, k)
        /\ \A k : Operand(f, r, k) = Operand(g, r, k)
    BY <2>2
  <2>4. [k \in 0 .. fx[n].numel - 1 |-> Apply(fx[n].fn, Operand(f, l, k), Operand(f, r, k))]
          = [k \in 0 .. fx[n].numel - 1 |-> Apply(fx[n].fn, Operand(g, l, k), Operand(g, r, k))]
    BY <2>3
  <2>5. QED
    BY <1>1, <2>3, <2>4 DEF ValueOf, l, r
<1>2. CASE fx[n].op = "output"
  BY <1>2, Graph DEF ValueOf
<1>3. CASE fx[n].op \in {"placeholder", "get_attr"}
  BY <1>3 DEF ValueOf
<1>4. QED
  BY <1>1, <1>2, <1>3, Graph

LEMMA FxValuesAre ==
  ASSUME fx \in FxGraphs, NEW inputs
  PROVE  \A n \in 1 .. Len(fx) : FxValues(inputs)[n] = ValueOf(FxValues(inputs), n, inputs)
<1> DEFINE N == Len(fx)
           F(f) == [n \in DOMAIN fx |-> ValueOf(f, n, inputs)]
           value == CHOOSE f : f = F(f)
           Good == {m \in Nat : m <= N => \E f : \A n \in 1 .. m : f[n] = ValueOf(f, n, inputs)}
<1>1. FxValues(inputs) = value
  BY DEF FxValues
<1>2. N \in Nat /\ DOMAIN fx = 1 .. N
  BY Graph
<1>3. 0 \in Good
  OBVIOUS
<1>4. ASSUME NEW m \in Nat, m \in Good PROVE m + 1 \in Good
  <2>1. SUFFICES ASSUME m + 1 <= N
                 PROVE  \E f : \A n \in 1 .. m + 1 : f[n] = ValueOf(f, n, inputs)
    OBVIOUS
  <2>2. PICK f : \A n \in 1 .. m : f[n] = ValueOf(f, n, inputs)
    BY <1>2, <1>4, <2>1
  <2> DEFINE g == [n \in 1 .. m + 1 |-> IF n = m + 1 THEN ValueOf(f, n, inputs) ELSE f[n]]
  <2>3. ASSUME NEW n \in 1 .. m + 1 PROVE g[n] = ValueOf(g, n, inputs)
    <3>1. g[n] = ValueOf(f, n, inputs)
      <4>1. CASE n = m + 1
        BY <4>1
      <4>2. CASE n # m + 1
        <5>1. n \in 1 .. m /\ g[n] = f[n]
          BY <4>2
        <5>2. QED
          BY <2>2, <5>1
      <4>3. QED
        BY <4>1, <4>2
    <3>2. \A j \in 1 .. n - 1 : f[j] = g[j]
      OBVIOUS
    <3>3. n \in 1 .. N
      BY <1>2, <2>1
    <3> HIDE DEF g
    <3>4. QED
      BY <3>1, <3>2, <3>3, ValueAgrees
  <2> HIDE DEF g
  <2>4. QED
    BY <2>3
<1>5. N \in Good
  <2>1. Nat \subseteq Good
    <3> HIDE DEF Good
    <3>1. QED
      BY <1>3, <1>4, SetInduction
  <2>2. QED
    BY <1>2, <2>1
<1>6. \E f : f = F(f)
  <2>1. PICK f : \A n \in 1 .. N : f[n] = ValueOf(f, n, inputs)
    BY <1>2, <1>5
  <2> DEFINE g == [n \in 1 .. N |-> f[n]]
  <2>2. ASSUME NEW n \in 1 .. N PROVE g[n] = ValueOf(g, n, inputs)
    <3>1. g[n] = ValueOf(f, n, inputs)
      BY <2>1
    <3>2. \A j \in 1 .. n - 1 : f[j] = g[j]
      BY <1>2
    <3> HIDE DEF g
    <3>3. QED
      BY <3>1, <3>2, ValueAgrees
  <2>3. g = [n \in 1 .. N |-> g[n]]
    OBVIOUS
  <2> HIDE DEF g
  <2>4. g = F(g)
    BY <1>2, <2>2, <2>3
  <2>5. QED
    BY <2>4
<1>7. value = F(value)
  <2> HIDE DEF F
  <2>1. QED
    BY <1>6
<1>8. QED
  <2> HIDE DEF value
  <2>1. QED
    BY <1>1, <1>2, <1>7

-----------------------------------------------------------------------------
(* The instructions of the lowering: where the tensors they read begin,    *)
(* and what they are to the planner. *)
Lowered == {i \in OpCode : i.op \in CountedOps}

From(i) ==
  CASE i.op \in {"AddVec", "MulVec"} -> {i.lhs, i.rhs}
    [] i.op \in VecOneOps            -> {i.lhs}
    [] i.op = "StoreVec"             -> {i.src}
    [] i.op = "LoadVarVec"           -> {}

LEMMA Fields ==
  ASSUME NEW i \in Lowered
  PROVE  /\ i.len \in Nat /\ From(i) \subseteq Nat
         /\ i.op # "StoreVec" => i.dst \in Nat
         /\ i.op = "StoreVec" => i.out \in Nat
         /\ i.op = "LoadVarVec" => i.var \in Nat
BY DEF Lowered, CountedOps, From, OpCode, ScalarOps, VecBinOps, VecI8Ops, VecOneOps, StepOps

LEMMA ReadsFrom ==
  ASSUME NEW i \in Lowered
  PROVE  /\ Reads(i) = UNION {Cells("i16", off, i.len) : off \in From(i)}
         /\ Writes(i) = IF i.op = "StoreVec" THEN {} ELSE Cells("i16", i.dst, i.len)
         /\ Stores(i) = IF i.op = "StoreVec" THEN Span(i.out, i.len) ELSE {}
<1>1. CASE i.op \in {"AddVec", "MulVec"}
  BY <1>1 DEF Reads, Writes, Stores, From, ScalarOps, VecBinOps, VecOneOps, VecI8Ops, StepOps
<1>2. CASE i.op \in VecOneOps
  BY <1>2 DEF Reads, Writes, Stores, From, ScalarOps, VecBinOps, VecOneOps, VecI8Ops, StepOps
<1>3. CASE i.op = "StoreVec"
  BY <1>3 DEF Reads, Writes, Stores, From, ScalarOps, VecBinOps, VecOneOps, VecI8Ops, StepOps
<1>4. CASE i.op = "LoadVarVec"
  BY <1>4 DEF Reads, Writes, Stores, From, ScalarOps, VecBinOps, VecOneOps, VecI8Ops, StepOps
<1>5. QED
  BY <1>1, <1>2, <1>3, <1>4 DEF Lowered, CountedOps

LEMMA PlanEndIs ==
  ASSUME NEW i \in Lowered
  PROVE  /\ PlanEnd(i) \in Nat
         /\ \A off \in From(i) : off + i.len <= PlanEnd(i)
         /\ i.op # "StoreVec" => i.dst + i.len <= PlanEnd(i)
<1>1. i.len \in Nat /\ From(i) \subseteq Nat /\ (i.op # "StoreVec" => i.dst \in Nat)
  BY Fields
<1>2. ASSUME NEW x \in Nat, NEW y \in Nat, NEW z \in Nat
      PROVE  /\ Max({x, y, z}) \in Nat /\ \A u \in {x, y, z} : u <= Max({x, y, z})
             /\ Max({x, y}) \in Nat /\ \A u \in {x, y} : u <= Max({x, y})
  <2>1. x + y + z \in Int /\ \A u \in {x, y, z} : u <= x + y + z
    OBVIOUS
  <2>2. {x, y, z} \subseteq Int /\ {x, y} \subseteq Int /\ {x, y, z} # {} /\ {x, y} # {}
    OBVIOUS
  <2>3. Max({x, y, z}) \in {x, y, z} /\ \A u \in {x, y, z} : u <= Max({x, y, z})
    BY <2>1, <2>2, MaxOf
  <2>4. Max({x, y}) \in {x, y} /\ \A u \in {x, y} : u <= Max({x, y})
    <3>1. \A u \in {x, y} : u <= x + y + z
      BY <2>1
    <3>2. QED
      BY <2>1, <2>2, <3>1, MaxOf
  <2>5. QED
    BY <2>3, <2>4
<1>3. CASE i.op \in {"AddVec", "MulVec"}
  <2>1. From(i) = {i.lhs, i.rhs} /\ PlanEnd(i) = Max({i.lhs, i.rhs, i.dst}) + i.len
    BY <1>3 DEF From, PlanEnd, VecOneOps
  <2>2. i.lhs \in Nat /\ i.rhs \in Nat /\ i.dst \in Nat
    BY <1>1, <1>3, <2>1
  <2>3. /\ Max({i.lhs, i.rhs, i.dst}) \in Nat
        /\ \A u \in {i.lhs, i.rhs, i.dst} : u <= Max({i.lhs, i.rhs, i.dst})
    BY <1>2, <2>2
  <2>4. QED
    BY <1>1, <2>1, <2>2, <2>3
<1>4. CASE i.op \in VecOneOps
  <2>1. From(i) = {i.lhs} /\ PlanEnd(i) = Max({i.lhs, i.dst}) + i.len /\ i.op # "StoreVec"
    BY <1>4 DEF From, PlanEnd, VecOneOps
  <2>2. i.lhs \in Nat /\ i.dst \in Nat
    BY <1>1, <2>1
  <2>3. Max({i.lhs, i.dst}) \in Nat /\ \A u \in {i.lhs, i.dst} : u <= Max({i.lhs, i.dst})
    BY <1>2, <2>2
  <2>4. QED
    BY <1>1, <2>1, <2>2, <2>3
<1>5. CASE i.op = "StoreVec"
  BY <1>1, <1>5 DEF From, PlanEnd, VecOneOps
<1>6. CASE i.op = "LoadVarVec"
  BY <1>1, <1>6 DEF From, PlanEnd, VecOneOps
<1>7. QED
  BY <1>3, <1>4, <1>5, <1>6 DEF Lowered, CountedOps

(* The planned memory covers every instruction. *)
LEMMA PlanCovers ==
  ASSUME NEW p \in Seq(Lowered)
  PROVE  /\ Plan(p).memory_size \in Nat
         /\ \A k \in DOMAIN p : PlanEnd(p[k]) <= Plan(p).memory_size
<1> DEFINE ends == [k \in 1 .. Len(p) |-> PlanEnd(p[k])]
           E == {0} \union {PlanEnd(p[k]) : k \in DOMAIN p}
<1>1. Len(p) \in Nat /\ DOMAIN p = 1 .. Len(p)
  OBVIOUS
<1>2. \A k \in 1 .. Len(p) : PlanEnd(p[k]) \in Nat /\ ends[k] = PlanEnd(p[k])
  BY PlanEndIs
<1>3. PICK B \in Nat : \A k \in 1 .. Len(p) : ends[k] <= B
  <2> HIDE DEF ends
  <2>1. QED
    BY <1>1, <1>2, Bounded
<1>4. E \subseteq Nat /\ E # {} /\ \A x \in E : x <= B
  <2> HIDE DEF ends
  <2>1. QED
    BY <1>1, <1>2, <1>3
<1>5. Max(E) \in E /\ \A x \in E : x <= Max(E)
  <2> HIDE DEF E
  <2>1. E \subseteq Int /\ B \in Int
    BY <1>4
  <2>2. QED
    BY <1>4, <2>1, MaxOf
<1>6. Plan(p).memory_size = Max(E)
  BY DEF Plan
<1>7. \A k \in DOMAIN p : PlanEnd(p[k]) \in E
  OBVIOUS
<1>8. QED
  <2> HIDE DEF E
  <2>1. QED
    BY <1>4, <1>5, <1>6, <1>7

LEMMA TouchesPlanned ==
  ASSUME NEW i \in Lowered, NEW cell \in Touches(i)
  PROVE  cell[2] \in Nat /\ cell[2] < PlanEnd(i)
<1>1. i.len \in Nat /\ From(i) \subseteq Nat /\ (i.op # "StoreVec" => i.dst \in Nat)
  BY Fields
<1>2. PICK off \in From(i) \union (IF i.op = "StoreVec" THEN {} ELSE {i.dst}) :
        cell \in Cells("i16", off, i.len)
  BY ReadsFrom DEF Touches
<1>3. off \in Nat /\ cell[2] \in off .. off + i.len - 1
  BY <1>1, <1>2 DEF Cells, Span
<1>4. off + i.len <= PlanEnd(i) /\ PlanEnd(i) \in Nat
  BY <1>2, PlanEndIs
<1>5. QED
  BY <1>1, <1>3, <1>4

-----------------------------------------------------------------------------
(* One instruction more. *)
LEMMA OneMore ==
  ASSUME NEW p \in Seq(Lowered), NEW i \in Lowered, NEW q, q = Append(p, i)
  PROVE  /\ q \in Seq(Lowered) /\ Len(p) \in Nat /\ Len(q) = Len(p) + 1
         /\ DOMAIN p = 1 .. Len(p) /\ DOMAIN q = 1 .. Len(p) + 1
         /\ \A k \in 1 .. Len(p) : q[k] = p[k]
         /\ q[Len(p) + 1] = i
OBVIOUS

LEMMA WritesMore ==
  ASSUME NEW p \in Seq(Lowered), NEW i \in Lowered, NEW q, q = Append(p, i)
  PROVE  /\ WrittenBy(q, Len(q)) = WrittenBy(p, Len(p)) \union Writes(i)
         /\ StoredBy(q, Len(q)) = StoredBy(p, Len(p)) \union Stores(i)
         /\ DefinedBeforeUse(p) /\ Reads(i) \subseteq WrittenBy(p, Len(p)) => DefinedBeforeUse(q)
<1>1. /\ Len(p) \in Nat /\ Len(q) = Len(p) + 1
      /\ DOMAIN p = 1 .. Len(p) /\ DOMAIN q = 1 .. Len(p) + 1
      /\ \A k \in 1 .. Len(p) : q[k] = p[k]
      /\ q[Len(p) + 1] = i
  BY OneMore
<1>2. \A k \in 0 .. Len(p) : WrittenBy(q, k) = WrittenBy(p, k)
  <2>1. SUFFICES ASSUME NEW k \in 0 .. Len(p) PROVE WrittenBy(q, k) = WrittenBy(p, k)
    OBVIOUS
  <2>2. \A j \in 1 .. k : j \in 1 .. Len(p)
    BY <1>1
  <2>3. QED
    BY <1>1, <2>2 DEF WrittenBy
<1>3. 1 .. Len(q) = 1 .. Len(p) \union {Len(p) + 1}
  BY <1>1
<1>4. WrittenBy(q, Len(q)) = WrittenBy(p, Len(p)) \union Writes(i)
  BY <1>1, <1>3 DEF WrittenBy
<1>5. StoredBy(q, Len(q)) = StoredBy(p, Len(p)) \union Stores(i)
  BY <1>1, <1>3 DEF StoredBy
<1>6. ASSUME DefinedBeforeUse(p), Reads(i) \subseteq WrittenBy(p, Len(p)) PROVE DefinedBeforeUse(q)
  <2>1. SUFFICES ASSUME NEW k \in 1 .. Len(p) + 1
                 PROVE  Reads(q[k]) \subseteq WrittenBy(q, k - 1)
    BY <1>1 DEF DefinedBeforeUse
  <2>2. WrittenBy(q, k - 1) = WrittenBy(p, k - 1)
    <3>1. k - 1 \in 0 .. Len(p)
      BY <1>1
    <3>2. QED
      BY <1>2, <3>1
  <2>3. CASE k = Len(p) + 1
    <3>1. q[k] = i /\ k - 1 = Len(p)
      BY <1>1, <2>3
    <3>2. QED
      BY <1>6, <2>2, <3>1
  <2>4. CASE k # Len(p) + 1
    <3>1. k \in 1 .. Len(p)
      BY <1>1, <2>4
    <3>2. QED
      BY <1>1, <1>6, <2>2, <3>1 DEF DefinedBeforeUse
  <2>5. QED
    BY <2>3, <2>4
<1>7. QED
  BY <1>4, <1>5, <1>6

-----------------------------------------------------------------------------
(* The nodes that are lowered and have memory of their own. *)
Ready(n) == n \in 1 .. pos - 1 /\ Has(n)

(* Offsets are given out in order: what is ready ends before memory_offset. *)
OffsetsInv ==
  /\ fx \in FxGraphs /\ pos \in 0 .. Len(fx) + 1
  /\ memory_offset \in Nat /\ output_size \in Nat /\ emitted \in Seq(Lowered)
  /\ status = "lowered" => pos = Len(fx) + 1
  /\ pos = 0 => memory_offset = 0
  /\ pos <= Len(fx) => output_size = 0
  /\ DOMAIN node_to_offset \subseteq 1 .. Len(fx) - 1
  /\ status # "raised" => \A n \in 1 .. Len(fx) : n >= pos /\ Has(n) => IsInput(n)
  /\ \A n \in 1 .. Len(fx) : Ready(n) =>
       node_to_offset[n] \in Nat /\ node_to_offset[n] + fx[n].numel <= memory_offset

(* A step that gives the node memory and an instruction that fills it from *)
(* nodes that are ready. *)
Fills(i) ==
  /\ status = "lowering" /\ pos \in 1 .. Len(fx) - 1
  /\ AllocMem /\ Goes /\ Emits(i) /\ UNCHANGED <<fx, output_size, status>>
  /\ i \in Lowered /\ i.op # "StoreVec" /\ i.dst = memory_offset /\ i.len = node.numel
  /\ i.op = "LoadVarVec" => IsInput(pos) /\ i.var = memory_offset
  /\ \A off \in From(i) : \E n \in 1 .. Len(fx) :
       Ready(n) /\ off = node_to_offset[n] /\ (SameSizes => fx[n].numel = node.numel)

(* A step that passes over its node, and one that raises. *)
Passes ==
  /\ status = "lowering" /\ pos \in 1 .. Len(fx) - 1 /\ node.op = "call"
  /\ Skip /\ UNCHANGED fx

Raises ==
  /\ status = "lowering" /\ status' = "raised" /\ pos \in 1 .. Len(fx) - 1
  /\ AllocMem /\ UNCHANGED <<fx, pos, output_size, emitted>>

LEMMA InputFills ==
  ASSUME OffsetsInv, LowerInput
  PROVE  Fills([op |-> "LoadVarVec", var |-> memory_offset, dst |-> memory_offset, len |-> node.numel])
<1> DEFINE i == [op |-> "LoadVarVec", var |-> memory_offset, dst |-> memory_offset, len |-> node.numel]
<1>1. /\ status = "lowering" /\ fx \in FxGraphs /\ memory_offset \in Nat
      /\ pos \in DOMAIN fx /\ node.op \in {"placeholder", "get_attr"}
      /\ AllocMem /\ Goes /\ UNCHANGED <<fx, output_size, status>>
      /\ Emits([op |-> "LoadVarVec", var |-> node_to_offset'[pos], dst |-> memory_offset, len |-> node.numel])
  BY DEF OffsetsInv, LowerInput, AtNode, node
<1>2. pos \in 1 .. Len(fx) /\ node.numel \in Nat /\ pos # Len(fx) /\ Len(fx) \in Nat
  BY <1>1, Graph DEF node
<1>3. node_to_offset'[pos] = memory_offset
  BY <1>1 DEF AllocMem, Placed
<1>4. i \in Lowered /\ From(i) = {}
  <2>1. i \in OpCode
    BY <1>1, <1>2 DEF OpCode
  <2>2. QED
    BY <2>1 DEF Lowered, CountedOps, From, VecOneOps
<1>5. IsInput(pos)
  BY <1>1 DEF IsInput, node
<1>6. Emits(i)
  BY <1>1, <1>3
<1>7. QED
  BY <1>1, <1>2, <1>4, <1>5, <1>6 DEF Fills

LEMMA OperandReady ==
  ASSUME OffsetsInv, AtBinOp, NEW arg \in {node.lhs, node.rhs}, arg.kind = "node"
  PROVE  /\ arg.of \in 1 .. pos - 1 /\ arg.of \in 1 .. Len(fx) - 1
         /\ Has(arg.of) => Ready(arg.of) /\ node_to_offset[arg.of] \in Nat
         /\ SameSizes => fx[arg.of].numel = node.numel
<1>1. fx \in FxGraphs /\ pos \in 1 .. Len(fx) /\ node.op = "call" /\ Len(fx) \in Nat /\ pos \in DOMAIN fx
  BY Graph DEF OffsetsInv, AtBinOp, AtNode, node
<1>2. arg.of \in 1 .. pos - 1
  BY <1>1, CallNode DEF node
<1>3. arg.of \in 1 .. Len(fx) - 1 /\ arg.of \in 1 .. Len(fx)
  BY <1>1, <1>2
<1>4. SameSizes => fx[arg.of].numel = node.numel
  BY <1>1 DEF SameSizes, node
<1>5. QED
  BY <1>2, <1>3, <1>4 DEF Ready, OffsetsInv

LEMMA BinOpNode ==
  ASSUME OffsetsInv, AtBinOp
  PROVE  /\ status = "lowering" /\ UNCHANGED fx /\ pos \in 1 .. Len(fx) - 1
         /\ node.op = "call" /\ node.numel \in Nat /\ node.fn \in {"add", "mul"} /\ memory_offset \in Nat
         /\ node.lhs.kind \in {"node", "scalar"} /\ node.rhs.kind \in {"node", "scalar"}
         /\ node.lhs.kind = "node" \/ node.rhs.kind = "node"
<1>1. fx \in FxGraphs /\ pos \in 1 .. Len(fx) /\ node.op = "call" /\ memory_offset \in Nat
      /\ Len(fx) \in Nat /\ status = "lowering" /\ UNCHANGED fx /\ node.fn \in {"add", "mul"}
  BY Graph DEF OffsetsInv, AtBinOp, AtNode, node
<1>2. node.numel \in Nat /\ pos # Len(fx)
  BY <1>1, Graph DEF node
<1>3. QED
  BY <1>1, <1>2, CallNode, ArgumentKinds DEF node

LEMMA VecFills ==
  ASSUME OffsetsInv, LowerVec
  PROVE  \/ Passes
         \/ /\ Ready(node.lhs.of) /\ Ready(node.rhs.of)
            /\ Fills([op |-> IF node.fn = "add" THEN "AddVec" ELSE "MulVec",
                      lhs |-> node_to_offset[node.lhs.of], rhs |-> node_to_offset[node.rhs.of],
                      dst |-> memory_offset, len |-> node.numel])
<1> DEFINE i == [op |-> IF node.fn = "add" THEN "AddVec" ELSE "MulVec",
                 lhs |-> node_to_offset[node.lhs.of], rhs |-> node_to_offset[node.rhs.of],
                 dst |-> memory_offset, len |-> node.numel]
<1>1. /\ status = "lowering" /\ UNCHANGED fx /\ pos \in 1 .. Len(fx) - 1
      /\ node.op = "call" /\ node.numel \in Nat /\ memory_offset \in Nat
  BY BinOpNode DEF LowerVec
<1>2. AtBinOp /\ node.lhs.kind = "node" /\ node.rhs.kind = "node"
  BY DEF LowerVec, AllNodes
<1>3. ASSUME ~Has(node.lhs.of) \/ ~Has(node.rhs.of) PROVE Passes
  BY <1>1, <1>3 DEF LowerVec, Passes
<1>4. ASSUME Has(node.lhs.of), Has(node.rhs.of)
      PROVE  Ready(node.lhs.of) /\ Ready(node.rhs.of) /\ Fills(i)
  <2>1. AllocMem /\ Goes /\ Emits(i) /\ UNCHANGED <<output_size, status>>
    BY <1>4 DEF LowerVec
  <2>2. \A arg \in {node.lhs, node.rhs} :
          /\ arg.of \in 1 .. Len(fx) /\ Ready(arg.of) /\ node_to_offset[arg.of] \in Nat
          /\ SameSizes => fx[arg.of].numel = node.numel
    BY <1>1, <1>2, <1>4, OperandReady
  <2>3. i \in Lowered /\ From(i) = {node_to_offset[node.lhs.of], node_to_offset[node.rhs.of]}
    <3>1. i \in OpCode
      BY <1>1, <2>2 DEF OpCode, VecBinOps
    <3>2. i.op \in {"AddVec", "MulVec"} /\ i.lhs = node_to_offset[node.lhs.of] /\ i.rhs = node_to_offset[node.rhs.of]
      OBVIOUS
    <3> HIDE DEF i
    <3>3. QED
      BY <3>1, <3>2 DEF Lowered, CountedOps, From, VecOneOps
  <2>4. i.op \in {"AddVec", "MulVec"} /\ i.dst = memory_offset /\ i.len = node.numel
    OBVIOUS
  <2> HIDE DEF i
  <2>5. \A off \in From(i) : \E n \in 1 .. Len(fx) :
          Ready(n) /\ off = node_to_offset[n] /\ (SameSizes => fx[n].numel = node.numel)
    BY <2>2, <2>3
  <2>6. QED
    BY <1>1, <2>1, <2>2, <2>3, <2>4, <2>5 DEF Fills
<1>5. QED
  BY <1>3, <1>4

LEMMA ScalarFills ==
  ASSUME OffsetsInv, LowerScalar,
         NEW scalar, scalar = (IF node.lhs.kind = "scalar" THEN node.lhs ELSE node.rhs),
         NEW vec, vec = (IF node.lhs.kind = "scalar" THEN node.rhs ELSE node.lhs)
  PROVE  \/ Passes \/ Raises
         \/ /\ Ready(vec.of)
            /\ Fills([op |-> IF node.fn = "add" THEN "AddScalarVec" ELSE "MulScalarVec",
                      lhs |-> node_to_offset[vec.of], val |-> scalar.of,
                      dst |-> memory_offset, len |-> node.numel])
<1> DEFINE i == [op |-> IF node.fn = "add" THEN "AddScalarVec" ELSE "MulScalarVec",
                 lhs |-> node_to_offset[vec.of], val |-> scalar.of,
                 dst |-> memory_offset, len |-> node.numel]
<1>1. /\ status = "lowering" /\ UNCHANGED fx /\ pos \in 1 .. Len(fx) - 1
      /\ node.op = "call" /\ node.numel \in Nat /\ memory_offset \in Nat
      /\ node.lhs.kind \in {"node", "scalar"} /\ node.rhs.kind \in {"node", "scalar"}
      /\ node.lhs.kind = "node" \/ node.rhs.kind = "node"
  BY BinOpNode DEF LowerScalar
<1>2. AtBinOp /\ ~(node.lhs.kind = "node" /\ node.rhs.kind = "node")
  BY DEF LowerScalar, AllNodes
<1>3. vec \in {node.lhs, node.rhs} /\ vec.kind = "node"
  BY <1>1, <1>2
<1>4. IF ~Has(vec.of) THEN Skip
      ELSE /\ AllocMem /\ UNCHANGED output_size
           /\ IF scalar.of \notin I16
              THEN status' = "raised" /\ UNCHANGED <<pos, emitted>>
              ELSE Goes /\ UNCHANGED status /\ Emits(i)
  BY <1>3 DEF LowerScalar
<1>5. CASE ~Has(vec.of)
  BY <1>1, <1>4, <1>5 DEF Passes
<1>6. CASE Has(vec.of) /\ scalar.of \notin I16
  BY <1>1, <1>4, <1>6 DEF Raises
<1>7. CASE Has(vec.of) /\ scalar.of \in I16
  <2>1. AllocMem /\ Goes /\ Emits(i) /\ UNCHANGED <<output_size, status>>
    BY <1>4, <1>7
  <2>2. /\ vec.of \in 1 .. Len(fx) /\ Ready(vec.of) /\ node_to_offset[vec.of] \in Nat
        /\ SameSizes => fx[vec.of].numel = node.numel
    BY <1>1, <1>2, <1>3, <1>7, OperandReady
  <2>3. i.op \in VecOneOps /\ i.lhs = node_to_offset[vec.of] /\ i.dst = memory_offset /\ i.len = node.numel
    BY DEF VecOneOps
  <2>4. i \in OpCode
    BY <1>1, <1>7, <2>2 DEF OpCode, VecOneOps
  <2> HIDE DEF i
  <2>5. i \in Lowered /\ From(i) = {node_to_offset[vec.of]} /\ i.op \notin {"StoreVec", "LoadVarVec"}
    BY <2>3, <2>4 DEF Lowered, CountedOps, From, VecOneOps
  <2>6. Fills(i)
    BY <1>1, <2>1, <2>2, <2>3, <2>5 DEF Fills
  <2>7. QED
    BY <2>2, <2>6 DEF i
<1>8. QED
  BY <1>5, <1>6, <1>7

LEMMA SkipPasses ==
  ASSUME OffsetsInv, SkipUnknown
  PROVE  Passes
<1>1. fx \in FxGraphs /\ pos \in 1 .. Len(fx) /\ fx[pos].op = "call" /\ Len(fx) \in Nat
      /\ status = "lowering" /\ UNCHANGED fx /\ Skip
  BY Graph DEF OffsetsInv, SkipUnknown, AtNode
<1>2. pos # Len(fx)
  BY <1>1, Graph
<1>3. QED
  BY <1>1, <1>2 DEF Passes, node

LEMMA Kinds ==
  ASSUME OffsetsInv, [Next]_vars
  PROVE  \/ FirstPass \/ Passes \/ Raises \/ LowerOutput \/ Finish \/ UNCHANGED vars
         \/ \E i : Fills(i)
<1>1. LowerInput => \E i : Fills(i)
  BY InputFills
<1>2. LowerVec => Passes \/ \E i : Fills(i)
  BY VecFills
<1>3. LowerScalar => Passes \/ Raises \/ \E i : Fills(i)
  BY ScalarFills
<1>4. QED
  BY <1>1, <1>2, <1>3, SkipPasses DEF Next

(* What the output is about. *)
LEMMA OutputNode ==
  ASSUME OffsetsInv, LowerOutput
  PROVE  /\ pos = Len(fx) /\ pos \in Nat /\ node.of \in 1 .. pos - 1 /\ node.of \in 1 .. Len(fx)
         /\ fx[node.of].numel \in Nat
         /\ Has(node.of) => Ready(node.of) /\ node_to_offset[node.of] \in Nat
         /\ status = "lowering" /\ status' = status /\ pos' = pos + 1
         /\ UNCHANGED <<fx, node_to_offset, memory_offset>>
<1>1. /\ fx \in FxGraphs /\ pos \in 1 .. Len(fx) /\ node.op = "output" /\ Len(fx) \in Nat
      /\ status = "lowering" /\ status' = status /\ pos' = pos + 1
      /\ UNCHANGED <<fx, node_to_offset, memory_offset>>
  BY Graph DEF OffsetsInv, LowerOutput, AtNode, Goes, node
<1>2. pos = Len(fx) /\ node.of \in 1 .. pos - 1 /\ node.of \in 1 .. Len(fx) /\ node.of # Len(fx)
  <2>1. pos = Len(fx) /\ node.of \in 1 .. pos - 1
    BY <1>1, Graph DEF node
  <2>2. QED
    BY <1>1, <2>1
<1>3. fx[node.of].numel \in Nat
  BY <1>1, <1>2, Graph
<1>4. QED
  BY <1>1, <1>2, <1>3 DEF Ready, OffsetsInv

LEMMA StoreOf ==
  ASSUME NEW src \in Nat, NEW len \in Nat,
         NEW i, i = [op |-> "StoreVec", src |-> src, out |-> 0, len |-> len]
  PROVE  i \in Lowered /\ From(i) = {src} /\ Stores(i) = 0 .. len - 1
<1>1. i \in OpCode
  BY DEF OpCode
<1>2. i \in Lowered
  BY <1>1 DEF Lowered, CountedOps
<1>3. From(i) = {src}
  BY DEF From, VecOneOps
<1>4. Stores(i) = 0 .. len - 1
  BY DEF Stores, Span
<1>5. QED
  BY <1>2, <1>3, <1>4

-----------------------------------------------------------------------------
LEMMA InitOffsets == Init => OffsetsInv
<1>1. SUFFICES ASSUME Init PROVE OffsetsInv
  OBVIOUS
<1>2. Len(fx) \in Nat /\ fx \in FxGraphs
  BY <1>1, Graph DEF Init
<1>3. DOMAIN <<>> = {} /\ <<>> \in Seq(Lowered)
  OBVIOUS
<1>4. QED
  BY <1>1, <1>2, <1>3 DEF Init, OffsetsInv, Ready, Has

LEMMA FillsKeepsOffsets ==
  ASSUME OffsetsInv, NEW i, Fills(i)
  PROVE  /\ OffsetsInv' /\ DOMAIN node_to_offset' = DOMAIN node_to_offset \union {pos}
         /\ node_to_offset'[pos] = memory_offset /\ memory_offset' = memory_offset + node.numel
         /\ node.numel \in Nat /\ pos' = pos + 1 /\ pos \in Nat
         /\ \A n \in 1 .. Len(fx) : Ready(n) => Ready(n)' /\ node_to_offset'[n] = node_to_offset[n]
         /\ \A n \in 1 .. Len(fx) : Ready(n)' => Ready(n) \/ n = pos
<1>1. /\ fx \in FxGraphs /\ Len(fx) \in Nat /\ pos \in 1 .. Len(fx) - 1 /\ status = "lowering"
      /\ UNCHANGED <<fx, output_size, status>> /\ memory_offset \in Nat /\ output_size \in Nat
      /\ i \in Lowered /\ emitted \in Seq(Lowered) /\ emitted' = Append(emitted, i)
      /\ pos' = pos + 1 /\ memory_offset' = memory_offset + node.numel
      /\ pos <= Len(fx) => output_size = 0
      /\ DOMAIN node_to_offset \subseteq 1 .. Len(fx) - 1
  BY Graph DEF OffsetsInv, Fills, Goes, Emits, AllocMem
<1>2. node.numel \in Nat
  BY <1>1, Graph DEF node
<1>3. node_to_offset' = [n \in DOMAIN node_to_offset \union {pos} |->
                           IF n = pos THEN memory_offset ELSE node_to_offset[n]]
  BY DEF Fills, AllocMem, Placed
<1>4. /\ DOMAIN node_to_offset' = DOMAIN node_to_offset \union {pos}
      /\ node_to_offset'[pos] = memory_offset
      /\ \A n \in DOMAIN node_to_offset : n # pos => node_to_offset'[n] = node_to_offset[n]
  BY <1>3
<1>5. \A n \in 1 .. Len(fx) : Ready(n) => Ready(n)' /\ node_to_offset'[n] = node_to_offset[n]
  BY <1>1, <1>4 DEF Ready, Has
<1>6. \A n \in 1 .. Len(fx) : Ready(n)' => Ready(n) \/ n = pos
  BY <1>1, <1>4 DEF Ready, Has
<1>7. \A n \in 1 .. Len(fx) : Ready(n) =>
        node_to_offset[n] \in Nat /\ fx[n].numel \in Nat
          /\ node_to_offset[n] + fx[n].numel <= memory_offset
  <2>1. SUFFICES ASSUME NEW n \in 1 .. Len(fx), Ready(n) PROVE fx[n].numel \in Nat
    BY DEF OffsetsInv
  <2>2. n # Len(fx)
    BY <1>1, <2>1 DEF Ready
  <2>3. QED
    BY <1>1, <2>2, Graph
<1>8. \A n \in 1 .. Len(fx) : Ready(n)' =>
        node_to_offset'[n] \in Nat /\ node_to_offset'[n] + fx'[n].numel <= memory_offset'
  <2>1. SUFFICES ASSUME NEW n \in 1 .. Len(fx), Ready(n)'
                 PROVE  node_to_offset'[n] \in Nat /\ node_to_offset'[n] + fx[n].numel <= memory_offset'
    BY <1>1
  <2>2. CASE n = pos
    BY <1>1, <1>2, <1>4, <2>2 DEF node
  <2>3. CASE n # pos
    <3>1. Ready(n) /\ node_to_offset'[n] = node_to_offset[n]
      BY <1>5, <1>6, <2>1, <2>3
    <3>2. QED
      BY <1>1, <1>2, <1>7, <3>1
  <2>4. QED
    BY <2>2, <2>3
<1>9. emitted' \in Seq(Lowered)
  BY <1>1, OneMore
<1>10. \A n \in 1 .. Len(fx) : n >= pos' /\ Has(n)' => IsInput(n)'
  BY <1>1, <1>4 DEF OffsetsInv, Has, IsInput
<1>11. OffsetsInv'
  BY <1>1, <1>2, <1>4, <1>8, <1>9, <1>10 DEF OffsetsInv
<1>12. QED
  BY <1>1, <1>2, <1>4, <1>5, <1>6, <1>11

LEMMA PassesKeepsOffsets ==
  ASSUME OffsetsInv, Passes
  PROVE  /\ OffsetsInv' /\ \A n \in 1 .. Len(fx) : Ready(n)' = Ready(n)
         /\ UNCHANGED <<fx, node_to_offset, memory_offset, output_size, emitted, status>>
         /\ pos' = pos + 1 /\ pos \in 1 .. Len(fx) - 1
<1>1. /\ UNCHANGED <<fx, node_to_offset, memory_offset, output_size, emitted, status>>
      /\ pos' = pos + 1 /\ pos \in 1 .. Len(fx) - 1 /\ status = "lowering"
      /\ fx \in FxGraphs /\ Len(fx) \in Nat /\ fx[pos].op = "call"
  BY Graph DEF Passes, Skip, Goes, node, OffsetsInv
<1>2. ~Has(pos)
  BY <1>1 DEF OffsetsInv, IsInput
<1>3. \A n \in 1 .. Len(fx) : Ready(n)' = Ready(n)
  <2>1. \A n \in 1 .. Len(fx) : Has(n)' = Has(n)
    BY <1>1 DEF Has
  <2>2. \A n \in 1 .. Len(fx) : n \in 1 .. pos' - 1 <=> n \in 1 .. pos - 1 \/ n = pos
    BY <1>1
  <2>3. QED
    BY <1>2, <2>1, <2>2 DEF Ready
<1>4. \A n \in 1 .. Len(fx) : n >= pos' /\ Has(n)' => IsInput(n)'
  BY <1>1 DEF OffsetsInv, Has, IsInput
<1>5. \A n \in 1 .. Len(fx) : Ready(n)' =>
        node_to_offset'[n] \in Nat /\ node_to_offset'[n] + fx'[n].numel <= memory_offset'
  BY <1>1, <1>3 DEF OffsetsInv
<1>6. QED
  BY <1>1, <1>3, <1>4, <1>5 DEF OffsetsInv

LEMMA RaisesKeepsOffsets ==
  ASSUME OffsetsInv, Raises
  PROVE  /\ OffsetsInv'
         /\ \A n \in 1 .. Len(fx) : Ready(n)' = Ready(n)
         /\ \A n \in 1 .. Len(fx) : Ready(n) => node_to_offset'[n] = node_to_offset[n]
         /\ UNCHANGED <<fx, pos, output_size, emitted>> /\ status' = "raised"
<1>1. /\ UNCHANGED <<fx, pos, output_size, emitted>> /\ status' = "raised" /\ status = "lowering"
      /\ pos \in 1 .. Len(fx) - 1 /\ fx \in FxGraphs /\ Len(fx) \in Nat
      /\ memory_offset' = memory_offset + node.numel /\ memory_offset \in Nat
  BY Graph DEF Raises, AllocMem, OffsetsInv
<1>2. node.numel \in Nat
  BY <1>1, Graph DEF node
<1>3. node_to_offset' = [n \in DOMAIN node_to_offset \union {pos} |->
                           IF n = pos THEN memory_offset ELSE node_to_offset[n]]
  BY DEF Raises, AllocMem, Placed
<1>4. /\ DOMAIN node_to_offset' = DOMAIN node_to_offset \union {pos}
      /\ \A n \in DOMAIN node_to_offset : n # pos => node_to_offset'[n] = node_to_offset[n]
  BY <1>3
<1>5. \A n \in 1 .. Len(fx) : n \in 1 .. pos - 1 => n # pos
  BY <1>1
<1>6. \A n \in 1 .. Len(fx) : Ready(n)' = Ready(n)
  BY <1>1, <1>4, <1>5 DEF Ready, Has
<1>7. \A n \in 1 .. Len(fx) : Ready(n) => node_to_offset'[n] = node_to_offset[n]
  BY <1>4, <1>5 DEF Ready, Has
<1>8. \A n \in 1 .. Len(fx) : Ready(n) =>
        node_to_offset[n] \in Nat /\ fx[n].numel \in Nat
          /\ node_to_offset[n] + fx[n].numel <= memory_offset
  <2>1. SUFFICES ASSUME NEW n \in 1 .. Len(fx), Ready(n) PROVE fx[n].numel \in Nat
    BY DEF OffsetsInv
  <2>2. n # Len(fx)
    BY <1>1, <2>1 DEF Ready
  <2>3. QED
    BY <1>1, <2>2, Graph
<1>9. \A n \in 1 .. Len(fx) : Ready(n)' =>
        node_to_offset'[n] \in Nat /\ node_to_offset'[n] + fx'[n].numel <= memory_offset'
  BY <1>1, <1>2, <1>6, <1>7, <1>8
<1>10. QED
  BY <1>1, <1>2, <1>4, <1>6, <1>7, <1>9 DEF OffsetsInv

LEMMA OutputKeepsOffsets ==
  ASSUME OffsetsInv, LowerOutput
  PROVE  /\ OffsetsInv' /\ \A n \in 1 .. Len(fx) : Ready(n)' = Ready(n)
         /\ ~Has(node.of) => UNCHANGED <<emitted, output_size>>
         /\ Has(node.of) =>
              \E i \in Lowered :
                /\ i = [op |-> "StoreVec", src |-> node_to_offset[node.of], out |-> 0,
                        len |-> fx[node.of].numel]
                /\ From(i) = {node_to_offset[node.of]} /\ Stores(i) = 0 .. fx[node.of].numel - 1
                /\ emitted' = Append(emitted, i) /\ output_size' = fx[node.of].numel
<1>1. /\ pos = Len(fx) /\ pos \in Nat /\ pos' = pos + 1 /\ status = "lowering" /\ status' = status
      /\ UNCHANGED <<fx, node_to_offset, memory_offset>> /\ fx[node.of].numel \in Nat
      /\ Has(node.of) => node_to_offset[node.of] \in Nat
  BY OutputNode
<1>2. /\ fx \in FxGraphs /\ DOMAIN node_to_offset \subseteq 1 .. Len(fx) - 1 /\ memory_offset \in Nat
      /\ emitted \in Seq(Lowered) /\ output_size \in Nat
  BY DEF OffsetsInv
<1>3. ~Has(pos)
  BY <1>1, <1>2 DEF Has
<1>4. \A n \in 1 .. Len(fx) : Ready(n)' = Ready(n)
  <2>1. \A n \in 1 .. Len(fx) : Has(n)' = Has(n)
    BY <1>1 DEF Has
  <2>2. \A n \in 1 .. Len(fx) : n \in 1 .. pos' - 1 <=> n \in 1 .. pos - 1 \/ n = pos
    BY <1>1
  <2>3. QED
    BY <1>3, <2>1, <2>2 DEF Ready
<1>5. ~Has(node.of) => UNCHANGED <<emitted, output_size>>
  BY DEF LowerOutput
<1>6. ASSUME Has(node.of)
      PROVE  \E i \in Lowered :
                /\ i = [op |-> "StoreVec", src |-> node_to_offset[node.of], out |-> 0,
                        len |-> fx[node.of].numel]
                /\ From(i) = {node_to_offset[node.of]} /\ Stores(i) = 0 .. fx[node.of].numel - 1
                /\ emitted' = Append(emitted, i) /\ output_size' = fx[node.of].numel
  <2> DEFINE i == [op |-> "StoreVec", src |-> node_to_offset[node.of], out |-> 0,
                   len |-> fx[node.of].numel]
  <2>1. i \in Lowered /\ From(i) = {node_to_offset[node.of]} /\ Stores(i) = 0 .. fx[node.of].numel - 1
    BY <1>1, <1>6, StoreOf
  <2>2. emitted' = Append(emitted, i) /\ output_size' = fx[node.of].numel
    BY <1>6 DEF LowerOutput, Emits
  <2>3. QED
    BY <2>1, <2>2
<1>7. emitted' \in Seq(Lowered) /\ output_size' \in Nat
  BY <1>1, <1>2, <1>5, <1>6, OneMore
<1>8. \A n \in 1 .. Len(fx) : n >= pos' /\ Has(n)' => IsInput(n)'
  BY <1>1
<1>9. \A n \in 1 .. Len(fx) : Ready(n)' =>
        node_to_offset'[n] \in Nat /\ node_to_offset'[n] + fx'[n].numel <= memory_offset'
  BY <1>1, <1>4 DEF OffsetsInv
<1>10. OffsetsInv'
  BY <1>1, <1>2, <1>7, <1>8, <1>9 DEF OffsetsInv
<1>11. QED
  BY <1>4, <1>5, <1>6, <1>10

LEMMA FirstKeepsOffsets ==
  ASSUME OffsetsInv, FirstPass
  PROVE  /\ OffsetsInv' /\ \A n \in 1 .. Len(fx) : ~Ready(n) /\ ~Ready(n)'
         /\ pos' = 1 /\ memory_offset' = 0
         /\ UNCHANGED <<fx, memory_offset, output_size, emitted, status>>
<1>1. /\ pos = 0 /\ pos' = 1 /\ UNCHANGED <<fx, memory_offset, output_size, emitted, status>>
      /\ memory_offset = 0 /\ output_size = 0 /\ status = "lowering"
      /\ fx \in FxGraphs /\ Len(fx) \in Nat \ {0} /\ DOMAIN fx = 1 .. Len(fx)
      /\ DOMAIN node_to_offset' = {m \in DOMAIN fx : IsInput(m)}
  BY Graph DEF OffsetsInv, FirstPass
<1>2. \A n \in 1 .. Len(fx) : ~Ready(n) /\ ~Ready(n)'
  BY <1>1 DEF Ready
<1>3. \A n \in 1 .. Len(fx) : Has(n)' => IsInput(n)'
  BY <1>1 DEF Has, IsInput
<1>4. DOMAIN node_to_offset' \subseteq 1 .. Len(fx) - 1
  <2>1. ASSUME NEW m \in 1 .. Len(fx), IsInput(m) PROVE m \in 1 .. Len(fx) - 1
    <3>1. m # Len(fx) /\ Len(fx) \in Nat
      BY <1>1, <2>1, Graph DEF IsInput
    <3>2. QED
      BY <3>1
  <2>2. QED
    BY <1>1, <2>1
<1>5. QED
  BY <1>1, <1>2, <1>3, <1>4 DEF OffsetsInv

LEMMA RestKeepsOffsets ==
  ASSUME OffsetsInv, Finish \/ UNCHANGED vars
  PROVE  /\ OffsetsInv' /\ \A n \in 1 .. Len(fx) : Ready(n)' = Ready(n)
         /\ UNCHANGED <<fx, pos, node_to_offset, memory_offset, output_size, emitted>>
         /\ \/ status' = status
            \/ status = "lowering" /\ status' = "lowered" /\ pos = Len(fx) + 1
<1>1. /\ UNCHANGED <<fx, pos, node_to_offset, memory_offset, output_size, emitted>>
      /\ \/ status' = status
         \/ status = "lowering" /\ status' = "lowered" /\ pos > Len(fx)
  BY DEF Finish, vars
<1>2. fx \in FxGraphs /\ Len(fx) \in Nat /\ pos \in 0 .. Len(fx) + 1
  BY Graph DEF OffsetsInv
<1>3. \/ status' = status
      \/ status = "lowering" /\ status' = "lowered" /\ pos = Len(fx) + 1
  <2>1. CASE status' = status
    BY <2>1
  <2>2. CASE status = "lowering" /\ status' = "lowered" /\ pos > Len(fx)
    BY <1>2, <2>2
  <2>3. QED
    BY <1>1, <2>1, <2>2
<1>4. \A n \in 1 .. Len(fx) : Ready(n)' = Ready(n) /\ Has(n)' = Has(n) /\ IsInput(n)' = IsInput(n)
  BY <1>1 DEF Ready, Has, IsInput
<1>5. QED
  BY <1>1, <1>3, <1>4 DEF OffsetsInv

LEMMA NextOffsets == OffsetsInv /\ [Next]_vars => OffsetsInv'
<1>1. SUFFICES ASSUME OffsetsInv, [Next]_vars PROVE OffsetsInv'
  OBVIOUS
<1>2. QED
  BY <1>1, Kinds, FillsKeepsOffsets, PassesKeepsOffsets, RaisesKeepsOffsets, OutputKeepsOffsets,
     FirstKeepsOffsets, RestKeepsOffsets

LEMMA OffsetsInvariant == Spec => []OffsetsInv
<1>1. QED
  BY InitOffsets, NextOffsets, PTL DEF Spec

-----------------------------------------------------------------------------
(* While only inputs are lowered, in order, memory has the layout of the   *)
(* inputs of the engine. *)
Together(n) == Elements("placeholder")[n] + Elements("get_attr")[n]

OrderInv ==
  InputsInOrder /\ status # "raised" /\ pos \in 1 .. Len(fx) /\ (\A n \in 1 .. pos - 1 : IsInput(n))
    => memory_offset = Together(pos - 1)

(* The graph does not change. *)
LEMMA SameGraph ==
  ASSUME UNCHANGED fx
  PROVE  /\ InputsInOrder' = InputsInOrder /\ SameSizes' = SameSizes
         /\ (InputLen)' = InputLen
         /\ \A n : IsInput(n)' = IsInput(n) /\ Together(n)' = Together(n)
BY DEF InputsInOrder, SameSizes, InputLen, param_start_offset, Elements, IsInput, Together

LEMMA TogetherIs ==
  ASSUME fx \in FxGraphs
  PROVE  /\ Together(0) = 0
         /\ \A n \in 1 .. Len(fx) : IsInput(n) => Together(n) = Together(n - 1) + fx[n].numel
<1>1. Len(fx) \in Nat
  BY Graph
<1>2. Together(0) = 0
  BY ElementsAre DEF Together
<1>3. ASSUME NEW n \in 1 .. Len(fx), IsInput(n)
      PROVE  Together(n) = Together(n - 1) + fx[n].numel
  <2> DEFINE P == Elements("placeholder")
             G == Elements("get_attr")
  <2>1. /\ P[n] = P[n - 1] + (IF fx[n].op = "placeholder" THEN fx[n].numel ELSE 0)
        /\ G[n] = G[n - 1] + (IF fx[n].op = "get_attr" THEN fx[n].numel ELSE 0)
    BY ElementsAre
  <2>2. P[n - 1] \in Nat /\ G[n - 1] \in Nat
    <3>1. n - 1 \in 0 .. Len(fx)
      BY <1>1
    <3>2. QED
      BY <3>1, ElementsAre
  <2>3. fx[n].numel \in Nat /\ fx[n].op \in {"placeholder", "get_attr"}
    <3>1. fx[n].op \in {"placeholder", "get_attr"}
      BY <1>3 DEF IsInput
    <3>2. QED
      BY <3>1, Graph
  <2> HIDE DEF P, G
  <2>4. P[n] + G[n] = P[n - 1] + G[n - 1] + fx[n].numel
    BY <2>1, <2>2, <2>3
  <2>5. QED
    BY <2>4 DEF Together, P, G
<1>4. QED
  BY <1>2, <1>3

(* The inputs of a graph in which they come in order begin it. *)
LEMMA InputsBegin ==
  ASSUME fx \in FxGraphs, InputsInOrder, NEW n \in 1 .. Len(fx), IsInput(n)
  PROVE  \A m \in 1 .. n - 1 : IsInput(m)
<1>1. SUFFICES ASSUME NEW m \in 1 .. n - 1 PROVE IsInput(m)
  OBVIOUS
<1>2. m \in DOMAIN fx /\ n \in DOMAIN fx /\ m < n
  <2>1. Len(fx) \in Nat /\ DOMAIN fx = 1 .. Len(fx)
    BY Graph
  <2>2. QED
    BY <1>1, <2>1
<1>3. fx[m].op \in {"placeholder", fx[n].op}
  BY <1>2 DEF InputsInOrder
<1>4. QED
  BY <1>3 DEF IsInput

(* So the load of an input finds the input it is for. *)
LEMMA LoadsItsInput ==
  ASSUME OffsetsInv, OrderInv, InputsInOrder, status = "lowering", pos \in 1 .. Len(fx), IsInput(pos)
  PROVE  /\ memory_offset = InputOffset(pos)
         /\ memory_offset + fx[pos].numel <= InputLen /\ InputLen \in Nat
<1>1. fx \in FxGraphs
  BY DEF OffsetsInv
<1>2. memory_offset = Together(pos - 1)
  BY <1>1, InputsBegin DEF OrderInv
<1>3. /\ InputOffset(pos) = Together(pos - 1) /\ InputLen \in Nat
      /\ InputOffset(pos) + fx[pos].numel <= InputLen
  BY <1>1, InputPlaces DEF Together
<1>4. QED
  BY <1>2, <1>3

LEMMA NextOrder == OffsetsInv /\ OrderInv /\ [Next]_vars => OrderInv'
<1>1. SUFFICES ASSUME OffsetsInv, OrderInv, [Next]_vars PROVE OrderInv'
  OBVIOUS
<1>2. fx \in FxGraphs /\ Len(fx) \in Nat
  BY <1>1, Graph DEF OffsetsInv
<1>3. ASSUME UNCHANGED <<fx, pos, memory_offset>>, status # "raised" PROVE OrderInv'
  BY <1>1, <1>3, SameGraph DEF OrderInv
<1>4. ASSUME NEW i, Fills(i) PROVE OrderInv'
  <2>1. /\ UNCHANGED fx /\ status = "lowering" /\ pos \in 1 .. Len(fx) - 1
        /\ pos' = pos + 1 /\ memory_offset' = memory_offset + fx[pos].numel
    BY <1>4 DEF Fills, Goes, AllocMem, node
  <2>2. SUFFICES ASSUME InputsInOrder, \A n \in 1 .. pos' - 1 : IsInput(n)
                 PROVE  memory_offset' = Together(pos' - 1)
    BY <2>1, SameGraph DEF OrderInv
  <2>3. pos' - 1 = pos /\ pos \in 1 .. Len(fx) /\ \A n \in 1 .. pos - 1 : n \in 1 .. pos' - 1
    BY <1>2, <2>1
  <2>4. IsInput(pos) /\ memory_offset = Together(pos - 1)
    BY <1>1, <2>1, <2>2, <2>3 DEF OrderInv
  <2>5. QED
    BY <1>2, <2>1, <2>3, <2>4, TogetherIs
<1>5. ASSUME Passes PROVE OrderInv'
  <2>1. UNCHANGED fx /\ pos \in 1 .. Len(fx) - 1 /\ pos' = pos + 1 /\ fx[pos].op = "call"
    BY <1>5 DEF Passes, Skip, Goes, node
  <2>2. pos \in 1 .. pos' - 1 /\ ~IsInput(pos)
    BY <1>2, <2>1 DEF IsInput
  <2>3. QED
    BY <2>1, <2>2, SameGraph DEF OrderInv
<1>6. ASSUME LowerOutput PROVE OrderInv'
  <2>1. pos = Len(fx) /\ pos' = pos + 1 /\ fx' = fx
    BY <1>1, <1>6, OutputNode
  <2>2. pos' \notin 1 .. Len(fx)
    BY <1>2, <2>1
  <2>3. QED
    BY <2>1, <2>2 DEF OrderInv
<1>7. ASSUME FirstPass PROVE OrderInv'
  <2>1. pos' = 1 /\ memory_offset' = 0 /\ UNCHANGED fx
    BY <1>1, <1>7, FirstKeepsOffsets
  <2>2. Together(pos' - 1) = 0
    BY <1>2, <2>1, TogetherIs
  <2>3. QED
    BY <2>1, <2>2, SameGraph DEF OrderInv
<1>8. CASE status = "raised"
  <2>1. status' = "raised"
    BY <1>1, <1>8 DEF Next, vars, FirstPass, LowerInput, SkipUnknown, LowerVec, LowerScalar,
                      LowerOutput, Finish, AtBinOp, AtNode
  <2>2. QED
    BY <2>1 DEF OrderInv
<1>9. CASE status # "raised"
  <2>1. Raises => OrderInv'
    BY DEF Raises, OrderInv
  <2>2. Finish \/ UNCHANGED vars => OrderInv'
    BY <1>1, <1>3, <1>9, RestKeepsOffsets
  <2>3. QED
    BY <1>1, <1>4, <1>5, <1>6, <1>7, <2>1, <2>2, Kinds
<1>10. QED
  BY <1>8, <1>9

-----------------------------------------------------------------------------
(* What the program needs to run the same everywhere, as far as it is      *)
(* made: what a node is behind is written when the node is ready.          *)
FitInv ==
  SameSizes =>
    /\ DefinedBeforeUse(emitted)
    /\ \A k \in DOMAIN emitted :
         /\ Tidy(emitted[k])
         /\ InputsInOrder /\ emitted[k].op = "LoadVarVec"
              => emitted[k].var + emitted[k].len <= InputLen
    /\ \A n \in 1 .. Len(fx) : Ready(n) =>
         Cells("i16", node_to_offset[n], fx[n].numel) \subseteq WrittenBy(emitted, Len(emitted))
    /\ StoredBy(emitted, Len(emitted)) = 0 .. output_size - 1

LEMMA InitFit == Init => FitInv
<1>1. SUFFICES ASSUME Init PROVE FitInv
  OBVIOUS
<1>2. emitted = <<>> /\ Len(emitted) = 0 /\ DOMAIN emitted = {} /\ output_size = 0 /\ pos = 0
  BY <1>1 DEF Init
<1>3. DefinedBeforeUse(emitted)
  BY <1>2 DEF DefinedBeforeUse
<1>4. StoredBy(emitted, Len(emitted)) = 0 .. output_size - 1
  <2>1. StoredBy(emitted, 0) = {}
    BY DEF StoredBy
  <2>2. QED
    BY <1>2, <2>1
<1>5. \A n \in 1 .. Len(fx) : ~Ready(n)
  BY <1>2 DEF Ready
<1>6. QED
  BY <1>2, <1>3, <1>4, <1>5 DEF FitInv

(* An instruction that fills a node is tidy: what it reads ends before the *)
(* memory of the node. *)
LEMMA FillsTidily ==
  ASSUME OffsetsInv, NEW i, Fills(i), SameSizes
  PROVE  Tidy(i)
<1>1. /\ i \in Lowered /\ i.op # "StoreVec" /\ i.dst = memory_offset /\ i.len = fx[pos].numel
      /\ i.len \in Nat /\ From(i) \subseteq Nat
  BY Fields DEF Fills, node
<1>2. ASSUME NEW off \in From(i) PROVE Aligned(off, i.dst, i.len)
  <2>1. PICK n \in 1 .. Len(fx) : Ready(n) /\ off = node_to_offset[n] /\ fx[n].numel = i.len
    BY <1>1 DEF Fills, node
  <2>2. off + i.len <= i.dst
    BY <1>1, <2>1 DEF OffsetsInv
  <2>3. QED
    BY <2>2 DEF Aligned, Disjoint
<1>3. CASE i.op \in {"AddVec", "MulVec"}
  <2>1. From(i) = {i.lhs, i.rhs}
    BY <1>3 DEF From, VecOneOps
  <2>2. QED
    BY <1>2, <1>3, <2>1 DEF Tidy, VecBinOps, VecI8Ops, VecOneOps, StepOps
<1>4. CASE i.op \in VecOneOps
  <2>1. From(i) = {i.lhs}
    BY <1>4 DEF From, VecOneOps
  <2>2. QED
    BY <1>2, <1>4, <2>1 DEF Tidy, VecBinOps, VecI8Ops, VecOneOps, StepOps
<1>5. CASE i.op = "LoadVarVec"
  BY <1>5 DEF Tidy, VecBinOps, VecI8Ops, VecOneOps, StepOps
<1>6. QED
  BY <1>1, <1>3, <1>4, <1>5 DEF Lowered, CountedOps

LEMMA FillsKeepsFit ==
  ASSUME OffsetsInv, OrderInv, FitInv, NEW i, Fills(i)
  PROVE  FitInv'
<1>1. /\ i \in Lowered /\ i.op # "StoreVec" /\ i.dst = memory_offset /\ i.len = fx[pos].numel
      /\ emitted \in Seq(Lowered) /\ emitted' = Append(emitted, i)
      /\ UNCHANGED <<fx, output_size, status>> /\ status = "lowering"
      /\ pos \in 1 .. Len(fx) - 1 /\ fx \in FxGraphs /\ Len(fx) \in Nat
  BY Graph DEF Fills, OffsetsInv, Emits, node
<1>2. SUFFICES ASSUME SameSizes
               PROVE  /\ DefinedBeforeUse(emitted')
                      /\ \A k \in DOMAIN emitted' :
                           /\ Tidy(emitted'[k])
                           /\ InputsInOrder /\ emitted'[k].op = "LoadVarVec"
                                => emitted'[k].var + emitted'[k].len <= InputLen
                      /\ \A n \in 1 .. Len(fx) : Ready(n)' =>
                           Cells("i16", node_to_offset'[n], fx[n].numel)
                             \subseteq WrittenBy(emitted', Len(emitted'))
                      /\ StoredBy(emitted', Len(emitted')) = 0 .. output_size - 1
  <2>1. InputsInOrder' = InputsInOrder /\ SameSizes' = SameSizes /\ (InputLen)' = InputLen
    BY <1>1, SameGraph
  <2>2. QED
    BY <1>1, <2>1 DEF FitInv, DefinedBeforeUse, StoredBy, WrittenBy
<1>3. /\ DefinedBeforeUse(emitted)
      /\ \A k \in DOMAIN emitted :
           /\ Tidy(emitted[k])
           /\ InputsInOrder /\ emitted[k].op = "LoadVarVec"
                => emitted[k].var + emitted[k].len <= InputLen
      /\ \A n \in 1 .. Len(fx) : Ready(n) =>
           Cells("i16", node_to_offset[n], fx[n].numel) \subseteq WrittenBy(emitted, Len(emitted))
      /\ StoredBy(emitted, Len(emitted)) = 0 .. output_size - 1
  BY <1>2 DEF FitInv
<1>4. /\ Reads(i) = UNION {Cells("i16", off, i.len) : off \in From(i)}
      /\ Writes(i) = Cells("i16", i.dst, i.len) /\ Stores(i) = {}
  BY <1>1, ReadsFrom
<1>5. Reads(i) \subseteq WrittenBy(emitted, Len(emitted))
  <2>1. SUFFICES ASSUME NEW off \in From(i)
                 PROVE  Cells("i16", off, i.len) \subseteq WrittenBy(emitted, Len(emitted))
    BY <1>4
  <2>2. PICK n \in 1 .. Len(fx) : Ready(n) /\ off = node_to_offset[n] /\ fx[n].numel = i.len
    BY <1>1, <1>2, <2>1 DEF Fills, node
  <2>3. QED
    BY <1>3, <2>2
<1>6. /\ WrittenBy(emitted', Len(emitted')) = WrittenBy(emitted, Len(emitted)) \union Writes(i)
      /\ StoredBy(emitted', Len(emitted')) = StoredBy(emitted, Len(emitted)) \union Stores(i)
      /\ DefinedBeforeUse(emitted')
  BY <1>1, <1>3, <1>5, WritesMore
<1>7. ASSUME NEW k \in DOMAIN emitted'
      PROVE  /\ Tidy(emitted'[k])
             /\ InputsInOrder /\ emitted'[k].op = "LoadVarVec"
                  => emitted'[k].var + emitted'[k].len <= InputLen
  <2>1. /\ DOMAIN emitted = 1 .. Len(emitted) /\ DOMAIN emitted' = 1 .. Len(emitted) + 1
        /\ Len(emitted) \in Nat /\ \A j \in 1 .. Len(emitted) : emitted'[j] = emitted[j]
        /\ emitted'[Len(emitted) + 1] = i
    BY <1>1, OneMore
  <2>2. CASE k = Len(emitted) + 1
    <3>1. Tidy(i)
      BY <1>2, FillsTidily
    <3>2. ASSUME InputsInOrder, i.op = "LoadVarVec" PROVE i.var + i.len <= InputLen
      <4>1. IsInput(pos) /\ i.var = memory_offset /\ pos \in 1 .. Len(fx)
        BY <1>1, <3>2 DEF Fills
      <4>2. QED
        BY <1>1, <3>2, <4>1, LoadsItsInput
    <3>3. QED
      BY <2>1, <2>2, <3>1, <3>2
  <2>3. CASE k # Len(emitted) + 1
    <3>1. k \in DOMAIN emitted /\ emitted'[k] = emitted[k]
      BY <2>1, <2>3
    <3>2. QED
      BY <1>3, <3>1
  <2>4. QED
    BY <2>2, <2>3
<1>8. ASSUME NEW n \in 1 .. Len(fx), Ready(n)'
      PROVE  Cells("i16", node_to_offset'[n], fx[n].numel) \subseteq WrittenBy(emitted', Len(emitted'))
  <2>1. CASE n = pos
    <3>1. node_to_offset'[n] = memory_offset
      BY <2>1, FillsKeepsOffsets
    <3>2. QED
      BY <1>1, <1>4, <1>6, <2>1, <3>1
  <2>2. CASE n # pos
    <3>1. Ready(n) /\ node_to_offset'[n] = node_to_offset[n]
      BY <1>8, <2>2, FillsKeepsOffsets
    <3>2. QED
      BY <1>3, <1>6, <3>1
  <2>3. QED
    BY <2>1, <2>2
<1>9. QED
  BY <1>3, <1>4, <1>6, <1>7, <1>8

(* The store of the output reads the node that is returned. *)
LEMMA OutputKeepsFit ==
  ASSUME OffsetsInv, FitInv, LowerOutput
  PROVE  FitInv'
<1>1. /\ UNCHANGED <<fx, node_to_offset, memory_offset>> /\ pos = Len(fx) /\ Len(fx) \in Nat
      /\ emitted \in Seq(Lowered) /\ output_size = 0 /\ fx \in FxGraphs
      /\ node.of \in 1 .. Len(fx) /\ fx[node.of].numel \in Nat
      /\ \A n \in 1 .. Len(fx) : Ready(n)' = Ready(n)
      /\ ~Has(node.of) => UNCHANGED <<emitted, output_size>>
  <2>1. fx \in FxGraphs /\ Len(fx) \in Nat /\ emitted \in Seq(Lowered)
    BY Graph DEF OffsetsInv
  <2>2. pos = Len(fx)
    BY OutputNode
  <2>3. output_size = 0
    BY <2>1, <2>2 DEF OffsetsInv
  <2>4. QED
    BY <2>1, <2>2, <2>3, OutputNode, OutputKeepsOffsets
<1>2. InputsInOrder' = InputsInOrder /\ SameSizes' = SameSizes /\ (InputLen)' = InputLen
  BY <1>1, SameGraph
<1>3. SUFFICES ASSUME SameSizes
               PROVE  /\ DefinedBeforeUse(emitted')
                      /\ \A k \in DOMAIN emitted' :
                           /\ Tidy(emitted'[k])
                           /\ InputsInOrder /\ emitted'[k].op = "LoadVarVec"
                                => emitted'[k].var + emitted'[k].len <= InputLen
                      /\ \A n \in 1 .. Len(fx) : Ready(n) =>
                           Cells("i16", node_to_offset[n], fx[n].numel)
                             \subseteq WrittenBy(emitted', Len(emitted'))
                      /\ StoredBy(emitted', Len(emitted')) = 0 .. output_size' - 1
  BY <1>1, <1>2 DEF FitInv, DefinedBeforeUse, StoredBy, WrittenBy
<1>4. /\ DefinedBeforeUse(emitted)
      /\ \A k \in DOMAIN emitted :
           /\ Tidy(emitted[k])
           /\ InputsInOrder /\ emitted[k].op = "LoadVarVec"
                => emitted[k].var + emitted[k].len <= InputLen
      /\ \A n \in 1 .. Len(fx) : Ready(n) =>
           Cells("i16", node_to_offset[n], fx[n].numel) \subseteq WrittenBy(emitted, Len(emitted))
      /\ StoredBy(emitted, Len(emitted)) = 0 .. output_size - 1
  BY <1>3 DEF FitInv
<1>5. CASE ~Has(node.of)
  BY <1>1, <1>4, <1>5
<1>6. CASE Has(node.of)
  <2>1. PICK i \in Lowered :
          /\ i = [op |-> "StoreVec", src |-> node_to_offset[node.of], out |-> 0,
                  len |-> fx[node.of].numel]
          /\ From(i) = {node_to_offset[node.of]} /\ Stores(i) = 0 .. fx[node.of].numel - 1
          /\ emitted' = Append(emitted, i) /\ output_size' = fx[node.of].numel
    BY <1>6, OutputKeepsOffsets
  <2>2. /\ i.op = "StoreVec" /\ i.len = fx[node.of].numel
        /\ Tidy(i) /\ Writes(i) = {}
        /\ Reads(i) = UNION {Cells("i16", off, i.len) : off \in From(i)}
    <3>1. i.op = "StoreVec" /\ i.len = fx[node.of].numel
      BY <2>1
    <3>2. QED
      BY <3>1, ReadsFrom DEF Tidy, VecBinOps, VecI8Ops, VecOneOps, StepOps
  <2>3. Reads(i) \subseteq WrittenBy(emitted, Len(emitted))
    <3>1. Ready(node.of)
      BY <1>6, OutputNode
    <3>2. QED
      BY <1>1, <1>4, <2>1, <2>2, <3>1
  <2>4. /\ WrittenBy(emitted', Len(emitted')) = WrittenBy(emitted, Len(emitted)) \union Writes(i)
        /\ StoredBy(emitted', Len(emitted')) = StoredBy(emitted, Len(emitted)) \union Stores(i)
        /\ DefinedBeforeUse(emitted')
    <3>1. emitted \in Seq(Lowered) /\ DefinedBeforeUse(emitted) /\ emitted' = Append(emitted, i)
      BY <1>1, <1>4, <2>1
    <3>2. QED
      BY <2>3, <3>1, WritesMore
  <2>5. StoredBy(emitted', Len(emitted')) = 0 .. output_size' - 1
    <3>1. StoredBy(emitted, Len(emitted)) = {}
      BY <1>1, <1>4
    <3>2. QED
      BY <2>1, <2>4, <3>1
  <2>6. ASSUME NEW k \in DOMAIN emitted'
        PROVE  /\ Tidy(emitted'[k])
               /\ InputsInOrder /\ emitted'[k].op = "LoadVarVec"
                    => emitted'[k].var + emitted'[k].len <= InputLen
    <3>1. /\ DOMAIN emitted = 1 .. Len(emitted) /\ DOMAIN emitted' = 1 .. Len(emitted) + 1
          /\ Len(emitted) \in Nat /\ \A j \in 1 .. Len(emitted) : emitted'[j] = emitted[j]
          /\ emitted'[Len(emitted) + 1] = i
      BY <1>1, <2>1, OneMore
    <3>2. CASE k = Len(emitted) + 1
      BY <2>2, <3>1, <3>2
    <3>3. CASE k # Len(emitted) + 1
      <4>1. k \in DOMAIN emitted /\ emitted'[k] = emitted[k]
        BY <3>1, <3>3
      <4>2. QED
        BY <1>4, <4>1
    <3>4. QED
      BY <3>2, <3>3
  <2>7. QED
    BY <1>4, <2>2, <2>4, <2>5, <2>6
<1>7. QED
  BY <1>5, <1>6

(* Steps that emit nothing. *)
LEMMA SilentKeepsFit ==
  ASSUME FitInv, UNCHANGED <<fx, output_size, emitted>>,
         \A n \in 1 .. Len(fx) :
           Ready(n)' => Ready(n) /\ node_to_offset'[n] = node_to_offset[n]
  PROVE  FitInv'
<1>1. InputsInOrder' = InputsInOrder /\ SameSizes' = SameSizes /\ (InputLen)' = InputLen
  BY SameGraph
<1>2. /\ DefinedBeforeUse(emitted)' = DefinedBeforeUse(emitted)
      /\ WrittenBy(emitted, Len(emitted))' = WrittenBy(emitted, Len(emitted))
      /\ StoredBy(emitted, Len(emitted))' = StoredBy(emitted, Len(emitted))
  BY DEF DefinedBeforeUse, StoredBy, WrittenBy
<1>3. ASSUME SameSizes, NEW n \in 1 .. Len(fx), Ready(n)'
      PROVE  Cells("i16", node_to_offset'[n], fx[n].numel) \subseteq WrittenBy(emitted, Len(emitted))
  BY <1>3 DEF FitInv
<1>4. QED
  BY <1>1, <1>2, <1>3 DEF FitInv

LEMMA NextFit == OffsetsInv /\ OrderInv /\ FitInv /\ [Next]_vars => FitInv'
<1>1. SUFFICES ASSUME OffsetsInv, OrderInv, FitInv, [Next]_vars PROVE FitInv'
  OBVIOUS
<1>2. FirstPass => FitInv'
  BY <1>1, FirstKeepsOffsets, SilentKeepsFit
<1>3. Passes => FitInv'
  BY <1>1, PassesKeepsOffsets, SilentKeepsFit
<1>4. Raises => FitInv'
  BY <1>1, RaisesKeepsOffsets, SilentKeepsFit
<1>5. Finish \/ UNCHANGED vars => FitInv'
  BY <1>1, RestKeepsOffsets, SilentKeepsFit
<1>6. LowerOutput => FitInv'
  BY <1>1, OutputKeepsFit
<1>7. (\E i : Fills(i)) => FitInv'
  BY <1>1, FillsKeepsFit
<1>8. QED
  BY <1>1, <1>2, <1>3, <1>4, <1>5, <1>6, <1>7, Kinds

LEMMA FitInvariant == Spec => [](OffsetsInv /\ OrderInv /\ FitInv)
<1>1. Init => OrderInv
  <2>1. SUFFICES ASSUME Init PROVE OrderInv
    OBVIOUS
  <2>2. pos \notin 1 .. Len(fx)
    BY <2>1 DEF Init
  <2>3. QED
    BY <2>2 DEF OrderInv
<1>2. QED
  BY <1>1, InitOffsets, InitFit, NextOffsets, NextOrder, NextFit, PTL DEF Spec

(* Every program that the backend lowers from a graph that broadcasts no   *)
(* operand is one on which the virtual machine and the native code agree:  *)
(* it reads what it has written, in the planned memory, from tensors that  *)
(* are equal to the one it writes or apart from it, and stores the output  *)
(* from end to end.                                                        *)
THEOREM LoweredProgramsFit == Spec => []FitForEngine
<1>1. ASSUME OffsetsInv, FitInv PROVE FitForEngine
  <2>1. SUFFICES ASSUME SameSizes, NEW n \in DOMAIN emitted, NEW cell \in Touches(emitted[n])
                 PROVE  cell[2] < Plan(emitted).memory_size
    BY <1>1 DEF FitForEngine, FitInv
  <2>2. emitted \in Seq(Lowered) /\ emitted[n] \in Lowered
    BY <1>1, <2>1 DEF OffsetsInv
  <2>3. cell[2] \in Nat /\ cell[2] < PlanEnd(emitted[n]) /\ PlanEnd(emitted[n]) \in Nat
    BY <2>1, <2>2, TouchesPlanned, PlanEndIs
  <2>4. Plan(emitted).memory_size \in Nat /\ PlanEnd(emitted[n]) <= Plan(emitted).memory_size
    BY <2>1, <2>2, PlanCovers
  <2>5. QED
    BY <2>3, <2>4
<1>2. QED
  BY <1>1, FitInvariant, PTL

-----------------------------------------------------------------------------
(* What a program computes, instruction by instruction. *)
LEMMA StagesAre ==
  ASSUME NEW S, NEW prog \in Seq(S), NEW b, NEW inp
  PROVE  /\ Stages(prog, b, inp)[0] = b
         /\ \A k \in 1 .. Len(prog) :
              Stages(prog, b, inp)[k] = Effect(prog[k], Stages(prog, b, inp)[k - 1], inp)
<1> DEFINE n == Len(prog)
           Next1(k, x) == Effect(prog[k], x, inp)
           F(f) == [k \in 0 .. n |-> IF k = 0 THEN b ELSE Effect(prog[k], f[k - 1], inp)]
           G(f, m) == [k \in 0 .. m |-> IF k = 0 THEN b ELSE Next1(k, f[k - 1])]
           stage == CHOOSE f : f = F(f)
           Good == {m \in Nat : \E f : f = G(f, m)}
<1>1. Stages(prog, b, inp) = stage
  BY DEF Stages
<1>2. n \in Nat
  OBVIOUS
<1>3. 0 \in Good
  <2> HIDE DEF Next1
  <2> DEFINE f == [k \in 0 .. 0 |-> b]
  <2>1. f = G(f, 0)
    OBVIOUS
  <2>2. QED
    BY <2>1
<1>4. ASSUME NEW m \in Nat, m \in Good PROVE m + 1 \in Good
  <2> HIDE DEF Next1
  <2>1. PICK f : f = G(f, m)
    BY <1>4
  <2> DEFINE g == [k \in 0 .. m + 1 |-> IF k = m + 1 THEN Next1(m + 1, f[m]) ELSE f[k]]
  <2>2. ASSUME NEW k \in 0 .. m + 1 PROVE g[k] = IF k = 0 THEN b ELSE Next1(k, g[k - 1])
    <3>1. \A j \in 0 .. m : f[j] = IF j = 0 THEN b ELSE Next1(j, f[j - 1])
      BY <2>1
    <3>2. CASE k = m + 1
      <4>1. k - 1 = m /\ m \in 0 .. m + 1 /\ m # m + 1 /\ k # 0
        BY <3>2
      <4>2. g[m] = f[m] /\ g[k] = Next1(m + 1, f[m])
        BY <3>2, <4>1
      <4>3. QED
        <5> HIDE DEF g
        <5>1. QED
          BY <3>2, <4>1, <4>2
    <3>3. CASE k = 0
      <4>1. g[0] = f[0] /\ f[0] = b
        BY <3>1
      <4>2. QED
        BY <3>3, <4>1
    <3>4. CASE k # m + 1 /\ k # 0
      <4>1. k \in 0 .. m /\ k - 1 \in 0 .. m + 1 /\ k - 1 # m + 1
        BY <3>4
      <4>2. g[k] = f[k] /\ g[k - 1] = f[k - 1] /\ f[k] = Next1(k, f[k - 1])
        BY <3>1, <3>4, <4>1
      <4>3. QED
        <5> HIDE DEF g
        <5>1. QED
          BY <3>4, <4>2
    <3>5. QED
      BY <3>2, <3>3, <3>4
  <2>3. g = G(g, m + 1)
    <3> DEFINE h == G(g, m + 1)
    <3>1. \A k \in 0 .. m + 1 : h[k] = IF k = 0 THEN b ELSE Next1(k, g[k - 1])
      <4> HIDE DEF g
      <4>1. QED
        OBVIOUS
    <3>2. DOMAIN g = 0 .. m + 1 /\ DOMAIN h = 0 .. m + 1
      OBVIOUS
    <3>3. \A k \in 0 .. m + 1 : g[k] = h[k]
      <4> HIDE DEF g, h
      <4>1. QED
        BY <2>2, <3>1
    <3>4. g = [k \in 0 .. m + 1 |-> g[k]] /\ h = [k \in 0 .. m + 1 |-> h[k]]
      OBVIOUS
    <3>5. g = h
      <4> HIDE DEF g, h
      <4>1. QED
        BY <3>3, <3>4
    <3>6. QED
      BY <3>5
  <2>4. \E e : e = G(e, m + 1)
    <3> HIDE DEF g
    <3>1. QED
      BY <2>3
  <2>5. QED
    BY <2>4
<1>5. n \in Good
  <2>1. Nat \subseteq Good
    <3> HIDE DEF Good
    <3>1. QED
      BY <1>3, <1>4, SetInduction
  <2>2. QED
    BY <1>2, <2>1
<1>6. \E f : f = F(f)
  <2>1. PICK f : f = G(f, n)
    BY <1>5
  <2>2. G(f, n) = F(f)
    OBVIOUS
  <2>3. QED
    BY <2>1, <2>2
<1>7. stage = F(stage)
  <2> HIDE DEF F
  <2>1. QED
    BY <1>6
<1>8. \A k \in 0 .. n : stage[k] = IF k = 0 THEN b ELSE Next1(k, stage[k - 1])
  <2> HIDE DEF stage
  <2>1. QED
    BY <1>7
<1>9. stage[0] = b /\ \A k \in 1 .. n : stage[k] = Next1(k, stage[k - 1])
  <2> HIDE DEF stage, Next1
  <2>1. 0 \in 0 .. n /\ \A k \in 1 .. n : k \in 0 .. n /\ k # 0
    BY <1>2
  <2>2. QED
    BY <1>8, <2>1
<1>10. QED
  BY <1>1, <1>9

(* One instruction more has its effect on what the program has left. *)
LEMMA RunMore ==
  ASSUME NEW p \in Seq(Lowered), NEW i \in Lowered, NEW b, NEW inp
  PROVE  Run(Append(p, i), b, inp) = Effect(i, Run(p, b, inp), inp)
<1> DEFINE q == Append(p, i)
           X == Stages(p, b, inp)
           Y == Stages(q, b, inp)
           Good == {k \in Nat : k <= Len(p) => Y[k] = X[k]}
<1>1. /\ q \in Seq(Lowered) /\ Len(p) \in Nat /\ Len(q) = Len(p) + 1
      /\ \A k \in 1 .. Len(p) : q[k] = p[k]
      /\ q[Len(p) + 1] = i
  BY OneMore
<1> HIDE DEF q
<1>2. /\ X[0] = b /\ Y[0] = b
      /\ \A k \in 1 .. Len(p) : X[k] = Effect(p[k], X[k - 1], inp)
      /\ \A k \in 1 .. Len(q) : Y[k] = Effect(q[k], Y[k - 1], inp)
  <2>1. ASSUME NEW s \in Seq(Lowered)
        PROVE  /\ Stages(s, b, inp)[0] = b
               /\ \A k \in 1 .. Len(s) :
                    Stages(s, b, inp)[k] = Effect(s[k], Stages(s, b, inp)[k - 1], inp)
    BY StagesAre
  <2>2. p \in Seq(Lowered) /\ q \in Seq(Lowered)
    BY <1>1
  <2>3. QED
    BY <2>1, <2>2
<1> HIDE DEF X, Y
<1>3. 0 \in Good
  BY <1>2
<1>4. ASSUME NEW k \in Nat, k \in Good PROVE k + 1 \in Good
  <2>1. SUFFICES ASSUME k + 1 <= Len(p) PROVE Y[k + 1] = X[k + 1]
    OBVIOUS
  <2>2. k + 1 \in 1 .. Len(p) /\ k + 1 \in 1 .. Len(q) /\ (k + 1) - 1 = k /\ Y[k] = X[k]
    BY <1>1, <1>4, <2>1
  <2>3. X[k + 1] = Effect(p[k + 1], X[k], inp) /\ Y[k + 1] = Effect(q[k + 1], Y[k], inp)
    BY <1>2, <2>2
  <2>4. QED
    BY <1>1, <2>2, <2>3
<1>5. Y[Len(p)] = X[Len(p)]
  <2>1. Nat \subseteq Good
    <3> HIDE DEF Good
    <3>1. QED
      BY <1>3, <1>4, SetInduction
  <2>2. QED
    BY <1>1, <2>1
<1>6. Len(q) \in 1 .. Len(q) /\ Len(q) - 1 = Len(p)
  BY <1>1
<1>7. Y[Len(q)] = Effect(i, X[Len(p)], inp)
  BY <1>1, <1>2, <1>5, <1>6
<1>8. QED
  BY <1>7 DEF Run, X, Y, q

Pads == {"i16", "i8", "i32", "f32", "out"}

(* What an instruction leaves in the tensor it writes. *)
Filled(i, a, inputs) ==
  IF i.op = "LoadVarVec" THEN Slice(inputs, i.var, i.len) ELSE Result(i, a)

LEMMA FillEffect ==
  ASSUME NEW i \in Lowered, i.op # "StoreVec", NEW p, DOMAIN p = Pads, NEW inputs,
         NEW q, q = Effect(i, p, inputs)
  PROVE  DOMAIN q = Pads /\ q.out = p.out /\ q.i16 = Copy(p.i16, i.dst, Filled(i, p.i16, inputs))
<1>1. i.op \in {"LoadVarVec", "AddVec", "MulVec"} \union VecOneOps
  BY DEF Lowered, CountedOps
<1> DEFINE x == Copy(p.i16, i.dst, Filled(i, p.i16, inputs))
<1>2. CASE i.op = "LoadVarVec"
  <2>1. Effect(i, p, inputs) = [p EXCEPT !.i16 = Copy(@, i.dst, Slice(inputs, i.var, i.len))]
    BY <1>2 DEF Effect, ScalarOps, VecBinOps, VecOneOps, VecI8Ops, StepOps
  <2>2. x = Copy(p.i16, i.dst, Slice(inputs, i.var, i.len))
    BY <1>2 DEF Filled
  <2>3. q = [p EXCEPT !.i16 = x]
    BY <2>1, <2>2
  <2> HIDE DEF x
  <2>4. DOMAIN q = Pads /\ q.out = p.out /\ q.i16 = x
    BY <2>3 DEF Pads
  <2>5. QED
    BY <2>4 DEF x
<1>3. CASE i.op \in {"AddVec", "MulVec"} \union VecOneOps
  <2>1. i.op # "LoadVarVec"
    BY <1>3 DEF VecOneOps
  <2>2. Filled(i, p.i16, inputs) = Result(i, p.i16)
    BY <2>1 DEF Filled
  <2>3. Effect(i, p, inputs) = [p EXCEPT !.i16 = Copy(@, i.dst, Result(i, p.i16))]
    BY <1>3 DEF Effect, ScalarOps, VecBinOps, VecOneOps, VecI8Ops, StepOps
  <2>4. q = [p EXCEPT !.i16 = x]
    BY <2>2, <2>3
  <2> HIDE DEF x
  <2>5. DOMAIN q = Pads /\ q.out = p.out /\ q.i16 = x
    BY <2>4 DEF Pads
  <2>6. QED
    BY <2>5 DEF x
<1>4. QED
  BY <1>1, <1>2, <1>3

LEMMA StoreEffect ==
  ASSUME NEW i, i.op = "StoreVec", NEW p, DOMAIN p = Pads, NEW inputs,
         NEW q, q = Effect(i, p, inputs)
  PROVE  DOMAIN q = Pads /\ q.i16 = p.i16 /\ q.out = Copy(p.out, i.out, Slice(p.i16, i.src, i.len))
<1> DEFINE x == Copy(p.out, i.out, Slice(p.i16, i.src, i.len))
<1>1. q = [p EXCEPT !.out = x]
  BY DEF Effect, ScalarOps, VecBinOps, VecOneOps, VecI8Ops, StepOps
<1> HIDE DEF x
<1>2. DOMAIN q = Pads /\ q.i16 = p.i16 /\ q.out = x
  BY <1>1 DEF Pads
<1>3. QED
  BY <1>2 DEF x

LEMMA ApplyIs ==
  ASSUME NEW fn \in {"add", "mul"}, NEW a \in Int, NEW b \in Int
  PROVE  /\ Apply(fn, a, b) \in Int /\ Apply(fn, a, b) = Apply(fn, b, a)
         /\ Apply(fn, a, b) = Combine(IF fn = "add" THEN "AddVec" ELSE "MulVec", a, b)
         /\ Apply(fn, a, b) = Combine(IF fn = "add" THEN "AddScalarVec" ELSE "MulScalarVec", a, b)
<1>1. \A x \in Int : Sat16(x) \in Int
  BY DEF Sat16, Clamp, I16Min, I16Max
<1>2. a + b = b + a /\ a * b = b * a
  OBVIOUS
<1>3. CASE fn = "add"
  <2>1. Apply(fn, a, b) = Sat16(a + b) /\ Apply(fn, b, a) = Sat16(b + a)
        /\ Combine("AddScalarVec", a, b) = Sat16(a + b) /\ Combine("AddVec", a, b) = Sat16(a + b)
    BY <1>3 DEF Apply, Combine, Exact, VecI8Ops
  <2>2. a + b \in Int
    OBVIOUS
  <2>3. QED
    BY <1>1, <1>2, <1>3, <2>1, <2>2
<1>4. CASE fn = "mul"
  <2> DEFINE m == a * b
  <2>1. Apply(fn, a, b) = Sat16(m \div 256) /\ Apply(fn, b, a) = Sat16((b * a) \div 256)
        /\ Combine("MulScalarVec", a, b) = Sat16(m \div 256) /\ Combine("MulVec", a, b) = Sat16(m \div 256)
    BY <1>4 DEF Apply, Combine, Exact, VecI8Ops
  <2>2. m \in Int /\ b * a = m
    BY <1>2
  <2> HIDE DEF m
  <2>3. m \div 256 \in Int
    BY <2>2
  <2>4. QED
    BY <1>1, <1>4, <2>1, <2>2, <2>3
<1>5. QED
  BY <1>3, <1>4

LEMMA FilledIs ==
  ASSUME NEW i, NEW a, NEW inputs, NEW k \in 0 .. i.len - 1
  PROVE  /\ DOMAIN Filled(i, a, inputs) = 0 .. i.len - 1
         /\ i.op = "LoadVarVec" => Filled(i, a, inputs)[k] = inputs[i.var + k]
         /\ i.op # "LoadVarVec" =>
              Filled(i, a, inputs)[k] = Combine(i.op, a[i.lhs + k], Rhs(i, a, k))
BY DEF Filled, Slice, Result

LEMMA FilledDomain ==
  ASSUME NEW i, NEW a, NEW inputs
  PROVE  DOMAIN Filled(i, a, inputs) = 0 .. i.len - 1
BY DEF Filled, Slice, Result

-----------------------------------------------------------------------------
(* The values of the nodes, and where they are when the program has run.   *)
Fitting == {a \in InputSet : Size(a) = InputLen}

Known(n, inputs) ==
  IF Has(n) THEN FxValues(inputs)[n] \in [0 .. fx[n].numel - 1 -> Int]
            ELSE FxValues(inputs)[n] = Opaque

Holds(a, inputs) ==
  \A n \in 1 .. Len(fx) : Ready(n) =>
    \A k \in 0 .. fx[n].numel - 1 : a[node_to_offset[n] + k] = FxValues(inputs)[n][k]

returned == fx[Len(fx)].of

Computed(r, size, outs, inputs) ==
  /\ DOMAIN r = Pads /\ DOMAIN r.i16 = 0 .. size - 1
  /\ Holds(r.i16, inputs)
  /\ pos <= Len(fx) => r.out = Zeros(outs)
  /\ pos > Len(fx) /\ Has(returned) /\ outs = output_size => r.out = FxValues(inputs)[returned]

ValueInv ==
  InputsInOrder /\ SameSizes /\ status # "raised" =>
    \A inputs \in Fitting :
      /\ \A n \in 1 .. Len(fx) - 1 : n < pos => Known(n, inputs)
      /\ \A size, outs \in Nat : memory_offset <= size =>
           \A r : r = Run(emitted, NewBuffers(size, outs), inputs) => Computed(r, size, outs, inputs)

LEMMA SameValues ==
  ASSUME UNCHANGED fx
  PROVE  /\ Fitting' = Fitting
         /\ \A inputs : (FxValues(inputs))' = FxValues(inputs)
<1>1. Fitting' = Fitting
  BY SameGraph DEF Fitting
<1>2. \A inputs : (FxValues(inputs))' = FxValues(inputs)
  BY DEF FxValues, ValueOf, InputOffset, param_start_offset, Elements
<1>3. QED
  BY <1>1, <1>2

(* The instruction leaves the value of the node, if those of the nodes     *)
(* before it are in memory. *)
Means(i, inputs) ==
  /\ FxValues(inputs)[pos] \in [0 .. node.numel - 1 -> Int]
  /\ \A a : Holds(a, inputs) =>
       \A k \in 0 .. node.numel - 1 : Filled(i, a, inputs)[k] = FxValues(inputs)[pos][k]

LEMMA FillComputes ==
  ASSUME OffsetsInv, NEW i, Fills(i), NEW inputs, Means(i, inputs),
         NEW size \in Nat, NEW outs \in Nat, memory_offset' <= size,
         NEW r, Computed(r, size, outs, inputs), NEW q, q = Effect(i, r, inputs)
  PROVE  Computed(q, size, outs, inputs)'
<1> DEFINE V == FxValues(inputs)
           X == Filled(i, r.i16, inputs)
<1>1. /\ i \in Lowered /\ i.op # "StoreVec" /\ i.dst = memory_offset /\ i.len = fx[pos].numel
      /\ UNCHANGED <<fx, output_size, status>> /\ pos \in 1 .. Len(fx) - 1
      /\ fx \in FxGraphs /\ Len(fx) \in Nat /\ memory_offset \in Nat
      /\ pos' = pos + 1 /\ memory_offset' = memory_offset + fx[pos].numel /\ fx[pos].numel \in Nat
  BY FillsKeepsOffsets, Graph DEF Fills, OffsetsInv, node
<1>2. DOMAIN r = Pads /\ DOMAIN r.i16 = 0 .. size - 1 /\ Holds(r.i16, inputs)
      /\ r.out = Zeros(outs)
  BY <1>1 DEF Computed
<1>3. DOMAIN q = Pads /\ q.out = r.out /\ q.i16 = Copy(r.i16, i.dst, X)
  BY <1>1, <1>2, FillEffect
<1>4. DOMAIN X = 0 .. i.len - 1
  BY FilledDomain
<1>5. \A k \in 0 .. i.len - 1 : X[k] = V[pos][k]
  BY <1>1, <1>2 DEF Means, node
<1> HIDE DEF X
<1>6. /\ DOMAIN q.i16 = 0 .. size - 1
      /\ \A c \in 0 .. size - 1 : q.i16[c] = IF c - i.dst \in 0 .. i.len - 1 THEN X[c - i.dst] ELSE r.i16[c]
  BY <1>2, <1>3, <1>4 DEF Copy
<1>7. V' = V
  BY <1>1, SameValues
<1>8. ASSUME NEW n \in 1 .. Len(fx), Ready(n)', NEW k \in 0 .. fx[n].numel - 1
      PROVE  q.i16[node_to_offset'[n] + k] = V[n][k]
  <2>1. CASE n = pos
    <3>1. node_to_offset'[n] = memory_offset
      BY <2>1, FillsKeepsOffsets
    <3>2. k \in 0 .. i.len - 1 /\ k \in Nat
      BY <1>1, <1>8, <2>1
    <3>3. memory_offset + k \in 0 .. size - 1 /\ (memory_offset + k) - i.dst = k
      BY <1>1, <1>8, <2>1, <3>2
    <3>4. q.i16[memory_offset + k] = X[k]
      BY <1>6, <3>2, <3>3
    <3>5. QED
      BY <1>5, <2>1, <3>1, <3>2, <3>4
  <2>2. CASE n # pos
    <3>1. Ready(n) /\ node_to_offset'[n] = node_to_offset[n]
      BY <1>8, <2>2, FillsKeepsOffsets
    <3>2. node_to_offset[n] \in Nat /\ node_to_offset[n] + fx[n].numel <= memory_offset
      BY <3>1 DEF OffsetsInv
    <3>3. k \in Nat /\ node_to_offset[n] + k < memory_offset
      <4>1. n # Len(fx)
        BY <1>1, <3>1 DEF Ready
      <4>2. fx[n].numel \in Nat
        BY <1>1, <4>1, Graph
      <4>3. QED
        BY <1>1, <1>8, <3>2, <4>2
    <3>4. node_to_offset[n] + k \in 0 .. size - 1 /\ (node_to_offset[n] + k) - i.dst \notin 0 .. i.len - 1
      <4>1. memory_offset <= size /\ memory_offset \in Nat /\ i.dst = memory_offset
        BY <1>1
      <4>2. PICK c \in Nat : c = node_to_offset[n] + k
        BY <3>2, <3>3
      <4>3. c \in 0 .. size - 1 /\ c - memory_offset < 0 /\ c - memory_offset \in Int
        BY <3>3, <4>1, <4>2
      <4>4. QED
        BY <4>1, <4>2, <4>3
    <3>5. q.i16[node_to_offset[n] + k] = r.i16[node_to_offset[n] + k]
      BY <1>6, <3>4
    <3>6. r.i16[node_to_offset[n] + k] = V[n][k]
      BY <1>2, <1>8, <3>1 DEF Holds
    <3>7. QED
      BY <3>1, <3>5, <3>6
  <2>3. QED
    BY <2>1, <2>2
<1>9. Holds(q.i16, inputs)'
  BY <1>1, <1>7, <1>8 DEF Holds
<1>10. ~(pos' > Len(fx'))
  BY <1>1
<1>11. QED
  BY <1>2, <1>3, <1>6, <1>9, <1>10 DEF Computed

LEMMA FillsKeepsValues ==
  ASSUME OffsetsInv, ValueInv, NEW i, Fills(i),
         InputsInOrder /\ SameSizes => \A inputs \in Fitting : Means(i, inputs)
  PROVE  ValueInv'
<1>1. /\ i \in Lowered /\ UNCHANGED <<fx, output_size, status>> /\ status = "lowering"
      /\ pos \in 1 .. Len(fx) - 1 /\ fx \in FxGraphs /\ Len(fx) \in Nat /\ memory_offset \in Nat
      /\ pos' = pos + 1 /\ memory_offset' = memory_offset + fx[pos].numel /\ fx[pos].numel \in Nat
      /\ emitted \in Seq(Lowered) /\ emitted' = Append(emitted, i)
  BY FillsKeepsOffsets, Graph DEF Fills, OffsetsInv, node, Emits
<1>2. /\ InputsInOrder' = InputsInOrder /\ SameSizes' = SameSizes /\ Fitting' = Fitting
      /\ \A inputs : (FxValues(inputs))' = FxValues(inputs)
  BY <1>1, SameGraph, SameValues
<1>3. SUFFICES ASSUME InputsInOrder, SameSizes, NEW inputs \in Fitting
               PROVE  /\ \A n \in 1 .. Len(fx) - 1 : n < pos' => Known(n, inputs)'
                      /\ \A size, outs \in Nat : memory_offset' <= size =>
                           \A r : r = Run(emitted', NewBuffers(size, outs), inputs)
                             => Computed(r, size, outs, inputs)'
  BY <1>1, <1>2 DEF ValueInv
<1>4. Means(i, inputs)
  BY <1>3
<1>5. /\ \A n \in 1 .. Len(fx) - 1 : n < pos => Known(n, inputs)
      /\ \A size, outs \in Nat : memory_offset <= size =>
           \A r : r = Run(emitted, NewBuffers(size, outs), inputs) => Computed(r, size, outs, inputs)
  BY <1>1, <1>3 DEF ValueInv
<1>6. ASSUME NEW n \in 1 .. Len(fx) - 1, n < pos' PROVE Known(n, inputs)'
  <2>1. DOMAIN node_to_offset' = DOMAIN node_to_offset \union {pos}
    BY FillsKeepsOffsets
  <2>2. CASE n = pos
    <3>1. Has(n)'
      BY <2>1, <2>2 DEF Has
    <3>2. QED
      BY <1>1, <1>2, <1>4, <2>2, <3>1 DEF Known, Means, node
  <2>3. CASE n # pos
    <3>1. n < pos /\ Has(n)' = Has(n)
      BY <1>1, <1>6, <2>1, <2>3 DEF Has
    <3>2. Known(n, inputs)
      BY <1>5, <3>1
    <3>3. QED
      BY <1>1, <1>2, <3>1, <3>2 DEF Known
  <2>4. QED
    BY <2>2, <2>3
<1>7. ASSUME NEW size \in Nat, NEW outs \in Nat, memory_offset' <= size,
             NEW q, q = Run(emitted', NewBuffers(size, outs), inputs)
      PROVE  Computed(q, size, outs, inputs)'
  <2>1. memory_offset <= size
    BY <1>1, <1>7
  <2>2. PICK r : r = Run(emitted, NewBuffers(size, outs), inputs)
    OBVIOUS
  <2>3. Computed(r, size, outs, inputs)
    BY <1>5, <2>1, <2>2
  <2>4. q = Effect(i, r, inputs)
    <3>1. PICK b : b = NewBuffers(size, outs)
      OBVIOUS
    <3>2. i \in Lowered /\ emitted \in Seq(Lowered) /\ emitted' = Append(emitted, i)
      BY <1>1
    <3>3. Run(Append(emitted, i), b, inputs) = Effect(i, Run(emitted, b, inputs), inputs)
      BY <3>2, RunMore
    <3>4. QED
      BY <1>7, <2>2, <3>1, <3>2, <3>3
  <2>5. QED
    BY <1>4, <1>7, <2>3, <2>4, FillComputes
<1>8. QED
  BY <1>6, <1>7

-----------------------------------------------------------------------------
(* What the instruction of each kind of node leaves.  Combined with the    *)
(* values that are known, this is the value of the node.                   *)
LEMMA InputMeans ==
  ASSUME OffsetsInv, OrderInv, InputsInOrder, status = "lowering",
         pos \in 1 .. Len(fx), IsInput(pos), NEW inputs \in Fitting,
         NEW i, i.op = "LoadVarVec", i.var = memory_offset, i.len = node.numel
  PROVE  Means(i, inputs)
<1> DEFINE V == FxValues(inputs)
           S == Slice(inputs, memory_offset, node.numel)
<1>1. fx \in FxGraphs /\ memory_offset \in Nat /\ fx[pos].op \in {"placeholder", "get_attr"}
  BY DEF OffsetsInv, IsInput
<1>2. V[pos] = ValueOf(V, pos, inputs)
  BY <1>1, FxValuesAre
<1>3. memory_offset = InputOffset(pos) /\ memory_offset + fx[pos].numel <= InputLen /\ InputLen \in Nat
  BY LoadsItsInput
<1>4. V[pos] = S
  BY <1>1, <1>2, <1>3 DEF ValueOf, node
<1>5. node.numel \in Nat
  BY <1>1, Graph DEF node
<1>6. inputs \in [0 .. InputLen - 1 -> I16] /\ I16 \subseteq Int
  <2>1. inputs \in InputSet /\ Size(inputs) = InputLen
    BY DEF Fitting
  <2>2. inputs \in [0 .. Size(inputs) - 1 -> I16]
    BY <2>1, LoweringAssumption
  <2>3. I16 \subseteq Int
    BY DEF I16, I16Min, I16Max
  <2>4. QED
    BY <2>1, <2>2, <2>3
<1>7. S \in [0 .. node.numel - 1 -> Int]
  <2>1. ASSUME NEW k \in 0 .. node.numel - 1 PROVE inputs[memory_offset + k] \in Int
    <3>1. memory_offset + k \in 0 .. InputLen - 1
      BY <1>1, <1>3, <1>5 DEF node
    <3>2. QED
      BY <1>6, <3>1
  <2>2. QED
    BY <2>1 DEF Slice
<1>8. \A a : Filled(i, a, inputs) = S
  BY DEF Filled
<1>9. QED
  BY <1>4, <1>7, <1>8 DEF Means

(* An operand that is a number or a node with memory is not opaque, and an *)
(* integer.                                                                *)
LEMMA OperandKnown ==
  ASSUME OffsetsInv, ValueInv, InputsInOrder, SameSizes, AtBinOp, NEW inputs \in Fitting,
         NEW arg \in {node.lhs, node.rhs}, arg.kind = "node" => Has(arg.of)
  PROVE  /\ ~OpaqueArg(FxValues(inputs), arg)
         /\ \A k \in 0 .. node.numel - 1 : Operand(FxValues(inputs), arg, k) \in Int
         /\ arg.kind = "node" =>
              \A a : Holds(a, inputs) => \A k \in 0 .. node.numel - 1 :
                a[node_to_offset[arg.of] + k] = Operand(FxValues(inputs), arg, k)
<1> DEFINE V == FxValues(inputs)
<1>1. /\ status = "lowering" /\ pos \in 1 .. Len(fx) - 1 /\ fx \in FxGraphs /\ Len(fx) \in Nat
      /\ node.op = "call" /\ node.numel \in Nat
  BY BinOpNode, Graph DEF OffsetsInv
<1>2. arg \in Argument
  BY <1>1, CallNode DEF node
<1>3. CASE arg.kind = "scalar"
  BY <1>2, <1>3, ArgumentKinds DEF OpaqueArg, Operand
<1>4. CASE arg.kind = "node"
  <2>1. /\ arg.of \in 1 .. pos - 1 /\ arg.of \in 1 .. Len(fx) - 1 /\ Ready(arg.of) /\ Has(arg.of)
        /\ fx[arg.of].numel = node.numel
    BY <1>4, OperandReady
  <2>2. Known(arg.of, inputs)
    BY <1>1, <2>1 DEF ValueInv
  <2>3. V[arg.of] \in [0 .. node.numel - 1 -> Int]
    BY <2>1, <2>2 DEF Known
  <2>4. V[arg.of] # Opaque
    <3>1. DOMAIN Opaque = {1}
      BY DEF Opaque
    <3>2. 0 .. node.numel - 1 # {1}
      <4>1. CASE node.numel = 0
        BY <4>1
      <4>2. CASE node.numel # 0
        <5>1. 0 \in 0 .. node.numel - 1
          BY <1>1, <4>2
        <5>2. QED
          BY <5>1
      <4>3. QED
        BY <4>1, <4>2
    <3>3. DOMAIN V[arg.of] = 0 .. node.numel - 1
      BY <2>3
    <3>4. QED
      BY <3>1, <3>2, <3>3
  <2>5. ~OpaqueArg(V, arg)
    BY <2>4 DEF OpaqueArg
  <2>6. \A k : Operand(V, arg, k) = V[arg.of][k]
    BY <1>4 DEF Operand
  <2>7. arg.of \in 1 .. Len(fx)
    BY <1>1, <2>1
  <2>8. ASSUME NEW a, Holds(a, inputs), NEW k \in 0 .. node.numel - 1
        PROVE  a[node_to_offset[arg.of] + k] = V[arg.of][k]
    BY <2>1, <2>7, <2>8 DEF Holds
  <2>9. \A k \in 0 .. node.numel - 1 : Operand(V, arg, k) \in Int
    BY <2>3, <2>6
  <2> HIDE DEF V
  <2>10. QED
    BY <2>5, <2>6, <2>8, <2>9 DEF V
<1>5. QED
  BY <1>2, <1>3, <1>4, ArgumentKinds

(* What the node of an operation on known operands stands for. *)
LEMMA CallValue ==
  ASSUME OffsetsInv, ValueInv, InputsInOrder, SameSizes, AtBinOp, NEW inputs \in Fitting,
         node.lhs.kind = "node" => Has(node.lhs.of), node.rhs.kind = "node" => Has(node.rhs.of)
  PROVE  /\ FxValues(inputs)[pos] \in [0 .. node.numel - 1 -> Int]
         /\ \A k \in 0 .. node.numel - 1 :
              /\ Operand(FxValues(inputs), node.lhs, k) \in Int
              /\ Operand(FxValues(inputs), node.rhs, k) \in Int
              /\ FxValues(inputs)[pos][k] = Apply(node.fn, Operand(FxValues(inputs), node.lhs, k),
                                                  Operand(FxValues(inputs), node.rhs, k))
<1> DEFINE V == FxValues(inputs)
           A(k) == Operand(V, node.lhs, k)
           B(k) == Operand(V, node.rhs, k)
<1>1. /\ pos \in 1 .. Len(fx) /\ fx \in FxGraphs /\ node.op = "call" /\ node.fn \in {"add", "mul"}
  <2>1. Len(fx) \in Nat /\ fx \in FxGraphs
    BY Graph DEF OffsetsInv
  <2>2. QED
    BY <2>1, BinOpNode
<1>2. /\ ~OpaqueArg(V, node.lhs) /\ ~OpaqueArg(V, node.rhs)
      /\ \A k \in 0 .. node.numel - 1 : A(k) \in Int /\ B(k) \in Int
  BY OperandKnown
<1>3. V[pos] = ValueOf(V, pos, inputs)
  BY <1>1, FxValuesAre
<1>4. ValueOf(V, pos, inputs) = [k \in 0 .. node.numel - 1 |-> Apply(node.fn, A(k), B(k))]
  <2> HIDE DEF V
  <2>1. QED
    BY <1>1, <1>2 DEF ValueOf, node
<1> HIDE DEF V, A, B
<1>5. \A k \in 0 .. node.numel - 1 : Apply(node.fn, A(k), B(k)) \in Int
  BY <1>1, <1>2, ApplyIs
<1>6. QED
  BY <1>2, <1>3, <1>4, <1>5 DEF V, A, B

LEMMA VecMeans ==
  ASSUME OffsetsInv, ValueInv, InputsInOrder, SameSizes, AtBinOp, NEW inputs \in Fitting,
         node.lhs.kind = "node", node.rhs.kind = "node", Has(node.lhs.of), Has(node.rhs.of),
         NEW i, i.op = (IF node.fn = "add" THEN "AddVec" ELSE "MulVec"), i.len = node.numel,
         i.lhs = node_to_offset[node.lhs.of], i.rhs = node_to_offset[node.rhs.of]
  PROVE  Means(i, inputs)
<1> DEFINE V == FxValues(inputs)
<1>1. V[pos] \in [0 .. node.numel - 1 -> Int]
  BY CallValue
<1>2. ASSUME NEW a, Holds(a, inputs), NEW k \in 0 .. node.numel - 1
      PROVE  Filled(i, a, inputs)[k] = V[pos][k]
  <2> DEFINE x == Operand(V, node.lhs, k)
             y == Operand(V, node.rhs, k)
  <2>1. x \in Int /\ y \in Int /\ V[pos][k] = Apply(node.fn, x, y)
    BY CallValue
  <2>2. a[i.lhs + k] = x /\ a[i.rhs + k] = y
    <3>1. \A arg \in {node.lhs, node.rhs} :
            a[node_to_offset[arg.of] + k] = Operand(V, arg, k)
      BY <1>2, OperandKnown
    <3>2. QED
      BY <3>1
  <2>3. i.op # "LoadVarVec" /\ i.op \notin VecOneOps
    BY DEF VecOneOps
  <2> HIDE DEF x, y, V
  <2>4. Filled(i, a, inputs)[k] = Combine(i.op, x, y)
    BY <2>2, <2>3, FilledIs DEF Rhs
  <2>5. node.fn \in {"add", "mul"}
    BY BinOpNode
  <2>6. Apply(node.fn, x, y) = Combine(i.op, x, y)
    <3>1. x \in Int /\ y \in Int
      BY <2>1
    <3>2. Apply(node.fn, x, y) = Combine(IF node.fn = "add" THEN "AddVec" ELSE "MulVec", x, y)
      BY <2>5, <3>1, ApplyIs
    <3>3. QED
      BY <3>2
  <2>7. QED
    BY <2>1, <2>4, <2>6
<1>3. QED
  BY <1>1, <1>2 DEF Means

LEMMA ScalarMeans ==
  ASSUME OffsetsInv, ValueInv, InputsInOrder, SameSizes, AtBinOp, NEW inputs \in Fitting, ~AllNodes,
         NEW scalar, scalar = (IF node.lhs.kind = "scalar" THEN node.lhs ELSE node.rhs),
         NEW vec, vec = (IF node.lhs.kind = "scalar" THEN node.rhs ELSE node.lhs), Has(vec.of),
         NEW i, i.op = (IF node.fn = "add" THEN "AddScalarVec" ELSE "MulScalarVec"),
         i.len = node.numel, i.lhs = node_to_offset[vec.of], i.val = scalar.of
  PROVE  Means(i, inputs)
<1> DEFINE V == FxValues(inputs)
<1>1. /\ {scalar, vec} = {node.lhs, node.rhs} /\ vec.kind = "node" /\ scalar.kind = "scalar"
      /\ node.lhs.kind = "node" => Has(node.lhs.of)
      /\ node.rhs.kind = "node" => Has(node.rhs.of)
  BY BinOpNode DEF AllNodes
<1>2. V[pos] \in [0 .. node.numel - 1 -> Int]
  BY <1>1, CallValue
<1>3. ASSUME NEW a, Holds(a, inputs), NEW k \in 0 .. node.numel - 1
      PROVE  Filled(i, a, inputs)[k] = V[pos][k]
  <2> DEFINE x == Operand(V, vec, k)
             y == Operand(V, scalar, k)
  <2>1. x \in Int /\ y \in Int /\ (V[pos][k] = Apply(node.fn, x, y) \/ V[pos][k] = Apply(node.fn, y, x))
    BY <1>1, CallValue
  <2>2. a[i.lhs + k] = x
    <3>1. vec \in {node.lhs, node.rhs} /\ vec.kind = "node" /\ Has(vec.of)
      BY <1>1
    <3>2. a[node_to_offset[vec.of] + k] = x
      BY <1>3, <3>1, OperandKnown
    <3>3. QED
      BY <3>2
  <2>3. y = i.val
    BY <1>1 DEF Operand
  <2>4. i.op # "LoadVarVec" /\ i.op \in VecOneOps
    BY DEF VecOneOps
  <2> HIDE DEF x, y, V
  <2>5. Filled(i, a, inputs)[k] = Combine(i.op, x, y)
    BY <2>2, <2>3, <2>4, FilledIs DEF Rhs
  <2>6. node.fn \in {"add", "mul"}
    BY BinOpNode
  <2>7. Apply(node.fn, x, y) = Apply(node.fn, y, x) /\ Apply(node.fn, x, y) = Combine(i.op, x, y)
    <3>1. x \in Int /\ y \in Int
      BY <2>1
    <3>2. Apply(node.fn, x, y) = Apply(node.fn, y, x)
      BY <2>6, <3>1, ApplyIs
    <3>3. Apply(node.fn, x, y) = Combine(IF node.fn = "add" THEN "AddScalarVec" ELSE "MulScalarVec", x, y)
      BY <2>6, <3>1, ApplyIs
    <3>4. QED
      BY <3>2, <3>3
  <2>8. QED
    BY <2>1, <2>5, <2>7
<1>4. QED
  BY <1>2, <1>3 DEF Means

-----------------------------------------------------------------------------
(* Steps that emit nothing: what they pass over is opaque. *)
LEMMA SilentKeepsValues ==
  ASSUME OffsetsInv, ValueInv, UNCHANGED <<fx, memory_offset, output_size, emitted>>,
         status' # "raised" => status # "raised",
         \A n \in 1 .. Len(fx) :
           Ready(n)' => Ready(n) /\ node_to_offset'[n] = node_to_offset[n],
         \A n \in 1 .. Len(fx) - 1 : n < pos' =>
           \/ n < pos /\ Has(n)' = Has(n)
           \/ /\ ~Has(n)'
              /\ InputsInOrder /\ SameSizes => \A inputs \in Fitting : FxValues(inputs)[n] = Opaque,
         pos' <= Len(fx) => pos <= Len(fx),
         pos' > Len(fx) /\ Has(returned)' => pos > Len(fx) /\ Has(returned)
  PROVE  ValueInv'
<1>1. /\ InputsInOrder' = InputsInOrder /\ SameSizes' = SameSizes /\ Fitting' = Fitting
      /\ \A inputs : (FxValues(inputs))' = FxValues(inputs)
  BY SameGraph, SameValues
<1>2. SUFFICES ASSUME InputsInOrder, SameSizes, status # "raised", NEW inputs \in Fitting
               PROVE  /\ \A n \in 1 .. Len(fx) - 1 : n < pos' => Known(n, inputs)'
                      /\ \A size, outs \in Nat : memory_offset <= size =>
                           \A r : r = Run(emitted, NewBuffers(size, outs), inputs)
                             => Computed(r, size, outs, inputs)'
  BY <1>1 DEF ValueInv
<1>3. /\ \A n \in 1 .. Len(fx) - 1 : n < pos => Known(n, inputs)
      /\ \A size, outs \in Nat : memory_offset <= size =>
           \A r : r = Run(emitted, NewBuffers(size, outs), inputs) => Computed(r, size, outs, inputs)
  BY <1>2 DEF ValueInv
<1>4. \A n \in 1 .. Len(fx) - 1 : n < pos' => Known(n, inputs)'
  BY <1>1, <1>2, <1>3 DEF Known
<1>5. ASSUME NEW size, NEW outs, NEW r, Computed(r, size, outs, inputs)
      PROVE  Computed(r, size, outs, inputs)'
  <2>1. Holds(r.i16, inputs) => Holds(r.i16, inputs)'
    BY <1>1 DEF Holds
  <2>2. returned' = returned
    BY DEF returned
  <2>3. QED
    BY <1>1, <1>5, <2>1, <2>2 DEF Computed
<1>6. QED
  BY <1>3, <1>4, <1>5

LEMMA PassesTakesNothing ==
  ASSUME OffsetsInv, Passes
  PROVE  ~AllocMem /\ ~Has(pos)
<1>1. /\ UNCHANGED node_to_offset /\ status = "lowering" /\ fx[pos].op = "call"
      /\ pos \in 1 .. Len(fx) /\ Len(fx) \in Nat
  <2>1. Len(fx) \in Nat
    BY Graph DEF OffsetsInv
  <2>2. QED
    BY <2>1 DEF Passes, Skip, node
<1>2. ~Has(pos)
  BY <1>1 DEF OffsetsInv, IsInput
<1>3. AllocMem => pos \in DOMAIN node_to_offset'
  BY DEF AllocMem, Placed
<1>4. QED
  BY <1>1, <1>2, <1>3 DEF Has

LEMMA PassesKeepsValues ==
  ASSUME OffsetsInv, ValueInv, Passes,
         InputsInOrder /\ SameSizes => \A inputs \in Fitting : FxValues(inputs)[pos] = Opaque
  PROVE  ValueInv'
<1>1. /\ UNCHANGED <<fx, node_to_offset, memory_offset, output_size, emitted, status>>
      /\ pos' = pos + 1 /\ pos \in 1 .. Len(fx) - 1
      /\ \A n \in 1 .. Len(fx) : Ready(n)' = Ready(n)
  BY PassesKeepsOffsets
<1>2. Len(fx) \in Nat
  BY Graph DEF OffsetsInv
<1>3. \A n \in 1 .. Len(fx) - 1 : n < pos' => n < pos \/ n = pos
  BY <1>1
<1>4. ~Has(pos) /\ \A n : Has(n)' = Has(n)
  BY <1>1, PassesTakesNothing DEF Has
<1>5. pos' <= Len(fx) /\ pos <= Len(fx)
  BY <1>1, <1>2
<1>6. QED
  BY <1>1, <1>2, <1>3, <1>4, <1>5, SilentKeepsValues

(* An operand without memory is opaque, and so is the node. *)
LEMMA OpaqueCall ==
  ASSUME OffsetsInv, ValueInv, InputsInOrder, SameSizes, AtBinOp, NEW inputs \in Fitting,
         NEW arg \in {node.lhs, node.rhs}, arg.kind = "node", ~Has(arg.of)
  PROVE  FxValues(inputs)[pos] = Opaque
<1> DEFINE V == FxValues(inputs)
<1>1. /\ status = "lowering" /\ pos \in 1 .. Len(fx) /\ pos \in 1 .. Len(fx) - 1
      /\ fx \in FxGraphs /\ Len(fx) \in Nat /\ node.op = "call"
  <2>1. Len(fx) \in Nat /\ fx \in FxGraphs
    BY Graph DEF OffsetsInv
  <2>2. QED
    BY <2>1, BinOpNode
<1>2. arg.of \in 1 .. pos - 1 /\ arg.of \in 1 .. Len(fx) - 1
  BY OperandReady
<1>3. Known(arg.of, inputs)
  BY <1>1, <1>2 DEF ValueInv
<1>4. OpaqueArg(V, arg)
  BY <1>3 DEF Known, OpaqueArg
<1>5. V[pos] = ValueOf(V, pos, inputs)
  BY <1>1, FxValuesAre
<1>6. QED
  <2> HIDE DEF V
  <2>1. ValueOf(V, pos, inputs) = Opaque
    BY <1>1, <1>4 DEF ValueOf, node
  <2>2. QED
    BY <1>5, <2>1 DEF V

LEMMA SkipKeepsValues ==
  ASSUME OffsetsInv, ValueInv, SkipUnknown
  PROVE  ValueInv'
<1>1. Passes /\ node.op = "call" /\ node.fn \notin {"add", "mul"} /\ fx \in FxGraphs /\ pos \in 1 .. Len(fx)
  <2>1. fx \in FxGraphs /\ pos \in DOMAIN fx /\ node.op = "call" /\ node.fn \notin {"add", "mul"}
    BY DEF OffsetsInv, SkipUnknown, AtNode, node
  <2>2. QED
    BY <2>1, SkipPasses, Graph
<1>2. \A inputs : FxValues(inputs)[pos] = ValueOf(FxValues(inputs), pos, inputs)
  BY <1>1, FxValuesAre
<1>3. \A inputs : ValueOf(FxValues(inputs), pos, inputs) = Opaque
  BY <1>1 DEF ValueOf, node
<1>4. QED
  BY <1>1, <1>2, <1>3, PassesKeepsValues

LEMMA InputKeepsValues ==
  ASSUME OffsetsInv, OrderInv, ValueInv, LowerInput
  PROVE  ValueInv'
<1> DEFINE i == [op |-> "LoadVarVec", var |-> memory_offset, dst |-> memory_offset, len |-> node.numel]
<1>1. Fills(i)
  BY InputFills
<1>2. status = "lowering" /\ pos \in 1 .. Len(fx) /\ IsInput(pos)
  <2>1. Len(fx) \in Nat
    BY Graph DEF OffsetsInv
  <2>2. QED
    BY <1>1, <2>1 DEF Fills
<1>3. i.op = "LoadVarVec" /\ i.var = memory_offset /\ i.len = node.numel
  OBVIOUS
<1> HIDE DEF i
<1>4. InputsInOrder => \A inputs \in Fitting : Means(i, inputs)
  BY <1>2, <1>3, InputMeans
<1>5. QED
  BY <1>1, <1>4, FillsKeepsValues

LEMMA VecKeepsValues ==
  ASSUME OffsetsInv, ValueInv, LowerVec
  PROVE  ValueInv'
<1> DEFINE i == [op |-> IF node.fn = "add" THEN "AddVec" ELSE "MulVec",
                 lhs |-> node_to_offset[node.lhs.of], rhs |-> node_to_offset[node.rhs.of],
                 dst |-> memory_offset, len |-> node.numel]
<1>1. AtBinOp /\ node.lhs.kind = "node" /\ node.rhs.kind = "node"
  BY DEF LowerVec, AllNodes
<1>2. Passes \/ (Ready(node.lhs.of) /\ Ready(node.rhs.of) /\ Fills(i))
  BY VecFills
<1>3. CASE Has(node.lhs.of) /\ Has(node.rhs.of)
  <2>1. AllocMem
    BY <1>3 DEF LowerVec
  <2>2. Fills(i)
    BY <1>2, <2>1, PassesTakesNothing
  <2>3. /\ i.op = (IF node.fn = "add" THEN "AddVec" ELSE "MulVec") /\ i.len = node.numel
        /\ i.lhs = node_to_offset[node.lhs.of] /\ i.rhs = node_to_offset[node.rhs.of]
    OBVIOUS
  <2> HIDE DEF i
  <2>4. InputsInOrder /\ SameSizes => \A inputs \in Fitting : Means(i, inputs)
    BY <1>1, <1>3, <2>3, VecMeans
  <2>5. QED
    BY <2>2, <2>4, FillsKeepsValues
<1>4. CASE ~Has(node.lhs.of) \/ ~Has(node.rhs.of)
  <2>1. Passes
    BY <1>2, <1>4 DEF Ready
  <2>2. InputsInOrder /\ SameSizes => \A inputs \in Fitting : FxValues(inputs)[pos] = Opaque
    BY <1>1, <1>4, OpaqueCall
  <2>3. QED
    BY <2>1, <2>2, PassesKeepsValues
<1>5. QED
  BY <1>3, <1>4

LEMMA RaisesKeepsValues ==
  ASSUME Raises
  PROVE  ValueInv'
BY DEF Raises, ValueInv

LEMMA ScalarKeepsValues ==
  ASSUME OffsetsInv, ValueInv, LowerScalar
  PROVE  ValueInv'
<1>1. AtBinOp /\ ~AllNodes
  BY DEF LowerScalar
<1>2. PICK scalar : scalar = IF node.lhs.kind = "scalar" THEN node.lhs ELSE node.rhs
  OBVIOUS
<1>3. PICK vec : vec = IF node.lhs.kind = "scalar" THEN node.rhs ELSE node.lhs
  OBVIOUS
<1> DEFINE i == [op |-> IF node.fn = "add" THEN "AddScalarVec" ELSE "MulScalarVec",
                 lhs |-> node_to_offset[vec.of], val |-> scalar.of,
                 dst |-> memory_offset, len |-> node.numel]
<1>4. Passes \/ Raises \/ (Ready(vec.of) /\ Fills(i))
  BY <1>2, <1>3, ScalarFills
<1>5. vec \in {node.lhs, node.rhs} /\ vec.kind = "node"
  BY <1>1, <1>3, BinOpNode DEF AllNodes
<1>6. CASE Has(vec.of)
  <2>1. AllocMem
    BY <1>3, <1>5, <1>6 DEF LowerScalar
  <2>2. Raises \/ Fills(i)
    BY <1>4, <2>1, PassesTakesNothing
  <2>3. /\ i.op = (IF node.fn = "add" THEN "AddScalarVec" ELSE "MulScalarVec") /\ i.len = node.numel
        /\ i.lhs = node_to_offset[vec.of] /\ i.val = scalar.of
    OBVIOUS
  <2> HIDE DEF i
  <2>4. InputsInOrder /\ SameSizes => \A inputs \in Fitting : Means(i, inputs)
    BY <1>1, <1>2, <1>3, <1>6, <2>3, ScalarMeans
  <2>5. QED
    BY <2>2, <2>4, FillsKeepsValues, RaisesKeepsValues
<1>7. CASE ~Has(vec.of)
  <2>1. Passes \/ Raises
    BY <1>4, <1>7 DEF Ready
  <2>2. InputsInOrder /\ SameSizes => \A inputs \in Fitting : FxValues(inputs)[pos] = Opaque
    BY <1>1, <1>5, <1>7, OpaqueCall
  <2>3. QED
    BY <2>1, <2>2, PassesKeepsValues, RaisesKeepsValues
<1>8. QED
  BY <1>6, <1>7

LEMMA OutputKeepsValues ==
  ASSUME OffsetsInv, ValueInv, LowerOutput
  PROVE  ValueInv'
<1>1. /\ pos = Len(fx) /\ pos' = pos + 1 /\ Len(fx) \in Nat /\ fx \in FxGraphs
      /\ UNCHANGED <<fx, node_to_offset, memory_offset, status>> /\ status = "lowering"
      /\ returned = node.of /\ node.of \in 1 .. Len(fx) - 1 /\ node.of \in 1 .. Len(fx)
      /\ fx[node.of].numel \in Nat /\ memory_offset \in Nat /\ emitted \in Seq(Lowered)
      /\ \A n \in 1 .. Len(fx) : Ready(n)' = Ready(n)
      /\ \A n : Has(n)' = Has(n)
  <2>1. Len(fx) \in Nat /\ fx \in FxGraphs /\ memory_offset \in Nat /\ emitted \in Seq(Lowered)
    BY Graph DEF OffsetsInv
  <2>2. /\ pos = Len(fx) /\ pos' = pos + 1 /\ UNCHANGED <<fx, node_to_offset, memory_offset, status>>
        /\ status = "lowering" /\ node.of \in 1 .. pos - 1 /\ fx[node.of].numel \in Nat
    BY OutputNode
  <2>3. node.of \in 1 .. Len(fx) - 1 /\ node.of \in 1 .. Len(fx)
    BY <2>1, <2>2
  <2>4. returned = node.of
    BY <2>2 DEF returned, node
  <2>5. \A n : Has(n)' = Has(n)
    BY <2>2 DEF Has
  <2>6. QED
    BY <2>1, <2>2, <2>3, <2>4, <2>5, OutputKeepsOffsets
<1>2. CASE ~Has(node.of)
  <2>1. UNCHANGED <<emitted, output_size>>
    BY <1>2, OutputKeepsOffsets
  <2>2. returned' = returned
    BY <1>1 DEF returned
  <2>3. ~(pos' <= Len(fx)) /\ ~Has(returned)'
    BY <1>1, <1>2, <2>2 DEF Has
  <2>4. \A n \in 1 .. Len(fx) - 1 : n < pos
    BY <1>1
  <2>5. QED
    BY <1>1, <2>1, <2>3, <2>4, SilentKeepsValues
<1>3. CASE Has(node.of)
  <2>1. PICK i \in Lowered :
          /\ i = [op |-> "StoreVec", src |-> node_to_offset[node.of], out |-> 0,
                  len |-> fx[node.of].numel]
          /\ emitted' = Append(emitted, i) /\ output_size' = fx[node.of].numel
    BY <1>3, OutputKeepsOffsets
  <2>2. /\ i.op = "StoreVec" /\ i.src = node_to_offset[node.of] /\ i.out = 0
        /\ i.len = fx[node.of].numel
    BY <2>1
  <2>3. /\ InputsInOrder' = InputsInOrder /\ SameSizes' = SameSizes /\ Fitting' = Fitting
        /\ \A inputs : (FxValues(inputs))' = FxValues(inputs)
    BY <1>1, SameGraph, SameValues
  <2>4. SUFFICES ASSUME InputsInOrder, SameSizes, NEW inputs \in Fitting
                 PROVE  /\ \A n \in 1 .. Len(fx) - 1 : n < pos' => Known(n, inputs)'
                        /\ \A size, outs \in Nat : memory_offset <= size =>
                             \A r : r = Run(emitted', NewBuffers(size, outs), inputs)
                               => Computed(r, size, outs, inputs)'
    BY <1>1, <2>3 DEF ValueInv
  <2>5. /\ \A n \in 1 .. Len(fx) - 1 : n < pos => Known(n, inputs)
        /\ \A size, outs \in Nat : memory_offset <= size =>
             \A r : r = Run(emitted, NewBuffers(size, outs), inputs) => Computed(r, size, outs, inputs)
    BY <1>1, <2>4 DEF ValueInv
  <2>6. \A n \in 1 .. Len(fx) - 1 : n < pos' => Known(n, inputs)'
    <3>1. \A n \in 1 .. Len(fx) - 1 : n < pos
      BY <1>1
    <3>2. QED
      BY <1>1, <2>3, <2>5, <3>1 DEF Known
  <2>7. ASSUME NEW size \in Nat, NEW outs \in Nat, memory_offset <= size,
               NEW q, q = Run(emitted', NewBuffers(size, outs), inputs)
        PROVE  Computed(q, size, outs, inputs)'
    <3> DEFINE V == FxValues(inputs)
    <3>1. PICK r : r = Run(emitted, NewBuffers(size, outs), inputs)
      OBVIOUS
    <3>2. Computed(r, size, outs, inputs)
      BY <2>5, <2>7, <3>1
    <3>3. q = Effect(i, r, inputs)
      <4>1. PICK b : b = NewBuffers(size, outs)
        OBVIOUS
      <4>2. Run(Append(emitted, i), b, inputs) = Effect(i, Run(emitted, b, inputs), inputs)
        BY <1>1, RunMore
      <4>3. QED
        BY <2>1, <2>7, <3>1, <4>1, <4>2
    <3>4. DOMAIN r = Pads /\ DOMAIN r.i16 = 0 .. size - 1 /\ Holds(r.i16, inputs) /\ r.out = Zeros(outs)
      BY <1>1, <3>2 DEF Computed
    <3>5. DOMAIN q = Pads /\ q.i16 = r.i16 /\ q.out = Copy(r.out, i.out, Slice(r.i16, i.src, i.len))
      BY <2>2, <3>3, <3>4, StoreEffect
    <3>6. Holds(q.i16, inputs)'
      <4>1. Holds(q.i16, inputs)
        BY <3>4, <3>5
      <4>2. QED
        BY <1>1, <2>3, <4>1 DEF Holds
    <3>7. ASSUME outs = output_size' PROVE q.out = V[node.of]
      <4>1. V[node.of] \in [0 .. i.len - 1 -> Int]
        <5>1. node.of < pos
          BY <1>1
        <5>2. QED
          BY <1>1, <1>3, <2>2, <2>5, <5>1 DEF Known
      <4>2. q.out = Copy(Zeros(i.len), 0, Slice(r.i16, i.src, i.len))
        BY <2>1, <2>2, <3>4, <3>5, <3>7
      <4>3. \A k \in 0 .. i.len - 1 : r.i16[i.src + k] = V[node.of][k]
        <5>1. Ready(node.of)
          BY <1>3, OutputNode
        <5>2. QED
          BY <1>1, <2>2, <3>4, <5>1 DEF Holds
      <4> HIDE DEF V
      <4>4. q.out = [k \in 0 .. i.len - 1 |-> V[node.of][k]]
        BY <1>1, <2>2, <4>2, <4>3 DEF Copy, Zeros, Slice
      <4>5. QED
        BY <4>1, <4>4
    <3>8. returned' = node.of /\ pos' > Len(fx') /\ ~(pos' <= Len(fx'))
      BY <1>1 DEF returned
    <3>9. QED
      BY <2>3, <3>4, <3>5, <3>6, <3>7, <3>8 DEF Computed
  <2>8. QED
    BY <2>6, <2>7
<1>4. QED
  BY <1>2, <1>3

LEMMA FirstKeepsValues ==
  ASSUME OffsetsInv, ValueInv, FirstPass
  PROVE  ValueInv'
<1>1. /\ pos = 0 /\ pos' = 1 /\ Len(fx) \in Nat \ {0}
      /\ UNCHANGED <<fx, memory_offset, output_size, emitted, status>>
      /\ \A n \in 1 .. Len(fx) : ~Ready(n)'
  BY FirstKeepsOffsets, Graph DEF FirstPass, OffsetsInv
<1>2. \A n \in 1 .. Len(fx) - 1 : ~(n < pos')
  BY <1>1
<1>3. pos <= Len(fx) /\ ~(pos' > Len(fx))
  BY <1>1
<1>4. QED
  BY <1>1, <1>2, <1>3, SilentKeepsValues

LEMMA RestKeepsValues ==
  ASSUME OffsetsInv, ValueInv, Finish \/ UNCHANGED vars
  PROVE  ValueInv'
<1>1. /\ UNCHANGED <<fx, pos, node_to_offset, memory_offset, output_size, emitted>>
      /\ status' # "raised" => status # "raised"
      /\ \A n \in 1 .. Len(fx) : Ready(n)' = Ready(n)
  BY RestKeepsOffsets
<1>2. returned' = returned /\ \A n : Has(n)' = Has(n)
  BY <1>1 DEF returned, Has
<1>3. Has(returned)' = Has(returned)
  BY <1>1, <1>2 DEF Has
<1>4. QED
  BY <1>1, <1>2, <1>3, SilentKeepsValues

LEMMA InitValues == Init => ValueInv
<1>1. SUFFICES ASSUME Init PROVE ValueInv
  OBVIOUS
<1>2. /\ emitted = <<>> /\ pos = 0 /\ memory_offset = 0 /\ Len(fx) \in Nat
      /\ \A n \in 1 .. Len(fx) : ~Ready(n)
  <2>1. emitted = <<>> /\ pos = 0 /\ memory_offset = 0 /\ fx \in FxGraphs
    BY <1>1 DEF Init
  <2>2. Len(fx) \in Nat
    BY <2>1, Graph
  <2>3. \A n \in 1 .. Len(fx) : ~Ready(n)
    BY <2>1 DEF Ready
  <2>4. QED
    BY <2>1, <2>2, <2>3
<1>3. ASSUME NEW size \in Nat, NEW outs \in Nat, NEW inputs, NEW r,
             r = Run(emitted, NewBuffers(size, outs), inputs)
      PROVE  Computed(r, size, outs, inputs)
  <2>1. r = NewBuffers(size, outs)
    <3>1. emitted \in Seq(Lowered) /\ Len(emitted) = 0
      BY <1>2
    <3>2. PICK b : b = NewBuffers(size, outs)
      OBVIOUS
    <3>3. Stages(emitted, b, inputs)[0] = b
      <4>1. ASSUME NEW s \in Seq(Lowered) PROVE Stages(s, b, inputs)[0] = b
        BY StagesAre
      <4>2. QED
        BY <3>1, <4>1
    <3>4. QED
      BY <1>3, <3>1, <3>2, <3>3 DEF Run
  <2>2. DOMAIN r = Pads /\ r.i16 = Zeros(size) /\ r.out = Zeros(outs)
    BY <2>1 DEF NewBuffers, Pads
  <2>3. DOMAIN Zeros(size) = 0 .. size - 1
    BY DEF Zeros
  <2>4. Holds(r.i16, inputs)
    BY <1>2 DEF Holds
  <2>5. ~(pos > Len(fx))
    BY <1>2
  <2>6. QED
    BY <2>2, <2>3, <2>4, <2>5 DEF Computed
<1>4. \A n \in 1 .. Len(fx) - 1 : ~(n < pos)
  BY <1>2
<1>5. QED
  BY <1>3, <1>4 DEF ValueInv

LEMMA NextValues == OffsetsInv /\ OrderInv /\ ValueInv /\ [Next]_vars => ValueInv'
<1>1. SUFFICES ASSUME OffsetsInv, OrderInv, ValueInv, [Next]_vars PROVE ValueInv'
  OBVIOUS
<1>2. QED
  BY <1>1, FirstKeepsValues, InputKeepsValues, SkipKeepsValues, VecKeepsValues, ScalarKeepsValues,
     OutputKeepsValues, RestKeepsValues DEF Next

-----------------------------------------------------------------------------
(* The result is stored exactly when its node has memory, and the planned  *)
(* memory holds all that was given out. *)
StoreInv ==
  /\ pos <= Len(fx) => \A k \in DOMAIN emitted : emitted[k].op # "StoreVec"
  /\ pos > Len(fx) => (Has(returned) <=> \E k \in DOMAIN emitted : emitted[k].op = "StoreVec")
  /\ status # "raised" =>
       memory_offset = 0 \/ \E k \in DOMAIN emitted : memory_offset <= PlanEnd(emitted[k])

LEMMA NextStore == OffsetsInv /\ StoreInv /\ [Next]_vars => StoreInv'
<1>1. SUFFICES ASSUME OffsetsInv, StoreInv, [Next]_vars PROVE StoreInv'
  OBVIOUS
<1>2. Len(fx) \in Nat \ {0} /\ emitted \in Seq(Lowered)
  BY <1>1, Graph DEF OffsetsInv
<1>3. ASSUME NEW i, Fills(i) PROVE StoreInv'
  <2>1. /\ UNCHANGED fx /\ status = "lowering" /\ status' = status /\ pos \in 1 .. Len(fx) - 1
        /\ pos' = pos + 1 /\ memory_offset' = memory_offset + i.len
        /\ i \in Lowered /\ i.op # "StoreVec" /\ i.dst = memory_offset /\ emitted' = Append(emitted, i)
    BY <1>3 DEF Fills, Goes, AllocMem, Emits
  <2>2. /\ DOMAIN emitted = 1 .. Len(emitted) /\ DOMAIN emitted' = 1 .. Len(emitted) + 1
        /\ Len(emitted) \in Nat /\ \A j \in 1 .. Len(emitted) : emitted'[j] = emitted[j]
        /\ emitted'[Len(emitted) + 1] = i
    BY <1>2, <2>1, OneMore
  <2>3. pos <= Len(fx) /\ ~(pos' > Len(fx'))
    BY <1>2, <2>1
  <2>4. \A k \in DOMAIN emitted' : emitted'[k].op # "StoreVec"
    <3>1. \A k \in 1 .. Len(emitted) : emitted[k].op # "StoreVec"
      BY <1>1, <2>2, <2>3 DEF StoreInv
    <3>2. \A k \in DOMAIN emitted' : k \in 1 .. Len(emitted) \/ k = Len(emitted) + 1
      BY <2>2
    <3>3. QED
      BY <2>1, <2>2, <3>1, <3>2
  <2>5. \E k \in DOMAIN emitted' : memory_offset' <= PlanEnd(emitted'[k])
    <3>1. memory_offset' <= PlanEnd(i)
      BY <2>1, PlanEndIs
    <3>2. Len(emitted) + 1 \in DOMAIN emitted'
      BY <2>2
    <3>3. QED
      BY <2>2, <3>1, <3>2
  <2>6. QED
    BY <2>3, <2>4, <2>5 DEF StoreInv
<1>4. ASSUME LowerOutput PROVE StoreInv'
  <2>1. /\ UNCHANGED <<fx, node_to_offset, memory_offset>> /\ pos = Len(fx) /\ pos' = pos + 1
        /\ status = "lowering" /\ status' = status
    BY <1>1, <1>4, OutputNode
  <2>2. pos' > Len(fx') /\ ~(pos' <= Len(fx')) /\ pos <= Len(fx)
    BY <1>2, <2>1
  <2>3. returned' = node.of /\ \A n : Has(n)' = Has(n)
    BY <2>1 DEF returned, node, Has
  <2>4. Has(returned)' = Has(node.of)
    BY <2>1, <2>3 DEF Has
  <2>5. /\ \A k \in DOMAIN emitted : emitted[k].op # "StoreVec"
        /\ memory_offset = 0 \/ \E k \in DOMAIN emitted : memory_offset <= PlanEnd(emitted[k])
    BY <1>1, <2>1, <2>2 DEF StoreInv
  <2>6. CASE ~Has(node.of)
    <3>1. emitted' = emitted
      BY <1>1, <1>4, <2>6, OutputKeepsOffsets
    <3>2. QED
      BY <2>1, <2>2, <2>4, <2>5, <2>6, <3>1 DEF StoreInv
  <2>7. CASE Has(node.of)
    <3>1. PICK i \in Lowered : i.op = "StoreVec" /\ emitted' = Append(emitted, i)
      BY <1>1, <1>4, <2>7, OutputKeepsOffsets
    <3>2. /\ DOMAIN emitted = 1 .. Len(emitted) /\ DOMAIN emitted' = 1 .. Len(emitted) + 1
          /\ Len(emitted) \in Nat /\ \A j \in 1 .. Len(emitted) : emitted'[j] = emitted[j]
          /\ emitted'[Len(emitted) + 1] = i
      BY <1>2, <3>1, OneMore
    <3>3. \E k \in DOMAIN emitted' : emitted'[k].op = "StoreVec"
      <4>1. Len(emitted) + 1 \in DOMAIN emitted'
        BY <3>2
      <4>2. QED
        BY <3>1, <3>2, <4>1
    <3>4. memory_offset = 0 \/ \E k \in DOMAIN emitted' : memory_offset <= PlanEnd(emitted'[k])
      <4>1. \A k \in DOMAIN emitted : k \in DOMAIN emitted' /\ emitted'[k] = emitted[k]
        BY <3>2
      <4>2. QED
        BY <2>5, <4>1
    <3>5. QED
      BY <2>1, <2>2, <2>4, <2>7, <3>3, <3>4 DEF StoreInv
  <2>8. QED
    BY <2>6, <2>7
<1>5. ASSUME Passes PROVE StoreInv'
  <2>1. UNCHANGED <<fx, node_to_offset, memory_offset, emitted, status>>
        /\ pos' = pos + 1 /\ pos \in 1 .. Len(fx) - 1
    BY <1>1, <1>5, PassesKeepsOffsets
  <2>2. pos <= Len(fx) /\ ~(pos' > Len(fx'))
    BY <1>2, <2>1
  <2>3. QED
    BY <1>1, <2>1, <2>2 DEF StoreInv
<1>6. ASSUME Raises PROVE StoreInv'
  <2>1. UNCHANGED <<fx, pos, emitted>> /\ status' = "raised" /\ pos \in 1 .. Len(fx) - 1
    BY <1>6 DEF Raises
  <2>2. pos <= Len(fx) /\ ~(pos' > Len(fx'))
    BY <1>2, <2>1
  <2>3. QED
    BY <1>1, <2>1, <2>2 DEF StoreInv
<1>7. ASSUME FirstPass PROVE StoreInv'
  <2>1. UNCHANGED <<fx, emitted, status, memory_offset>> /\ pos = 0 /\ pos' = 1
    BY <1>7 DEF FirstPass
  <2>2. pos <= Len(fx) /\ ~(pos' > Len(fx'))
    BY <1>2, <2>1
  <2>3. QED
    BY <1>1, <2>1, <2>2 DEF StoreInv
<1>8. ASSUME Finish \/ UNCHANGED vars PROVE StoreInv'
  <2>1. /\ UNCHANGED <<fx, pos, node_to_offset, memory_offset, emitted>>
        /\ status' # "raised" => status # "raised"
    BY <1>1, <1>8, RestKeepsOffsets
  <2>2. returned' = returned
    BY <2>1 DEF returned
  <2>3. Has(returned)' = Has(returned)
    BY <2>1, <2>2 DEF Has
  <2>4. QED
    BY <1>1, <2>1, <2>3 DEF StoreInv
<1>9. QED
  BY <1>1, <1>3, <1>4, <1>5, <1>6, <1>7, <1>8, Kinds

LEMMA InitStore == Init => StoreInv
<1>1. SUFFICES ASSUME Init PROVE StoreInv
  OBVIOUS
<1>2. emitted = <<>> /\ DOMAIN emitted = {} /\ pos = 0 /\ memory_offset = 0 /\ Len(fx) \in Nat
  <2>1. emitted = <<>> /\ pos = 0 /\ memory_offset = 0 /\ fx \in FxGraphs
    BY <1>1 DEF Init
  <2>2. Len(fx) \in Nat
    BY <2>1, Graph
  <2>3. DOMAIN emitted = {}
    BY <2>1
  <2>4. QED
    BY <2>1, <2>2, <2>3
<1>3. ~(pos > Len(fx))
  BY <1>2
<1>4. QED
  BY <1>2, <1>3 DEF StoreInv

LEMMA ValueInvariant == Spec => [](OffsetsInv /\ ValueInv /\ StoreInv)
<1>1. QED
  BY FitInvariant, InitValues, InitStore, NextValues, NextStore, PTL DEF Spec

(* Where the inputs come first and in order and no operand is broadcast,   *)
(* the lowered program stores what the FX graph says of its inputs, or it  *)
(* stores nothing, which only happens when the result depends on a         *)
(* function that is not known. *)
THEOREM LoweringIsFaithful == Spec => []StoresFxResult
<1>1. ASSUME OffsetsInv, ValueInv, StoreInv PROVE StoresFxResult
  <2>1. SUFFICES ASSUME status = "lowered", InputsInOrder, SameSizes, NEW inputs \in InputSet,
                        Size(inputs) = InputLen
                 PROVE  IF \A n \in DOMAIN emitted : emitted[n].op # "StoreVec"
                        THEN FxResult(inputs) = Opaque
                        ELSE Run(emitted, NewBuffers(Plan(emitted).memory_size, output_size), inputs).out
                               = FxResult(inputs)
    BY DEF StoresFxResult
  <2> DEFINE V == FxValues(inputs)
             M == Plan(emitted).memory_size
             r == Run(emitted, NewBuffers(M, output_size), inputs)
  <2>2. /\ inputs \in Fitting /\ fx \in FxGraphs /\ pos = Len(fx) + 1 /\ Len(fx) \in Nat \ {0}
        /\ emitted \in Seq(Lowered) /\ memory_offset \in Nat /\ output_size \in Nat
        /\ returned \in 1 .. Len(fx) - 1 /\ returned < pos /\ pos > Len(fx)
    <3>1. /\ inputs \in Fitting /\ fx \in FxGraphs /\ pos = Len(fx) + 1 /\ Len(fx) \in Nat \ {0}
          /\ emitted \in Seq(Lowered) /\ memory_offset \in Nat /\ output_size \in Nat
      BY <1>1, <2>1, Graph DEF OffsetsInv, Fitting
    <3>2. Len(fx) \in 1 .. Len(fx)
      BY <3>1
    <3>3. returned \in 1 .. Len(fx) - 1
      BY <3>1, <3>2, Graph DEF returned
    <3>4. QED
      BY <3>1, <3>3
  <2>3. FxResult(inputs) = V[returned]
    <3>1. Len(fx) \in 1 .. Len(fx) /\ fx[Len(fx)].op = "output"
      <4>1. Len(fx) \in 1 .. Len(fx)
        BY <2>2
      <4>2. QED
        BY <2>2, <4>1, Graph
    <3>2. V[Len(fx)] = ValueOf(V, Len(fx), inputs)
      BY <2>2, <3>1, FxValuesAre
    <3> HIDE DEF V
    <3>3. ValueOf(V, Len(fx), inputs) = V[returned]
      BY <3>1 DEF ValueOf, returned
    <3>4. QED
      BY <3>2, <3>3 DEF FxResult, V
  <2>4. memory_offset <= M /\ M \in Nat
    <3>1. M \in Nat /\ \A k \in DOMAIN emitted : PlanEnd(emitted[k]) <= M /\ PlanEnd(emitted[k]) \in Nat
      <4>1. M \in Nat /\ \A k \in DOMAIN emitted : PlanEnd(emitted[k]) <= M
        BY <2>2, PlanCovers
      <4>2. \A k \in DOMAIN emitted : emitted[k] \in Lowered
        BY <2>2
      <4>3. QED
        BY <4>1, <4>2, PlanEndIs
    <3>2. memory_offset = 0 \/ \E k \in DOMAIN emitted : memory_offset <= PlanEnd(emitted[k])
      BY <1>1, <2>1 DEF StoreInv
    <3> HIDE DEF M
    <3>3. QED
      BY <2>2, <3>1, <3>2
  <2>5. Known(returned, inputs)
    BY <1>1, <2>1, <2>2 DEF ValueInv
  <2>6. Has(returned) <=> \E k \in DOMAIN emitted : emitted[k].op = "StoreVec"
    BY <1>1, <2>2 DEF StoreInv
  <2>7. CASE ~Has(returned)
    BY <2>3, <2>5, <2>6, <2>7 DEF Known
  <2>8. CASE Has(returned)
    <3>1. Computed(r, M, output_size, inputs)
      <4> HIDE DEF M
      <4>1. QED
        BY <1>1, <2>1, <2>2, <2>4 DEF ValueInv
    <3>2. r.out = V[returned]
      BY <2>2, <2>8, <3>1 DEF Computed
    <3>3. QED
      BY <2>3, <2>6, <2>8, <3>2
  <2>9. QED
    BY <2>7, <2>8
<1>2. QED
  BY <1>1, ValueInvariant, PTL
=============================================================================
