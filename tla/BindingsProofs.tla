--------------------------- MODULE BindingsProofs ---------------------------
(***************************************************************************)
(* Proofs about the Python bindings (src/src/ffi.rs).                      *)
(*                                                                         *)
(* XimEngine: for any parameters, dynamic inputs and number of calls, what *)
(* the input buffer holds.                                                 *)
(*                                                                         *)
(* XimCompiler: for any number of compilers, any instructions and any      *)
(* number of them, an engine only ever gets a whole graph.                 *)
(***************************************************************************)
EXTENDS Engine, Compiler, SequenceTheorems, Recursion, TLAPS

(* The recursion of Flat has a solution and yields sequences of values.    *)
LEMMA FlatType ==
  ASSUME NEW params, \A id \in DOMAIN params : params[id] \in Seq(Int)
  PROVE  Flat(params) \in Seq(Int)
<1> DEFINE Longer(n, s) == IF n - 1 \in DOMAIN params THEN s \o params[n - 1] ELSE s
           F(f)  == [n \in 0 .. MaxId + 1 |-> IF n = 0 THEN <<>> ELSE Longer(n, f[n - 1])]
           upto  == CHOOSE f : f = F(f)
           step  == [pair \in (1 .. MaxId + 1) \X Seq(Int) |-> Longer(pair[1], pair[2])]
<1>1. Flat(params) = upto[MaxId + 1]
  BY DEF Flat
<1>2. MaxId \in Nat
  BY EngineAssumption
<1>3. ASSUME NEW n, NEW s \in Seq(Int) PROVE Longer(n, s) \in Seq(Int)
  BY ConcatProperties
<1>4. step \in [(1 .. MaxId + 1) \X Seq(Int) -> Seq(Int)]
  <2> HIDE DEF Longer
  <2>1. QED
    BY <1>3
<1>5. PICK f \in [0 .. MaxId + 1 -> Seq(Int)] : Solves(f, MaxId + 1, <<>>, step)
  <2> HIDE DEF step
  <2>1. <<>> \in Seq(Int) /\ MaxId + 1 \in Nat
    BY <1>2
  <2>2. QED
    BY <1>4, <2>1, SolutionExists
<1>6. f = F(f)
  <2>1. \A n \in 1 .. MaxId + 1 : f[n] = Longer(n, f[n - 1])
    <3>1. \A n \in 1 .. MaxId + 1 : <<n, f[n - 1]>> \in (1 .. MaxId + 1) \X Seq(Int)
      BY <1>2
    <3>2. \A n \in 1 .. MaxId + 1 : step[<<n, f[n - 1]>>] = Longer(n, f[n - 1])
      <4> HIDE DEF Longer
      <4>1. QED
        BY <3>1
    <3>3. QED
      <4> HIDE DEF step, Longer
      <4>1. QED
        BY <1>5, <3>2 DEF Solves
  <2>2. f[0] = <<>>
    BY <1>5 DEF Solves
  <2>3. QED
    <3> HIDE DEF Longer
    <3>1. QED
      BY <1>2, <2>1, <2>2
<1>7. upto = F(upto)
  <2> HIDE DEF F
  <2>1. QED
    BY <1>6
<1>8. upto[0] = <<>> /\ \A n \in 1 .. MaxId + 1 : upto[n] = Longer(n, upto[n - 1])
  <2> HIDE DEF upto, Longer
  <2>1. \A n \in 0 .. MaxId + 1 : upto[n] = IF n = 0 THEN <<>> ELSE Longer(n, upto[n - 1])
    BY <1>7
  <2>2. 0 \in 0 .. MaxId + 1 /\ \A n \in 1 .. MaxId + 1 : n \in 0 .. MaxId + 1 /\ n # 0
    BY <1>2
  <2>3. QED
    BY <2>1, <2>2
<1>9. \A n \in Nat : n <= MaxId + 1 => upto[n] \in Seq(Int)
  <2> HIDE DEF upto, Longer
  <2> DEFINE Good == {n \in Nat : n <= MaxId + 1 => upto[n] \in Seq(Int)}
  <2>1. 0 \in Good
    <3>1. <<>> \in Seq(Int)
      OBVIOUS
    <3>2. upto[0] \in Seq(Int)
      BY <1>8, <3>1
    <3>3. QED
      BY <3>2
  <2>2. ASSUME NEW n \in Nat, n \in Good PROVE n + 1 \in Good
    <3>1. SUFFICES ASSUME n + 1 <= MaxId + 1 PROVE upto[n + 1] \in Seq(Int)
      OBVIOUS
    <3>2. upto[n] \in Seq(Int) /\ n + 1 \in 1 .. MaxId + 1 /\ n + 1 - 1 = n
      BY <1>2, <2>2, <3>1
    <3>3. upto[n + 1] = Longer(n + 1, upto[n])
      BY <1>8, <3>2
    <3>4. QED
      BY <1>3, <3>2, <3>3
  <2>3. Nat \subseteq Good
    <3> HIDE DEF Good
    <3>1. QED
      BY <2>1, <2>2, SetInduction
  <2>4. QED
    BY <2>3
<1>10. QED
  <2> HIDE DEF upto
  <2>1. QED
    BY <1>1, <1>2, <1>9

-----------------------------------------------------------------------------
(* What every operation preserves: the buffer is empty before the first    *)
(* call and, while no parameter was set late, up to date after it.         *)
BufferInv ==
  /\ TypeOK
  /\ input_buffer \in Seq(Int) /\ last.dyn \in Seq(Int)
  /\ last = NoCall => input_buffer = <<>>
  /\ PreloadedLayout

LEMMA SecondPart ==
  ASSUME NEW s \in Seq(Int), NEW t \in Seq(Int)
  PROVE  SubSeq(s \o t, Len(s) + 1, Len(s) + Len(t)) = t
OBVIOUS

LEMMA FlatOfParameters == TypeOK => Flat(parameters) \in Seq(Int)
<1>1. TypeOK => \A id \in DOMAIN parameters : parameters[id] \in Seq(Int)
  BY EngineAssumption DEF TypeOK
<1>2. QED
  BY <1>1, FlatType

(* A buffer of the right length keeps its length. *)
LEMMA AssembledLength ==
  ASSUME BufferInv, NEW dyn \in Tensors
  PROVE  /\ Assembled(dyn) \in Seq(Int)
         /\ ~FirstTime(dyn) => /\ Len(Assembled(dyn)) = Len(input_buffer)
                               /\ Len(input_buffer) = Len(dyn) + Len(Flat(parameters))
         /\ FirstTime(dyn) => Assembled(dyn) = dyn \o Flat(parameters)
<1>1. dyn \in Seq(Int) /\ Flat(parameters) \in Seq(Int) /\ input_buffer \in Seq(Int)
  BY FlatOfParameters, EngineAssumption DEF BufferInv
<1>2. CASE FirstTime(dyn)
  <2>1. Assembled(dyn) = dyn \o Flat(parameters)
    BY <1>2 DEF Assembled
  <2>2. QED
    BY <1>1, <1>2, <2>1, ConcatProperties
<1>3. CASE ~FirstTime(dyn)
  <2> DEFINE rest == SubSeq(input_buffer, Len(dyn) + 1, Len(input_buffer))
  <2>1. Len(input_buffer) = Len(dyn) + Len(Flat(parameters))
    BY <1>3 DEF FirstTime, TotalLen
  <2>2. Len(dyn) \in Nat /\ Len(Flat(parameters)) \in Nat /\ Len(input_buffer) \in Nat
    BY <1>1, LenProperties
  <2>3. rest \in Seq(Int) /\ Len(rest) = Len(input_buffer) - Len(dyn)
    <3>1. \A i \in Len(dyn) + 1 .. Len(input_buffer) : input_buffer[i] \in Int
      BY <1>1, <2>2, ElementOfSeq
    <3>2. QED
      BY <2>1, <2>2, <3>1, SubSeqProperties
  <2>4. Assembled(dyn) = dyn \o rest
    BY <1>3 DEF Assembled
  <2>5. QED
    <3> HIDE DEF rest
    <3>1. Len(dyn \o rest) = Len(dyn) + Len(rest) /\ dyn \o rest \in Seq(Int)
      BY <1>1, <2>3, ConcatProperties
    <3>2. QED
      BY <1>3, <2>1, <2>2, <2>3, <2>4, <3>1
<1>4. QED
  BY <1>2, <1>3

LEMMA InitBuffer == Init => BufferInv
<1>1. SUFFICES ASSUME Init PROVE BufferInv
  OBVIOUS
<1>2. <<>> \in Seq(Int) /\ DOMAIN <<>> = {}
  OBVIOUS
<1>3. DOMAIN parameters = {} /\ input_buffer = <<>> /\ last = NoCall
  BY <1>1, <1>2 DEF Init
<1>4. last.dyn = <<>> /\ last.backend = "none"
  BY <1>3 DEF NoCall
<1>5. TypeOK
  <2>1. jit \in BOOLEAN /\ aot \in BOOLEAN /\ late \in BOOLEAN
    BY <1>1 DEF Init
  <2>2. output_len \in OutLens \union {0} /\ ops \in 0 .. MaxOps
    BY <1>1, EngineAssumption DEF Init
  <2>3. QED
    BY <1>3, <1>4, <2>1, <2>2 DEF TypeOK
<1>6. QED
  BY <1>2, <1>3, <1>4, <1>5 DEF BufferInv, PreloadedLayout, Ran

LEMMA SetParameterBuffer ==
  ASSUME BufferInv, NEW id \in Ids, NEW tensor \in Tensors, SetParameter(id, tensor)
  PROVE  BufferInv'
<1>1. TypeOK'
  <2>1. DOMAIN parameters' = DOMAIN parameters \union {id}
    BY DEF SetParameter
  <2>2. \A k \in DOMAIN parameters' : parameters'[k] \in Tensors
    BY DEF SetParameter, BufferInv, TypeOK
  <2>3. late' \in BOOLEAN /\ ops' \in 0 .. MaxOps
    BY EngineAssumption DEF SetParameter, Alive, BufferInv, TypeOK
  <2>4. QED
    BY <2>1, <2>2, <2>3 DEF SetParameter, BufferInv, TypeOK
<1>2. PreloadedLayout'
  BY DEF SetParameter, PreloadedLayout, Ran, NoCall
<1>3. QED
  BY <1>1, <1>2 DEF SetParameter, BufferInv, NoCall

LEMMA CompileBuffer ==
  ASSUME BufferInv, CompileJit \/ CompileAot
  PROVE  BufferInv'
<1>1. TypeOK'
  <2>1. jit' \in BOOLEAN /\ aot' \in BOOLEAN /\ late' \in BOOLEAN
    BY DEF CompileJit, CompileAot, BufferInv, TypeOK
  <2>2. ops' \in 0 .. MaxOps
    BY EngineAssumption DEF CompileJit, CompileAot, Alive, BufferInv, TypeOK
  <2>3. QED
    BY <2>1, <2>2 DEF CompileJit, CompileAot, BufferInv, TypeOK
<1>2. QED
  BY <1>1 DEF CompileJit, CompileAot, BufferInv, PreloadedLayout, Ran, Current, NoCall, Flat

LEMMA ExecuteBuffer ==
  ASSUME BufferInv, NEW dyn \in Tensors, NEW n \in OutLens, ExecuteGraph(dyn, n)
  PROVE  BufferInv'
<1>1. TypeOK'
  BY EngineAssumption DEF ExecuteGraph, Alive, Backend, BufferInv, TypeOK
<1>2. /\ input_buffer' = Assembled(dyn) /\ parameters' = parameters /\ late' = late
      /\ last'.dyn = dyn /\ last'.backend \in {"jit", "aot", "vm"}
  BY DEF ExecuteGraph, Backend
<1>3. last' # NoCall
  BY <1>2 DEF NoCall
<1>4. dyn \in Seq(Int) /\ Flat(parameters) \in Seq(Int) /\ last.dyn \in Seq(Int)
  BY FlatOfParameters, EngineAssumption DEF BufferInv
<1>5. ~late => Assembled(dyn) = dyn \o Flat(parameters)
  <2>1. SUFFICES ASSUME ~late, ~FirstTime(dyn) PROVE Assembled(dyn) = dyn \o Flat(parameters)
    BY AssembledLength
  <2>2. /\ Len(input_buffer) = Len(dyn) + Len(Flat(parameters))
        /\ Assembled(dyn) = dyn \o SubSeq(input_buffer, Len(dyn) + 1, Len(input_buffer))
    BY <2>1, AssembledLength DEF Assembled
  <2>3. CASE last = NoCall
    <3>1. input_buffer = <<>> /\ Len(input_buffer) = 0
      BY <2>3 DEF BufferInv
    <3>2. Len(dyn) = 0 /\ Len(Flat(parameters)) = 0
      BY <1>4, <2>2, <3>1, LenProperties
    <3>3. Flat(parameters) = <<>>
      BY <1>4, <3>2, EmptySeq
    <3>4. SubSeq(input_buffer, Len(dyn) + 1, Len(input_buffer)) = <<>>
      BY <3>1, <3>2, SubSeqEmpty
    <3>5. QED
      BY <2>2, <3>3, <3>4
  <2>4. CASE last # NoCall
    <3>1. input_buffer = last.dyn \o Flat(parameters)
      BY <2>1, <2>4 DEF BufferInv, PreloadedLayout, Ran, Current
    <3>2. Len(last.dyn) = Len(dyn)
      BY <1>4, <2>2, <3>1, ConcatProperties, LenProperties
    <3>3. Len(input_buffer) = Len(last.dyn) + Len(Flat(parameters))
      BY <2>2, <3>2
    <3>4. SubSeq(input_buffer, Len(dyn) + 1, Len(input_buffer)) = Flat(parameters)
      BY <1>4, <3>1, <3>2, <3>3, SecondPart
    <3>5. QED
      BY <2>2, <3>4
  <2>5. QED
    BY <2>3, <2>4
<1>6. PreloadedLayout'
  BY <1>2, <1>5 DEF PreloadedLayout, Current, Flat
<1>7. Assembled(dyn) \in Seq(Int)
  BY AssembledLength
<1>8. QED
  BY <1>1, <1>2, <1>3, <1>4, <1>6, <1>7 DEF BufferInv, NoCall

LEMMA NextBuffer == BufferInv /\ [Next]_vars => BufferInv'
<1>1. SUFFICES ASSUME BufferInv, [Next]_vars PROVE BufferInv'
  OBVIOUS
<1>2. CASE Next
  BY <1>1, <1>2, SetParameterBuffer, ExecuteBuffer, CompileBuffer DEF Next
<1>3. CASE UNCHANGED vars
  <2>1. TypeOK'
    BY <1>1, <1>3 DEF vars, engine, BufferInv, TypeOK, Current, NoCall
  <2>2. PreloadedLayout'
    BY <1>1, <1>3 DEF vars, engine, BufferInv, PreloadedLayout, Ran, Current, NoCall, Flat
  <2>3. QED
    BY <1>1, <1>3, <2>1, <2>2 DEF vars, engine, BufferInv, Ran, Current, NoCall, Flat
<1>4. QED
  BY <1>1, <1>2, <1>3

LEMMA BufferInvariant == Spec => []BufferInv
<1>1. QED
  BY InitBuffer, NextBuffer, PTL DEF Spec

(* The engine's state is well-formed, and every call goes to one of the    *)
(* three backends (ffi.rs:159).                                            *)
THEOREM EngineTypes == Spec => []TypeOK
<1>1. BufferInv => TypeOK
  BY DEF BufferInv
<1>2. QED
  BY <1>1, BufferInvariant, PTL

(* With all its parameters set before the first call, the graph always     *)
(* runs on the dynamic inputs followed by the parameters (ffi.rs:119).     *)
THEOREM LayoutIsPreloaded == Spec => []PreloadedLayout
<1>1. BufferInv => PreloadedLayout
  BY DEF BufferInv
<1>2. QED
  BY <1>1, BufferInvariant, PTL

(* A call whose total length differs from the last one's refreshes the     *)
(* whole buffer (ffi.rs:127).                                              *)
THEOREM ParametersArriveLate == Spec => LateParametersArrive
<1>1. BufferInv /\ [Next]_vars =>
        [Len(input_buffer') # Len(input_buffer) =>
           input_buffer' = last'.dyn \o Flat(parameters)]_vars
  <2>1. SUFFICES ASSUME BufferInv, Next, Len(input_buffer') # Len(input_buffer)
                 PROVE  input_buffer' = last'.dyn \o Flat(parameters)
    OBVIOUS
  <2>2. PICK dyn \in Tensors, n \in OutLens : ExecuteGraph(dyn, n)
    BY <2>1 DEF Next, SetParameter, CompileJit, CompileAot
  <2>3. input_buffer' = Assembled(dyn) /\ last'.dyn = dyn
    BY <2>2 DEF ExecuteGraph
  <2>4. QED
    BY <2>1, <2>3, AssembledLength
<1>2. QED
  BY <1>1, BufferInvariant, PTL DEF Spec, LateParametersArrive

-----------------------------------------------------------------------------
(* A planned graph of the first instructions of a compiler that reported a *)
(* successful save. *)
Whole(g) ==
  \E p \in saves : \E n \in 0 .. Len(told[p]) : g = Plan(SubSeq(told[p], 1, n))

(* EngineGraphIsWhole is not inductive: an engine takes what is in the     *)
(* file, and the file what is in a builder, so both are described too.     *)
CInv ==
  /\ told \in [Compilers -> Seq(Ops)]
  /\ builder \in [Compilers -> Seq(Ops) \union {Taken}]
  /\ \A p \in Compilers : Len(told[p]) <= MaxLen
  /\ \A p \in Compilers : builder[p] = Taken \/ builder[p] = told[p]
  /\ saves \subseteq Compilers
  /\ file \notin {Absent, Torn} => Whole(file)
  /\ loaded # Absent => Whole(loaded)

-----------------------------------------------------------------------------
(* The first instructions stay the first ones when another one is added.   *)
LEMMA PrefixStays ==
  ASSUME NEW s \in Seq(Ops), NEW ins \in Ops, NEW n \in 0 .. Len(s)
  PROVE  /\ n \in 0 .. Len(Append(s, ins))
         /\ SubSeq(Append(s, ins), 1, n) = SubSeq(s, 1, n)
<1>1. Append(s, ins) = s \o <<ins>> /\ Len(Append(s, ins)) = Len(s) + 1
  BY AppendIsConcat, AppendProperties
<1>2. <<ins>> \in Seq(Ops)
  OBVIOUS
<1>3. SubSeq(s \o <<ins>>, 1, n) = SubSeq(s, 1, n)
  <2>1. CASE n = 0
    BY <2>1, <1>2, SubSeqEmpty, ConcatProperties, LenProperties
  <2>2. CASE n # 0
    <3>1. 1 \in 1 .. Len(s) /\ n \in 1 .. Len(s)
      BY <2>2, LenProperties
    <3>2. QED
      BY <3>1, <1>2, SubSeqOfConcat1
  <2>3. QED
    BY <2>1, <2>2
<1>4. QED
  BY <1>1, <1>3

(* A graph that is whole stays whole when only more is said and saved.     *)
LEMMA WholeStays ==
  ASSUME NEW g, Whole(g), saves \subseteq Compilers,
         told \in [Compilers -> Seq(Ops)], saves \subseteq saves',
         \/ told' = told
         \/ \E p \in Compilers, ins \in Ops : told' = [told EXCEPT ![p] = Append(@, ins)]
  PROVE  \E p \in saves' : \E n \in 0 .. Len(told'[p]) : g = Plan(SubSeq(told'[p], 1, n))
<1>1. PICK p \in saves : \E n \in 0 .. Len(told[p]) : g = Plan(SubSeq(told[p], 1, n))
  BY DEF Whole
<1>0. PICK n \in 0 .. Len(told[p]) : g = Plan(SubSeq(told[p], 1, n))
  BY <1>1
<1>2. told'[p] = told[p] \/ \E ins \in Ops : told'[p] = Append(told[p], ins)
  OBVIOUS
<1>3. told[p] \in Seq(Ops)
  OBVIOUS
<1>4. n \in 0 .. Len(told'[p]) /\ SubSeq(told'[p], 1, n) = SubSeq(told[p], 1, n)
  BY <1>2, <1>3, PrefixStays
<1>5. QED
  BY <1>0, <1>4

(* The graph of everything a compiler was told is whole once it is saved.  *)
LEMMA AllIsWhole ==
  ASSUME NEW s \in Seq(Ops)
  PROVE  \E n \in 0 .. Len(s) : Plan(s) = Plan(SubSeq(s, 1, n))
<1>1. SubSeq(s, 1, Len(s)) = s
  BY SubSeqFull
<1>2. Len(s) \in 0 .. Len(s)
  BY LenProperties
<1>3. QED
  BY <1>1, <1>2

-----------------------------------------------------------------------------
LEMMA InitCInv == CInit => CInv
BY MaxLenAssumption DEF CInit, CInv

LEMMA AddKeepsCInv ==
  ASSUME CInv, NEW p \in Compilers, NEW ins \in Ops, Add(p, ins)
  PROVE  CInv'
<1>1. /\ told[p] \in Seq(Ops) /\ Append(told[p], ins) \in Seq(Ops)
      /\ Len(Append(told[p], ins)) = Len(told[p]) + 1
  BY AppendProperties DEF CInv
<1>2. told' \in [Compilers -> Seq(Ops)]
  BY <1>1 DEF CInv, Add
<1>3. builder' \in [Compilers -> Seq(Ops) \union {Taken}]
  <2>1. builder[p] # Taken => Append(builder[p], ins) \in Seq(Ops)
    BY AppendProperties DEF CInv
  <2>2. QED
    BY <2>1 DEF CInv, Add
<1>4. \A q \in Compilers : Len(told'[q]) <= MaxLen
  BY <1>1, MaxLenAssumption, LenProperties DEF CInv, Add
<1>5. \A q \in Compilers : builder'[q] = Taken \/ builder'[q] = told'[q]
  BY DEF CInv, Add
<1>6. \A g : Whole(g) =>
        \E q \in saves' : \E n \in 0 .. Len(told'[q]) : g = Plan(SubSeq(told'[q], 1, n))
  <2>1. /\ saves \subseteq Compilers /\ saves \subseteq saves'
        /\ told \in [Compilers -> Seq(Ops)]
        /\ told' = [told EXCEPT ![p] = Append(@, ins)]
    BY DEF CInv, Add
  <2>2. ASSUME NEW g, Whole(g)
        PROVE  \E q \in saves' : \E n \in 0 .. Len(told'[q]) : g = Plan(SubSeq(told'[q], 1, n))
    <3>1. \/ told' = told
          \/ \E q \in Compilers, i \in Ops : told' = [told EXCEPT ![q] = Append(@, i)]
      BY <2>1
    <3>2. /\ saves \subseteq Compilers /\ told \in [Compilers -> Seq(Ops)]
          /\ saves \subseteq saves'
      BY <2>1
    <3>3. QED
      BY <2>2, <3>1, <3>2, WholeStays, SMTT(10)
  <2>3. QED
    BY <2>2
<1>7. /\ file \notin {Absent, Torn} => Whole(file)
      /\ loaded # Absent => Whole(loaded)
      /\ UNCHANGED <<file, loaded>>
  BY DEF CInv, Add
<1>8. (file \notin {Absent, Torn} => Whole(file))' /\ (loaded # Absent => Whole(loaded))'
  BY <1>6, <1>7 DEF Whole
<1>9. QED
  BY <1>2, <1>3, <1>4, <1>5, <1>8 DEF CInv, Add

LEMMA SaveKeepsCInv ==
  ASSUME CInv, NEW p \in Compilers, CompileAndSave(p)
  PROVE  CInv'
<1>1. builder[p] = told[p] /\ told[p] \in Seq(Ops)
  BY DEF CInv, CompileAndSave, Take
<1>2. Whole(file)'
  BY <1>1, AllIsWhole DEF CompileAndSave, Take, Finalize, Whole
<1>3. (loaded # Absent => Whole(loaded))'
  BY WholeStays DEF CInv, CompileAndSave, Take, Whole
<1>4. QED
  BY <1>2, <1>3 DEF CInv, CompileAndSave, Take

LEMMA FailureKeepsCInv ==
  ASSUME CInv, NEW p \in Compilers, SaveFails(p)
  PROVE  CInv'
BY DEF CInv, SaveFails, Take, Whole

LEMMA EngineKeepsCInv ==
  ASSUME CInv, NewEngine
  PROVE  CInv'
BY DEF CInv, NewEngine, Whole

LEMMA NextKeepsCInv == CInv /\ [CNext]_cvars => CInv'
<1>1. SUFFICES ASSUME CInv, [CNext]_cvars PROVE CInv'
  OBVIOUS
<1>2. CASE \E p \in Compilers, ins \in Ops : Add(p, ins)
  BY <1>1, <1>2, AddKeepsCInv
<1>3. CASE \E p \in Compilers : CompileAndSave(p)
  BY <1>1, <1>3, SaveKeepsCInv
<1>4. CASE \E p \in Compilers : SaveFails(p)
  BY <1>1, <1>4, FailureKeepsCInv
<1>5. CASE NewEngine
  BY <1>1, <1>5, EngineKeepsCInv
<1>6. CASE UNCHANGED cvars
  BY <1>1, <1>6 DEF CInv, Whole, cvars
<1>7. QED
  BY <1>1, <1>2, <1>3, <1>4, <1>5, <1>6 DEF CNext

LEMMA CompilerInvariant == CSpec => []CInv
BY InitCInv, NextKeepsCInv, PTL DEF CSpec

-----------------------------------------------------------------------------
(* Builders never hold more than their compilers were given, and only      *)
(* compilers of the process save. *)
THEOREM CompilerTypes == CSpec => []CTypeOK
<1>1. CInv => CTypeOK
  BY DEF CInv, CTypeOK
<1>2. QED
  BY <1>1, CompilerInvariant, PTL

(* The graph of an engine (XimEngine::new) is the planned graph of the     *)
(* first instructions of one compiler whose save was reported successful,  *)
(* whatever saves fail and whichever compilers share the file.             *)
THEOREM EnginesGetWholeGraphs == CSpec => []EngineGraphIsWhole
<1>1. CInv => EngineGraphIsWhole
  BY DEF CInv, EngineGraphIsWhole, Whole
<1>2. QED
  BY <1>1, CompilerInvariant, PTL

(* A save that reports success has written everything its compiler was     *)
(* given. *)
THEOREM SavesAreComplete == CSpec => NothingLost
<1>1. ASSUME CInv, [CNext]_cvars
      PROVE  [\A p \in saves' \ saves : file' = Plan(told[p])]_cvars
  <2>1. SUFFICES ASSUME NEW p \in saves', p \notin saves
                 PROVE  file' = Plan(told[p])
    OBVIOUS
  <2>2. CompileAndSave(p) /\ p \in Compilers
    BY <1>1, <2>1 DEF CNext, cvars, Add, CompileAndSave, SaveFails, Take, NewEngine
  <2>3. QED
    BY <1>1, <2>2 DEF CInv, CompileAndSave, Take, Finalize
<1>2. QED
  BY <1>1, CompilerInvariant, PTL DEF CSpec, NothingLost

(* The file changes only when a compiler gives its builder away: the       *)
(* second compile_and_save of one compiler leaves it alone. *)
THEOREM FilesAreWrittenOnce == CSpec => SavesOnce
<1>1. ASSUME CInv, [CNext]_cvars
      PROVE  [file' # file => \E p \in Compilers : builder[p] # Taken /\ builder'[p] = Taken]_cvars
  BY <1>1 DEF CInv, CNext, cvars, Add, CompileAndSave, SaveFails, Take, NewEngine
<1>2. QED
  BY <1>1, CompilerInvariant, PTL DEF CSpec, SavesOnce
=============================================================================
