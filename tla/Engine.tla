------------------------------- MODULE Engine -------------------------------
(***************************************************************************)
(* XimEngine (src/src/ffi.rs): the parameters a client sets, the input     *)
(* buffer that execute_graph_with_params assembles from the dynamic inputs *)
(* and the parameters, and the choice between the three backends.          *)
(*                                                                         *)
(* Tensors are sequences of the i16 values that Quantizer::to_i16 makes of *)
(* the client's floats, element by element.  What the graph computes is    *)
(* left to Executor; here a call only needs NeedIn input values and        *)
(* NeedOut places for output values.                                       *)
(***************************************************************************)
EXTENDS Integers, Sequences

CONSTANTS
  MaxId,            \* the largest parameter id, u32::MAX in the code
  Ids,              \* the parameter ids that occur
  Tensors,          \* the parameters and dynamic inputs that occur
  OutLens,          \* the output sizes that occur
  NeedIn, NeedOut,  \* the buffer lengths the graph works on
  MaxOps            \* bound on the number of operations, for model checking

ASSUME EngineAssumption ==
  /\ MaxId \in Nat /\ Ids \subseteq 0 .. MaxId
  /\ Tensors \subseteq Seq(Int)
  /\ NeedIn \in Nat /\ NeedOut \in Nat /\ MaxOps \in Nat

VARIABLES
  parameters,    \* HashMap from ids to tensors
  input_buffer,
  output_len,    \* length of output_buffer
  jit, aot,      \* whether jit_func and aot_executor are set
  last,          \* the last call: its dynamic inputs, backend and outcome
  ops,           \* number of operations so far
  late           \* history: a parameter was set after the first call

engine == <<parameters, input_buffer, output_len, jit, aot>>
vars == <<engine, last, ops, late>>

NoCall == [dyn |-> <<>>, backend |-> "none", outcome |-> "none"]

Init ==
  /\ parameters = <<>> /\ input_buffer = <<>> /\ output_len = 0
  /\ jit = FALSE /\ aot = FALSE
  /\ last = NoCall
  /\ ops = 0 /\ late = FALSE

-----------------------------------------------------------------------------
(* The tensors of the parameters one after the other, by increasing id.    *)
Flat(params) ==
  LET upto[n \in 0 .. MaxId + 1] ==
        IF n = 0 THEN <<>>
        ELSE IF n - 1 \in DOMAIN params THEN upto[n - 1] \o params[n - 1] ELSE upto[n - 1]
  IN  upto[MaxId + 1]

TotalLen(dyn) == Len(dyn) + Len(Flat(parameters))

(* Fault: the static part is filled in only once. *)
FirstTimeOnly(dyn) == input_buffer = <<>>

(* The buffer is refreshed when it does not have the right length.         *)
FirstTime(dyn) == Len(input_buffer) # TotalLen(dyn)

(* Fault: the parameters before the dynamic inputs. *)
AssembledBackwards(dyn) ==
  IF FirstTime(dyn)
  THEN Flat(parameters) \o dyn
  ELSE dyn \o SubSeq(input_buffer, Len(dyn) + 1, Len(input_buffer))

(* The dynamic part is always copied, the static part at a refresh only.   *)
Assembled(dyn) ==
  dyn \o (IF FirstTime(dyn) THEN Flat(parameters)
                            ELSE SubSeq(input_buffer, Len(dyn) + 1, Len(input_buffer)))

Backend == IF jit THEN "jit" ELSE IF aot THEN "aot" ELSE "vm"

(* The virtual machine checks its accesses to the buffers and panics, the  *)
(* native code of the other two takes pointers.  The JIT compiler emits    *)
(* the loads of a graph and no store.                                      *)
Outcome(inLen, outLen) ==
  CASE inLen >= NeedIn /\ (outLen >= NeedOut \/ jit) -> "ok"
    [] Backend = "vm" /\ (inLen < NeedIn \/ outLen < NeedOut) -> "panicked"
    [] OTHER -> "undefined"

Alive == last.outcome # "undefined" /\ ops < MaxOps /\ ops' = ops + 1

(* Fault: a parameter that is set again is extended. *)
SetParameterExtends(id, tensor) ==
  /\ Alive
  /\ parameters' = [k \in DOMAIN parameters \union {id} |->
                      IF k \notin DOMAIN parameters THEN tensor
                      ELSE IF k = id THEN parameters[k] \o tensor ELSE parameters[k]]
  /\ late' = (late \/ last # NoCall)
  /\ UNCHANGED <<input_buffer, output_len, jit, aot, last>>

SetParameter(id, tensor) ==
  /\ Alive
  /\ parameters' = [k \in DOMAIN parameters \union {id} |->
                      IF k = id THEN tensor ELSE parameters[k]]
  /\ late' = (late \/ last # NoCall)
  /\ UNCHANGED <<input_buffer, output_len, jit, aot, last>>

(* compile_jit and compile_aot change nothing when they fail.              *)
CompileJit ==
  /\ Alive /\ jit' = TRUE
  /\ UNCHANGED <<parameters, input_buffer, output_len, aot, last, late>>

CompileAot ==
  /\ Alive /\ aot' = TRUE
  /\ UNCHANGED <<parameters, input_buffer, output_len, jit, last, late>>

ExecuteGraph(dyn, output_size) ==
  /\ Alive
  /\ input_buffer' = Assembled(dyn)
  /\ output_len' = output_size
  /\ last' = [dyn |-> dyn, backend |-> Backend,
              outcome |-> Outcome(TotalLen(dyn), output_size)]
  /\ UNCHANGED <<parameters, jit, aot, late>>

Next ==
  \/ \E id \in Ids, tensor \in Tensors : SetParameter(id, tensor)
  \/ \E dyn \in Tensors, n \in OutLens : ExecuteGraph(dyn, n)
  \/ CompileJit \/ CompileAot

Spec == Init /\ [][Next]_vars

-----------------------------------------------------------------------------
TypeOK ==
  /\ DOMAIN parameters \subseteq Ids
  /\ \A id \in DOMAIN parameters : parameters[id] \in Tensors
  /\ output_len \in OutLens \union {0}
  /\ jit \in BOOLEAN /\ aot \in BOOLEAN /\ late \in BOOLEAN
  /\ last.backend \in {"none", "jit", "aot", "vm"}
  /\ ops \in 0 .. MaxOps

(* What the graph ran on in the last call, as against what it should have  *)
(* run on: the dynamic inputs, then the parameters.                        *)
Ran == last # NoCall
Current == input_buffer = last.dyn \o Flat(parameters)

(* A client that sets all parameters before its first call, as             *)
(* xim_torch.py does, always runs the graph on its inputs followed by its  *)
(* parameters, whatever the lengths of the inputs from one call to the     *)
(* next and whichever calls failed in between.                             *)
PreloadedLayout == Ran /\ ~late => Current

(* The parameters of the client that sets them later reach the graph with  *)
(* the first call whose total length differs from the one before: the      *)
(* buffer is out of date only while the length stays the same.             *)
LateParametersArrive ==
  [][Len(input_buffer') # Len(input_buffer) =>
       input_buffer' = last'.dyn \o Flat(parameters)]_vars
=============================================================================
