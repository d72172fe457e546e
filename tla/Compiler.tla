------------------------------ MODULE Compiler ------------------------------
(***************************************************************************)
(* The way of a graph from the client to an engine: XimCompiler and        *)
(* XimEngine::new (src/src/ffi.rs), XimBuilder, save_to_file and           *)
(* load_from_file (src/src/ir.rs), and the file in between, which the      *)
(* compilers of a process share (torch_model_<pid>.xim in xim_torch.py).   *)
(*                                                                         *)
(* Saving a file is fs::write: it may fail before the file is touched, or  *)
(* in the middle, which leaves a prefix of the encoding.  The encoding     *)
(* ends with memory_size, so that no proper prefix of it decodes.          *)
(*                                                                         *)
(* CInit, CNext, CSpec and CTypeOK are named so that the proofs can extend *)
(* this module and Engine.                                                 *)
(***************************************************************************)
EXTENDS XimIR

CONSTANTS
  Compilers,   \* the XimCompiler objects of the process
  Ops,         \* the instructions that occur
  MaxLen,      \* bound on the instructions given to a compiler
  Taken,       \* None of the compiler's builder
  Absent,      \* no file, no engine
  Torn         \* a file that does not decode

ASSUME MaxLenAssumption == MaxLen \in Nat

VARIABLES
  builder,     \* per compiler: its instructions, or Taken
  file,        \* Absent, Torn, or the graph in the file
  loaded,      \* the graph of the engine, or Absent
  told,        \* per compiler, history: every instruction given to it
  saves        \* history: the compilers whose compile_and_save returned Ok

cvars == <<builder, file, loaded, told, saves>>

CInit ==
  /\ builder = [p \in Compilers |-> <<>>]
  /\ file = Absent /\ loaded = Absent
  /\ told = [p \in Compilers |-> <<>>]
  /\ saves = {}

-----------------------------------------------------------------------------
(* Fault: the memory is not planned. *)
FinalizeUnplanned(instructions) == [instructions |-> instructions, memory_size |-> 0]

(* XimBuilder::finalize *)
Finalize(instructions) == Plan(instructions)

(* Fault: the instruction goes to the front. *)
AddInFront(p, ins) ==
  /\ Len(told[p]) < MaxLen
  /\ told' = [told EXCEPT ![p] = Append(@, ins)]
  /\ builder' = [builder EXCEPT ![p] = IF @ = Taken THEN @ ELSE <<ins>> \o @]
  /\ UNCHANGED <<file, loaded, saves>>

(* Fault: the instruction goes into every builder. *)
AddEverywhere(p, ins) ==
  /\ Len(told[p]) < MaxLen
  /\ told' = [told EXCEPT ![p] = Append(@, ins)]
  /\ builder' = [q \in Compilers |-> IF builder[q] = Taken THEN Taken
                                                         ELSE Append(builder[q], ins)]
  /\ UNCHANGED <<file, loaded, saves>>

(* The add_* functions.  Without a builder they return without an error.   *)
Add(p, ins) ==
  /\ Len(told[p]) < MaxLen
  /\ told' = [told EXCEPT ![p] = Append(@, ins)]
  /\ builder' = [builder EXCEPT ![p] = IF @ = Taken THEN @ ELSE Append(@, ins)]
  /\ UNCHANGED <<file, loaded, saves>>

(* Fault: the builder stays. *)
TakeCopy(p) ==
  /\ builder[p] # Taken
  /\ UNCHANGED <<builder, loaded, told>>

(* compile_and_save takes the builder whether or not the file is written.  *)
Take(p) ==
  /\ builder[p] # Taken
  /\ builder' = [builder EXCEPT ![p] = Taken]
  /\ UNCHANGED <<loaded, told>>

CompileAndSave(p) ==
  /\ Take(p)
  /\ file' = Finalize(builder[p])
  /\ saves' = saves \union {p}

SaveFails(p) ==
  /\ Take(p)
  /\ file' \in {file, Torn}
  /\ UNCHANGED saves

(* XimEngine::new; it fails, and there is no engine, without a graph.      *)
NewEngine ==
  /\ file \notin {Absent, Torn}
  /\ loaded' = file
  /\ UNCHANGED <<builder, file, told, saves>>

CNext ==
  \/ \E p \in Compilers :
       \/ \E ins \in Ops : Add(p, ins)
       \/ CompileAndSave(p)
       \/ SaveFails(p)
  \/ NewEngine

CSpec == CInit /\ [][CNext]_cvars

-----------------------------------------------------------------------------
CTypeOK ==
  /\ \A p \in Compilers : builder[p] = Taken \/ Len(builder[p]) <= MaxLen
  /\ saves \subseteq Compilers

(* The graph of an engine is whole: the planned graph of a compiler that   *)
(* reported a successful save, made of the first instructions it was given *)
(* in their order.  What came too late for the save is not in it, and      *)
(* neither is a part of a graph whose save failed.                         *)
EngineGraphIsWhole ==
  loaded # Absent =>
    \E p \in saves : \E n \in 0 .. Len(told[p]) : loaded = Plan(SubSeq(told[p], 1, n))

(* An instruction given to a compiler that still holds its builder is in   *)
(* the graph that its save writes, unless the save reports an error.       *)
NothingLost ==
  [][\A p \in saves' \ saves : file' = Plan(told[p])]_cvars

(* A compiler gives its graph away once: the second save of one compiler   *)
(* ("Builder already finalized", ffi.rs:295) never touches the file, which *)
(* another compiler may have written since.                                *)
SavesOnce ==
  [][file' # file =>
       \E p \in Compilers : builder[p] # Taken /\ builder'[p] = Taken]_cvars
=============================================================================
