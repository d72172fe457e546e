----------------------------- MODULE PipelineRef ----------------------------
(***************************************************************************)
(* The pipeline compared with the sequential run of its layers.            *)
(*                                                                         *)
(* Ref[i][k] is the state of layer i after its first k chunks when each    *)
(* chunk goes through all the layers before the next one starts, and Panic *)
(* from the chunk on at which a call of that run panics.  RefAssumption is *)
(* the recurrence that defines this table; a constant that satisfies it    *)
(* keeps recursion out of the proofs.                                      *)
(***************************************************************************)
EXTENDS Pipeline

CONSTANT Ref

(* The token that layer i gets for chunk k, Panic if it has none to use.   *)
RefToken(R, i, k) ==
  IF i = 1
  THEN IF k < Len(Inputs) THEN Inputs[k + 1] ELSE Panic
  ELSE LET source == R[i - 1][k + 1]
       IN  IF source # Panic /\ Len(source.out) = InSize[i]
           THEN source.out
           ELSE Panic

RefNext(R, i, k) ==
  LET before == R[i][k]
      token  == RefToken(R, i, k)
  IN  IF before = Panic \/ token = Panic THEN Panic ELSE Exec(i, before, token)

ASSUME RefAssumption ==
  /\ Ref \in [Layers -> [0 .. BatchSize -> VMs \union {Panic}]]
  /\ \A i \in Layers : Ref[i][0] = Fresh[i]
  /\ \A i \in Layers, k \in Chunks : Ref[i][k + 1] = RefNext(Ref, i, k)

-----------------------------------------------------------------------------
TypeOK ==
  /\ pc \in [Layers -> {"fetch", "execute", "send", "done", "panicked"}]
  /\ c \in [Layers -> 0 .. BatchSize]
  /\ inbuf \in [Layers -> Tokens \union {Zeros(i) : i \in Layers}]
  /\ vm \in [Layers -> VMs]
  /\ chan \in [1 .. NumLayers - 1 -> Seq(Tokens)]
  /\ finalChan \in Seq(Chunks \X Tokens)
  /\ outputs \in [Chunks -> Tokens \union {NoRow}]
  /\ collected \in 0 .. BatchSize
  /\ main \in {"collect", "join", "returned"}

(* How many tokens layer i has taken from its source: the one in its hands *)
(* is counted, the ones it has passed on are those of finished iterations. *)
Taken(i) == IF pc[i] \in {"execute", "send", "panicked"} THEN c[i] + 1 ELSE c[i]

-----------------------------------------------------------------------------
(* A chunk that a layer has finished did not fail in the sequential run, a *)
(* layer's thread is finished only after the last chunk, and a layer that  *)
(* has panicked did so at a chunk at which the sequential run fails too.   *)
CountersMatchRef ==
  \A i \in Layers :
    /\ \A k \in 0 .. c[i] : Ref[i][k] # Panic
    /\ pc[i] = "done" <=> c[i] = BatchSize
    /\ pc[i] = "panicked" => Ref[i][c[i] + 1] = Panic

(* Between two steps a layer's scratchpad and output buffer are those of   *)
(* the sequential run after as many chunks, however the threads are        *)
(* interleaved, and the token it works on is the one of its chunk.         *)
StateMatchesRef ==
  \A i \in Layers :
    /\ pc[i] \in {"fetch", "execute", "done"} => vm[i] = Ref[i][c[i]]
    /\ pc[i] = "execute" => /\ inbuf[i] = RefToken(Ref, i, c[i])
                            /\ inbuf[i] # Panic
    /\ pc[i] = "send" => vm[i] = Ref[i][c[i] + 1]

(* No token is lost, duplicated or overtaken between two layers: a channel *)
(* holds exactly the outputs that were sent and not yet taken, in order.   *)
ChannelsMatchRef ==
  \A i \in 1 .. NumLayers - 1 :
    /\ Len(chan[i]) = c[i] - Taken(i + 1)
    /\ \A k \in 1 .. Len(chan[i]) :
         chan[i][k] = Ref[i][Taken(i + 1) + k].out

(* The same for the channel to the main thread, with the chunk numbers.    *)
FinalMatchesRef ==
  /\ Len(finalChan) = c[NumLayers] - collected
  /\ \A k \in 1 .. Len(finalChan) :
       finalChan[k] = <<collected + k - 1, Ref[NumLayers][collected + k].out>>

(* Row k of final_outputs is the sequential result of chunk k once it has  *)
(* been collected, and untouched before (main thread, pipeline.rs:109-113). *)
OutputsMatchRef ==
  \A k \in Chunks :
    outputs[k] = IF k < collected THEN Ref[NumLayers][k + 1].out ELSE NoRow

(* The main thread collects until it has every row, then waits for the     *)
(* layers' threads.                                                        *)
MainMatchesRef ==
  \/ main = MainPc(collected)
  \/ /\ main = "returned" /\ collected = BatchSize
     /\ \A i \in Layers : pc[i] = "done"

(* execute returns Ok only when every layer's thread has ended normally    *)
(* and all rows are there: a panic in a layer never yields a partial batch *)
(* (thread::scope and the collecting loop, pipeline.rs:60-116).            *)
ReturnIsComplete ==
  main = "returned" =>
    /\ \A i \in Layers : pc[i] = "done"
    /\ \A k \in Chunks : outputs[k] = Ref[NumLayers][k + 1].out

(* The bounded channels limit how far a layer runs ahead of the next one,  *)
(* and with it the tokens alive at a time (bounded(2), pipeline.rs:53).    *)
BackPressure ==
  \A i \in 1 .. NumLayers - 1 : c[i] - c[i + 1] \in 0 .. ChanCap + 1

(* The final channel has room for the whole batch, so the last layer never *)
(* waits for the main thread (bounded(batch_size), pipeline.rs:58).        *)
FinalNeverBlocks ==
  pc[NumLayers] = "send" => Len(finalChan) < FinalCap

(* The inductive invariant behind the properties above. *)
IInv ==
  /\ TypeOK
  /\ CountersMatchRef /\ StateMatchesRef
  /\ ChannelsMatchRef /\ FinalMatchesRef
  /\ OutputsMatchRef  /\ MainMatchesRef

(* No layer is ahead of an earlier one, and no channel holds more than its *)
(* capacity.  With IInv this is inductive; it is stated for any two layers *)
(* because only neighbours are related by the channels.                    *)
Flow ==
  /\ \A i, j \in Layers : i <= j => c[j] <= c[i]
  /\ \A i \in 1 .. NumLayers - 1 : Len(chan[i]) <= ChanCap

-----------------------------------------------------------------------------
(* The rows of the sequential run. *)
RefRows == [k \in Chunks |-> IF Ref[NumLayers][k + 1] = Panic
                             THEN Panic
                             ELSE Ref[NumLayers][k + 1].out]

Stream == INSTANCE LayerStream WITH
            Rows <- RefRows,
            NoResult <- Panic,
            delivered <- collected,
            returned <- main = "returned"

(* The threads and channels implement the in-order stream of rows.         *)
ImplementsStream == Stream!Spec

(* Under fair scheduling they also deliver every row that precedes the     *)
(* first failing chunk, and return when there is no failing chunk.         *)
ImplementsFairStream == Stream!FairSpec

(* Once a layer's thread has panicked, execute never returns: the channels *)
(* stay connected, so neither the neighbours nor the collecting loop learn *)
(* of it (the clones of senders, receivers and final_tx, pipeline.rs:63-69). *)
PanicHangs == (\E i \in Layers : pc[i] = "panicked") => main = "collect"

(* The caller always gets an answer: execute returns.                      *)
AlwaysAnswers == <>(main = "returned")
=============================================================================
