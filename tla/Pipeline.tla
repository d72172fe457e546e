------------------------------ MODULE Pipeline ------------------------------
(***************************************************************************)
(* PipelineExecutor::execute (src/src/pipeline.rs): one scoped thread per  *)
(* layer, a bounded channel between neighbouring layers, a final channel   *)
(* to the main thread, which collects one row of output per chunk.         *)
(*                                                                         *)
(* A chunk is one token (chunk_size = 1).  A token is a sequence of        *)
(* values; the flat buffers of the code are modelled row by row.  What a   *)
(* layer computes is a parameter: Exec(i, vm, token) is the state of layer *)
(* i's executor and output buffer after executor.execute on that token, or *)
(* Panic when the call panics.  Both the scratchpad and the output buffer  *)
(* live as long as the layer's thread, so vm carries over between chunks.  *)
(*                                                                         *)
(* The main thread owns the vectors of senders and receivers, final_tx and *)
(* final_rx until execute returns.  No channel is therefore ever           *)
(* disconnected while a thread waits on it: a recv on an empty channel and *)
(* a send on a full one block, and never return an error.                  *)
(***************************************************************************)
EXTENDS Integers, Sequences

CONSTANTS
  NumLayers,      \* self.graphs.len(); the early return for 0 is left out
  BatchSize,      \* batch_size = num_chunks, since chunk_size = 1
  ChanCap,        \* capacity of the channels between layers, 2 in the code
  Tokens,         \* the tokens that can occur, sequences of values
  VMs,            \* states [mem, out] of a layer's scratchpad and output buffer
  Inputs,         \* the rows of `inputs`
  InSize,         \* self.layer_input_sizes
  Fresh,          \* per layer: Executor::new and vec![0; out_size]
  Exec(_, _, _),  \* executor.execute(graph, input_buffer, output_buffer)
  Panic,          \* result of an execute call that panics
  NoRow           \* a row of final_outputs that nobody has written: zeros

Layers == 1 .. NumLayers
Chunks == 0 .. BatchSize - 1

ASSUME SizeAssumption ==
  /\ NumLayers \in Nat \ {0}
  /\ BatchSize \in Nat
  /\ ChanCap \in Nat \ {0}

ASSUME DataAssumption ==
  /\ Inputs \in Seq(Tokens)
  /\ Fresh \in [Layers -> VMs]
  /\ \A v \in VMs : v.out \in Tokens
  /\ \A i \in Layers, v \in VMs, t \in Tokens :
        Exec(i, v, t) \in VMs \union {Panic}
  /\ Panic \notin VMs \union Tokens
  /\ NoRow \notin Tokens

VARIABLES
  pc,         \* per layer: "fetch", "execute", "send", "done", "panicked"
  c,          \* per layer: the chunk counter of its loop
  inbuf,      \* per layer: input_buffer[..in_size]
  vm,         \* per layer: executor scratchpad and output buffer
  chan,       \* chan[i] : channel from layer i to layer i + 1
  finalChan,  \* channel to the main thread, of pairs <<chunk, token>>
  outputs,    \* final_outputs, by row
  collected,  \* rows the main thread has received
  main        \* main thread: "collect", "join", "returned"

layerVars == <<pc, c, inbuf, vm, chan>>
mainVars  == <<outputs, collected, main>>
vars == <<pc, c, inbuf, vm, chan, finalChan, outputs, collected, main>>

-----------------------------------------------------------------------------
(* A layer's loop runs once per chunk, so with no chunk it is over at once. *)
LoopPc(k) == IF k < BatchSize THEN "fetch" ELSE "done"

(* Fault: the collecting loop stops one row early. *)
MainPcEarly(k) == IF k + 1 < BatchSize THEN "collect" ELSE "join"

MainPc(k) == IF k < BatchSize THEN "collect" ELSE "join"

(* vec![0i16; in_size + params.len()], of which the first part is a token.  *)
Zeros(i) == [k \in 1 .. InSize[i] |-> 0]

Init ==
  /\ pc = [i \in Layers |-> LoopPc(0)]
  /\ c = [i \in Layers |-> 0]
  /\ inbuf = [i \in Layers |-> Zeros(i)]
  /\ vm = Fresh
  /\ chan = [i \in 1 .. NumLayers - 1 |-> <<>>]
  /\ finalChan = <<>>
  /\ outputs = [k \in Chunks |-> NoRow]
  /\ collected = 0
  /\ main = MainPc(0)

-----------------------------------------------------------------------------
(* Layer 1 reads its row from the shared inputs, the others receive it.    *)
HasToken(i) == i # 1 => chan[i - 1] # <<>>

(* The slice inputs[start..start + in_size] exists, or copy_from_slice     *)
(* meets a token of the layer's input size.  Otherwise the thread panics.  *)
Fits(i) == IF i = 1 THEN c[i] < Len(Inputs)
                    ELSE Len(Head(chan[i - 1])) = InSize[i]

(* Fault: the token stays in the channel. *)
ReceivedPeek(i) == UNCHANGED chan

Received(i) == IF i = 1 THEN UNCHANGED chan
                        ELSE chan' = [chan EXCEPT ![i - 1] = Tail(@)]

(* Fault: the newest token of the channel is taken instead of the oldest. *)
FetchNewest(i) ==
  /\ pc[i] = "fetch" /\ HasToken(i) /\ Fits(i)
  /\ IF i = 1
     THEN /\ inbuf' = [inbuf EXCEPT ![i] = Inputs[c[i] + 1]]
          /\ UNCHANGED chan
     ELSE LET n == Len(chan[i - 1])
          IN  /\ inbuf' = [inbuf EXCEPT ![i] = chan[i - 1][n]]
              /\ chan' = [chan EXCEPT ![i - 1] = SubSeq(@, 1, n - 1)]
  /\ pc' = [pc EXCEPT ![i] = "execute"]
  /\ UNCHANGED <<c, vm, finalChan, mainVars>>

Fetch(i) ==
  /\ pc[i] = "fetch" /\ HasToken(i) /\ Fits(i)
  /\ inbuf' = [inbuf EXCEPT ![i] = IF i = 1 THEN Inputs[c[i] + 1]
                                            ELSE Head(chan[i - 1])]
  /\ Received(i)
  /\ pc' = [pc EXCEPT ![i] = "execute"]
  /\ UNCHANGED <<c, vm, finalChan, mainVars>>

FetchPanics(i) ==
  /\ pc[i] = "fetch" /\ HasToken(i) /\ ~Fits(i)
  /\ Received(i)
  /\ pc' = [pc EXCEPT ![i] = "panicked"]
  /\ UNCHANGED <<c, inbuf, vm, finalChan, mainVars>>

Execute(i) ==
  /\ pc[i] = "execute"
  /\ Exec(i, vm[i], inbuf[i]) # Panic
  /\ vm' = [vm EXCEPT ![i] = Exec(i, vm[i], inbuf[i])]
  /\ pc' = [pc EXCEPT ![i] = "send"]
  /\ UNCHANGED <<c, inbuf, chan, finalChan, mainVars>>

ExecutePanics(i) ==
  /\ pc[i] = "execute"
  /\ Exec(i, vm[i], inbuf[i]) = Panic
  /\ pc' = [pc EXCEPT ![i] = "panicked"]
  /\ UNCHANGED <<c, inbuf, vm, chan, finalChan, mainVars>>

(* The end of an iteration: the loop goes on to the next chunk or ends.    *)
NextChunk(i) ==
  /\ c' = [c EXCEPT ![i] = @ + 1]
  /\ pc' = [pc EXCEPT ![i] = LoopPc(c[i] + 1)]

(* Fault: an unbounded channel between the layers. *)
SendUnbounded(i) ==
  /\ pc[i] = "send" /\ i # NumLayers
  /\ chan' = [chan EXCEPT ![i] = Append(@, vm[i].out)]
  /\ NextChunk(i)
  /\ UNCHANGED <<inbuf, vm, finalChan, mainVars>>

Send(i) ==
  /\ pc[i] = "send" /\ i # NumLayers
  /\ Len(chan[i]) < ChanCap
  /\ chan' = [chan EXCEPT ![i] = Append(@, vm[i].out)]
  /\ NextChunk(i)
  /\ UNCHANGED <<inbuf, vm, finalChan, mainVars>>

(* Fault: the final channel is as small as the others. *)
FinalCapSmall == ChanCap

(* The capacity of the final channel. *)
FinalCap == BatchSize

SendFinal(i) ==
  /\ pc[i] = "send" /\ i = NumLayers
  /\ Len(finalChan) < FinalCap
  /\ finalChan' = Append(finalChan, <<c[i], vm[i].out>>)
  /\ NextChunk(i)
  /\ UNCHANGED <<inbuf, vm, chan, mainVars>>

-----------------------------------------------------------------------------
(* Fault: the collecting loop ends when a layer is gone. *)
CollectOrLeave ==
  /\ main = "collect"
  /\ IF finalChan # <<>>
     THEN /\ outputs' = [outputs EXCEPT ![Head(finalChan)[1]] = Head(finalChan)[2]]
          /\ finalChan' = Tail(finalChan)
          /\ collected' = collected + 1
          /\ main' = MainPc(collected + 1)
     ELSE /\ \E i \in Layers : pc[i] = "panicked"
          /\ main' = "join"
          /\ UNCHANGED <<finalChan, outputs, collected>>
  /\ UNCHANGED layerVars

Collect ==
  /\ main = "collect" /\ finalChan # <<>>
  /\ outputs' = [outputs EXCEPT ![Head(finalChan)[1]] = Head(finalChan)[2]]
  /\ finalChan' = Tail(finalChan)
  /\ collected' = collected + 1
  /\ main' = MainPc(collected + 1)
  /\ UNCHANGED layerVars

(* thread::scope joins the layer threads before execute returns Ok.        *)
Join ==
  /\ main = "join"
  /\ \A i \in Layers : pc[i] = "done"
  /\ main' = "returned"
  /\ UNCHANGED <<layerVars, finalChan, outputs, collected>>

Returned == main = "returned" /\ UNCHANGED vars

-----------------------------------------------------------------------------
LayerStep(i) ==
  \/ Fetch(i)   \/ FetchPanics(i)
  \/ Execute(i) \/ ExecutePanics(i)
  \/ Send(i)    \/ SendFinal(i)

(* Fault: the main thread polls for the end of the layers and misses it. *)
MainPolls == Collect \/ (main = "join" /\ UNCHANGED vars)

MainStep == Collect \/ Join

Next == (\E i \in Layers : LayerStep(i)) \/ MainStep \/ Returned

Spec == Init /\ [][Next]_vars

(* Every thread is scheduled by the operating system: one that can take a  *)
(* step for ever eventually takes it.                                      *)
FairSpec == Spec /\ (\A i \in Layers : WF_vars(LayerStep(i))) /\ WF_vars(MainStep)
=============================================================================
