--------------------------- MODULE PipelineProofs ---------------------------
(***************************************************************************)
(* For every number of layers, batch size, channel capacity, layer         *)
(* function and input: the pipeline computes the rows of the sequential    *)
(* run (invariant IInv), and it implements the in-order stream of rows.    *)
(*                                                                         *)
(* For layers on the virtual machine that write cells before they read     *)
(* them, each row is the one it would be by itself: instruction by         *)
(* instruction, a used executor and a new one agree on what has been       *)
(* written since the call began (Agree, Written).                          *)
(***************************************************************************)
EXTENDS PipelineVM, SequenceTheorems, Recursion, TLAPS

(* What RefToken yields is a token or Panic. *)
LEMMA RefTokenType ==
  ASSUME NEW i \in Layers, NEW k \in Chunks
  PROVE  RefToken(Ref, i, k) \in Tokens \union {Panic}
<1>1. CASE i = 1
  BY <1>1, SizeAssumption, DataAssumption DEF RefToken, Chunks
<1>2. CASE i # 1
  <2>1. i - 1 \in Layers /\ k + 1 \in 0 .. BatchSize
    BY <1>2, SizeAssumption DEF Layers, Chunks
  <2>2. Ref[i - 1][k + 1] \in VMs \union {Panic}
    BY <2>1, RefAssumption
  <2>3. QED
    BY <1>2, <2>2, DataAssumption DEF RefToken
<1>3. QED
  BY <1>1, <1>2

(* An entry of the table is a state of the layer, with a token as output,  *)
(* or Panic.                                                               *)
LEMMA RefType ==
  ASSUME NEW i \in Layers, NEW k \in 0 .. BatchSize
  PROVE  /\ Ref[i][k] \in VMs \union {Panic}
         /\ Ref[i][k] # Panic => Ref[i][k] \in VMs /\ Ref[i][k].out \in Tokens
<1>1. Ref[i][k] \in VMs \union {Panic}
  BY RefAssumption
<1>2. QED
  BY <1>1, DataAssumption

(* The recurrence of the sequential run, for a chunk that does not fail. *)
LEMMA RefStep ==
  ASSUME NEW i \in Layers, NEW k \in Chunks,
         Ref[i][k] # Panic, RefToken(Ref, i, k) # Panic
  PROVE  Ref[i][k + 1] = Exec(i, Ref[i][k], RefToken(Ref, i, k))
BY RefAssumption DEF RefNext

(* The chunk counters are the ones of a loop over the batch. *)
LEMMA ChunkCounter ==
  ASSUME TypeOK, CountersMatchRef, NEW i \in Layers
  PROVE  /\ c[i] \in 0 .. BatchSize
         /\ pc[i] # "done" => c[i] \in Chunks /\ c[i] + 1 \in 0 .. BatchSize
<1>1. c[i] \in 0 .. BatchSize
  BY DEF TypeOK
<1>2. pc[i] # "done" => c[i] # BatchSize
  BY DEF CountersMatchRef
<1>3. QED
  BY <1>1, <1>2, SizeAssumption DEF Chunks

(* What a layer finds in its channel is what the sequential run hands it.  *)
LEMMA SourceMatchesRef ==
  ASSUME IInv, NEW i \in Layers, pc[i] = "fetch", HasToken(i)
  PROVE  /\ Fits(i) <=> RefToken(Ref, i, c[i]) # Panic
         /\ Fits(i) => RefToken(Ref, i, c[i])
                         = IF i = 1 THEN Inputs[c[i] + 1] ELSE Head(chan[i - 1])
<1>0. c[i] \in Chunks /\ c[i] + 1 \in 0 .. BatchSize
  BY ChunkCounter DEF IInv
<1>1. CASE i = 1
  <2>1. c[i] < Len(Inputs) => Inputs[c[i] + 1] \in Tokens
    BY <1>0, DataAssumption, SizeAssumption DEF Chunks
  <2>2. QED
    BY <1>1, <2>1, DataAssumption DEF Fits, RefToken
<1>2. CASE i # 1
  <2>1. i - 1 \in Layers /\ i - 1 \in 1 .. NumLayers - 1 /\ (i - 1) + 1 = i
    BY <1>2, SizeAssumption DEF Layers
  <2>2. chan[i - 1] \in Seq(Tokens) /\ chan[i - 1] # <<>>
    BY <1>2, <2>1 DEF IInv, TypeOK, HasToken
  <2>3. Taken(i) = c[i]
    BY DEF Taken
  <2>4. Len(chan[i - 1]) = c[i - 1] - c[i]
    BY <2>1, <2>3 DEF IInv, ChannelsMatchRef
  <2>5. Len(chan[i - 1]) \in Nat \ {0}
    BY <2>2, EmptySeq
  <2>6. c[i - 1] \in 0 .. BatchSize /\ c[i] + 1 \in 0 .. c[i - 1]
    <3>1. c[i - 1] \in 0 .. BatchSize
      BY <2>1, ChunkCounter DEF IInv
    <3>2. QED
      BY <1>0, <2>4, <2>5, <3>1, SizeAssumption DEF Chunks
  <2>7. Ref[i - 1][c[i] + 1] # Panic
    BY <2>1, <2>6 DEF IInv, CountersMatchRef
  <2>8. chan[i - 1][1] = Ref[i - 1][c[i] + 1].out
    BY <2>1, <2>3, <2>5 DEF IInv, ChannelsMatchRef
  <2>9. Head(chan[i - 1]) = chan[i - 1][1]
    BY <2>2
  <2>10. Ref[i - 1][c[i] + 1].out \in Tokens
    BY <1>0, <2>1, <2>7, RefType
  <2>11. QED
    BY <1>2, <2>7, <2>8, <2>9, <2>10, DataAssumption DEF Fits, RefToken
<1>3. QED
  BY <1>1, <1>2

-----------------------------------------------------------------------------
(* The initial states satisfy the inductive invariant. *)
LEMMA InitIInv == Init => IInv
<1> SUFFICES ASSUME Init PROVE IInv
  OBVIOUS
<1> USE SizeAssumption DEF Init, LoopPc, MainPc
<1>1. \A i \in Layers : Ref[i][0] = Fresh[i] /\ Fresh[i] \in VMs
  BY RefAssumption, DataAssumption
<1>2. \A i \in Layers : Ref[i][0] # Panic
  BY <1>1, DataAssumption
<1>3. TypeOK
  <2>1. <<>> \in Seq(Tokens) /\ <<>> \in Seq(Chunks \X Tokens)
    OBVIOUS
  <2>2. chan \in [1 .. NumLayers - 1 -> Seq(Tokens)]
    BY <2>1
  <2>3. QED
    BY <2>1, <2>2, DataAssumption DEF TypeOK
<1>4. CountersMatchRef
  BY <1>2 DEF CountersMatchRef
<1>5. StateMatchesRef
  BY <1>1 DEF StateMatchesRef
<1>6. ChannelsMatchRef
  BY DEF ChannelsMatchRef, Taken, Layers
<1>7. FinalMatchesRef
  BY DEF FinalMatchesRef, Layers
<1>8. OutputsMatchRef
  BY DEF OutputsMatchRef, Chunks
<1>9. MainMatchesRef
  BY DEF MainMatchesRef
<1>10. QED
  BY <1>3, <1>4, <1>5, <1>6, <1>7, <1>8, <1>9 DEF IInv

(* The channels after layer i has taken a token from its source.           *)
LEMMA TakenFromChannel ==
  ASSUME IInv, NEW i \in Layers, HasToken(i), Received(i), c' = c,
         c[i] \in Nat, Taken(i) = c[i], Taken(i)' = c[i] + 1,
         \A j \in Layers \ {i} : Taken(j)' = Taken(j)
  PROVE  /\ chan' \in [1 .. NumLayers - 1 -> Seq(Tokens)]
         /\ ChannelsMatchRef'
<1> USE SizeAssumption
<1>1. /\ chan' \in [1 .. NumLayers - 1 -> Seq(Tokens)]
      /\ \A j \in 1 .. NumLayers - 1 : j + 1 # i => chan'[j] = chan[j]
      /\ i # 1 => chan[i - 1] # <<>> /\ chan'[i - 1] = Tail(chan[i - 1])
  <2>1. chan \in [1 .. NumLayers - 1 -> Seq(Tokens)]
    BY DEF IInv, TypeOK
  <2>2. CASE i = 1
    BY <2>1, <2>2 DEF Received
  <2>3. CASE i # 1
    <3>1. i - 1 \in 1 .. NumLayers - 1 /\ chan[i - 1] # <<>>
      BY <2>3 DEF Layers, HasToken
    <3>2. Tail(chan[i - 1]) \in Seq(Tokens)
      BY <2>1, <3>1
    <3>3. chan' = [chan EXCEPT ![i - 1] = Tail(chan[i - 1])]
      BY <2>3 DEF Received
    <3>4. QED
      BY <2>1, <3>1, <3>2, <3>3 DEF Layers
  <2>4. QED
    BY <2>2, <2>3
<1>2. ChannelsMatchRef'
  <2> SUFFICES ASSUME NEW j \in 1 .. NumLayers - 1
               PROVE  /\ Len(chan'[j]) = c[j] - Taken(j + 1)'
                      /\ \A k \in 1 .. Len(chan'[j]) :
                           chan'[j][k] = Ref[j][Taken(j + 1)' + k].out
    BY DEF ChannelsMatchRef
  <2>1. /\ Len(chan[j]) = c[j] - Taken(j + 1)
        /\ \A k \in 1 .. Len(chan[j]) :
             chan[j][k] = Ref[j][Taken(j + 1) + k].out
    BY DEF IInv, ChannelsMatchRef
  <2>2. CASE j + 1 # i
    <3>1. j + 1 \in Layers \ {i}
      BY <2>2 DEF Layers
    <3>2. QED
      BY <1>1, <2>1, <2>2, <3>1
  <2>3. CASE j + 1 = i
    <3>0. j = i - 1 /\ i # 1 /\ j \in Layers
      BY <2>3 DEF Layers
    <3>1. chan[j] \in Seq(Tokens) /\ chan[j] # <<>>
          /\ chan'[j] = Tail(chan[j]) /\ c[j] \in Nat
      BY <1>1, <3>0 DEF IInv, TypeOK
    <3>2. /\ Len(Tail(chan[j])) = Len(chan[j]) - 1 /\ Len(chan[j]) \in Nat
          /\ \A k \in 1 .. Len(Tail(chan[j])) : Tail(chan[j])[k] = chan[j][k + 1]
      BY <3>1, HeadTailProperties
    <3>3. Taken(j + 1) = c[i] /\ Taken(j + 1)' = c[i] + 1
      BY <2>3
    <3>4. Len(chan'[j]) = c[j] - Taken(j + 1)'
      BY <2>1, <3>1, <3>2, <3>3
    <3>5. ASSUME NEW k \in 1 .. Len(chan'[j])
          PROVE  chan'[j][k] = Ref[j][Taken(j + 1)' + k].out
      <4>1. k + 1 \in 1 .. Len(chan[j]) /\ chan'[j][k] = chan[j][k + 1]
        BY <3>1, <3>2
      <4>2. c[i] + (k + 1) = (c[i] + 1) + k
        OBVIOUS
      <4>3. QED
        BY <2>1, <3>3, <4>1, <4>2
    <3>6. QED
      BY <3>4, <3>5
  <2>4. QED
    BY <2>2, <2>3
<1>3. QED
  BY <1>1, <1>2

(* Taking a token moves the head of the channel into the layer's hands.    *)
LEMMA FetchIInv ==
  ASSUME IInv, NEW i \in Layers, Fetch(i)
  PROVE  IInv'
<1> USE SizeAssumption
<1>1. pc[i] = "fetch" /\ HasToken(i) /\ Fits(i)
  BY DEF Fetch
<1>2. /\ c' = c /\ vm' = vm /\ finalChan' = finalChan
      /\ outputs' = outputs /\ collected' = collected /\ main' = main
  BY DEF Fetch, mainVars
<1>3. /\ pc' = [pc EXCEPT ![i] = "execute"] 
      /\ pc \in [Layers -> {"fetch", "execute", "send", "done", "panicked"}]
  BY DEF Fetch, IInv, TypeOK
<1>4. pc'[i] = "execute" /\ \A j \in Layers \ {i} : pc'[j] = pc[j]
  BY <1>3
<1>5. /\ RefToken(Ref, i, c[i]) # Panic
      /\ inbuf' = [inbuf EXCEPT ![i] = RefToken(Ref, i, c[i])]
  BY <1>1, SourceMatchesRef DEF Fetch
<1>6. c[i] \in Chunks /\ c[i] + 1 \in 0 .. BatchSize
  BY <1>1, ChunkCounter DEF IInv
<1>7. RefToken(Ref, i, c[i]) \in Tokens
  BY <1>5, <1>6, RefTokenType
<1>8. /\ c[i] \in Nat /\ Taken(i) = c[i] /\ Taken(i)' = c[i] + 1
      /\ \A j \in Layers \ {i} : Taken(j)' = Taken(j)
  BY <1>1, <1>2, <1>4, <1>6 DEF Taken, Chunks
<1>9. chan' \in [1 .. NumLayers - 1 -> Seq(Tokens)] /\ ChannelsMatchRef'
  BY <1>1, <1>2, <1>8, TakenFromChannel DEF Fetch
<1>10. TypeOK'
  BY <1>2, <1>3, <1>5, <1>7, <1>9 DEF IInv, TypeOK
<1>11. CountersMatchRef'
  BY <1>1, <1>2, <1>4 DEF IInv, CountersMatchRef
<1>12. StateMatchesRef'
  <2>1. inbuf'[i] = RefToken(Ref, i, c[i])
        /\ \A j \in Layers \ {i} : inbuf'[j] = inbuf[j]
    BY <1>5 DEF IInv, TypeOK
  <2>2. QED
    BY <1>1, <1>2, <1>4, <1>5, <2>1 DEF IInv, StateMatchesRef
<1>14. FinalMatchesRef'
  BY <1>2 DEF IInv, FinalMatchesRef
<1>15. OutputsMatchRef'
  BY <1>2 DEF IInv, OutputsMatchRef
<1>16. MainMatchesRef'
  BY <1>1, <1>2 DEF IInv, MainMatchesRef, MainPc
<1>17. QED
  BY <1>9, <1>10, <1>11, <1>12, <1>14, <1>15, <1>16 DEF IInv

(* A panic on receiving leaves the rest of the state to the others.        *)
LEMMA FetchPanicsIInv ==
  ASSUME IInv, NEW i \in Layers, FetchPanics(i)
  PROVE  IInv'
<1> USE SizeAssumption
<1>1. pc[i] = "fetch" /\ HasToken(i) /\ ~Fits(i)
  BY DEF FetchPanics
<1>2. /\ c' = c /\ vm' = vm /\ inbuf' = inbuf /\ finalChan' = finalChan
      /\ outputs' = outputs /\ collected' = collected /\ main' = main
  BY DEF FetchPanics, mainVars
<1>3. /\ pc' = [pc EXCEPT ![i] = "panicked"]
      /\ pc \in [Layers -> {"fetch", "execute", "send", "done", "panicked"}]
  BY DEF FetchPanics, IInv, TypeOK
<1>4. pc'[i] = "panicked" /\ \A j \in Layers \ {i} : pc'[j] = pc[j]
  BY <1>3
<1>5. c[i] \in Chunks /\ c[i] + 1 \in 0 .. BatchSize
  BY <1>1, ChunkCounter DEF IInv
<1>6. Ref[i][c[i] + 1] = Panic
  <2>1. RefToken(Ref, i, c[i]) = Panic
    BY <1>1, SourceMatchesRef
  <2>2. Ref[i][c[i] + 1] = RefNext(Ref, i, c[i])
    BY <1>5, RefAssumption
  <2>3. QED
    BY <2>1, <2>2 DEF RefNext
<1>7. /\ c[i] \in Nat /\ Taken(i) = c[i] /\ Taken(i)' = c[i] + 1
      /\ \A j \in Layers \ {i} : Taken(j)' = Taken(j)
  BY <1>1, <1>2, <1>4, <1>5 DEF Taken, Chunks
<1>8. Received(i)
  BY DEF FetchPanics
<1>9. chan' \in [1 .. NumLayers - 1 -> Seq(Tokens)] /\ ChannelsMatchRef'
  BY <1>1, <1>2, <1>7, <1>8, TakenFromChannel
<1>10. TypeOK'
  BY <1>2, <1>3, <1>9 DEF IInv, TypeOK
<1>11. CountersMatchRef'
  BY <1>1, <1>2, <1>4, <1>6 DEF IInv, CountersMatchRef
<1>12. StateMatchesRef'
  BY <1>2, <1>4 DEF IInv, StateMatchesRef
<1>13. FinalMatchesRef'
  BY <1>2 DEF IInv, FinalMatchesRef
<1>14. OutputsMatchRef'
  BY <1>2 DEF IInv, OutputsMatchRef
<1>15. MainMatchesRef'
  BY <1>1, <1>2 DEF IInv, MainMatchesRef, MainPc
<1>16. QED
  BY <1>9, <1>10, <1>11, <1>12, <1>13, <1>14, <1>15 DEF IInv

(* An executed chunk leaves the layer in the state of the sequential run.  *)
LEMMA ExecuteIInv ==
  ASSUME IInv, NEW i \in Layers, Execute(i)
  PROVE  IInv'
<1> USE SizeAssumption
<1>1. pc[i] = "execute" /\ Exec(i, vm[i], inbuf[i]) # Panic
  BY DEF Execute
<1>2. /\ c' = c /\ chan' = chan /\ inbuf' = inbuf /\ finalChan' = finalChan
      /\ outputs' = outputs /\ collected' = collected /\ main' = main
  BY DEF Execute, mainVars
<1>3. /\ pc' = [pc EXCEPT ![i] = "send"]
      /\ pc \in [Layers -> {"fetch", "execute", "send", "done", "panicked"}]
  BY DEF Execute, IInv, TypeOK
<1>4. pc'[i] = "send" /\ \A j \in Layers \ {i} : pc'[j] = pc[j]
  BY <1>3
<1>5. c[i] \in Chunks /\ c[i] \in 0 .. BatchSize /\ c[i] + 1 \in 0 .. BatchSize
  BY <1>1, ChunkCounter DEF IInv
<1>6. Exec(i, vm[i], inbuf[i]) = Ref[i][c[i] + 1]
  BY <1>1, <1>5, RefStep DEF IInv, StateMatchesRef, CountersMatchRef
<1>7. Exec(i, vm[i], inbuf[i]) \in VMs
  BY <1>1, <1>5, <1>6, RefType
<1>8. /\ vm' = [vm EXCEPT ![i] = Ref[i][c[i] + 1]]
      /\ vm' \in [Layers -> VMs]
      /\ vm'[i] = Ref[i][c[i] + 1] /\ \A j \in Layers \ {i} : vm'[j] = vm[j]
  BY <1>6, <1>7 DEF Execute, IInv, TypeOK
<1>9. \A j \in Layers : Taken(j)' = Taken(j)
  BY <1>1, <1>2, <1>4 DEF Taken
<1>10. TypeOK'
  BY <1>2, <1>3, <1>8 DEF IInv, TypeOK
<1>11. CountersMatchRef'
  BY <1>1, <1>2, <1>4 DEF IInv, CountersMatchRef
<1>12. StateMatchesRef'
  BY <1>2, <1>4, <1>8 DEF IInv, StateMatchesRef
<1>13. ChannelsMatchRef'
  BY <1>2, <1>9 DEF IInv, ChannelsMatchRef, Layers
<1>14. FinalMatchesRef'
  BY <1>2 DEF IInv, FinalMatchesRef
<1>15. OutputsMatchRef'
  BY <1>2 DEF IInv, OutputsMatchRef
<1>16. MainMatchesRef'
  BY <1>1, <1>2 DEF IInv, MainMatchesRef, MainPc
<1>17. QED
  BY <1>10, <1>11, <1>12, <1>13, <1>14, <1>15, <1>16 DEF IInv

(* A call that panics here panics in the sequential run too.               *)
LEMMA ExecutePanicsIInv ==
  ASSUME IInv, NEW i \in Layers, ExecutePanics(i)
  PROVE  IInv'
<1> USE SizeAssumption
<1>1. pc[i] = "execute" /\ Exec(i, vm[i], inbuf[i]) = Panic
  BY DEF ExecutePanics
<1>2. /\ c' = c /\ vm' = vm /\ chan' = chan /\ inbuf' = inbuf
      /\ finalChan' = finalChan
      /\ outputs' = outputs /\ collected' = collected /\ main' = main
  BY DEF ExecutePanics, mainVars
<1>3. /\ pc' = [pc EXCEPT ![i] = "panicked"]
      /\ pc \in [Layers -> {"fetch", "execute", "send", "done", "panicked"}]
  BY DEF ExecutePanics, IInv, TypeOK
<1>4. pc'[i] = "panicked" /\ \A j \in Layers \ {i} : pc'[j] = pc[j]
  BY <1>3
<1>5. c[i] \in Chunks /\ c[i] \in 0 .. BatchSize
  BY <1>1, ChunkCounter DEF IInv
<1>6. Ref[i][c[i] + 1] = Panic
  BY <1>1, <1>5, RefStep DEF IInv, StateMatchesRef, CountersMatchRef
<1>7. \A j \in Layers : Taken(j)' = Taken(j)
  BY <1>1, <1>2, <1>4 DEF Taken
<1>8. TypeOK'
  BY <1>2, <1>3 DEF IInv, TypeOK
<1>9. CountersMatchRef'
  BY <1>1, <1>2, <1>4, <1>6 DEF IInv, CountersMatchRef
<1>10. StateMatchesRef'
  BY <1>2, <1>4 DEF IInv, StateMatchesRef
<1>11. ChannelsMatchRef'
  BY <1>2, <1>7 DEF IInv, ChannelsMatchRef, Layers
<1>12. FinalMatchesRef'
  BY <1>2 DEF IInv, FinalMatchesRef
<1>13. OutputsMatchRef'
  BY <1>2 DEF IInv, OutputsMatchRef
<1>14. MainMatchesRef'
  BY <1>1, <1>2 DEF IInv, MainMatchesRef, MainPc
<1>15. QED
  BY <1>8, <1>9, <1>10, <1>11, <1>12, <1>13, <1>14 DEF IInv

(* The end of an iteration: the layer has finished one more chunk.         *)
LEMMA NextChunkMatchesRef ==
  ASSUME IInv, NEW i \in Layers, pc[i] = "send", NextChunk(i),
         UNCHANGED <<inbuf, vm>>
  PROVE  /\ c' \in [Layers -> 0 .. BatchSize]
         /\ pc' \in [Layers -> {"fetch", "execute", "send", "done", "panicked"}]
         /\ c'[i] = c[i] + 1 /\ \A j \in Layers \ {i} : c'[j] = c[j]
         /\ c[i] \in Chunks /\ vm[i] = Ref[i][c[i] + 1] /\ vm[i].out \in Tokens
         /\ \A j \in Layers : Taken(j)' = Taken(j)
         /\ CountersMatchRef' /\ StateMatchesRef'
<1> USE SizeAssumption
<1>1. c[i] \in Chunks /\ c[i] + 1 \in 0 .. BatchSize
  BY ChunkCounter DEF IInv
<1>2. /\ c \in [Layers -> 0 .. BatchSize]
      /\ pc \in [Layers -> {"fetch", "execute", "send", "done", "panicked"}]
  BY DEF IInv, TypeOK
<1>3. c' = [c EXCEPT ![i] = c[i] + 1] /\ pc' = [pc EXCEPT ![i] = LoopPc(c[i] + 1)]
  BY DEF NextChunk
<1>4. LoopPc(c[i] + 1) \in {"fetch", "done"}
      /\ (LoopPc(c[i] + 1) = "done" <=> c[i] + 1 = BatchSize)
  BY <1>1 DEF LoopPc
<1>5. /\ c' \in [Layers -> 0 .. BatchSize]
      /\ pc' \in [Layers -> {"fetch", "execute", "send", "done", "panicked"}]
  BY <1>1, <1>2, <1>3, <1>4
<1>6. /\ c'[i] = c[i] + 1 /\ \A j \in Layers \ {i} : c'[j] = c[j]
      /\ pc'[i] = LoopPc(c[i] + 1) /\ \A j \in Layers \ {i} : pc'[j] = pc[j]
  BY <1>2, <1>3
<1>7. /\ vm[i] = Ref[i][c[i] + 1] /\ vm[i] # Panic /\ vm[i].out \in Tokens
  BY DataAssumption DEF IInv, TypeOK, StateMatchesRef
<1>8. \A j \in Layers : Taken(j)' = Taken(j)
  BY <1>4, <1>6 DEF Taken
<1>9. CountersMatchRef'
  <2> SUFFICES ASSUME NEW j \in Layers
               PROVE  /\ \A k \in 0 .. c'[j] : Ref[j][k] # Panic
                      /\ pc'[j] = "done" <=> c'[j] = BatchSize
                      /\ pc'[j] = "panicked" => Ref[j][c'[j] + 1] = Panic
    BY DEF CountersMatchRef
  <2>1. CASE j = i
    <3>1. \A k \in 0 .. c[i] + 1 : k \in 0 .. c[i] \/ k = c[i] + 1
      BY <1>1 DEF Chunks
    <3>2. QED
      BY <1>4, <1>6, <1>7, <2>1, <3>1 DEF IInv, CountersMatchRef
  <2>2. CASE j # i
    BY <1>6, <2>2 DEF IInv, CountersMatchRef
  <2>3. QED
    BY <2>1, <2>2
<1>10. StateMatchesRef'
  BY <1>4, <1>6, <1>7 DEF IInv, StateMatchesRef
<1>11. QED
  BY <1>1, <1>5, <1>6, <1>7, <1>8, <1>9, <1>10

(* Sending appends the output of the next chunk to the channel.            *)
LEMMA SendIInv ==
  ASSUME IInv, NEW i \in Layers, Send(i)
  PROVE  IInv'
<1> USE SizeAssumption
<1>1. pc[i] = "send" /\ i # NumLayers /\ NextChunk(i)
  BY DEF Send
<1>2. /\ vm' = vm /\ inbuf' = inbuf /\ finalChan' = finalChan
      /\ outputs' = outputs /\ collected' = collected /\ main' = main
  BY DEF Send, mainVars
<1>3. /\ c' \in [Layers -> 0 .. BatchSize]
      /\ pc' \in [Layers -> {"fetch", "execute", "send", "done", "panicked"}]
      /\ c'[i] = c[i] + 1 /\ \A j \in Layers \ {i} : c'[j] = c[j]
      /\ c[i] \in Chunks /\ vm[i] = Ref[i][c[i] + 1] /\ vm[i].out \in Tokens
      /\ \A j \in Layers : Taken(j)' = Taken(j)
      /\ CountersMatchRef' /\ StateMatchesRef'
  BY <1>1, <1>2, NextChunkMatchesRef
<1>4. i \in 1 .. NumLayers - 1 /\ NumLayers \in Layers \ {i}
  BY <1>1 DEF Layers
<1>5. chan \in [1 .. NumLayers - 1 -> Seq(Tokens)]
  BY DEF IInv, TypeOK
<1>6. /\ Append(chan[i], vm[i].out) \in Seq(Tokens)
      /\ Len(Append(chan[i], vm[i].out)) = Len(chan[i]) + 1
      /\ \A k \in 1 .. Len(chan[i]) : Append(chan[i], vm[i].out)[k] = chan[i][k]
      /\ Append(chan[i], vm[i].out)[Len(chan[i]) + 1] = vm[i].out
      /\ Len(chan[i]) \in Nat
  BY <1>3, <1>4, <1>5, AppendProperties, LenProperties
<1>7. /\ chan' \in [1 .. NumLayers - 1 -> Seq(Tokens)]
      /\ chan'[i] = Append(chan[i], vm[i].out)
      /\ \A j \in 1 .. NumLayers - 1 : j # i => chan'[j] = chan[j]
  BY <1>4, <1>5, <1>6 DEF Send
<1>8. TypeOK'
  BY <1>2, <1>3, <1>7 DEF IInv, TypeOK
<1>9. ChannelsMatchRef'
  <2> SUFFICES ASSUME NEW j \in 1 .. NumLayers - 1
               PROVE  /\ Len(chan'[j]) = c'[j] - Taken(j + 1)'
                      /\ \A k \in 1 .. Len(chan'[j]) :
                           chan'[j][k] = Ref[j][Taken(j + 1)' + k].out
    BY DEF ChannelsMatchRef
  <2>1. /\ Len(chan[j]) = c[j] - Taken(j + 1)
        /\ \A k \in 1 .. Len(chan[j]) :
             chan[j][k] = Ref[j][Taken(j + 1) + k].out
    BY DEF IInv, ChannelsMatchRef
  <2>2. j \in Layers /\ j + 1 \in Layers /\ Taken(j + 1)' = Taken(j + 1)
    BY <1>3 DEF Layers
  <2>3. CASE j # i
    BY <1>3, <1>7, <2>1, <2>2, <2>3
  <2>4. CASE j = i
    <3>1. Taken(i + 1) \in Int /\ c[i] \in Int
      BY <2>2, <2>4, ChunkCounter DEF IInv, TypeOK, Taken
    <3>2. Len(chan'[i]) = c'[i] - Taken(i + 1)'
      <4>1. Len(chan'[i]) = Len(chan[i]) + 1
        BY <1>6, <1>7
      <4>2. Len(chan[i]) = c[i] - Taken(i + 1)
        BY <2>1, <2>4
      <4>3. c'[i] = c[i] + 1 /\ Taken(i + 1)' = Taken(i + 1)
        BY <1>3, <2>2, <2>4
      <4>4. QED
        BY <3>1, <4>1, <4>2, <4>3
    <3>3. ASSUME NEW k \in 1 .. Len(chan'[i])
          PROVE  chan'[i][k] = Ref[i][Taken(i + 1) + k].out
      <4>1. CASE k \in 1 .. Len(chan[i])
        BY <1>6, <1>7, <2>1, <2>4, <4>1
      <4>2. CASE k = Len(chan[i]) + 1
        <5>1. Taken(i + 1) + k = c[i] + 1
          BY <1>6, <2>1, <2>4, <3>1, <4>2
        <5>2. QED
          BY <1>3, <1>6, <1>7, <4>2, <5>1
      <4>3. QED
        BY <1>6, <1>7, <4>1, <4>2
    <3>4. QED
      BY <2>2, <2>4, <3>2, <3>3
  <2>5. QED
    BY <2>3, <2>4
<1>10. FinalMatchesRef'
  BY <1>2, <1>3, <1>4 DEF IInv, FinalMatchesRef
<1>11. OutputsMatchRef'
  BY <1>2 DEF IInv, OutputsMatchRef
<1>12. MainMatchesRef'
  BY <1>1, <1>2 DEF IInv, MainMatchesRef, MainPc
<1>13. QED
  BY <1>3, <1>8, <1>9, <1>10, <1>11, <1>12 DEF IInv

(* The last layer sends the output with the number of its chunk.           *)
LEMMA SendFinalIInv ==
  ASSUME IInv, NEW i \in Layers, SendFinal(i)
  PROVE  IInv'
<1> USE SizeAssumption
<1>1. pc[i] = "send" /\ i = NumLayers /\ NextChunk(i)
  BY DEF SendFinal
<1>2. /\ vm' = vm /\ inbuf' = inbuf /\ chan' = chan
      /\ outputs' = outputs /\ collected' = collected /\ main' = main
  BY DEF SendFinal, mainVars
<1>3. /\ c' \in [Layers -> 0 .. BatchSize]
      /\ pc' \in [Layers -> {"fetch", "execute", "send", "done", "panicked"}]
      /\ c'[i] = c[i] + 1 /\ \A j \in Layers \ {i} : c'[j] = c[j]
      /\ c[i] \in Chunks /\ vm[i] = Ref[i][c[i] + 1] /\ vm[i].out \in Tokens
      /\ \A j \in Layers : Taken(j)' = Taken(j)
      /\ CountersMatchRef' /\ StateMatchesRef'
  BY <1>1, <1>2, NextChunkMatchesRef
<1>4. finalChan \in Seq(Chunks \X Tokens) /\ collected \in Nat /\ c[i] \in Nat
  BY <1>3 DEF IInv, TypeOK, Chunks
<1> DEFINE sent == <<c[i], vm[i].out>>
<1>5. sent \in Chunks \X Tokens /\ finalChan' = Append(finalChan, sent)
  BY <1>3 DEF SendFinal
<1> HIDE DEF sent
<1>6. /\ finalChan' \in Seq(Chunks \X Tokens)
      /\ Len(finalChan') = Len(finalChan) + 1 /\ Len(finalChan) \in Nat
      /\ \A k \in 1 .. Len(finalChan) : finalChan'[k] = finalChan[k]
      /\ finalChan'[Len(finalChan) + 1] = sent
  BY <1>4, <1>5, AppendProperties, LenProperties
<1>7. TypeOK'
  BY <1>2, <1>3, <1>6 DEF IInv, TypeOK
<1>8. ChannelsMatchRef'
  <2>1. \A j \in 1 .. NumLayers - 1 :
          c'[j] = c[j] /\ Taken(j + 1)' = Taken(j + 1)
    BY <1>1, <1>3 DEF Layers
  <2>2. QED
    BY <1>2, <2>1 DEF IInv, ChannelsMatchRef
<1>9. FinalMatchesRef'
  <2>1. /\ Len(finalChan) = c[i] - collected
        /\ \A k \in 1 .. Len(finalChan) :
             finalChan[k] = <<collected + k - 1, Ref[i][collected + k].out>>
    BY <1>1 DEF IInv, FinalMatchesRef
  <2>2. Len(finalChan') = c'[i] - collected
    BY <1>3, <1>4, <1>6, <2>1
  <2>3. ASSUME NEW k \in 1 .. Len(finalChan')
        PROVE  finalChan'[k] = <<collected + k - 1, Ref[i][collected + k].out>>
    <3>1. CASE k \in 1 .. Len(finalChan)
      BY <1>6, <2>1, <3>1
    <3>2. CASE k = Len(finalChan) + 1
      <4>1. Len(finalChan) \in Nat /\ Len(finalChan) = c[i] - collected
        BY <1>6, <2>1
      <4>2. collected + k - 1 = c[i] /\ collected + k = c[i] + 1
        <5>1. collected \in Int /\ c[i] \in Int /\ k = (c[i] - collected) + 1
          BY <1>4, <3>2, <4>1
        <5>2. QED
          BY <5>1
      <4>3. QED
        BY <1>3, <1>6, <3>2, <4>2 DEF sent
    <3>3. QED
      BY <1>6, <3>1, <3>2
  <2>4. QED
    BY <1>1, <1>2, <2>2, <2>3 DEF FinalMatchesRef
<1>10. OutputsMatchRef'
  BY <1>2 DEF IInv, OutputsMatchRef
<1>11. MainMatchesRef'
  BY <1>1, <1>2 DEF IInv, MainMatchesRef, MainPc
<1>12. QED
  BY <1>3, <1>7, <1>8, <1>9, <1>10, <1>11 DEF IInv

(* What the main thread finds at the head of its channel: the next row.    *)
LEMMA NextRow ==
  ASSUME IInv, finalChan # <<>>
  PROVE  /\ collected \in Chunks
         /\ Ref[NumLayers][collected + 1] # Panic
         /\ Ref[NumLayers][collected + 1].out \in Tokens
         /\ Head(finalChan)[1] = collected
         /\ Head(finalChan)[2] = Ref[NumLayers][collected + 1].out
<1> USE SizeAssumption
<1>1. NumLayers \in Layers /\ c[NumLayers] \in 0 .. BatchSize
  BY ChunkCounter DEF IInv, Layers
<1>2. finalChan \in Seq(Chunks \X Tokens) /\ collected \in Nat
  BY DEF IInv, TypeOK
<1>3. Len(finalChan) \in Nat \ {0}
  BY <1>2, EmptySeq
<1>4. Len(finalChan) = c[NumLayers] - collected
  BY DEF IInv, FinalMatchesRef
<1>5. collected \in Chunks /\ collected + 1 \in 0 .. c[NumLayers]
      /\ collected + 1 \in 0 .. BatchSize
  BY <1>1, <1>2, <1>3, <1>4 DEF Chunks
<1>6. Ref[NumLayers][collected + 1] # Panic
  BY <1>1, <1>5 DEF IInv, CountersMatchRef
<1>7. Ref[NumLayers][collected + 1].out \in Tokens
  BY <1>1, <1>5, <1>6, RefType
<1>8. finalChan[1] = <<collected + 1 - 1, Ref[NumLayers][collected + 1].out>>
  BY <1>3 DEF IInv, FinalMatchesRef
<1>9. Head(finalChan) = finalChan[1] /\ collected + 1 - 1 = collected
  BY <1>2
<1>10. QED
  BY <1>5, <1>6, <1>7, <1>8, <1>9

(* Collecting writes the next row of the outputs.                          *)
LEMMA CollectIInv ==
  ASSUME IInv, Collect
  PROVE  IInv'
<1> USE SizeAssumption
<1>1. main = "collect" /\ finalChan # <<>>
  BY DEF Collect
<1>2. /\ pc' = pc /\ c' = c /\ inbuf' = inbuf /\ vm' = vm /\ chan' = chan
      /\ collected' = collected + 1 /\ main' = MainPc(collected + 1)
      /\ finalChan' = Tail(finalChan)
  BY DEF Collect, layerVars
<1>3. /\ collected \in Chunks
      /\ Ref[NumLayers][collected + 1].out \in Tokens
      /\ Head(finalChan)[1] = collected
      /\ Head(finalChan)[2] = Ref[NumLayers][collected + 1].out
  BY <1>1, NextRow
<1>4. outputs' = [outputs EXCEPT ![collected] = Ref[NumLayers][collected + 1].out]
  BY <1>3 DEF Collect
<1>5. finalChan \in Seq(Chunks \X Tokens)
      /\ collected \in Nat /\ collected + 1 \in 0 .. BatchSize
  BY <1>3 DEF IInv, TypeOK, Chunks
<1>6. /\ finalChan' \in Seq(Chunks \X Tokens)
      /\ Len(finalChan') = Len(finalChan) - 1 /\ Len(finalChan) \in Nat
      /\ \A k \in 1 .. Len(finalChan') : finalChan'[k] = finalChan[k + 1]
  BY <1>1, <1>2, <1>5, HeadTailProperties, LenProperties
<1>7. TypeOK'
  <2>1. outputs' \in [Chunks -> Tokens \union {NoRow}]
    BY <1>3, <1>4 DEF IInv, TypeOK
  <2>2. main' \in {"collect", "join", "returned"}
    BY <1>2 DEF MainPc
  <2>3. QED
    BY <1>2, <1>5, <1>6, <2>1, <2>2 DEF IInv, TypeOK
<1>8. CountersMatchRef' /\ StateMatchesRef'
  BY <1>2 DEF IInv, CountersMatchRef, StateMatchesRef
<1>9. ChannelsMatchRef'
  BY <1>2 DEF IInv, ChannelsMatchRef, Taken
<1>10. FinalMatchesRef'
  <2>1. /\ Len(finalChan) = c[NumLayers] - collected
        /\ \A k \in 1 .. Len(finalChan) :
             finalChan[k] = <<collected + k - 1,
                              Ref[NumLayers][collected + k].out>>
    BY DEF IInv, FinalMatchesRef
  <2>2. c[NumLayers] \in Nat
    BY DEF IInv, TypeOK, Layers
  <2>3. Len(finalChan') = c[NumLayers] - (collected + 1)
    BY <1>5, <1>6, <2>1, <2>2
  <2>4. ASSUME NEW k \in 1 .. Len(finalChan')
        PROVE  finalChan'[k] = <<(collected + 1) + k - 1,
                                 Ref[NumLayers][(collected + 1) + k].out>>
    <3>1. k + 1 \in 1 .. Len(finalChan)
      BY <1>6
    <3>2. /\ collected + (k + 1) - 1 = (collected + 1) + k - 1
          /\ collected + (k + 1) = (collected + 1) + k
      BY <1>5
    <3>3. QED
      BY <1>6, <2>1, <3>1, <3>2
  <2>5. QED
    BY <1>2, <2>3, <2>4 DEF FinalMatchesRef
<1>11. OutputsMatchRef'
  <2> SUFFICES ASSUME NEW k \in Chunks
               PROVE  outputs'[k] = IF k < collected + 1
                                    THEN Ref[NumLayers][k + 1].out ELSE NoRow
    BY <1>2 DEF OutputsMatchRef
  <2>1. outputs[k] = IF k < collected THEN Ref[NumLayers][k + 1].out ELSE NoRow
    BY DEF IInv, OutputsMatchRef
  <2>2. CASE k = collected
    BY <1>4, <1>5, <2>2 DEF IInv, TypeOK
  <2>3. CASE k # collected
    <3>1. outputs'[k] = outputs[k]
      BY <1>4, <2>3 DEF IInv, TypeOK
    <3>2. k < collected + 1 <=> k < collected
      BY <1>5, <2>3 DEF Chunks
    <3>3. QED
      BY <2>1, <3>1, <3>2
  <2>4. QED
    BY <2>2, <2>3
<1>12. MainMatchesRef'
  BY <1>2 DEF MainMatchesRef, MainPc
<1>13. QED
  BY <1>7, <1>8, <1>9, <1>10, <1>11, <1>12 DEF IInv

(* While it waits for the threads the main thread has every row.           *)
LEMMA JoinHasAllRows ==
  ASSUME IInv, main = "join"
  PROVE  collected = BatchSize
BY SizeAssumption DEF IInv, TypeOK, MainMatchesRef, MainPc

(* Joining the threads changes nothing but the main thread.                *)
LEMMA JoinIInv ==
  ASSUME IInv, Join
  PROVE  IInv'
<1>1. /\ pc' = pc /\ c' = c /\ inbuf' = inbuf /\ vm' = vm /\ chan' = chan
      /\ finalChan' = finalChan /\ outputs' = outputs /\ collected' = collected
      /\ main = "join" /\ main' = "returned" /\ \A i \in Layers : pc[i] = "done"
  BY DEF Join, layerVars
<1>2. TypeOK' /\ CountersMatchRef' /\ StateMatchesRef'
  BY <1>1 DEF IInv, TypeOK, CountersMatchRef, StateMatchesRef
<1>3. ChannelsMatchRef' /\ FinalMatchesRef' /\ OutputsMatchRef'
  BY <1>1 DEF IInv, ChannelsMatchRef, Taken, FinalMatchesRef, OutputsMatchRef
<1>4. MainMatchesRef'
  BY <1>1, JoinHasAllRows DEF MainMatchesRef
<1>5. QED
  BY <1>2, <1>3, <1>4 DEF IInv

(* A step that changes nothing.                                            *)
LEMMA StutterIInv ==
  ASSUME IInv, UNCHANGED vars
  PROVE  IInv'
BY DEF vars, IInv, TypeOK, CountersMatchRef, StateMatchesRef, ChannelsMatchRef,
       Taken, FinalMatchesRef, OutputsMatchRef, MainMatchesRef

(* Every step preserves the inductive invariant. *)
LEMMA NextIInv == IInv /\ [Next]_vars => IInv'
<1> SUFFICES ASSUME IInv, [Next]_vars PROVE IInv'
  OBVIOUS
<1>1. ASSUME NEW i \in Layers, LayerStep(i) PROVE IInv'
  BY <1>1, FetchIInv, FetchPanicsIInv, ExecuteIInv, ExecutePanicsIInv,
     SendIInv, SendFinalIInv DEF LayerStep
<1>2. CASE MainStep
  BY <1>2, CollectIInv, JoinIInv DEF MainStep
<1>3. CASE UNCHANGED vars
  BY <1>3, StutterIInv
<1>4. QED
  BY <1>1, <1>2, <1>3 DEF Next, Returned

-----------------------------------------------------------------------------
(* The pipeline computes the rows of the sequential run: whatever the      *)
(* interleaving of the layer threads, every scratchpad, channel and row is *)
(* that of the sequential run (PipelineExecutor::execute).                 *)
THEOREM PipelineMatchesRef == Spec => []IInv
<1>1. QED
  BY InitIInv, NextIInv, PTL DEF Spec

(* execute returns only when all threads have ended and all rows are there. *)
THEOREM ReturnsComplete == Spec => []ReturnIsComplete
<1>1. IInv => ReturnIsComplete
  <2> SUFFICES ASSUME IInv, main = "returned"
               PROVE  /\ \A i \in Layers : pc[i] = "done"
                      /\ \A k \in Chunks : outputs[k] = Ref[NumLayers][k + 1].out
    BY DEF ReturnIsComplete
  <2>1. collected = BatchSize /\ \A i \in Layers : pc[i] = "done"
    BY DEF IInv, MainMatchesRef, MainPc
  <2>2. \A k \in Chunks : k < BatchSize
    BY SizeAssumption DEF Chunks
  <2>3. QED
    BY <2>1, <2>2 DEF IInv, OutputsMatchRef
<1>2. QED
  BY <1>1, PipelineMatchesRef, PTL

(* The last layer never waits for room in the channel to the main thread.  *)
THEOREM FinalChannelHasRoom == Spec => []FinalNeverBlocks
<1>1. IInv => FinalNeverBlocks
  <2> SUFFICES ASSUME IInv, pc[NumLayers] = "send"
               PROVE  Len(finalChan) < BatchSize
    BY DEF FinalNeverBlocks, FinalCap
  <2>1. NumLayers \in Layers
    BY SizeAssumption DEF Layers
  <2>2. c[NumLayers] \in Chunks
    BY <2>1, ChunkCounter DEF IInv
  <2>3. Len(finalChan) = c[NumLayers] - collected /\ collected \in 0 .. BatchSize
    BY DEF IInv, FinalMatchesRef, TypeOK
  <2>4. QED
    BY <2>2, <2>3, SizeAssumption DEF Chunks
<1>2. QED
  BY <1>1, PipelineMatchesRef, PTL

(* A layer with a chunk in its hands has been overtaken by none of the     *)
(* earlier layers' counters.                                               *)
LEMMA TakenFromEarlier ==
  ASSUME IInv, Flow, NEW i \in Layers, NEW j \in Layers, j < i
  PROVE  Taken(i) <= c[j]
<1> USE SizeAssumption
<1>1. i - 1 \in 1 .. NumLayers - 1 /\ i - 1 \in Layers /\ j <= i - 1
      /\ (i - 1) + 1 = i
  BY DEF Layers
<1>2. c[i - 1] \in Nat /\ c[j] \in Nat /\ Taken(i) \in Nat
  BY <1>1 DEF IInv, TypeOK, Taken
<1>3. c[i - 1] <= c[j]
  BY <1>1 DEF Flow
<1>4. Len(chan[i - 1]) \in Nat
  BY <1>1, LenProperties DEF IInv, TypeOK
<1>5. Len(chan[i - 1]) = c[i - 1] - Taken(i)
  BY <1>1 DEF IInv, ChannelsMatchRef
<1>6. QED
  BY <1>2, <1>3, <1>4, <1>5

(* Finishing a chunk keeps the layers in order.                            *)
LEMMA NextChunkInOrder ==
  ASSUME IInv, Flow, NEW i \in Layers, pc[i] = "send", NextChunk(i)
  PROVE  \A h, j \in Layers : h <= j => c'[j] <= c'[h]
<1>1. c \in [Layers -> 0 .. BatchSize] /\ c' = [c EXCEPT ![i] = c[i] + 1]
  BY DEF IInv, TypeOK, NextChunk
<1>2. \A h \in Layers : h < i => c[i] + 1 <= c[h]
  BY TakenFromEarlier DEF Taken
<1>3. QED
  BY <1>1, <1>2, SizeAssumption DEF Flow, Layers

(* Every step keeps the layers in order and the channels bounded.          *)
LEMMA NextFlow == IInv /\ Flow /\ [Next]_vars => Flow'
<1> SUFFICES ASSUME IInv, Flow, [Next]_vars PROVE Flow'
  OBVIOUS
<1> USE SizeAssumption
<1> chan \in [1 .. NumLayers - 1 -> Seq(Tokens)]
  BY DEF IInv, TypeOK
<1>1. ASSUME NEW i \in Layers, c' = c, HasToken(i), Received(i) PROVE Flow'
  <2>1. CASE i = 1
    BY <1>1, <2>1 DEF Flow, Received
  <2>2. CASE i # 1
    <3>1. i - 1 \in 1 .. NumLayers - 1 /\ chan[i - 1] # <<>>
          /\ chan' = [chan EXCEPT ![i - 1] = Tail(chan[i - 1])]
      BY <1>1, <2>2 DEF Layers, HasToken, Received
    <3>2. Len(Tail(chan[i - 1])) = Len(chan[i - 1]) - 1 /\ Len(chan[i - 1]) \in Nat
      BY <3>1, HeadTailProperties, LenProperties
    <3>3. \A j \in 1 .. NumLayers - 1 : Len(chan'[j]) <= ChanCap
      BY <3>1, <3>2 DEF Flow
    <3>4. QED
      BY <1>1, <3>3 DEF Flow
  <2>3. QED
    BY <2>1, <2>2
<1>2. ASSUME NEW i \in Layers, Fetch(i) \/ FetchPanics(i) PROVE Flow'
  BY <1>1, <1>2 DEF Fetch, FetchPanics
<1>3. ASSUME NEW i \in Layers, Execute(i) \/ ExecutePanics(i) PROVE Flow'
  BY <1>3 DEF Execute, ExecutePanics, Flow
<1>4. ASSUME NEW i \in Layers, Send(i) PROVE Flow'
  <2>1. i \in 1 .. NumLayers - 1 /\ Len(chan[i]) < ChanCap
        /\ chan' = [chan EXCEPT ![i] = Append(chan[i], vm[i].out)]
    BY <1>4 DEF Send, Layers
  <2>2. Len(Append(chan[i], vm[i].out)) = Len(chan[i]) + 1 /\ Len(chan[i]) \in Nat
    <3>1. vm[i].out \in Tokens
      BY DataAssumption DEF IInv, TypeOK
    <3>2. QED
      BY <2>1, <3>1, AppendProperties, LenProperties
  <2>3. \A j \in 1 .. NumLayers - 1 : Len(chan'[j]) <= ChanCap
    BY <2>1, <2>2 DEF Flow
  <2>4. QED
    BY <1>4, <2>3, NextChunkInOrder DEF Flow, Send
<1>5. ASSUME NEW i \in Layers, SendFinal(i) PROVE Flow'
  BY <1>5, NextChunkInOrder DEF Flow, SendFinal
<1>6. CASE MainStep \/ UNCHANGED vars
  BY <1>6 DEF MainStep, Collect, Join, layerVars, vars, Flow
<1>7. QED
  BY <1>2, <1>3, <1>4, <1>5, <1>6 DEF Next, LayerStep, Returned

(* The threads stay in order, within the bounds of the channels.           *)
THEOREM PipelineFlow == Spec => [](IInv /\ Flow)
<1>1. Init => Flow
  BY SizeAssumption DEF Init, Flow
<1>2. QED
  BY <1>1, InitIInv, NextIInv, NextFlow, PTL DEF Spec

(* A layer is at most the channel's capacity and one token ahead of the    *)
(* next one: the bounded channels hold the whole batch back.               *)
THEOREM LayersStayClose == Spec => []BackPressure
<1>1. IInv /\ Flow => BackPressure
  <2> SUFFICES ASSUME IInv, Flow, NEW i \in 1 .. NumLayers - 1
               PROVE  c[i] - c[i + 1] \in 0 .. ChanCap + 1
    BY DEF BackPressure
  <2>1. i \in Layers /\ i + 1 \in Layers
    BY SizeAssumption DEF Layers
  <2>2. c[i] \in Nat /\ c[i + 1] \in Nat /\ Taken(i + 1) \in c[i + 1] .. c[i + 1] + 1
    BY <2>1 DEF IInv, TypeOK, Taken
  <2>3. Len(chan[i]) = c[i] - Taken(i + 1) /\ Len(chan[i]) <= ChanCap
    BY DEF IInv, ChannelsMatchRef, Flow
  <2>4. c[i + 1] <= c[i]
    BY <2>1 DEF Flow
  <2>5. QED
    BY <2>2, <2>3, <2>4, SizeAssumption
<1>2. QED
  BY <1>1, PipelineFlow, PTL

(* After a panic in a layer's thread execute does not return.              *)
THEOREM PanicNeverReturns == Spec => []PanicHangs
<1>1. IInv /\ Flow => PanicHangs
  <2> SUFFICES ASSUME IInv, Flow, NEW i \in Layers, pc[i] = "panicked"
               PROVE  main = "collect"
    BY DEF PanicHangs
  <2>1. c[i] \in Chunks
    BY ChunkCounter DEF IInv
  <2>2. NumLayers \in Layers /\ c[NumLayers] <= c[i]
    BY SizeAssumption DEF Layers, Flow
  <2>3. collected \in Nat /\ c[NumLayers] \in Nat
    BY <2>2 DEF IInv, TypeOK
  <2>4. collected <= c[NumLayers]
    BY <2>3, LenProperties DEF IInv, TypeOK, FinalMatchesRef
  <2>5. collected < BatchSize
    BY <2>1, <2>2, <2>3, <2>4, SizeAssumption DEF Chunks
  <2>6. QED
    BY <2>3, <2>5, SizeAssumption DEF IInv, MainMatchesRef, MainPc
<1>2. QED
  BY <1>1, PipelineFlow, PTL

(* The threads and channels implement the in-order stream of rows: the     *)
(* caller sees rows appear in order, each with its sequential value, and a *)
(* return only when all are there.                                         *)
THEOREM PipelineImplementsStream == Spec => ImplementsStream
<1>1. Init => Stream!Init
  BY SizeAssumption DEF Init, MainPc, Stream!Init, Chunks
<1>2. IInv /\ [Next]_vars => [Stream!Next]_(Stream!vars)
  <2> SUFFICES ASSUME IInv, [Next]_vars
               PROVE  Stream!Next \/ UNCHANGED Stream!vars
    OBVIOUS
  <2>1. CASE Collect
    <3>1. finalChan # <<>> /\ main = "collect"
      BY <2>1 DEF Collect
    <3>2. /\ collected \in Chunks
          /\ Ref[NumLayers][collected + 1] # Panic
          /\ Ref[NumLayers][collected + 1].out \in Tokens
          /\ Head(finalChan)[1] = collected
          /\ Head(finalChan)[2] = Ref[NumLayers][collected + 1].out
      BY <3>1, NextRow
    <3>3. RefRows[collected] = Ref[NumLayers][collected + 1].out
      BY <3>2 DEF RefRows
    <3>4. RefRows[collected] # Panic /\ collected < BatchSize
      BY <3>2, <3>3, DataAssumption, SizeAssumption DEF Chunks
    <3>5. outputs' = [outputs EXCEPT ![collected] = RefRows[collected]]
          /\ collected' = collected + 1
      BY <2>1, <3>2, <3>3 DEF Collect
    <3>6. main' # "returned"
      BY <2>1 DEF Collect, MainPc
    <3>7. Stream!Deliver
      BY <3>1, <3>4, <3>5, <3>6 DEF Stream!Deliver
    <3>8. QED
      BY <3>7 DEF Stream!Next
  <2>2. CASE Join
    <3>1. collected = BatchSize
      BY <2>2, JoinHasAllRows DEF Join
    <3>2. Stream!Return
      BY <2>2, <3>1 DEF Join, Stream!Return
    <3>3. QED
      BY <3>2 DEF Stream!Next
  <2>3. ASSUME NEW i \in Layers, LayerStep(i) PROVE UNCHANGED Stream!vars
    BY <2>3 DEF LayerStep, Fetch, FetchPanics, Execute, ExecutePanics, Send,
                SendFinal, mainVars, Stream!vars
  <2>4. CASE UNCHANGED vars
    BY <2>4 DEF vars, Stream!vars
  <2>5. QED
    BY <2>1, <2>2, <2>3, <2>4 DEF Next, MainStep, Returned
<1>3. QED
  BY <1>1, <1>2, PipelineMatchesRef, PTL DEF Spec, ImplementsStream, Stream!Spec

-----------------------------------------------------------------------------
(* The buffers of a layer's executor. *)
BufferNames == {"i16", "f32", "out"}

Buffers(i, p) ==
  /\ DOMAIN p = BufferNames
  /\ DOMAIN p.i16 = DOMAIN FreshVM(i).mem.i16
  /\ DOMAIN p.f32 = DOMAIN FreshVM(i).mem.f32
  /\ DOMAIN p.out = 0 .. OutSize[i] - 1

(* Buffers that hold the same in the cells of a set. *)
Agree(cells, p, q) ==
  \A cell \in cells :
    cell[1] \in BufferNames /\ cell[2] \in DOMAIN p[cell[1]]
      => p[cell[1]][cell[2]] = q[cell[1]][cell[2]]

(* What an instruction writes, the outputs among it. *)
Targets(ins) == K!Writes(ins) \union ({"out"} \X K!Stores(ins))

LEMMA LayerFields ==
  ASSUME NEW ins \in LayerCode
  PROVE  /\ ins.len \in Nat
         /\ ins.op = "LoadVarVec" => ins.var \in Nat /\ ins.dst \in Nat
         /\ ins.op = "StoreVec" => ins.src \in Nat /\ ins.out \in Nat
         /\ ins.op = "BlockScale" => ins.src \in Nat
         /\ ins.op \in K!VecBinOps => ins.lhs \in Nat /\ ins.rhs \in Nat /\ ins.dst \in Nat
         /\ ins.op \in K!VecOneOps => ins.lhs \in Nat /\ ins.dst \in Nat
         /\ ins.op \in LayerOps
BY DEF LayerCode, LayerOps, K!OpCode, K!ScalarOps, K!VecBinOps, K!VecI8Ops, K!VecOneOps

(* The buffers p after a copy of b to one of them. *)
Copied(x, p, pad, off, b) ==
  /\ DOMAIN x = BufferNames
  /\ x[pad] = K!Copy(p[pad], off, b)
  /\ \A other \in BufferNames : other # pad => x[other] = p[other]

(* Copies of the same into buffers that agree.                             *)
LEMMA CopyAgrees ==
  ASSUME NEW i, NEW p, NEW q, Buffers(i, p), Buffers(i, q), NEW cells, Agree(cells, p, q),
         NEW pad \in BufferNames, NEW off \in Nat, NEW len \in Nat,
         NEW b, DOMAIN b = 0 .. len - 1,
         NEW x, Copied(x, p, pad, off, b), NEW y, Copied(y, q, pad, off, b)
  PROVE  /\ Buffers(i, x) /\ Buffers(i, y)
         /\ Agree(cells \union ({pad} \X K!Span(off, len)), x, y)
<1>1. DOMAIN p = BufferNames /\ DOMAIN q = BufferNames /\ DOMAIN x = BufferNames
      /\ DOMAIN y = BufferNames
  BY DEF Buffers, Copied
<1>2. /\ DOMAIN x[pad] = DOMAIN p[pad] /\ DOMAIN y[pad] = DOMAIN q[pad]
      /\ \A n \in DOMAIN p[pad] : x[pad][n] = IF n - off \in 0 .. len - 1 THEN b[n - off] ELSE p[pad][n]
      /\ \A n \in DOMAIN q[pad] : y[pad][n] = IF n - off \in 0 .. len - 1 THEN b[n - off] ELSE q[pad][n]
  BY <1>1 DEF K!Copy, Copied
<1>3. \A other \in BufferNames : other # pad => x[other] = p[other] /\ y[other] = q[other]
  BY <1>1 DEF Copied
<1>4. \A other \in BufferNames : DOMAIN x[other] = DOMAIN p[other] /\ DOMAIN y[other] = DOMAIN q[other]
  BY <1>2, <1>3
<1>5. \A other \in BufferNames : DOMAIN p[other] = DOMAIN q[other]
  BY DEF Buffers, BufferNames
<1>6. Buffers(i, x) /\ Buffers(i, y)
  BY <1>1, <1>4 DEF Buffers, BufferNames
<1>7. ASSUME NEW cell \in cells \union ({pad} \X K!Span(off, len)),
             cell[1] \in BufferNames, cell[2] \in DOMAIN x[cell[1]]
      PROVE  x[cell[1]][cell[2]] = y[cell[1]][cell[2]]
  <2>1. CASE cell[1] = pad /\ cell[2] - off \in 0 .. len - 1
    <3>1. cell[2] \in DOMAIN p[pad] /\ cell[2] \in DOMAIN q[pad]
      BY <1>4, <1>5, <1>7, <2>1
    <3>2. QED
      BY <1>2, <2>1, <3>1
  <2>2. CASE ~ (cell[1] = pad /\ cell[2] - off \in 0 .. len - 1)
    <3>1. cell \in cells
      BY <1>7, <2>2 DEF K!Span
    <3>2. cell[2] \in DOMAIN p[cell[1]] /\ cell[2] \in DOMAIN q[cell[1]]
      BY <1>4, <1>5, <1>7
    <3>3. p[cell[1]][cell[2]] = q[cell[1]][cell[2]]
      BY <1>7, <3>1, <3>2 DEF Agree
    <3>4. QED
      BY <1>2, <1>3, <1>7, <2>2, <3>2, <3>3
  <2>3. QED
    BY <2>1, <2>2
<1>8. QED
  BY <1>6, <1>7 DEF Agree

LEMMA LeastOf ==
  ASSUME NEW S, S \subseteq Nat, S # {}
  PROVE  K!Min(S) \in S
BY LeastElement DEF K!Min

(* The elements of a block are elements of the tensor. *)
LEMMA LanesOfBlock ==
  ASSUME NEW ins \in LayerCode, NEW b \in Nat
  PROVE  K!BlockLanes(ins, b) \subseteq 0 .. ins.len - 1
<1>1. ins.len \in Nat /\ b * BlockLen \in Nat /\ (b + 1) * BlockLen \in Nat
  BY LayerFields, LayerAssumption
<1> DEFINE S == {(b + 1) * BlockLen, ins.len}
<1>2. K!Min(S) \in S
  <2>1. S \subseteq Nat /\ S # {}
    BY <1>1
  <2>2. QED
    BY <2>1, LeastOf
<1>3. K!Min(S) \in Int /\ K!Min(S) <= ins.len
  <2>1. CASE K!Min(S) = ins.len
    BY <1>1, <2>1
  <2>2. CASE K!Min(S) = (b + 1) * BlockLen
    <3>1. \E x \in S : \A y \in S : x <= y
      BY <1>1, LeastElement
    <3>2. \A y \in S : K!Min(S) <= y
      BY <3>1 DEF K!Min
    <3>3. QED
      BY <1>1, <2>2, <3>2
  <2>3. QED
    BY <1>2, <2>1, <2>2
<1>4. K!BlockLanes(ins, b) = b * BlockLen .. K!Min(S) - 1
  BY DEF K!BlockLanes
<1>5. QED
  <2> HIDE DEF S
  <2>1. QED
    BY <1>1, <1>3, <1>4

LEMMA SliceAgrees ==
  ASSUME NEW a, NEW b, NEW off \in Nat, NEW len \in Nat,
         \A k \in 0 .. len - 1 : a[off + k] = b[off + k]
  PROVE  K!Slice(a, off, len) = K!Slice(b, off, len)
BY DEF K!Slice

LEMMA ResultAgrees ==
  ASSUME NEW ins, NEW a, NEW b,
         \A k \in 0 .. ins.len - 1 : a[ins.lhs + k] = b[ins.lhs + k],
         ins.op \notin K!VecOneOps => \A k \in 0 .. ins.len - 1 : a[ins.rhs + k] = b[ins.rhs + k]
  PROVE  K!Result(ins, a) = K!Result(ins, b)
<1>1. \A k \in 0 .. ins.len - 1 : K!Rhs(ins, a, k) = K!Rhs(ins, b, k)
  BY DEF K!Rhs
<1>2. QED
  BY <1>1 DEF K!Result

(* An instruction makes the same of buffers that agree on what it reads,   *)
(* and panics on both or on neither.                                       *)
LEMMA EffectAgrees ==
  ASSUME NEW i, NEW ins \in LayerCode, NEW inputs, NEW p, NEW q, Buffers(i, p), Buffers(i, q),
         NEW cells, Agree(cells, p, q), K!Reads(ins) \subseteq cells,
         K!Touches(ins) \subseteq Scratchpads(i)
  PROVE  /\ Buffers(i, K!Effect(ins, p, inputs)) /\ Buffers(i, K!Effect(ins, q, inputs))
         /\ Agree(cells \union Targets(ins), K!Effect(ins, p, inputs), K!Effect(ins, q, inputs))
         /\ Panics(ins, p, inputs) <=> Panics(ins, q, inputs)
<1> DEFINE x == K!Effect(ins, p, inputs)
           y == K!Effect(ins, q, inputs)
<1>1. ins.len \in Nat /\ ins.op \in LayerOps
  BY LayerFields
<1>2. DOMAIN p.i16 = DOMAIN q.i16 /\ DOMAIN p.out = DOMAIN q.out
  BY DEF Buffers
<1>3. \A off \in Nat : K!Cells("i16", off, ins.len) \subseteq K!Reads(ins)
        => \A k \in 0 .. ins.len - 1 : p.i16[off + k] = q.i16[off + k]
  <2>1. SUFFICES ASSUME NEW off \in Nat, K!Cells("i16", off, ins.len) \subseteq K!Reads(ins),
                        NEW k \in 0 .. ins.len - 1
                 PROVE  p.i16[off + k] = q.i16[off + k]
    OBVIOUS
  <2>2. <<"i16", off + k>> \in K!Reads(ins)
    BY <1>1, <2>1 DEF K!Cells, K!Span
  <2>3. off + k \in DOMAIN p.i16
    BY <2>2 DEF Scratchpads, Buffers, K!Touches
  <2>4. QED
    BY <2>2, <2>3 DEF Agree, BufferNames
<1>4. CASE ins.op = "LoadVarVec"
  <2> DEFINE b == K!Slice(inputs, ins.var, ins.len)
  <2>1. Copied(x, p, "i16", ins.dst, b) /\ Copied(y, q, "i16", ins.dst, b)
    <3>1. /\ x = [p EXCEPT !["i16"] = K!Copy(@, ins.dst, b)]
          /\ y = [q EXCEPT !["i16"] = K!Copy(@, ins.dst, b)]
      BY <1>4 DEF K!Effect, K!ScalarOps, K!VecBinOps, K!VecOneOps, K!VecI8Ops, K!StepOps
    <3>2. DOMAIN p = BufferNames /\ DOMAIN q = BufferNames
      BY DEF Buffers
    <3>3. QED
      <4> HIDE DEF x, y, b
      <4>1. QED
        BY <3>1, <3>2 DEF Copied, BufferNames
  <2>2. DOMAIN b = 0 .. ins.len - 1 /\ ins.dst \in Nat /\ "i16" \in BufferNames
    BY <1>4, LayerFields DEF K!Slice, BufferNames
  <2>3. Targets(ins) = {"i16"} \X K!Span(ins.dst, ins.len)
    BY <1>4 DEF Targets, K!Writes, K!Stores, K!Cells, K!ScalarOps, K!VecBinOps, K!VecOneOps,
                K!VecI8Ops, K!StepOps
  <2>4. Panics(ins, p, inputs) <=> Panics(ins, q, inputs)
    BY <1>2, <1>4 DEF Panics, K!Fits, K!Size
  <2>5. QED
    <3> HIDE DEF x, y, b
    <3>1. /\ Buffers(i, x) /\ Buffers(i, y)
          /\ Agree(cells \union ({"i16"} \X K!Span(ins.dst, ins.len)), x, y)
      BY <1>1, <2>1, <2>2, CopyAgrees
    <3>2. QED
      BY <3>1, <2>3, <2>4 DEF x, y
<1>5. CASE ins.op = "StoreVec"
  <2> DEFINE b == K!Slice(p.i16, ins.src, ins.len)
  <2>1. b = K!Slice(q.i16, ins.src, ins.len)
    <3>1. K!Reads(ins) = K!Cells("i16", ins.src, ins.len) /\ ins.src \in Nat
      BY <1>5, LayerFields DEF K!Reads, K!ScalarOps, K!VecBinOps, K!VecOneOps, K!VecI8Ops,
                          K!StepOps
    <3>2. QED
      BY <1>1, <1>3, <3>1, SliceAgrees
  <2>2. Copied(x, p, "out", ins.out, b) /\ Copied(y, q, "out", ins.out, b)
    <3>1. /\ x = [p EXCEPT !["out"] = K!Copy(@, ins.out, b)]
          /\ y = [q EXCEPT !["out"] = K!Copy(@, ins.out, K!Slice(q.i16, ins.src, ins.len))]
      BY <1>5 DEF K!Effect, K!ScalarOps, K!VecBinOps, K!VecOneOps, K!VecI8Ops, K!StepOps
    <3>2. DOMAIN p = BufferNames /\ DOMAIN q = BufferNames
      BY DEF Buffers
    <3>3. QED
      <4> HIDE DEF x, y, b
      <4>1. QED
        BY <2>1, <3>1, <3>2 DEF Copied, BufferNames
  <2>3. DOMAIN b = 0 .. ins.len - 1 /\ ins.out \in Nat /\ "out" \in BufferNames
    BY <1>5, LayerFields DEF K!Slice, BufferNames
  <2>4. Targets(ins) = {"out"} \X K!Span(ins.out, ins.len)
    BY <1>5 DEF Targets, K!Writes, K!Stores, K!Cells, K!ScalarOps, K!VecBinOps, K!VecOneOps,
                K!VecI8Ops, K!StepOps
  <2>5. Panics(ins, p, inputs) <=> Panics(ins, q, inputs)
    BY <1>2, <1>5 DEF Panics, K!Fits, K!Size
  <2>6. QED
    <3> HIDE DEF x, y, b
    <3>1. /\ Buffers(i, x) /\ Buffers(i, y)
          /\ Agree(cells \union ({"out"} \X K!Span(ins.out, ins.len)), x, y)
      BY <1>1, <2>1, <2>2, <2>3, CopyAgrees
    <3>2. QED
      BY <3>1, <2>4, <2>5 DEF x, y
<1>6. CASE ins.op \in K!VecBinOps \union K!VecOneOps
  <2> DEFINE b == K!Result(ins, p.i16)
  <2>1. b = K!Result(ins, q.i16)
    <3>1. ins.op \in K!VecOneOps =>
            K!Reads(ins) = K!Cells("i16", ins.lhs, ins.len) /\ ins.lhs \in Nat
      BY LayerFields DEF K!Reads, K!ScalarOps, K!VecBinOps, K!VecOneOps, K!VecI8Ops,
                          K!StepOps
    <3>2. ins.op \in K!VecBinOps =>
            /\ K!Reads(ins) = UNION {K!Cells("i16", off, ins.len) : off \in {ins.lhs, ins.rhs}}
            /\ ins.lhs \in Nat /\ ins.rhs \in Nat
      BY LayerFields DEF K!Reads, K!ScalarOps, K!VecBinOps, K!VecOneOps, K!VecI8Ops,
                          K!StepOps
    <3>3. ins.op \in K!VecBinOps => /\ K!Cells("i16", ins.lhs, ins.len) \subseteq K!Reads(ins)
                                    /\ K!Cells("i16", ins.rhs, ins.len) \subseteq K!Reads(ins)
      BY <3>2
    <3>4. \A k \in 0 .. ins.len - 1 : p.i16[ins.lhs + k] = q.i16[ins.lhs + k]
      BY <1>3, <1>6, <3>1, <3>2, <3>3
    <3>5. ins.op \notin K!VecOneOps =>
            \A k \in 0 .. ins.len - 1 : p.i16[ins.rhs + k] = q.i16[ins.rhs + k]
      BY <1>3, <1>6, <3>2, <3>3
    <3>6. QED
      BY <3>4, <3>5, ResultAgrees
  <2>2. Copied(x, p, "i16", ins.dst, b) /\ Copied(y, q, "i16", ins.dst, b)
    <3>1. /\ x = [p EXCEPT !["i16"] = K!Copy(@, ins.dst, b)]
          /\ y = [q EXCEPT !["i16"] = K!Copy(@, ins.dst, K!Result(ins, q.i16))]
      BY <1>6 DEF K!Effect, K!ScalarOps, K!VecBinOps, K!VecOneOps, K!VecI8Ops, K!StepOps
    <3>2. DOMAIN p = BufferNames /\ DOMAIN q = BufferNames
      BY DEF Buffers
    <3>3. QED
      <4> HIDE DEF x, y, b
      <4>1. QED
        BY <2>1, <3>1, <3>2 DEF Copied, BufferNames
  <2>3. DOMAIN b = 0 .. ins.len - 1 /\ ins.dst \in Nat /\ "i16" \in BufferNames
    BY <1>6, LayerFields DEF K!Result, BufferNames
  <2>4. Targets(ins) = {"i16"} \X K!Span(ins.dst, ins.len)
    BY <1>6 DEF Targets, K!Writes, K!Stores, K!Cells, K!ScalarOps, K!VecBinOps, K!VecOneOps,
                K!VecI8Ops, K!StepOps
  <2>5. ~ Panics(ins, p, inputs) /\ ~ Panics(ins, q, inputs)
    BY <1>6 DEF Panics, K!VecBinOps, K!VecOneOps
  <2>6. QED
    <3> HIDE DEF x, y, b
    <3>1. /\ Buffers(i, x) /\ Buffers(i, y)
          /\ Agree(cells \union ({"i16"} \X K!Span(ins.dst, ins.len)), x, y)
      BY <1>1, <2>1, <2>2, <2>3, CopyAgrees
    <3>2. QED
      BY <3>1, <2>4, <2>5 DEF x, y
<1>7. CASE ins.op = "BlockScale"
  <2> DEFINE B == K!Blocks(ins)
             f == [b \in DOMAIN p.f32 |-> IF b \in B THEN K!ScaleOf(ins, p.i16, b) ELSE p.f32[b]]
             g == [b \in DOMAIN q.f32 |-> IF b \in B THEN K!ScaleOf(ins, q.i16, b) ELSE q.f32[b]]
  <2>1. \A k \in 0 .. ins.len - 1 : p.i16[ins.src + k] = q.i16[ins.src + k]
    <3>1. K!Reads(ins) = K!Cells("i16", ins.src, ins.len) /\ ins.src \in Nat
      BY <1>7, LayerFields DEF K!Reads, K!ScalarOps, K!VecBinOps, K!VecOneOps, K!VecI8Ops,
                          K!StepOps
    <3>2. QED
      BY <1>3, <3>1
  <2>2. B \subseteq Nat
    BY <1>7 DEF K!Blocks
  <2>3. \A b \in B : K!ScaleOf(ins, p.i16, b) = K!ScaleOf(ins, q.i16, b)
    <3>1. SUFFICES ASSUME NEW b \in B PROVE K!ScaleOf(ins, p.i16, b) = K!ScaleOf(ins, q.i16, b)
      OBVIOUS
    <3>2. K!BlockLanes(ins, b) \subseteq 0 .. ins.len - 1
      BY <2>2, LanesOfBlock
    <3>3. {K!Abs16(p.i16[ins.src + k]) : k \in K!BlockLanes(ins, b)}
            = {K!Abs16(q.i16[ins.src + k]) : k \in K!BlockLanes(ins, b)}
      BY <2>1, <3>2
    <3>4. QED
      BY <3>3 DEF K!ScaleOf
  <2>4. x = [p EXCEPT !["f32"] = f] /\ y = [q EXCEPT !["f32"] = g]
    BY <1>7 DEF K!Effect, K!ScaleBlocks, K!ScalarOps, K!VecBinOps, K!VecOneOps, K!VecI8Ops, K!StepOps
  <2>5. Targets(ins) = {"f32"} \X B
    BY <1>7 DEF Targets, K!Writes, K!Stores, K!Scales, K!ScalarOps, K!VecBinOps, K!VecOneOps,
                K!VecI8Ops, K!StepOps
  <2>6. Panics(ins, p, inputs) <=> Panics(ins, q, inputs)
    BY <1>7, <2>1 DEF Panics
  <2>7. DOMAIN p = BufferNames /\ DOMAIN q = BufferNames /\ DOMAIN p.f32 = DOMAIN q.f32
    BY DEF Buffers
  <2>8. DOMAIN f = DOMAIN p.f32 /\ DOMAIN g = DOMAIN q.f32
    OBVIOUS
  <2>9. /\ DOMAIN x = BufferNames /\ x.i16 = p.i16 /\ x.out = p.out /\ x.f32 = f
        /\ DOMAIN y = BufferNames /\ y.i16 = q.i16 /\ y.out = q.out /\ y.f32 = g
    <3> HIDE DEF x, y, f, g
    <3>1. QED
      BY <2>4, <2>7 DEF BufferNames
  <2>10. Buffers(i, x) /\ Buffers(i, y)
    <3> HIDE DEF x, y, f, g
    <3>1. QED
      BY <2>7, <2>8, <2>9 DEF Buffers
  <2>11. \A b \in DOMAIN p.f32 : b \in B \/ <<"f32", b>> \in cells => f[b] = g[b]
    <3>1. SUFFICES ASSUME NEW b \in DOMAIN p.f32, b \in B \/ <<"f32", b>> \in cells
                   PROVE  f[b] = g[b]
      OBVIOUS
    <3>2. CASE b \in B
      BY <2>3, <2>7, <3>2
    <3>3. CASE b \notin B
      <4>1. p.f32[b] = q.f32[b]
        BY <3>1, <3>3 DEF Agree, BufferNames
      <4>2. QED
        BY <2>7, <3>3, <4>1
    <3>4. QED
      BY <3>2, <3>3
  <2>12. Agree(cells \union Targets(ins), x, y)
    <3> HIDE DEF x, y, f, g, B
    <3>1. SUFFICES ASSUME NEW cell \in cells \union ({"f32"} \X B),
                          cell[1] \in BufferNames, cell[2] \in DOMAIN x[cell[1]]
                   PROVE  x[cell[1]][cell[2]] = y[cell[1]][cell[2]]
      BY <2>5 DEF Agree
    <3>2. CASE cell[1] # "f32"
      <4>1. cell \in cells /\ x[cell[1]] = p[cell[1]] /\ y[cell[1]] = q[cell[1]]
        BY <2>9, <3>1, <3>2 DEF BufferNames
      <4>2. QED
        BY <3>1, <4>1 DEF Agree
    <3>3. CASE cell[1] = "f32"
      <4>1. cell[2] \in DOMAIN p.f32 /\ (cell[2] \in B \/ cell \in cells)
        BY <2>8, <2>9, <3>1, <3>3
      <4>2. cell \in cells => f[cell[2]] = g[cell[2]]
        <5>1. SUFFICES ASSUME cell \in cells, cell[2] \notin B PROVE f[cell[2]] = g[cell[2]]
          BY <2>11, <4>1
        <5>2. p.f32[cell[2]] = q.f32[cell[2]]
          BY <3>3, <4>1, <5>1 DEF Agree, BufferNames
        <5>3. QED
          BY <2>7, <4>1, <5>1, <5>2 DEF f, g
      <4>3. QED
        BY <2>9, <2>11, <3>3, <4>1, <4>2
    <3>4. QED
      BY <3>2, <3>3
  <2>13. QED
    BY <2>6, <2>10, <2>12
<1>8. QED
  BY <1>1, <1>4, <1>5, <1>6, <1>7 DEF LayerOps

-----------------------------------------------------------------------------
(* The buffers after each instruction.  The function that Stages defines   *)
(* by recursion exists: it is built stage by stage.                        *)
LEMMA CallStages ==
  ASSUME NEW prog \in Seq(LayerCode), NEW b, NEW inp
  PROVE  /\ K!Stages(prog, b, inp)[0] = b
         /\ \A k \in 1 .. Len(prog) :
              K!Stages(prog, b, inp)[k] = K!Effect(prog[k], K!Stages(prog, b, inp)[k - 1], inp)
<1> DEFINE n == Len(prog)
           Next1(k, x) == K!Effect(prog[k], x, inp)
           F(f) == [k \in 0 .. n |-> IF k = 0 THEN b ELSE K!Effect(prog[k], f[k - 1], inp)]
           G(f, m) == [k \in 0 .. m |-> IF k = 0 THEN b ELSE Next1(k, f[k - 1])]
           stage == CHOOSE f : f = F(f)
           Good == {m \in Nat : \E f : f = G(f, m)}
<1>1. K!Stages(prog, b, inp) = stage
  BY DEF K!Stages
<1>2. n \in Nat
  OBVIOUS
<1>3. 0 \in Good
  <2> HIDE DEF Next1
  <2> DEFINE f == [k \in 0 .. 0 |-> b]
  <2>1. f = G(f, 0)
    OBVIOUS
  <2>2. QED
    BY <2>1
<1>4. ASSUME NEW m \in Nat, m \in Good PROVE m + 1 \in Good
  <2> HIDE DEF Next1
  <2>1. PICK f : f = G(f, m)
    BY <1>4
  <2> DEFINE g == [k \in 0 .. m + 1 |-> IF k = m + 1 THEN Next1(m + 1, f[m]) ELSE f[k]]
  <2>2. ASSUME NEW k \in 0 .. m + 1 PROVE g[k] = IF k = 0 THEN b ELSE Next1(k, g[k - 1])
    <3>1. \A j \in 0 .. m : f[j] = IF j = 0 THEN b ELSE Next1(j, f[j - 1])
      BY <2>1
    <3>2. CASE k = m + 1
      <4>1. k - 1 = m /\ m \in 0 .. m + 1 /\ m # m + 1 /\ k # 0
        BY <3>2
      <4>2. g[m] = f[m] /\ g[k] = Next1(m + 1, f[m])
        BY <3>2, <4>1
      <4>3. QED
        <5> HIDE DEF g
        <5>1. QED
          BY <3>2, <4>1, <4>2
    <3>3. CASE k = 0
      <4>1. g[0] = f[0] /\ f[0] = b
        BY <3>1
      <4>2. QED
        BY <3>3, <4>1
    <3>4. CASE k # m + 1 /\ k # 0
      <4>1. k \in 0 .. m /\ k - 1 \in 0 .. m + 1 /\ k - 1 # m + 1
        BY <3>4
      <4>2. g[k] = f[k] /\ g[k - 1] = f[k - 1] /\ f[k] = Next1(k, f[k - 1])
        BY <3>1, <3>4, <4>1
      <4>3. QED
        <5> HIDE DEF g
        <5>1. QED
          BY <3>4, <4>2
    <3>5. QED
      BY <3>2, <3>3, <3>4
  <2>3. g = G(g, m + 1)
    <3> DEFINE h == G(g, m + 1)
    <3>1. \A k \in 0 .. m + 1 : h[k] = IF k = 0 THEN b ELSE Next1(k, g[k - 1])
      <4> HIDE DEF g
      <4>1. QED
        OBVIOUS
    <3>2. DOMAIN g = 0 .. m + 1 /\ DOMAIN h = 0 .. m + 1
      OBVIOUS
    <3>3. \A k \in 0 .. m + 1 : g[k] = h[k]
      <4> HIDE DEF g, h
      <4>1. QED
        BY <2>2, <3>1
    <3>4. g = [k \in 0 .. m + 1 |-> g[k]] /\ h = [k \in 0 .. m + 1 |-> h[k]]
      OBVIOUS
    <3>5. g = h
      <4> HIDE DEF g, h
      <4>1. QED
        BY <3>3, <3>4
    <3>6. QED
      BY <3>5
  <2>4. \E e : e = G(e, m + 1)
    <3> HIDE DEF g
    <3>1. QED
      BY <2>3
  <2>5. QED
    BY <2>4
<1>5. n \in Good
  <2>1. Nat \subseteq Good
    <3> HIDE DEF Good
    <3>1. QED
      BY <1>3, <1>4, SetInduction
  <2>2. QED
    BY <1>2, <2>1
<1>6. \E f : f = F(f)
  <2>1. PICK f : f = G(f, n)
    BY <1>5
  <2>2. G(f, n) = F(f)
    OBVIOUS
  <2>3. QED
    BY <2>1, <2>2
<1>7. stage = F(stage)
  <2> HIDE DEF F
  <2>1. QED
    BY <1>6
<1>8. \A k \in 0 .. n : stage[k] = IF k = 0 THEN b ELSE Next1(k, stage[k - 1])
  <2> HIDE DEF stage
  <2>1. QED
    BY <1>7
<1>9. stage[0] = b /\ \A k \in 1 .. n : stage[k] = Next1(k, stage[k - 1])
  <2> HIDE DEF stage, Next1
  <2>1. 0 \in 0 .. n /\ \A k \in 1 .. n : k \in 0 .. n /\ k # 0
    BY <1>2
  <2>2. QED
    BY <1>8, <2>1
<1>10. QED
  BY <1>1, <1>9

(* The cells that a layer has written after k instructions, on which any   *)
(* two executors of the layer agree.                                       *)
Written(i, k) ==
  K!WrittenBy(Programs[i], k) \union ({"out"} \X K!StoredBy(Programs[i], k))

LEMMA WrittenFacts ==
  ASSUME NEW i \in Layers
  PROVE  /\ Written(i, 0) = {}
         /\ \A k \in 1 .. Len(Programs[i]) :
              Written(i, k) = Written(i, k - 1) \union Targets(Programs[i][k])
<1>1. Len(Programs[i]) \in Nat
  BY LayerAssumption
<1>2. Written(i, 0) = {}
  <2>1. 1 .. 0 = {}
    OBVIOUS
  <2>2. K!WrittenBy(Programs[i], 0) = {} /\ K!StoredBy(Programs[i], 0) = {}
    BY <2>1 DEF K!WrittenBy, K!StoredBy
  <2>3. QED
    BY <2>2 DEF Written
<1>3. ASSUME NEW k \in 1 .. Len(Programs[i])
      PROVE  Written(i, k) = Written(i, k - 1) \union Targets(Programs[i][k])
  <2>1. 1 .. k = (1 .. k - 1) \union {k}
    BY <1>1
  <2>2. K!WrittenBy(Programs[i], k) = K!WrittenBy(Programs[i], k - 1) \union K!Writes(Programs[i][k])
    BY <2>1 DEF K!WrittenBy
  <2>3. K!StoredBy(Programs[i], k) = K!StoredBy(Programs[i], k - 1) \union K!Stores(Programs[i][k])
    BY <2>1 DEF K!StoredBy
  <2>4. QED
    BY <2>2, <2>3 DEF Written, Targets
<1>4. QED
  BY <1>2, <1>3

LEMMA StagesAgree ==
  ASSUME NEW i \in Layers, K!DefinedBeforeUse(Programs[i]), NEW inputs,
         NEW p, NEW q, Buffers(i, p), Buffers(i, q)
  PROVE  /\ \A k \in 0 .. Len(Programs[i]) :
              /\ Buffers(i, K!Stages(Programs[i], p, inputs)[k])
              /\ Agree(Written(i, k), K!Stages(Programs[i], p, inputs)[k],
                                      K!Stages(Programs[i], q, inputs)[k])
         /\ \A k \in 1 .. Len(Programs[i]) :
              Panics(Programs[i][k], K!Stages(Programs[i], p, inputs)[k - 1], inputs)
                <=> Panics(Programs[i][k], K!Stages(Programs[i], q, inputs)[k - 1], inputs)
<1> DEFINE prog == Programs[i]
           n    == Len(prog)
           P    == K!Stages(prog, p, inputs)
           Q    == K!Stages(prog, q, inputs)
           Alike(k) == /\ Buffers(i, P[k]) /\ Buffers(i, Q[k])
                       /\ Agree(Written(i, k), P[k], Q[k])
           Good == {k \in Nat : k <= n => Alike(k)}
<1>1. /\ prog \in Seq(LayerCode) /\ n \in Nat
      /\ \A k \in 1 .. n : prog[k] \in LayerCode /\ K!Touches(prog[k]) \subseteq Scratchpads(i)
  BY LayerAssumption
<1>2. /\ P[0] = p /\ \A k \in 1 .. n : P[k] = K!Effect(prog[k], P[k - 1], inputs)
      /\ Q[0] = q /\ \A k \in 1 .. n : Q[k] = K!Effect(prog[k], Q[k - 1], inputs)
  BY <1>1, CallStages
<1>3. \A k \in 1 .. n : K!Reads(prog[k]) \subseteq Written(i, k - 1)
  BY <1>1 DEF K!DefinedBeforeUse, Written
<1> HIDE DEF P, Q
<1>4. 0 \in Good
  BY <1>2, WrittenFacts DEF Agree
<1>5. ASSUME NEW k \in 1 .. n, Alike(k - 1)
      PROVE  /\ Alike(k)
             /\ Panics(prog[k], P[k - 1], inputs) <=> Panics(prog[k], Q[k - 1], inputs)
  <2>1. /\ prog[k] \in LayerCode /\ K!Touches(prog[k]) \subseteq Scratchpads(i)
        /\ K!Reads(prog[k]) \subseteq Written(i, k - 1)
        /\ P[k] = K!Effect(prog[k], P[k - 1], inputs)
        /\ Q[k] = K!Effect(prog[k], Q[k - 1], inputs)
        /\ Written(i, k) = Written(i, k - 1) \union Targets(prog[k])
    BY <1>1, <1>2, <1>3, WrittenFacts
  <2> DEFINE ins == prog[k]
             A   == P[k - 1]
             B   == Q[k - 1]
             W   == Written(i, k - 1)
  <2>2. /\ ins \in LayerCode /\ K!Touches(ins) \subseteq Scratchpads(i) /\ K!Reads(ins) \subseteq W
        /\ Buffers(i, A) /\ Buffers(i, B) /\ Agree(W, A, B)
    BY <1>5, <2>1
  <2>3. /\ Buffers(i, K!Effect(ins, A, inputs)) /\ Buffers(i, K!Effect(ins, B, inputs))
        /\ Agree(W \union Targets(ins), K!Effect(ins, A, inputs), K!Effect(ins, B, inputs))
        /\ Panics(ins, A, inputs) <=> Panics(ins, B, inputs)
    <3> HIDE DEF ins, A, B, W
    <3>1. QED
      BY <2>2, EffectAgrees
  <2>4. QED
    BY <2>1, <2>3
<1>6. ASSUME NEW k \in Nat, k \in Good PROVE k + 1 \in Good
  <2>1. SUFFICES ASSUME k + 1 <= n PROVE Alike(k + 1)
    OBVIOUS
  <2>2. k + 1 \in 1 .. n /\ (k + 1) - 1 = k /\ Alike(k)
    BY <1>1, <1>6, <2>1
  <2> HIDE DEF Alike
  <2>3. QED
    BY <1>5, <2>2
<1>7. \A k \in 0 .. n : Alike(k)
  <2>1. Nat \subseteq Good
    <3> HIDE DEF Good
    <3>1. QED
      BY <1>4, <1>6, SetInduction
  <2>2. QED
    BY <1>1, <2>1
<1>8. QED
  <2>1. \A k \in 1 .. n : k - 1 \in 0 .. n
    BY <1>1
  <2>2. \A k \in 1 .. n : Panics(prog[k], P[k - 1], inputs) <=> Panics(prog[k], Q[k - 1], inputs)
    <3> HIDE DEF Alike
    <3>1. QED
      BY <1>5, <1>7, <2>1
  <2>3. QED
    BY <1>7, <2>2 DEF P, Q

(* A state of a layer's executor. *)
Sized(i, v) ==
  /\ DOMAIN v.mem.i16 = DOMAIN FreshVM(i).mem.i16
  /\ DOMAIN v.mem.f32 = DOMAIN FreshVM(i).mem.f32

(* What a call of a layer that writes before it reads, and stores all its  *)
(* outputs, gives does not depend on the executor it is made on.           *)
LEMMA CallsAgree ==
  ASSUME NEW i \in Layers, Stateless(i), NEW v, NEW w, Sized(i, v), Sized(i, w), NEW token
  PROVE  /\ VMExec(i, v, token).out = VMExec(i, w, token).out
         /\ VMExec(i, v, token) # Panic => Sized(i, VMExec(i, v, token))
<1> DEFINE prog == Programs[i]
           n    == Len(prog)
           inputs == InputBuffer(i, token)
           Before(u) == [i16 |-> u.mem.i16, f32 |-> u.mem.f32,
                         out |-> [k \in 0 .. OutSize[i] - 1 |-> u.out[k + 1]]]
           S(u) == K!Stages(prog, Before(u), inputs)
           Stops(u) == \E k \in 1 .. n : Panics(prog[k], S(u)[k - 1], inputs)
           Result(u) == [mem |-> [i16 |-> S(u)[n].i16, f32 |-> S(u)[n].f32],
                         out |-> [k \in 1 .. OutSize[i] |-> S(u)[n].out[k - 1]]]
<1>1. \A u : VMExec(i, u, token) = IF Stops(u) THEN Panic ELSE Result(u)
  BY DEF VMExec, Call
<1>2. Buffers(i, Before(v)) /\ Buffers(i, Before(w))
  BY DEF Sized, Buffers, BufferNames
<1>3. n \in Nat /\ OutSize[i] \in Nat /\ n \in 0 .. n
  BY LayerAssumption
<1> HIDE DEF Before, inputs
<1>4. /\ Buffers(i, S(v)[n]) /\ Agree(Written(i, n), S(v)[n], S(w)[n])
      /\ \A k \in 1 .. n : Panics(prog[k], S(v)[k - 1], inputs) <=> Panics(prog[k], S(w)[k - 1], inputs)
  BY <1>2, <1>3, StagesAgree DEF Stateless
<1>5. Stops(v) <=> Stops(w)
  BY <1>4
<1>6. \A k \in 1 .. OutSize[i] : S(v)[n].out[k - 1] = S(w)[n].out[k - 1]
  <2>1. SUFFICES ASSUME NEW k \in 1 .. OutSize[i]
                 PROVE  S(v)[n].out[k - 1] = S(w)[n].out[k - 1]
    OBVIOUS
  <2>2. k - 1 \in 0 .. OutSize[i] - 1
    BY <1>3
  <2>3. <<"out", k - 1>> \in Written(i, n) /\ k - 1 \in DOMAIN S(v)[n].out
    <3> HIDE DEF S
    <3>1. QED
      BY <1>4, <2>2 DEF Stateless, Written, Buffers
  <2>4. QED
    <3> HIDE DEF S
    <3>1. QED
      BY <1>4, <2>3 DEF Agree, BufferNames
<1> HIDE DEF S
<1>7. Result(v).out = Result(w).out
  BY <1>6
<1>8. Sized(i, Result(v))
  BY <1>4 DEF Sized, Buffers
<1> HIDE DEF Stops, Result
<1>9. QED
  BY <1>1, <1>5, <1>7, <1>8

-----------------------------------------------------------------------------
(* The sequential run of a layer keeps its executor, of the right size.    *)
LEMMA RefSized ==
  ASSUME NEW i \in Layers, Stateless(i), NEW k \in 0 .. BatchSize, Ref[i][k] # Panic
  PROVE  Sized(i, Ref[i][k])
<1> DEFINE Good == {n \in Nat : n <= BatchSize /\ Ref[i][n] # Panic => Sized(i, Ref[i][n])}
<1>1. Sized(i, FreshVM(i))
  BY DEF Sized
<1>2. 0 \in Good
  BY <1>1, RefAssumption, LayerAssumption
<1>3. ASSUME NEW n \in Nat, n \in Good PROVE n + 1 \in Good
  <2>1. SUFFICES ASSUME n + 1 <= BatchSize, Ref[i][n + 1] # Panic PROVE Sized(i, Ref[i][n + 1])
    OBVIOUS
  <2>2. n \in Chunks /\ n \in 0 .. BatchSize
    BY <2>1, SizeAssumption DEF Chunks
  <2>3. /\ Ref[i][n] # Panic /\ RefToken(Ref, i, n) # Panic
        /\ Ref[i][n + 1] = Exec(i, Ref[i][n], RefToken(Ref, i, n))
    BY <2>1, <2>2, RefAssumption DEF RefNext
  <2>4. Ref[i][n] \in VMs /\ RefToken(Ref, i, n) \in Tokens
    BY <2>2, <2>3, RefType, RefTokenType
  <2>5. Ref[i][n + 1] = VMExec(i, Ref[i][n], RefToken(Ref, i, n))
    BY <2>3, <2>4, LayerAssumption
  <2>6. Sized(i, Ref[i][n])
    BY <1>3, <2>2, <2>3
  <2>7. QED
    BY <2>1, <2>5, <2>6, CallsAgree
<1>4. Nat \subseteq Good
  <2> HIDE DEF Good
  <2>1. QED
    BY <1>2, <1>3, SetInduction
<1>5. QED
  BY <1>4, SizeAssumption

(* A layer's output in the sequential run is the one of a new executor.    *)
LEMMA RefAlone ==
  ASSUME NEW i \in Layers, Stateless(i), NEW k \in Chunks, Ref[i][k + 1] # Panic
  PROVE  /\ RefToken(Ref, i, k) # Panic
         /\ Ref[i][k + 1].out = VMExec(i, FreshVM(i), RefToken(Ref, i, k)).out
<1>1. k \in 0 .. BatchSize
  BY SizeAssumption DEF Chunks
<1>2. /\ Ref[i][k] # Panic /\ RefToken(Ref, i, k) # Panic
      /\ Ref[i][k + 1] = Exec(i, Ref[i][k], RefToken(Ref, i, k))
  BY RefAssumption DEF RefNext
<1>3. Ref[i][k] \in VMs /\ RefToken(Ref, i, k) \in Tokens
  BY <1>1, <1>2, RefType, RefTokenType
<1>4. Ref[i][k + 1] = VMExec(i, Ref[i][k], RefToken(Ref, i, k))
  BY <1>2, <1>3, LayerAssumption
<1>5. Sized(i, Ref[i][k]) /\ Sized(i, FreshVM(i))
  BY <1>1, <1>2, RefSized DEF Sized
<1>6. QED
  BY <1>2, <1>4, <1>5, CallsAgree

(* The rows of Alone, layer after layer.                                   *)
RowsAlone(row, k) ==
  /\ row[0] = Inputs[k + 1]
  /\ \A i \in Layers : row[i] = VMExec(i, FreshVM(i), row[i - 1]).out

LEMMA AloneIs ==
  ASSUME NEW k
  PROVE  \E row : RowsAlone(row, k) /\ Alone(k) = row[NumLayers]
<1> DEFINE n == NumLayers
           b == Inputs[k + 1]
           Next1(i, x) == VMExec(i, FreshVM(i), x).out
           F(f) == [i \in 0 .. n |-> IF i = 0 THEN b ELSE VMExec(i, FreshVM(i), f[i - 1]).out]
           G(f, m) == [i \in 0 .. m |-> IF i = 0 THEN b ELSE Next1(i, f[i - 1])]
           row == CHOOSE f : f = F(f)
           Good == {m \in Nat : \E f : f = G(f, m)}
<1>1. Alone(k) = row[n]
  BY DEF Alone
<1>2. n \in Nat
  BY SizeAssumption
<1>3. 0 \in Good
  <2> HIDE DEF Next1, b
  <2> DEFINE f == [i \in 0 .. 0 |-> b]
  <2>1. f = G(f, 0)
    OBVIOUS
  <2>2. QED
    BY <2>1
<1>4. ASSUME NEW m \in Nat, m \in Good PROVE m + 1 \in Good
  <2> HIDE DEF Next1, b
  <2>1. PICK f : f = G(f, m)
    BY <1>4
  <2> DEFINE g == [i \in 0 .. m + 1 |-> IF i = m + 1 THEN Next1(m + 1, f[m]) ELSE f[i]]
  <2>2. ASSUME NEW i \in 0 .. m + 1 PROVE g[i] = IF i = 0 THEN b ELSE Next1(i, g[i - 1])
    <3>1. \A j \in 0 .. m : f[j] = IF j = 0 THEN b ELSE Next1(j, f[j - 1])
      BY <2>1
    <3>2. CASE i = m + 1
      <4>1. i - 1 = m /\ m \in 0 .. m + 1 /\ m # m + 1 /\ i # 0
        BY <3>2
      <4>2. g[m] = f[m] /\ g[i] = Next1(m + 1, f[m])
        BY <3>2, <4>1
      <4>3. QED
        <5> HIDE DEF g
        <5>1. QED
          BY <3>2, <4>1, <4>2
    <3>3. CASE i = 0
      <4>1. g[0] = f[0] /\ f[0] = b
        BY <3>1
      <4>2. QED
        BY <3>3, <4>1
    <3>4. CASE i # m + 1 /\ i # 0
      <4>1. i \in 0 .. m /\ i - 1 \in 0 .. m + 1 /\ i - 1 # m + 1
        BY <3>4
      <4>2. g[i] = f[i] /\ g[i - 1] = f[i - 1] /\ f[i] = Next1(i, f[i - 1])
        BY <3>1, <3>4, <4>1
      <4>3. QED
        <5> HIDE DEF g
        <5>1. QED
          BY <3>4, <4>2
    <3>5. QED
      BY <3>2, <3>3, <3>4
  <2>3. g = G(g, m + 1)
    <3> DEFINE h == G(g, m + 1)
    <3>1. \A i \in 0 .. m + 1 : h[i] = IF i = 0 THEN b ELSE Next1(i, g[i - 1])
      <4> HIDE DEF g
      <4>1. QED
        OBVIOUS
    <3>2. \A i \in 0 .. m + 1 : g[i] = h[i]
      <4> HIDE DEF g, h
      <4>1. QED
        BY <2>2, <3>1
    <3>3. g = [i \in 0 .. m + 1 |-> g[i]] /\ h = [i \in 0 .. m + 1 |-> h[i]]
      OBVIOUS
    <3>4. g = h
      <4> HIDE DEF g, h
      <4>1. QED
        BY <3>2, <3>3
    <3>5. QED
      BY <3>4
  <2>4. \E e : e = G(e, m + 1)
    <3> HIDE DEF g
    <3>1. QED
      BY <2>3
  <2>5. QED
    BY <2>4
<1>5. n \in Good
  <2>1. Nat \subseteq Good
    <3> HIDE DEF Good
    <3>1. QED
      BY <1>3, <1>4, SetInduction
  <2>2. QED
    BY <1>2, <2>1
<1>6. row = F(row)
  <2>1. PICK f : f = G(f, n)
    BY <1>5
  <2>2. G(f, n) = F(f)
    OBVIOUS
  <2>3. \E f1 : f1 = F(f1)
    BY <2>1, <2>2
  <2>4. QED
    <3> HIDE DEF F
    <3>1. QED
      BY <2>3
<1>7. \A i \in 0 .. n : row[i] = IF i = 0 THEN b ELSE Next1(i, row[i - 1])
  <2> HIDE DEF row
  <2>1. QED
    BY <1>6
<1>8. RowsAlone(row, k)
  <2> HIDE DEF row
  <2>1. 0 \in 0 .. n /\ \A i \in Layers : i \in 0 .. n /\ i # 0
    BY <1>2 DEF Layers
  <2>2. QED
    BY <1>7, <2>1 DEF RowsAlone
<1>9. QED
  BY <1>1, <1>8

(* So is a row that has gone through all the layers.                       *)
LEMMA RefRowAlone ==
  ASSUME \A i \in Layers : Stateless(i), NEW k \in Chunks, Ref[NumLayers][k + 1] # Panic
  PROVE  Ref[NumLayers][k + 1].out = Alone(k)
<1>1. PICK row : RowsAlone(row, k) /\ Alone(k) = row[NumLayers]
  BY AloneIs
<1> DEFINE Good == {n \in Nat : n + 1 \in Layers /\ Ref[n + 1][k + 1] # Panic
                                 => Ref[n + 1][k + 1].out = row[n + 1]}
<1>2. 0 \in Good
  <2>1. SUFFICES ASSUME 1 \in Layers, Ref[1][k + 1] # Panic PROVE Ref[1][k + 1].out = row[1]
    OBVIOUS
  <2>2. /\ RefToken(Ref, 1, k) # Panic
        /\ Ref[1][k + 1].out = VMExec(1, FreshVM(1), RefToken(Ref, 1, k)).out
    BY <2>1, RefAlone
  <2>3. RefToken(Ref, 1, k) = Inputs[k + 1]
    BY <2>2 DEF RefToken
  <2>4. row[1] = VMExec(1, FreshVM(1), row[1 - 1]).out /\ row[0] = Inputs[k + 1] /\ 1 - 1 = 0
    BY <1>1, <2>1 DEF RowsAlone
  <2>5. QED
    BY <2>2, <2>3, <2>4
<1>3. ASSUME NEW n \in Nat, n \in Good PROVE n + 1 \in Good
  <2> DEFINE i == n + 2
  <2>1. SUFFICES ASSUME i \in Layers, Ref[i][k + 1] # Panic PROVE Ref[i][k + 1].out = row[i]
    <3>1. (n + 1) + 1 = n + 2
      OBVIOUS
    <3>2. QED
      BY <3>1
  <2>2. i - 1 = n + 1 /\ n + 1 \in Layers /\ i # 1
    BY <2>1, SizeAssumption DEF Layers
  <2> HIDE DEF i
  <2>3. /\ RefToken(Ref, i, k) # Panic
        /\ Ref[i][k + 1].out = VMExec(i, FreshVM(i), RefToken(Ref, i, k)).out
    BY <2>1, RefAlone
  <2>4. Ref[n + 1][k + 1] # Panic /\ RefToken(Ref, i, k) = Ref[n + 1][k + 1].out
    BY <2>2, <2>3 DEF RefToken
  <2>5. RefToken(Ref, i, k) = row[n + 1]
    BY <1>3, <2>2, <2>4
  <2>6. row[i] = VMExec(i, FreshVM(i), row[n + 1]).out
    BY <1>1, <2>1, <2>2 DEF RowsAlone
  <2>7. QED
    BY <2>3, <2>5, <2>6
<1>4. Nat \subseteq Good
  <2> HIDE DEF Good
  <2>1. QED
    BY <1>2, <1>3, SetInduction
<1>5. NumLayers - 1 \in Good /\ (NumLayers - 1) + 1 = NumLayers /\ NumLayers \in Layers
  BY <1>4, SizeAssumption DEF Layers
<1>6. QED
  BY <1>1, <1>5

(* With layers that write their cells before they read them and store all  *)
(* their outputs, a row of the batch that execute has collected is the one *)
(* the layers give when they see nothing but this row: neither the rows    *)
(* before it, whose values are left in the scratchpads and output buffers, *)
(* nor the interleaving of the threads matters.                            *)
THEOREM RowsDoNotMix == Spec => []RowsAreIndependent
<1>1. IInv => RowsAreIndependent
  <2>1. SUFFICES ASSUME IInv, \A i \in Layers : Stateless(i), NEW k \in 0 .. collected - 1
                 PROVE  outputs[k] = Alone(k)
    BY DEF RowsAreIndependent
  <2>2. collected \in 0 .. BatchSize /\ NumLayers \in Layers /\ c[NumLayers] \in 0 .. BatchSize
    BY <2>1, SizeAssumption DEF IInv, TypeOK, Layers
  <2>3. k \in Chunks /\ k < collected
    BY <2>2, SizeAssumption DEF Chunks
  <2>4. outputs[k] = Ref[NumLayers][k + 1].out
    BY <2>1, <2>3 DEF IInv, OutputsMatchRef
  <2>5. collected <= c[NumLayers]
    BY <2>1, <2>2, LenProperties DEF IInv, TypeOK, FinalMatchesRef
  <2>6. k + 1 \in 0 .. c[NumLayers]
    BY <2>2, <2>3, <2>5
  <2>7. Ref[NumLayers][k + 1] # Panic
    BY <2>1, <2>2, <2>6 DEF IInv, CountersMatchRef
  <2>8. QED
    BY <2>1, <2>3, <2>4, <2>7, RefRowAlone
<1>2. QED
  BY <1>1, PipelineMatchesRef, PTL
=============================================================================
