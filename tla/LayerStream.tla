----------------------------- MODULE LayerStream ----------------------------
(***************************************************************************)
(* What PipelineExecutor::execute promises its caller, without threads or  *)
(* channels: the rows of the batch appear in order, each with the value of *)
(* the sequential computation, and the call returns when all are there.    *)
(* Rows[k] is NoResult when the sequential computation of chunk k, or of   *)
(* an earlier chunk, fails; then neither that row nor a return follows.    *)
(***************************************************************************)
EXTENDS Integers

CONSTANTS BatchSize, Rows, NoResult, NoRow

VARIABLES outputs, delivered, returned

vars == <<outputs, delivered, returned>>

Init ==
  /\ outputs = [k \in 0 .. BatchSize - 1 |-> NoRow]
  /\ delivered = 0
  /\ returned = FALSE

Deliver ==
  /\ delivered < BatchSize
  /\ Rows[delivered] # NoResult
  /\ outputs' = [outputs EXCEPT ![delivered] = Rows[delivered]]
  /\ delivered' = delivered + 1
  /\ UNCHANGED returned

Return ==
  /\ delivered = BatchSize
  /\ returned' = TRUE
  /\ UNCHANGED <<outputs, delivered>>

Next == Deliver \/ Return

Spec == Init /\ [][Next]_vars

FairSpec == Spec /\ WF_vars(Next)
=============================================================================
