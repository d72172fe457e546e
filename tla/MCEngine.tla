------------------------------ MODULE MCEngine ------------------------------
(* A small instance of the engine: tensors of one and two values. *)
EXTENDS Engine

SmallTensors == {<<1>>, <<2>>, <<3, 4>>}
=============================================================================
