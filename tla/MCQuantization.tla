--------------------------- MODULE MCQuantization ---------------------------
(***************************************************************************)
(* Hundredths, up to 130.0, which saturates under the default scale; one   *)
(* hundredth stands for the floats whose scale overflows.  Blocks are of   *)
(* three elements; one slice is too short, and one is longer and has its   *)
(* peak behind the elements of its block.  The seeds are zero, one, and    *)
(* two whose first draws are 1.0 and 0.0.                                  *)
(***************************************************************************)
EXTENDS Quantization

SomeValues == {-13000, -99, 0, 1, 45, 100}

SomeBlocks ==
  {<<0, 0, 0>>, <<-1, 0, 1>>, <<-2, 0, 2>>, <<45, NaN, -13000>>, <<NaN, NaN, NaN>>,
   <<45, 99, -99, 100>>, <<45, 99>>}

SomeScales == {DefaultScale, [num |-> 1, den |-> 3], [num |-> 32767, den |-> 99]}

DrawsOne  == {0, 1, 2, 5, 6, 8, 9, 12, 13, 14, 15, 18, 19, 20, 23, 30}
DrawsZero == {7, 12, 20, 24, 25, 29}
SomeSeeds == {{}, {0}, DrawsOne, DrawsZero}
=============================================================================
