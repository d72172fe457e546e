----------------------------- MODULE FixedPoint -----------------------------
(***************************************************************************)
(* The integer arithmetic of the virtual machine (src/src/executor.rs).    *)
(* Values of the scratchpad are i16 in Q8.8; products and moments are      *)
(* computed in i32.  An arithmetic shift to the right by n bits rounds     *)
(* down: it is \div 2^n on negative values too.                            *)
(***************************************************************************)
EXTENDS Integers

I8Min == -128
I8Max == 127
I16Min == -32768
I16Max == 32767

I8 == I8Min .. I8Max
I16 == I16Min .. I16Max

Clamp(x, lo, hi) == IF x < lo THEN lo ELSE IF x > hi THEN hi ELSE x

(* clamp(i16::MIN as i32, i16::MAX as i32) as i16, and saturation. *)
Sat16(x) == Clamp(x, I16Min, I16Max)

Sat8(x) == Clamp(x, I8Min, I8Max)

(* `as i16` of a wider integer: the low 16 bits. *)
Wrap16(x) == ((x + 32768) % 65536) - 32768

Sub16(a, b) == Sat16(a - b)          \* saturating_sub

Abs(x) == IF x < 0 THEN -x ELSE x

(* Q8.8 to Q2.6 and back: LoadVarVec8 and StoreVec8. *)
Crunch8(a) == Sat8(a \div 4)
Widen8(a)  == a * 4

-----------------------------------------------------------------------------
(* The optimizer steps: the gradient squared, scaled back to Q8.8, and the *)
(* exact moments for the two pairs of decay rates, before any conversion.  *)
Squared(g) == g * g                      \* fault: not scaled back
Square(g) == (g * g) \div 256

Mean16Heavy(m, g) == (m * 230 + g * 256) \div 256   \* fault: gradient not scaled
Mean16(m, g) == (m * 230 + g * 26) \div 256
Var16(v, sq) == (v * 255 + sq) \div 256
Mean32(m, g) == (m * 900 + g * 124) \div 1024
Var32(v, sq) == (v * 999 + sq) \div 1024

(* The gradient of a block step is 8 bits wider, and its square does not   *)
(* always fit an i32 (CheckedRoot is the largest whose square does).  The  *)
(* square wraps: g is g1 * 2^12 + g0, of 12 bits each.                     *)
CheckedRoot == 46340

WrapSquare(g) ==
  LET g1 == Abs(g) \div 4096
      g0 == Abs(g) % 4096
      low24 == ((g1 * g1) % 256) * 65536 + g1 * g0 * 32 + (g0 * g0) \div 256
  IN  ((low24 + 8388608) % 16777216) - 8388608

(* One element of a step by the rule: its weight and moments s, gradient g. *)
(* The rules are AdamWStep, AIOStep with precision 0 or 1 ("AIOStep16",    *)
(* i16 moments) or 2 ("AIOStep32", i32 moments), and AIOStepBlock.         *)

(* Faults: the second moment and the weight wrap; the update is shifted by *)
(* the scale of Q8.8; the square is not weighed down; the moments are      *)
(* shifted by 8 instead of 10 bits.                                        *)
AdamWWraps(s, g) ==
  LET mean == Mean16(s.m, g)
  IN  [m |-> Sat16(mean), v |-> Wrap16(Var16(s.v, Square(g))),
       w |-> Wrap16(s.w - Wrap16(mean \div 16))]
AIO16Tiny(s, g) ==
  LET mean == Wrap16(Mean16(s.m, g))
  IN  [m |-> mean, v |-> Wrap16(Var16(s.v, Square(g))), w |-> Sub16(s.w, mean \div 256)]
AIO16Heavy(s, g) ==
  LET mean == Wrap16(Mean16(s.m, g))
  IN  [m |-> mean, v |-> Wrap16((s.v * 255 + Square(g) * 4) \div 256),
       w |-> Sub16(s.w, mean \div 16)]
AIO32Shift8(s, g) ==
  LET mean == (s.m * 900 + g * 124) \div 256
  IN  [m |-> mean, v |-> Var32(s.v, Square(g)), w |-> Sub16(s.w, Wrap16(mean \div 256))]

AdamW(s, g) ==
  LET mean == Mean16(s.m, g)
  IN  [m |-> Sat16(mean), v |-> Sat16(Var16(s.v, Square(g))),
       w |-> Sub16(s.w, Wrap16(mean \div 16))]

AIO16(s, g) ==
  LET mean == Wrap16(Mean16(s.m, g))
  IN  [m |-> mean, v |-> Wrap16(Var16(s.v, Square(g))), w |-> Sub16(s.w, mean \div 16)]

AIO32(s, g) ==
  LET mean == Mean32(s.m, g)
  IN  [m |-> mean, v |-> Var32(s.v, Square(g)), w |-> Sub16(s.w, Wrap16(mean \div 256))]

AIOBlock(s, g) ==
  LET mean == Mean16(s.m, g)
  IN  [m |-> Sat16(mean), v |-> Sat16(Var16(s.v, WrapSquare(g))),
       w |-> Sub16(s.w, Wrap16(mean \div 16))]

Stepped(rule, s, g) ==
  CASE rule = "AdamWStep"    -> AdamW(s, g)
    [] rule = "AIOStep16"    -> AIO16(s, g)
    [] rule = "AIOStep32"    -> AIO32(s, g)
    [] rule = "AIOStepBlock" -> AIOBlock(s, g)

(* A block step scales the gradient g by the scale M / 32767.0 of its      *)
(* block: (g as f32 * scale * 256.0) as i32.  This is the value in exact   *)
(* arithmetic; the rounding of f32 yields it or a neighbour of it.         *)
ExactlyScaled(g, M) ==
  LET p == Abs(g) * M
      q == (p \div 32767) * 256 + ((p % 32767) * 256) \div 32767
  IN  IF g < 0 THEN -q ELSE q
=============================================================================
