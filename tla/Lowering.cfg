\* Graphs of five nodes.  Lowering ends: deadlock is not checked.
SPECIFICATION Spec
CONSTANTS
  FxGraphs <- SomeGraphs
  InputSet <- SomeInputs
  BlockLen = 32
  Scaled <- ExactlyScaled
CHECK_DEADLOCK FALSE
INVARIANTS
  StoresFxResult
  FitForEngine
