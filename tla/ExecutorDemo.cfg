\* The i8 demonstration graph, planned.
SPECIFICATION Spec
CONSTANTS
  Graphs <- DemoI8
  InputSet <- DemoInputs
  OutputLens = {1}
  Calls = {"execute"}
  MaxCalls = 1
  Builds = {FALSE}
  BlockLen = 32
  Scaled <- ExactlyScaled
CHECK_DEADLOCK FALSE
INVARIANTS
  PlanIsEnough
