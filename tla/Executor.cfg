\* Programs on the four scratchpads, blocks of two, three calls of execute and execute_i8 in
\* any order.  The caller may stop calling: deadlock is not checked.
SPECIFICATION Spec
CONSTANTS
  Graphs <- Programs
  InputSet <- SomeInputs
  OutputLens = {1, 2, 4}
  Calls <- Both
  MaxCalls = 3
  Builds = {FALSE, TRUE}
  BlockLen = 2
  Scaled <- ExactlyScaled
CHECK_DEADLOCK FALSE
INVARIANTS
  TypeOK
  PlannedSafe
  SizedByExecute
  ComputesMeaning
