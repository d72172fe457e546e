\* Both compilers, two or three threads, two calls, buffers that are long enough or too
\* short.  The caller may stop calling: deadlock is not checked.
SPECIFICATION FairSpec
CONSTANTS
  Programs <- SomePrograms
  InputSet <- AllInputs
  OutputLens = {2, 3}
  Backends = {"jit", "aot"}
  Parallelism = {2, 3}
  NumRegs = 5
  MaxCalls = 2
  BlockLen = 2
  Scaled <- ExactlyScaled
CHECK_DEADLOCK FALSE
INVARIANTS
  AotAgrees
  AotComputes
  JitComputes
  RaceFree
  StaysInside
PROPERTIES
  Returns
