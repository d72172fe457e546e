\* The graph of x + x under the JIT, which has no code for its store.  The caller may stop
\* calling: deadlock is not checked.
SPECIFICATION Spec
CONSTANTS
  Programs <- TorchProgram
  InputSet <- SomeInputs
  OutputLens = {2}
  Backends = {"jit"}
  Parallelism = {1}
  NumRegs = 64
  MaxCalls = 1
  BlockLen = 32
  Scaled <- ExactlyScaled
CHECK_DEADLOCK FALSE
INVARIANTS
  UnsupportedReported
