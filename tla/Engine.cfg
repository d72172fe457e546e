\* Two parameters, inputs of two lengths, up to six operations.  The client
\* may stop: deadlock is not checked.
SPECIFICATION Spec
CONSTANTS
  MaxId = 7
  Ids = {0, 7}
  Tensors <- SmallTensors
  OutLens = {1, 2}
  NeedIn = 3
  NeedOut = 2
  MaxOps = 6
CHECK_DEADLOCK FALSE
INVARIANTS
  TypeOK
  PreloadedLayout
PROPERTIES
  LateParametersArrive
