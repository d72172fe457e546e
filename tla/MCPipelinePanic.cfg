\* The second layer panics at its third chunk and the fourth row of the
\* inputs is missing.  The call then hangs: deadlock is not checked.
SPECIFICATION FairSpec
CONSTANTS
  NumLayers = 3
  BatchSize = 4
  ChanCap = 2
  Panic = Panic
  NoRow = NoRow
  Programs <- Scaling
  Parameters <- LargeThenNegate
  OutSize <- AllOne
  InSize <- AllOne
  BlockLen = 32
  Checked = TRUE
  Inputs <- ThreeRows
  Tokens <- MCTokens
  VMs <- MCVMs
  Fresh <- MCFresh
  Exec <- VMExec
  Ref <- MCRef
CHECK_DEADLOCK FALSE
INVARIANTS
  IInv
  PanicHangs
  RowsAreIndependent
PROPERTIES
  ImplementsFairStream
