\* Four layers, five chunks, channels of two tokens; no call fails.
SPECIFICATION FairSpec
CONSTANTS
  NumLayers = 4
  BatchSize = 5
  ChanCap = 2
  Panic = Panic
  NoRow = NoRow
  Programs <- Remembering
  Parameters <- NegateThird
  OutSize <- AllOne
  InSize <- AllOne
  BlockLen = 32
  Checked = TRUE
  Inputs <- FiveRows
  Tokens <- MCTokens
  VMs <- MCVMs
  Fresh <- MCFresh
  Exec <- VMExec
  Ref <- MCRef
INVARIANTS
  IInv
  ReturnIsComplete
  BackPressure
  FinalNeverBlocks
PROPERTIES
  ImplementsFairStream
  AlwaysAnswers
