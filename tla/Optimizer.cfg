\* All four instructions with gradients and scales at the limits and between,
\* persistent gradients for 30 steps, second moments that come to rest, and the graph that
\* reloads its moments.
SPECIFICATION FairSpec
CONSTANTS
  Scaled <- ExactlyScaled
  Regimes <- AllRegimes
INVARIANTS
  IInv
  MeanExact
  NoOverflow32
  VarExact
PROPERTIES
  Descends
  PersistentGradientMoves
