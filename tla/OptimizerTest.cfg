\* The graph of test_adamw_convergence_mock: it loads M and V each time.
SPECIFICATION Spec
CONSTANTS
  Scaled <- ExactlyScaled
  Regimes <- TestOnly
INVARIANTS
  WeightDecreases
