\* Up to five operations of one client.  The client may stop: deadlock is not checked.
SPECIFICATION Spec
CONSTANTS
  Unit = 100
  Top = 1000000000
  Tiny = 1
  BlockLen = 3
  NaN = NaN
  Values <- SomeValues
  Blocks <- SomeBlocks
  StochScales <- SomeScales
  Seeds <- SomeSeeds
  MaxOps = 5
CHECK_DEADLOCK FALSE
INVARIANTS
  ObservedFits
  BlockFits
  WaysToI8Agree
  RoundsToNeighbour
  GeneratorAlive
