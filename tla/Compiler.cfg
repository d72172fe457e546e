\* Two compilers that share a file, up to two instructions each.  The
\* client may stop: deadlock is not checked.
SPECIFICATION CSpec
CONSTANTS
  Compilers = {p1, p2}
  Ops <- SomeOps
  MaxLen = 2
  BlockLen = 32
  Taken = Taken
  Absent = Absent
  Torn = Torn
CHECK_DEADLOCK FALSE
INVARIANTS
  CTypeOK
  EngineGraphIsWhole
PROPERTIES
  NothingLost
  SavesOnce
