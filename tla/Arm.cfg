\* Two cores on three descriptors, one retry: a core can lose the race for top
\* twice, and the pool runs dry under the other core's feet.  Every number the
\* tree tells apart, and a large one.
SPECIFICATION ArmSpec
CONSTANTS
  Cpu = {c1, c2}
  NumDesc = 3
  Retries = 1
  None = None
  Number = {0, 1, 2, 3, 4, 5, 6, 7, 8, 9, 10, 11, 12, 2147483647}
  Value = {v1, v2}
INVARIANTS
  ArmTypeOK
  TopExact
  RightHandler
PROPERTIES
  DescriptorsOwned
  AllocEnds
  CallerKeepsR7
