CONSTANTS
  N = 4
  chunk_size = 2
  NSteps = 2
SPECIFICATION Spec
CHECK_DEADLOCK FALSE
INVARIANTS
  GatheredInOrder
  ChunksOneByOne
  TeardownRevealsFailures
PROPERTIES
  EveryWaitEnds
