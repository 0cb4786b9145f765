SPECIFICATION Spec
CONSTANTS
  Words = {w1, w2}
  MaxFrames = 3
INVARIANT TypeOK
PROPERTIES
  ReadsAreAtomic
  LoopReturns
CHECK_DEADLOCK FALSE
