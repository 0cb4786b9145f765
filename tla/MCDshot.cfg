CONSTANTS
  ChannelCount = 2
  Throttles = {0, 2047}
  Words = {3583}
  MaxPasses = 4
  MaxDisturbed = 1
  MaxBroken = 1
SPECIFICATION Spec
INVARIANTS TypeOK PacketsWhole NoResponseIsSilence
PROPERTIES ErpmOfThisPass PassCompletes
CHECK_DEADLOCK FALSE
