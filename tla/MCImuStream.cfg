SPECIFICATION Spec
CONSTANTS
  Entries = {e1, e2, e3}
  CqCount = 2
  MaxFaults = 4
INVARIANTS
  TypeOK
  LeakBounded
PROPERTY StreamRecovers
