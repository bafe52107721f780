SPECIFICATION FairSpec
CONSTANTS
  Items = {i1, i2, i3}
  Failing = {i2}
  Drains = {d1, d2}
  NoItem = NoItem
INVARIANT DrainSeesAll
PROPERTY DrainEnds
CHECK_DEADLOCK FALSE
