CONSTANTS
  Creators = {c1, c2}
  Closers = {d1, d2}
  PoolSize = 1
  Wrap = 8
  Seeds = {3, 5}
SPECIFICATION FairSpec
INVARIANTS SSRCsApart NothingLeft
PROPERTIES CallsReturn
CHECK_DEADLOCK FALSE
