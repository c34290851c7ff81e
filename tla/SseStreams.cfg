SPECIFICATION FairSpec
CONSTANTS
  s1 = s1
  s2 = s2
  Streams = {s1, s2}
  Permitted = {s1}
INVARIANTS TypeOK NoGap
PROPERTY OpenIsFollowed
CHECK_DEADLOCK FALSE
