SPECIFICATION Spec
CONSTANTS
  s1 = s1
  s2 = s2
  Streams = {s1}
  Permitted = {s1}
INVARIANT FollowedIsNotCut
CHECK_DEADLOCK FALSE
