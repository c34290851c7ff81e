SPECIFICATION Spec
CONSTANTS
  p1 = p1
  p2 = p2
  e1 = e1
  e2 = e2
  Publishers = {p1, p2}
  Events = {e1, e2}
  BatchSize = 2
  Lease = 2
  RetryBase = 1
  RetryMax = 3
  Horizon = 4
SYMMETRY Interchangeable
INVARIANTS TypeOK ClaimsAreFenced PublishedWasSent SentOncePerClaim NeverStranded
PROPERTY PublishedIsFinal
