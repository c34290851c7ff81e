SPECIFICATION Spec
CONSTANTS
  e1 = e1
  e2 = e2
  Nobody = Nobody
  Groups = {"analytics", "notification"}
  Members = {m1}
  Events = {e1, e2}
  HourOf <- MCHourOf
  KindOf <- MCKindOf
  Rejects <- MCRejects
  MaxAttempts = 2
  MaxMessages = 2
  MaxFaults = 1
PROPERTIES DeliverySpec
INVARIANT ToldBoundedly
CHECK_DEADLOCK FALSE
