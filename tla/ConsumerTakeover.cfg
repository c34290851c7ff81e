SPECIFICATION FairSpec
CONSTANTS
  e1 = e1
  e2 = e2
  Nobody = Nobody
  Groups = {"analytics"}
  Members = {m1, m2}
  Events = {e1, e2}
  HourOf <- MCHourOf
  KindOf <- MCKindOf
  Rejects <- MCRejects
  MaxAttempts = 2
  MaxMessages = 3
  MaxFaults = 2
INVARIANTS TypeOK MetricsCountProcessed
PROPERTIES DeliverySpec PublishedIsSettled
CHECK_DEADLOCK FALSE
