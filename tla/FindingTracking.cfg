CONSTANTS
  Session = {a, b}
  Lease = 2
  None = None
  MaxRequests = 2
  MaxVersion = 4
  MaxClock = 3
  MaxDamages = 1
SPECIFICATION TrackingSpec
INVARIANTS ContextGoesToOneChat DeliveryIsRepeatable
