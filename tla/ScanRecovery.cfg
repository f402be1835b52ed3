CONSTANTS
  Session = {a, b}
  FirstOwner = a
  Lease = 2
  None = None
  MaxRequests = 2
  MaxVersion = 4
  MaxClock = 3
SPECIFICATION Spec
INVARIANT OwnerIsLastHandoff
PROPERTY ClaimsAreExclusive
CHECK_DEADLOCK FALSE
