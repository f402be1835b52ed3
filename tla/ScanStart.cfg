CONSTANTS
  Process = {p1, p2}
  Content = {x, y}
  None = None
  MaxUpdates = 2
  MaxScans = 2
  MaxPlaces = 2
  MaxChanges = 2
SPECIFICATION Spec
SYMMETRY Symmetry
INVARIANTS ScansHaveTheSetup SnapshotIsOfTarget
PROPERTIES NoScanTwice ResultIsOfTarget
