CONSTANTS
  Window = {v, w}
  Version = {new, old}
  Entry = {entry, clash}
  Clash = clash
  OldKey = oldkey
  None = None
  MaxEdits = 1
SPECIFICATION Spec
INVARIANTS OneInstallationKey RuntimeIsThere SuccessLasts EditsSurvive StaleRulesAreOwed
SYMMETRY Symmetry
