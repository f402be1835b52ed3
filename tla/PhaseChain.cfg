CONSTANTS
  Candidate = {c1, c2, c3}
  Instance = {i1, i2}
  Severity = {high, low}
  None = None
  MaxItems = 1
  MaxPass = 1
SPECIFICATION ChainSpec
SYMMETRY Symmetry
INVARIANTS ChainStaysBound ReportingCanClose EveryCandidateJudged
