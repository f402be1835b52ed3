\* Two slots and two rounds, the second one capped; two agents that resume.
CONSTANTS
  Slot = {w1, w2}
  MaxRounds = 2
  Agent = {a1, a2}
  Candidate = {c1}
  Canonical = {k1, k2}
  Brief = {b1, b2}
  ReadyBrief = {b1}
  Partial = {p1, p2}
  None = None
  MaxAttempts = 2
  MaxCheckpoints = 2
SPECIFICATION Spec
SYMMETRY Symmetry
INVARIANTS MergesStayBound NeverStuck NothingIsLost
PROPERTY NoLostProgress
CHECK_DEADLOCK FALSE
