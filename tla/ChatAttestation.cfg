CONSTANTS
  Session = {s, t}
  Server = {p, q}
  Nonce = {m, n}
  Act = {x, y}
  p = p
  q = q
  Latest <- Versions
  TTL = 1
  None = None
  MaxHooks = 2
  MaxClock = 1
SPECIFICATION Spec
INVARIANTS ActsAreAttested OldServersStop
PROPERTY AttestationStaysUsable
SYMMETRY Symmetry
