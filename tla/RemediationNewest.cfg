\* Two windows whose requests overtake each other.
SPECIFICATION Spec
CONSTANTS
    Caller = {w1, w2}
    Session = {s1}
    Attempt = {a1, a2, a3}
    None = None
    MaxGenerates = 3
    MaxClaims = 1
    MaxEdits = 1
    MaxCalls = 2
INVARIANT OneLiveAttempt
