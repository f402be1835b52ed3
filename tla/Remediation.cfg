\* Two windows and two chats, two attempts.
SPECIFICATION Spec
CONSTANTS
    Caller = {w1, w2}
    Session = {s1, s2}
    Attempt = {a1, a2}
    None = None
    MaxGenerates = 2
    MaxClaims = 2
    MaxEdits = 2
    MaxCalls = 2
INVARIANTS ClosedIsQuiet AppliedIsExpected
PROPERTIES FinalStaysFinal ResultFromClaimant
SYMMETRY Symmetry
