SPECIFICATION Spec
CONSTANTS
    Instance = {i1, i2}
    Path = {p1, p2, p3}
    Identity = {x, y}
    SurfaceId = {"api", "API", "long", ""}
    Slug <- MCSlug
    TooLong = {p3, "long"}
    Reportable = {"high", "low"}
    Disposition = {"no_issue_found", "needs_follow_up"}
    MaxFindings = 2
    MaxSurfaces = 2
    MaxRefusals = 1
    None = None
    TargetHasName = TRUE
INVARIANTS AcceptedIsSealed ReportIsTrue
SYMMETRY Symmetry
CHECK_DEADLOCK FALSE
