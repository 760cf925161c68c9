CONSTANTS
    a = a
    b = b
    d = d
    e = e
    p = p
    q = q
    r = r
    y = y
    Atoms = {a, b, d, e}
    Composites = {p, q, r}
    ThirdParty = {y}
    Exceptions = {}
    Books <- LayerBooks
    MaxRounds = 3
    MaxFindings = 1
    MayCancel = FALSE
    MayRunLate = FALSE
SPECIFICATION EvalSpec
INVARIANTS
    DropsOnlyOrphans
