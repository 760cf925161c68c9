CONSTANTS
    a = a
    b = b
    d = d
    e = e
    p = p
    q = q
    r = r
    y = y
    Atoms = {a, b, d, e}
    Composites = {p, q, r}
    ThirdParty = {y}
    Exceptions = {q}
    Books <- MCBooks
    MaxRounds = 3
    MaxFindings = 1
    MayCancel = TRUE
    MayRunLate = TRUE
SPECIFICATION EvalSpec
INVARIANTS
    
    NothingSuppressedLeft
    EveryCompositeStands
    DropsHaveCause
