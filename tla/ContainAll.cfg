SPECIFICATION ContainSpec
CONSTANTS
    TaskIds = {t1}
    Handlers = {h1, h2}
    Reports = {r1, r2, r3}
    MaxTokens = 3
    Budget = 3
    MaxFailures = 2
SYMMETRY Symmetry
INVARIANT RevokedStaysRevoked
INVARIANT ContainmentComplete
INVARIANT EscalatesOnThird
CHECK_DEADLOCK FALSE
