SPECIFICATION Spec
CONSTANTS
    c1 = c1
    c2 = c2
    i1 = i1
    i2 = i2
    k1 = k1
    k2 = k2
    None = None
    Ids = {i1, i2}
    Tasks = {"task"}
    Tools = {"push"}
    Args = {"a", "b"}
    Effects = {"", "read", "prod"}
    Keys = {k1, k2}
    Strong = TRUE
    Rulebooks <- MCRulebooks
    Clients = {c1, c2}
    Hour = 0
    MaxTime = 1
    MaxFaults = 1
    MaxRestarts = 1
    ReadFaults = {"unreadable", "corrupt"}
INVARIANT AllowOnce
INVARIANT ExecutedAsApproved
INVARIANT DecisionStands
PROPERTY NothingByDefault
SYMMETRY Symmetry
CHECK_DEADLOCK FALSE
