SPECIFICATION Spec
CONSTANTS
    Domains = {"a", "b"}
    IPs = {1, 2, 3}
    Private = {2}
    AllowDomains = {"a"}
    Workers = {w1, w2}
    MaxLearners = 2
    MaxMaps = 2
    Caps = {1, 2}
    MapEntries = 1
    Budget = 3
    Conns = {c1, c2}
    Policies = {"flat", "deny", "rules"}
    Terms <- MCTerms
    Ops = {"get", "put"}
    MaxSent = 2
SYMMETRY Symmetry
CHECK_DEADLOCK FALSE
INVARIANT TunnelsObeyPolicy
 
INVARIANT LearnerSound
