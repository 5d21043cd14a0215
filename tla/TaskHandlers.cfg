SPECIFICATION MCSpec
CONSTANTS
    r1 = r1
    r2 = r2
    r3 = r3
    r4 = r4
    r5 = r5
    Requests = {r1, r2, r3, r4, r5}
    NoOne = NoOne
    MaxGen = 3
    MaxFaults = 1
    Faulty = {"save", "freeze", "thaw", "dump", "kill", "quota", "pool", "restore"}
    HasCgroup = TRUE
    Idle = FALSE
    DeepTask = TRUE
    HasCRIU = TRUE
    Pooled = TRUE
    SlowTimers = FALSE
    Kinds = {"deeppause", "resume", "pause"}
    AutoResume = FALSE
    Targets = {"review"}
    LaunchPath = "Boot"
    GuestMayExit = FALSE
    Boxes = {"as given", "idling", "bare"}
    MaxRestarts = 0
SYMMETRY Symmetry
CHECK_DEADLOCK FALSE
INVARIANT AllCompensated
PROPERTY DeepPauseSurvives
