SPECIFICATION MCFairSpec
CONSTANTS
    r1 = r1
    r2 = r2
    r3 = r3
    r4 = r4
    r5 = r5
    Requests = {r1}
    NoOne = NoOne
    MaxGen = 4
    MaxFaults = 2
    Faulty = {"save", "freeze", "mem", "kill"}
    HasCgroup = TRUE
    Idle = TRUE
    DeepTask = FALSE
    HasCRIU = TRUE
    Pooled = TRUE
    SlowTimers = TRUE
    Kinds = {"exec", "resume", "transition", "freeze", "terminate", "kill"}
    AutoResume = TRUE
    Targets = {"review", "completed"}
    LaunchPath = "StartTask"
    GuestMayExit = TRUE
    Boxes = {"as given"}
    MaxRestarts = 1
CHECK_DEADLOCK FALSE
INVARIANT TypeOK
INVARIANT SingleCurrentPause
INVARIANT RunningNotFrozen
INVARIANT RunningIsWatched
PROPERTY RetryNeverClobbers
PROPERTY EventuallyPaused
PROPERTY LockReleased
