SPECIFICATION Spec
CONSTANTS
    web = web
    job = job
    tmp = tmp
    NoProc = NoProc
    Procs = {p1, p2}
    Tasks = {web, job, tmp}
    SpecOf <- MCSpecOf
    Slots = 2
    Overlap = FALSE
    MaxFaults = 2
SYMMETRY LaunchSymmetry
CHECK_DEADLOCK FALSE
INVARIANT GuestKept
INVARIANT Returned
INVARIANT CompactsIdleOverlay
