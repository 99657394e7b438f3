SPECIFICATION FairSpec
CONSTANTS
    e1 = e1
    e2 = e2
    e3 = e3
    Exp = {e1, e2}
    RunObj = {a1, a2, a3}
    Nil = Nil
    Priority <- MixedPrio
    WaitsForGui = {e1}
    MayThrow = {}
    NeedsMore = {}
    Launches <- StartsList
    TimeSlice = 2
    MaxSlice = 2
    MaxLaunches = 3
    Never = 1000
PROPERTIES StopIsHonoured EveryoneRuns StopEndsThread
