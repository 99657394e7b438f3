SPECIFICATION Spec
CONSTANTS
    e1 = e1
    e2 = e2
    e3 = e3
    Exp = {e1, e2}
    RunObj = {a1, a2, a3}
    Nil = Nil
    Priority <- EqualPrio
    WaitsForGui = {}
    MayThrow = {}
    NeedsMore = {}
    Launches <- Alignment
    TimeSlice = 2
    MaxSlice = 3
    MaxLaunches = 3
    Never = 1000
INVARIANT DeletedOnce
