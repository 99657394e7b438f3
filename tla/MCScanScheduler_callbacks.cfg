SPECIFICATION Spec
CONSTANTS
    e1 = e1
    e2 = e2
    e3 = e3
    Exp = {e1, e2, e3}
    RunObj = {a1, a2, a3, a4}
    Nil = Nil
    Priority <- MixedPrio
    WaitsForGui = {e1}
    MayThrow = {e2}
    NeedsMore = {e2}
    Launches <- Alignment
    TimeSlice = 1
    MaxSlice = 2
    MaxLaunches = 3
    Never = 1000
SYMMETRY Addresses
INVARIANTS TypeOK BoundedWait ListedAreLive OneRunPerExperiment CurrentIsListed ApparatusHandedOver ButtonsAreCurrent
PROPERTIES ImplementsContract
