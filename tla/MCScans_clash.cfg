SPECIFICATION Spec
CONSTANTS
    Scan = {s}
    Lock = {l}
    Nobody = Nobody
    Points <- TwoPoints
    Centers = {5}
    Modulation = 1
    UserValues = {3, 5}
    ScanCounts = {1, 2}
    NumMeasurements = 2
    EditsAnyTime = FALSE
    MaxLaunches = 3
PROPERTY ScanLeavesAsFound
