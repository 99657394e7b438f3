SPECIFICATION FairSpec
CONSTANTS
    Scan = {s}
    Lock = {l}
    Nobody = Nobody
    Points <- TwoPoints
    Centers = {5}
    Modulation = 1
    UserValues = {3}
    ScanCounts = {1, 2}
    NumMeasurements = 2
    EditsAnyTime = TRUE
    MaxLaunches = 2
INVARIANTS TypeOK MeasurementsAreFresh
PROPERTIES CompleteScans MeasurementsGiveWay ImplementsLoan
