SPECIFICATION FairSpec
CONSTANTS
    WriteDepth = 2
    ReadDepth = 1
    Modulus = 3
    TMax = 8
    TBig = 5
    MinTime = 4
    Nothing = Nothing
    Times = {17}
    CheckInterval = 9
    CheckedTimes = {4, 10}
    Photons = {2}
    Freqs = {0, 1}
    MaxCounted = 1
    MaxBad = 1
INVARIANTS TypeOK VacancyIsSafe ResultIsAwaited ReadBackAgrees PartsAreTimeable
PROPERTIES GapIsReported CallReturns ImplementsPhotonCounter
