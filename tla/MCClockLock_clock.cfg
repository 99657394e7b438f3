SPECIFICATION FairSpec
CONSTANTS
    plus = plus
    scan = scan
    sigma = sigma
    Lock = {plus}
    Shot = {scan}
    Other = {sigma}
    GroundState <- ZeemanState
    NumAl = {1, 2}
    MinProb = 2
    MaxDetections = 4
    MaxTries = 1
    CheckPrep = {TRUE}
    nProbeFreqs = 3
    lineWidths = 1
    gainPoints = 2
    xtraPoints = 0
INVARIANTS TypeOK AnswerIsTrue CountsAreFlips PlanIsKept
PROPERTIES RunEnds
