SPECIFICATION Spec
CONSTANTS
    Param = {g, s}
    Shown = {g, s}
    ReadOnly = {s}
    PageSets = {s}
    ExpReads = {g}
    ExpSets = {g, s}
    Scanned = {g}
    Values <- Three
    Written <- Text
    Displayed <- Round
    SignalsMeetLock = TRUE
    NoParam = NoParam
    MaxRevision = 1
    MaxLead = 1
    MaxRecalculations = 1
INVARIANTS TypeOK Coherent WidgetsAgree
