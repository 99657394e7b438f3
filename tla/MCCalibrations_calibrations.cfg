SPECIFICATION FairSpec
CONSTANTS
    x1 = x1
    x2 = x2
    y1 = y1
    y2 = y2
    Trans = Trans
    Align = Align
    Cal = Cal
    Owned = Owned
    Nil = Nil
    Items <- TwoEach
    UserMay = {"stop"}
    MaxClicks = 6
INVARIANTS TypeOK ReportIsOwn
PROPERTIES CalibrationsEnd
CHECK_DEADLOCK FALSE
