SPECIFICATION FairSpec
CONSTANTS
    gui = gui
    scheduler = scheduler
    shutter = shutter
    other = other
    Nil = Nil
    Client <- TwoThreads
    Quitter = gui
    Scanner <- OneScanner
    Bit <- Outputs
    Level = {0, 1}
    Switches <- SwitchedBy
    IdRange = 3
    MaxNested = 1
    MaxSessions = 2
    Faults = {"host", "fpga"}
    MaxFaults = 1
INVARIANTS TypeOK 
PROPERTIES SwitchesOneOutput CallReturns ImplementsRemoteCall
