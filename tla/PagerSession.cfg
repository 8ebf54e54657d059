\* Up to four failed terminal operations and a panic.
SPECIFICATION FairSpec
CONSTANTS
    MaxFaults = 4
    MaxPanics = 1
    None = None
INVARIANTS
    TypeOK
    ObligationsCoverModes
    WritesStayOnAlternateScreen
    GivesTheTerminalBack
    TakenSignalEndsProcess
PROPERTIES
    NothingIsTakenAgain
    SignalEndsProcess
    StopEndsProcess
