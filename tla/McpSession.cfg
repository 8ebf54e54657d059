\* Three lines, one permit, room for one error reply and two pieces a pipe.
SPECIFICATION FairSpec
CONSTANTS
    Permits = 1
    ErrorRoom = 1
    PipeRoom = 2
    MaxLines = 3
INVARIANTS TypeOK StdoutIsWholeLines WorkersHoldThePermits
    SuccessAnswersEveryBadLine
PROPERTIES LinesAreAnswered ClosedInputEndsProcess
