CONSTANTS
    Workers = {g1, g2}
    MinuteTicks = 2
    DayTicks = 8
    Schedule <- TwoMarks
    MaxLag = 1
SPECIFICATION Spec
INVARIANTS
    QuietAfterReturn
    NotifyNeverBlocks
    JobsNeverOverlap
PROPERTIES
    EveryMinuteOnce
    CancelEndsDaemon
    JobsKeepRunning
CHECK_DEADLOCK FALSE
