CONSTANTS
    Registrations = {r1}
    Handlers = {h1, h2}
    Goroutines = {g1, g2}
SPECIFICATION Spec
INVARIANTS
    OneRefreshPerItem
    QuietAfterClose
    DrainedBeforeClose
PROPERTIES
    SignalEndsServer
    RefreshEnds
CHECK_DEADLOCK FALSE
