CONSTANTS
    Registrations = {r1}
    Handlers = {h1, h2}
    Goroutines = {g1, g2}
SPECIFICATION Spec
PROPERTIES
    StaleRequestsShareOneRefresh
CHECK_DEADLOCK FALSE
