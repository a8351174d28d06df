CONSTANTS
    Registrations = {1, 2, 3}
    Rates = {1, 2, 3}
    Steps = 3
    Slope <- SlopeTable
    Budget = 2
    StartAges = {1, 7}
    Horizon = 7
SPECIFICATION Spec
INVARIANTS
    AllocationIsOptimal
PROPERTIES
    SettlesWithinTwiceTheInterval
    FailuresStarveNobody
