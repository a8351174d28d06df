CONSTANTS
    Registrations = {r1}
    Refreshers = {w1}
    Runners = {k1, k2}
    DayLength = 2
    RefreshAge = 1
    Offsets <- Zones
    Homonyms = TRUE
    Uncounted = TRUE
    MaxClock = 2
    MaxRevision = 1
    Absent = Absent
SPECIFICATION Spec
SYMMETRY Symmetry
INVARIANTS
    ChecksCoverElapsedTime
PROPERTIES
    LostOnlyAcrossMidnight
