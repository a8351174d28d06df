CONSTANTS
    Registrations = {r1}
    Refreshers = {w1}
    Runners = {k1}
    DayLength = 2
    RefreshAge = 2
    Offsets <- TaiwanOnly
    Homonyms = FALSE
    Uncounted = FALSE
    MaxClock = 4
    MaxRevision = 2
    Absent = Absent
SPECIFICATION Spec
INVARIANTS
    EveryChangeIsFound
