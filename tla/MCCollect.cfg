CONSTANTS
    None = None
    Unread = Unread
    NoId = 0
    Ids = {1, 2}
    MaxRows = 2
    Sessions = {s1, s2}
    MaxPages = 2
    MaxDetails = 1
SPECIFICATION Spec
INVARIANTS
    TypeOK
    FirstRowsWin
    ChecksAreRestored
    SuccessMeansDone
PROPERTIES
    ProductionKeepsItsDatabase
    ImportsAreWhole
    JobsEnd
