CONSTANTS
    Driver = "mysql"
    Migrators = {m1, m2}
    Services = {s1}
    Databases <- MySQLDatabases
    NoOne = NoOne
SPECIFICATION Spec
INVARIANTS
    MarkedIsApplied
    ServiceHasFullSchema
    OnlyPendingExecute
    SuccessMeansCurrent
PROPERTIES
    DirtyIsNeverCleared
    MigrationEnds
