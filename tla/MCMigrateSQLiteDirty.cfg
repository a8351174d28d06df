CONSTANTS
    Driver = "sqlite"
    Migrators = {m1, m2}
    Services = {s1}
    Databases <- SQLiteDatabases
    NoOne = NoOne
SPECIFICATION Spec
PROPERTIES
    DirtyIsNeverCleared
