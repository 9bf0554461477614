SPECIFICATION Spec
CONSTANTS
    Drivers = {"memory", "sqlite", "postgres"}
    MaxWrites = 2
    MaxImports = 2
CHECK_DEADLOCK FALSE
INVARIANTS   RevokedStaysOut
