SPECIFICATION Spec
CONSTANTS
    Stages = 2
    Envs = {"production"}
    TicksPerSecond = 3
    Replicas = {"r1", "r2"}
    FirstReplica = "r1"
    Drivers = {"memory", "sqlite", "postgres"}
    MaxOps = 2
    MaxFaults = 1
CHECK_DEADLOCK FALSE
INVARIANTS  RollbackSticks
PROPERTIES  ScheduleEnds
