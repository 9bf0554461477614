SPECIFICATION Spec
CONSTANTS
    p1 = p1
    Handlers = {h1, h2}
    NoHandler = NoHandler
    DefaultProject = p1
    SeedKey = k1
    TicksPerDigit = 3
    MaxFaults = 1
    Keys = {k1}
    APIKeys = {a1}
    Projects = {p1}
    ProjectOf <- MCProjectOf
    Envs = {"production"}
    Pcts = {150}
    PayloadVers = {1}
    CRIds = {"cr1"}
    Users = {"u1", "u2"}
    Reviewers = {"u1", "u2"}
    ClockSteps = {1}
    MaxOps = 4
SYMMETRY HandlerSymmetry
CHECK_DEADLOCK FALSE
INVARIANTS WritesAreFresh  NoFalseAlarm
PROPERTIES LandsOnce
