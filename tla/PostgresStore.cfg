SPECIFICATION Spec
CONSTANTS
    p1 = p1
    Handlers = {h1, h2}
    TicksPerMicro = 1
    MaxAborts = 1
    Keys = {k1}
    APIKeys = {a1}
    Projects = {p1}
    ProjectOf <- MCProjectOf
    Envs = {"production"}
    Pcts = {150}
    PayloadVers = {0}
    CRIds = {"cr1"}
    Users = {"u1", "u2"}
    Reviewers = {"u1", "u2"}
    ClockSteps = {1}
    MaxOps = 4
SYMMETRY HandlerSymmetry
CHECK_DEADLOCK FALSE
INVARIANTS  FourEyes AppliedHasLanded
PROPERTIES VersionsCountWrites
