SPECIFICATION Spec
CONSTANTS
    p1 = p1
    Handlers = {h1, h2}
    TicksPerMicro = 1
    MaxAborts = 0
    Keys = {k1}
    APIKeys = {a1}
    Projects = {p1}
    ProjectOf <- MCProjectOf
    Envs = {"production"}
    Pcts = {30}
    PayloadVers = {0}
    CRIds = {}
    Users = {"u1", "u2"}
    Reviewers = {"u1", "u2"}
    ClockSteps = {1}
    MaxOps = 2
SYMMETRY HandlerSymmetry
CHECK_DEADLOCK FALSE
INVARIANT ConcurrentChainsVerify
