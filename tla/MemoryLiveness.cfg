SPECIFICATION FairSpec
CONSTANTS
    a2 = a2
    p1 = p1
    p2 = p2
    Threads = {t1, t2, t3}
    NoThread = NoThread
    Keys = {k1}
    APIKeys = {}
    Projects = {p1}
    ProjectOf <- MCProjectOf
    Envs = {"production"}
    Pcts = {30}
    PayloadVers = {0}
    CRIds = {"cr1"}
    Users = {"u1", "u2"}
    Reviewers = {"u1", "u2"}
    ClockSteps = {1}
    MaxOps = 4
CHECK_DEADLOCK FALSE
PROPERTIES RequestsFinish
