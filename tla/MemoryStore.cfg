SPECIFICATION Spec
CONSTANTS
    a2 = a2
    p1 = p1
    p2 = p2
    Threads = {t1, t2}
    NoThread = NoThread
    Keys = {k1}
    APIKeys = {a1, a2}
    Projects = {p1, p2}
    ProjectOf <- MCProjectOf
    Envs = {"staging", "production"}
    Pcts = {150}
    PayloadVers = {0}
    CRIds = {"cr1"}
    Users = {"u1", "u2"}
    Reviewers = {"u1", "u2"}
    ClockSteps = {1}
    MaxOps = 5
CHECK_DEADLOCK FALSE
SYMMETRY ThreadSymmetry
INVARIANTS TypeOK OrderedChainsVerify AuditFollowsVersions 
PROPERTIES RefinesGovernance AppliesWhatWasApproved
