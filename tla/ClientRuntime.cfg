SPECIFICATION Spec
CONSTANTS
    Parts = {"local", "remote", "telemetry"}
    Mine = "p"
    Others = {"q"}
    DefaultProject = "p"
    Empty = {0}
    Writers = {w1, w2}
    Streams = {"s1"}
    HubBuffer = 1
    SendBuffer = 1
    Setups <- MCSetups
    Loops = {"loop1"}
    MaxFaults = 1
    Callers = {c1, c2, c3}
    Threshold = 2
    Libraries = {"client", "sdk"}
    Reporters = {"client", "sdk"}
    EvalFlags = {"f", "g"}
    Variants = {"on", "off"}
    Users = {"u1", "u2"}
    Senders = {s1, s2}
    MaxBufferedFlags = 1
    MaxVariantsPerFlag = 1
    maxFlagsPerProject = 1
    maxTrackedUsersPerVariant = 1
    MaxRecorded = 3
CHECK_DEADLOCK FALSE
INVARIANTS
    
    TrialComesBack
    CountedOnce
    
PROPERTIES
    Converges
    Copies
    OpensOnStreak
    
