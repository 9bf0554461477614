SPECIFICATION Spec
CONSTANTS
    h1 = h1
    h2 = h2
    Handlers = {h1, h2}
    Requests = {"signup", "login", "logout", "oauth", "change", "forgot", "reset", "profile"}
    Drivers = {"memory", "sqlite", "postgres"}
    Emails = {"ann", "bob"}
    Names = {"kim"}
    Suffixes = {1}
    Invited = {}
    HasOIDC = FALSE
    HasStaff = FALSE
    MaxOps = 3
    MaxFaults = 1
    MaxAges = 1
SYMMETRY Symmetry
CHECK_DEADLOCK FALSE
INVARIANTS UniqueEmails ResetTokenSpentOnce SessionsFollowPassword ChosenNameStays
