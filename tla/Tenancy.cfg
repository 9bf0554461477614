SPECIFICATION Spec
CONSTANTS
    h1 = h1
    h2 = h2
    Handlers = {h1, h2}
    Requests = {"signup", "oauth", "accept", "invite", "oidc", "saveoidc", "neworg", "newproject", "switch", "newkey", "revoke"}
    Drivers = {"memory", "sqlite", "postgres"}
    Emails = {"ann", "bob"}
    Names = {"kim"}
    Suffixes = {1, 2}
    Invited = {"", "bob"}
    HasOIDC = TRUE
    HasStaff = TRUE
    MaxOps = 2
    MaxFaults = 1
    MaxAges = 1
SYMMETRY Symmetry
CHECK_DEADLOCK FALSE
INVARIANTS  SpentInvitationJoined  RevokedKeysStayOut
PROPERTIES LandsInOwnProject SignInKeepsRole
