SPECIFICATION FlowSpec
CONSTANTS
    u1 = u1
    c1 = c1
    s1 = s1
    s2 = s2
    t1 = t1
    t2 = t2
    r1 = r1
    r2 = r2
    None = None
    Users = {u1}
    Orgs = {}
    InternalUsers = {}
    CustomerOrgs = {}
    Clients = {c1}
    SessionIds = {s1, s2}
    TokenIds = {t1, t2}
    Lifetime = 1
    MaxTime = 0
    RoleArgs = {None}
    Requests = {r1, r2}
    SingleSession = FALSE
    AllowCancel = FALSE
    AccessLifetime = 1
    MaxPassword = 1
SYMMETRY Symmetry
INVARIANT SessionsMatchPassword
CHECK_DEADLOCK FALSE
