SPECIFICATION FlowSpec
CONSTANTS
    u1 = u1
    o1 = o1
    c1 = c1
    s1 = s1
    t1 = t1
    t2 = t2
    r1 = r1
    r2 = r2
    None = None
    Users = {u1}
    Orgs = {o1}
    InternalUsers = {}
    CustomerOrgs = {o1}
    Clients = {c1}
    SessionIds = {s1}
    TokenIds = {t1, t2}
    Lifetime = 1
    MaxTime = 0
    RoleArgs = {None}
    Requests = {r1, r2}
    SingleSession = FALSE
    AllowCancel = TRUE
    AccessLifetime = 1
    MaxPassword = 0
SYMMETRY Symmetry
PROPERTY ImplementsStore
CHECK_DEADLOCK FALSE
