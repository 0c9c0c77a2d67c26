SPECIFICATION BoundarySpec
CONSTANTS
    u1 = u1
    u2 = u2
    o1 = o1
    c1 = c1
    s1 = s1
    t1 = t1
    None = None
    Users = {u1, u2}
    Orgs = {o1}
    InternalUsers = {u1}
    CustomerOrgs = {o1}
    Clients = {c1}
    SessionIds = {s1}
    TokenIds = {t1}
    Lifetime = 1
    MaxTime = 1
    RoleArgs = {None, "admin", "owner"}
    MaxKeys = 2
    KeyExpiries = {1}
    Policies <- MCPolicies
    ServiceTtl = 0
    ServiceLeeway = 0
    MaxCalls = 2
    MaxEvents = 5
INVARIANTS
    ScopedSessionsHaveContext
    MachineCallsAreAuthorized
PROPERTY TenantRevocationIsTargeted
CHECK_DEADLOCK FALSE
