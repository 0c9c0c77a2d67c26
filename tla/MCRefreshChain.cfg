SPECIFICATION Spec
CONSTANTS
    u1 = u1
    c1 = c1
    c2 = c2
    s1 = s1
    s2 = s2
    t1 = t1
    t2 = t2
    t3 = t3
    t4 = t4
    None = None
    Users = {u1}
    Orgs = {}
    InternalUsers = {}
    CustomerOrgs = {}
    Clients = {c1, c2}
    SessionIds = {s1, s2}
    TokenIds = {t1, t2, t3, t4}
    Lifetime = 2
    MaxTime = 2
    RoleArgs = {None}
SYMMETRY Symmetry
INVARIANTS
    CurrentTokenIsUnspent
    OneSuccessor
    ReplayReasonHasEvidence
PROPERTIES
    FirstRevocationStands
    ImplementsTokenFamily
CHECK_DEADLOCK FALSE
