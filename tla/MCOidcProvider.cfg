SPECIFICATION OidcSpec
CONSTANTS
    None = None
    u1 = u1
    o1 = o1
    c1 = c1
    k1 = k1
    k2 = k2
    r1 = r1
    r2 = r2
    b1 = b1
    g1 = g1
    g2 = g2
    Users = {u1}
    Orgs = {o1}
    InternalUsers = {}
    CustomerOrgs = {o1}
    Clients = {c1}
    ClientOrg <- MCClientOrg
    Confidential = {c1}
    Grants = {g1, g2}
    Codes = {k1}
    Cookies = {b1}
    Slots = {r1, r2}
    MaxVersion = 1
    OrgStatusArgs = {"active", "disabled"}
    StatusArgs = {"pending", "active"}
    RoleArgs = {"owner"}
    CodeLife = 1
    CookieLife = 1
    MaxTime = 1
INVARIANTS
    CodeRedeemedOnce
    CodesMatchRegistration
    PendingCodesHaveTenant
    CookiesMatchAccount
PROPERTY RedeemedWithCurrentSecret
SYMMETRY MCSymmetry
CHECK_DEADLOCK FALSE
