SPECIFICATION AdministrationSpec
CONSTANTS
    k1 = k1
    k2 = k2
    m1 = m1
    m2 = m2
    v1 = v1
    w1 = w1
    r1 = r1
    s1 = s1
    s2 = s2
    s3 = s3
    None = None
    MaxTime = 2
    KeyIds = {k1, k2}
    DefaultId = k1
    MaxKeys = 3
    Overlaps = {2}
    DefaultOverlap = 1
    Slots = {1}
    AllowFaults = TRUE
    Editors = {1, 2}
    Contents = {"a", "b"}
    MaxVersion = 3
    People = {v1}
    Services = {w1}
    Roles = {r1}
    Members = {m1, m2}
    Troubles = {"account disabled"}
    Orgs = {"x", "y"}
    Humans = {1, 2}
    Machines = {3}
    TxSlots = {1, 2}
    SetupCalls = {s1, s2, s3}
    Connections = {1, 2}
    AdminIds = {"a", "b"}
INVARIANTS
    KidsAreUnique
    FilesMatchMemory
    PreviousSignerVerifies
    HistoryIsExact
    RoleBindingsAreValid
    DecisionsFollowScope
    OwnersAnswerToOwners
    OneOrderNeverDeadlocks
    SetupHappensOnce
CHECK_DEADLOCK FALSE
