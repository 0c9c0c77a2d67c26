SPECIFICATION CredentialSpec
CONSTANTS
    u1 = u1
    u2 = u2
    u3 = u3
    e1 = e1
    e2 = e2
    s1 = s1
    p1 = p1
    p2 = p2
    r1 = r1
    t1 = t1
    f1 = f1
    f2 = f2
    o1 = o1
    o2 = o2
    g1 = g1
    None = None
    MaxTime = 3
    Users = {u1}
    Emails = {e1, e2}
    NameOf <- MCNameOf
    ProofIds = {p1, p2}
    Requests = {r1}
    AllowCancel = TRUE
    ProofLife = 1
    MfaSlots = {1, 2}
    AccessTokens = {t1}
    MaxSeeds = 2
    RecentTime = 1
    CodeCount = 1
    LoginSlots = {1, 2}
    Window = 2
    Lockout = 2
    MaxFailed = 2
    Quota <- MCQuota
    UpSlots = {1, 2}
    LocalUser = u1
    JitUsers = {u2, u3}
    Subjects = {s1}
    Mails = {e1, e2}
    Profiles <- MCProfiles
    LocalMail = e1
    MaxEdits = 1
    MaxLogins = 2
    Staff = {f1, f2}
    Customers = {o1, o2}
    ReadOps = {"a", "b"}
    Grants = {g1}
    SupportTtl = 1
    SupportLeeway = 1
    GrantArgs <- MCGrantArgs
    MaxRequests = 2
    MaxChanges = 1
INVARIANTS
    OneUsableProof
    PendingProofsAreCurrent
    VerifiedAddressWasProved
    ResetThroughProvedAddress
    TotpCodeUsedOnce
    ProofsBelongToFactor
    GrantsAreBounded
    GuessesAreBounded
    SourceStateMatchesTrust
    NoStrandedUser
    DisclosureIsAuthorized
    SupportIsAudited
PROPERTY UndeliveredProofIsRevoked
CHECK_DEADLOCK FALSE
