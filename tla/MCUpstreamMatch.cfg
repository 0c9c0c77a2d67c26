SPECIFICATION ProofSpec
CONSTANTS
    u1 = u1
    e1 = e1
    e2 = e2
    p1 = p1
    r1 = r1
    r2 = r2
    None = None
    Users = {u1}
    Emails = {e1, e2}
    NameOf <- MCNameOf
    ProofIds = {p1}
    Requests = {r1, r2}
    AllowCancel = FALSE
    ProofLife = 1
    MaxTime = 0
INVARIANT VerifiedAddressWasProved
CHECK_DEADLOCK FALSE
