SPECIFICATION Spec
CONSTANTS
    Tenants = {t1}
    Publics = {p1, p2}
    TenantOf <- SharedTenants
    MaxTries = 2
    t1 = t1
    p1 = p1
    p2 = p2
INVARIANTS PaidOnce AccessIsEarned CompletedIsBacked
PROPERTIES NeverBackwards IdIsKept
CHECK_DEADLOCK FALSE
