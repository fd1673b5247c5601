SPECIFICATION BoundedSpec
CONSTANTS
    e1 = e1  e2 = e2  i1 = i1  i2 = i2  None = None
    Requests = {r1, r2, r3}
    Mails = {e1, e2}
    Identities = {i1, i2}
    MailOf <- MCMailOf
    ProviderOf <- MCProviderOf
    Keys <- MCKeys
    Window = 1  Retention = 1  Limit = 2  MaxNow = 2
    TokenLimit = 1  MemberLimit = 1
CHECK_DEADLOCK FALSE
INVARIANTS
    NoHalfTenant
    
    LimitsHold
PROPERTIES
    RequestsEnd
