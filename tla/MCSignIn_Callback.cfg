SPECIFICATION Spec
CONSTANTS
    e1 = e1  e2 = e2  i1 = i1  i2 = i2  None = None
    Requests = {r1, r2}
    Mails = {e1, e2}
    Identities = {i1, i2}
    MailOf <- MCMailOf
    ProviderOf <- MCProviderOf
    Keys <- MCKeys
    Window = 2  Retention = 2  Limit = 2  MaxNow = 3
    TokenLimit = 1  MemberLimit = 1
INVARIANTS NoCallbackFails
CHECK_DEADLOCK FALSE
